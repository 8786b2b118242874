---------------------------- MODULE EventLoopProofs ----------------------------
(***************************************************************************)
(* Proofs about EventLoop, for every number of connections, workers and    *)
(* lists and every workload: the four safety invariants of its run.        *)
(*                                                                         *)
(*   Types /\ Control   where a worker is tells what it holds; every other *)
(*                      proof starts from here.                            *)
(*   WaitersAreLive     inductive as it stands.                            *)
(*   BlockedIsAwaited   inductive as it stands.                            *)
(*   IsTallied          EachValueOnce, with the rows of Held as functions. *)
(*   AllOrderly         PlainInOrder, with the number of the last reply    *)
(*                      tied to the requests taken (AtReply) and at most   *)
(*                      one answer under way, of the BRPOP that blocks     *)
(*                      (OneAnswer).                                       *)
(***************************************************************************)
EXTENDS EventLoop, DataLemmas, FiniteSetTheorems

Request  == Nat \X Command
Waiter   == [client : Clients, id : Nat, left : Nat,
             keys : Seq(Keys) \ {<<>>}, timed : BOOLEAN]
Answer   == [id : Nat, left : Nat, value : Nat]
Delivery == [to : Clients, what : Answer]

Serving == {"run", "register", "notify", "scan", "deliver"}
Places  == Serving \cup {"loop", "parse", "remove"}

ClientTypes ==
  /\ sock \in [Clients -> Seq(Request)] /\ rbuf \in [Clients -> Seq(Request)]
  /\ sent \in [Clients -> Nat]
  /\ replies \in [Clients -> Seq(Answer)] /\ pending \in [Clients -> Seq(Answer)]
  /\ blocked \in [Clients -> BOOLEAN]
  /\ multi \in [Clients -> BOOLEAN] /\ queue \in [Clients -> Seq(Command)]
  /\ open \in [Clients -> BOOLEAN] /\ gone \in [Clients -> BOOLEAN]
  /\ subs \subseteq Clients /\ IsFiniteSet(subs)

StoreTypes ==
  /\ list \in [Keys -> Seq(Nat)] /\ issued \in Nat
  /\ waiters \in Seq(Waiter) /\ expired \in Seq(Waiter)
  /\ mutex \in Workers \cup {"none"}

WorkerTypes ==
  /\ pc \in [Workers -> Places] /\ conn \in [Workers -> Clients]
  /\ id \in [Workers -> Nat] /\ run \in [Workers -> Seq(Command)]
  /\ tx \in [Workers -> BOOLEAN] /\ at \in [Workers -> Nat \X Nat]
  /\ out \in [Workers -> Seq(Delivery)]

(* Where a worker is tells what it holds. *)
AtHome(w) == pc[w] # "loop" => Home[conn[w]] = w /\ open[conn[w]]

HasCommand(w) ==
  pc[w] \in Serving =>
    /\ run[w] # <<>>
    /\ pc[w] = "register" => Cmd(w).op = "brpop"
    /\ pc[w] \in {"notify", "scan"} => Cmd(w).op = "rpush"

HasMutex(w) == mutex = w <=> pc[w] = "scan"

HasAnswers(w) == out[w] # <<>> => pc[w] = "deliver"

PopsBlocking(w) == pc[w] = "run" /\ Cmd(w).op = "brpop"

HasPlace(w) ==
  /\ pc[w] = "scan" =>
       /\ at[w][1] \in 1 .. Len(waiters) + 1
       /\ at[w][1] <= Len(waiters) => at[w][2] \in 1 .. Len(waiters[at[w][1]].keys)
  /\ PopsBlocking(w) => at[w][1] = 1 /\ at[w][2] \in 1 .. Len(Cmd(w).keys)
  /\ pc[w] # "scan" /\ ~PopsBlocking(w) => at[w] = <<1, 1>>

InPlace(w) ==
  AtHome(w) /\ HasCommand(w) /\ HasMutex(w) /\ HasAnswers(w) /\ HasPlace(w)

Control == \A w \in Workers : InPlace(w)

Types == ClientTypes /\ StoreTypes /\ WorkerTypes

-----------------------------------------------------------------------------
\* A waiter that is served is in the list.
LEMMA ScannedPlace ==
  ASSUME Types, Control, NEW w \in Workers, Serve(w)
  PROVE  /\ at[w][1] \in 1 .. Len(waiters)
         /\ at[w][2] \in 1 .. Len(waiters[at[w][1]].keys)
<1> DEFINE p == at[w][1]
           l == Len(waiters)
           K == 1 .. Len(waiters[p].keys)
<1>1. pc[w] = "scan" /\ p <= l
  BY Zenon DEF Serve
<1>2. HasPlace(w)
  BY Zenon DEF Control, InPlace
<1>3. p \in 1 .. l + 1 /\ at[w][2] \in K
  BY <1>1, <1>2, Zenon DEF HasPlace
<1>4. l \in Nat
  BY LenProperties DEF Types, StoreTypes
<1> HIDE DEF p, l, K
<1>5. p \in 1 .. l
  BY ONLY <1>1, <1>3, <1>4
<1> QED BY <1>3, <1>5 DEF p, l, K

LEMMA CommandFields ==
  /\ \A x \in Command : x.op = "rpush" => x.key \in Keys /\ x.n \in Nat
  /\ \A x \in Command : x.op = "rpop" => x.key \in Keys
  /\ \A x \in Command : x.op = "brpop" =>
       x.keys \in Seq(Keys) /\ x.keys # <<>> /\ x.timed \in BOOLEAN
BY DEF Command

LEMMA CommandsType ==
  ASSUME NEW c \in Clients
  PROVE  Commands(c) \subseteq Command /\ MaxSent(c) \in Nat
         /\ \A i \in 1 .. MaxSent(c) : Workload[c][i] \subseteq Commands(c)
<1>1. Workload[c] \in Seq(SUBSET Command)
  BY WorkloadAssumption
<1>2. /\ Len(Workload[c]) \in Nat
      /\ \A i \in 1 .. Len(Workload[c]) : Workload[c][i] \subseteq Command
  BY <1>1
<1>3. ToSet(Workload[c]) = {Workload[c][i] : i \in 1 .. Len(Workload[c])}
  BY <1>1 DEF ToSet
<1> QED BY <1>2, <1>3 DEF Commands, MaxSent

LEMMA InitTypes == Init => Types /\ Control
<1> SUFFICES ASSUME Init PROVE Types /\ Control
  OBVIOUS
<1>1. (CHOOSE c \in Clients : TRUE) \in Clients
  BY HomeAssumption
<1>2. IsFiniteSet({})
  BY FS_EmptySet
<1>3. ClientTypes
  BY <1>2 DEF Init, ClientTypes
<1>4. StoreTypes
  BY DEF Init, StoreTypes
<1>5. WorkerTypes
  BY <1>1 DEF Init, WorkerTypes, Places, Serving
<1>6. Control
  BY WorkerAssumption DEF Init, Control, InPlace, AtHome, HasCommand, HasMutex, HasAnswers, HasPlace, PopsBlocking, Serving
<1> QED BY <1>3, <1>4, <1>5, <1>6 DEF Types

LEMMA ClientSteps ==
  ASSUME Types, NEW c \in Clients, Send(c) \/ Hangup(c)
  PROVE  Types'
<1> USE DEF Types
<1>1. CASE Send(c)
  <2>1. PICK cmd \in Workload[c][sent[c] + 1] : sock' = [sock EXCEPT ![c] = Append(@, <<sent[c] + 1, cmd>>)]
    BY <1>1 DEF Send
  <2>0. sent[c] + 1 \in 1 .. MaxSent(c)
    BY <1>1, CommandsType DEF Send, ClientTypes
  <2>2. cmd \in Command
    BY <2>0, <2>1, CommandsType
  <2>3. sock' \in [Clients -> Seq(Request)]
    BY <2>1, <2>2, SMTT(60) DEF ClientTypes, Request
  <2>4. ClientTypes'
    BY <1>1, <2>3 DEF Send, ClientTypes, peer, txn
  <2>5. StoreTypes'
    BY <1>1 DEF Send, StoreTypes, store
  <2>6. WorkerTypes'
    BY <1>1 DEF Send, WorkerTypes, task
  <2> QED BY <2>4, <2>5, <2>6
<1>2. CASE Hangup(c)
  <2>1. ClientTypes'
    BY <1>2 DEF Hangup, ClientTypes, net, txn
  <2>2. StoreTypes' /\ WorkerTypes'
    BY <1>2 DEF Hangup, StoreTypes, WorkerTypes, store, task
  <2> QED BY <2>1, <2>2
<1> QED BY <1>1, <1>2

LEMMA ReadSteps ==
  ASSUME Types, Control, NEW w \in Workers,
         HandleRead(w) \/ ParseEnd(w) \/ Quit(w) \/ Transaction(w) \/ Exec(w) \/ Queue(w) \/ Ordinary(w)
  PROVE  Types'
<1> USE DEF Types
<1>c. conn[w] \in Clients
  BY DEF WorkerTypes
<1>1. CASE HandleRead(w)
  <2>4. ClientTypes'
    BY <1>c, <1>1, SMTT(30) DEF HandleRead, ClientTypes, peer, txn
  <2>5. StoreTypes'
    BY <1>c, <1>1 DEF HandleRead, StoreTypes, store
  <2>6. WorkerTypes'
    BY <1>c, <1>1 DEF HandleRead, WorkerTypes, Goto, Places
  <2> QED BY <2>4, <2>5, <2>6
<1>2. CASE ParseEnd(w)
  BY <1>2 DEF ParseEnd, ClientTypes, StoreTypes, WorkerTypes, net, peer, txn, store, task, Goto, Places
<1>3. ASSUME \E ops : Take(w, ops) PROVE
      /\ rbuf' \in [Clients -> Seq(Request)] /\ id' \in [Workers -> Nat] /\ Taken(w) \in Command
  <2>1. Head(rbuf[conn[w]]) \in Nat \X Command
    BY <1>c, <1>3 DEF Take, ClientTypes, Request
  <2>2. Tail(rbuf[conn[w]]) \in Seq(Request)
    BY <1>c, <1>3 DEF Take, ClientTypes
  <2> QED BY <1>3, <2>1, <2>2, <1>c, SMTT(60) DEF Take, Taken, WorkerTypes, ClientTypes
<1>4. ASSUME id' \in [Workers -> Nat], \E left \in Nat : Acknowledge(w, left) PROVE replies' \in [Clients -> Seq(Answer)]
  <2>0. PICK left \in Nat : Acknowledge(w, left)
    BY <1>4
  <2>1. Reply(id'[w], left, Nothing) \in Answer
    BY <1>4 DEF Reply, Answer, Nothing
  <2> QED BY <1>4, <2>0, <2>1, <1>c DEF Acknowledge, ClientTypes
<1>5. CASE Quit(w)
  <2>1. rbuf' \in [Clients -> Seq(Request)] /\ id' \in [Workers -> Nat] /\ replies' \in [Clients -> Seq(Answer)]
    BY <1>3, <1>4, <1>5 DEF Quit
  <2>2. multi' \in [Clients -> BOOLEAN] /\ queue' \in [Clients -> Seq(Command)]
    BY <1>c, <1>5 DEF Quit, ClientTypes
  <2>4. ClientTypes'
    BY <1>5, <2>1, <2>2 DEF Quit, ClientTypes, peer
  <2>5. StoreTypes'
    BY <1>5 DEF Quit, StoreTypes, store
  <2>6. WorkerTypes'
    BY <1>c, <1>5, <2>1 DEF Quit, WorkerTypes, Goto, Places
  <2> QED BY <2>4, <2>5, <2>6
<1>6. CASE Transaction(w)
  <2>1. rbuf' \in [Clients -> Seq(Request)] /\ id' \in [Workers -> Nat] /\ replies' \in [Clients -> Seq(Answer)]
    BY <1>3, <1>4, <1>6 DEF Transaction
  <2>2. multi' \in [Clients -> BOOLEAN]
    BY <1>6 DEF Transaction, ClientTypes, txn
  <2>3. queue' = queue \/ queue' = [queue EXCEPT ![conn[w]] = <<>>]
    BY <1>6 DEF Transaction, txn
  <2>8. queue \in [Clients -> Seq(Command)] /\ <<>> \in Seq(Command)
    BY DEF ClientTypes
  <2>7. queue' \in [Clients -> Seq(Command)]
    BY <1>c, <2>3, <2>8
  <2>4. ClientTypes'
    BY <1>6, <2>1, <2>2, <2>7 DEF Transaction, ClientTypes, peer
  <2>5. StoreTypes'
    BY <1>6 DEF Transaction, StoreTypes, store
  <2>6. WorkerTypes'
    BY <1>c, <1>6, <2>1 DEF Transaction, WorkerTypes
  <2> QED BY <2>4, <2>5, <2>6
<1>7. CASE Exec(w)
  <2>2. queue[conn[w]] \in Seq(Command) /\ Len(queue[conn[w]]) \in Nat
    BY <1>c DEF ClientTypes
  <2>1. rbuf' \in [Clients -> Seq(Request)] /\ id' \in [Workers -> Nat] /\ replies' \in [Clients -> Seq(Answer)]
    BY <1>3, <1>4, <1>7, <2>2 DEF Exec
  <2>3. multi' \in [Clients -> BOOLEAN] /\ queue' \in [Clients -> Seq(Command)]
    BY <1>c, <1>7, <2>1 DEF Exec, ClientTypes
  <2>4. ClientTypes'
    BY <1>7, <2>1, <2>3 DEF Exec, ClientTypes, peer
  <2>5. StoreTypes'
    BY <1>7 DEF Exec, StoreTypes, store
  <2>6. WorkerTypes'
    BY <1>7, <2>1, <2>2 DEF Exec, WorkerTypes, Goto, Places, Serving
  <2> QED BY <2>4, <2>5, <2>6
<1>8. CASE Queue(w)
  <2>1. rbuf' \in [Clients -> Seq(Request)] /\ id' \in [Workers -> Nat] /\ Taken(w) \in Command /\ replies' \in [Clients -> Seq(Answer)]
    BY <1>3, <1>4, <1>8 DEF Queue
  <2>2. queue' = queue \/ queue' = [queue EXCEPT ![conn[w]] = Append(@, Taken(w))]
    BY <1>8 DEF Queue
  <2>7. queue \in [Clients -> Seq(Command)] /\ Append(queue[conn[w]], Taken(w)) \in Seq(Command)
    BY <1>c, <2>1 DEF ClientTypes
  <2>3. queue' \in [Clients -> Seq(Command)]
    BY <1>c, <2>2, <2>7
  <2>4. ClientTypes'
    BY <1>8, <2>1, <2>3 DEF Queue, ClientTypes, peer
  <2>5. StoreTypes'
    BY <1>8 DEF Queue, StoreTypes, store
  <2>6. WorkerTypes'
    BY <1>c, <1>8, <2>1 DEF Queue, WorkerTypes
  <2> QED BY <2>4, <2>5, <2>6
<1>9. CASE Ordinary(w)
  <2>1. rbuf' \in [Clients -> Seq(Request)] /\ id' \in [Workers -> Nat] /\ Taken(w) \in Command
    BY <1>3, <1>9 DEF Ordinary
  <2>4. ClientTypes'
    BY <1>c, <1>9, <2>1 DEF Ordinary, ClientTypes, peer, txn
  <2>5. StoreTypes'
    BY <1>9 DEF Ordinary, StoreTypes, store
  <2>2. run' \in [Workers -> Seq(Command)]
    BY <1>9, <2>1 DEF Ordinary, WorkerTypes
  <2>6. WorkerTypes'
    BY <1>9, <2>1, <2>2 DEF Ordinary, WorkerTypes, Goto, Places, Serving
  <2> QED BY <2>4, <2>5, <2>6
<1> QED BY <1>1, <1>2, <1>5, <1>6, <1>7, <1>8, <1>9

LEMMA AdvanceTypes ==
  ASSUME Types, Control, NEW w \in Workers, pc[w] \in Serving, Advance(w)
  PROVE  /\ run' \in [Workers -> Seq(Command)] /\ tx' \in [Workers -> BOOLEAN]
         /\ pc' \in [Workers -> Places]
<1>1. run[w] \in Seq(Command) /\ run[w] # <<>>
  BY DEF Types, WorkerTypes, Control, InPlace, HasCommand
<1>2. Tail(run[w]) \in Seq(Command)
  BY <1>1
<1>3. run' \in [Workers -> Seq(Command)]
  BY <1>2 DEF Advance, Types, WorkerTypes
<1>4. tx' \in [Workers -> BOOLEAN]
  <2>1. (tx[w] /\ Len(run[w]) > 1) \in BOOLEAN
    OBVIOUS
  <2> QED BY <2>1 DEF Advance, Types, WorkerTypes
<1>5. pc' \in [Workers -> Places]
  BY DEF Advance, Goto, Types, WorkerTypes, Places, Serving
<1> QED BY <1>3, <1>4, <1>5

LEMMA DoneTypes ==
  ASSUME Types, Control, NEW w \in Workers, pc[w] \in Serving, NEW v \in Nat, Done(w, v)
  PROVE  /\ run' \in [Workers -> Seq(Command)] /\ tx' \in [Workers -> BOOLEAN]
         /\ pc' \in [Workers -> Places] /\ replies' \in [Clients -> Seq(Answer)]
<1>1. run[w] \in Seq(Command) /\ run[w] # <<>> /\ conn[w] \in Clients /\ id[w] \in Nat
  BY DEF Types, WorkerTypes, Control, InPlace, HasCommand
<1>2. Len(run[w]) - 1 \in Nat
  BY <1>1
<1>3. Reply(id[w], Len(run[w]) - 1, v) \in Answer
  BY <1>1, <1>2 DEF Reply, Answer
<1>4. Append(replies[conn[w]], Reply(id[w], Len(run[w]) - 1, v)) \in Seq(Answer)
  BY <1>1, <1>3 DEF Types, ClientTypes
<1>5. replies' \in [Clients -> Seq(Answer)]
  BY <1>1, <1>4 DEF Done, Tell, Types, ClientTypes
<1> QED BY <1>5, AdvanceTypes DEF Done

(* What a worker has in its hands. *)
LEMMA CommandInHand ==
  ASSUME Types, Control, NEW w \in Workers, pc[w] \in Serving
  PROVE  /\ conn[w] \in Clients /\ run[w] \in Seq(Command) /\ run[w] # <<>>
         /\ Cmd(w) \in Command
         /\ Len(run[w]) \in Nat \ {0}
<1>1. run[w] \in Seq(Command) /\ run[w] # <<>> /\ conn[w] \in Clients
  BY DEF Types, WorkerTypes, Control, InPlace, HasCommand
<1> QED BY <1>1 DEF Cmd

LEMMA RestTypes ==
  ASSUME Types, NEW k \in Keys, list[k] # <<>>
  PROVE  Rest(k) \in [Keys -> Seq(Nat)] /\ Last(list[k]) \in Nat
<1>1. list \in [Keys -> Seq(Nat)]
  BY DEF Types, StoreTypes
<1> QED BY <1>1, LastAndFront DEF Rest

LEMMA WithoutType ==
  ASSUME Types, NEW c
  PROVE  Without(c) \in Seq(Waiter)
BY FilterType DEF Types, StoreTypes, Without

LEMMA CommandSteps ==
  ASSUME Types, Control, NEW w \in Workers,
         RPush(w) \/ RPop(w) \/ TryPop(w) \/ Register(w) \/ Delivered(w) \/ Subscribe(w) \/ Publish(w)
  PROVE  Types'
<1>c. conn[w] \in Clients
  BY DEF Types, WorkerTypes
<1>1. CASE RPush(w)
  <2>1. Cmd(w).key \in Keys /\ Cmd(w).n \in Nat
    BY <1>1, CommandInHand, CommandFields DEF RPush, Runs, Serving
  <2> DEFINE new == [i \in 1 .. Cmd(w).n |-> issued + i]
  <2>2. issued + Cmd(w).n \in Nat /\ new \in Seq(Nat)
    <3>1. issued \in Nat
      BY DEF Types, StoreTypes
    <3>2. new \in [1 .. Cmd(w).n -> Nat]
      BY <2>1, <3>1
    <3> HIDE DEF new
    <3> QED BY <2>1, <3>1, <3>2, SeqDef
  <2>3. list[Cmd(w).key] \o new \in Seq(Nat)
    BY <2>1, <2>2 DEF Types, StoreTypes
  <2>4. list' \in [Keys -> Seq(Nat)] /\ issued' \in Nat
    BY <1>1, <2>1, <2>2, <2>3 DEF Types, StoreTypes, RPush
  <2>5. StoreTypes'
    BY <1>1, <2>4 DEF Types, StoreTypes, RPush
  <2>6. ClientTypes'
    BY <1>1 DEF Types, ClientTypes, RPush, net, txn, peer
  <2>7. WorkerTypes'
    BY <1>1 DEF Types, WorkerTypes, RPush, Goto, Places, Serving, task
  <2> QED BY <2>5, <2>6, <2>7 DEF Types
<1>2. CASE RPop(w)
  <2>1. Cmd(w).key \in Keys /\ pc[w] \in Serving
    BY <1>2, CommandInHand, CommandFields DEF RPop, Runs, Serving
  <2>2. list' \in [Keys -> Seq(Nat)] /\ \E v \in Nat : Done(w, v)
    BY <1>2, <2>1, RestTypes DEF RPop, Types, StoreTypes, Nothing
  <2>3. /\ run' \in [Workers -> Seq(Command)] /\ tx' \in [Workers -> BOOLEAN]
        /\ pc' \in [Workers -> Places] /\ replies' \in [Clients -> Seq(Answer)]
    BY <2>1, <2>2, DoneTypes
  <2>5. StoreTypes'
    BY <1>2, <2>2 DEF Types, StoreTypes, RPop
  <2>6. ClientTypes'
    BY <1>2, <2>3 DEF Types, ClientTypes, RPop, net, txn, peer
  <2>7. WorkerTypes'
    BY <1>2, <2>3 DEF Types, WorkerTypes, RPop
  <2> QED BY <2>5, <2>6, <2>7 DEF Types
<1>3. CASE TryPop(w)
  <2> DEFINE k == Cmd(w).keys[at[w][2]]
             last == at[w][2] = Len(Cmd(w).keys)
  <2>1. pc[w] \in Serving /\ PopsBlocking(w)
    BY <1>3 DEF TryPop, Runs, Serving, PopsBlocking
  <2>2. Cmd(w).keys \in Seq(Keys) /\ at[w][2] \in 1 .. Len(Cmd(w).keys)
    BY <2>1, CommandInHand, CommandFields DEF Control, InPlace, HasPlace, PopsBlocking
  <2>3. k \in Keys
    BY <2>2
  <2>4. at[w] \in Nat \X Nat /\ at \in [Workers -> Nat \X Nat]
    BY DEF Types, WorkerTypes
  <2>5. CASE list[k] # <<>>
    <3>1. Done(w, Last(list[k])) /\ list' = Rest(k) /\ at' = [at EXCEPT ![w] = <<1, 1>>]
      BY <1>3, <2>5 DEF TryPop
    <3> HIDE DEF k
    <3>2. Last(list[k]) \in Nat /\ list' \in [Keys -> Seq(Nat)] /\ at' \in [Workers -> Nat \X Nat]
      BY <2>3, <2>4, <2>5, <3>1, RestTypes
    <3>3. /\ run' \in [Workers -> Seq(Command)] /\ tx' \in [Workers -> BOOLEAN]
          /\ pc' \in [Workers -> Places] /\ replies' \in [Clients -> Seq(Answer)]
      BY <2>1, <3>1, <3>2, DoneTypes
    <3>5. StoreTypes'
      BY <1>3, <3>2 DEF Types, StoreTypes, TryPop
    <3>6. ClientTypes'
      BY <1>3, <3>3 DEF Types, ClientTypes, TryPop, net, txn, peer
    <3>7. WorkerTypes'
      BY <1>3, <3>2, <3>3 DEF Types, WorkerTypes, TryPop
    <3> QED BY <3>5, <3>6, <3>7 DEF Types
  <2>6. CASE list[k] = <<>>
    <3>1. /\ at' = [at EXCEPT ![w] = IF last THEN <<1, 1>> ELSE <<1, @[2] + 1>>]
          /\ Goto(w, IF last THEN "register" ELSE "run")
          /\ UNCHANGED <<replies, run, tx, list>>
      BY <1>3, <2>6 DEF TryPop
    <3>2. (IF last THEN <<1, 1>> ELSE <<1, at[w][2] + 1>>) \in Nat \X Nat
      BY <2>4
    <3> HIDE DEF k, last
    <3>3. at' \in [Workers -> Nat \X Nat]
      BY <2>4, <3>1, <3>2
    <3>5. StoreTypes'
      BY <1>3, <3>1 DEF Types, StoreTypes, TryPop
    <3>6. ClientTypes'
      BY <1>3, <3>1 DEF Types, ClientTypes, TryPop, net, txn, peer
    <3>7. WorkerTypes'
      BY <1>3, <3>1, <3>3 DEF Types, WorkerTypes, TryPop, Goto, Places, Serving
    <3> QED BY <3>5, <3>6, <3>7 DEF Types
  <2> QED BY <2>5, <2>6
<1>4. CASE Register(w)
  <2> DEFINE x == [client |-> conn[w], id |-> id[w], left |-> Len(run[w]) - 1,
                   keys |-> Cmd(w).keys, timed |-> Cmd(w).timed]
  <2>1. pc[w] \in Serving /\ Cmd(w).op = "brpop"
    BY <1>4 DEF Register, Serving, Control, InPlace, HasCommand
  <2>2. /\ Cmd(w).keys \in Seq(Keys) \ {<<>>} /\ Cmd(w).timed \in BOOLEAN
        /\ id[w] \in Nat /\ Len(run[w]) - 1 \in Nat
    BY <2>1, CommandInHand, CommandFields DEF Types, WorkerTypes
  <2>3. x \in Waiter
    BY <1>c, <2>2 DEF Waiter
  <2>4. waiters' = Append(Without(conn[w]), x)
    BY <1>4 DEF Register
  <2> HIDE DEF x
  <2>5. waiters' \in Seq(Waiter)
    BY <2>3, <2>4, WithoutType
  <2>6. /\ run' \in [Workers -> Seq(Command)] /\ tx' \in [Workers -> BOOLEAN]
        /\ pc' \in [Workers -> Places]
    BY <1>4, <2>1, AdvanceTypes DEF Register
  <2>7. blocked' \in [Clients -> BOOLEAN]
    <3>1. (blocked[conn[w]] \/ ~tx[w]) \in BOOLEAN
      OBVIOUS
    <3> QED BY <1>4, <3>1 DEF Types, ClientTypes, Register
  <2>8. StoreTypes'
    BY <1>4, <2>5 DEF Types, StoreTypes, Register, store
  <2>9. ClientTypes'
    BY <1>4, <2>7 DEF Types, ClientTypes, Register, net, txn, peer
  <2>10. WorkerTypes'
    BY <1>4, <2>6 DEF Types, WorkerTypes, Register
  <2> QED BY <2>8, <2>9, <2>10 DEF Types
<1>5. CASE Delivered(w)
  <2>1. pc[w] \in Serving /\ \E v \in Nat : Done(w, v)
    BY <1>5 DEF Delivered, Serving, Nothing
  <2>2. /\ run' \in [Workers -> Seq(Command)] /\ tx' \in [Workers -> BOOLEAN]
        /\ pc' \in [Workers -> Places] /\ replies' \in [Clients -> Seq(Answer)]
    BY <2>1, DoneTypes
  <2>3. StoreTypes'
    BY <1>5 DEF Types, StoreTypes, Delivered, store
  <2>4. ClientTypes'
    BY <1>5, <2>2 DEF Types, ClientTypes, Delivered, net, txn, peer
  <2>5. WorkerTypes'
    BY <1>5, <2>2 DEF Types, WorkerTypes, Delivered
  <2> QED BY <2>3, <2>4, <2>5 DEF Types
<1>6. CASE Subscribe(w)
  <2>1. pc[w] \in Serving /\ \E v \in Nat : Done(w, v)
    BY <1>6 DEF Subscribe, Runs, Serving, Nothing
  <2>2. /\ run' \in [Workers -> Seq(Command)] /\ tx' \in [Workers -> BOOLEAN]
        /\ pc' \in [Workers -> Places] /\ replies' \in [Clients -> Seq(Answer)]
    BY <2>1, DoneTypes
  <2>3. subs' \subseteq Clients /\ IsFiniteSet(subs')
    BY <1>6, <1>c, FS_AddElement DEF Subscribe, Types, ClientTypes
  <2>4. StoreTypes'
    BY <1>6 DEF Types, StoreTypes, Subscribe, store
  <2>5. ClientTypes'
    BY <1>6, <2>2, <2>3 DEF Types, ClientTypes, Subscribe, net, txn
  <2>6. WorkerTypes'
    BY <1>6, <2>2 DEF Types, WorkerTypes, Subscribe
  <2> QED BY <2>4, <2>5, <2>6 DEF Types
<1>7. CASE Publish(w)
  <2>1. PICK order \in SetToSeqs(subs) :
          out' = [out EXCEPT ![w] = [i \in DOMAIN order |-> [to |-> order[i], what |-> Message]]]
    BY <1>7 DEF Publish
  <2>2. Cardinality(subs) \in Nat /\ subs \subseteq Clients
    BY FS_CardinalityType DEF Types, ClientTypes
  <2>3. order \in [1 .. Cardinality(subs) -> subs]
    BY DEF SetToSeqs
  <2>4. Message \in Answer
    BY DEF Message, Answer, Nothing
  <2> DEFINE n == Cardinality(subs)
             s == [i \in DOMAIN order |-> [to |-> order[i], what |-> Message]]
  <2>5. s \in [1 .. n -> Delivery]
    BY <2>2, <2>3, <2>4 DEF Delivery
  <2> HIDE DEF s
  <2>6. s \in Seq(Delivery)
    BY <2>2, <2>5, SeqDef
  <2>7. out' \in [Workers -> Seq(Delivery)]
    BY <2>1, <2>6 DEF s, Types, WorkerTypes
  <2>8. StoreTypes'
    BY <1>7 DEF Types, StoreTypes, Publish, store
  <2>9. ClientTypes'
    BY <1>7 DEF Types, ClientTypes, Publish, net, txn, peer
  <2>10. WorkerTypes'
    BY <1>7, <2>7 DEF Types, WorkerTypes, Publish, Goto, Places, Serving, task
  <2> QED BY <2>8, <2>9, <2>10 DEF Types
<1> QED BY <1>1, <1>2, <1>3, <1>4, <1>5, <1>6, <1>7
LEMMA DeliverySteps ==
  ASSUME Types, Control, NEW w \in Workers,
         Notify(w) \/ Skip(w) \/ Serve(w) \/ NoneServed(w) \/ Deliver(w)
           \/ ProcessAsync(w) \/ Closed(w) \/ RemoveConnection(w)
  PROVE  Types'
<1>c. conn[w] \in Clients /\ at[w] \in Nat \X Nat /\ at \in [Workers -> Nat \X Nat]
  BY DEF Types, WorkerTypes
<1>1. CASE Notify(w)
  BY <1>1, Zenon DEF Notify, Types, ClientTypes, StoreTypes, WorkerTypes, net, txn, peer, store, task, Goto, Places, Serving
<1>2. CASE Skip(w)
  <2>1. at' = [at EXCEPT ![w] = <<@[1] + 1, 1>>] \/ at' = [at EXCEPT ![w] = <<@[1], @[2] + 1>>]
    BY <1>2, Zenon DEF Skip, NextWaiter
  <2>2. <<at[w][1] + 1, 1>> \in Nat \X Nat /\ <<at[w][1], at[w][2] + 1>> \in Nat \X Nat
    BY <1>c
  <2>3. at' \in [Workers -> Nat \X Nat]
    BY <1>c, <2>1, <2>2
  <2>4. ClientTypes' /\ StoreTypes'
    BY <1>2, ZenonT(30) DEF Skip, Types, ClientTypes, StoreTypes, net, txn, peer, store
  <2>5. WorkerTypes'
    BY <1>2, <2>3, ZenonT(60) DEF Skip, Types, WorkerTypes, task
  <2> QED BY <2>4, <2>5 DEF Types
<1>3. CASE Serve(w)
  <2> DEFINE x == waiters[at[w][1]]
             k == x.keys[at[w][2]]
             answer == [to |-> x.client, what |-> Reply(x.id, x.left, Last(list[k]))]
  <2>1. at[w][1] \in 1 .. Len(waiters) /\ at[w][2] \in 1 .. Len(x.keys)
    BY <1>3, <1>c, ScannedPlace
  <2>2. x \in Waiter
    BY <2>1 DEF Types, StoreTypes
  <2>3. k \in Keys
    BY <2>1, <2>2 DEF Waiter
  <2>4. /\ list[k] # <<>> /\ list' = Rest(k) /\ out' = [out EXCEPT ![w] = <<answer>>]
        /\ waiters' = RemoveAt(waiters, at[w][1]) /\ mutex' = "none" /\ at' = [at EXCEPT ![w] = <<1, 1>>]
    BY <1>3, ZenonT(30) DEF Serve
  <2>5. list' \in [Keys -> Seq(Nat)] /\ Last(list[k]) \in Nat
    BY <2>3, <2>4, RestTypes
  <2>6. answer \in Delivery
    BY <2>2, <2>5 DEF Waiter, Delivery, Answer, Reply
  <2>7. waiters' \in Seq(Waiter)
    BY <2>1, <2>4, RemoveAtIs DEF Types, StoreTypes
  <2> HIDE DEF answer
  <2>8. out' \in [Workers -> Seq(Delivery)]
    BY <2>4, <2>6 DEF Types, WorkerTypes
  <2>9. StoreTypes'
    BY <1>3, <2>4, <2>5, <2>7, Zenon DEF Types, StoreTypes, Serve
  <2>10. ClientTypes'
    BY <1>3, Zenon DEF Types, ClientTypes, Serve, net, txn, peer
  <2>11. at' \in [Workers -> Nat \X Nat]
    BY <1>c, <2>4
  <2>12. WorkerTypes'
    BY <1>3, <2>8, <2>11, Zenon DEF Types, WorkerTypes, Serve, Goto, Places, Serving, task
  <2> QED BY <2>9, <2>10, <2>12 DEF Types
<1>4. CASE NoneServed(w)
  <2>1. at' \in [Workers -> Nat \X Nat]
    BY <1>c, <1>4 DEF NoneServed
  <2>2. ClientTypes' /\ StoreTypes'
    BY <1>4 DEF NoneServed, Types, ClientTypes, StoreTypes, net, txn, peer, store
  <2>3. WorkerTypes'
    BY <1>4, <2>1 DEF NoneServed, Types, WorkerTypes, Goto, Places, Serving, task
  <2> QED BY <2>2, <2>3 DEF Types
<1>5. CASE Deliver(w)
  <2>1. Head(out[w]) \in Delivery /\ Tail(out[w]) \in Seq(Delivery)
    BY <1>5 DEF Deliver, Types, WorkerTypes
  <2>2. Head(out[w]).to \in Clients /\ Head(out[w]).what \in Answer
    BY <2>1 DEF Delivery
  <2>3. pending' = [pending EXCEPT ![Head(out[w]).to] = Append(@, Head(out[w]).what)]
        /\ out' = [out EXCEPT ![w] = Tail(@)]
    BY <1>5 DEF Deliver
  <2>4. pending' \in [Clients -> Seq(Answer)]
    BY <2>2, <2>3, SMTT(60) DEF Types, ClientTypes
  <2>5. out' \in [Workers -> Seq(Delivery)]
    BY <2>1, <2>3 DEF Types, WorkerTypes
  <2>6. ClientTypes'
    BY <1>5, <2>4 DEF Deliver, Types, ClientTypes, net, txn, peer
  <2>7. StoreTypes'
    BY <1>5 DEF Deliver, Types, StoreTypes, store
  <2>8. WorkerTypes'
    BY <1>5, <2>5 DEF Deliver, Types, WorkerTypes, task
  <2> QED BY <2>6, <2>7, <2>8 DEF Types
<1>6. CASE ProcessAsync(w)
  <2>1. PICK c \in Clients :
          /\ replies' = [replies EXCEPT ![c] = @ \o pending[c]]
          /\ pending' = [pending EXCEPT ![c] = <<>>]
          /\ blocked' = [blocked EXCEPT ![c] = FALSE]
    BY <1>6 DEF ProcessAsync
  <2>2. replies[c] \o pending[c] \in Seq(Answer) /\ <<>> \in Seq(Answer)
    BY DEF Types, ClientTypes
  <2>3. replies' \in [Clients -> Seq(Answer)] /\ pending' \in [Clients -> Seq(Answer)] /\ blocked' \in [Clients -> BOOLEAN]
    BY <2>1, <2>2 DEF Types, ClientTypes
  <2>4. ClientTypes'
    BY <1>6, <2>3 DEF ProcessAsync, Types, ClientTypes, net, txn, peer
  <2>5. StoreTypes' /\ WorkerTypes'
    BY <1>6 DEF ProcessAsync, Types, StoreTypes, WorkerTypes, store, task
  <2> QED BY <2>4, <2>5 DEF Types
<1>7. CASE Closed(w)
  <2>1. conn' \in [Workers -> Clients]
    BY <1>7 DEF Closed, Types, WorkerTypes
  <2>2. ClientTypes' /\ StoreTypes'
    BY <1>7 DEF Closed, Types, ClientTypes, StoreTypes, net, txn, peer, store
  <2>3. WorkerTypes'
    BY <1>7, <2>1 DEF Closed, Types, WorkerTypes, Goto, Places
  <2> QED BY <2>2, <2>3 DEF Types
<1>8. CASE RemoveConnection(w)
  <2>1. waiters' \in Seq(Waiter)
    BY <1>8, WithoutType DEF RemoveConnection
  <2>2. open' \in [Clients -> BOOLEAN]
    BY <1>c, <1>8 DEF RemoveConnection, Types, ClientTypes
  <2>3. subs' \subseteq Clients /\ IsFiniteSet(subs')
    BY <1>8, FS_Subset DEF RemoveConnection, Types, ClientTypes
  <2>4. ClientTypes'
    BY <1>8, <2>2, <2>3 DEF RemoveConnection, Types, ClientTypes, net, txn
  <2>5. StoreTypes'
    BY <1>8, <2>1 DEF RemoveConnection, Types, StoreTypes, store
  <2>6. WorkerTypes'
    BY <1>8 DEF RemoveConnection, Types, WorkerTypes, Goto, Places, Serving, task
  <2> QED BY <2>4, <2>5, <2>6 DEF Types
<1> QED BY <1>1, <1>2, <1>3, <1>4, <1>5, <1>6, <1>7, <1>8

LEMMA ExpirySteps ==
  ASSUME Types, Expire \/ ExpireDeliver
  PROVE  Types'
<1>1. CASE Expire
  <2>1. \E S, T : expired' = Filter(waiters, S) /\ waiters' = Filter(waiters, T)
    BY <1>1 DEF Expire
  <2>2. expired' \in Seq(Waiter) /\ waiters' \in Seq(Waiter)
    BY <2>1, FilterType DEF Types, StoreTypes
  <2>3. ClientTypes' /\ WorkerTypes'
    BY <1>1 DEF Expire, Types, ClientTypes, WorkerTypes, net, txn, peer, task
  <2>4. StoreTypes'
    BY <1>1, <2>2 DEF Expire, Types, StoreTypes, store
  <2> QED BY <2>3, <2>4 DEF Types
<1>2. CASE ExpireDeliver
  <2> DEFINE x == Head(expired)
  <2>1. x \in Waiter /\ Tail(expired) \in Seq(Waiter)
    BY <1>2 DEF ExpireDeliver, Types, StoreTypes
  <2>2. x.client \in Clients /\ Reply(x.id, x.left, Nothing) \in Answer
    BY <2>1 DEF Waiter, Reply, Answer, Nothing
  <2>3. pending' = [pending EXCEPT ![x.client] = Append(@, Reply(x.id, x.left, Nothing))]
        /\ expired' = Tail(expired)
    BY <1>2 DEF ExpireDeliver
  <2> HIDE DEF x
  <2>4. pending' \in [Clients -> Seq(Answer)]
    BY <2>2, <2>3 DEF Types, ClientTypes
  <2>5. ClientTypes'
    BY <1>2, <2>4 DEF ExpireDeliver, Types, ClientTypes, net, txn, peer
  <2>6. StoreTypes'
    BY <1>2, <2>1, <2>3 DEF ExpireDeliver, Types, StoreTypes, store
  <2>7. WorkerTypes'
    BY <1>2 DEF ExpireDeliver, Types, WorkerTypes, task
  <2> QED BY <2>5, <2>6, <2>7 DEF Types
<1> QED BY <1>1, <1>2
-----------------------------------------------------------------------------
(* A step of worker w leaves the others where they are. *)
Elsewhere(w) == \A v \in Workers : v # w =>
  /\ pc'[v] = pc[v] /\ conn'[v] = conn[v] /\ run'[v] = run[v]
  /\ out'[v] = out[v] /\ at'[v] = at[v]
  /\ mutex' = v <=> mutex = v

LEMMA OthersInPlace ==
  ASSUME Types, Control, NEW w, Elsewhere(w),
         \A v \in Workers : v # w /\ pc[v] # "loop" => open'[conn[v]],
         waiters' = waiters \/ mutex \in {"none", w},
         NEW v \in Workers, v # w
  PROVE  InPlace(v)'
<1>1. /\ pc'[v] = pc[v] /\ conn'[v] = conn[v] /\ run'[v] = run[v]
      /\ out'[v] = out[v] /\ at'[v] = at[v]
      /\ mutex' = v <=> mutex = v
  BY DEF Elsewhere
<1>2. InPlace(v) /\ v # "none"
  BY WorkerAssumption DEF Control
<1>3. AtHome(v)'
  BY <1>1, <1>2 DEF InPlace, AtHome
<1>4. HasCommand(v)'
  BY <1>1, <1>2 DEF InPlace, HasCommand, Cmd
<1>5. HasMutex(v)' /\ HasAnswers(v)'
  BY <1>1, <1>2 DEF InPlace, HasMutex, HasAnswers
<1>6. HasPlace(v)'
  <2>1. pc[v] = "scan" => waiters' = waiters
    BY <1>2 DEF InPlace, HasMutex
  <2> QED BY <1>1, <1>2, <2>1 DEF InPlace, HasPlace, PopsBlocking, Cmd
<1> QED BY <1>3, <1>4, <1>5, <1>6 DEF InPlace

(* A worker goes to a place outside of the scan with a first key to try. *)
LEMMA Arrives ==
  ASSUME Types, Types', NEW w \in Workers, pc'[w] \in Places \ {"scan"},
         pc'[w] # "loop" => Home[conn'[w]] = w /\ open'[conn'[w]],
         pc'[w] \in Serving => run'[w] # <<>>,
         pc'[w] = "register" => Cmd(w)'.op = "brpop",
         pc'[w] = "notify" => Cmd(w)'.op = "rpush",
         at'[w] = <<1, 1>>, mutex' # w, out'[w] # <<>> => pc'[w] = "deliver"
  PROVE  InPlace(w)'
<1>1. AtHome(w)' /\ HasCommand(w)' /\ HasMutex(w)' /\ HasAnswers(w)'
  BY DEF AtHome, HasCommand, HasMutex, HasAnswers
<1>2. ASSUME PopsBlocking(w)' PROVE 1 \in 1 .. Len(Cmd(w)'.keys)
  <2>1. run'[w] \in Seq(Command) /\ run'[w] # <<>>
    BY <1>2 DEF PopsBlocking, Types, WorkerTypes, Serving
  <2>2. Cmd(w)' \in Command /\ Cmd(w)'.op = "brpop"
    BY <1>2, <2>1 DEF Cmd, PopsBlocking
  <2>3. Cmd(w)'.keys \in Seq(Keys) /\ Cmd(w)'.keys # <<>>
    BY <2>2, CommandFields
  <2> QED BY <2>3
<1>3. HasPlace(w)'
  BY <1>2 DEF HasPlace
<1> QED BY <1>1, <1>3 DEF InPlace

LEMMA AdvanceArrives ==
  ASSUME Types, Types', Control, NEW w \in Workers, pc[w] \in Serving, Advance(w),
         conn' = conn, open' = open,
         at'[w] = <<1, 1>>, mutex' # w, out'[w] = <<>>
  PROVE  InPlace(w)'
<1>1. run[w] \in Seq(Command) /\ run[w] # <<>> /\ Home[conn[w]] = w /\ open[conn[w]]
  BY DEF Types, WorkerTypes, Control, InPlace, HasCommand, AtHome, Serving
<1>2. run'[w] = Tail(run[w]) /\ pc'[w] = (IF Len(run[w]) > 1 THEN "run" ELSE "parse")
  BY DEF Advance, Goto, Types, WorkerTypes
<1>3. Len(run[w]) > 1 => Tail(run[w]) # <<>>
  <2> DEFINE t == Tail(run[w])
  <2>1. Len(t) = Len(run[w]) - 1 /\ Len(run[w]) \in Nat
    BY <1>1, HeadTailProperties, LenProperties
  <2> HIDE DEF t
  <2>2. t = <<>> => Len(t) = 0
    OBVIOUS
  <2>3. Len(run[w]) > 1 => t # <<>>
    BY <2>1, <2>2
  <2> QED BY <2>3 DEF t
<1> QED BY <1>1, <1>2, <1>3, Arrives DEF Places, Serving
LEMMA ReadControl ==
  ASSUME Types, Types', Control, NEW w \in Workers,
         HandleRead(w) \/ ParseEnd(w) \/ Quit(w) \/ Transaction(w) \/ Exec(w) \/ Queue(w) \/ Ordinary(w)
  PROVE  Control'
<1>1. InPlace(w) /\ pc[w] \in {"loop", "parse"} /\ w # "none"
  BY WorkerAssumption DEF Control, HandleRead, ParseEnd, Quit, Transaction, Exec, Queue, Ordinary, Take
<1>2. at[w] = <<1, 1>> /\ mutex # w /\ out[w] = <<>>
  BY <1>1 DEF InPlace, HasPlace, PopsBlocking, HasMutex, HasAnswers
<1>3. pc[w] = "parse" => Home[conn[w]] = w /\ open[conn[w]]
  BY <1>1 DEF InPlace, AtHome
<1>4. /\ Elsewhere(w) /\ at' = at /\ out' = out /\ mutex' = mutex /\ open' = open
      /\ waiters' = waiters
  BY DEF Types, WorkerTypes, Elsewhere, HandleRead, ParseEnd, Quit, Transaction, Exec, Queue, Ordinary,
         Take, Goto, task, peer
<1>5. \A v \in Workers : v # w => InPlace(v)'
  <2>1. \A v \in Workers : pc[v] # "loop" => open'[conn[v]]
    BY <1>4 DEF Control, InPlace, AtHome
  <2> QED BY <1>4, <2>1, OthersInPlace
<1>6. CASE HandleRead(w)
  <2>1. pc'[w] = "parse" /\ Home[conn'[w]] = w /\ open[conn'[w]]
    BY <1>6 DEF HandleRead, Goto, Types, WorkerTypes
  <2>2. InPlace(w)'
    BY <1>2, <1>4, <2>1, Arrives DEF Places, Serving
  <2> QED BY <1>5, <2>2 DEF Control
<1>7. CASE ParseEnd(w)
  <2>1. pc'[w] = "loop"
    BY <1>7 DEF ParseEnd, Goto, Types, WorkerTypes
  <2>2. InPlace(w)'
    BY <1>2, <1>4, <2>1, Arrives DEF Places, Serving
  <2> QED BY <1>5, <2>2 DEF Control
<1>8. CASE Quit(w)
  <2>1. pc'[w] = "remove" /\ conn' = conn /\ pc[w] = "parse"
    BY <1>8 DEF Quit, Take, Goto, Types, WorkerTypes
  <2>2. InPlace(w)'
    BY <1>2, <1>3, <1>4, <2>1, Arrives DEF Places, Serving
  <2> QED BY <1>5, <2>2 DEF Control
<1>9. CASE Transaction(w) \/ Queue(w)
  <2>1. pc'[w] = "parse" /\ conn' = conn /\ pc[w] = "parse"
    BY <1>9 DEF Transaction, Queue, Take
  <2>2. InPlace(w)'
    BY <1>2, <1>3, <1>4, <2>1, Arrives DEF Places, Serving
  <2> QED BY <1>5, <2>2 DEF Control
<1>10. CASE Exec(w)
  <2>1. /\ conn' = conn /\ pc[w] = "parse" /\ run'[w] = queue[conn[w]]
        /\ pc'[w] = IF queue[conn[w]] = <<>> THEN "parse" ELSE "run"
    BY <1>10 DEF Exec, Take, Goto, Types, WorkerTypes
  <2>2. InPlace(w)'
    BY <1>2, <1>3, <1>4, <2>1, Arrives DEF Places, Serving
  <2> QED BY <1>5, <2>2 DEF Control
<1>11. CASE Ordinary(w)
  <2>1. conn' = conn /\ pc[w] = "parse" /\ run'[w] = <<Taken(w)>> /\ pc'[w] = "run"
    BY <1>11 DEF Ordinary, Take, Goto, Types, WorkerTypes
  <2>2. InPlace(w)'
    BY <1>2, <1>3, <1>4, <2>1, Arrives DEF Places, Serving
  <2> QED BY <1>5, <2>2 DEF Control
<1> QED BY <1>6, <1>7, <1>8, <1>9, <1>10, <1>11

LEMMA CommandControl ==
  ASSUME Types, Types', Control, NEW w \in Workers,
         RPush(w) \/ RPop(w) \/ TryPop(w) \/ Register(w) \/ Delivered(w) \/ Subscribe(w) \/ Publish(w)
  PROVE  Control'
<1>1. InPlace(w) /\ pc[w] \in Serving /\ pc[w] # "scan" /\ w # "none"
  BY WorkerAssumption DEF Control, RPush, RPop, TryPop, Register, Delivered, Subscribe, Publish, Runs, Serving
<1>2. /\ mutex # w /\ Home[conn[w]] = w /\ open[conn[w]] /\ run[w] # <<>>
      /\ at[w] = <<1, 1>> \/ TryPop(w)
      /\ out[w] = <<>>
  <2>1. out[w] = <<>>
    BY <1>1 DEF InPlace, HasAnswers, RPush, RPop, TryPop, Register, Delivered, Subscribe, Publish, Runs
  <2>2. at[w] = <<1, 1>> \/ TryPop(w)
    BY <1>1 DEF InPlace, HasPlace, PopsBlocking, RPush, RPop, Register, Delivered, Subscribe, Publish, Runs
  <2> QED BY <1>1, <2>1, <2>2 DEF InPlace, HasMutex, AtHome, HasCommand, Serving
<1>3. Elsewhere(w) /\ mutex' = mutex /\ open' = open /\ conn' = conn
  BY DEF Types, WorkerTypes, Elsewhere, RPush, RPop, TryPop, Register, Delivered, Subscribe, Publish,
         Goto, Done, Advance, task, peer
<1>4. waiters' = waiters \/ mutex = "none"
  BY DEF RPush, RPop, TryPop, Register, Delivered, Subscribe, Publish
<1>5. \A v \in Workers : v # w => InPlace(v)'
  <2>1. \A v \in Workers : pc[v] # "loop" => open'[conn[v]]
    BY <1>3 DEF Control, InPlace, AtHome
  <2> QED BY <1>3, <1>4, <2>1, OthersInPlace
<1>6. SUFFICES InPlace(w)'
  BY <1>5 DEF Control
<1>7. CASE RPush(w)
  <2>1. pc'[w] = "notify" /\ run' = run /\ at' = at /\ out' = out /\ Cmd(w).op = "rpush"
    BY <1>7 DEF RPush, Runs, Goto, Types, WorkerTypes, task
  <2>2. Cmd(w)'.op = "rpush"
    BY <2>1 DEF Cmd
  <2>3. at[w] = <<1, 1>>
    BY <1>1, <1>7 DEF InPlace, HasPlace, PopsBlocking, RPush, Runs
  <2> QED BY <1>2, <1>3, <2>1, <2>2, <2>3, Arrives DEF Places, Serving
<1>8. CASE RPop(w) \/ Delivered(w) \/ Subscribe(w)
  <2>1. Advance(w) /\ at' = at /\ out' = out
    BY <1>8 DEF RPop, Delivered, Subscribe, Done
  <2>2. at[w] = <<1, 1>>
    BY <1>1, <1>8 DEF InPlace, HasPlace, PopsBlocking, RPop, Delivered, Subscribe, Runs
  <2> QED BY <1>1, <1>2, <1>3, <2>1, <2>2, AdvanceArrives
<1>9. CASE TryPop(w)
  <2> DEFINE k == Cmd(w).keys[at[w][2]]
             last == at[w][2] = Len(Cmd(w).keys)
  <2>1. PopsBlocking(w) /\ out' = out
    BY <1>9 DEF TryPop, Runs, PopsBlocking
  <2>2. Cmd(w).keys \in Seq(Keys) /\ at[w][1] = 1 /\ at[w][2] \in 1 .. Len(Cmd(w).keys)
    BY <1>1, <2>1, CommandInHand, CommandFields DEF Control, InPlace, HasPlace, PopsBlocking
  <2>3. CASE list[k] # <<>>
    <3>1. Advance(w) /\ at' = [at EXCEPT ![w] = <<1, 1>>]
      BY <1>9, <2>3 DEF TryPop, Done
    <3>2. at'[w] = <<1, 1>>
      BY <3>1 DEF Types, WorkerTypes
    <3> QED BY <1>1, <1>2, <1>3, <2>1, <3>1, <3>2, AdvanceArrives
  <2>4. CASE list[k] = <<>> /\ last
    <3>1. at' = [at EXCEPT ![w] = <<1, 1>>] /\ Goto(w, "register") /\ run' = run
      BY <1>9, <2>4 DEF TryPop
    <3>2. at'[w] = <<1, 1>> /\ pc'[w] = "register" /\ run'[w] # <<>> /\ Cmd(w)'.op = "brpop"
      BY <1>2, <2>1, <3>1 DEF Goto, Types, WorkerTypes, Cmd, PopsBlocking
    <3> QED BY <1>2, <1>3, <2>1, <3>2, Arrives DEF Places, Serving
  <2>5. CASE list[k] = <<>> /\ ~last
    <3>1. at' = [at EXCEPT ![w] = <<1, @[2] + 1>>] /\ Goto(w, "run") /\ run' = run
      BY <1>9, <2>5 DEF TryPop
    <3>2. at'[w] = <<1, at[w][2] + 1>> /\ pc'[w] = "run" /\ Cmd(w)' = Cmd(w)
      BY <3>1 DEF Goto, Types, WorkerTypes, Cmd
    <3>3. at[w][2] + 1 \in 1 .. Len(Cmd(w).keys)
      BY <2>2, <2>5
    <3>4. HasPlace(w)'
      BY <2>1, <3>2, <3>3 DEF HasPlace, PopsBlocking
    <3>5. AtHome(w)' /\ HasCommand(w)' /\ HasMutex(w)' /\ HasAnswers(w)'
      BY <1>2, <1>3, <2>1, <3>1, <3>2 DEF AtHome, HasCommand, HasMutex, HasAnswers
    <3> QED BY <3>4, <3>5 DEF InPlace
  <2> QED BY <2>3, <2>4, <2>5
<1>10. CASE Register(w)
  <2>1. Advance(w) /\ at' = at /\ out' = out /\ at[w] = <<1, 1>>
    BY <1>1, <1>10 DEF Register, InPlace, HasPlace, PopsBlocking
  <2> QED BY <1>1, <1>2, <1>3, <2>1, AdvanceArrives
<1>11. CASE Publish(w)
  <2>1. pc'[w] = "deliver" /\ run' = run /\ at' = at
    BY <1>11 DEF Publish, Goto, Types, WorkerTypes, task
  <2>2. at[w] = <<1, 1>>
    BY <1>1, <1>11 DEF InPlace, HasPlace, PopsBlocking, Publish, Runs
  <2> QED BY <1>2, <1>3, <2>1, <2>2, Arrives DEF Places, Serving
<1> QED BY <1>7, <1>8, <1>9, <1>10, <1>11

LEMMA DeliveryControl ==
  ASSUME Types, Types', Control, NEW w \in Workers,
         Notify(w) \/ Skip(w) \/ Serve(w) \/ NoneServed(w) \/ Deliver(w)
           \/ ProcessAsync(w) \/ Closed(w) \/ RemoveConnection(w)
  PROVE  Control'
<1>1. InPlace(w) /\ w # "none" /\ at[w] \in Nat \X Nat /\ at \in [Workers -> Nat \X Nat]
  BY WorkerAssumption DEF Control, Types, WorkerTypes
<1>2. Elsewhere(w)
  <2>1. CASE Notify(w)
    <3>1. \A v \in Workers : v # "none"
      BY WorkerAssumption
    <3> QED BY <2>1, <3>1 DEF Types, WorkerTypes, Elsewhere, Notify, Goto, task
  <2>2. CASE Skip(w)
    BY <2>2 DEF Types, WorkerTypes, Elsewhere, Skip, NextWaiter, task
  <2>3. CASE Serve(w) \/ NoneServed(w)
    <3>1. mutex = w /\ mutex' = "none" /\ \A v \in Workers : v # "none"
      BY <1>1, <2>3, WorkerAssumption, ZenonT(30) DEF Serve, NoneServed, InPlace, HasMutex
    <3> QED BY <2>3, <3>1, Zenon DEF Types, WorkerTypes, Elsewhere, Serve, NoneServed, Goto, task
  <2>4. CASE Deliver(w) \/ ProcessAsync(w) \/ Closed(w) \/ RemoveConnection(w)
    BY <2>4, Zenon DEF Types, WorkerTypes, Elsewhere, Deliver, ProcessAsync, Closed, RemoveConnection, Goto, task
  <2> QED BY <2>1, <2>2, <2>3, <2>4
<1>3. waiters' = waiters \/ mutex \in {"none", w}
  BY <1>1, Zenon DEF Notify, Skip, Serve, NoneServed, Deliver, ProcessAsync, Closed, RemoveConnection, InPlace, HasMutex
<1>4. \A v \in Workers : v # w /\ pc[v] # "loop" => open'[conn[v]]
  <2>1. \A v \in Workers : v # w /\ pc[v] # "loop" => open[conn[v]] /\ Home[conn[v]] = v /\ conn[v] \in Clients
    BY DEF Control, InPlace, AtHome, Types, WorkerTypes
  <2>2. CASE RemoveConnection(w)
    <3>1. Home[conn[w]] = w /\ open' = [open EXCEPT ![conn[w]] = FALSE]
      BY <1>1, <2>2 DEF RemoveConnection, InPlace, AtHome
    <3> QED BY <2>1, <3>1 DEF Types, ClientTypes
  <2>3. CASE ~RemoveConnection(w)
    <3>1. open' = open
      BY <2>3, Zenon DEF Notify, Skip, Serve, NoneServed, Deliver, ProcessAsync, Closed, peer
    <3> QED BY <2>1, <3>1
  <2> QED BY <2>2, <2>3
<1>5. SUFFICES InPlace(w)'
  BY <1>2, <1>3, <1>4, OthersInPlace DEF Control
<1>6. CASE Notify(w)
  <2>1. /\ pc'[w] = "scan" /\ pc[w] = "notify" /\ mutex' = w /\ open' = open /\ waiters' = waiters
        /\ conn' = conn /\ run' = run /\ out' = out /\ at' = at
    BY <1>6 DEF Notify, Goto, Types, WorkerTypes, peer, task
  <2>2. at[w] = <<1, 1>> /\ out[w] = <<>> /\ run[w] # <<>> /\ Cmd(w).op = "rpush" /\ Home[conn[w]] = w /\ open[conn[w]]
    BY <1>1, <2>1 DEF InPlace, HasPlace, PopsBlocking, HasCommand, AtHome, HasAnswers, Serving
  <2>3. 1 \in 1 .. Len(waiters) + 1 /\ (1 <= Len(waiters) => 1 \in 1 .. Len(waiters[1].keys))
    <3>1. Len(waiters) \in Nat /\ waiters \in Seq(Waiter)
      BY DEF Types, StoreTypes
    <3>2. ASSUME 1 <= Len(waiters) PROVE 1 \in 1 .. Len(waiters[1].keys)
      <4>1. waiters[1] \in Waiter
        BY <3>1, <3>2
      <4>2. waiters[1].keys \in Seq(Keys) /\ waiters[1].keys # <<>>
        BY <4>1 DEF Waiter
      <4> QED BY <4>2
    <3> QED BY <3>1, <3>2
  <2>4. HasPlace(w)'
    BY <2>1, <2>2, <2>3 DEF HasPlace, PopsBlocking
  <2> QED BY <2>1, <2>2, <2>4 DEF InPlace, AtHome, HasCommand, HasMutex, HasAnswers, Cmd
<1>7. CASE Skip(w)
  <2> DEFINE x == waiters[at[w][1]]
  <2>1. /\ pc' = pc /\ pc[w] = "scan" /\ mutex' = mutex /\ open' = open /\ waiters' = waiters
        /\ conn' = conn /\ run' = run /\ out' = out /\ at[w][1] <= Len(waiters)
    BY <1>7, Zenon DEF Skip, peer, task
  <2>2. /\ at[w][1] \in 1 .. Len(waiters) /\ at[w][2] \in 1 .. Len(x.keys)
        /\ Len(waiters) \in Nat /\ waiters \in Seq(Waiter)
    BY <1>1, <2>1, SMTT(30) DEF InPlace, HasPlace, Types, StoreTypes
  <2>3. at'[w] = <<at[w][1] + 1, 1>> \/ (at'[w] = <<at[w][1], at[w][2] + 1>> /\ at[w][2] # Len(x.keys))
    BY <1>1, <1>7 DEF Skip, NextWaiter
  <2>4. ASSUME NEW i \in 1 .. Len(waiters) PROVE 1 \in 1 .. Len(waiters[i].keys) /\ Len(waiters[i].keys) \in Nat
    <3>1. waiters[i] \in Waiter
      BY <2>2
    <3>2. waiters[i].keys \in Seq(Keys) /\ waiters[i].keys # <<>>
      BY <3>1 DEF Waiter
    <3> QED BY <3>2
  <2>5. /\ at'[w][1] \in 1 .. Len(waiters) + 1
        /\ at'[w][1] <= Len(waiters) => at'[w][2] \in 1 .. Len(waiters[at'[w][1]].keys)
    BY <1>1, <2>2, <2>3, <2>4
  <2>6. HasPlace(w)'
    BY <2>1, <2>5 DEF HasPlace, PopsBlocking
  <2> QED BY <1>1, <2>1, <2>6 DEF InPlace, AtHome, HasCommand, HasMutex, HasAnswers, Cmd
<1>8. CASE Serve(w) \/ NoneServed(w)
  <2>1. /\ pc'[w] = "deliver" /\ pc[w] = "scan" /\ mutex' = "none" /\ at'[w] = <<1, 1>> /\ open' = open
        /\ conn' = conn /\ run' = run
    BY <1>1, <1>8, Zenon DEF Serve, NoneServed, Goto, Types, WorkerTypes, peer, task
  <2>2. run[w] # <<>> /\ Home[conn[w]] = w /\ open[conn[w]]
    BY <1>1, <2>1 DEF InPlace, HasCommand, AtHome, Serving
  <2> QED BY <1>1, <2>1, <2>2, Arrives DEF Places, Serving
<1>9. CASE Deliver(w)
  <2>1. pc' = pc /\ pc[w] = "deliver" /\ mutex' = mutex /\ at' = at /\ open' = open /\ conn' = conn /\ run' = run
    BY <1>9 DEF Deliver, peer, task
  <2> QED BY <1>1, <2>1 DEF InPlace, AtHome, HasCommand, HasMutex, HasAnswers, HasPlace, PopsBlocking, Cmd
<1>10. CASE ProcessAsync(w)
  <2>1. /\ pc' = pc /\ mutex' = mutex /\ at' = at /\ open' = open /\ conn' = conn /\ run' = run
        /\ out' = out /\ waiters' = waiters
    BY <1>10 DEF ProcessAsync, peer, task
  <2> QED BY <1>1, <2>1 DEF InPlace, AtHome, HasCommand, HasMutex, HasAnswers, HasPlace, PopsBlocking, Cmd
<1>11. CASE Closed(w)
  <2>1. /\ pc'[w] = "remove" /\ pc[w] = "loop" /\ Home[conn'[w]] = w /\ open'[conn'[w]]
        /\ mutex' = mutex /\ at' = at /\ out' = out
    BY <1>11 DEF Closed, Goto, Types, WorkerTypes, peer
  <2>2. at[w] = <<1, 1>> /\ mutex # w /\ out[w] = <<>>
    BY <1>1, <2>1 DEF InPlace, HasPlace, PopsBlocking, HasMutex, HasAnswers
  <2> QED BY <2>1, <2>2, Arrives DEF Places, Serving
<1>12. CASE RemoveConnection(w)
  <2>1. pc'[w] = "loop" /\ pc[w] = "remove" /\ mutex' = mutex /\ at' = at /\ out' = out
    BY <1>12 DEF RemoveConnection, Goto, Types, WorkerTypes
  <2>2. at[w] = <<1, 1>> /\ mutex # w /\ out[w] = <<>>
    BY <1>1, <2>1 DEF InPlace, HasPlace, PopsBlocking, HasMutex, HasAnswers
  <2> QED BY <2>1, <2>2, Arrives DEF Places, Serving
<1> QED BY <1>6, <1>7, <1>8, <1>9, <1>10, <1>11, <1>12

(* The steps of the clients and of the eviction thread. *)
LEMMA OtherControl ==
  ASSUME Types, Control,
         \/ \E c \in Clients : Send(c) \/ Hangup(c)
         \/ Expire \/ ExpireDeliver \/ UNCHANGED vars
  PROVE  Control'
<1>1. /\ pc' = pc /\ mutex' = mutex /\ at' = at /\ open' = open /\ conn' = conn /\ run' = run
      /\ out' = out
      /\ waiters' = waiters \/ mutex = "none"
  BY DEF Send, Hangup, Expire, ExpireDeliver, vars, peer, task
<1>2. \A v \in Workers : v # "none"
  BY WorkerAssumption
<1>3. ASSUME NEW v \in Workers PROVE InPlace(v)'
  <2>1. InPlace(v)
    BY DEF Control
  <2>2. HasPlace(v)'
    <3>1. pc[v] = "scan" => waiters' = waiters
      BY <1>1, <1>2, <2>1 DEF InPlace, HasMutex
    <3> QED BY <1>1, <2>1, <3>1 DEF InPlace, HasPlace, PopsBlocking, Cmd
  <2> QED BY <1>1, <2>1, <2>2 DEF InPlace, AtHome, HasCommand, HasMutex, HasAnswers, Cmd
<1> QED BY <1>3 DEF Control

LEMMA TypesStep == Types /\ Control /\ [Next]_vars => Types' /\ Control'
<1> SUFFICES ASSUME Types, Control, [Next]_vars PROVE Types' /\ Control'
  OBVIOUS
<1>1. CASE \E c \in Clients : Send(c) \/ Hangup(c)
  BY <1>1, ClientSteps, OtherControl
<1>2. ASSUME NEW w \in Workers, WorkerStep(w) PROVE Types' /\ Control'
  <2>1. CASE HandleRead(w) \/ ParseEnd(w) \/ Quit(w) \/ Transaction(w) \/ Exec(w) \/ Queue(w) \/ Ordinary(w)
    BY <2>1, ReadSteps, ReadControl
  <2>2. CASE RPush(w) \/ RPop(w) \/ TryPop(w) \/ Register(w) \/ Delivered(w) \/ Subscribe(w) \/ Publish(w)
    BY <2>2, CommandSteps, CommandControl
  <2>3. CASE Notify(w) \/ Skip(w) \/ Serve(w) \/ NoneServed(w) \/ Deliver(w)
               \/ ProcessAsync(w) \/ Closed(w) \/ RemoveConnection(w)
    BY <2>3, DeliverySteps, DeliveryControl
  <2> QED BY <1>2, <2>1, <2>2, <2>3 DEF WorkerStep
<1>3. CASE Expire \/ ExpireDeliver
  BY <1>3, ExpirySteps, OtherControl
<1>4. CASE UNCHANGED vars
  <2>1. Types'
    BY <1>4 DEF vars, Types, ClientTypes, StoreTypes, WorkerTypes, net, txn, peer, store, task
  <2> QED BY <1>4, <2>1, OtherControl
<1> QED BY <1>1, <1>2, <1>3, <1>4 DEF Next

(* What is left of the waiters without those of a client. *)
LEMMA WithoutIs ==
  ASSUME Types, NEW c
  PROVE  /\ Without(c) \in Seq(Waiter) /\ PartOf(Without(c), waiters)
         /\ \A j \in 1 .. Len(Without(c)) : Without(c)[j].client # c
         /\ \A i \in 1 .. Len(waiters) : waiters[i].client # c =>
              \E j \in 1 .. Len(Without(c)) : Without(c)[j] = waiters[i]
<1> DEFINE T == {x \in ToSet(waiters) : x.client # c}
<1>1. waiters \in Seq(Waiter)
  BY DEF Types, StoreTypes
<1>2. \A i \in 1 .. Len(waiters) : waiters[i].client # c => waiters[i] \in T
  BY <1>1 DEF ToSet
<1>3. \A x \in T : x.client # c
  OBVIOUS
<1> HIDE DEF T
<1>4. Without(c) = Filter(waiters, T)
  BY DEF Without, T
<1> QED BY <1>1, <1>2, <1>3, <1>4, FilterIsPart

-----------------------------------------------------------------------------
(* Who waits is connected. *)
LEMMA PartLives ==
  ASSUME Types, Types', WaitersAreLive, NEW t \in Seq(Waiter), PartOf(t, waiters)
  PROVE  /\ \A i, j \in 1 .. Len(t) : t[i].client = t[j].client => i = j
         /\ \A i \in 1 .. Len(t) : open[t[i].client] /\ t[i].client \in Clients
<1>1. PICK e \in [1 .. Len(t) -> 1 .. Len(waiters)] :
        /\ \A i, j \in 1 .. Len(t) : e[i] = e[j] => i = j
        /\ \A j \in 1 .. Len(t) : t[j] = waiters[e[j]]
  BY DEF PartOf
<1>2. DOMAIN waiters = 1 .. Len(waiters)
  BY DEF Types, StoreTypes
<1>3. ASSUME NEW i \in 1 .. Len(t) PROVE t[i].client \in Clients
  <2>1. t[i] \in Waiter
    OBVIOUS
  <2> QED BY <2>1 DEF Waiter
<1>4. \A i, j \in 1 .. Len(waiters) :
        open[waiters[i].client] /\ (waiters[i].client = waiters[j].client => i = j)
  BY <1>2 DEF WaitersAreLive
<1>5. ASSUME NEW i \in 1 .. Len(t), NEW j \in 1 .. Len(t) PROVE
        open[t[i].client] /\ (t[i].client = t[j].client => i = j)
  <2>1. e[i] \in 1 .. Len(waiters) /\ e[j] \in 1 .. Len(waiters) /\ t[i] = waiters[e[i]] /\ t[j] = waiters[e[j]]
    BY <1>1
  <2>2. open[waiters[e[i]].client] /\ (waiters[e[i]].client = waiters[e[j]].client => e[i] = e[j])
    BY <1>4, <2>1
  <2> QED BY <1>1, <2>1, <2>2
<1> QED BY <1>3, <1>5

LEMMA LivesOn ==
  ASSUME Types, Types', WaitersAreLive, PartOf(waiters', waiters),
         \A i \in 1 .. Len(waiters') : open[waiters'[i].client] => open'[waiters'[i].client]
  PROVE  WaitersAreLive'
<1>1. waiters' \in Seq(Waiter) /\ DOMAIN waiters' = 1 .. Len(waiters')
  BY DEF Types, StoreTypes
<1>2. /\ \A i, j \in 1 .. Len(waiters') : waiters'[i].client = waiters'[j].client => i = j
      /\ \A i \in 1 .. Len(waiters') : open[waiters'[i].client] /\ waiters'[i].client \in Clients
  BY <1>1, PartLives
<1> QED BY <1>1, <1>2 DEF WaitersAreLive

LEMMA LiveStep ==
  ASSUME Types, Types', Control, WaitersAreLive, [Next]_vars
  PROVE  WaitersAreLive'
<1>1. CASE waiters' = waiters /\ open' = open
  BY <1>1 DEF WaitersAreLive
<1>2. ASSUME NEW w \in Workers, Register(w) PROVE WaitersAreLive'
  <2> DEFINE c == conn[w]
             t == Without(c)
             x == [client |-> c, id |-> id[w], left |-> Len(run[w]) - 1,
                   keys |-> Cmd(w).keys, timed |-> Cmd(w).timed]
  <2>1. open[c] /\ c \in Clients /\ open' = open
    BY <1>2 DEF Register, Control, InPlace, AtHome, Types, WorkerTypes, peer
  <2>2. /\ t \in Seq(Waiter) /\ PartOf(t, waiters)
        /\ \A j \in 1 .. Len(t) : t[j].client # c
    BY WithoutIs
  <2>3. x.client = c
    OBVIOUS
  <2>4. waiters' = Append(t, x)
    BY <1>2 DEF Register
  <2>5. waiters' \in Seq(Waiter) /\ DOMAIN waiters' = 1 .. Len(waiters')
    BY DEF Types, StoreTypes
  <2> HIDE DEF t, x, c
  <2>6. /\ \A i, j \in 1 .. Len(t) : t[i].client = t[j].client => i = j
        /\ \A i \in 1 .. Len(t) : open[t[i].client]
    BY <2>2, PartLives
  <2>7. /\ Len(waiters') = Len(t) + 1 /\ waiters'[Len(t) + 1] = x /\ Len(t) \in Nat
        /\ \A i \in 1 .. Len(t) : waiters'[i] = t[i]
    BY <2>2, <2>4
  <2>8. \A i \in 1 .. Len(t) + 1 : i \in 1 .. Len(t) \/ i = Len(t) + 1
    BY <2>7
  <2>9. \A i \in 1 .. Len(waiters') : open[waiters'[i].client]
    BY <2>1, <2>3, <2>6, <2>7, <2>8
  <2>10. ASSUME NEW i \in 1 .. Len(waiters'), NEW j \in 1 .. Len(waiters'), waiters'[i].client = waiters'[j].client
         PROVE  i = j
    BY <2>2, <2>3, <2>6, <2>7, <2>8, <2>10
  <2> QED BY <2>1, <2>5, <2>9, <2>10 DEF WaitersAreLive
<1>3. ASSUME NEW w \in Workers, Serve(w) PROVE WaitersAreLive'
  <2>1. waiters' = RemoveAt(waiters, at[w][1]) /\ open' = open /\ waiters \in Seq(Waiter)
    BY <1>3, ZenonT(30) DEF Serve, peer, Types, StoreTypes
  <2>2. at[w][1] \in 1 .. Len(waiters)
    BY <1>3, ScannedPlace
  <2>3. PartOf(waiters', waiters)
    BY <2>1, <2>2, RemoveAtIsPart
  <2> QED BY <2>1, <2>3, LivesOn
<1>4. ASSUME NEW w \in Workers, RemoveConnection(w) PROVE WaitersAreLive'
  <2>1. waiters' = Without(conn[w]) /\ open' = [open EXCEPT ![conn[w]] = FALSE]
    BY <1>4 DEF RemoveConnection
  <2>2. PartOf(waiters', waiters) /\ \A j \in 1 .. Len(waiters') : waiters'[j].client # conn[w]
    BY <2>1, WithoutIs
  <2>3. ASSUME NEW i \in 1 .. Len(waiters') PROVE waiters'[i].client \in Clients
    <3>1. waiters'[i] \in Waiter
      BY DEF Types, StoreTypes
    <3> QED BY <3>1 DEF Waiter
  <2>4. \A i \in 1 .. Len(waiters') : open[waiters'[i].client] => open'[waiters'[i].client]
    BY <2>1, <2>2, <2>3 DEF Types, ClientTypes
  <2> QED BY <2>2, <2>4, LivesOn
<1>5. CASE Expire
  <2>1. \E T : waiters' = Filter(waiters, T)
    BY <1>5 DEF Expire
  <2>2. waiters \in Seq(Waiter) /\ open' = open
    BY <1>5 DEF Types, StoreTypes, Expire, peer
  <2>3. PartOf(waiters', waiters)
    BY <2>1, <2>2, FilterIsPart
  <2> QED BY <2>2, <2>3, LivesOn
<1>6. CASE \E c \in Clients : Send(c) \/ Hangup(c)
  BY <1>1, <1>6 DEF Send, Hangup, peer
<1>7. ASSUME NEW w \in Workers, WorkerStep(w), ~Register(w), ~Serve(w), ~RemoveConnection(w) PROVE WaitersAreLive'
  BY <1>1, <1>7, Zenon DEF WorkerStep, HandleRead, ParseEnd, Quit, Transaction, Exec, Queue, Ordinary,
       RPush, RPop, TryPop, Notify, Skip, NoneServed, Deliver, Delivered, Subscribe, Publish,
       ProcessAsync, Closed, peer
<1>8. CASE ExpireDeliver \/ UNCHANGED vars
  BY <1>1, <1>8 DEF ExpireDeliver, vars, peer
<1> QED BY <1>2, <1>3, <1>4, <1>5, <1>6, <1>7, <1>8 DEF Next, WorkerStep
-----------------------------------------------------------------------------
(* Who is blocked is known to somebody. *)
Waits(c)    == \E i \in DOMAIN waiters : waiters[i].client = c
GaveUp(c)   == \E i \in DOMAIN expired : expired[i].client = c
IsServed(c) == \E w \in Workers : \E i \in DOMAIN out[w] : out[w][i].to = c
Awaited(c)  == Waits(c) \/ GaveUp(c) \/ IsServed(c) \/ pending[c] # <<>>

LEMMA BlockedUnfolds == BlockedIsAwaited <=> \A c \in Clients : open[c] /\ blocked[c] => Awaited(c)
BY DEF BlockedIsAwaited, Awaited, Waits, GaveUp, IsServed

LEMMA SomebodyKnows ==
  ASSUME BlockedIsAwaited,
         \A c \in Clients : open'[c] /\ blocked'[c] =>
           (open[c] /\ blocked[c] /\ (Awaited(c) => Awaited(c)')) \/ Awaited(c)'
  PROVE  BlockedIsAwaited'
<1>1. \A c \in Clients : open[c] /\ blocked[c] => Awaited(c)
  BY BlockedUnfolds
<1>2. \A c \in Clients : open'[c] /\ blocked'[c] => Awaited(c)'
  BY <1>1
<1>3. (BlockedIsAwaited <=> \A c \in Clients : open[c] /\ blocked[c] => Awaited(c))'
  BY BlockedUnfolds, PTL
<1> QED BY <1>2, <1>3

LEMMA AwaitedStep ==
  ASSUME Types, Types', Control, Control', BlockedIsAwaited, [Next]_vars
  PROVE  BlockedIsAwaited'
<1>d. /\ DOMAIN waiters = 1 .. Len(waiters) /\ DOMAIN waiters' = 1 .. Len(waiters')
      /\ waiters \in Seq(Waiter) /\ waiters' \in Seq(Waiter)
      /\ expired \in Seq(Waiter) /\ expired' \in Seq(Waiter)
      /\ DOMAIN expired = 1 .. Len(expired) /\ DOMAIN expired' = 1 .. Len(expired')
  BY DEF Types, StoreTypes
<1>e. ASSUME NEW w \in Workers, pc[w] # "deliver", \A v \in Workers : v # w => out'[v] = out[v], NEW c, IsServed(c)
      PROVE  IsServed(c)'
  <2>1. out[w] = <<>>
    BY <1>e DEF Control, InPlace, HasAnswers
  <2>2. PICK v \in Workers : \E i \in DOMAIN out[v] : out[v][i].to = c
    BY <1>e DEF IsServed
  <2>3. v # w
    BY <2>1, <2>2
  <2> QED BY <1>e, <2>2, <2>3 DEF IsServed
<1>1. CASE waiters' = waiters /\ expired' = expired /\ out' = out /\ pending' = pending /\ open' = open /\ blocked' = blocked
  BY <1>1, SomebodyKnows DEF Awaited, Waits, GaveUp, IsServed
<1>2. ASSUME NEW w \in Workers, Register(w) PROVE BlockedIsAwaited'
  <2> DEFINE b == conn[w]
             t == Without(b)
             x == [client |-> b, id |-> id[w], left |-> Len(run[w]) - 1,
                   keys |-> Cmd(w).keys, timed |-> Cmd(w).timed]
  <2>1. /\ expired' = expired /\ out' = out /\ pending' = pending /\ open' = open
        /\ waiters' = Append(t, x) /\ blocked' = [blocked EXCEPT ![b] = @ \/ ~tx[w]]
        /\ b \in Clients
    BY <1>2 DEF Register, peer, Types, WorkerTypes
  <2>2. /\ t \in Seq(Waiter)
        /\ \A i \in 1 .. Len(waiters) : waiters[i].client # b => \E j \in 1 .. Len(t) : t[j] = waiters[i]
    BY WithoutIs
  <2>3. x.client = b
    OBVIOUS
  <2> HIDE DEF t, x, b
  <2>4. /\ Len(waiters') = Len(t) + 1 /\ waiters'[Len(t) + 1] = x /\ Len(t) \in Nat
        /\ \A i \in 1 .. Len(t) : waiters'[i] = t[i]
    BY <2>1, <2>2
  <2>5. Len(t) + 1 \in DOMAIN waiters' /\ \A j \in 1 .. Len(t) : j \in DOMAIN waiters'
    BY <1>d, <2>4
  <2>6. ASSUME NEW c, c = b PROVE Waits(c)'
    BY <2>3, <2>4, <2>5, <2>6 DEF Waits
  <2>7. ASSUME NEW c \in Clients, c # b, Waits(c) PROVE Waits(c)'
    <3>1. PICK i \in 1 .. Len(waiters) : waiters[i].client = c
      BY <1>d, <2>7 DEF Waits
    <3>2. PICK j \in 1 .. Len(t) : t[j] = waiters[i]
      BY <2>2, <2>7, <3>1
    <3> QED BY <2>4, <2>5, <3>1, <3>2 DEF Waits
  <2>8. ASSUME NEW c \in Clients, open'[c] /\ blocked'[c]
        PROVE  (open[c] /\ blocked[c] /\ (Awaited(c) => Awaited(c)')) \/ Awaited(c)'
    <3>1. CASE c = b
      BY <2>6, <3>1 DEF Awaited
    <3>2. CASE c # b
      <4>1. open[c] /\ blocked[c]
        BY <2>1, <2>8, <3>2 DEF Types, ClientTypes
      <4>2. GaveUp(c)' = GaveUp(c) /\ IsServed(c)' = IsServed(c)
        BY <2>1 DEF GaveUp, IsServed
      <4> QED BY <2>1, <2>7, <3>2, <4>1, <4>2 DEF Awaited
    <3> QED BY <3>1, <3>2
  <2> QED BY <2>8, SomebodyKnows
<1>3. ASSUME NEW w \in Workers, Serve(w) PROVE BlockedIsAwaited'
  <2> DEFINE i == at[w][1]
             x == waiters[i]
             k == x.keys[at[w][2]]
             answer == [to |-> x.client, what |-> Reply(x.id, x.left, Last(list[k]))]
  <2>1. /\ expired' = expired /\ pending' = pending /\ open' = open /\ blocked' = blocked
        /\ waiters' = RemoveAt(waiters, i) /\ out' = [out EXCEPT ![w] = <<answer>>] /\ pc[w] # "deliver"
    BY <1>3 DEF Serve, peer
  <2>2. i \in 1 .. Len(waiters)
    BY <1>3, ScannedPlace
  <2>3. answer.to = x.client
    OBVIOUS
  <2> HIDE DEF i, answer
  <2>4. out'[w] = <<answer>> /\ \A v \in Workers : v # w => out'[v] = out[v]
    BY <2>1 DEF Types, WorkerTypes
  <2>5. 1 \in DOMAIN out'[w] /\ out'[w][1] = answer
    BY <2>4
  <2>6. ASSUME NEW c, c = x.client PROVE IsServed(c)'
    BY <2>3, <2>5, <2>6 DEF IsServed
  <2>7. ASSUME NEW c \in Clients, Waits(c) PROVE Waits(c)' \/ IsServed(c)'
    <3>1. PICK j \in 1 .. Len(waiters) : waiters[j].client = c
      BY <1>d, <2>7 DEF Waits
    <3>2. CASE j = i
      BY <2>6, <3>1, <3>2
    <3>3. CASE j # i
      <4>1. PICK m \in 1 .. Len(RemoveAt(waiters, i)) : RemoveAt(waiters, i)[m] = waiters[j]
        BY <1>d, <2>2, <3>1, <3>3, RemoveAtIsPart
      <4> QED BY <1>d, <2>1, <3>1, <4>1 DEF Waits
    <3> QED BY <3>2, <3>3
  <2>8. ASSUME NEW c \in Clients, Awaited(c) PROVE Awaited(c)'
    <3>1. GaveUp(c)' = GaveUp(c)
      BY <2>1 DEF GaveUp
    <3>2. IsServed(c) => IsServed(c)'
      BY <1>e, <2>1, <2>4
    <3> QED BY <2>1, <2>7, <2>8, <3>1, <3>2 DEF Awaited
  <2> QED BY <2>1, <2>8, SomebodyKnows, SMTT(30)
<1>4. ASSUME NEW w \in Workers, Publish(w) PROVE BlockedIsAwaited'
  <2>1. /\ expired' = expired /\ pending' = pending /\ open' = open /\ blocked' = blocked
        /\ waiters' = waiters /\ pc[w] # "deliver"
    BY <1>4 DEF Publish, Runs, peer
  <2>2. \A v \in Workers : v # w => out'[v] = out[v]
    BY <1>4 DEF Publish, Types, WorkerTypes
  <2>3. ASSUME NEW c \in Clients, Awaited(c) PROVE Awaited(c)'
    <3>1. GaveUp(c)' = GaveUp(c) /\ Waits(c)' = Waits(c)
      BY <2>1 DEF GaveUp, Waits
    <3>2. IsServed(c) => IsServed(c)'
      BY <1>e, <2>1, <2>2
    <3> QED BY <2>1, <2>3, <3>1, <3>2 DEF Awaited
  <2> QED BY <2>1, <2>3, SomebodyKnows
<1>5. ASSUME NEW w \in Workers, Deliver(w) PROVE BlockedIsAwaited'
  <2> DEFINE d == Head(out[w])
  <2>1. /\ expired' = expired /\ open' = open /\ blocked' = blocked /\ waiters' = waiters
        /\ pending' = [pending EXCEPT ![d.to] = Append(@, d.what)]
        /\ out' = [out EXCEPT ![w] = Tail(@)] /\ out[w] # <<>>
    BY <1>5 DEF Deliver, peer
  <2>2. out[w] \in Seq(Delivery) /\ pending \in [Clients -> Seq(Answer)] /\ out \in [Workers -> Seq(Delivery)]
    BY DEF Types, ClientTypes, WorkerTypes
  <2>3. d \in Delivery /\ d = out[w][1] /\ d.to \in Clients /\ d.what \in Answer
    <3>1. d \in Delivery /\ d = out[w][1]
      BY <2>1, <2>2
    <3> QED BY <3>1 DEF Delivery
  <2>4. /\ Len(Tail(out[w])) = Len(out[w]) - 1 /\ Len(out[w]) \in Nat
        /\ \A i \in 1 .. Len(Tail(out[w])) : Tail(out[w])[i] = out[w][i + 1]
        /\ DOMAIN out[w] = 1 .. Len(out[w]) /\ DOMAIN Tail(out[w]) = 1 .. Len(Tail(out[w]))
    BY <2>1, <2>2, HeadTailProperties, LenProperties
  <2> HIDE DEF d
  <2>5. pending'[d.to] # <<>>
    <3>1. pending'[d.to] = Append(pending[d.to], d.what)
      BY <2>1, <2>2, <2>3
    <3>2. pending[d.to] \in Seq(Answer)
      BY <2>2, <2>3
    <3> QED BY <2>3, <3>1, <3>2, AppendProperties, SMTT(60)
  <2>6. ASSUME NEW c \in Clients, pending[c] # <<>> PROVE pending'[c] # <<>>
    <3>1. CASE c = d.to
      BY <2>5, <3>1
    <3>2. CASE c # d.to
      BY <2>1, <2>2, <2>6, <3>2
    <3> QED BY <3>1, <3>2
  <2>7. ASSUME NEW c \in Clients, IsServed(c) PROVE IsServed(c)' \/ pending'[c] # <<>>
    <3>1. PICK v \in Workers : \E i \in DOMAIN out[v] : out[v][i].to = c
      BY <2>7 DEF IsServed
    <3>2. PICK i \in DOMAIN out[v] : out[v][i].to = c
      BY <3>1
    <3>3. CASE v # w
      BY <2>1, <2>2, <3>2, <3>3 DEF IsServed
    <3>4. CASE v = w /\ i = 1
      BY <2>3, <2>5, <3>2, <3>4
    <3>5. CASE v = w /\ i # 1
      <4>1. out'[w] = Tail(out[w])
        BY <2>1, <2>2
      <4>2. i - 1 \in 1 .. Len(Tail(out[w])) /\ (i - 1) + 1 = i
        BY <2>4, <3>2, <3>5
      <4>3. out'[w][i - 1] = out[w][i] /\ i - 1 \in DOMAIN out'[w]
        BY <2>4, <4>1, <4>2
      <4> QED BY <3>2, <3>5, <4>3 DEF IsServed
    <3> QED BY <3>3, <3>4, <3>5
  <2>8. ASSUME NEW c \in Clients, Awaited(c) PROVE Awaited(c)'
    <3>1. GaveUp(c)' = GaveUp(c) /\ Waits(c)' = Waits(c)
      BY <2>1 DEF GaveUp, Waits
    <3> QED BY <2>6, <2>7, <2>8, <3>1 DEF Awaited
  <2> QED BY <2>1, <2>8, SomebodyKnows
<1>6. ASSUME NEW w \in Workers, ProcessAsync(w) PROVE BlockedIsAwaited'
  <2>1. PICK c \in Clients :
          /\ pending' = [pending EXCEPT ![c] = <<>>]
          /\ blocked' = [blocked EXCEPT ![c] = FALSE]
    BY <1>6 DEF ProcessAsync
  <2>2. expired' = expired /\ open' = open /\ waiters' = waiters /\ out' = out
    BY <1>6 DEF ProcessAsync, peer
  <2>3. ASSUME NEW b \in Clients, open'[b] /\ blocked'[b]
        PROVE  open[b] /\ blocked[b] /\ (Awaited(b) => Awaited(b)')
    <3>1. b # c /\ blocked[b] /\ pending'[b] = pending[b]
      BY <2>1, <2>3 DEF Types, ClientTypes
    <3> QED BY <2>2, <2>3, <3>1 DEF Awaited, Waits, GaveUp, IsServed
  <2> QED BY <2>3, SomebodyKnows
<1>7. ASSUME NEW w \in Workers, RemoveConnection(w) PROVE BlockedIsAwaited'
  <2>1. /\ waiters' = Without(conn[w]) /\ open' = [open EXCEPT ![conn[w]] = FALSE]
        /\ expired' = expired /\ pending' = pending /\ blocked' = blocked /\ out' = out
    BY <1>7 DEF RemoveConnection
  <2>2. \A i \in 1 .. Len(waiters) : waiters[i].client # conn[w] =>
          \E j \in 1 .. Len(waiters') : waiters'[j] = waiters[i]
    BY <2>1, WithoutIs
  <2>3. ASSUME NEW c \in Clients, open'[c] /\ blocked'[c]
        PROVE  open[c] /\ blocked[c] /\ (Awaited(c) => Awaited(c)')
    <3>1. c # conn[w] /\ open[c] /\ blocked[c]
      BY <2>1, <2>3 DEF Types, ClientTypes
    <3>2. Waits(c) => Waits(c)'
      BY <1>d, <2>2, <3>1 DEF Waits
    <3>3. GaveUp(c)' = GaveUp(c) /\ IsServed(c)' = IsServed(c)
      BY <2>1 DEF GaveUp, IsServed
    <3> QED BY <2>1, <3>1, <3>2, <3>3 DEF Awaited
  <2> QED BY <2>3, SomebodyKnows
<1>8. CASE Expire
  <2>1. PICK late : late \subseteq ToSet(waiters) /\
          expired' = Filter(waiters, late) /\ waiters' = Filter(waiters, ToSet(waiters) \ late)
    BY <1>8 DEF Expire
  <2>2. pending' = pending /\ out' = out /\ open' = open /\ blocked' = blocked /\ expired = <<>>
    BY <1>8 DEF Expire, peer
  <2>3. \A i \in 1 .. Len(waiters) : waiters[i] \in late => \E j \in 1 .. Len(expired') : expired'[j] = waiters[i]
    BY <1>d, <2>1, FilterIsPart, SMTT(60)
  <2>4. \A i \in 1 .. Len(waiters) : waiters[i] \in ToSet(waiters) \ late =>
          \E j \in 1 .. Len(waiters') : waiters'[j] = waiters[i]
    BY <1>d, <2>1, FilterIsPart, SMTT(30)
  <2>5. \A i \in 1 .. Len(waiters) : waiters[i] \in late \/ waiters[i] \in ToSet(waiters) \ late
    BY <1>d DEF ToSet
  <2>6. ASSUME NEW c \in Clients, Awaited(c) PROVE Awaited(c)'
    <3>1. ~GaveUp(c) /\ IsServed(c)' = IsServed(c)
      BY <2>2 DEF GaveUp, IsServed
    <3>2. Waits(c) => Waits(c)' \/ GaveUp(c)'
      BY <1>d, <2>3, <2>4, <2>5 DEF Waits, GaveUp
    <3> QED BY <2>2, <2>6, <3>1, <3>2 DEF Awaited
  <2> QED BY <2>2, <2>6, SomebodyKnows
<1>9. CASE ExpireDeliver
  <2> DEFINE x == Head(expired)
             r == Reply(x.id, x.left, Nothing)
  <2>1. /\ waiters' = waiters /\ open' = open /\ blocked' = blocked /\ out' = out
        /\ pending' = [pending EXCEPT ![x.client] = Append(@, r)]
        /\ expired' = Tail(expired) /\ expired # <<>>
    BY <1>9 DEF ExpireDeliver, peer
  <2>2. x \in Waiter /\ x = expired[1]
    BY <1>d, <2>1
  <2>3. x.client \in Clients /\ r \in Answer
    BY <2>2 DEF Waiter, Reply, Answer, Nothing
  <2>4. /\ Len(expired') = Len(expired) - 1 /\ Len(expired) \in Nat
        /\ \A i \in 1 .. Len(expired') : expired'[i] = expired[i + 1]
    BY <1>d, <2>1, HeadTailProperties, LenProperties
  <2> HIDE DEF x, r
  <2>5. pending'[x.client] # <<>>
    <3>1. pending'[x.client] = Append(pending[x.client], r) /\ pending[x.client] \in Seq(Answer)
      BY <2>1, <2>3 DEF Types, ClientTypes
    <3> QED BY <2>3, <3>1, AppendProperties
  <2>6. ASSUME NEW c \in Clients, pending[c] # <<>> PROVE pending'[c] # <<>>
    <3>1. CASE c = x.client
      BY <2>5, <3>1
    <3>2. CASE c # x.client
      BY <2>1, <2>6, <3>2 DEF Types, ClientTypes
    <3> QED BY <3>1, <3>2
  <2>7. ASSUME NEW c \in Clients, GaveUp(c) PROVE GaveUp(c)' \/ pending'[c] # <<>>
    <3>1. PICK i \in 1 .. Len(expired) : expired[i].client = c
      BY <1>d, <2>7 DEF GaveUp
    <3>2. CASE i = 1
      BY <2>2, <2>5, <3>1, <3>2
    <3>3. CASE i # 1
      <4>1. i - 1 \in 1 .. Len(expired') /\ (i - 1) + 1 = i
        BY <2>4, <3>1, <3>3
      <4>2. expired'[i - 1] = expired[i]
        BY <2>4, <4>1
      <4> QED BY <1>d, <3>1, <4>1, <4>2 DEF GaveUp
    <3> QED BY <3>2, <3>3
  <2>8. ASSUME NEW c \in Clients, Awaited(c) PROVE Awaited(c)'
    <3>1. IsServed(c)' = IsServed(c) /\ Waits(c)' = Waits(c)
      BY <2>1 DEF IsServed, Waits
    <3> QED BY <2>6, <2>7, <2>8, <3>1 DEF Awaited
  <2> QED BY <2>1, <2>8, SomebodyKnows
<1>10. CASE \E c \in Clients : Send(c) \/ Hangup(c)
  BY <1>1, <1>10 DEF Send, Hangup, peer
<1>11. ASSUME NEW w \in Workers, WorkerStep(w), ~Register(w), ~Serve(w), ~Publish(w), ~Deliver(w), ~ProcessAsync(w), ~RemoveConnection(w)
       PROVE  BlockedIsAwaited'
  BY <1>1, <1>11, Zenon DEF WorkerStep, HandleRead, ParseEnd, Quit, Transaction, Exec, Queue, Ordinary,
       RPush, RPop, TryPop, Notify, Skip, NoneServed, Delivered, Subscribe, Closed, peer
<1>12. CASE UNCHANGED vars
  BY <1>1, <1>12 DEF vars, peer
<1> QED BY <1>2, <1>3, <1>4, <1>5, <1>6, <1>7, <1>8, <1>9, <1>10, <1>11, <1>12 DEF Next, WorkerStep

Carried(s) == [i \in DOMAIN s |-> s[i].what.value]

HeldLength == [h \in Holders |->
  IF h[1] = "list" THEN Len(list[h[2]])
  ELSE IF h[1] = "pending" THEN Len(pending[h[2]])
  ELSE IF h[1] = "replies" THEN Len(replies[h[2]])
  ELSE Len(out[h[2]])]

IsTallied == Tally(Held, HeldLength, Holders, issued)

Row(h, s, n) == h \in Holders /\ Held[h] = s /\ HeldLength[h] = n

HeldRows ==
  /\ \A k \in Keys : Row(<<"list", k>>, list[k], Len(list[k]))
  /\ \A c \in Clients : Row(<<"pending", c>>, Values(pending[c]), Len(pending[c]))
  /\ \A c \in Clients : Row(<<"replies", c>>, Values(replies[c]), Len(replies[c]))
  /\ \A w \in Workers : Row(<<"out", w>>, Carried(out[w]), Len(out[w]))

LEMMA HoldersAre ==
  ASSUME NEW h
  PROVE  h \in Holders <=>
           \/ \E k \in Keys : h = <<"list", k>>
           \/ \E c \in Clients : h = <<"pending", c>> \/ h = <<"replies", c>>
           \/ \E w \in Workers : h = <<"out", w>>
BY DEF Holders

LEMMA HeldAre == HeldRows
<1>1. ASSUME NEW k \in Keys PROVE Row(<<"list", k>>, list[k], Len(list[k]))
  <2>1. <<"list", k>> \in Holders
    BY HoldersAre
  <2> QED BY <2>1 DEF Row, Held, HeldLength
<1>2. ASSUME NEW c \in Clients PROVE Row(<<"pending", c>>, Values(pending[c]), Len(pending[c]))
  <2>1. <<"pending", c>> \in Holders
    BY HoldersAre
  <2> QED BY <2>1 DEF Row, Held, HeldLength
<1>3. ASSUME NEW c \in Clients PROVE Row(<<"replies", c>>, Values(replies[c]), Len(replies[c]))
  <2>1. <<"replies", c>> \in Holders
    BY HoldersAre
  <2> QED BY <2>1 DEF Row, Held, HeldLength
<1>4. ASSUME NEW w \in Workers PROVE Row(<<"out", w>>, Carried(out[w]), Len(out[w]))
  <2>1. <<"out", w>> \in Holders
    BY HoldersAre
  <2> QED BY <2>1 DEF Row, Held, HeldLength, Carried
<1> QED BY <1>1, <1>2, <1>3, <1>4 DEF HeldRows

LEMMA HeldAreNext == HeldRows'
BY HeldAre, PTL

-----------------------------------------------------------------------------
(* What the sequences of answers carry. *)
LEMMA ValuesAre ==
  ASSUME NEW s \in Seq(Answer)
  PROVE  /\ Len(s) \in Nat /\ Values(s) \in [1 .. Len(s) -> Nat]
         /\ \A i \in 1 .. Len(s) : Values(s)[i] = s[i].value
<1>1. \A i \in 1 .. Len(s) : s[i] \in Answer
  OBVIOUS
<1>2. \A i \in 1 .. Len(s) : s[i].value \in Nat
  BY <1>1 DEF Answer
<1>3. Len(s) \in Nat /\ DOMAIN s = 1 .. Len(s)
  OBVIOUS
<1> QED BY <1>2, <1>3 DEF Values

LEMMA CarriedAre ==
  ASSUME NEW s \in Seq(Delivery)
  PROVE  /\ Len(s) \in Nat /\ Carried(s) \in [1 .. Len(s) -> Nat]
         /\ \A i \in 1 .. Len(s) : Carried(s)[i] = s[i].what.value
<1>1. \A i \in 1 .. Len(s) : s[i] \in Delivery
  OBVIOUS
<1>2. \A i \in 1 .. Len(s) : s[i].what.value \in Nat
  BY <1>1 DEF Delivery, Answer
<1>3. Len(s) \in Nat /\ DOMAIN s = 1 .. Len(s)
  OBVIOUS
<1> QED BY <1>2, <1>3 DEF Carried

LEMMA ValuesAppend ==
  ASSUME NEW s \in Seq(Answer), NEW r \in Answer
  PROVE  /\ Len(Append(s, r)) = Len(s) + 1
         /\ \A i \in 1 .. Len(s) : Values(Append(s, r))[i] = Values(s)[i]
         /\ Values(Append(s, r))[Len(s) + 1] = r.value
<1> DEFINE t == Append(s, r)
<1>1. t \in Seq(Answer) /\ Len(t) = Len(s) + 1 /\ Len(s) \in Nat
  OBVIOUS
<1>2. \A i \in 1 .. Len(s) : t[i] = s[i]
  OBVIOUS
<1>3. t[Len(s) + 1] = r
  OBVIOUS
<1> HIDE DEF t
<1>4. \A i \in 1 .. Len(t) : Values(t)[i] = t[i].value
  BY <1>1, ValuesAre
<1>5. \A i \in 1 .. Len(s) : Values(s)[i] = s[i].value
  BY ValuesAre
<1> DEFINE n == Len(s)
           m == Len(t)
<1>6. m = n + 1 /\ n \in Nat /\ \A i \in 1 .. m : Values(t)[i] = t[i].value
  BY <1>1, <1>4
<1>7. /\ \A i \in 1 .. n : t[i] = s[i] /\ Values(s)[i] = s[i].value
      /\ t[n + 1] = r
  BY <1>2, <1>3, <1>5
<1> HIDE DEF n, m
<1>8. \A i \in 1 .. n : Values(t)[i] = Values(s)[i]
  BY <1>6, <1>7
<1>9. Values(t)[n + 1] = r.value
  BY <1>6, <1>7
<1> QED BY <1>1, <1>8, <1>9 DEF t, n

LEMMA ValuesConcat ==
  ASSUME NEW s \in Seq(Answer), NEW u \in Seq(Answer)
  PROVE  /\ Len(s \o u) = Len(s) + Len(u)
         /\ \A i \in 1 .. Len(s) : Values(s \o u)[i] = Values(s)[i]
         /\ \A i \in 1 .. Len(u) : Values(s \o u)[Len(s) + i] = Values(u)[i]
<1> DEFINE t == s \o u
           n == Len(s)
           k == Len(u)
           m == Len(t)
<1>1. t \in Seq(Answer) /\ m = n + k /\ n \in Nat /\ k \in Nat
  OBVIOUS
<1>2. \A i \in 1 .. n : t[i] = s[i]
  OBVIOUS
<1>3. \A i \in 1 .. k : t[n + i] = u[i]
  OBVIOUS
<1>4. \A i \in 1 .. m : Values(t)[i] = t[i].value
  <2> HIDE DEF t
  <2> QED BY <1>1, ValuesAre
<1>5. \A i \in 1 .. n : Values(s)[i] = s[i].value
  BY ValuesAre
<1>6. \A i \in 1 .. k : Values(u)[i] = u[i].value
  BY ValuesAre
<1> HIDE DEF t, n, k, m
<1>8. \A i \in 1 .. n : Values(t)[i] = Values(s)[i]
  BY <1>1, <1>2, <1>4, <1>5, SMTT(30)
<1>9. \A i \in 1 .. k : Values(t)[n + i] = Values(u)[i]
  BY <1>1, <1>3, <1>4, <1>6, SMTT(30)
<1> QED BY <1>1, <1>8, <1>9 DEF t, n, k, m

LEMMA RowsOfHeld ==
  ASSUME Types
  PROVE  Rows(Held, HeldLength, Holders)
<1>0. HeldRows
  BY HeldAre
<1>1. ASSUME NEW h \in Holders
      PROVE  Held[h] \in [1 .. HeldLength[h] -> Nat] /\ HeldLength[h] \in Nat
  <2>1. ASSUME NEW k \in Keys, h = <<"list", k>>
        PROVE  Held[h] \in [1 .. HeldLength[h] -> Nat] /\ HeldLength[h] \in Nat
    <3>1. list[k] \in Seq(Nat)
      BY DEF Types, StoreTypes
    <3>2. list[k] \in [1 .. Len(list[k]) -> Nat] /\ Len(list[k]) \in Nat
      BY <3>1
    <3> QED BY <1>0, <2>1, <3>2 DEF HeldRows, Row
  <2>2. ASSUME NEW c \in Clients, h = <<"pending", c>>
        PROVE  Held[h] \in [1 .. HeldLength[h] -> Nat] /\ HeldLength[h] \in Nat
    <3>1. pending[c] \in Seq(Answer)
      BY DEF Types, ClientTypes
    <3>2. Values(pending[c]) \in [1 .. Len(pending[c]) -> Nat] /\ Len(pending[c]) \in Nat
      BY <3>1, ValuesAre
    <3> QED BY <1>0, <2>2, <3>2 DEF HeldRows, Row
  <2>3. ASSUME NEW c \in Clients, h = <<"replies", c>>
        PROVE  Held[h] \in [1 .. HeldLength[h] -> Nat] /\ HeldLength[h] \in Nat
    <3>1. replies[c] \in Seq(Answer)
      BY DEF Types, ClientTypes
    <3>2. Values(replies[c]) \in [1 .. Len(replies[c]) -> Nat] /\ Len(replies[c]) \in Nat
      BY <3>1, ValuesAre
    <3> QED BY <1>0, <2>3, <3>2 DEF HeldRows, Row
  <2>4. ASSUME NEW w \in Workers, h = <<"out", w>>
        PROVE  Held[h] \in [1 .. HeldLength[h] -> Nat] /\ HeldLength[h] \in Nat
    <3>1. out[w] \in Seq(Delivery)
      BY DEF Types, WorkerTypes
    <3>2. Carried(out[w]) \in [1 .. Len(out[w]) -> Nat] /\ Len(out[w]) \in Nat
      BY <3>1, CarriedAre
    <3> QED BY <1>0, <2>4, <3>2 DEF HeldRows, Row
  <2> QED BY <2>1, <2>2, <2>3, <2>4, HoldersAre
<1>2. HeldLength \in [Holders -> Nat]
  <2>1. HeldLength = [h \in Holders |-> HeldLength[h]]
    BY DEF HeldLength
  <2> QED BY <1>1, <2>1
<1> QED BY <1>1, <1>2 DEF Rows

LEMMA RowsOfHeldNext ==
  ASSUME Types'
  PROVE  Rows(Held, HeldLength, Holders)'
<1>1. Types => Rows(Held, HeldLength, Holders)
  BY RowsOfHeld
<1> QED BY <1>1, RowsOfHeld, PTL

-----------------------------------------------------------------------------
SameRow(h) == Held'[h] = Held[h] /\ HeldLength'[h] = HeldLength[h]

LEMMA Untouched ==
  /\ \A k \in Keys : list'[k] = list[k] => SameRow(<<"list", k>>)
  /\ \A c \in Clients : pending'[c] = pending[c] => SameRow(<<"pending", c>>)
  /\ \A c \in Clients : replies'[c] = replies[c] => SameRow(<<"replies", c>>)
  /\ \A w \in Workers : out'[w] = out[w] => SameRow(<<"out", w>>)
<1>1. HeldRows /\ HeldRows'
  BY HeldAre, HeldAreNext
<1>2. \A k \in Keys : list'[k] = list[k] => SameRow(<<"list", k>>)
  BY <1>1 DEF HeldRows, Row, SameRow
<1>3. \A c \in Clients : pending'[c] = pending[c] => SameRow(<<"pending", c>>)
  BY <1>1 DEF HeldRows, Row, SameRow
<1>4. \A c \in Clients : replies'[c] = replies[c] => SameRow(<<"replies", c>>)
  BY <1>1 DEF HeldRows, Row, SameRow
<1>5. \A w \in Workers : out'[w] = out[w] => SameRow(<<"out", w>>)
  BY <1>1 DEF HeldRows, Row, SameRow
<1> QED BY <1>2, <1>3, <1>4, <1>5

OnlyIn(H) ==
  /\ \A k \in Keys : list'[k] = list[k] \/ <<"list", k>> \in H
  /\ \A c \in Clients : pending'[c] = pending[c] \/ <<"pending", c>> \in H
  /\ \A c \in Clients : replies'[c] = replies[c] \/ <<"replies", c>> \in H
  /\ \A w \in Workers : out'[w] = out[w] \/ <<"out", w>> \in H

LEMMA RestStays ==
  ASSUME NEW H, OnlyIn(H), NEW h \in Holders, h \notin H
  PROVE  SameRow(h)
BY Untouched, HoldersAre DEF OnlyIn

(* Nothing moves. *)
LEMMA NoneMoves ==
  ASSUME Types, Types', IsTallied, OnlyIn({}), issued' = issued
  PROVE  IsTallied'
<1>1. Rows(Held, HeldLength, Holders)'
  BY RowsOfHeldNext
<1>2. \A h \in Holders : SameRow(h)
  BY RestStays
<1>3. ASSUME NEW v \in 1 .. issued PROVE IsHeld(Held, HeldLength, Holders, v)' /\ IsAlone(Held, HeldLength, Holders, v)'
  <2>1. IsHeld(Held, HeldLength, Holders, v) /\ IsAlone(Held, HeldLength, Holders, v)
    BY DEF IsTallied, Tally
  <2> QED BY <1>2, <2>1 DEF IsHeld, IsAlone, SameRow, Holders
<1>4. \A x \in Holders : \A i \in 1 .. HeldLength'[x] : Held'[x][i] <= issued
  BY <1>2 DEF IsTallied, Tally, SameRow
<1> QED BY <1>1, <1>3, <1>4 DEF IsTallied, Tally, Holders

(* An answer without a value. *)
LEMMA SaysNothing ==
  ASSUME Types, Types', IsTallied, issued' = issued,
         NEW c \in Clients, NEW r \in Answer, r.value = 0,
         \/ OnlyIn({<<"replies", c>>}) /\ replies'[c] = Append(replies[c], r)
         \/ OnlyIn({<<"pending", c>>}) /\ pending'[c] = Append(pending[c], r)
  PROVE  IsTallied'
<1>1. HeldRows /\ HeldRows'
  BY HeldAre, HeldAreNext
<1>2. Rows(Held', HeldLength', Holders)
  BY RowsOfHeldNext DEF Holders
<1>3. issued \in Nat /\ Tally(Held, HeldLength, Holders, issued)
  BY DEF Types, StoreTypes, IsTallied
<1>4. ASSUME NEW x, AddsZeros(Held, HeldLength, Held', HeldLength', Holders, x)
      PROVE  IsTallied'
  <2>1. Tally(Held', HeldLength', Holders, issued)
    BY <1>2, <1>3, <1>4, AddZeros
  <2> QED BY <2>1 DEF IsTallied, Holders
<1>5. ASSUME NEW s \in Seq(Answer), NEW x \in Holders, OnlyIn({x}),
             Row(x, Values(s), Len(s)),
             Held'[x] = Values(Append(s, r)), HeldLength'[x] = Len(Append(s, r))
      PROVE  IsTallied'
  <2> DEFINE n == HeldLength[x]
  <2>1. Len(Append(s, r)) = n + 1 /\ n \in Nat
    BY <1>5 DEF Row
  <2>2. /\ \A i \in 1 .. n : Held'[x][i] = Held[x][i]
        /\ Held'[x][n + 1] = 0
    BY <1>5, ValuesAppend DEF Row
  <2>3. \A z \in Holders : z # x => SameRow(z)
    BY <1>5, RestStays
  <2>4. HeldLength'[x] = n + 1
    BY <1>5, <2>1
  <2> HIDE DEF n
  <2>5. HeldLength[x] <= HeldLength'[x]
    BY <2>1, <2>4 DEF n
  <2>6. \A i \in 1 .. HeldLength'[x] : i > n => i = n + 1
    BY <2>1, <2>4
  <2>7. \A i \in 1 .. HeldLength'[x] : i > HeldLength[x] => Held'[x][i] = 0
    BY <2>2, <2>6 DEF n
  <2>8. AddsZeros(Held, HeldLength, Held', HeldLength', Holders, x)
    BY <1>5, <2>2, <2>3, <2>5, <2>7 DEF AddsZeros, SameRow, n
  <2> QED BY <1>4, <2>8
<1>6. replies[c] \in Seq(Answer) /\ pending[c] \in Seq(Answer)
  BY DEF Types, ClientTypes
<1>7. CASE OnlyIn({<<"replies", c>>}) /\ replies'[c] = Append(replies[c], r)
  <2>1. Row(<<"replies", c>>, Values(replies[c]), Len(replies[c]))
    BY <1>1 DEF HeldRows
  <2>2. /\ Held'[<<"replies", c>>] = Values(Append(replies[c], r))
        /\ HeldLength'[<<"replies", c>>] = Len(Append(replies[c], r))
    BY <1>1, <1>7 DEF HeldRows, Row, Values
  <2>3. <<"replies", c>> \in Holders
    BY <2>1 DEF Row
  <2> QED BY <1>5, <1>6, <1>7, <2>1, <2>2, <2>3
<1>8. CASE OnlyIn({<<"pending", c>>}) /\ pending'[c] = Append(pending[c], r)
  <2>1. Row(<<"pending", c>>, Values(pending[c]), Len(pending[c]))
    BY <1>1 DEF HeldRows
  <2>2. /\ Held'[<<"pending", c>>] = Values(Append(pending[c], r))
        /\ HeldLength'[<<"pending", c>>] = Len(Append(pending[c], r))
    BY <1>1, <1>8 DEF HeldRows, Row, Values
  <2>3. <<"pending", c>> \in Holders
    BY <2>1 DEF Row
  <2> QED BY <1>5, <1>6, <1>8, <2>1, <2>2, <2>3
<1> QED BY <1>7, <1>8

(* What is added to a row of answers. *)
Added(y, v) ==
  /\ HeldLength'[y] = HeldLength[y] + 1
  /\ \A i \in 1 .. HeldLength[y] : Held'[y][i] = Held[y][i]
  /\ Held'[y][HeldLength[y] + 1] = v

LEMMA ToldIsAdded ==
  ASSUME Types, NEW c \in Clients, NEW r \in Answer, replies'[c] = Append(replies[c], r)
  PROVE  Added(<<"replies", c>>, r.value)
<1>1. HeldRows /\ HeldRows'
  BY HeldAre, HeldAreNext
<1>2. Row(<<"replies", c>>, Values(replies[c]), Len(replies[c]))
  BY <1>1 DEF HeldRows
<1>3. /\ Held'[<<"replies", c>>] = Values(Append(replies[c], r))
      /\ HeldLength'[<<"replies", c>>] = Len(Append(replies[c], r))
  BY <1>1 DEF HeldRows, Row, Values
<1>4. replies[c] \in Seq(Answer)
  BY DEF Types, ClientTypes
<1> QED BY <1>2, <1>3, <1>4, ValuesAppend DEF Row, Added

LEMMA SentIsAdded ==
  ASSUME Types, NEW c \in Clients, NEW r \in Answer, pending'[c] = Append(pending[c], r)
  PROVE  Added(<<"pending", c>>, r.value)
<1>1. HeldRows /\ HeldRows'
  BY HeldAre, HeldAreNext
<1>2. Row(<<"pending", c>>, Values(pending[c]), Len(pending[c]))
  BY <1>1 DEF HeldRows
<1>3. /\ Held'[<<"pending", c>>] = Values(Append(pending[c], r))
      /\ HeldLength'[<<"pending", c>>] = Len(Append(pending[c], r))
  BY <1>1 DEF HeldRows, Row, Values
<1>4. pending[c] \in Seq(Answer)
  BY DEF Types, ClientTypes
<1> QED BY <1>2, <1>3, <1>4, ValuesAppend DEF Row, Added

(* The last value of a list moves to the end of another row. *)
LEMMA PoppedMoves ==
  ASSUME Types, Types', IsTallied, issued' = issued,
         NEW k \in Keys, list[k] # <<>>, list' = Rest(k),
         NEW y \in Holders, y # <<"list", k>>, OnlyIn({<<"list", k>>, y}),
         Added(y, Last(list[k]))
  PROVE  IsTallied'
<1> DEFINE x == <<"list", k>>
           n == Len(list[k])
<1>1. HeldRows /\ HeldRows'
  BY HeldAre, HeldAreNext
<1>2. Rows(Held', HeldLength', Holders)
  BY RowsOfHeldNext DEF Holders
<1>3. issued \in Nat /\ Tally(Held, HeldLength, Holders, issued)
  BY DEF Types, StoreTypes, IsTallied
<1>4. list[k] \in Seq(Nat) /\ list \in [Keys -> Seq(Nat)]
  BY DEF Types, StoreTypes
<1>5. /\ Len(Front(list[k])) = n - 1 /\ n \in Nat \ {0} /\ Last(list[k]) = list[k][n]
      /\ \A i \in 1 .. n - 1 : Front(list[k])[i] = list[k][i]
  BY <1>4, LastAndFront
<1>6. list'[k] = Front(list[k])
  BY <1>4 DEF Rest
<1>7. x \in Holders /\ Held[x] = list[k] /\ HeldLength[x] = n
  BY <1>1 DEF HeldRows, Row
<1>8. Held'[x] = Front(list[k]) /\ HeldLength'[x] = n - 1
  BY <1>1, <1>5, <1>6 DEF HeldRows, Row
<1>9. \A z \in Holders : z # x /\ z # y => SameRow(z)
  BY RestStays
<1> HIDE DEF x, n
<1>10. n \in 1 .. HeldLength[x]
  BY <1>5, <1>7
<1>11. \A i \in 1 .. HeldLength[x] - 1 : Held'[x][i] = Held[x][IF i < n THEN i ELSE i + 1]
  BY <1>5, <1>7, <1>8
<1>12. y # x
  BY DEF x
<1>13. HeldLength'[x] = HeldLength[x] - 1 /\ Held'[y][HeldLength[y] + 1] = Held[x][n]
  BY <1>5, <1>7, <1>8 DEF Added
<1>14. MovesOne(Held, HeldLength, Held', HeldLength', Holders, x, y, n)
  BY <1>7, <1>9, <1>10, <1>11, <1>12, <1>13 DEF MovesOne, Added, SameRow
<1>15. Tally(Held', HeldLength', Holders, issued)
  BY <1>2, <1>3, <1>14, MoveOne
<1> QED BY <1>15 DEF IsTallied, Holders

(* The answer of the popped value leaves the hands of a worker. *)
LEMMA DeliveredMoves ==
  ASSUME Types, Types', IsTallied, issued' = issued,
         NEW w \in Workers, out[w] # <<>>, out'[w] = Tail(out[w]),
         NEW c \in Clients, pending'[c] = Append(pending[c], Head(out[w]).what),
         OnlyIn({<<"out", w>>, <<"pending", c>>})
  PROVE  IsTallied'
<1> DEFINE x == <<"out", w>>
           y == <<"pending", c>>
           s == out[w]
           t == Tail(s)
           n == Len(s)
<1>1. HeldRows /\ HeldRows'
  BY HeldAre, HeldAreNext
<1>2. Rows(Held', HeldLength', Holders)
  BY RowsOfHeldNext DEF Holders
<1>3. issued \in Nat /\ Tally(Held, HeldLength, Holders, issued)
  BY DEF Types, StoreTypes, IsTallied
<1>4. s \in Seq(Delivery) /\ s # <<>>
  BY DEF Types, WorkerTypes
<1>5. /\ t \in Seq(Delivery) /\ Len(t) = n - 1 /\ n \in Nat \ {0} /\ Head(s) = s[1]
      /\ s[1] \in Delivery
  BY <1>4
<1>6. \A i \in 1 .. n - 1 : t[i] = s[i + 1]
  BY <1>4, <1>5
<1>7. x \in Holders /\ Held[x] = Carried(s) /\ HeldLength[x] = n /\ y \in Holders
  BY <1>1 DEF HeldRows, Row
<1>8. Held'[x] = Carried(t) /\ HeldLength'[x] = n - 1
  BY <1>1, <1>5 DEF HeldRows, Row, Carried
<1>9. \A z \in Holders : z # x /\ z # y => SameRow(z)
  BY RestStays
<1>10. Head(s).what \in Answer
  BY <1>5 DEF Delivery
<1>11. Added(y, Head(s).what.value)
  BY <1>10, SentIsAdded
<1>12. x # y
  OBVIOUS
<1> HIDE DEF x, y, t
<1>13. \A i \in 1 .. n - 1 : Carried(t)[i] = t[i].what.value
  BY <1>5, CarriedAre
<1>14. \A i \in 1 .. n : Carried(s)[i] = s[i].what.value
  BY <1>4, CarriedAre
<1> HIDE DEF s, n
<1>15. \A i \in 1 .. n - 1 : Held'[x][i] = Held[x][i + 1]
  BY <1>5, <1>6, <1>7, <1>8, <1>13, <1>14
<1>16. Held[x][1] = Head(s).what.value
  BY <1>5, <1>7, <1>14
<1>17. \A i \in 1 .. HeldLength[x] - 1 : Held'[x][i] = Held[x][IF i < 1 THEN i ELSE i + 1]
  BY <1>5, <1>7, <1>15
<1>18. 1 \in 1 .. HeldLength[x] /\ HeldLength'[x] = HeldLength[x] - 1
  BY <1>5, <1>7, <1>8
<1>19. MovesOne(Held, HeldLength, Held', HeldLength', Holders, x, y, 1)
  BY <1>7, <1>9, <1>11, <1>12, <1>16, <1>17, <1>18 DEF MovesOne, Added, SameRow
<1>20. Tally(Held', HeldLength', Holders, issued)
  BY <1>2, <1>3, <1>19, MoveOne
<1> QED BY <1>20 DEF IsTallied, Holders

(* All that is pending is sent. *)
LEMMA PendingMoves ==
  ASSUME Types, Types', IsTallied, issued' = issued,
         NEW c \in Clients, pending'[c] = <<>>, replies'[c] = replies[c] \o pending[c],
         OnlyIn({<<"pending", c>>, <<"replies", c>>})
  PROVE  IsTallied'
<1> DEFINE x == <<"pending", c>>
           y == <<"replies", c>>
           s == replies[c]
           u == pending[c]
<1>1. HeldRows /\ HeldRows'
  BY HeldAre, HeldAreNext
<1>2. Rows(Held', HeldLength', Holders)
  BY RowsOfHeldNext DEF Holders
<1>3. issued \in Nat /\ Tally(Held, HeldLength, Holders, issued)
  BY DEF Types, StoreTypes, IsTallied
<1>4. s \in Seq(Answer) /\ u \in Seq(Answer)
  BY DEF Types, ClientTypes
<1>5. /\ x \in Holders /\ Held[x] = Values(u) /\ HeldLength[x] = Len(u)
      /\ y \in Holders /\ Held[y] = Values(s) /\ HeldLength[y] = Len(s)
  BY <1>1 DEF HeldRows, Row
<1>6. HeldLength'[x] = 0 /\ Held'[y] = Values(s \o u) /\ HeldLength'[y] = Len(s \o u)
  BY <1>1 DEF HeldRows, Row, Values
<1>7. \A z \in Holders : z # x /\ z # y => SameRow(z)
  BY RestStays
<1>8. x # y
  OBVIOUS
<1> HIDE DEF x, y, s, u
<1>9. MovesAll(Held, HeldLength, Held', HeldLength', Holders, x, y)
  BY <1>4, <1>5, <1>6, <1>7, <1>8, ValuesConcat DEF MovesAll, SameRow
<1>10. Tally(Held', HeldLength', Holders, issued)
  BY <1>2, <1>3, <1>9, MoveAll
<1> QED BY <1>10 DEF IsTallied, Holders

(* Answers without a value, in hands that were empty. *)
LEMMA TakesMessages ==
  ASSUME Types, Types', IsTallied, issued' = issued,
         NEW w \in Workers, out[w] = <<>>, OnlyIn({<<"out", w>>}),
         \A i \in 1 .. Len(out'[w]) : out'[w][i].what.value = 0
  PROVE  IsTallied'
<1> DEFINE x == <<"out", w>>
           t == out'[w]
<1>1. HeldRows /\ HeldRows'
  BY HeldAre, HeldAreNext
<1>2. Rows(Held', HeldLength', Holders)
  BY RowsOfHeldNext DEF Holders
<1>3. issued \in Nat /\ Tally(Held, HeldLength, Holders, issued)
  BY DEF Types, StoreTypes, IsTallied
<1>4. t \in Seq(Delivery)
  BY DEF Types, WorkerTypes
<1>5. x \in Holders /\ HeldLength[x] = 0 /\ Held'[x] = Carried(t) /\ HeldLength'[x] = Len(t)
  BY <1>1 DEF HeldRows, Row, Carried
<1>6. Len(t) \in Nat /\ \A i \in 1 .. Len(t) : Carried(t)[i] = t[i].what.value
  BY <1>4, CarriedAre
<1>7. \A i \in 1 .. Len(t) : Carried(t)[i] = 0
  BY <1>6
<1>8. \A z \in Holders : z # x => SameRow(z)
  BY RestStays
<1> HIDE DEF x, t
<1>9. AddsZeros(Held, HeldLength, Held', HeldLength', Holders, x)
  BY <1>5, <1>6, <1>7, <1>8 DEF AddsZeros, SameRow
<1>10. Tally(Held', HeldLength', Holders, issued)
  BY <1>2, <1>3, <1>9, AddZeros
<1> QED BY <1>10 DEF IsTallied, Holders

(* New values at the end of a list. *)
LEMMA PushedAreNew ==
  ASSUME Types, Types', IsTallied, NEW k \in Keys, NEW n \in Nat, issued' = issued + n,
         list'[k] = list[k] \o [i \in 1 .. n |-> issued + i], OnlyIn({<<"list", k>>})
  PROVE  IsTallied'
<1> DEFINE x == <<"list", k>>
           s == list[k]
           new == [i \in 1 .. n |-> issued + i]
<1>1. HeldRows /\ HeldRows'
  BY HeldAre, HeldAreNext
<1>2. Rows(Held', HeldLength', Holders)
  BY RowsOfHeldNext DEF Holders
<1>3. issued \in Nat /\ Tally(Held, HeldLength, Holders, issued)
  BY DEF Types, StoreTypes, IsTallied
<1>4. s \in Seq(Nat)
  BY DEF Types, StoreTypes
<1>5. new \in [1 .. n -> Nat] /\ \A i \in 1 .. n : new[i] = issued + i
  BY <1>3
<1>6. x \in Holders /\ Held[x] = s /\ HeldLength[x] = Len(s)
  BY <1>1 DEF HeldRows, Row
<1>7. Held'[x] = s \o new /\ HeldLength'[x] = Len(s \o new)
  BY <1>1 DEF HeldRows, Row
<1>8. \A z \in Holders : z # x => SameRow(z)
  BY RestStays
<1> HIDE DEF x, s, new
<1>9. new \in Seq(Nat) /\ Len(new) = n
  BY <1>5, SeqDef
<1>10. /\ Len(s \o new) = Len(s) + n
       /\ \A i \in 1 .. Len(s) : (s \o new)[i] = s[i]
       /\ \A i \in 1 .. n : (s \o new)[Len(s) + i] = new[i]
  <2>0. s \o new \in Seq(Nat)
    BY <1>4, <1>9
  <2>1. Len(s \o new) = Len(s) + Len(new)
    BY <1>4, <1>9, ConcatProperties
  <2>2. \A i \in 1 .. Len(s) : (s \o new)[i] = s[i]
    BY <1>4, <1>9
  <2>3. \A i \in 1 .. Len(new) : (s \o new)[Len(s) + i] = new[i]
    BY <1>4, <1>9
  <2> QED BY <1>9, <2>1, <2>2, <2>3
<1>11. AddsNew(Held, HeldLength, Held', HeldLength', Holders, x, issued, n)
  BY <1>5, <1>6, <1>7, <1>8, <1>10 DEF AddsNew, SameRow
<1>12. Tally(Held', HeldLength', Holders, issued + n)
  BY <1>2, <1>3, <1>11, AddNew
<1> QED BY <1>12 DEF IsTallied, Holders

-----------------------------------------------------------------------------
LEMMA ToldNothing ==
  ASSUME Types, Types', IsTallied, issued' = issued, NEW w \in Workers,
         OnlyIn({<<"replies", conn[w]>>}),
         \E r \in Answer : r.value = 0 /\ replies' = [replies EXCEPT ![conn[w]] = Append(@, r)]
  PROVE  IsTallied'
<1>1. conn[w] \in Clients /\ replies \in [Clients -> Seq(Answer)]
  BY DEF Types, WorkerTypes, ClientTypes
<1>2. PICK r \in Answer : r.value = 0 /\ replies' = [replies EXCEPT ![conn[w]] = Append(@, r)]
  OBVIOUS
<1>3. replies'[conn[w]] = Append(replies[conn[w]], r)
  BY <1>1, <1>2
<1> QED BY <1>1, <1>2, <1>3, SaysNothing

LEMMA DoneTells ==
  ASSUME Types, Control, NEW w \in Workers, pc[w] \in Serving, NEW v \in Nat, Done(w, v)
  PROVE  \E r \in Answer : r.value = v /\ replies' = [replies EXCEPT ![conn[w]] = Append(@, r)]
<1>1. run[w] \in Seq(Command) /\ run[w] # <<>> /\ id[w] \in Nat
  BY DEF Types, WorkerTypes, Control, InPlace, HasCommand
<1>2. Len(run[w]) - 1 \in Nat
  BY <1>1
<1>3. Reply(id[w], Len(run[w]) - 1, v) \in Answer /\ Reply(id[w], Len(run[w]) - 1, v).value = v
  BY <1>1, <1>2 DEF Reply, Answer
<1> QED BY <1>3 DEF Done, Tell

LEMMA TallyReads ==
  ASSUME Types, Types', Control, IsTallied, NEW w \in Workers,
         HandleRead(w) \/ ParseEnd(w) \/ Quit(w) \/ Transaction(w) \/ Exec(w) \/ Queue(w) \/ Ordinary(w)
  PROVE  IsTallied'
<1>1. issued' = issued /\ list' = list /\ pending' = pending /\ out' = out
  BY DEF HandleRead, ParseEnd, Quit, Transaction, Exec, Queue, Ordinary, store
<1>2. CASE HandleRead(w) \/ ParseEnd(w) \/ Ordinary(w)
  <2>1. replies' = replies
    BY <1>2 DEF HandleRead, ParseEnd, Ordinary
  <2> QED BY <1>1, <2>1, NoneMoves DEF OnlyIn
<1>3. CASE Quit(w) \/ Transaction(w) \/ Exec(w) \/ Queue(w)
  <2>1. conn[w] \in Clients /\ queue \in [Clients -> Seq(Command)] /\ replies \in [Clients -> Seq(Answer)]
    BY DEF Types, WorkerTypes, ClientTypes
  <2>2. Len(queue[conn[w]]) \in Nat /\ 0 \in Nat
    BY <2>1
  <2>3. PICK left \in Nat : Acknowledge(w, left)
    BY <1>3, <2>2 DEF Quit, Transaction, Exec, Queue
  <2>4. id'[w] \in Nat
    BY DEF Types, WorkerTypes
  <2>5. Reply(id'[w], left, Nothing) \in Answer /\ Reply(id'[w], left, Nothing).value = 0
    BY <2>4 DEF Reply, Answer, Nothing
  <2>6. \E r \in Answer : r.value = 0 /\ replies' = [replies EXCEPT ![conn[w]] = Append(@, r)]
    BY <2>3, <2>5 DEF Acknowledge
  <2>7. OnlyIn({<<"replies", conn[w]>>})
    <3>1. \A c \in Clients : replies'[c] = replies[c] \/ c = conn[w]
      BY <2>1, <2>6
    <3> QED BY <1>1, <3>1 DEF OnlyIn
  <2> QED BY <1>1, <2>6, <2>7, ToldNothing
<1> QED BY <1>2, <1>3

LEMMA TallyCommands ==
  ASSUME Types, Types', Control, IsTallied, NEW w \in Workers,
         RPush(w) \/ RPop(w) \/ TryPop(w) \/ Register(w) \/ Delivered(w) \/ Subscribe(w) \/ Publish(w)
  PROVE  IsTallied'
<1>c. conn[w] \in Clients /\ replies \in [Clients -> Seq(Answer)] /\ list \in [Keys -> Seq(Nat)]
      /\ out \in [Workers -> Seq(Delivery)]
  BY DEF Types, WorkerTypes, ClientTypes, StoreTypes
<1>s. pc[w] \in Serving
  BY DEF RPush, RPop, TryPop, Register, Delivered, Subscribe, Publish, Runs, Serving
<1>1. CASE RPush(w)
  <2>1. Cmd(w).key \in Keys /\ Cmd(w).n \in Nat
    BY <1>1, <1>s, CommandInHand, CommandFields DEF RPush, Runs
  <2>2. /\ list'[Cmd(w).key] = list[Cmd(w).key] \o [i \in 1 .. Cmd(w).n |-> issued + i]
        /\ issued' = issued + Cmd(w).n
        /\ \A k \in Keys : list'[k] = list[k] \/ k = Cmd(w).key
    BY <1>1, <1>c, <2>1 DEF RPush
  <2>3. OnlyIn({<<"list", Cmd(w).key>>})
    BY <1>1, <2>2 DEF RPush, OnlyIn
  <2> QED BY <2>1, <2>2, <2>3, PushedAreNew
<1>2. ASSUME NEW k \in Keys, list[k] # <<>>, list' = Rest(k), Done(w, Last(list[k])),
             pending' = pending, out' = out, issued' = issued
      PROVE  IsTallied'
  <2>1. Last(list[k]) \in Nat
    BY <1>2, RestTypes
  <2>2. PICK r \in Answer : r.value = Last(list[k]) /\ replies' = [replies EXCEPT ![conn[w]] = Append(@, r)]
    BY <1>2, <1>s, <2>1, DoneTells
  <2>3. replies'[conn[w]] = Append(replies[conn[w]], r) /\ \A c \in Clients : c # conn[w] => replies'[c] = replies[c]
    BY <1>c, <2>2
  <2>4. Added(<<"replies", conn[w]>>, Last(list[k]))
    BY <1>c, <2>2, <2>3, ToldIsAdded
  <2>5. \A j \in Keys : j # k => list'[j] = list[j]
    BY <1>c, <1>2 DEF Rest
  <2>6. OnlyIn({<<"list", k>>, <<"replies", conn[w]>>})
    BY <1>2, <2>3, <2>5 DEF OnlyIn
  <2>7. <<"replies", conn[w]>> \in Holders /\ <<"replies", conn[w]>> # <<"list", k>>
    BY <1>c, HoldersAre
  <2> QED BY <1>2, <2>4, <2>6, <2>7, PoppedMoves
<1>3. ASSUME Done(w, 0), list' = list, pending' = pending, out' = out, issued' = issued
      PROVE  IsTallied'
  <2>1. \E r \in Answer : r.value = 0 /\ replies' = [replies EXCEPT ![conn[w]] = Append(@, r)]
    BY <1>3, <1>s, DoneTells
  <2>2. \A c \in Clients : replies'[c] = replies[c] \/ c = conn[w]
    BY <1>c, <2>1
  <2>3. OnlyIn({<<"replies", conn[w]>>})
    BY <1>3, <2>2 DEF OnlyIn
  <2> QED BY <1>3, <2>1, <2>3, ToldNothing
<1>4. CASE RPop(w)
  <2>1. Cmd(w).key \in Keys /\ pending' = pending /\ out' = out /\ issued' = issued
    BY <1>4, <1>s, CommandInHand, CommandFields DEF RPop, Runs
  <2> QED BY <1>2, <1>3, <1>4, <2>1 DEF RPop, Nothing
<1>5. CASE TryPop(w)
  <2> DEFINE k == Cmd(w).keys[at[w][2]]
  <2>1. PopsBlocking(w) /\ pending' = pending /\ out' = out /\ issued' = issued
    BY <1>5 DEF TryPop, Runs, PopsBlocking
  <2>2. Cmd(w).keys \in Seq(Keys) /\ at[w][2] \in 1 .. Len(Cmd(w).keys)
    BY <1>s, <2>1, CommandInHand, CommandFields DEF Control, InPlace, HasPlace, PopsBlocking
  <2>3. k \in Keys
    BY <2>2
  <2>4. CASE list[k] # <<>>
    BY <1>2, <1>5, <2>1, <2>3, <2>4 DEF TryPop
  <2>5. CASE list[k] = <<>>
    <3>1. replies' = replies /\ list' = list
      BY <1>5, <2>5 DEF TryPop
    <3> QED BY <2>1, <3>1, NoneMoves DEF OnlyIn
  <2> QED BY <2>4, <2>5
<1>6. CASE Register(w)
  BY <1>6, NoneMoves DEF OnlyIn, Register, store
<1>7. CASE Delivered(w) \/ Subscribe(w)
  BY <1>3, <1>7 DEF Delivered, Subscribe, store, Nothing
<1>8. CASE Publish(w)
  <2>1. PICK order : out' = [out EXCEPT ![w] = [i \in DOMAIN order |-> [to |-> order[i], what |-> Message]]]
    BY <1>8 DEF Publish
  <2>2. out'[w] = [i \in DOMAIN order |-> [to |-> order[i], what |-> Message]]
        /\ \A v \in Workers : v # w => out'[v] = out[v]
    BY <1>c, <2>1
  <2>3. \A i \in DOMAIN out'[w] : out'[w][i].what.value = 0
    BY <2>2 DEF Message, Nothing
  <2>4. out'[w] \in Seq(Delivery)
    BY DEF Types, WorkerTypes
  <2>5. \A i \in 1 .. Len(out'[w]) : out'[w][i].what.value = 0
    BY <2>3, <2>4
  <2>6. out[w] = <<>>
    BY <1>8 DEF Publish, Runs, Control, InPlace, HasAnswers
  <2>7. OnlyIn({<<"out", w>>}) /\ issued' = issued
    BY <1>8, <2>2 DEF OnlyIn, Publish, store
  <2> QED BY <2>5, <2>6, <2>7, TakesMessages
<1> QED BY <1>1, <1>4, <1>5, <1>6, <1>7, <1>8

LEMMA TallyDeliveries ==
  ASSUME Types, Types', Control, IsTallied, NEW w \in Workers,
         Notify(w) \/ Skip(w) \/ Serve(w) \/ NoneServed(w) \/ Deliver(w)
           \/ ProcessAsync(w) \/ Closed(w) \/ RemoveConnection(w)
  PROVE  IsTallied'
<1>c. list \in [Keys -> Seq(Nat)] /\ out \in [Workers -> Seq(Delivery)]
      /\ replies \in [Clients -> Seq(Answer)] /\ pending \in [Clients -> Seq(Answer)]
  BY DEF Types, WorkerTypes, ClientTypes, StoreTypes
<1>1. CASE Notify(w) \/ Skip(w) \/ NoneServed(w) \/ Closed(w) \/ RemoveConnection(w)
  BY <1>1, NoneMoves, Zenon DEF OnlyIn, Notify, Skip, NoneServed, Closed, RemoveConnection, store
<1>2. CASE Serve(w)
  <2> DEFINE x == waiters[at[w][1]]
             k == x.keys[at[w][2]]
             r == Reply(x.id, x.left, Last(list[k]))
  <2>1. /\ list[k] # <<>> /\ list' = Rest(k) /\ issued' = issued /\ pending' = pending /\ replies' = replies
        /\ out' = [out EXCEPT ![w] = <<[to |-> x.client, what |-> r]>>]
    BY <1>2, Zenon DEF Serve
  <2>2. pc[w] = "scan" /\ out[w] = <<>> /\ at[w][1] \in 1 .. Len(waiters) /\ at[w][2] \in 1 .. Len(x.keys)
    <3>1. InPlace(w) /\ pc[w] = "scan" /\ at[w][1] <= Len(waiters)
      BY <1>2, Zenon DEF Serve, Control
    <3>2. Len(waiters) \in Nat
      BY DEF Types, StoreTypes
    <3>3. at[w][1] \in 1 .. Len(waiters) + 1 /\ at[w][2] \in 1 .. Len(x.keys)
      BY <3>1 DEF InPlace, HasPlace
    <3>4. out[w] = <<>>
      BY <3>1 DEF InPlace, HasAnswers
    <3> HIDE DEF x
    <3> QED BY <3>1, <3>2, <3>3, <3>4
  <2>3. x \in Waiter
    BY <2>2 DEF Types, StoreTypes
  <2>4. k \in Keys
    BY <2>2, <2>3 DEF Waiter
  <2>5. out'[w] = <<[to |-> x.client, what |-> r]>> /\ \A v \in Workers : v # w => out'[v] = out[v]
    BY <1>c, <2>1, Zenon
  <2>6. r.value = Last(list[k])
    BY SMTT(30) DEF Reply
  <2>7. \A j \in Keys : j # k => list'[j] = list[j]
    BY <1>c, <2>1 DEF Rest
  <2>8. OnlyIn({<<"list", k>>, <<"out", w>>})
    BY <2>1, <2>5, <2>7, Zenon DEF OnlyIn
  <2>9. HeldRows /\ HeldRows'
    BY HeldAre, HeldAreNext
  <2>10. HeldLength[<<"out", w>>] = 0 /\ HeldLength'[<<"out", w>>] = Len(out'[w])
         /\ Held'[<<"out", w>>] = Carried(out'[w])
    BY <2>2, <2>9 DEF HeldRows, Row, Carried
  <2>11. Len(out'[w]) = 1 /\ out'[w][1].what.value = r.value /\ out'[w] \in Seq(Delivery)
    <3>1. out'[w] \in Seq(Delivery)
      BY DEF Types, WorkerTypes
    <3>2. Len(out'[w]) = 1 /\ out'[w][1] = [to |-> x.client, what |-> r]
      BY <2>5, SMTT(30)
    <3> HIDE DEF r, x
    <3> QED BY <3>1, <3>2
  <2>12. Carried(out'[w])[1] = r.value
    BY <2>11, CarriedAre, SMTT(60)
  <2>13. Added(<<"out", w>>, Last(list[k]))
    BY <2>6, <2>10, <2>11, <2>12, SMTT(60) DEF Added
  <2>14. <<"out", w>> \in Holders /\ <<"out", w>> # <<"list", k>>
    BY HoldersAre
  <2> QED BY <2>1, <2>4, <2>8, <2>13, <2>14, PoppedMoves, Zenon
<1>3. CASE Deliver(w)
  <2> DEFINE c == Head(out[w]).to
  <2>1. /\ out[w] # <<>> /\ issued' = issued /\ list' = list /\ replies' = replies
        /\ pending' = [pending EXCEPT ![c] = Append(@, Head(out[w]).what)]
        /\ out' = [out EXCEPT ![w] = Tail(@)]
    BY <1>3 DEF Deliver, store
  <2>2. c \in Clients
    <3>1. out[w] \in Seq(Delivery) /\ out[w] # <<>>
      BY <1>c, <2>1
    <3>2. Head(out[w]) \in Delivery
      BY <3>1
    <3> QED BY <3>2 DEF Delivery
  <2>3. /\ pending'[c] = Append(pending[c], Head(out[w]).what) /\ out'[w] = Tail(out[w])
        /\ \A d \in Clients : d # c => pending'[d] = pending[d]
        /\ \A v \in Workers : v # w => out'[v] = out[v]
    BY <1>c, <2>1, <2>2
  <2> HIDE DEF c
  <2>4. OnlyIn({<<"out", w>>, <<"pending", c>>})
    BY <2>1, <2>3 DEF OnlyIn
  <2> QED BY <2>1, <2>2, <2>3, <2>4, DeliveredMoves
<1>4. CASE ProcessAsync(w)
  <2>1. PICK c \in Clients : /\ replies' = [replies EXCEPT ![c] = @ \o pending[c]]
                             /\ pending' = [pending EXCEPT ![c] = <<>>]
    BY <1>4 DEF ProcessAsync
  <2>2. /\ replies'[c] = replies[c] \o pending[c] /\ pending'[c] = <<>>
        /\ \A d \in Clients : d # c => pending'[d] = pending[d] /\ replies'[d] = replies[d]
    BY <1>c, <2>1
  <2>3. issued' = issued /\ list' = list /\ out' = out
    BY <1>4 DEF ProcessAsync, store
  <2>4. OnlyIn({<<"pending", c>>, <<"replies", c>>})
    BY <2>2, <2>3 DEF OnlyIn
  <2> QED BY <2>2, <2>3, <2>4, PendingMoves
<1> QED BY <1>1, <1>2, <1>3, <1>4

LEMMA TallyOthers ==
  ASSUME Types, Types', IsTallied,
         \/ \E c \in Clients : Send(c) \/ Hangup(c)
         \/ Expire \/ ExpireDeliver \/ UNCHANGED vars
  PROVE  IsTallied'
<1>1. CASE \/ \E c \in Clients : Send(c) \/ Hangup(c)
           \/ Expire \/ UNCHANGED vars
  BY <1>1, NoneMoves DEF OnlyIn, Send, Hangup, Expire, vars, store
<1>2. CASE ExpireDeliver
  <2> DEFINE x == Head(expired)
             c == x.client
             r == Reply(x.id, x.left, Nothing)
  <2>1. /\ pending' = [pending EXCEPT ![c] = Append(@, r)]
        /\ list' = list /\ issued' = issued /\ replies' = replies /\ out' = out
    BY <1>2 DEF ExpireDeliver, store
  <2>2. x \in Waiter
    BY <1>2 DEF ExpireDeliver, Types, StoreTypes
  <2>3. c \in Clients /\ r \in Answer /\ r.value = 0
    BY <2>2 DEF Waiter, Reply, Answer, Nothing
  <2> HIDE DEF c, r
  <2>4. pending'[c] = Append(pending[c], r) /\ \A d \in Clients : d # c => pending'[d] = pending[d]
    BY <2>1, <2>3 DEF Types, ClientTypes
  <2>5. OnlyIn({<<"pending", c>>})
    BY <2>1, <2>4 DEF OnlyIn
  <2> QED BY <2>1, <2>3, <2>4, <2>5, SaysNothing
<1> QED BY <1>1, <1>2

LEMMA TallyStep ==
  ASSUME Types, Types', Control, IsTallied, [Next]_vars
  PROVE  IsTallied'
<1>1. CASE \E c \in Clients : Send(c) \/ Hangup(c)
  BY <1>1, TallyOthers
<1>2. ASSUME NEW w \in Workers, WorkerStep(w) PROVE IsTallied'
  BY <1>2, TallyReads, TallyCommands, TallyDeliveries DEF WorkerStep
<1>3. CASE Expire \/ ExpireDeliver \/ UNCHANGED vars
  BY <1>3, TallyOthers
<1> QED BY <1>1, <1>2, <1>3 DEF Next

LEMMA InitTally == Init => IsTallied
<1> SUFFICES ASSUME Init PROVE IsTallied
  OBVIOUS
<1>1. Rows(Held, HeldLength, Holders)
  BY InitTypes, RowsOfHeld
<1>2. HeldRows
  BY HeldAre
<1>3. issued = 0 /\ \A h \in Holders : HeldLength[h] = 0
  <2>1. \A k \in Keys : Len(list[k]) = 0
    BY DEF Init
  <2>2. \A c \in Clients : Len(replies[c]) = 0 /\ Len(pending[c]) = 0
    BY DEF Init
  <2>3. \A w \in Workers : Len(out[w]) = 0
    BY DEF Init
  <2>4. ASSUME NEW h \in Holders PROVE HeldLength[h] = 0
    BY <1>2, <2>1, <2>2, <2>3, HoldersAre DEF HeldRows, Row
  <2> QED BY <2>4 DEF Init
<1> QED BY <1>1, <1>3 DEF IsTallied, Tally

(* Every value ever pushed is in exactly one place: in its list, in the     *)
(* hands of the worker that popped it for a waiter, in the pending answers  *)
(* of a connection, or among its replies.  Neither the service of a BRPOP   *)
(* from notify_blocked_waiter_for_key() nor a client that hangs up loses a  *)
(* value or hands it out twice.                                             *)
THEOREM ValuesOnce == Spec => []EachValueOnce
<1>1. Init => Types /\ Control /\ IsTallied
  BY InitTypes, InitTally
<1>2. Types /\ Control /\ IsTallied /\ [Next]_vars => Types' /\ Control' /\ IsTallied'
  BY TypesStep, TallyStep
<1>3. IsTallied => EachValueOnce
  BY TallyIsHeldOnce DEF IsTallied, EachValueOnce
<1> QED BY <1>1, <1>2, <1>3, PTL DEF Spec

-----------------------------------------------------------------------------
(* The answer to a BRPOP that blocks: none is under way, or one, at one     *)
(* place.                                                                   *)
NoneFor(s, c) == \A i \in 1 .. Len(s) : s[i].client # c

OneFor(s, c, n) ==
  \E i \in 1 .. Len(s) :
    s[i].id = n /\ s[i].left = 0 /\ \A j \in 1 .. Len(s) : s[j].client = c <=> j = i

NoneTo(c) == \A w \in Workers : \A i \in 1 .. Len(out[w]) : out[w][i].to # c

OneTo(c, n) ==
  \E w \in Workers : \E i \in 1 .. Len(out[w]) :
    /\ out[w][i].what.id = n /\ out[w][i].what.left = 0
    /\ \A v \in Workers : \A j \in 1 .. Len(out[v]) : out[v][j].to = c <=> v = w /\ j = i

OneSent(c, n) == Len(pending[c]) = 1 /\ pending[c][1].id = n /\ pending[c][1].left = 0

NoAnswer(c) == NoneFor(waiters, c) /\ NoneFor(expired, c) /\ NoneTo(c) /\ pending[c] = <<>>

AnswerAt(c, n) ==
  \/ OneFor(waiters, c, n) /\ NoneFor(expired, c) /\ NoneTo(c) /\ pending[c] = <<>>
  \/ NoneFor(waiters, c) /\ OneFor(expired, c, n) /\ NoneTo(c) /\ pending[c] = <<>>
  \/ NoneFor(waiters, c) /\ NoneFor(expired, c) /\ OneTo(c, n) /\ pending[c] = <<>>
  \/ NoneFor(waiters, c) /\ NoneFor(expired, c) /\ NoneTo(c) /\ OneSent(c, n)

Kept(c, n) ==
  /\ NoAnswer(c) => NoAnswer(c)'
  /\ AnswerAt(c, n) => AnswerAt(c, n)' \/ NoAnswer(c)'

(* Parts of the waiters. *)
LEMMA PartHasNone ==
  ASSUME NEW t, NEW s, PartOf(t, s), NEW c, NoneFor(s, c)
  PROVE  NoneFor(t, c)
BY DEF PartOf, NoneFor

LEMMA PartHasOne ==
  ASSUME NEW t, NEW s, PartOf(t, s), NEW c, NEW n, OneFor(s, c, n)
  PROVE  NoneFor(t, c) \/ OneFor(t, c, n)
<1>1. PICK e \in [1 .. Len(t) -> 1 .. Len(s)] :
        /\ \A i, j \in 1 .. Len(t) : e[i] = e[j] => i = j
        /\ \A j \in 1 .. Len(t) : t[j] = s[e[j]]
  BY DEF PartOf
<1>2. PICK i \in 1 .. Len(s) :
        s[i].id = n /\ s[i].left = 0 /\ \A j \in 1 .. Len(s) : s[j].client = c <=> j = i
  BY DEF OneFor
<1>3. ASSUME NEW k \in 1 .. Len(t), t[k].client = c PROVE OneFor(t, c, n)
  <2>1. e[k] = i /\ t[k] = s[i]
    BY <1>1, <1>2, <1>3
  <2>2. ASSUME NEW j \in 1 .. Len(t) PROVE t[j].client = c <=> j = k
    <3>1. e[j] \in 1 .. Len(s) /\ t[j] = s[e[j]]
      BY <1>1
    <3>2. t[j].client = c => e[j] = i
      BY <1>2, <3>1
    <3> QED BY <1>1, <1>3, <2>1, <3>2
  <2> QED BY <1>2, <2>1, <2>2 DEF OneFor
<1> QED BY <1>3 DEF NoneFor

(* The element is the same one in every part. *)
LEMMA OneIsThere ==
  ASSUME NEW s, NEW c, NEW n, OneFor(s, c, n)
  PROVE  \E i \in 1 .. Len(s) :
           /\ s[i].client = c /\ s[i].id = n /\ s[i].left = 0
           /\ \A j \in 1 .. Len(s) : s[j].client = c => j = i
BY DEF OneFor

LEMMA HandsUnchanged ==
  ASSUME NEW c \in Clients, NEW n, out' = out
  PROVE  NoneTo(c)' = NoneTo(c) /\ OneTo(c, n)' = OneTo(c, n)
BY DEF NoneTo, OneTo

LEMMA AnswerStays ==
  ASSUME NEW c \in Clients, NEW n, PartOf(waiters', waiters), expired' = expired, out' = out,
         pending'[c] = pending[c]
  PROVE  Kept(c, n)
<1>1. NoneTo(c)' = NoneTo(c) /\ OneTo(c, n)' = OneTo(c, n) /\ OneSent(c, n)' = OneSent(c, n)
  BY HandsUnchanged DEF OneSent
<1>2. NoneFor(waiters, c) => NoneFor(waiters', c)
  BY PartHasNone
<1>3. OneFor(waiters, c, n) => NoneFor(waiters', c) \/ OneFor(waiters', c, n)
  BY PartHasOne
<1>4. NoneFor(waiters, c)' = NoneFor(waiters', c) /\ OneFor(waiters, c, n)' = OneFor(waiters', c, n)
  BY DEF NoneFor, OneFor
<1>5. NoneFor(expired, c)' = NoneFor(expired, c) /\ OneFor(expired, c, n)' = OneFor(expired, c, n)
  BY DEF NoneFor, OneFor
<1> QED BY <1>1, <1>2, <1>3, <1>4, <1>5 DEF Kept, NoAnswer, AnswerAt

(* A waiter of another client is added. *)
LEMMA OthersRegister ==
  ASSUME Types, NEW w \in Workers, Register(w), NEW c \in Clients, c # conn[w], NEW n
  PROVE  Kept(c, n)
<1> DEFINE b == conn[w]
           t == Without(b)
           x == [client |-> b, id |-> id[w], left |-> Len(run[w]) - 1,
                 keys |-> Cmd(w).keys, timed |-> Cmd(w).timed]
<1>1. t \in Seq(Waiter) /\ PartOf(t, waiters)
  BY WithoutIs
<1>2. waiters' = Append(t, x) /\ expired' = expired /\ out' = out /\ pending' = pending
  BY DEF Register
<1>3. x.client # c
  OBVIOUS
<1> HIDE DEF t, x, b
<1>4. /\ Len(waiters') = Len(t) + 1 /\ waiters'[Len(t) + 1] = x /\ Len(t) \in Nat
      /\ \A i \in 1 .. Len(t) : waiters'[i] = t[i]
  BY <1>1, <1>2
<1> DEFINE m == Len(t)
           u == waiters'
<1>5. /\ Len(u) = m + 1 /\ u[m + 1] = x /\ m \in Nat /\ Len(t) = m
      /\ \A i \in 1 .. m : u[i] = t[i]
  BY <1>4
<1> HIDE DEF m, u
<1>6. NoneFor(t, c) => NoneFor(u, c)
  BY <1>3, <1>5 DEF NoneFor
<1>7. ASSUME OneFor(t, c, n) PROVE OneFor(u, c, n)
  <2>1. PICK i \in 1 .. m :
          t[i].id = n /\ t[i].left = 0 /\ \A j \in 1 .. m : t[j].client = c <=> j = i
    BY <1>5, <1>7 DEF OneFor
  <2>2. i \in 1 .. Len(u) /\ u[i] = t[i] /\ i # m + 1
    BY <1>5
  <2>3. ASSUME NEW j \in 1 .. Len(u) PROVE u[j].client = c <=> j = i
    <3>1. CASE j = m + 1
      BY <1>3, <1>5, <2>2, <3>1
    <3>2. CASE j # m + 1
      <4>1. j \in 1 .. m
        BY <1>5, <3>2
      <4> QED BY <1>5, <2>1, <4>1
    <3> QED BY <3>1, <3>2
  <2> QED BY <2>1, <2>2, <2>3 DEF OneFor
<1>8. NoneTo(c)' = NoneTo(c) /\ OneTo(c, n)' = OneTo(c, n) /\ OneSent(c, n)' = OneSent(c, n)
  BY <1>2, HandsUnchanged DEF OneSent
<1>9. NoneFor(waiters, c) => NoneFor(u, c)
  BY <1>1, <1>6, PartHasNone
<1>10. OneFor(waiters, c, n) => NoneFor(u, c) \/ OneFor(u, c, n)
  BY <1>1, <1>6, <1>7, PartHasOne
<1>11. NoneFor(waiters, c)' = NoneFor(u, c) /\ OneFor(waiters, c, n)' = OneFor(u, c, n)
  BY DEF NoneFor, OneFor, u
<1>12. NoneFor(expired, c)' = NoneFor(expired, c) /\ OneFor(expired, c, n)' = OneFor(expired, c, n)
  BY <1>2 DEF NoneFor, OneFor
<1> QED BY <1>2, <1>8, <1>9, <1>10, <1>11, <1>12 DEF Kept, NoAnswer, AnswerAt

(* Waiters expire. *)
LEMMA SomeExpire ==
  ASSUME Types, Types', Expire, NEW c \in Clients, NEW n
  PROVE  Kept(c, n)
<1>1. PICK late : late \subseteq ToSet(waiters) /\
        expired' = Filter(waiters, late) /\ waiters' = Filter(waiters, ToSet(waiters) \ late)
  BY DEF Expire
<1>2. pending' = pending /\ out' = out /\ expired = <<>>
  BY DEF Expire
<1>3. waiters \in Seq(Waiter)
  BY DEF Types, StoreTypes
<1>4. PartOf(waiters', waiters) /\ \A j \in 1 .. Len(waiters') : waiters'[j] \notin late
  BY <1>1, <1>3, FilterIsPart
<1>5. PartOf(expired', waiters) /\ \A j \in 1 .. Len(expired') : expired'[j] \in late
  BY <1>1, <1>3, FilterIsPart
<1>6. NoneTo(c)' = NoneTo(c) /\ OneTo(c, n)' = OneTo(c, n) /\ OneSent(c, n)' = OneSent(c, n)
  BY <1>2, HandsUnchanged DEF OneSent
<1>7. NoneFor(waiters, c) => NoneFor(waiters', c) /\ NoneFor(expired', c)
  BY <1>4, <1>5, PartHasNone
<1>8. ASSUME OneFor(waiters, c, n)
      PROVE  \/ OneFor(waiters', c, n) /\ NoneFor(expired', c)
             \/ NoneFor(waiters', c) /\ (NoneFor(expired', c) \/ OneFor(expired', c, n))
  <2>1. NoneFor(waiters', c) \/ OneFor(waiters', c, n)
    BY <1>4, <1>8, PartHasOne
  <2>2. NoneFor(expired', c) \/ OneFor(expired', c, n)
    BY <1>5, <1>8, PartHasOne
  <2>3. PICK i \in 1 .. Len(waiters) : \A j \in 1 .. Len(waiters) : waiters[j].client = c => j = i
    BY <1>8, OneIsThere
  <2>4. ASSUME NEW t, PartOf(t, waiters), OneFor(t, c, n) PROVE \E k \in 1 .. Len(t) : t[k] = waiters[i]
    <3>1. PICK e \in [1 .. Len(t) -> 1 .. Len(waiters)] : \A j \in 1 .. Len(t) : t[j] = waiters[e[j]]
      BY <2>4 DEF PartOf
    <3>2. PICK k \in 1 .. Len(t) : t[k].client = c
      BY <2>4, OneIsThere
    <3>3. e[k] = i
      BY <2>3, <3>1, <3>2
    <3> QED BY <3>1, <3>3
  <2>5. ~(OneFor(waiters', c, n) /\ OneFor(expired', c, n))
    BY <1>4, <1>5, <2>4
  <2> QED BY <2>1, <2>2, <2>5
<1>9. NoneFor(expired, c) /\ ~OneFor(expired, c, n)
  BY <1>2 DEF NoneFor, OneFor
<1>10. /\ NoneFor(waiters, c)' = NoneFor(waiters', c) /\ OneFor(waiters, c, n)' = OneFor(waiters', c, n)
       /\ NoneFor(expired, c)' = NoneFor(expired', c) /\ OneFor(expired, c, n)' = OneFor(expired', c, n)
  BY DEF NoneFor, OneFor
<1> QED BY <1>2, <1>6, <1>7, <1>8, <1>9, <1>10 DEF Kept, NoAnswer, AnswerAt

(* One worker takes other answers in its hands, which were empty. *)
LEMMA HandsTake ==
  ASSUME Types, Types', NEW w \in Workers, out[w] = <<>>, \A v \in Workers : v # w => out'[v] = out[v],
         NEW c \in Clients, NEW n, \A i \in 1 .. Len(out'[w]) : out'[w][i].to # c
  PROVE  (NoneTo(c) => NoneTo(c)') /\ (OneTo(c, n) => OneTo(c, n)')
<1>0. Len(out[w]) = 0
  OBVIOUS
<1>1. NoneTo(c) => NoneTo(c)'
  BY DEF NoneTo
<1>2. ASSUME OneTo(c, n) PROVE OneTo(c, n)'
  <2>1. PICK v \in Workers : \E i \in 1 .. Len(out[v]) :
          /\ out[v][i].what.id = n /\ out[v][i].what.left = 0
          /\ \A u \in Workers : \A j \in 1 .. Len(out[u]) : out[u][j].to = c <=> u = v /\ j = i
    BY <1>2 DEF OneTo
  <2>2. PICK i \in 1 .. Len(out[v]) :
          /\ out[v][i].what.id = n /\ out[v][i].what.left = 0
          /\ \A u \in Workers : \A j \in 1 .. Len(out[u]) : out[u][j].to = c <=> u = v /\ j = i
    BY <2>1
  <2>3. v # w
    BY <1>0, <2>2
  <2>4. out'[v] = out[v]
    BY <2>3
  <2>5. ASSUME NEW u \in Workers, NEW j \in 1 .. Len(out'[u]) PROVE out'[u][j].to = c <=> u = v /\ j = i
    <3>1. CASE u = w
      BY <2>3, <3>1
    <3>2. CASE u # w
      BY <2>2, <3>2
    <3> QED BY <3>1, <3>2
  <2>6. /\ i \in 1 .. Len(out'[v]) /\ out'[v][i].what.id = n /\ out'[v][i].what.left = 0
        /\ \A u \in Workers : \A j \in 1 .. Len(out'[u]) : out'[u][j].to = c <=> u = v /\ j = i
    BY <2>2, <2>4, <2>5
  <2>7. \E i_1 \in 1 .. Len(out'[v]) :
          /\ out'[v][i_1].what.id = n /\ out'[v][i_1].what.left = 0
          /\ \A u \in Workers : \A j \in 1 .. Len(out'[u]) : out'[u][j].to = c <=> u = v /\ j = i_1
    BY <2>6
  <2> QED BY <2>7 DEF OneTo
<1> QED BY <1>1, <1>2

(* A waiter is served. *)
LEMMA OneIsServed ==
  ASSUME Types, Types', Control, NEW w \in Workers, Serve(w), NEW c \in Clients, NEW n
  PROVE  Kept(c, n)
<1> DEFINE p == at[w][1]
           x == waiters[p]
           v == Last(list[x.keys[at[w][2]]])
           answer == [to |-> x.client, what |-> Reply(x.id, x.left, v)]
           u == waiters'
<1>1. /\ waiters' = RemoveAt(waiters, p) /\ out' = [out EXCEPT ![w] = <<answer>>]
      /\ expired' = expired /\ pending' = pending /\ pc[w] = "scan" /\ waiters \in Seq(Waiter)
  BY Zenon DEF Serve, Types, StoreTypes
<1>2. out[w] = <<>> /\ p \in 1 .. Len(waiters)
  <2>1. HasAnswers(w)
    BY Zenon DEF Control, InPlace
  <2>2. out[w] = <<>>
    BY <1>1, <2>1 DEF HasAnswers
  <2> QED BY <2>2, ScannedPlace
<1>3. answer.to = x.client /\ answer.what.id = x.id /\ answer.what.left = x.left
  BY DEF Reply
<1> HIDE DEF answer, v
<1>4. out'[w] = <<answer>> /\ \A y \in Workers : y # w => out'[y] = out[y]
  BY <1>1 DEF Types, WorkerTypes
<1>5. Len(out'[w]) = 1 /\ out'[w][1] = answer
  BY <1>4
<1> HIDE DEF p
<1>6. /\ Len(u) = Len(waiters) - 1 /\ Len(waiters) \in Nat \ {0}
      /\ \A j \in 1 .. Len(waiters) - 1 : u[j] = waiters[IF j < p THEN j ELSE j + 1]
  BY <1>1, <1>2, RemoveAtIs
<1>7. PartOf(u, waiters)
  BY <1>1, <1>2, RemoveAtIsPart
<1>8. /\ NoneFor(waiters, c)' = NoneFor(u, c) /\ OneFor(waiters, c, n)' = OneFor(u, c, n)
      /\ NoneFor(expired, c)' = NoneFor(expired, c) /\ OneFor(expired, c, n)' = OneFor(expired, c, n)
      /\ OneSent(c, n)' = OneSent(c, n) /\ pending'[c] = pending[c]
  BY <1>1 DEF NoneFor, OneFor, OneSent
<1>9. /\ NoneFor(waiters, c) => NoneFor(u, c)
      /\ OneFor(waiters, c, n) => NoneFor(u, c) \/ OneFor(u, c, n)
  BY <1>7, PartHasNone, PartHasOne
<1>10. CASE x.client # c
  <2>1. (NoneTo(c) => NoneTo(c)') /\ (OneTo(c, n) => OneTo(c, n)')
    BY <1>2, <1>3, <1>4, <1>5, <1>10, HandsTake
  <2> QED BY <1>8, <1>9, <2>1 DEF Kept, NoAnswer, AnswerAt
<1>11. CASE x.client = c
  <2>1. ~NoneFor(waiters, c)
    BY <1>2, <1>11 DEF NoneFor
  <2>2. ASSUME OneFor(waiters, c, n), NoneTo(c) PROVE NoneFor(u, c) /\ OneTo(c, n)'
    <3>1. PICK i \in 1 .. Len(waiters) :
            /\ waiters[i].id = n /\ waiters[i].left = 0
            /\ \A j \in 1 .. Len(waiters) : waiters[j].client = c => j = i
      BY <2>2, OneIsThere
    <3>2. i = p
      BY <1>2, <1>11, <3>1
    <3>3. NoneFor(u, c)
      <4>1. ASSUME NEW j \in 1 .. Len(u) PROVE u[j].client # c
        <5>1. (IF j < p THEN j ELSE j + 1) \in 1 .. Len(waiters) /\ (IF j < p THEN j ELSE j + 1) # p
          BY <1>2, <1>6
        <5>2. u[j] = waiters[IF j < p THEN j ELSE j + 1]
          BY <1>6
        <5> QED BY <3>1, <3>2, <5>1, <5>2
      <4> QED BY <4>1 DEF NoneFor
    <3>4. answer.to = c /\ answer.what.id = n /\ answer.what.left = 0
      BY <1>3, <1>11, <3>1, <3>2
    <3>5. ASSUME NEW y \in Workers, NEW j \in 1 .. Len(out'[y]) PROVE out'[y][j].to = c <=> y = w /\ j = 1
      <4>1. CASE y = w
        BY <1>5, <3>4, <4>1
      <4>2. CASE y # w
        BY <1>4, <2>2, <4>2 DEF NoneTo
      <4> QED BY <4>1, <4>2
    <3>6. 1 \in 1 .. Len(out'[w]) /\ out'[w][1].what.id = n /\ out'[w][1].what.left = 0
      BY <1>5, <3>4
    <3>7. OneTo(c, n)'
      BY <3>5, <3>6 DEF OneTo
    <3> QED BY <3>3, <3>7
  <2> QED BY <1>8, <2>1, <2>2 DEF Kept, NoAnswer, AnswerAt
<1> QED BY <1>10, <1>11

(* Messages of the channel are taken for others. *)
LEMMA OthersAreTold ==
  ASSUME Types, Types', Control, NEW w \in Workers, Publish(w), NEW c \in Clients, c \notin subs, NEW n
  PROVE  Kept(c, n)
<1>1. /\ waiters' = waiters /\ expired' = expired /\ pending' = pending
      /\ \A y \in Workers : y # w => out'[y] = out[y]
  BY DEF Publish, Types, WorkerTypes
<1>2. out[w] = <<>>
  BY DEF Publish, Runs, Control, InPlace, HasAnswers
<1>3. PICK order \in SetToSeqs(subs) :
        out' = [out EXCEPT ![w] = [i \in DOMAIN order |-> [to |-> order[i], what |-> Message]]]
  BY DEF Publish
<1>4. \A i \in DOMAIN order : order[i] \in subs
  <2>1. order \in [1 .. Cardinality(subs) -> subs]
    BY <1>3 DEF SetToSeqs
  <2> QED BY <2>1
<1>5. out'[w] = [i \in DOMAIN order |-> [to |-> order[i], what |-> Message]]
  BY <1>3 DEF Types, WorkerTypes
<1>6. DOMAIN out'[w] = 1 .. Len(out'[w])
  BY DEF Types, WorkerTypes
<1>7. \A i \in 1 .. Len(out'[w]) : out'[w][i].to # c
  BY <1>4, <1>5, <1>6
<1>8. (NoneTo(c) => NoneTo(c)') /\ (OneTo(c, n) => OneTo(c, n)')
  BY <1>1, <1>2, <1>7, HandsTake
<1>9. /\ NoneFor(waiters, c)' = NoneFor(waiters, c) /\ OneFor(waiters, c, n)' = OneFor(waiters, c, n)
      /\ NoneFor(expired, c)' = NoneFor(expired, c) /\ OneFor(expired, c, n)' = OneFor(expired, c, n)
      /\ OneSent(c, n)' = OneSent(c, n) /\ pending'[c] = pending[c]
  BY <1>1 DEF NoneFor, OneFor, OneSent
<1> QED BY <1>8, <1>9 DEF Kept, NoAnswer, AnswerAt

(* The first answer of a worker reaches the sink. *)
LEMMA OneIsDelivered ==
  ASSUME Types, Types', NEW w \in Workers, Deliver(w), NEW c \in Clients, NEW n
  PROVE  Kept(c, n)
<1> DEFINE s == out[w]
           d == s[1]
           t == out'[w]
<1>1. /\ expired' = expired /\ waiters' = waiters
      /\ pending' = [pending EXCEPT ![Head(s).to] = Append(@, Head(s).what)]
      /\ out' = [out EXCEPT ![w] = Tail(@)] /\ s # <<>>
  BY DEF Deliver
<1>2. s \in Seq(Delivery) /\ pending \in [Clients -> Seq(Answer)] /\ out \in [Workers -> Seq(Delivery)]
  BY DEF Types, ClientTypes, WorkerTypes
<1>3. t = Tail(s) /\ \A y \in Workers : y # w => out'[y] = out[y]
  BY <1>1, <1>2
<1>4. /\ Len(t) = Len(s) - 1 /\ Len(s) \in Nat \ {0}
      /\ \A i \in 1 .. Len(t) : t[i] = s[i + 1]
      /\ Head(s) = d
  <2> HIDE DEF s, t
  <2> QED BY <1>1, <1>2, <1>3, HeadTailProperties, LenProperties, EmptySeq
<1>5. d \in Delivery
  BY <1>2, <1>4
<1>6. d.to \in Clients /\ d.what \in Answer
  BY <1>5 DEF Delivery
<1>7. /\ NoneFor(waiters, c)' = NoneFor(waiters, c) /\ OneFor(waiters, c, n)' = OneFor(waiters, c, n)
      /\ NoneFor(expired, c)' = NoneFor(expired, c) /\ OneFor(expired, c, n)' = OneFor(expired, c, n)
  BY <1>1 DEF NoneFor, OneFor
<1> HIDE DEF d, t, s
<1>8. ASSUME NoneTo(c) PROVE d.to # c /\ NoneTo(c)'
  <2>1. \A i \in 1 .. Len(s) : s[i].to # c
    BY <1>8 DEF NoneTo, s
  <2>2. d.to # c
    BY <1>4, <2>1 DEF d
  <2>3. \A i \in 1 .. Len(t) : i + 1 \in 1 .. Len(s)
    BY <1>4
  <2>4. \A i \in 1 .. Len(t) : t[i].to # c
    BY <1>4, <2>1, <2>3
  <2>5. \A y \in Workers : \A i \in 1 .. Len(out'[y]) : out'[y][i].to # c
    BY <1>3, <1>8, <2>4 DEF NoneTo, t
  <2> QED BY <2>2, <2>5 DEF NoneTo
<1>9. ASSUME OneTo(c, n) PROVE \/ d.to # c /\ OneTo(c, n)'
                               \/ d.to = c /\ d.what.id = n /\ d.what.left = 0 /\ NoneTo(c)'
  <2>1. PICK v \in Workers : \E i \in 1 .. Len(out[v]) :
          /\ out[v][i].what.id = n /\ out[v][i].what.left = 0
          /\ \A u \in Workers : \A j \in 1 .. Len(out[u]) : out[u][j].to = c <=> u = v /\ j = i
    BY <1>9 DEF OneTo
  <2>2. PICK i \in 1 .. Len(out[v]) :
          /\ out[v][i].what.id = n /\ out[v][i].what.left = 0
          /\ \A u \in Workers : \A j \in 1 .. Len(out[u]) : out[u][j].to = c <=> u = v /\ j = i
    BY <2>1
  <2>3. \A j \in 1 .. Len(s) : s[j].to = c <=> w = v /\ j = i
    BY <2>2 DEF s
  <2>4. d.to = c <=> w = v /\ i = 1
    BY <1>4, <2>3 DEF d
  <2>5. \A j \in 1 .. Len(t) : j + 1 \in 1 .. Len(s) /\ t[j] = s[j + 1]
    BY <1>4
  <2>6. \A j \in 1 .. Len(t) : t[j].to = c <=> w = v /\ j + 1 = i
    BY <2>3, <2>5
  <2>7. CASE w = v /\ i = 1
    <3>1. d.to = c /\ d.what.id = n /\ d.what.left = 0
      BY <2>2, <2>4, <2>7 DEF d, s
    <3>2. \A j \in 1 .. Len(t) : t[j].to # c
      BY <1>4, <2>6, <2>7
    <3>3. \A u \in Workers : u # w => \A j \in 1 .. Len(out'[u]) : out'[u][j].to # c
      BY <1>3, <2>2, <2>7
    <3>4. NoneTo(c)'
      BY <3>2, <3>3 DEF NoneTo, t
    <3> QED BY <3>1, <3>4
  <2>8. CASE w = v /\ i # 1
    <3>1. i - 1 \in 1 .. Len(t) /\ (i - 1) + 1 = i
      BY <1>4, <2>2, <2>8 DEF s
    <3>2. t[i - 1] = s[i]
      BY <1>4, <3>1
    <3>3. t[i - 1].what.id = n /\ t[i - 1].what.left = 0
      BY <2>2, <2>8, <3>2 DEF s
    <3>4. \A j \in 1 .. Len(t) : t[j].to = c <=> j = i - 1
      BY <1>4, <2>6, <2>8, <3>1
    <3>5. \A u \in Workers : u # w => \A j \in 1 .. Len(out'[u]) : out'[u][j].to # c
      BY <1>3, <2>2, <2>8
    <3>6. \A u \in Workers : \A j \in 1 .. Len(out'[u]) : out'[u][j].to = c <=> u = w /\ j = i - 1
      BY <3>4, <3>5 DEF t
    <3>7. OneTo(c, n)'
      BY <3>1, <3>3, <3>6 DEF OneTo, t
    <3> QED BY <2>4, <2>8, <3>7
  <2>9. CASE w # v
    <3>1. out'[v] = out[v] /\ d.to # c
      BY <1>3, <2>4, <2>9
    <3>2. \A j \in 1 .. Len(t) : t[j].to # c
      BY <2>6, <2>9
    <3>3. ASSUME NEW u \in Workers, NEW j \in 1 .. Len(out'[u]) PROVE out'[u][j].to = c <=> u = v /\ j = i
      <4>1. CASE u = w
        BY <2>9, <3>2, <4>1 DEF t
      <4>2. CASE u # w
        BY <1>3, <2>2, <4>2
      <4> QED BY <4>1, <4>2
    <3>4. OneTo(c, n)'
      BY <2>2, <3>1, <3>3 DEF OneTo
    <3> QED BY <3>1, <3>4
  <2> QED BY <2>7, <2>8, <2>9
<1>10. d.to # c => pending'[c] = pending[c] /\ OneSent(c, n)' = OneSent(c, n)
  BY <1>1, <1>2, <1>4 DEF OneSent
<1>11. ASSUME d.to = c, d.what.id = n, d.what.left = 0, pending[c] = <<>> PROVE OneSent(c, n)'
  <2>1. pending'[c] = <<d.what>>
    <3>1. pending'[c] = Append(<<>>, d.what)
      BY <1>1, <1>2, <1>4, <1>11
    <3> QED BY <1>6, <3>1
  <2> QED BY <1>11, <2>1 DEF OneSent
<1> QED BY <1>7, <1>8, <1>9, <1>10, <1>11 DEF Kept, NoAnswer, AnswerAt

(* The first of the expired gets its answer. *)
LEMMA OneIsExpired ==
  ASSUME Types, Types', ExpireDeliver, NEW c \in Clients, NEW n
  PROVE  Kept(c, n)
<1> DEFINE s == expired
           x == s[1]
           t == expired'
           r == Reply(x.id, x.left, Nothing)
<1>1. /\ waiters' = waiters /\ out' = out
      /\ pending' = [pending EXCEPT ![Head(s).client] = Append(@, Reply(Head(s).id, Head(s).left, Nothing))]
      /\ t = Tail(s) /\ s # <<>>
  BY DEF ExpireDeliver
<1>2. s \in Seq(Waiter) /\ pending \in [Clients -> Seq(Answer)]
  BY DEF Types, ClientTypes, StoreTypes
<1>3. /\ Len(t) = Len(s) - 1 /\ Len(s) \in Nat \ {0}
      /\ \A i \in 1 .. Len(t) : t[i] = s[i + 1]
      /\ Head(s) = x
  <2> HIDE DEF s, t
  <2> QED BY <1>1, <1>2, HeadTailProperties, LenProperties, EmptySeq
<1>4. x \in Waiter
  BY <1>2, <1>3
<1>5. x.client \in Clients /\ r.id = x.id /\ r.left = x.left
  BY <1>4 DEF Waiter, Reply
<1>6. /\ NoneFor(waiters, c)' = NoneFor(waiters, c) /\ OneFor(waiters, c, n)' = OneFor(waiters, c, n)
      /\ NoneTo(c)' = NoneTo(c) /\ OneTo(c, n)' = OneTo(c, n)
      /\ NoneFor(expired, c)' = NoneFor(t, c) /\ OneFor(expired, c, n)' = OneFor(t, c, n)
  BY <1>1, HandsUnchanged DEF NoneFor, OneFor
<1>7. pending' = [pending EXCEPT ![x.client] = Append(@, r)]
  BY <1>1, <1>3
<1> HIDE DEF x, t, s, r
<1>8. ASSUME NoneFor(s, c) PROVE x.client # c /\ NoneFor(t, c)
  <2>1. \A i \in 1 .. Len(t) : i + 1 \in 1 .. Len(s) /\ t[i] = s[i + 1]
    BY <1>3
  <2>2. 1 \in 1 .. Len(s)
    BY <1>3
  <2> QED BY <1>8, <2>1, <2>2 DEF NoneFor, x
<1>9. ASSUME OneFor(s, c, n) PROVE \/ x.client # c /\ (OneFor(t, c, n) \/ NoneFor(t, c))
                                   \/ x.client = c /\ x.id = n /\ x.left = 0 /\ NoneFor(t, c)
  <2>1. PICK i \in 1 .. Len(s) :
          s[i].id = n /\ s[i].left = 0 /\ \A j \in 1 .. Len(s) : s[j].client = c <=> j = i
    BY <1>9 DEF OneFor
  <2>2. \A j \in 1 .. Len(t) : j + 1 \in 1 .. Len(s) /\ t[j] = s[j + 1]
    BY <1>3
  <2>3. \A j \in 1 .. Len(t) : t[j].client = c <=> j + 1 = i
    BY <2>1, <2>2
  <2>4. 1 \in 1 .. Len(s)
    BY <1>3
  <2>5. CASE i = 1
    <3>1. \A j \in 1 .. Len(t) : t[j].client # c
      BY <1>3, <2>3, <2>5
    <3>2. x.client = c /\ x.id = n /\ x.left = 0
      BY <2>1, <2>4, <2>5 DEF x
    <3> QED BY <3>1, <3>2 DEF NoneFor
  <2>6. CASE i # 1
    <3>1. x.client # c
      BY <2>1, <2>4, <2>6 DEF x
    <3>2. i - 1 \in 1 .. Len(t) /\ (i - 1) + 1 = i
      BY <1>3, <2>1, <2>6
    <3>3. t[i - 1] = s[i]
      BY <2>2, <3>2
    <3>4. \A j \in 1 .. Len(t) : t[j].client = c <=> j = i - 1
      BY <1>3, <2>3, <3>2
    <3>5. OneFor(t, c, n)
      BY <2>1, <3>2, <3>3, <3>4 DEF OneFor
    <3> QED BY <3>1, <3>5
  <2> QED BY <2>5, <2>6
<1>10. x.client # c => pending'[c] = pending[c] /\ OneSent(c, n)' = OneSent(c, n)
  BY <1>2, <1>7 DEF OneSent
<1>11. ASSUME x.client = c, x.id = n, x.left = 0, pending[c] = <<>> PROVE OneSent(c, n)'
  <2>1. pending'[c] = <<r>>
    BY <1>2, <1>5, <1>7, <1>11
  <2> QED BY <1>5, <1>11, <2>1 DEF OneSent
<1>12. NoneFor(expired, c) = NoneFor(s, c) /\ OneFor(expired, c, n) = OneFor(s, c, n)
  BY DEF s
<1> QED BY <1>6, <1>8, <1>9, <1>10, <1>11, <1>12 DEF Kept, NoAnswer, AnswerAt

-----------------------------------------------------------------------------
(* Where the replies of a connection are. *)
Busy(c) == pc[Home[c]] \in Serving /\ conn[Home[c]] = c
Took(c) == sent[c] - Len(sock[c]) - Len(rbuf[c])

LastId(s)   == IF s = <<>> THEN 0 ELSE s[Len(s)].id
LastLeft(s) == IF s = <<>> THEN 0 ELSE s[Len(s)].left

Numbered(c) ==
  /\ Took(c) \in Nat
  /\ \A i \in 1 .. Len(rbuf[c]) : rbuf[c][i][1] = Took(c) + i
  /\ \A i \in 1 .. Len(sock[c]) : sock[c][i][1] = Took(c) + Len(rbuf[c]) + i

Asked(c) ==
  /\ \A i \in 1 .. Len(sock[c]) : sock[c][i][2] \in Commands(c)
  /\ \A i \in 1 .. Len(rbuf[c]) : rbuf[c][i][2] \in Commands(c)
  /\ \A i \in 1 .. Len(queue[c]) : queue[c][i] \in Commands(c)
  /\ Busy(c) => \A i \in 1 .. Len(run[Home[c]]) : run[Home[c]][i] \in Commands(c)
  /\ multi[c] \/ queue[c] # <<>> \/ (Busy(c) /\ tx[Home[c]]) => "multi" \in Ops(c)
  /\ c \in subs => "subscribe" \in Ops(c)

AtReply(c) ==
  IF Busy(c)
    THEN /\ id[Home[c]] = Took(c) /\ ~blocked[c]
         /\ IF tx[Home[c]]
              THEN LastId(replies[c]) = Took(c) /\ LastLeft(replies[c]) = Len(run[Home[c]])
              ELSE LastId(replies[c]) = Took(c) - 1 /\ LastLeft(replies[c]) = 0
    ELSE /\ LastLeft(replies[c]) = 0
         /\ LastId(replies[c]) = IF blocked[c] THEN Took(c) - 1 ELSE Took(c)

OneAnswer(c) == NoAnswer(c) \/ (blocked[c] /\ \E n \in {Took(c)} : AnswerAt(c, n))

Orderly(c) == Numbered(c) /\ Asked(c) /\ AtReply(c) /\ OneAnswer(c) /\ InOrderFor(c)

AllOrderly ==
  \A c \in Clients : Ordered(c) => InOrderFor(c) /\ (open[c] => Orderly(c))

Single(w) ==
  /\ pc[w] \notin Serving => ~tx[w]
  /\ pc[w] \in Serving /\ ~tx[w] => Len(run[w]) = 1

(* A reply at its place in the order. *)
Continues(s, r) ==
  IF LastLeft(s) > 0 THEN r.id = LastId(s) /\ r.left = LastLeft(s) - 1
  ELSE r.id = LastId(s) + 1

InOrder(s) ==
  /\ s # <<>> => s[1].id = 1
  /\ \A i \in 1 .. Len(s) - 1 : Follows(s[i], s[i + 1])

LEMMA AppendInOrder ==
  ASSUME NEW s \in Seq(Answer), NEW r \in Answer, InOrder(s), Continues(s, r)
  PROVE  /\ InOrder(Append(s, r))
         /\ LastId(Append(s, r)) = r.id /\ LastLeft(Append(s, r)) = r.left
<1> DEFINE t == Append(s, r)
           n == Len(s)
<1>1. t \in Seq(Answer) /\ Len(t) = n + 1 /\ n \in Nat /\ t # <<>>
  BY AppendProperties, LenProperties
<1>2. (\A i \in 1 .. n : t[i] = s[i]) /\ t[n + 1] = r
  BY AppendProperties
<1>3. s = <<>> <=> n = 0
  BY EmptySeq
<1> HIDE DEF t, n
<1>4. Len(t) - 1 = n
  BY <1>1
<1>5. ASSUME n # 0 PROVE LastId(s) = s[n].id /\ LastLeft(s) = s[n].left
  BY <1>3, <1>5 DEF LastId, LastLeft, n
<1>6. ASSUME NEW i \in 1 .. n PROVE Follows(t[i], t[i + 1])
  <2>1. CASE i = n
    <3>1. t[i] = s[n] /\ t[i + 1] = r /\ n # 0
      BY <1>1, <1>2, <2>1
    <3> QED BY <1>5, <3>1 DEF Continues, Follows
  <2>2. CASE i # n
    <3>1. i \in 1 .. n - 1 /\ i + 1 \in 1 .. n
      BY <1>1, <2>2
    <3>2. Follows(s[i], s[i + 1])
      BY <3>1 DEF InOrder, n
    <3> QED BY <1>2, <3>1, <3>2
  <2> QED BY <2>1, <2>2
<1>7. t[1].id = 1
  <2>1. CASE n = 0
    <3>1. t[1] = r /\ LastId(s) = 0 /\ LastLeft(s) = 0
      BY <1>2, <1>3, <2>1 DEF LastId, LastLeft
    <3> QED BY <3>1 DEF Continues
  <2>2. CASE n # 0
    <3>1. 1 \in 1 .. n /\ s # <<>>
      BY <1>1, <1>3, <2>2
    <3> QED BY <1>2, <3>1 DEF InOrder
  <2> QED BY <2>1, <2>2
<1>8. InOrder(t)
  BY <1>4, <1>6, <1>7 DEF InOrder
<1>9. LastId(t) = r.id /\ LastLeft(t) = r.left
  BY <1>1, <1>2 DEF LastId, LastLeft
<1> QED BY <1>8, <1>9 DEF t

LEMMA InOrderUnfolds ==
  ASSUME NEW c
  PROVE  InOrderFor(c) <=> InOrder(replies[c])
BY DEF InOrderFor, InOrder

(* What a connection and its worker know of it stays. *)
Unseen(c) ==
  /\ sent'[c] = sent[c] /\ sock'[c] = sock[c] /\ rbuf'[c] = rbuf[c]
  /\ replies'[c] = replies[c] /\ blocked'[c] = blocked[c]
  /\ multi'[c] = multi[c] /\ queue'[c] = queue[c] /\ (c \in subs' => c \in subs)
  /\ Busy(c)' <=> Busy(c)
  /\ Busy(c) => id'[Home[c]] = id[Home[c]] /\ run'[Home[c]] = run[Home[c]] /\ tx'[Home[c]] = tx[Home[c]]

LEMMA UnseenKeeps ==
  ASSUME NEW c \in Clients, Orderly(c), Unseen(c), \E n \in {Took(c)} : Kept(c, n)
  PROVE  Orderly(c)'
<1>1. Took(c)' = Took(c)
  BY DEF Unseen, Took
<1>2. Numbered(c)'
  BY <1>1 DEF Orderly, Numbered, Unseen
<1>3. Asked(c)'
  <2>1. Asked(c)
    BY DEF Orderly
  <2>2. Busy(c)' => \A i \in 1 .. Len(run'[Home[c]]) : run'[Home[c]][i] \in Commands(c)
    BY <2>1 DEF Asked, Unseen
  <2>3. multi'[c] \/ queue'[c] # <<>> \/ (Busy(c)' /\ tx'[Home[c]]) => "multi" \in Ops(c)
    BY <2>1 DEF Asked, Unseen
  <2>4. Commands(c)' = Commands(c) /\ Ops(c)' = Ops(c)
    BY DEF Commands, Ops
  <2> QED BY <2>1, <2>2, <2>3, <2>4 DEF Asked, Unseen
<1>4. AtReply(c)'
  <2>1. AtReply(c)
    BY DEF Orderly
  <2>2. CASE Busy(c)
    <3>1. Busy(c)' /\ id'[Home[c]] = id[Home[c]] /\ run'[Home[c]] = run[Home[c]] /\ tx'[Home[c]] = tx[Home[c]]
      BY <2>2 DEF Unseen
    <3> QED BY <1>1, <2>1, <2>2, <3>1 DEF AtReply, Unseen
  <2>3. CASE ~Busy(c)
    <3>1. ~Busy(c)'
      BY <2>3 DEF Unseen
    <3> QED BY <1>1, <2>1, <2>3, <3>1 DEF AtReply, Unseen
  <2> QED BY <2>2, <2>3
<1>5. OneAnswer(c)'
  <2>1. PICK n : n = Took(c) /\ Kept(c, n)
    OBVIOUS
  <2>2. NoAnswer(c) \/ (blocked[c] /\ AnswerAt(c, n))
    BY <2>1 DEF Orderly, OneAnswer
  <2>3. NoAnswer(c)' \/ (blocked'[c] /\ AnswerAt(c, n)')
    BY <2>1, <2>2 DEF Kept, Unseen
  <2> QED BY <1>1, <2>1, <2>3 DEF OneAnswer
<1>6. InOrderFor(c)'
  BY DEF Orderly, InOrderFor, Unseen
<1> QED BY <1>2, <1>3, <1>4, <1>5, <1>6 DEF Orderly

-----------------------------------------------------------------------------
(* A step of worker w is one of its own, and of one connection.             *)
OnlyWorker(w) == \A v \in Workers : v # w =>
  /\ pc'[v] = pc[v] /\ conn'[v] = conn[v] /\ id'[v] = id[v] /\ run'[v] = run[v] /\ tx'[v] = tx[v]

SameState(c) ==
  /\ sent'[c] = sent[c] /\ sock'[c] = sock[c] /\ rbuf'[c] = rbuf[c]
  /\ replies'[c] = replies[c] /\ blocked'[c] = blocked[c]
  /\ multi'[c] = multi[c] /\ queue'[c] = queue[c] /\ (c \in subs' => c \in subs)

LEMMA WorkerFrame ==
  ASSUME Types, NEW w \in Workers, WorkerStep(w)
  PROVE  OnlyWorker(w)
<1>1. /\ pc \in [Workers -> Places] /\ conn \in [Workers -> Clients] /\ id \in [Workers -> Nat]
      /\ run \in [Workers -> Seq(Command)] /\ tx \in [Workers -> BOOLEAN]
  BY DEF Types, WorkerTypes
<1>2. CASE HandleRead(w) \/ ParseEnd(w) \/ Quit(w) \/ Transaction(w) \/ Exec(w) \/ Queue(w) \/ Ordinary(w)
  BY <1>1, <1>2 DEF OnlyWorker, HandleRead, ParseEnd, Quit, Transaction, Exec, Queue, Ordinary, Take, Goto, task
<1>3. CASE RPush(w) \/ RPop(w) \/ TryPop(w) \/ Register(w) \/ Delivered(w) \/ Subscribe(w) \/ Publish(w)
  BY <1>1, <1>3, SMTT(60) DEF OnlyWorker, RPush, RPop, TryPop, Register, Delivered, Subscribe, Publish, Done, Advance, Goto, task
<1>4. CASE Notify(w) \/ Skip(w) \/ Serve(w) \/ NoneServed(w) \/ Deliver(w)
             \/ ProcessAsync(w) \/ Closed(w) \/ RemoveConnection(w)
  BY <1>1, <1>4, Zenon DEF OnlyWorker, Notify, Skip, Serve, NoneServed, Deliver, ProcessAsync, Closed,
       RemoveConnection, Goto, task
<1> QED BY <1>2, <1>3, <1>4 DEF WorkerStep

LEMMA ServedFrame ==
  ASSUME Types, NEW w \in Workers, WorkerStep(w), pc[w] # "loop"
  PROVE  conn'[w] = conn[w] /\ \A c \in Clients : c # conn[w] => SameState(c)
<1>1. /\ sent \in [Clients -> Nat] /\ sock \in [Clients -> Seq(Request)] /\ rbuf \in [Clients -> Seq(Request)]
      /\ replies \in [Clients -> Seq(Answer)] /\ blocked \in [Clients -> BOOLEAN]
      /\ multi \in [Clients -> BOOLEAN] /\ queue \in [Clients -> Seq(Command)]
  BY SMTT(30) DEF Types, ClientTypes
<1>2. CASE ParseEnd(w) \/ Quit(w) \/ Transaction(w) \/ Exec(w) \/ Queue(w) \/ Ordinary(w)
  BY <1>1, <1>2, SMTT(60) DEF SameState, ParseEnd, Quit, Transaction, Exec, Queue, Ordinary, Take, Acknowledge,
       net, txn, peer, task
<1>3. CASE RPush(w) \/ RPop(w) \/ TryPop(w) \/ Register(w) \/ Delivered(w) \/ Subscribe(w) \/ Publish(w)
  BY <1>1, <1>3 DEF SameState, RPush, RPop, TryPop, Register, Delivered, Subscribe, Publish, Done, Tell,
       net, txn, peer, task
<1>4. CASE Notify(w) \/ Skip(w) \/ Serve(w) \/ NoneServed(w) \/ Deliver(w) \/ RemoveConnection(w)
  BY <1>1, <1>4, Zenon DEF SameState, Notify, Skip, Serve, NoneServed, Deliver, RemoveConnection, net, txn, peer, task
<1>5. CASE HandleRead(w) \/ ProcessAsync(w) \/ Closed(w)
  BY <1>5 DEF HandleRead, ProcessAsync, Closed
<1> QED BY <1>2, <1>3, <1>4, <1>5 DEF WorkerStep

(* Steps for another connection. *)
LEMMA OthersUnseen ==
  ASSUME Types, Control, NEW w \in Workers, WorkerStep(w), pc[w] # "loop", NEW c \in Clients, c # conn[w]
  PROVE  Unseen(c)
<1>1. OnlyWorker(w) /\ conn'[w] = conn[w] /\ SameState(c)
  BY WorkerFrame, ServedFrame
<1>2. Home[c] \in Workers
  BY HomeAssumption
<1>3. CASE Home[c] = w
  BY <1>1, <1>3 DEF Unseen, SameState, Busy
<1>4. CASE Home[c] # w
  BY <1>1, <1>2, <1>4 DEF Unseen, SameState, Busy, OnlyWorker
<1> QED BY <1>3, <1>4

(* Steps inside of a command. *)
LEMMA InsideUnseen ==
  ASSUME Types, NEW w \in Workers, NEW c \in Clients,
         \/ Notify(w) \/ Skip(w) \/ Serve(w) \/ NoneServed(w) \/ Deliver(w) \/ RPush(w) \/ Publish(w)
         \/ TryPop(w) /\ replies' = replies /\ run' = run /\ tx' = tx
  PROVE  Unseen(c)
<1>1. OnlyWorker(w)
  BY WorkerFrame DEF WorkerStep
<1>2. Home[c] \in Workers
  BY HomeAssumption
<1>3. SameState(c) /\ conn' = conn /\ id' = id /\ run' = run /\ tx' = tx
  BY Zenon DEF SameState, Notify, Skip, Serve, NoneServed, Deliver, RPush, Publish, TryPop, net, txn, peer, task
<1>4. pc[w] \in Serving /\ pc'[w] \in Serving
  <2>1. pc \in [Workers -> Places]
    BY DEF Types, WorkerTypes
  <2>2. CASE TryPop(w) /\ replies' = replies /\ run' = run /\ tx' = tx
    <3>1. pc[w] = "run"
      BY <2>2 DEF TryPop, Runs
    <3>2. \/ Done(w, Last(list[Cmd(w).keys[at[w][2]]]))
          \/ Goto(w, "register") \/ Goto(w, "run")
      BY <2>2 DEF TryPop
    <3>3. Goto(w, "register") \/ Goto(w, "run") => pc'[w] \in Serving
      BY <2>1 DEF Goto, Serving
    <3>4. ASSUME Done(w, Last(list[Cmd(w).keys[at[w][2]]])) PROVE FALSE
      <4>1. replies[conn[w]] \in Seq(Answer) /\ replies \in [Clients -> Seq(Answer)] /\ conn[w] \in Clients
        BY DEF Types, ClientTypes, WorkerTypes
      <4>2. \E r : replies' = [replies EXCEPT ![conn[w]] = Append(@, r)]
        BY <3>4 DEF Done, Tell
      <4>3. PICK r : replies' = [replies EXCEPT ![conn[w]] = Append(@, r)]
        BY <4>2
      <4>4. replies[conn[w]] = Append(replies[conn[w]], r)
        BY <2>2, <4>1, <4>3
      <4> QED BY <4>1, <4>4
    <3> QED BY <3>1, <3>2, <3>3, <3>4 DEF Serving
  <2>3. CASE Notify(w) \/ Skip(w) \/ Serve(w) \/ NoneServed(w) \/ Deliver(w) \/ RPush(w) \/ Publish(w)
    BY <2>1, <2>3, Zenon DEF Notify, Skip, Serve, NoneServed, Deliver, RPush, Publish, Runs, Goto, Serving
  <2> QED BY <2>2, <2>3
<1>5. Busy(c)' <=> Busy(c)
  BY <1>1, <1>2, <1>3, <1>4 DEF Busy, OnlyWorker
<1> QED BY <1>3, <1>5 DEF Unseen, SameState

(* Steps of the loop that are about another connection or none. *)
LEMMA LoopUnseen ==
  ASSUME Types, NEW w \in Workers, NEW c \in Clients,
         \/ HandleRead(w) /\ sock'[c] = sock[c]
         \/ ProcessAsync(w) /\ pending'[c] = pending[c]
         \/ Closed(w) \/ ParseEnd(w)
  PROVE  Unseen(c)
<1>1. OnlyWorker(w)
  BY WorkerFrame DEF WorkerStep
<1>2. Home[c] \in Workers /\ pc \in [Workers -> Places]
  BY HomeAssumption DEF Types, WorkerTypes
<1>3. pc[w] \notin Serving /\ pc'[w] \notin Serving
  BY <1>2 DEF HandleRead, ProcessAsync, Closed, ParseEnd, Goto, Serving
<1>4. Busy(c)' <=> Busy(c)
  BY <1>1, <1>2, <1>3 DEF Busy, OnlyWorker
<1>5. Busy(c) => Home[c] # w
  BY <1>3 DEF Busy
<1>6. SameState(c)
  <2>1. CASE HandleRead(w) /\ sock'[c] = sock[c]
    <3>1. PICK b \in Clients : /\ sock[b] # <<>> /\ rbuf' = [rbuf EXCEPT ![b] = @ \o sock[b]]
                               /\ sock' = [sock EXCEPT ![b] = <<>>]
      BY <2>1 DEF HandleRead
    <3>2. b # c
      BY <2>1, <3>1 DEF Types, ClientTypes
    <3>3. rbuf'[c] = rbuf[c]
      BY <3>1, <3>2 DEF Types, ClientTypes
    <3> QED BY <2>1, <3>3 DEF HandleRead, SameState, txn, peer
  <2>2. CASE ProcessAsync(w) /\ pending'[c] = pending[c]
    <3>1. PICK b \in Clients : /\ pending[b] # <<>> /\ replies' = [replies EXCEPT ![b] = @ \o pending[b]]
                               /\ pending' = [pending EXCEPT ![b] = <<>>]
                               /\ blocked' = [blocked EXCEPT ![b] = FALSE]
      BY <2>2 DEF ProcessAsync
    <3>2. b # c
      BY <2>2, <3>1 DEF Types, ClientTypes
    <3>3. replies'[c] = replies[c] /\ blocked'[c] = blocked[c]
      BY <3>1, <3>2 DEF Types, ClientTypes
    <3> QED BY <2>2, <3>3 DEF ProcessAsync, SameState, net, txn, peer
  <2>3. CASE Closed(w) \/ ParseEnd(w)
    BY <2>3 DEF Closed, ParseEnd, SameState, net, txn, peer
  <2> QED BY <2>1, <2>2, <2>3
<1> QED BY <1>1, <1>2, <1>4, <1>5, <1>6 DEF Unseen, SameState, OnlyWorker

-----------------------------------------------------------------------------
(* An answer under way stays so in every step but two: its own connection   *)
(* leaves a waiter, or takes what has come.                                 *)
LEMMA AnswerUntouched ==
  ASSUME Types, NEW c \in Clients, NEW n,
         waiters' = waiters, expired' = expired, out' = out, pending'[c] = pending[c]
  PROVE  Kept(c, n)
<1>1. PartOf(waiters', waiters)
  BY PartItself DEF Types, StoreTypes
<1> QED BY <1>1, AnswerStays

LEMMA WorkerKeepsAnswer ==
  ASSUME Types, Types', Control, NEW w \in Workers, WorkerStep(w), NEW c \in Clients, c \notin subs,
         Register(w) => conn[w] # c, ProcessAsync(w) => pending'[c] = pending[c], NEW n
  PROVE  Kept(c, n)
<1>1. CASE HandleRead(w) \/ ParseEnd(w) \/ Quit(w) \/ Transaction(w) \/ Exec(w) \/ Queue(w) \/ Ordinary(w)
  BY <1>1, AnswerUntouched DEF HandleRead, ParseEnd, Quit, Transaction, Exec, Queue, Ordinary
<1>2. CASE RPush(w) \/ RPop(w) \/ TryPop(w) \/ Delivered(w) \/ Subscribe(w)
  BY <1>2, AnswerUntouched DEF RPush, RPop, TryPop, Delivered, Subscribe
<1>3. CASE Notify(w) \/ Skip(w) \/ NoneServed(w) \/ ProcessAsync(w) \/ Closed(w)
  BY <1>3, AnswerUntouched DEF Notify, Skip, NoneServed, ProcessAsync, Closed
<1>4. CASE Register(w)
  BY <1>4, OthersRegister, SMTT(30)
<1>5. CASE Serve(w)
  BY <1>5, OneIsServed
<1>6. CASE Deliver(w)
  BY <1>6, OneIsDelivered
<1>7. CASE Publish(w)
  BY <1>7, OthersAreTold
<1>8. CASE RemoveConnection(w)
  <2>1. conn[w] \in Clients
    BY DEF Types, WorkerTypes
  <2>2. PartOf(waiters', waiters) /\ expired' = expired /\ out' = out /\ pending' = pending
    BY <1>8, <2>1, WithoutIs DEF RemoveConnection
  <2> QED BY <2>2, AnswerStays
<1> QED BY <1>1, <1>2, <1>3, <1>4, <1>5, <1>6, <1>7, <1>8 DEF WorkerStep

(* Steps of the clients and of the eviction thread. *)
LEMMA OutsideUnseen ==
  ASSUME Types, NEW c \in Clients,
         \/ \E b \in Clients : (Send(b) /\ b # c) \/ Hangup(b)
         \/ Expire \/ ExpireDeliver
  PROVE  Unseen(c)
<1>1. /\ pc' = pc /\ conn' = conn /\ id' = id /\ run' = run /\ tx' = tx
      /\ rbuf' = rbuf /\ replies' = replies /\ blocked' = blocked /\ multi' = multi /\ queue' = queue
      /\ subs' = subs
  BY DEF Send, Hangup, Expire, ExpireDeliver, task, txn, peer, net
<1>2. sent'[c] = sent[c] /\ sock'[c] = sock[c]
  BY DEF Send, Hangup, Expire, ExpireDeliver, net, Types, ClientTypes
<1>3. Busy(c)' <=> Busy(c)
  BY <1>1 DEF Busy
<1> QED BY <1>1, <1>2, <1>3 DEF Unseen

LEMMA OutsideKeepsAnswer ==
  ASSUME Types, Types', NEW c \in Clients, NEW n,
         (\E b \in Clients : Send(b) \/ Hangup(b)) \/ Expire \/ ExpireDeliver
  PROVE  Kept(c, n)
<1>1. CASE \E b \in Clients : Send(b) \/ Hangup(b)
  BY <1>1, AnswerUntouched DEF Send, Hangup
<1> QED BY <1>1, SomeExpire, OneIsExpired

LEMMA OutsideOrderly ==
  ASSUME Types, Types', NEW c \in Clients, Orderly(c),
         \/ \E b \in Clients : (Send(b) /\ b # c) \/ Hangup(b)
         \/ Expire \/ ExpireDeliver
  PROVE  Orderly(c)'
<1>1. \E n \in {Took(c)} : Kept(c, n)
  BY OutsideKeepsAnswer
<1> QED BY <1>1, OutsideUnseen, UnseenKeeps

(* A request is numbered as it is sent. *)
LEMMA SendOrderly ==
  ASSUME Types, Types', NEW c \in Clients, Orderly(c), Send(c)
  PROVE  Orderly(c)'
<1>1. PICK cmd \in Workload[c][sent[c] + 1] : sock' = [sock EXCEPT ![c] = Append(@, <<sent[c] + 1, cmd>>)]
  BY DEF Send
<1>2. sent[c] + 1 \in 1 .. MaxSent(c)
  BY CommandsType DEF Send, Types, ClientTypes
<1>3. cmd \in Commands(c)
  BY <1>1, <1>2, CommandsType
<1> DEFINE s == sock[c]
           t == sock'[c]
           e == <<sent[c] + 1, cmd>>
           n == Len(s)
<1>4. cmd \in Command
  BY <1>3, CommandsType
<1>5. s \in Seq(Request) /\ e \in Request /\ t = Append(s, e)
  BY <1>1, <1>4, SMTT(30) DEF Types, ClientTypes, Request
<1>6. /\ Len(t) = n + 1 /\ n \in Nat /\ t[n + 1] = e
      /\ \A i \in 1 .. n : t[i] = s[i]
  BY <1>5, AppendProperties, LenProperties
<1>7. /\ pc' = pc /\ conn' = conn /\ id' = id /\ run' = run /\ tx' = tx
      /\ rbuf' = rbuf /\ replies' = replies /\ blocked' = blocked /\ multi' = multi /\ queue' = queue
      /\ subs' = subs
  BY DEF Send, task, txn, peer, net
<1>8. sent'[c] = sent[c] + 1 /\ sent[c] \in Nat /\ Len(rbuf[c]) \in Nat
  BY DEF Send, Types, ClientTypes
<1>9. Took(c)' = Took(c) /\ Took(c) \in Int /\ sent[c] + 1 = Took(c) + Len(rbuf[c]) + (n + 1)
  <2> DEFINE m == Len(rbuf[c])
             k == Took(c)
             q == sent[c]
  <2>1. k = q - n - m
    BY DEF Took
  <2>2. Took(c)' = (q + 1) - Len(t) - m
    BY <1>7, <1>8 DEF Took
  <2>3. Len(t) = n + 1 /\ n \in Nat /\ m \in Nat /\ q \in Nat
    BY <1>6, <1>8
  <2>4. Took(c)' = q - n - m /\ k \in Int /\ q + 1 = k + m + (n + 1)
    <3> HIDE DEF n, t, s, m, k, q
    <3> QED BY <2>1, <2>2, <2>3
  <2> QED BY <2>1, <2>4
<1>a. e[1] = sent[c] + 1 /\ e[2] = cmd
  OBVIOUS
<1>b. (\A i \in 1 .. n : s[i][1] = Took(c) + Len(rbuf[c]) + i) /\ \A i \in 1 .. n : s[i][2] \in Commands(c)
  BY DEF Orderly, Numbered, Asked
<1> HIDE DEF n, t, s, e
<1>c. ASSUME NEW i \in 1 .. Len(t) PROVE t[i][1] = Took(c) + Len(rbuf[c]) + i /\ t[i][2] \in Commands(c)
  <2>1. CASE i = n + 1
    BY <1>3, <1>6, <1>9, <1>a, <2>1
  <2>2. CASE i # n + 1
    <3>1. i \in 1 .. n
      BY <1>6, <2>2
    <3> QED BY <1>6, <1>b, <3>1
  <2> QED BY <2>1, <2>2
<1>d. Numbered(c)'
  BY <1>7, <1>9, <1>c DEF Orderly, Numbered, t
<1>e. Busy(c)' = Busy(c) /\ Commands(c)' = Commands(c) /\ Ops(c)' = Ops(c)
  BY <1>7 DEF Busy, Commands, Ops
<1>f. Asked(c)'
  <2>1. Asked(c)
    BY DEF Orderly
  <2>2. \A i \in 1 .. Len(sock'[c]) : sock'[c][i][2] \in Commands(c)
    BY <1>c DEF t
  <2>3. Busy(c)' => \A i \in 1 .. Len(run'[Home[c]]) : run'[Home[c]][i] \in Commands(c)
    BY <1>7, <1>e, <2>1 DEF Asked
  <2> QED BY <1>7, <1>e, <2>1, <2>2, <2>3 DEF Asked
<1>g. AtReply(c)'
  BY <1>7, <1>9, <1>e DEF Orderly, AtReply
<1>h. OneAnswer(c)'
  <2>1. \A m : Kept(c, m)
    BY OutsideKeepsAnswer
  <2>2. PICK m : m = Took(c)
    OBVIOUS
  <2>3. NoAnswer(c) \/ (blocked[c] /\ AnswerAt(c, m))
    BY <2>2 DEF Orderly, OneAnswer
  <2>4. NoAnswer(c)' \/ (blocked'[c] /\ AnswerAt(c, m)')
    BY <1>7, <2>1, <2>3 DEF Kept
  <2> QED BY <1>9, <2>2, <2>4 DEF OneAnswer
<1>i. InOrderFor(c)'
  BY <1>7 DEF Orderly, InOrderFor
<1> QED BY <1>d, <1>f, <1>g, <1>h, <1>i DEF Orderly

-----------------------------------------------------------------------------
(* What has come is read, in its order. *)
LEMMA ReadOrderly ==
  ASSUME Types, Types', Control, NEW w \in Workers, HandleRead(w), NEW c \in Clients, c \notin subs,
         Orderly(c), sock'[c] # sock[c]
  PROVE  Orderly(c)'
<1>1. PICK b \in Clients : /\ Home[b] = w /\ rbuf' = [rbuf EXCEPT ![b] = @ \o sock[b]]
                           /\ sock' = [sock EXCEPT ![b] = <<>>]
  BY DEF HandleRead
<1>2. b = c
  BY <1>1 DEF Types, ClientTypes
<1> DEFINE s == sock[c]
           r == rbuf[c]
           t == rbuf'[c]
           n == Len(s)
           m == Len(r)
           k == Took(c)
<1>3. t = r \o s /\ sock'[c] = <<>> /\ s \in Seq(Request) /\ r \in Seq(Request) /\ Home[c] = w
  BY <1>1, <1>2 DEF Types, ClientTypes
<1>4. /\ Len(t) = m + n /\ n \in Nat /\ m \in Nat
      /\ \A i \in 1 .. m + n : t[i] = IF i <= m THEN r[i] ELSE s[i - m]
  <2> HIDE DEF s, r, t
  <2> QED BY <1>3, ConcatProperties, LenProperties
<1>5. /\ replies' = replies /\ blocked' = blocked /\ multi' = multi /\ queue' = queue /\ subs' = subs
      /\ sent' = sent /\ pc[w] = "loop" /\ sent[c] \in Nat
  BY DEF HandleRead, txn, peer, Types, ClientTypes
<1>6. ~Busy(c) /\ ~Busy(c)'
  <2>1. pc'[w] = "parse"
    BY DEF HandleRead, Goto, Types, WorkerTypes
  <2> QED BY <1>3, <1>5, <2>1 DEF Busy, Serving
<1>7. Took(c)' = k /\ k \in Nat
  <2>1. k = sent[c] - n - m /\ k \in Nat
    BY DEF Took, Orderly, Numbered
  <2>2. Took(c)' = sent[c] - 0 - Len(t)
    <3>1. Len(sock'[c]) = 0 /\ sent'[c] = sent[c]
      BY <1>3, <1>5
    <3> QED BY <3>1 DEF Took
  <2> HIDE DEF k, n, m, t
  <2> QED BY <1>4, <1>5, <2>1, <2>2
<1>8. /\ \A i \in 1 .. m : r[i][1] = k + i /\ r[i][2] \in Commands(c)
      /\ \A i \in 1 .. n : s[i][1] = k + m + i /\ s[i][2] \in Commands(c)
  BY DEF Orderly, Numbered, Asked
<1> HIDE DEF s, r, t, n, m, k
<1>9. ASSUME NEW i \in 1 .. Len(t) PROVE t[i][1] = k + i /\ t[i][2] \in Commands(c)
  <2>1. CASE i <= m
    <3>1. i \in 1 .. m /\ t[i] = r[i]
      BY <1>4, <2>1
    <3> QED BY <1>8, <3>1
  <2>2. CASE ~(i <= m)
    <3>1. i - m \in 1 .. n /\ t[i] = s[i - m] /\ k + m + (i - m) = k + i
      BY <1>4, <1>7, <2>2
    <3> QED BY <1>8, <3>1
  <2> QED BY <2>1, <2>2
<1>e. Len(sock'[c]) = 0
  BY <1>3
<1>a. Numbered(c)'
  BY <1>7, <1>9, <1>e DEF Numbered, t
<1>b. Asked(c)'
  <2>1. Asked(c) /\ Commands(c)' = Commands(c) /\ Ops(c)' = Ops(c)
    BY DEF Orderly, Commands, Ops
  <2>2. \A i \in 1 .. Len(rbuf'[c]) : rbuf'[c][i][2] \in Commands(c)
    BY <1>9 DEF t
  <2> QED BY <1>5, <1>6, <1>e, <2>1, <2>2 DEF Asked
<1>c. AtReply(c)'
  BY <1>5, <1>6, <1>7 DEF Orderly, AtReply, k
<1>d. OneAnswer(c)'
  <2>1. Kept(c, k)
    BY AnswerUntouched DEF HandleRead
  <2>3. NoAnswer(c) \/ (blocked[c] /\ AnswerAt(c, k))
    BY DEF Orderly, OneAnswer, k
  <2>4. NoAnswer(c)' \/ (blocked'[c] /\ AnswerAt(c, k)')
    BY <1>5, <2>1, <2>3 DEF Kept
  <2> QED BY <1>7, <2>4 DEF OneAnswer, k
<1>f. InOrderFor(c)'
  BY <1>5 DEF Orderly, InOrderFor
<1> QED BY <1>a, <1>b, <1>c, <1>d, <1>f DEF Orderly

(* The next request is taken off the buffer: nothing of an earlier one is   *)
(* owed.                                                                    *)
LEMMA TakesNext ==
  ASSUME Types, Types', Control, NEW w \in Workers, NEW ops, Take(w, ops), NEW c \in Clients, c = conn[w],
         Orderly(c), sock' = sock, sent' = sent
  PROVE  /\ id'[w] = Took(c) + 1 /\ Took(c)' = Took(c) + 1 /\ Took(c) \in Nat /\ Home[c] = w
         /\ Numbered(c)'
         /\ \A i \in 1 .. Len(rbuf'[c]) : rbuf'[c][i][2] \in Commands(c)
         /\ Taken(w) \in Commands(c) /\ Taken(w).op \in ops
         /\ ~blocked[c] /\ NoAnswer(c) /\ open[c]
         /\ LastId(replies[c]) = Took(c) /\ LastLeft(replies[c]) = 0
<1> DEFINE r == rbuf[c]
           t == rbuf'[c]
           m == Len(r)
           k == Took(c)
           l == Len(sock[c])
<1>1. Home[c] = w /\ open[c] /\ pc[w] = "parse" /\ ~blocked[c] /\ r # <<>>
  BY DEF Take, Control, InPlace, AtHome
<1>2. t = Tail(r) /\ r \in Seq(Request) /\ id'[w] = Head(r)[1] /\ Taken(w) = Head(r)[2] /\ Taken(w).op \in ops
  BY DEF Take, Taken, Types, ClientTypes, WorkerTypes
<1>3. /\ Len(t) = m - 1 /\ m \in Nat \ {0} /\ Head(r) = r[1]
      /\ \A i \in 1 .. Len(t) : t[i] = r[i + 1]
  <2> HIDE DEF r, t
  <2> QED BY <1>1, <1>2, HeadTailProperties, LenProperties, EmptySeq
<1>4. /\ k \in Nat
      /\ \A i \in 1 .. m : r[i][1] = k + i /\ r[i][2] \in Commands(c)
      /\ \A i \in 1 .. l : sock[c][i][1] = k + m + i
  BY DEF Orderly, Numbered, Asked
<1>5. ~Busy(c)
  BY <1>1 DEF Busy, Serving
<1>6. LastId(replies[c]) = Took(c) /\ LastLeft(replies[c]) = 0 /\ NoAnswer(c)
  BY <1>1, <1>5 DEF Orderly, AtReply, OneAnswer
<1>7. sent[c] \in Nat /\ l \in Nat
  BY DEF Types, ClientTypes
<1>8. Took(c)' = k + 1
  <2>1. k = sent[c] - l - m
    BY DEF Took
  <2>2. Took(c)' = sent[c] - l - Len(t)
    BY DEF Took
  <2> HIDE DEF k, l, m, t, r
  <2> QED BY <1>3, <1>4, <1>7, <2>1, <2>2
<1> HIDE DEF r, t, m, k, l
<1>9. ASSUME NEW i \in 1 .. Len(t) PROVE t[i][1] = (k + 1) + i /\ t[i][2] \in Commands(c)
  <2>1. i + 1 \in 1 .. m /\ t[i] = r[i + 1] /\ k + (i + 1) = (k + 1) + i
    BY <1>3, <1>4
  <2> QED BY <1>4, <2>1
<1>a. \A i \in 1 .. l : sock[c][i][1] = (k + 1) + Len(t) + i
  <2>1. \A i \in 1 .. l : (k + 1) + Len(t) + i = k + m + i
    BY <1>3, <1>4
  <2> QED BY <1>4, <2>1
<1>b. Numbered(c)'
  <2>1. Took(c)' \in Nat
    BY <1>4, <1>8
  <2>2. \A i \in 1 .. Len(rbuf'[c]) : rbuf'[c][i][1] = Took(c)' + i
    BY <1>8, <1>9 DEF t
  <2>3. \A i \in 1 .. Len(sock'[c]) : sock'[c][i][1] = Took(c)' + Len(rbuf'[c]) + i
    BY <1>8, <1>a DEF t, l
  <2> QED BY <2>1, <2>2, <2>3 DEF Numbered
<1>c. Head(r)[1] = k + 1 /\ Head(r)[2] \in Commands(c)
  <2>1. 1 \in 1 .. m
    BY <1>3
  <2>2. r[1][1] = k + 1 /\ r[1][2] \in Commands(c)
    BY <1>4, <2>1
  <2> QED BY <1>3, <2>2
<1> QED BY <1>1, <1>2, <1>4, <1>6, <1>8, <1>9, <1>b, <1>c DEF k, t

-----------------------------------------------------------------------------
LEMMA Replied ==
  ASSUME Types, NEW c \in Clients, InOrderFor(c), NEW r \in Answer,
         replies'[c] = Append(replies[c], r), Continues(replies[c], r)
  PROVE  InOrderFor(c)' /\ LastId(replies'[c]) = r.id /\ LastLeft(replies'[c]) = r.left
<1> DEFINE s == replies[c]
           t == replies'[c]
<1>1. s \in Seq(Answer) /\ InOrder(s) /\ t = Append(s, r)
  BY InOrderUnfolds DEF Types, ClientTypes
<1>2. InOrder(t) /\ LastId(t) = r.id /\ LastLeft(t) = r.left
  <2> HIDE DEF s, t
  <2> QED BY <1>1, AppendInOrder DEF s
<1>3. InOrderFor(c)'
  BY <1>2 DEF InOrderFor, InOrder
<1> QED BY <1>2, <1>3

(* A request answered as it is taken. *)
LEMMA Acknowledged ==
  ASSUME Types, Types', Control, NEW w \in Workers, NEW ops, Take(w, ops), NEW c \in Clients, c = conn[w],
         Orderly(c), sock' = sock, sent' = sent, NEW left \in Nat, Acknowledge(w, left)
  PROVE  /\ InOrderFor(c)'
         /\ LastId(replies'[c]) = Took(c)' /\ LastLeft(replies'[c]) = left
<1>1. /\ id'[w] = Took(c) + 1 /\ Took(c)' = Took(c) + 1 /\ Took(c) \in Nat
      /\ LastId(replies[c]) = Took(c) /\ LastLeft(replies[c]) = 0
  BY TakesNext
<1> DEFINE r == Reply(id'[w], left, Nothing)
<1>2. r \in Answer /\ r.id = Took(c)' /\ r.left = left
  BY <1>1 DEF Reply, Answer, Nothing
<1>3. Continues(replies[c], r)
  BY <1>1, <1>2 DEF Continues
<1>4. replies'[c] = Append(replies[c], r)
  BY DEF Acknowledge, Types, ClientTypes
<1>5. InOrderFor(c)
  BY DEF Orderly
<1> HIDE DEF r
<1> QED BY <1>2, <1>3, <1>4, <1>5, Replied

LEMMA StillNoAnswer ==
  ASSUME Types, NEW c \in Clients, NoAnswer(c),
         waiters' = waiters, expired' = expired, out' = out, pending' = pending
  PROVE  NoAnswer(c)'
<1>1. Kept(c, 0)
  BY AnswerUntouched
<1> QED BY <1>1 DEF Kept

LEMMA TakenOrderly ==
  ASSUME Types, Types', Control, NEW w \in Workers, NEW c \in Clients, c = conn[w], c \notin subs,
         Orderly(c), Single(w), Quit(w) \/ Transaction(w) \/ Exec(w) \/ Queue(w) \/ Ordinary(w)
  PROVE  Orderly(c)'
<1>1. PICK ops : Take(w, ops)
  BY DEF Quit, Transaction, Exec, Queue, Ordinary
<1>2. sock' = sock /\ sent' = sent /\ subs' = subs /\ blocked' = blocked /\ conn' = conn /\ pc[w] = "parse"
  BY <1>1 DEF Quit, Transaction, Exec, Queue, Ordinary, peer, Take
<1>3. /\ id'[w] = Took(c) + 1 /\ Took(c)' = Took(c) + 1 /\ Took(c) \in Nat /\ Home[c] = w
      /\ Numbered(c)'
      /\ \A i \in 1 .. Len(rbuf'[c]) : rbuf'[c][i][2] \in Commands(c)
      /\ Taken(w) \in Commands(c) /\ Taken(w).op \in ops
      /\ ~blocked[c] /\ NoAnswer(c)
      /\ LastId(replies[c]) = Took(c) /\ LastLeft(replies[c]) = 0
  BY <1>1, <1>2, TakesNext
<1>4. OneAnswer(c)'
  <2>1. waiters' = waiters /\ expired' = expired /\ out' = out /\ pending' = pending
    BY DEF Quit, Transaction, Exec, Queue, Ordinary
  <2> QED BY <1>3, <2>1, StillNoAnswer DEF OneAnswer
<1>5. Commands(c)' = Commands(c) /\ Ops(c)' = Ops(c) /\ Asked(c) /\ Taken(w).op \in Ops(c)
  BY <1>3 DEF Commands, Ops, Orderly
<1>6. \A i \in 1 .. Len(sock'[c]) : sock'[c][i][2] \in Commands(c)
  BY <1>2, <1>5 DEF Asked
<1>7. ~tx[w] /\ Busy(c)' = (pc'[w] \in Serving)
  BY <1>2, <1>3 DEF Single, Serving, Busy
<1>8. ASSUME multi'[c] => multi[c] \/ "multi" \in Ops(c),
             queue'[c] # <<>> => queue[c] # <<>> \/ multi[c] \/ "multi" \in Ops(c),
             \A i \in 1 .. Len(queue'[c]) : queue'[c][i] \in Commands(c),
             Busy(c)' => /\ \A i \in 1 .. Len(run'[w]) : run'[w][i] \in Commands(c)
                         /\ tx'[w] => tx[w] \/ queue[c] # <<>>
      PROVE  Asked(c)'
  <2>1. multi[c] \/ queue[c] # <<>> => "multi" \in Ops(c)
    BY <1>5 DEF Asked
  <2>2. multi'[c] \/ queue'[c] # <<>> \/ (Busy(c)' /\ tx'[w]) => "multi" \in Ops(c)
    BY <1>7, <1>8, <2>1
  <2>3. c \in subs' => "subscribe" \in Ops(c)
    BY <1>2
  <2> QED BY <1>3, <1>5, <1>6, <1>8, <2>2, <2>3 DEF Asked
<1>9. ASSUME NEW left \in Nat, Acknowledge(w, left), pc'[w] \notin Serving, left = 0
      PROVE  AtReply(c)' /\ InOrderFor(c)'
  <2>1. LastId(replies'[c]) = Took(c)' /\ LastLeft(replies'[c]) = 0 /\ InOrderFor(c)'
    BY <1>1, <1>2, <1>9, Acknowledged
  <2> QED BY <1>2, <1>3, <1>7, <1>9, <2>1 DEF AtReply
<1>t. /\ multi \in [Clients -> BOOLEAN] /\ queue \in [Clients -> Seq(Command)] /\ pc \in [Workers -> Places]
      /\ run \in [Workers -> Seq(Command)] /\ tx \in [Workers -> BOOLEAN]
      /\ \A i \in 1 .. Len(queue[c]) : queue[c][i] \in Commands(c)
  BY <1>5 DEF Types, ClientTypes, WorkerTypes, Asked
<1>e. \A i \in 1 .. Len(<<>>) : <<>>[i] \in Commands(c)
  OBVIOUS
<1>10. CASE Quit(w)
  <2>1. pc'[w] \notin Serving /\ Acknowledge(w, 0) /\ multi'[c] = FALSE /\ queue'[c] = <<>>
    BY <1>10, <1>t DEF Quit, Goto, Serving
  <2>2. Asked(c)'
    BY <1>7, <1>8, <1>e, <2>1
  <2> QED BY <1>3, <1>4, <1>9, <2>1, <2>2 DEF Orderly
<1>11. CASE Transaction(w)
  <2>1. pc'[w] \notin Serving /\ Acknowledge(w, 0)
    BY <1>2, <1>11 DEF Transaction, Serving
  <2>2. (multi'[c] => multi[c] \/ "multi" \in Ops(c)) /\ (queue'[c] = queue[c] \/ queue'[c] = <<>>)
    <3>1. Taken(w).op = "multi" => "multi" \in Ops(c)
      BY <1>5
    <3> QED BY <1>11, <1>t, <3>1 DEF Transaction, txn
  <2>3. Asked(c)'
    BY <1>7, <1>8, <1>e, <1>t, <2>1, <2>2
  <2> QED BY <1>3, <1>4, <1>9, <2>1, <2>3 DEF Orderly
<1>12. CASE Queue(w)
  <2>1. pc'[w] \notin Serving /\ Acknowledge(w, 0) /\ multi' = multi /\ multi[c]
    BY <1>2, <1>12 DEF Queue, Serving
  <2>2. \A i \in 1 .. Len(queue'[c]) : queue'[c][i] \in Commands(c)
    <3>1. CASE queue' = queue
      BY <1>t, <3>1
    <3>2. CASE queue' = [queue EXCEPT ![c] = Append(@, Taken(w))]
      <4> DEFINE s == queue[c]
                 t == queue'[c]
                 x == Taken(w)
      <4>1. s \in Seq(Command) /\ t = Append(s, x) /\ x \in Commands(c) /\ x \in Command
        BY <1>3, <1>t, <3>2, CommandsType
      <4>2. Len(t) = Len(s) + 1 /\ Len(s) \in Nat /\ t[Len(s) + 1] = x /\ \A i \in 1 .. Len(s) : t[i] = s[i]
        <5> HIDE DEF s, t, x
        <5> QED BY <4>1, AppendProperties, LenProperties
      <4>3. \A i \in 1 .. Len(s) : s[i] \in Commands(c)
        BY <1>t
      <4> HIDE DEF s, t, x
      <4>4. ASSUME NEW i \in 1 .. Len(t) PROVE t[i] \in Commands(c)
        BY <4>1, <4>2, <4>3
      <4> QED BY <4>4 DEF t
    <3> QED BY <1>12, <3>1, <3>2 DEF Queue
  <2>3. Asked(c)'
    BY <1>7, <1>8, <2>1, <2>2
  <2> QED BY <1>3, <1>4, <1>9, <2>1, <2>3 DEF Orderly
<1>13. CASE Ordinary(w)
  <2>1. /\ pc'[w] = "run" /\ run'[w] = <<Taken(w)>> /\ tx' = tx /\ multi' = multi /\ queue' = queue
        /\ replies' = replies
    BY <1>13, <1>t DEF Ordinary, Goto, txn
  <2>2. \A i \in 1 .. Len(run'[w]) : run'[w][i] \in Commands(c)
    BY <1>3, <2>1
  <2>3. Asked(c)'
    BY <1>7, <1>8, <1>t, <2>1, <2>2
  <2>4. AtReply(c)'
    <3>1. Busy(c)'
      BY <1>7, <2>1 DEF Serving
    <3>2. id'[w] = Took(c)' /\ ~blocked'[c] /\ Took(c)' - 1 = Took(c)
      BY <1>2, <1>3
    <3>3. ~tx'[w]
      BY <1>7, <2>1
    <3> QED BY <1>3, <2>1, <3>1, <3>2, <3>3 DEF AtReply
  <2>5. InOrderFor(c)'
    BY <2>1 DEF Orderly, InOrderFor
  <2> QED BY <1>3, <1>4, <2>3, <2>4, <2>5 DEF Orderly
<1>14. CASE Exec(w)
  <2> DEFINE commands == queue[c]
  <2>1. /\ Acknowledge(w, Len(commands)) /\ run'[w] = commands /\ tx'[w] = (commands # <<>>)
        /\ pc'[w] = IF commands = <<>> THEN "parse" ELSE "run"
        /\ multi'[c] = FALSE /\ queue'[c] = <<>> /\ Len(commands) \in Nat
    BY <1>14, <1>t DEF Exec, Goto
  <2>2. Asked(c)'
    BY <1>7, <1>8, <1>e, <1>t, <2>1
  <2>3. CASE commands = <<>>
    <3>1. Len(commands) = 0 /\ pc'[w] \notin Serving
      BY <2>1, <2>3 DEF Serving
    <3> HIDE DEF commands
    <3> QED BY <1>3, <1>4, <1>9, <2>1, <2>2, <3>1 DEF Orderly
  <2>4. CASE commands # <<>>
    <3>1. LastId(replies'[c]) = Took(c)' /\ LastLeft(replies'[c]) = Len(commands) /\ InOrderFor(c)'
      <4> HIDE DEF commands
      <4> QED BY <1>1, <1>2, <2>1, Acknowledged
    <3>4. tx'[w] /\ pc'[w] \in Serving
      BY <2>1, <2>4 DEF Serving
    <3>5. Busy(c)'
      BY <1>7, <3>4
    <3>6. id'[w] = Took(c)' /\ ~blocked'[c]
      BY <1>2, <1>3
    <3>3. AtReply(c)'
      BY <1>3, <2>1, <3>1, <3>4, <3>5, <3>6 DEF AtReply
    <3> QED BY <1>3, <1>4, <2>2, <3>1, <3>3 DEF Orderly
  <2> QED BY <2>3, <2>4
<1> QED BY <1>10, <1>11, <1>12, <1>13, <1>14

-----------------------------------------------------------------------------
(* The end of a command. *)
LEMMA DoneOrderly ==
  ASSUME Types, Types', Control, NEW w \in Workers, NEW c \in Clients, c = conn[w], Orderly(c), Single(w),
         pc[w] \in Serving, NEW v \in Nat, Done(w, v),
         net' = net, blocked' = blocked, txn' = txn, conn' = conn, id' = id, subs' = subs,
         NoAnswer(c) => NoAnswer(c)'
  PROVE  Orderly(c)'
<1> DEFINE s == run[w]
           t == run'[w]
           n == Len(s)
           k == Took(c)
           r == Reply(id[w], n - 1, v)
<1>1. Home[c] = w /\ s \in Seq(Command) /\ s # <<>> /\ n \in Nat \ {0}
  BY CommandInHand DEF Control, InPlace, AtHome, Serving
<1>2. Busy(c)
  BY <1>1 DEF Busy
<1>3. /\ id[w] = k /\ k \in Nat /\ ~blocked[c] /\ NoAnswer(c) /\ InOrderFor(c)
      /\ \A i \in 1 .. n : s[i] \in Commands(c)
  BY <1>1, <1>2 DEF Orderly, AtReply, OneAnswer, Numbered, Asked
<1>4. tx[w] => LastId(replies[c]) = k /\ LastLeft(replies[c]) = n
  BY <1>1, <1>2 DEF Orderly, AtReply
<1>5. ~tx[w] => LastId(replies[c]) = k - 1 /\ LastLeft(replies[c]) = 0 /\ n = 1
  BY <1>1, <1>2 DEF Orderly, AtReply, Single
<1>6. r \in Answer /\ r.id = k /\ r.left = n - 1
  BY <1>1, <1>3 DEF Reply, Answer
<1>7. replies'[c] = Append(replies[c], r)
  BY DEF Done, Tell, Types, ClientTypes
<1>8. t = Tail(s) /\ pc'[w] = (IF n > 1 THEN "run" ELSE "parse") /\ tx'[w] = (tx[w] /\ n > 1)
  BY DEF Done, Advance, Goto, Types, WorkerTypes
<1>9. Len(t) = n - 1 /\ \A i \in 1 .. Len(t) : t[i] = s[i + 1]
  <2> HIDE DEF s, t
  <2> QED BY <1>1, <1>8, HeadTailProperties DEF n
<1> HIDE DEF s, t, n, k, r
<1>10. Continues(replies[c], r)
  BY <1>1, <1>3, <1>4, <1>5, <1>6 DEF Continues
<1>11. InOrderFor(c)' /\ LastId(replies'[c]) = k /\ LastLeft(replies'[c]) = n - 1
  BY <1>3, <1>6, <1>7, <1>10, Replied
<1>12. sent' = sent /\ sock' = sock /\ rbuf' = rbuf /\ multi' = multi /\ queue' = queue
  BY DEF net, txn
<1>13. Took(c)' = k
  BY <1>12 DEF Took, k
<1>14. Numbered(c)'
  BY <1>12, <1>13 DEF Orderly, Numbered, k
<1>15. (n > 1 => Busy(c)') /\ (~(n > 1) => ~Busy(c)')
  <2>1. pc'[w] = "run" \/ pc'[w] = "parse"
    BY <1>8
  <2>2. (n > 1 => pc'[w] = "run") /\ (~(n > 1) => pc'[w] = "parse")
    BY <1>8
  <2> QED BY <1>1, <2>2 DEF Busy, Serving
<1>16. Asked(c)'
  <2>1. Asked(c) /\ Commands(c)' = Commands(c) /\ Ops(c)' = Ops(c)
    BY DEF Orderly, Commands, Ops
  <2>2. \A i \in 1 .. Len(t) : t[i] \in Commands(c)
    <3>1. \A i \in 1 .. Len(t) : i + 1 \in 1 .. n
      BY <1>1, <1>9
    <3> QED BY <1>3, <1>9, <3>1
  <2>3. tx'[w] => tx[w]
    BY <1>8
  <2>4. multi'[c] \/ queue'[c] # <<>> \/ (Busy(c)' /\ tx'[w]) => "multi" \in Ops(c)
    BY <1>1, <1>2, <1>12, <2>1, <2>3 DEF Asked
  <2> QED BY <1>1, <1>12, <2>1, <2>2, <2>4 DEF Asked, t
<1>17. AtReply(c)'
  <2>1. CASE n > 1
    <3>4. n # 1
      BY <1>1, <2>1
    <3>1. Busy(c)' /\ tx[w]
      BY <1>5, <1>15, <2>1, <3>4
    <3>2. tx'[w]
      BY <1>8, <2>1, <3>1
    <3>3. id'[w] = k /\ ~blocked'[c]
      BY <1>3
    <3> QED BY <1>1, <1>9, <1>11, <1>13, <3>1, <3>2, <3>3 DEF AtReply, t
  <2>2. CASE ~(n > 1)
    <3>3. n - 1 = 0
      BY <1>1, <2>2
    <3>1. ~Busy(c)' /\ n - 1 = 0
      BY <1>15, <2>2, <3>3
    <3>2. ~blocked'[c]
      BY <1>3
    <3> QED BY <1>11, <1>13, <3>1, <3>2 DEF AtReply
  <2> QED BY <2>1, <2>2
<1>18. OneAnswer(c)'
  BY <1>3 DEF OneAnswer
<1> QED BY <1>11, <1>14, <1>16, <1>17, <1>18 DEF Orderly

(* A BRPOP blocks: its waiter is the one answer under way. *)
LEMMA BlocksOrderly ==
  ASSUME Types, Types', Control, NEW w \in Workers, NEW c \in Clients, c = conn[w], Orderly(c), Ordered(c),
         Single(w), Register(w)
  PROVE  Orderly(c)'
<1>0. PICK k : k = Took(c)
  OBVIOUS
<1> DEFINE x == [client |-> c, id |-> id[w], left |-> Len(run[w]) - 1,
                 keys |-> Cmd(w).keys, timed |-> Cmd(w).timed]
           t == Without(c)
           u == waiters'
<1>1. pc[w] \in Serving /\ pc[w] = "register"
  BY DEF Register, Serving
<1>2. /\ Home[c] = w /\ run[w] \in Seq(Command) /\ run[w] # <<>> /\ Len(run[w]) \in Nat \ {0}
      /\ Cmd(w).op = "brpop" /\ Cmd(w) = run[w][1]
  BY <1>1, CommandInHand DEF Control, InPlace, AtHome, HasCommand, Cmd
<1>3. Busy(c)
  BY <1>1, <1>2 DEF Busy
<1>4. /\ id[w] = k /\ k \in Nat /\ ~blocked[c] /\ NoAnswer(c) /\ InOrderFor(c)
      /\ run[w][1] \in Commands(c)
  BY <1>0, <1>2, <1>3 DEF Orderly, AtReply, OneAnswer, Numbered, Asked
<1>5. ~tx[w] /\ Len(run[w]) = 1
  <2>1. "brpop" \in Ops(c)
    BY <1>2, <1>4 DEF Ops
  <2>2. "multi" \notin Ops(c)
    BY <2>1 DEF Ordered
  <2> QED BY <1>1, <1>2, <1>3, <2>2 DEF Orderly, Asked, Single
<1>6. LastId(replies[c]) = k - 1 /\ LastLeft(replies[c]) = 0
  BY <1>0, <1>2, <1>3, <1>5 DEF Orderly, AtReply
<1>r. u = Append(t, x) /\ blocked'[c] = TRUE
  BY <1>5 DEF Register, Types, ClientTypes
<1>s. pc'[w] = "parse"
  BY <1>5 DEF Register, Advance, Goto, Types, WorkerTypes
<1>7. /\ u = Append(t, x) /\ blocked'[c] = TRUE /\ pc'[w] = "parse"
      /\ conn' = conn /\ id' = id /\ replies' = replies /\ pending' = pending /\ out' = out /\ expired' = expired
      /\ sent' = sent /\ sock' = sock /\ rbuf' = rbuf /\ multi' = multi /\ queue' = queue /\ subs' = subs
  BY <1>r, <1>s DEF Register, net, txn, peer
<1>8. t \in Seq(Waiter) /\ NoneFor(t, c)
  <2>1. t \in Seq(Waiter) /\ \A j \in 1 .. Len(t) : t[j].client # c
    BY WithoutIs
  <2> QED BY <2>1 DEF NoneFor
<1>9. x.client = c /\ x.id = k /\ x.left = 0
  BY <1>4, <1>5
<1> HIDE DEF x, t, u
<1>10. /\ Len(u) = Len(t) + 1 /\ u[Len(t) + 1] = x /\ Len(t) \in Nat
       /\ \A i \in 1 .. Len(t) : u[i] = t[i]
  BY <1>7, <1>8, AppendProperties, LenProperties
<1> DEFINE m == Len(t)
<1>11. /\ Len(u) = m + 1 /\ u[m + 1] = x /\ m \in Nat
       /\ \A i \in 1 .. m : u[i] = t[i]
  BY <1>10
<1>12. \A i \in 1 .. m : t[i].client # c
  BY <1>8 DEF NoneFor
<1> HIDE DEF m
<1>13. OneFor(u, c, k)
  <2>1. ASSUME NEW j \in 1 .. Len(u) PROVE u[j].client = c <=> j = m + 1
    <3>1. CASE j = m + 1
      BY <1>9, <1>11, <3>1
    <3>2. CASE j # m + 1
      <4>1. j \in 1 .. m
        BY <1>11, <3>2
      <4> QED BY <1>11, <1>12, <3>2, <4>1
    <3> QED BY <3>1, <3>2
  <2>2. m + 1 \in 1 .. Len(u) /\ u[m + 1].id = k /\ u[m + 1].left = 0
    BY <1>9, <1>11
  <2> QED BY <2>1, <2>2 DEF OneFor
<1>14. AnswerAt(c, k)'
  <2>1. OneFor(waiters, c, k)' = OneFor(u, c, k)
    BY DEF OneFor, u
  <2>2. NoneFor(expired, c)' = NoneFor(expired, c) /\ NoneTo(c)' = NoneTo(c) /\ pending'[c] = pending[c]
    BY <1>7, HandsUnchanged DEF NoneFor
  <2> QED BY <1>4, <1>13, <2>1, <2>2 DEF AnswerAt, NoAnswer
<1>15. Took(c)' = k
  BY <1>0, <1>7 DEF Took
<1>16. OneAnswer(c)'
  BY <1>7, <1>14, <1>15 DEF OneAnswer
<1>17. ~Busy(c)'
  BY <1>2, <1>7 DEF Busy, Serving
<1>18. Numbered(c)'
  BY <1>0, <1>7, <1>15 DEF Orderly, Numbered
<1>19. Asked(c)'
  <2>1. Asked(c) /\ Commands(c)' = Commands(c) /\ Ops(c)' = Ops(c)
    BY DEF Orderly, Commands, Ops
  <2> QED BY <1>7, <1>17, <2>1 DEF Asked
<1>20. AtReply(c)'
  BY <1>6, <1>7, <1>15, <1>17 DEF AtReply
<1>21. InOrderFor(c)'
  BY <1>4, <1>7 DEF InOrderFor
<1> QED BY <1>16, <1>18, <1>19, <1>20, <1>21 DEF Orderly

(* The answer comes. *)
LEMMA ComesOrderly ==
  ASSUME Types, Types', Control, NEW w \in Workers, NEW c \in Clients, Orderly(c), ProcessAsync(w),
         pending'[c] # pending[c]
  PROVE  Orderly(c)'
<1>0. PICK k : k = Took(c)
  OBVIOUS
<1> DEFINE r == pending[c][1]
<1>1. PICK b \in Clients : /\ Home[b] = w /\ pending[b] # <<>> /\ replies' = [replies EXCEPT ![b] = @ \o pending[b]]
                           /\ pending' = [pending EXCEPT ![b] = <<>>]
                           /\ blocked' = [blocked EXCEPT ![b] = FALSE]
  BY DEF ProcessAsync
<1>2. b = c
  BY <1>1 DEF Types, ClientTypes
<1>3. /\ Home[c] = w /\ pending[c] # <<>> /\ pending[c] \in Seq(Answer)
      /\ replies'[c] = replies[c] \o pending[c] /\ pending'[c] = <<>> /\ blocked'[c] = FALSE
      /\ pc[w] = "loop" /\ pc' = pc /\ conn' = conn /\ id' = id /\ run' = run /\ tx' = tx
      /\ waiters' = waiters /\ out' = out /\ expired' = expired
      /\ sent' = sent /\ sock' = sock /\ rbuf' = rbuf /\ multi' = multi /\ queue' = queue /\ subs' = subs
  BY <1>1, <1>2 DEF ProcessAsync, net, txn, peer, task, Types, ClientTypes
<1>4. ~Busy(c) /\ ~Busy(c)'
  BY <1>3 DEF Busy, Serving
<1>5. ~NoAnswer(c)
  BY <1>3 DEF NoAnswer
<1>6. blocked[c] /\ AnswerAt(c, k) /\ k \in Nat
  BY <1>0, <1>5 DEF Orderly, OneAnswer, Numbered
<1>7. NoneFor(waiters, c) /\ NoneFor(expired, c) /\ NoneTo(c) /\ OneSent(c, k)
  BY <1>3, <1>6 DEF AnswerAt
<1>8. LastId(replies[c]) = k - 1 /\ LastLeft(replies[c]) = 0 /\ InOrderFor(c)
  BY <1>0, <1>4, <1>6 DEF Orderly, AtReply
<1>9. Len(pending[c]) = 1 /\ r.id = k /\ r.left = 0 /\ r \in Answer
  BY <1>3, <1>7 DEF OneSent
<1>10. replies'[c] = Append(replies[c], r)
  <2> DEFINE p == pending[c]
             s == replies[c]
  <2>1. p \in Seq(Answer) /\ Len(p) = 1 /\ s \in Seq(Answer) /\ replies'[c] = s \o p /\ r = p[1]
    BY <1>3, <1>9 DEF Types, ClientTypes
  <2> HIDE DEF p, s, r
  <2>3. p = <<r>> /\ r \in Answer
    BY <1>9, <2>1
  <2>2. s \o <<r>> = Append(s, r)
    BY <2>1, <2>3
  <2> QED BY <2>1, <2>2, <2>3 DEF s
<1> HIDE DEF r
<1>11. Continues(replies[c], r)
  BY <1>6, <1>8, <1>9 DEF Continues
<1>12. InOrderFor(c)' /\ LastId(replies'[c]) = k /\ LastLeft(replies'[c]) = 0
  BY <1>8, <1>9, <1>10, <1>11, Replied
<1>13. Took(c)' = k
  BY <1>0, <1>3 DEF Took
<1>14. OneAnswer(c)'
  <2>1. NoneFor(waiters, c)' = NoneFor(waiters, c) /\ NoneFor(expired, c)' = NoneFor(expired, c)
        /\ NoneTo(c)' = NoneTo(c)
    BY <1>3, HandsUnchanged DEF NoneFor
  <2> QED BY <1>3, <1>7, <2>1 DEF OneAnswer, NoAnswer
<1>15. Numbered(c)'
  BY <1>0, <1>3, <1>13 DEF Orderly, Numbered
<1>16. Asked(c)'
  <2>1. Asked(c) /\ Commands(c)' = Commands(c) /\ Ops(c)' = Ops(c)
    BY DEF Orderly, Commands, Ops
  <2> QED BY <1>3, <1>4, <2>1 DEF Asked
<1>17. AtReply(c)'
  BY <1>3, <1>4, <1>12, <1>13 DEF AtReply
<1> QED BY <1>12, <1>14, <1>15, <1>16, <1>17 DEF Orderly

-----------------------------------------------------------------------------
LEMMA SingleStep ==
  ASSUME Types, Types', Control, NEW v \in Workers, Single(v), NEW w \in Workers, WorkerStep(w)
  PROVE  Single(v)'
<1>1. CASE v # w
  BY <1>1, WorkerFrame DEF OnlyWorker, Single
<1>2. CASE v = w
  <2>1. pc \in [Workers -> Places] /\ run \in [Workers -> Seq(Command)] /\ tx \in [Workers -> BOOLEAN]
    BY DEF Types, WorkerTypes
  <2>2. CASE HandleRead(w) \/ ParseEnd(w) \/ Quit(w) \/ Transaction(w) \/ Queue(w) \/ Closed(w) \/ RemoveConnection(w)
             \/ ProcessAsync(w)
    <3>1. pc[w] \notin Serving /\ pc'[w] \notin Serving /\ tx' = tx
      BY <2>1, <2>2 DEF HandleRead, ParseEnd, Quit, Transaction, Queue, Closed, RemoveConnection, ProcessAsync,
           Take, Goto, Serving, task
    <3> QED BY <1>2, <3>1 DEF Single
  <2>3. CASE Ordinary(w)
    <3>1. pc[w] \notin Serving /\ pc'[w] \in Serving /\ run'[w] = <<Taken(w)>> /\ tx' = tx
      BY <2>1, <2>3 DEF Ordinary, Take, Goto, Serving
    <3>2. Len(run'[w]) = 1
      BY <3>1
    <3> QED BY <1>2, <3>1, <3>2 DEF Single
  <2>4. CASE Exec(w)
    <3>1. run'[w] = queue[conn[w]] /\ tx'[w] = (queue[conn[w]] # <<>>)
          /\ pc'[w] = IF queue[conn[w]] = <<>> THEN "parse" ELSE "run"
      BY <2>1, <2>4 DEF Exec, Goto
    <3>2. CASE queue[conn[w]] = <<>>
      BY <1>2, <3>1, <3>2 DEF Single, Serving
    <3>3. CASE queue[conn[w]] # <<>>
      BY <1>2, <3>1, <3>3 DEF Single, Serving
    <3> QED BY <3>2, <3>3
  <2>5. ASSUME pc[w] \in Serving, Advance(w) PROVE Single(w)'
    <3> DEFINE s == run[w]
               t == run'[w]
               n == Len(s)
    <3>1. s \in Seq(Command) /\ s # <<>> /\ n \in Nat \ {0}
      BY <2>5, CommandInHand
    <3>2. t = Tail(s) /\ tx'[w] = (tx[w] /\ n > 1) /\ pc'[w] = IF n > 1 THEN "run" ELSE "parse"
      BY <2>1, <2>5 DEF Advance, Goto
    <3>3. ~tx[w] => n = 1
      BY <2>5, <1>2 DEF Single
    <3> HIDE DEF s, t, n
    <3>4. CASE n > 1
      <4>1. n # 1
        BY <3>1, <3>4
      <4>2. tx'[w] /\ pc'[w] \in Serving
        BY <3>2, <3>3, <3>4, <4>1 DEF Serving
      <4> QED BY <4>2 DEF Single
    <3>5. CASE ~(n > 1)
      <4>1. ~tx'[w] /\ pc'[w] \notin Serving
        BY <3>2, <3>5 DEF Serving
      <4> QED BY <4>1 DEF Single
    <3> QED BY <3>4, <3>5
  <2>6. CASE RPop(w) \/ Register(w) \/ Delivered(w) \/ Subscribe(w)
    <3>1. pc[w] \in Serving /\ Advance(w)
      BY <2>6 DEF RPop, Register, Delivered, Subscribe, Runs, Done, Serving
    <3> QED BY <1>2, <2>5, <3>1
  <2>7. CASE TryPop(w)
    <3>1. pc[w] \in Serving
      BY <2>7 DEF TryPop, Runs, Serving
    <3>2. Advance(w) \/ (run' = run /\ tx' = tx /\ (Goto(w, "register") \/ Goto(w, "run")))
      BY <2>7 DEF TryPop, Done
    <3>3. ASSUME run' = run, tx' = tx, Goto(w, "register") \/ Goto(w, "run") PROVE Single(w)'
      <4>1. pc'[w] \in Serving
        BY <2>1, <3>3 DEF Goto, Serving
      <4> QED BY <1>2, <3>1, <3>3, <4>1 DEF Single
    <3> QED BY <1>2, <2>5, <3>1, <3>2, <3>3
  <2>8. CASE RPush(w) \/ Notify(w) \/ Skip(w) \/ Serve(w) \/ NoneServed(w) \/ Deliver(w) \/ Publish(w)
    <3>1. pc[w] \in Serving /\ pc'[w] \in Serving
      BY <2>1, <2>8, Zenon DEF RPush, Notify, Skip, Serve, NoneServed, Deliver, Publish, Runs, Goto, Serving
    <3>2. run' = run /\ tx' = tx
      BY <2>8, Zenon DEF RPush, Notify, Skip, Serve, NoneServed, Deliver, Publish, task
    <3> QED BY <1>2, <3>1, <3>2 DEF Single
  <2> QED BY <2>2, <2>3, <2>4, <2>6, <2>7, <2>8 DEF WorkerStep
<1> QED BY <1>1, <1>2

(* Nothing is sent to a closed connection, and none is opened again. *)
LEMMA ClosedSilent ==
  ASSUME Types, Control, [Next]_vars, NEW c \in Clients, ~open[c]
  PROVE  replies'[c] = replies[c] /\ ~open'[c]
<1>1. replies \in [Clients -> Seq(Answer)] /\ open \in [Clients -> BOOLEAN]
  BY DEF Types, ClientTypes
<1>2. CASE UNCHANGED vars
  BY <1>2 DEF vars, peer
<1>3. CASE \E b \in Clients : Send(b) \/ Hangup(b)
  BY <1>3 DEF Send, Hangup, peer
<1>4. CASE Expire \/ ExpireDeliver
  BY <1>4 DEF Expire, ExpireDeliver, peer
<1>5. ASSUME NEW w \in Workers, WorkerStep(w) PROVE replies'[c] = replies[c] /\ ~open'[c]
  <2>1. CASE pc[w] # "loop"
    <3>1. conn[w] # c
      BY <2>1 DEF Control, InPlace, AtHome
    <3>2. replies'[c] = replies[c]
      BY <1>5, <2>1, <3>1, ServedFrame DEF SameState
    <3>3. open' = open \/ open' = [open EXCEPT ![conn[w]] = FALSE]
      BY <1>5, <2>1, Zenon DEF WorkerStep, HandleRead, ParseEnd, Quit, Transaction, Exec, Queue, Ordinary, RPush, RPop,
           TryPop, Register, Notify, Skip, Serve, NoneServed, Deliver, Delivered, Subscribe, Publish,
           ProcessAsync, Closed, RemoveConnection, peer
    <3> QED BY <1>1, <3>1, <3>2, <3>3
  <2>2. CASE pc[w] = "loop"
    <3>1. HandleRead(w) \/ ProcessAsync(w) \/ Closed(w)
      BY <1>5, <2>2 DEF WorkerStep, HandleRead, ParseEnd, Quit, Transaction, Exec, Queue, Ordinary, RPush, RPop,
           TryPop, Register, Notify, Skip, Serve, NoneServed, Deliver, Delivered, Subscribe, Publish,
           ProcessAsync, Closed, RemoveConnection, Take, Runs
    <3>2. CASE HandleRead(w) \/ Closed(w)
      BY <3>2 DEF HandleRead, Closed, peer
    <3>3. CASE ProcessAsync(w)
      <4>1. PICK b \in Clients : open[b] /\ replies' = [replies EXCEPT ![b] = @ \o pending[b]]
        BY <3>3 DEF ProcessAsync
      <4>2. b # c /\ open' = open
        BY <3>3, <4>1 DEF ProcessAsync, peer
      <4> QED BY <1>1, <4>1, <4>2
    <3> QED BY <3>1, <3>2, <3>3, SMTT(30)
  <2> QED BY <2>1, <2>2
<1> QED BY <1>2, <1>3, <1>4, <1>5 DEF Next

LEMMA UnseenWorker ==
  ASSUME Types, Types', Control, NEW w \in Workers, WorkerStep(w), NEW c \in Clients, c \notin subs, Orderly(c),
         Register(w) => conn[w] # c, ProcessAsync(w) => pending'[c] = pending[c], Unseen(c)
  PROVE  Orderly(c)'
<1>1. \E n \in {Took(c)} : Kept(c, n)
  BY WorkerKeepsAnswer
<1> QED BY <1>1, UnseenKeeps

LEMMA OwnStepOrderly ==
  ASSUME Types, Types', Control, NEW w \in Workers, WorkerStep(w), NEW c \in Clients, c = conn[w], c \notin subs,
         pc[w] # "loop", ~RemoveConnection(w), Ordered(c), Orderly(c), Single(w)
  PROVE  Orderly(c)'
<1>1. CASE Quit(w) \/ Transaction(w) \/ Exec(w) \/ Queue(w) \/ Ordinary(w)
  BY <1>1, TakenOrderly
<1>2. CASE Register(w)
  BY <1>2, BlocksOrderly
<1>3. CASE ParseEnd(w)
  <2>1. ~Register(w) /\ ~ProcessAsync(w)
    BY <1>3 DEF ParseEnd, Register, ProcessAsync
  <2> QED BY <1>3, <2>1, LoopUnseen, UnseenWorker
<1>4. CASE RPush(w) \/ Notify(w) \/ Skip(w) \/ Serve(w) \/ NoneServed(w) \/ Deliver(w) \/ Publish(w)
           \/ (TryPop(w) /\ replies' = replies /\ run' = run /\ tx' = tx)
  <2>1. ~Register(w) /\ ~ProcessAsync(w)
    BY <1>4, Zenon DEF RPush, Notify, Skip, Serve, NoneServed, Deliver, Publish, TryPop, Runs, Register, ProcessAsync
  <2> QED BY <1>4, <2>1, InsideUnseen, UnseenWorker
<1>5. ASSUME pc[w] \in Serving, \E v \in Nat : Done(w, v), net' = net, blocked' = blocked, txn' = txn,
             conn' = conn, id' = id, subs' = subs, waiters' = waiters, expired' = expired, out' = out,
             pending' = pending
      PROVE  Orderly(c)'
  <2>1. NoAnswer(c) => NoAnswer(c)'
    BY <1>5, StillNoAnswer
  <2> QED BY <1>5, <2>1, DoneOrderly
<1>6. CASE RPop(w)
  <2>1. Cmd(w).key \in Keys /\ pc[w] \in Serving
    BY <1>6, CommandInHand, CommandFields DEF RPop, Runs, Serving
  <2>2. \E v \in Nat : Done(w, v)
    BY <1>6, <2>1, RestTypes DEF RPop, Nothing
  <2> QED BY <1>5, <1>6, <2>1, <2>2 DEF RPop, peer
<1>7. CASE TryPop(w) /\ ~(replies' = replies /\ run' = run /\ tx' = tx)
  <2> DEFINE k == Cmd(w).keys[at[w][2]]
  <2>1. pc[w] \in Serving /\ PopsBlocking(w)
    BY <1>7 DEF TryPop, Runs, Serving, PopsBlocking
  <2>2. Cmd(w).keys \in Seq(Keys) /\ at[w][2] \in 1 .. Len(Cmd(w).keys)
    BY <2>1, CommandInHand, CommandFields DEF Control, InPlace, HasPlace, PopsBlocking
  <2>3. k \in Keys
    BY <2>2
  <2>4. list[k] # <<>> /\ Done(w, Last(list[k]))
    BY <1>7 DEF TryPop
  <2> HIDE DEF k
  <2>5. \E v \in Nat : Done(w, v)
    BY <2>3, <2>4, RestTypes
  <2> QED BY <1>5, <1>7, <2>1, <2>5 DEF TryPop, peer
<1>8. CASE Delivered(w)
  <2>1. pc[w] \in Serving /\ \E v \in Nat : Done(w, v)
    BY <1>8 DEF Delivered, Serving, Nothing
  <2> QED BY <1>5, <1>8, <2>1 DEF Delivered, peer
<1>9. CASE Subscribe(w)
  <2>1. pc[w] \in Serving /\ Cmd(w).op = "subscribe"
    BY <1>9 DEF Subscribe, Runs, Serving
  <2>2. run[w] \in Seq(Command) /\ run[w] # <<>> /\ Home[c] = w
    BY <2>1, CommandInHand DEF Control, InPlace, AtHome
  <2>3. Cmd(w) = run[w][1] /\ 1 \in 1 .. Len(run[w])
    BY <2>2 DEF Cmd
  <2>4. Cmd(w) \in Commands(c)
    BY <2>1, <2>2, <2>3 DEF Orderly, Asked, Busy
  <2> QED BY <2>1, <2>4 DEF Ordered, Ops
<1>10. ~HandleRead(w) /\ ~ProcessAsync(w) /\ ~Closed(w)
  BY DEF HandleRead, ProcessAsync, Closed
<1> QED BY <1>1, <1>2, <1>3, <1>4, <1>6, <1>7, <1>8, <1>9, <1>10 DEF WorkerStep

LEMMA WorkerOrderly ==
  ASSUME Types, Types', Control, NEW w \in Workers, WorkerStep(w), NEW c \in Clients, Ordered(c), Orderly(c),
         Single(w), open'[c]
  PROVE  Orderly(c)'
<1>1. c \notin subs
  BY DEF Orderly, Asked, Ordered
<1>2. CASE pc[w] # "loop" /\ c # conn[w]
  <2>1. ~ProcessAsync(w)
    BY <1>2 DEF ProcessAsync
  <2> QED BY <1>1, <1>2, <2>1, OthersUnseen, UnseenWorker
<1>3. CASE pc[w] # "loop" /\ c = conn[w]
  <2>1. ~RemoveConnection(w)
    BY <1>3 DEF RemoveConnection, Types, ClientTypes
  <2> QED BY <1>1, <1>3, <2>1, OwnStepOrderly
<1>4. CASE pc[w] = "loop"
  <2>1. HandleRead(w) \/ ProcessAsync(w) \/ Closed(w)
    BY <1>4 DEF WorkerStep, HandleRead, ParseEnd, Quit, Transaction, Exec, Queue, Ordinary, RPush, RPop,
         TryPop, Register, Notify, Skip, Serve, NoneServed, Deliver, Delivered, Subscribe, Publish,
         ProcessAsync, Closed, RemoveConnection, Take, Runs
  <2>2. ~Register(w)
    BY <1>4 DEF Register
  <2>3. CASE HandleRead(w)
    <3>1. ~ProcessAsync(w) \/ pending'[c] = pending[c]
      BY <2>3 DEF HandleRead
    <3>2. CASE sock'[c] = sock[c]
      BY <1>1, <2>2, <2>3, <3>1, <3>2, LoopUnseen, UnseenWorker
    <3>3. CASE sock'[c] # sock[c]
      BY <1>1, <2>3, <3>3, ReadOrderly
    <3> QED BY <3>2, <3>3
  <2>4. CASE Closed(w)
    <3>1. ~ProcessAsync(w) \/ pending'[c] = pending[c]
      BY <2>4 DEF Closed
    <3> QED BY <1>1, <2>2, <2>4, <3>1, LoopUnseen, UnseenWorker
  <2>5. CASE ProcessAsync(w)
    <3>1. CASE pending'[c] = pending[c]
      BY <1>1, <2>2, <2>5, <3>1, LoopUnseen, UnseenWorker
    <3>2. CASE pending'[c] # pending[c]
      BY <2>5, <3>2, ComesOrderly
    <3> QED BY <3>1, <3>2
  <2> QED BY <2>1, <2>3, <2>4, <2>5
<1> QED BY <1>2, <1>3, <1>4

AllSingle == \A w \in Workers : Single(w)

LEMMA OrderStep ==
  ASSUME Types, Types', Control, AllSingle, AllOrderly, [Next]_vars
  PROVE  AllSingle' /\ AllOrderly'
<1>1. CASE UNCHANGED vars
  <2>1. AllSingle'
    BY <1>1 DEF AllSingle, Single, vars, task
  <2>2. ASSUME NEW c \in Clients, Ordered(c) PROVE InOrderFor(c)' /\ (open'[c] => Orderly(c)')
    <3>1. /\ pc' = pc /\ conn' = conn /\ id' = id /\ run' = run /\ tx' = tx
          /\ sent' = sent /\ sock' = sock /\ rbuf' = rbuf /\ replies' = replies /\ blocked' = blocked
          /\ multi' = multi /\ queue' = queue /\ subs' = subs /\ open' = open
          /\ waiters' = waiters /\ expired' = expired /\ out' = out /\ pending' = pending
      BY <1>1 DEF vars, net, peer, txn, task
    <3>2. Unseen(c) /\ \E n \in {Took(c)} : Kept(c, n)
      BY <3>1, AnswerUntouched DEF Unseen, Busy
    <3>3. InOrderFor(c) /\ (open[c] => Orderly(c))
      BY <2>2 DEF AllOrderly
    <3>4. InOrderFor(c)'
      BY <3>1, <3>3 DEF InOrderFor
    <3> QED BY <3>1, <3>2, <3>3, <3>4, UnseenKeeps
  <2>3. \A c \in Clients : Ordered(c)' = Ordered(c)
    BY DEF Ordered, Ops, Commands
  <2> QED BY <2>1, <2>2, <2>3 DEF AllOrderly
<1>2. CASE Next
  <2>1. AllSingle'
    <3>1. ASSUME NEW v \in Workers PROVE Single(v)'
      <4>1. CASE \E w \in Workers : WorkerStep(w)
        BY <4>1, SingleStep DEF AllSingle
      <4>2. CASE ~\E w \in Workers : WorkerStep(w)
        <5>1. pc' = pc /\ run' = run /\ tx' = tx
          BY <1>2, <4>2 DEF Next, Send, Hangup, Expire, ExpireDeliver, task
        <5> QED BY <5>1, SMTT(30) DEF AllSingle, Single
      <4> QED BY <4>1, <4>2
    <3> QED BY <3>1 DEF AllSingle
  <2>2. ASSUME NEW c \in Clients, Ordered(c) PROVE InOrderFor(c)' /\ (open'[c] => Orderly(c)')
    <3>1. InOrderFor(c) /\ (open[c] => Orderly(c))
      BY <2>2 DEF AllOrderly
    <3>2. CASE ~open[c]
      <4>1. replies'[c] = replies[c] /\ ~open'[c]
        BY <1>2, <3>2, ClosedSilent
      <4> QED BY <3>1, <4>1 DEF InOrderFor
    <3>3. CASE open[c]
      <4>1. Orderly(c)
        BY <3>1, <3>3
      <4>2. CASE \E b \in Clients : Send(b) \/ Hangup(b)
        BY <4>1, <4>2, OutsideOrderly, SendOrderly DEF Orderly
      <4>3. CASE Expire \/ ExpireDeliver
        BY <4>1, <4>3, OutsideOrderly DEF Orderly
      <4>4. ASSUME NEW w \in Workers, WorkerStep(w) PROVE InOrderFor(c)' /\ (open'[c] => Orderly(c)')
        <5>1. CASE open'[c]
          BY <2>2, <4>1, <4>4, <5>1, WorkerOrderly DEF AllSingle, Orderly
        <5>2. CASE ~open'[c]
          <6>1. RemoveConnection(w)
            BY <3>3, <4>4, <5>2, Zenon DEF WorkerStep, HandleRead, ParseEnd, Quit, Transaction, Exec, Queue, Ordinary, RPush,
              RPop, TryPop, Register, Notify, Skip, Serve, NoneServed, Deliver, Delivered, Subscribe, Publish,
              ProcessAsync, Closed, peer
          <6>2. replies' = replies
            BY <6>1 DEF RemoveConnection
          <6> QED BY <3>1, <5>2, <6>2 DEF InOrderFor
        <5> QED BY <5>1, <5>2
      <4> QED BY <1>2, <4>2, <4>3, <4>4 DEF Next
    <3> QED BY <3>2, <3>3
  <2>3. \A c \in Clients : Ordered(c)' = Ordered(c)
    BY DEF Ordered, Ops, Commands
  <2> QED BY <2>1, <2>2, <2>3 DEF AllOrderly
<1> QED BY <1>1, <1>2

LEMMA InitOrder == Init => AllSingle /\ AllOrderly
<1> SUFFICES ASSUME Init PROVE AllSingle /\ AllOrderly
  OBVIOUS
<1>1. AllSingle
  BY DEF Init, AllSingle, Single, Serving
<1>2. ASSUME NEW c \in Clients PROVE Orderly(c)
  <2>1. /\ sent[c] = 0 /\ sock[c] = <<>> /\ rbuf[c] = <<>> /\ queue[c] = <<>> /\ replies[c] = <<>>
        /\ pending[c] = <<>> /\ waiters = <<>> /\ expired = <<>> /\ subs = {}
        /\ blocked[c] = FALSE /\ multi[c] = FALSE /\ Home[c] \in Workers
        /\ \A w \in Workers : pc[w] = "loop" /\ out[w] = <<>>
    BY <1>2, HomeAssumption DEF Init
  <2>a. Len(<<>>) = 0
    OBVIOUS
  <2>b. Took(c) = 0
    <3>1. sent[c] = 0 /\ Len(sock[c]) = 0 /\ Len(rbuf[c]) = 0
      BY <2>1, <2>a
    <3> QED BY <3>1 DEF Took
  <2>c. ~Busy(c)
    BY <2>1 DEF Busy, Serving
  <2>2. Took(c) = 0 /\ Len(<<>>) = 0 /\ ~Busy(c)
    BY <2>a, <2>b, <2>c
  <2>3. Numbered(c)
    BY <2>1, <2>2 DEF Numbered
  <2>4. Asked(c)
    BY <2>1, <2>2 DEF Asked
  <2>5. AtReply(c)
    BY <2>1, <2>2 DEF AtReply, LastId, LastLeft
  <2>6. OneAnswer(c)
    BY <2>1, <2>2 DEF OneAnswer, NoAnswer, NoneFor, NoneTo
  <2>7. InOrderFor(c)
    BY <2>1, <2>2 DEF InOrderFor
  <2> QED BY <2>3, <2>4, <2>5, <2>6, <2>7 DEF Orderly
<1> QED BY <1>1, <1>2 DEF AllOrderly, Orderly

(* A client that neither subscribes nor queues a BRPOP in a transaction is  *)
(* sent the replies of its requests in their order, pipelined ones          *)
(* included, though a BRPOP may be answered by another thread through the   *)
(* sink: is_blocked stops the parse loop of handle_read() until             *)
(* process_async_messages() has moved the late answer to the socket.        *)
THEOREM RepliesInOrder == Spec => []PlainInOrder
<1>1. Init => Types /\ Control /\ AllSingle /\ AllOrderly
  BY InitTypes, InitOrder
<1>2. Types /\ Control /\ AllSingle /\ AllOrderly /\ [Next]_vars => Types' /\ Control' /\ AllSingle' /\ AllOrderly'
  BY TypesStep, OrderStep
<1>3. AllOrderly => PlainInOrder
  BY DEF AllOrderly, PlainInOrder
<1> QED BY <1>1, <1>2, <1>3, PTL DEF Spec

-----------------------------------------------------------------------------
(* The variables have their types, and where a worker is tells what it      *)
(* holds: the mutex only while it scans the waiters, answers only on the    *)
(* way to a sink, a command to run only between parse and its reply, and    *)
(* positions that are in range of the waiters and of their keys.            *)
THEOREM TypesAndControl == Spec => [](Types /\ Control)
BY InitTypes, TypesStep, PTL DEF Spec

(* No waiter of BRPOP is left behind of a closed connection, for which a    *)
(* pop would lose a value, and no client has two: register_blocked_pop()    *)
(* and remove_connection() take the old one off the list.                   *)
THEOREM WaitersStayLive == Spec => []WaitersAreLive
<1>1. Init => Types /\ Control /\ WaitersAreLive
  <2>1. Init => WaitersAreLive
    BY DEF Init, WaitersAreLive
  <2> QED BY <2>1, InitTypes
<1>2. Types /\ Control /\ WaitersAreLive /\ [Next]_vars => Types' /\ Control' /\ WaitersAreLive'
  BY TypesStep, LiveStep
<1> QED BY <1>1, <1>2, PTL DEF Spec

(* A connection marked is_blocked always has an answer coming: its waiter   *)
(* is in the store, or its answer is with a worker, the eviction thread or  *)
(* the sink.  No interleaving of register_blocked_pop(), notify, expiry,    *)
(* removal and delivery forgets it.                                         *)
THEOREM BlockedKnown == Spec => []BlockedIsAwaited
<1>1. Init => Types /\ Control /\ BlockedIsAwaited
  <2>1. Init => BlockedIsAwaited
    BY DEF Init, BlockedIsAwaited
  <2> QED BY <2>1, InitTypes
<1>2. Types /\ Control /\ BlockedIsAwaited /\ [Next]_vars => Types' /\ Control' /\ BlockedIsAwaited'
  BY TypesStep, AwaitedStep
<1> QED BY <1>1, <1>2, PTL DEF Spec
================================================================================
