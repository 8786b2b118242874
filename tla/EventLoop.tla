----------------------------- MODULE EventLoop -----------------------------
(***************************************************************************)
(* The worker event loops (include/kvllay/event_loop.hpp), the commands     *)
(* whose effect reaches another connection, and the waiters of BRPOP        *)
(* (store.hpp, blocked_waiters_; commands.hpp, client_sinks_).              *)
(*                                                                         *)
(* A worker thread runs the commands of its connections one after another.  *)
(* BRPOP never stops it: the connection is marked as blocked and a waiter   *)
(* is left in the store; who pushes a value, or the eviction thread when    *)
(* the time is over, hands the answer to the sink of the connection, whose  *)
(* own worker moves it to the socket.                                       *)
(*                                                                         *)
(* Data abstraction.  Values are numbered as they are pushed.  A socket     *)
(* always takes what is written, so scratch_out_batch_, write_buf and the   *)
(* socket are one stream of replies.  There is one channel.                 *)
(***************************************************************************)
EXTENDS Integers, SequencesExt, Data

CONSTANTS
  Clients,     \* connections
  Workers,     \* WorkerEventLoops
  Home,        \* the worker of each connection
  Keys,        \* keys that hold lists
  Workload,    \* the commands each client may choose its next request from
  MayLeave,    \* the clients that may hang up
  Pipelining,  \* FALSE: a client sends when it has all its answers
  MaxQueued    \* MAX_QUEUED_COMMANDS

ASSUME HomeAssumption   == Clients # {} /\ Home \in [Clients -> Workers]
ASSUME WorkerAssumption == "evictor" \notin Workers /\ "none" \notin Workers
ASSUME FlagAssumption   == Pipelining \in BOOLEAN
ASSUME BoundsAssumption == MaxQueued \in Nat

Push(k, n)        == [op |-> "rpush", key |-> k, n |-> n]
Pop(k)            == [op |-> "rpop", key |-> k]
BlockingPop(ks, t) == [op |-> "brpop", keys |-> ks, timed |-> t]
Op(name)          == [op |-> name]

Command ==
  [op : {"rpush"}, key : Keys, n : Nat] \cup [op : {"rpop"}, key : Keys]
    \cup [op : {"brpop"}, keys : Seq(Keys) \ {<<>>}, timed : BOOLEAN]
    \cup [op : {"subscribe", "publish", "multi", "discard", "exec", "quit"}]

ASSUME WorkloadAssumption == Workload \in [Clients -> Seq(SUBSET Command)]

(* What a client may ever ask for. *)
Commands(c) == UNION ToSet(Workload[c])

MaxSent(c) == Len(Workload[c])  \* bound: requests of a client

Nothing == 0     \* a reply without a value of a list

VARIABLES
  sock,      \* requests sent and not yet read: <<id, command>>
  rbuf,      \* read_buf from read_offset on
  sent,      \* requests sent so far
  replies,   \* what each client is sent: id of the request, elements to come, value
  pending,   \* async_state->pending
  blocked,   \* is_blocked
  multi,     \* in_transaction
  queue,     \* transaction_queue
  open,      \* registered in connections_, clients_ and client_sinks_
  gone,      \* the peer has hung up
  subs,      \* the clients in subscriptions_
  list,      \* the lists
  issued,    \* values pushed so far
  waiters,   \* blocked_waiters_
  mutex,     \* the holder of blocked_mutex_
  pc,        \* where each worker is
  conn,      \* the connection it serves
  id,        \* the request it serves
  run,       \* the commands it has yet to run: one, or those of an EXEC
  tx,        \* whether they are those of an EXEC
  at,        \* how far it has got: <<waiter, key>>
  out,       \* answers taken out of the store or the channel, not yet delivered
  expired    \* the same for the eviction thread

net    == <<sock, rbuf, sent>>
peer   == <<open, gone, subs>>
txn    == <<multi, queue>>
store  == <<list, issued>>
task   == <<conn, id, run, tx>>
vars   == <<net, replies, pending, blocked, txn, peer, store, waiters, mutex,
            pc, task, at, out, expired>>

Init ==
  /\ sock = [c \in Clients |-> <<>>] /\ rbuf = [c \in Clients |-> <<>>]
  /\ sent = [c \in Clients |-> 0]
  /\ replies = [c \in Clients |-> <<>>] /\ pending = [c \in Clients |-> <<>>]
  /\ blocked = [c \in Clients |-> FALSE]
  /\ multi = [c \in Clients |-> FALSE] /\ queue = [c \in Clients |-> <<>>]
  /\ open = [c \in Clients |-> TRUE] /\ gone = [c \in Clients |-> FALSE]
  /\ subs = {}
  /\ list = [k \in Keys |-> <<>>] /\ issued = 0
  /\ waiters = <<>> /\ mutex = "none"
  /\ pc = [w \in Workers |-> "loop"]
  /\ conn = [w \in Workers |-> CHOOSE c \in Clients : TRUE]
  /\ id = [w \in Workers |-> 0] /\ run = [w \in Workers |-> <<>>]
  /\ tx = [w \in Workers |-> FALSE] /\ at = [w \in Workers |-> <<1, 1>>]
  /\ out = [w \in Workers |-> <<>>] /\ expired = <<>>

-----------------------------------------------------------------------------
(* Replies and the waiters. *)
Reply(i, left, v) == [id |-> i, left |-> left, value |-> v]
Message           == [id |-> 0, left |-> 0, value |-> Nothing]

Tell(w, left, v) ==
  replies' = [replies EXCEPT ![conn[w]] = Append(@, Reply(id[w], left, v))]

(* Mutant: nothing is taken off the list of waiters for a closed connection. *)
WithoutKept(c) == waiters

Without(c) == Filter(waiters, {x \in ToSet(waiters) : x.client # c})

(* Mutant: the value is read but stays in the list. *)
RestKept(k) == list

(* What rpop() leaves. *)
Rest(k) == [list EXCEPT ![k] = Front(@)]

Goto(w, where) == pc' = [pc EXCEPT ![w] = where]

(* To the next command of the EXEC, or of the connection. *)
Advance(w) ==
  /\ run' = [run EXCEPT ![w] = Tail(@)]
  /\ tx' = [tx EXCEPT ![w] = @ /\ Len(run[w]) > 1]
  /\ Goto(w, IF Len(run[w]) > 1 THEN "run" ELSE "parse")

Done(w, v) == Tell(w, Len(run[w]) - 1, v) /\ Advance(w)

Cmd(w) == Head(run[w])

-----------------------------------------------------------------------------
(* The clients. *)
Answered(c) == Len(SelectSeq(replies[c], LAMBDA r : r.id # 0 /\ r.left = 0)) >= sent[c]

Send(c) ==
  /\ open[c] /\ ~gone[c] /\ sent[c] < MaxSent(c)
  /\ Pipelining \/ Answered(c)
  /\ \E cmd \in Workload[c][sent[c] + 1] : sock' = [sock EXCEPT ![c] = Append(@, <<sent[c] + 1, cmd>>)]
  /\ sent' = [sent EXCEPT ![c] = @ + 1]
  /\ UNCHANGED <<rbuf, replies, pending, blocked, txn, peer, store, waiters,
                 mutex, pc, task, at, out, expired>>

Hangup(c) ==
  /\ c \in MayLeave /\ open[c] /\ ~gone[c]
  /\ gone' = [gone EXCEPT ![c] = TRUE]
  /\ UNCHANGED <<net, replies, pending, blocked, txn, open, subs, store, waiters,
                 mutex, pc, task, at, out, expired>>

-----------------------------------------------------------------------------
(* handle_read(): all there is to read, then the commands of the buffer.    *)
HandleRead(w) ==
  /\ pc[w] = "loop"
  /\ \E c \in Clients :
       /\ Home[c] = w /\ open[c] /\ sock[c] # <<>>
       /\ rbuf' = [rbuf EXCEPT ![c] = @ \o sock[c]]
       /\ sock' = [sock EXCEPT ![c] = <<>>]
       /\ conn' = [conn EXCEPT ![w] = c]
  /\ Goto(w, "parse")
  /\ UNCHANGED <<sent, replies, pending, blocked, txn, peer, store, waiters,
                 mutex, id, run, tx, at, out, expired>>

(* The loop stops at a command that blocks; what is left waits in read_buf. *)
ParseEnd(w) ==
  /\ pc[w] = "parse" /\ (blocked[conn[w]] \/ rbuf[conn[w]] = <<>>)
  /\ Goto(w, "loop")
  /\ UNCHANGED <<net, replies, pending, blocked, txn, peer, store, waiters,
                 mutex, task, at, out, expired>>

(* Mutant: the loop takes the next command of a blocked connection too. *)
TakeAny(w, ops) ==
  /\ pc[w] = "parse" /\ rbuf[conn[w]] # <<>>
  /\ Head(rbuf[conn[w]])[2].op \in ops
  /\ rbuf' = [rbuf EXCEPT ![conn[w]] = Tail(@)]
  /\ id' = [id EXCEPT ![w] = Head(rbuf[conn[w]])[1]]

Take(w, ops) ==
  /\ pc[w] = "parse" /\ rbuf[conn[w]] # <<>> /\ ~blocked[conn[w]]
  /\ Head(rbuf[conn[w]])[2].op \in ops
  /\ rbuf' = [rbuf EXCEPT ![conn[w]] = Tail(@)]
  /\ id' = [id EXCEPT ![w] = Head(rbuf[conn[w]])[1]]

Taken(w) == Head(rbuf[conn[w]])[2]

Acknowledge(w, left) ==
  replies' = [replies EXCEPT ![conn[w]] = Append(@, Reply(id'[w], left, Nothing))]

(* dispatch_connection_command(): QUIT, then MULTI, DISCARD and EXEC, then  *)
(* a command of a transaction, then any other.                              *)
Quit(w) ==
  /\ Take(w, {"quit"})
  /\ Acknowledge(w, 0)
  /\ multi' = [multi EXCEPT ![conn[w]] = FALSE]
  /\ queue' = [queue EXCEPT ![conn[w]] = <<>>]
  /\ Goto(w, "remove")
  /\ UNCHANGED <<sock, sent, pending, blocked, peer, store, waiters, mutex,
                 conn, run, tx, at, out, expired>>

(* An error for MULTI in a transaction and for DISCARD outside one. *)
Transaction(w) ==
  /\ Take(w, {"multi", "discard"})
  /\ Acknowledge(w, 0)
  /\ IF multi[conn[w]] = (Taken(w).op = "multi") THEN UNCHANGED txn
     ELSE /\ multi' = [multi EXCEPT ![conn[w]] = ~@]
          /\ queue' = [queue EXCEPT ![conn[w]] = <<>>]
  /\ UNCHANGED <<sock, sent, pending, blocked, peer, store, waiters, mutex,
                 pc, conn, run, tx, at, out, expired>>

(* The header of the array; then the commands, each by its own dispatch.    *)
(* Outside a transaction the queue is empty and the reply is an error.      *)
Exec(w) ==
  /\ Take(w, {"exec"})
  /\ LET commands == queue[conn[w]] IN
       /\ Acknowledge(w, Len(commands))
       /\ run' = [run EXCEPT ![w] = commands]
       /\ tx' = [tx EXCEPT ![w] = commands # <<>>]
       /\ Goto(w, IF commands = <<>> THEN "parse" ELSE "run")
  /\ multi' = [multi EXCEPT ![conn[w]] = FALSE]
  /\ queue' = [queue EXCEPT ![conn[w]] = <<>>]
  /\ UNCHANGED <<sock, sent, pending, blocked, peer, store, waiters, mutex,
                 conn, at, out, expired>>

Plain == {"rpush", "rpop", "brpop", "subscribe", "publish"}

(* Queued, or an error at the limit. *)
Queue(w) ==
  /\ Take(w, Plain) /\ multi[conn[w]]
  /\ IF Len(queue[conn[w]]) >= MaxQueued THEN UNCHANGED queue
     ELSE queue' = [queue EXCEPT ![conn[w]] = Append(@, Taken(w))]
  /\ Acknowledge(w, 0)
  /\ UNCHANGED <<sock, sent, pending, blocked, multi, peer, store, waiters, mutex,
                 pc, conn, run, tx, at, out, expired>>

Ordinary(w) ==
  /\ Take(w, Plain) /\ ~multi[conn[w]]
  /\ run' = [run EXCEPT ![w] = <<Taken(w)>>]
  /\ Goto(w, "run")
  /\ UNCHANGED <<sock, sent, replies, pending, blocked, txn, peer, store, waiters,
                 mutex, conn, tx, at, out, expired>>

Runs(w, name) == pc[w] = "run" /\ Cmd(w).op = name

(* RPUSH: all its values in one critical section of the shard, whose lock   *)
(* is released before the waiters are looked at.                            *)
RPush(w) ==
  /\ Runs(w, "rpush")
  /\ list' = [list EXCEPT ![Cmd(w).key] = @ \o [i \in 1 .. Cmd(w).n |-> issued + i]]
  /\ issued' = issued + Cmd(w).n
  /\ Goto(w, "notify")
  /\ UNCHANGED <<net, replies, pending, blocked, txn, peer, waiters, mutex,
                 task, at, out, expired>>

RPop(w) ==
  /\ Runs(w, "rpop")
  /\ LET k == Cmd(w).key IN
       IF list[k] = <<>> THEN Done(w, Nothing) /\ UNCHANGED list
       ELSE Done(w, Last(list[k])) /\ list' = Rest(k)
  /\ UNCHANGED <<net, pending, blocked, txn, peer, issued, waiters, mutex,
                 conn, id, at, out, expired>>

(* BRPOP tries its keys one after another, each under the lock of its shard. *)
TryPop(w) ==
  /\ Runs(w, "brpop")
  /\ LET k == Cmd(w).keys[at[w][2]]
         last == at[w][2] = Len(Cmd(w).keys) IN
       IF list[k] # <<>>
         THEN /\ Done(w, Last(list[k])) /\ list' = Rest(k)
              /\ at' = [at EXCEPT ![w] = <<1, 1>>]
         ELSE /\ at' = [at EXCEPT ![w] = IF last THEN <<1, 1>> ELSE <<1, @[2] + 1>>]
              /\ Goto(w, IF last THEN "register" ELSE "run")
              /\ UNCHANGED <<replies, run, tx, list>>
  /\ UNCHANGED <<net, pending, blocked, txn, peer, issued, waiters, mutex,
                 conn, id, out, expired>>

(* register_blocked_pop(): one waiter for each client.  An EXEC passes no   *)
(* is_blocked: the element of its array is left to come later.              *)
Register(w) ==
  /\ pc[w] = "register" /\ mutex = "none"
  /\ waiters' = Append(Without(conn[w]),
       [client |-> conn[w], id |-> id[w], left |-> Len(run[w]) - 1,
        keys |-> Cmd(w).keys, timed |-> Cmd(w).timed])
  /\ blocked' = [blocked EXCEPT ![conn[w]] = @ \/ ~tx[w]]
  /\ Advance(w)
  /\ UNCHANGED <<net, replies, pending, txn, peer, store, mutex,
                 conn, id, at, out, expired>>

(* notify_blocked_waiter_for_key(): under blocked_mutex_ the first waiter   *)
(* of the key whose pop succeeds is taken off the list, and only that one.  *)
Notify(w) ==
  /\ pc[w] = "notify" /\ mutex = "none"
  /\ mutex' = w
  /\ Goto(w, "scan")
  /\ UNCHANGED <<net, replies, pending, blocked, txn, peer, store, waiters,
                 task, at, out, expired>>

NextWaiter(w) == at' = [at EXCEPT ![w] = <<@[1] + 1, 1>>]

Skip(w) ==
  /\ pc[w] = "scan" /\ at[w][1] <= Len(waiters)
  /\ LET x == waiters[at[w][1]]
         watches == \E i \in DOMAIN x.keys : x.keys[i] = Cmd(w).key IN
       \/ ~watches /\ NextWaiter(w)
       \/ /\ watches /\ list[x.keys[at[w][2]]] = <<>>
          /\ IF at[w][2] = Len(x.keys) THEN NextWaiter(w)
             ELSE at' = [at EXCEPT ![w] = <<@[1], @[2] + 1>>]
  /\ UNCHANGED <<net, replies, pending, blocked, txn, peer, store, waiters,
                 mutex, pc, task, out, expired>>

Serve(w) ==
  /\ pc[w] = "scan" /\ at[w][1] <= Len(waiters)
  /\ LET x == waiters[at[w][1]]
         k == x.keys[at[w][2]] IN
       /\ \E i \in DOMAIN x.keys : x.keys[i] = Cmd(w).key
       /\ list[k] # <<>>
       /\ list' = Rest(k)
       /\ out' = [out EXCEPT ![w] = <<[to |-> x.client, what |-> Reply(x.id, x.left, Last(list[k]))]>>]
  /\ waiters' = RemoveAt(waiters, at[w][1])
  /\ mutex' = "none"
  /\ at' = [at EXCEPT ![w] = <<1, 1>>]
  /\ Goto(w, "deliver")
  /\ UNCHANGED <<net, replies, pending, blocked, txn, peer, issued, task, expired>>

NoneServed(w) ==
  /\ pc[w] = "scan" /\ at[w][1] > Len(waiters)
  /\ mutex' = "none"
  /\ at' = [at EXCEPT ![w] = <<1, 1>>]
  /\ Goto(w, "deliver")
  /\ UNCHANGED <<net, replies, pending, blocked, txn, peer, store, waiters,
                 task, out, expired>>

(* The sinks are called with no lock held; they outlive their connections.  *)
Deliver(w) ==
  /\ pc[w] = "deliver" /\ out[w] # <<>>
  /\ pending' = [pending EXCEPT ![Head(out[w]).to] = Append(@, Head(out[w]).what)]
  /\ out' = [out EXCEPT ![w] = Tail(@)]
  /\ UNCHANGED <<net, replies, blocked, txn, peer, store, waiters, mutex,
                 pc, task, at, expired>>

Delivered(w) ==
  /\ pc[w] = "deliver" /\ out[w] = <<>>
  /\ Done(w, Nothing)
  /\ UNCHANGED <<net, pending, blocked, txn, peer, store, waiters, mutex,
                 conn, id, at, out, expired>>

Subscribe(w) ==
  /\ Runs(w, "subscribe")
  /\ subs' = subs \cup {conn[w]}
  /\ Done(w, Nothing)
  /\ UNCHANGED <<net, pending, blocked, txn, open, gone, store, waiters, mutex,
                 conn, id, at, out, expired>>

(* publish_message(): the receivers are taken under pubsub_mutex_, in the   *)
(* order of a hash table, and the messages are delivered after its release. *)
Publish(w) ==
  /\ Runs(w, "publish")
  /\ \E order \in SetToSeqs(subs) :
       out' = [out EXCEPT ![w] =
         [i \in DOMAIN order |-> [to |-> order[i], what |-> Message]]]
  /\ Goto(w, "deliver")
  /\ UNCHANGED <<net, replies, pending, blocked, txn, peer, store, waiters, mutex,
                 task, at, expired>>

-----------------------------------------------------------------------------
(* Mutant: the connection stays blocked. *)
ProcessAsyncBlocked(w) ==
  /\ pc[w] = "loop"
  /\ \E c \in Clients :
       /\ Home[c] = w /\ open[c] /\ pending[c] # <<>>
       /\ replies' = [replies EXCEPT ![c] = @ \o pending[c]]
       /\ pending' = [pending EXCEPT ![c] = <<>>]
  /\ UNCHANGED <<net, blocked, txn, peer, store, waiters, mutex, pc, task, at, out, expired>>

(* process_async_messages(), after every round of events: whatever has come *)
(* ends the blocking; read_buf is not looked at.                            *)
ProcessAsync(w) ==
  /\ pc[w] = "loop"
  /\ \E c \in Clients :
       /\ Home[c] = w /\ open[c] /\ pending[c] # <<>>
       /\ replies' = [replies EXCEPT ![c] = @ \o pending[c]]
       /\ pending' = [pending EXCEPT ![c] = <<>>]
       /\ blocked' = [blocked EXCEPT ![c] = FALSE]
  /\ UNCHANGED <<net, txn, peer, store, waiters, mutex, pc, task, at, out, expired>>

(* A connection whose peer is gone: whether anything was left to be read    *)
(* depends on how it went.                                                  *)
Closed(w) ==
  /\ pc[w] = "loop"
  /\ \E c \in Clients :
       /\ Home[c] = w /\ open[c] /\ gone[c]
       /\ conn' = [conn EXCEPT ![w] = c]
  /\ Goto(w, "remove")
  /\ UNCHANGED <<net, replies, pending, blocked, txn, peer, store, waiters, mutex,
                 id, run, tx, at, out, expired>>

(* remove_connection() and unregister_client(). *)
RemoveConnection(w) ==
  /\ pc[w] = "remove" /\ mutex = "none"
  /\ waiters' = Without(conn[w])
  /\ open' = [open EXCEPT ![conn[w]] = FALSE]
  /\ subs' = subs \ {conn[w]}
  /\ Goto(w, "loop")
  /\ UNCHANGED <<net, replies, pending, blocked, txn, gone, store, mutex,
                 task, at, out, expired>>

(* Mutant: an expired waiter is dropped without an answer. *)
ExpireUnanswered ==
  /\ mutex = "none" /\ expired = <<>>
  /\ \E i \in DOMAIN waiters : waiters[i].timed /\ waiters' = RemoveAt(waiters, i)
  /\ UNCHANGED <<net, replies, pending, blocked, txn, peer, store, mutex,
                 pc, task, at, out, expired>>

(* check_blocked_pop_timeouts(), on the eviction thread: some deadlines     *)
(* have passed.  The answers are delivered after the mutex is released.     *)
Expire ==
  /\ mutex = "none" /\ expired = <<>>
  /\ \E late \in SUBSET {x \in ToSet(waiters) : x.timed} :
       /\ late # {}
       /\ expired' = Filter(waiters, late)
       /\ waiters' = Filter(waiters, ToSet(waiters) \ late)
  /\ UNCHANGED <<net, replies, pending, blocked, txn, peer, store, mutex,
                 pc, task, at, out>>

ExpireDeliver ==
  /\ expired # <<>>
  /\ LET x == Head(expired) IN
       pending' = [pending EXCEPT ![x.client] = Append(@, Reply(x.id, x.left, Nothing))]
  /\ expired' = Tail(expired)
  /\ UNCHANGED <<net, replies, blocked, txn, peer, store, waiters, mutex,
                 pc, task, at, out>>

-----------------------------------------------------------------------------
WorkerStep(w) ==
  \/ HandleRead(w) \/ ParseEnd(w)
  \/ Quit(w) \/ Transaction(w) \/ Exec(w) \/ Queue(w) \/ Ordinary(w)
  \/ RPush(w) \/ RPop(w) \/ TryPop(w) \/ Register(w)
  \/ Notify(w) \/ Skip(w) \/ Serve(w) \/ NoneServed(w) \/ Deliver(w) \/ Delivered(w)
  \/ Subscribe(w) \/ Publish(w)
  \/ ProcessAsync(w) \/ Closed(w) \/ RemoveConnection(w)

Next ==
  \/ \E c \in Clients : Send(c) \/ Hangup(c)
  \/ \E w \in Workers : WorkerStep(w)
  \/ Expire \/ ExpireDeliver

Spec == Init /\ [][Next]_vars

(* The threads run on and the eviction thread wakes up every 50 ms; clients *)
(* need do nothing.  A worker is handed every event that waits for it.      *)
Fairness ==
  /\ \A w \in Workers : WF_vars(WorkerStep(w)) /\ SF_vars(ProcessAsync(w))
  /\ WF_vars(Expire) /\ WF_vars(ExpireDeliver)

FairSpec == Spec /\ Fairness

-----------------------------------------------------------------------------
(* The replies a client is sent are those of its requests in their order:   *)
(* one for each, and for an EXEC its header followed by as many elements as *)
(* it announces.                                                            *)
Follows(r, q) ==
  IF r.left > 0 THEN q.id = r.id /\ q.left = r.left - 1 ELSE q.id = r.id + 1

InOrderFor(c) ==
  /\ replies[c] # <<>> => replies[c][1].id = 1
  /\ \A i \in 1 .. Len(replies[c]) - 1 : Follows(replies[c][i], replies[c][i + 1])

(* The same for the clients that neither subscribe nor queue a BRPOP, with  *)
(* answers that come from three threads.                                    *)
Ops(c) == {cmd.op : cmd \in Commands(c)}

Ordered(c) == "subscribe" \notin Ops(c) /\ ~({"multi", "brpop"} \subseteq Ops(c))

PlainInOrder == \A c \in Clients : Ordered(c) => InOrderFor(c)

(* Every value pushed is in one place: in its list, on its way to the one   *)
(* client it was taken for, or received; none is given out twice, none      *)
(* vanishes between the list and the sink.                                  *)
Values(s) == [i \in DOMAIN s |-> s[i].value]

Holders == ({"list"} \X Keys) \cup ({"pending", "replies"} \X Clients) \cup ({"out"} \X Workers)

Held == [h \in Holders |->
  CASE h[1] = "list"    -> list[h[2]]
    [] h[1] = "pending" -> Values(pending[h[2]])
    [] h[1] = "replies" -> Values(replies[h[2]])
    [] h[1] = "out"     -> [i \in DOMAIN out[h[2]] |-> out[h[2]][i].what.value]]

EachValueOnce == HeldOnce(Held, Holders, issued)

(* A blocked connection runs no command, so somebody has to know of it: a   *)
(* waiter, a thread about to call its sink, or an answer that has come.     *)
BlockedIsAwaited ==
  \A c \in Clients : open[c] /\ blocked[c] =>
    \/ \E i \in DOMAIN waiters : waiters[i].client = c
    \/ \E i \in DOMAIN expired : expired[i].client = c
    \/ \E w \in Workers : \E i \in DOMAIN out[w] : out[w][i].to = c
    \/ pending[c] # <<>>

(* No value is popped for a connection that was closed before: its waiter   *)
(* goes with it.  A client has one waiter at most.                          *)
WaitersAreLive ==
  \A i, j \in DOMAIN waiters :
    /\ open[waiters[i].client]
    /\ waiters[i].client = waiters[j].client => i = j

(* What documents and tests say and the code does not keep. *)

Quiet ==
  /\ \A w \in Workers : pc[w] = "loop"
  /\ expired = <<>> /\ \A c \in Clients : pending[c] = <<>>

(* tests/test_redis_compat_extended.py:89: a client that waits for a list   *)
(* gets what is pushed to it.  When every thread is through, no value lies  *)
(* in a list that somebody waits for.                                       *)
WaitersAreServed ==
  Quiet => \A i \in DOMAIN waiters : \A k \in ToSet(waiters[i].keys) : list[k] = <<>>

(* README.md:61: "Ordinary pipelined commands retain their request order."  *)
(* Messages of the channel apart, no reply overtakes that of an earlier     *)
(* request, whatever the client asks for.                                   *)
RequestOrderKept ==
  \A c \in Clients :
    LET answers == SelectSeq(replies[c], LAMBDA r : r.id # 0)
    IN  \A i, j \in DOMAIN answers : i < j => answers[i].id <= answers[j].id

(* README.md:61: EXEC "returns a RESP array".  What follows the header of   *)
(* an EXEC are its elements, all of them, before the next reply.            *)
ExecReturnsArray ==
  \A c \in Clients : \A i \in 1 .. Len(replies[c]) - 1 :
    replies[c][i].left > 0 => Follows(replies[c][i], replies[c][i + 1])

(* A BRPOP with a timeout ends: its connection is served again, or closed.  *)
TimedPopEnds ==
  \A c \in Clients :
    (\E i \in DOMAIN waiters : waiters[i].client = c /\ waiters[i].timed)
      ~> (~blocked[c] \/ ~open[c])
=============================================================================
