---------------------------- MODULE PubSubProofs ----------------------------
(***************************************************************************)
(* For any number of loops, of which any may not have started, and any     *)
(* number of sockets, channels and patterns: nothing stays open or         *)
(* registered behind Server::stop, each message of PUBLISH reaches each    *)
(* subscription that it matches once and in the order of its publisher,    *)
(* and no message overtakes the acknowledgement of its subscription.       *)
(*                                                                         *)
(* Inv is about threads and sockets and is proved first; Traffic is about  *)
(* replies and messages, and is inductive together with Inv.               *)
(***************************************************************************)
EXTENDS PubSub, DataLemmas

-----------------------------------------------------------------------------
(* The invariant.                                                          *)

Types ==
  /\ sock \in [Client -> {"new", "accepted", "pending", "open", "closed"}]
  /\ hand \in Client \cup {None}
  /\ robin \in Nat
  /\ home \in [Client -> 0 .. Loops]
  /\ queue \in [Loop -> Seq(Client)]
  /\ sinks \subseteq Client
  /\ subs = [c \in Client |-> subs[c]]
  /\ running \in [Loop -> BOOLEAN]
  /\ pc \in [Loop -> {"wait", "read", "deliver", "gone"}]
  /\ conn \in [Loop -> Client \cup {None}]
  /\ stopping \in 0 .. Loops + 1
  /\ joining \in BOOLEAN

\* The thread of the loop may run, or Server::stop is about to clean up after it.
Alive(l) == running[l] \/ (stopping = l /\ joining)

\* Server::stop goes through the loops in order, and joins one that ran.
Threads ==
  /\ \A l \in Loop : /\ pc[l] # "gone" => Alive(l)
                     /\ running[l] => stopping <= l
                     /\ stopping = l /\ joining => ~running[l]
  /\ joining => stopping \in Loop

\* A loop serves a connection of its own.
Serving ==
  \A l \in Loop : pc[l] \in {"read", "deliver"} =>
    conn[l] \in Client /\ sock[conn[l]] = "open" /\ home[conn[l]] = l

\* Who is registered has a socket that is open.
Registered ==
  \A c \in Client : /\ c \in sinks <=> sock[c] = "open"
                    /\ subs[c] # <<>> => c \in sinks

\* A socket that is not closed is in the hands of somebody who will close it,
\* or came too late.
OwnedSocket(c) ==
  /\ sock[c] = "open" => home[c] \in Loop /\ Alive(home[c])
  /\ sock[c] = "pending" => /\ home[c] \in Loop
                            /\ c \in ToSet(queue[home[c]])
                            /\ Alive(home[c]) \/ c \in late
  /\ sock[c] = "accepted" <=> hand = c

Owned ==
  /\ \A c \in Client : OwnedSocket(c)
  /\ \A l \in Loop : \A c \in ToSet(queue[l]) : sock[c] = "pending" /\ home[c] = l

Inv == Types /\ Threads /\ Serving /\ Registered /\ Owned

-----------------------------------------------------------------------------
(* Sequences and loops.                                                    *)

LEMMA EmptyQueue == ToSet(<<>>) = {}
BY DEF ToSet

LEMMA LongerQueue ==
  ASSUME NEW q \in Seq(Client), NEW c \in Client
  PROVE  Append(q, c) \in Seq(Client) /\ ToSet(Append(q, c)) = ToSet(q) \cup {c}
<1>1. /\ Append(q, c) \in Seq(Client)
      /\ Len(q) \in Nat /\ DOMAIN q = 1 .. Len(q)
      /\ DOMAIN Append(q, c) = 1 .. Len(q) + 1
      /\ \A i \in 1 .. Len(q) : Append(q, c)[i] = q[i]
      /\ Append(q, c)[Len(q) + 1] = c
  OBVIOUS
<1>2. 1 .. Len(q) + 1 = (1 .. Len(q)) \cup {Len(q) + 1}
  BY <1>1
<1>3. ASSUME NEW x
      PROVE  x \in ToSet(Append(q, c)) <=> x \in ToSet(q) \/ x = c
  <2>1. x \in ToSet(Append(q, c)) <=> \E i \in 1 .. Len(q) + 1 : x = Append(q, c)[i]
    BY <1>1, Zenon DEF ToSet
  <2>2. x \in ToSet(q) <=> \E i \in 1 .. Len(q) : x = q[i]
    BY <1>1, Zenon DEF ToSet
  <2> QED BY <1>1, <1>2, <2>1, <2>2, Zenon
<1> QED BY <1>1, <1>3, Zenon

LEMMA QueuedAreClients ==
  ASSUME Types, NEW l \in Loop
  PROVE  ToSet(queue[l]) \subseteq Client
<1>1. queue[l] \in Seq(Client)
  BY DEF Types
<1>2. \A i \in DOMAIN queue[l] : queue[l][i] \in Client
  BY <1>1
<1> QED BY <1>2, Zenon DEF ToSet

LEMMA NextInTurn ==
  ASSUME Types
  PROVE  (robin % Loops) + 1 \in Loop /\ robin + 1 \in Nat
BY LoopsAssumption DEF Types, Loop

-----------------------------------------------------------------------------
(* Every step keeps the invariant.                                         *)

LEMMA InitInv == Init => Inv
<1> SUFFICES ASSUME Init PROVE Inv
  OBVIOUS
<1> USE LoopsAssumption, NamesAssumption DEF Init
<1>1. Types
  <2>1. \A l \in Loop : <<>> \in Seq(Client)
    OBVIOUS
  <2>2. queue \in [Loop -> Seq(Client)] /\ subs = [c \in Client |-> subs[c]]
    BY <2>1 DEF Nobody
  <2>3. running \in [Loop -> BOOLEAN] /\ pc \in [Loop -> {"wait", "read", "deliver", "gone"}]
    OBVIOUS
  <2>4. stopping \in 0 .. Loops + 1 /\ robin \in Nat /\ home \in [Client -> 0 .. Loops]
    BY DEF Loop
  <2> QED BY <2>2, <2>3, <2>4 DEF Types
<1>2. Threads /\ Serving
  <2>1. PICK failed \in SUBSET Unreliable :
          /\ running = [l \in Loop |-> l \notin failed]
          /\ pc = [l \in Loop |-> IF l \in failed THEN "gone" ELSE "wait"]
    BY Zenon
  <2>2. ASSUME NEW l \in Loop
        PROVE  /\ running[l] = (l \notin failed)
               /\ pc[l] = IF l \in failed THEN "gone" ELSE "wait"
               /\ stopping <= l /\ stopping # l
    <3>1. running[l] = (l \notin failed)
      BY <2>1, Zenon
    <3>2. pc[l] = IF l \in failed THEN "gone" ELSE "wait"
      BY <2>1, Zenon
    <3>3. l \in Nat /\ l > 0
      BY DEF Loop
    <3> QED BY <3>1, <3>2, <3>3
  <2>3. Threads
    BY <2>2 DEF Threads, Alive
  <2>4. Serving
    BY <2>2 DEF Serving
  <2> QED BY <2>3, <2>4
<1>3. Registered
  BY DEF Registered, Nobody
<1>4. Owned
  BY EmptyQueue DEF Owned, OwnedSocket
<1> QED BY <1>1, <1>2, <1>3, <1>4 DEF Inv

\* What the commands of a connection have in common.
LEMMA ServeShape ==
  ASSUME Types, NEW l \in Loop, Serve(l)
  PROVE  /\ pc[l] \in {"read", "deliver"}
         /\ UNCHANGED <<accepting, sinks, running, stop>>
         /\ \E where \in {"wait", "read", "deliver"} : pc' = [pc EXCEPT ![l] = where]
         /\ conn' = conn \/ (conn' = [conn EXCEPT ![l] = None] /\ pc'[l] = "wait")
         /\ subs' = subs \/ \E ss : subs' = [subs EXCEPT ![conn[l]] = ss]
<1> USE DEF Types, Command, Goto, accepting, registry
<1>1. ASSUME pc[l] = "read" PROVE pc = [pc EXCEPT ![l] = "read"]
  BY <1>1
<1>2. ASSUME NEW ss, Subscribe(l, ss) \/ Unsubscribe(l, ss)
      PROVE  pc[l] = "read" /\ UNCHANGED <<accepting, sinks, running, stop, pc, conn>>
             /\ \E tt : subs' = [subs EXCEPT ![conn[l]] = tt]
  BY <1>2, Zenon DEF Subscribe, Unsubscribe
<1>3. ASSUME NEW kind, UnsubscribeAll(l, kind)
      PROVE  pc[l] = "read" /\ UNCHANGED <<accepting, sinks, running, stop, pc, conn>>
             /\ \E tt : subs' = [subs EXCEPT ![conn[l]] = tt]
  BY <1>3, Zenon DEF UnsubscribeAll
<1>4. ASSUME NEW ch, Publish(l, ch)
      PROVE  /\ pc[l] = "read" /\ UNCHANGED <<accepting, registry, running, stop, conn>>
             /\ pc' = [pc EXCEPT ![l] = "deliver"]
  BY <1>4, Zenon DEF Publish
<1>5. ASSUME Deliver(l)
      PROVE  pc[l] = "deliver" /\ UNCHANGED <<accepting, registry, running, stop, conn, pc>>
  BY <1>5, Zenon DEF Deliver
<1>6. ASSUME Published(l)
      PROVE  /\ pc[l] = "deliver" /\ UNCHANGED <<accepting, registry, running, stop, conn>>
             /\ pc' = [pc EXCEPT ![l] = "read"]
  BY <1>6, Zenon DEF Published
<1>7. ASSUME Flush(l)
      PROVE  /\ pc[l] = "read" /\ UNCHANGED <<accepting, registry, running, stop>>
             /\ pc' = [pc EXCEPT ![l] = "wait"]
             /\ conn' = [conn EXCEPT ![l] = None]
  BY <1>7, Zenon DEF Flush
<1>8. ASSUME pc[l] = "deliver" PROVE pc = [pc EXCEPT ![l] = "deliver"]
  BY <1>8
<1>9. pc[l] \in {"read", "deliver"} /\ UNCHANGED <<accepting, sinks, running, stop>>
  BY <1>2, <1>3, <1>4, <1>5, <1>6, <1>7, Zenon DEF Serve
<1>10. \E where \in {"wait", "read", "deliver"} : pc' = [pc EXCEPT ![l] = where]
  BY <1>1, <1>8, <1>2, <1>3, <1>4, <1>5, <1>6, <1>7, Zenon DEF Serve
<1>11. conn' = conn \/ (conn' = [conn EXCEPT ![l] = None] /\ pc'[l] = "wait")
  BY <1>2, <1>3, <1>4, <1>5, <1>6, <1>7 DEF Serve
<1>12. subs' = subs \/ \E ss : subs' = [subs EXCEPT ![conn[l]] = ss]
  BY <1>2, <1>3, <1>4, <1>5, <1>6, <1>7, Zenon DEF Serve
<1> QED BY <1>9, <1>10, <1>11, <1>12

LEMMA ServeKeeps ==
  ASSUME Inv, NEW l \in Loop, Serve(l)
  PROVE  Inv'
<1> USE DEF accepting, stop
<1>1. Types
  BY DEF Inv
<1>2. /\ pc[l] \in {"read", "deliver"}
      /\ UNCHANGED <<sock, hand, robin, home, queue, late, sinks, running, stopping, joining>>
      /\ conn' = conn \/ (conn' = [conn EXCEPT ![l] = None] /\ pc'[l] = "wait")
      /\ subs' = subs \/ \E ss : subs' = [subs EXCEPT ![conn[l]] = ss]
  BY <1>1, ServeShape
<1>3. PICK where \in {"wait", "read", "deliver"} : pc' = [pc EXCEPT ![l] = where]
  BY <1>1, ServeShape, Zenon
<1>4. conn[l] \in Client /\ sock[conn[l]] = "open" /\ home[conn[l]] = l
  BY <1>2 DEF Inv, Serving
<1>5. pc' \in [Loop -> {"wait", "read", "deliver", "gone"}] /\ conn' \in [Loop -> Client \cup {None}]
  BY <1>1, <1>2, <1>3 DEF Types
<1>6. \A m \in Loop : pc'[m] = IF m = l THEN where ELSE pc[m]
  BY <1>1, <1>3 DEF Types
<1>7. subs' = [c \in Client |-> subs'[c]] /\ \A c \in Client : c # conn[l] => subs'[c] = subs[c]
  BY <1>1, <1>2, <1>4 DEF Types
<1>8. Types'
  BY <1>1, <1>2, <1>5, <1>7 DEF Types
<1>9. Threads'
  BY <1>2, <1>6 DEF Inv, Threads, Alive
<1>10. Serving'
  <2> SUFFICES ASSUME NEW m \in Loop, pc'[m] \in {"read", "deliver"}
               PROVE  conn'[m] \in Client /\ sock'[conn'[m]] = "open" /\ home'[conn'[m]] = m
    BY DEF Serving
  <2>1. conn'[m] = conn[m]
    BY <1>1, <1>2 DEF Types
  <2>2. pc[m] \in {"read", "deliver"}
    BY <1>2, <1>6
  <2> QED BY <1>2, <2>1, <2>2 DEF Inv, Serving
<1>11. Registered'
  BY <1>2, <1>4, <1>7 DEF Inv, Registered
<1>12. Owned'
  BY <1>2 DEF Inv, Owned, OwnedSocket, Alive
<1> QED BY <1>8, <1>9, <1>10, <1>11, <1>12 DEF Inv

\* A socket on its way to a loop, which may have stopped.
LEMMA AcceptKeeps ==
  ASSUME Inv, NEW c \in Client, Accept(c)
  PROVE  Inv'
<1> USE DEF Inv, Accept, registry, serving, stop
<1>1. Types'
  BY DEF Types
<1>2. \A d \in Client : sock'[d] = IF d = c THEN "accepted" ELSE sock[d]
  BY DEF Types
<1>3. \A d \in Client : sock[d] # "accepted"
  BY NamesAssumption DEF Owned, OwnedSocket
<1>4. Threads'
  BY DEF Threads, Alive
<1>5. Serving'
  BY <1>2 DEF Serving
<1>6. Registered'
  BY <1>2 DEF Registered
<1>7. Owned'
  <2>1. \A l \in Loop : ToSet(queue[l]) \subseteq Client
    BY QueuedAreClients
  <2> QED BY <1>2, <1>3, <2>1 DEF Owned, OwnedSocket, Alive
<1> QED BY <1>1, <1>4, <1>5, <1>6, <1>7

LEMMA DispatchKeeps ==
  ASSUME Inv, Dispatch
  PROVE  Inv'
<1> USE DEF Inv, registry, serving, stop
<1> DEFINE l == (robin % Loops) + 1
<1>1. l \in Loop /\ l \in 0 .. Loops /\ robin + 1 \in Nat /\ hand \in Client /\ hand # None
  BY NextInTurn, LoopsAssumption DEF Types, Dispatch, Loop
<1>2. /\ home' = [home EXCEPT ![hand] = l]
      /\ queue' = [queue EXCEPT ![l] = Append(@, hand)]
      /\ late' = IF running[l] \/ (stopping = l /\ joining) THEN late ELSE late \cup {hand}
      /\ robin' = robin + 1
      /\ sock' = [sock EXCEPT ![hand] = "pending"]
      /\ hand' = None
      /\ UNCHANGED <<sinks, subs, running, pc, conn, stopping, joining>>
  BY DEF Dispatch
<1> HIDE DEF l
<1>3. /\ queue' \in [Loop -> Seq(Client)]
      /\ ToSet(queue'[l]) = ToSet(queue[l]) \cup {hand}
      /\ \A m \in Loop : m # l => queue'[m] = queue[m]
  <2>1. queue[l] \in Seq(Client) /\ queue'[l] = Append(queue[l], hand)
    BY <1>1, <1>2 DEF Types
  <2>2. Append(queue[l], hand) \in Seq(Client)
        /\ ToSet(Append(queue[l], hand)) = ToSet(queue[l]) \cup {hand}
    BY <1>1, <2>1, LongerQueue
  <2> QED BY <1>1, <1>2, <2>1, <2>2 DEF Types
<1>4. \A c \in Client : /\ sock'[c] = IF c = hand THEN "pending" ELSE sock[c]
                        /\ home'[c] = IF c = hand THEN l ELSE home[c]
  BY <1>1, <1>2 DEF Types
<1>5. sock[hand] = "accepted"
  BY <1>1 DEF Owned, OwnedSocket
<1>6. Types'
  BY <1>1, <1>2, <1>3 DEF Types
<1>7. Threads'
  BY <1>2 DEF Threads, Alive
<1>8. Serving'
  BY <1>2, <1>4, <1>5 DEF Serving
<1>9. Registered'
  BY <1>2, <1>4, <1>5 DEF Registered
<1>10. Owned'
  <2>1. ASSUME NEW c \in Client
        PROVE  OwnedSocket(c)'
    <3>1. CASE c = hand
      BY <1>1, <1>2, <1>3, <1>4, <3>1, NamesAssumption DEF OwnedSocket, Alive
    <3>2. CASE c # hand
      <4>1. sock'[c] = sock[c] /\ home'[c] = home[c]
        BY <1>4, <3>2
      <4>2. \A m \in Loop : ToSet(queue[m]) \subseteq ToSet(queue'[m])
        BY <1>3
      <4>3. late \subseteq late'
        BY <1>2
      <4> QED BY <1>2, <3>2, <4>1, <4>2, <4>3, NamesAssumption, SMTT(60) DEF Owned, OwnedSocket, Alive
    <3> QED BY <3>1, <3>2
  <2>2. ASSUME NEW m \in Loop, NEW c \in ToSet(queue'[m])
        PROVE  sock'[c] = "pending" /\ home'[c] = m
    <3>1. CASE c = hand
      <4>1. m = l
        <5> SUFFICES ASSUME m # l PROVE FALSE
          OBVIOUS
        <5>1. hand \in ToSet(queue[m])
          BY <1>3, <2>2, <3>1
        <5> QED BY <1>5, <5>1 DEF Owned, OwnedSocket
      <4> QED BY <1>1, <1>4, <3>1, <4>1
    <3>2. CASE c # hand
      <4>1. c \in ToSet(queue[m])
        BY <1>3, <2>2, <3>2
      <4>2. c \in Client
        BY <4>1, QueuedAreClients
      <4> QED BY <1>4, <3>2, <4>1, <4>2 DEF Owned, OwnedSocket
    <3> QED BY <3>1, <3>2
  <2> QED BY <2>1, <2>2 DEF Owned
<1> QED BY <1>6, <1>7, <1>8, <1>9, <1>10

LEMMA PendingKeeps ==
  ASSUME Inv, NEW l \in Loop, ProcessPending(l)
  PROVE  Inv'
<1> USE DEF Inv, serving, stop
<1>1. PICK ok \in SUBSET ToSet(queue[l]) :
        /\ sock' = [c \in Client |-> IF c \in ok THEN "open"
                                     ELSE IF c \in ToSet(queue[l]) THEN "closed"
                                     ELSE sock[c]]
        /\ sinks' = sinks \cup ok
  BY DEF ProcessPending
<1>2. /\ pc[l] = "wait"
      /\ queue' = [queue EXCEPT ![l] = <<>>]
      /\ UNCHANGED <<hand, robin, home, late, subs, running, pc, conn, stopping, joining>>
  BY DEF ProcessPending
<1>3. /\ ToSet(queue[l]) \subseteq Client
      /\ \A c \in ToSet(queue[l]) : sock[c] = "pending" /\ home[c] = l
      /\ Alive(l)
  BY <1>2, QueuedAreClients DEF Threads, Owned
<1>4. \A c \in Client : sock'[c] = IF c \in ok THEN "open"
                                   ELSE IF c \in ToSet(queue[l]) THEN "closed"
                                   ELSE sock[c]
  BY <1>1
<1>5. /\ queue' \in [Loop -> Seq(Client)]
      /\ ToSet(queue'[l]) = {}
      /\ \A m \in Loop : m # l => queue'[m] = queue[m]
  <2>1. <<>> \in Seq(Client)
    OBVIOUS
  <2>2. queue'[l] = <<>>
    BY <1>2 DEF Types
  <2> QED BY <1>2, <2>1, <2>2, EmptyQueue DEF Types
<1>6. Types'
  <2>1. sock' \in [Client -> {"new", "accepted", "pending", "open", "closed"}]
    BY <1>1 DEF Types
  <2> QED BY <1>1, <1>2, <1>3, <1>5, <2>1 DEF Types
<1>7. Threads'
  BY <1>2 DEF Threads, Alive
<1>8. Serving'
  BY <1>2, <1>3, <1>4 DEF Serving
<1>9. Registered'
  BY <1>1, <1>2, <1>3, <1>4 DEF Registered
<1>10. Owned'
  <2>1. ASSUME NEW c \in Client PROVE OwnedSocket(c)'
    <3>1. CASE c \in ToSet(queue[l])
      BY <1>2, <1>3, <1>4, <3>1 DEF Owned, OwnedSocket, Alive
    <3>2. CASE c \notin ToSet(queue[l])
      <4>1. sock'[c] = sock[c]
        BY <1>4, <3>2
      <4>2. sock[c] = "pending" => home[c] # l
        BY <3>2 DEF Owned, OwnedSocket
      <4> QED BY <1>2, <1>5, <4>1, <4>2 DEF Owned, OwnedSocket, Alive
    <3> QED BY <3>1, <3>2
  <2>2. ASSUME NEW m \in Loop, NEW c \in ToSet(queue'[m])
        PROVE  sock'[c] = "pending" /\ home'[c] = m
    <3>1. m # l /\ c \in ToSet(queue[m]) /\ c \in Client
      BY <1>5, <2>2, QueuedAreClients
    <3>2. c \notin ToSet(queue[l])
      BY <1>3, <3>1 DEF Owned
    <3> QED BY <1>2, <1>4, <3>1, <3>2 DEF Owned
  <2> QED BY <2>1, <2>2 DEF Owned
<1> QED BY <1>6, <1>7, <1>8, <1>9, <1>10

\* A loop begins a turn, writes its mail, or ends.
LEMMA TurnKeeps ==
  ASSUME Inv, NEW l \in Loop, ProcessAsync(l) \/ Exit(l) \/ \E c \in Client : Read(l, c)
  PROVE  Inv'
<1> USE DEF Inv, accepting, registry, serving, stop
<1>1. /\ UNCHANGED <<sock, hand, robin, home, queue, late, sinks, subs, running, stopping, joining>>
      /\ pc[l] = "wait"
  BY DEF ProcessAsync, Exit, Read
<1>2. \/ pc' = pc /\ conn' = conn
      \/ pc' = [pc EXCEPT ![l] = "gone"] /\ conn' = conn
      \/ \E c \in Client : /\ sock[c] = "open" /\ home[c] = l
                           /\ pc' = [pc EXCEPT ![l] = "read"]
                           /\ conn' = [conn EXCEPT ![l] = c]
  BY Zenon DEF ProcessAsync, Exit, Read, Goto
<1>3. /\ pc' \in [Loop -> {"wait", "read", "deliver", "gone"}]
      /\ conn' \in [Loop -> Client \cup {None}]
      /\ \A m \in Loop : m # l => pc'[m] = pc[m] /\ conn'[m] = conn[m]
      /\ pc'[l] \in {"read", "deliver"} =>
           conn'[l] \in Client /\ sock[conn'[l]] = "open" /\ home[conn'[l]] = l
  <2>1. CASE pc' = pc /\ conn' = conn
    BY <1>1, <2>1 DEF Types
  <2>2. CASE pc' = [pc EXCEPT ![l] = "gone"] /\ conn' = conn
    BY <2>2 DEF Types
  <2>3. ASSUME NEW c \in Client, sock[c] = "open", home[c] = l,
               pc' = [pc EXCEPT ![l] = "read"], conn' = [conn EXCEPT ![l] = c]
        PROVE  /\ pc' \in [Loop -> {"wait", "read", "deliver", "gone"}]
               /\ conn' \in [Loop -> Client \cup {None}]
               /\ \A m \in Loop : m # l => pc'[m] = pc[m] /\ conn'[m] = conn[m]
               /\ conn'[l] = c
    BY <2>3 DEF Types
  <2> QED BY <1>2, <2>1, <2>2, <2>3
<1>4. Types' /\ Threads'
  <2>1. Types'
    BY <1>1, <1>3 DEF Types
  <2>2. Threads'
    BY <1>1, <1>2 DEF Types, Threads, Alive
  <2> QED BY <2>1, <2>2
<1>5. Serving'
  BY <1>1, <1>3 DEF Serving
<1>6. Registered'
  BY <1>1 DEF Registered
<1>7. Owned'
  BY <1>1 DEF Owned, OwnedSocket, Alive
<1> QED BY <1>4, <1>5, <1>6, <1>7

\* Sockets cs of the loop l are closed and, if they are registered, unregistered.
LEMMA ClosingKeeps ==
  ASSUME Inv, NEW l \in Loop, pc[l] \in {"wait", "gone"},
         NEW cs \in SUBSET Client, \A c \in cs : home[c] = l,
         NEW rs \in SUBSET cs, \A c \in cs : sock[c] = "open" => c \in rs,
         \A c \in cs : sock[c] \in {"open", "pending"},
         Unregistered(rs),
         sock' = [c \in Client |-> IF c \in cs THEN "closed" ELSE sock[c]],
         UNCHANGED <<hand, robin, home, late, pc, conn>>
  PROVE  Serving' /\ Registered'
<1>1. \A c \in Client : sock'[c] = IF c \in cs THEN "closed" ELSE sock[c]
  OBVIOUS
<1>2. /\ sinks' = sinks \ rs
      /\ \A c \in Client : subs'[c] = IF c \in rs THEN <<>> ELSE subs[c]
  BY DEF Unregistered
<1>3. Serving'
  BY <1>1 DEF Inv, Serving
<1>4. Registered'
  BY <1>1, <1>2 DEF Inv, Registered
<1> QED BY <1>3, <1>4

LEMMA RemoveKeeps ==
  ASSUME Inv, NEW l \in Loop, NEW c \in Client, RemoveConnection(l, c)
  PROVE  Inv'
<1> USE DEF Inv, serving, stop
<1>1. /\ pc[l] = "wait" /\ sock[c] = "open" /\ home[c] = l
      /\ Unregistered({c})
      /\ sock' = [sock EXCEPT ![c] = "closed"]
      /\ UNCHANGED <<hand, robin, home, queue, late, running, pc, conn, stopping, joining>>
  BY DEF RemoveConnection, Mine
<1>2. sock' = [d \in Client |-> IF d \in {c} THEN "closed" ELSE sock[d]]
  BY <1>1 DEF Types
<1>3. Serving' /\ Registered'
  <2>1. {c} \in SUBSET Client /\ {c} \in SUBSET {c}
    OBVIOUS
  <2>2. \A d \in {c} : home[d] = l /\ sock[d] \in {"open", "pending"}
    BY <1>1
  <2> QED BY <1>1, <1>2, <2>1, <2>2, ClosingKeeps
<1>4. Types'
  <2>1. sinks' \subseteq Client /\ subs' = [d \in Client |-> subs'[d]]
    BY <1>1 DEF Unregistered, Types
  <2> QED BY <1>1, <2>1 DEF Types
<1>5. Threads'
  BY <1>1 DEF Threads, Alive
<1>6. Owned'
  <2>1. \A d \in Client : sock'[d] = IF d = c THEN "closed" ELSE sock[d]
    BY <1>2
  <2>2. \A m \in Loop : ToSet(queue[m]) \subseteq Client
    BY QueuedAreClients
  <2> QED BY <1>1, <2>1, <2>2 DEF Owned, OwnedSocket, Alive
<1> QED BY <1>3, <1>4, <1>5, <1>6

LEMMA StopLoopKeeps ==
  ASSUME Inv, NEW l \in Loop, StopLoop(l)
  PROVE  Inv'
<1> USE DEF Inv, accepting, registry, serving
<1>1. /\ stopping = l /\ ~joining
      /\ running' = [running EXCEPT ![l] = FALSE]
      /\ UNCHANGED <<sock, hand, robin, home, queue, late, sinks, subs, pc, conn>>
  BY DEF StopLoop
<1>2. \/ running[l] /\ joining' = TRUE /\ stopping' = l
      \/ ~running[l] /\ joining' = FALSE /\ stopping' = l + 1
  BY <1>1 DEF StopLoop, Types
<1>3. /\ running' \in [Loop -> BOOLEAN]
      /\ \A m \in Loop : running'[m] = (running[m] /\ m # l)
  BY <1>1 DEF Types
<1>4. l \in Nat /\ l + 1 \in 0 .. Loops + 1 /\ l \in 0 .. Loops + 1
  BY LoopsAssumption DEF Loop
<1>5. Types'
  BY <1>1, <1>2, <1>3, <1>4 DEF Types
<1>6. \A m \in Loop : m \in Nat /\ (l <= m /\ m # l => l + 1 <= m)
  BY <1>4 DEF Loop
<1>7. \A m \in Loop : Alive(m) <=> Alive(m)'
  BY <1>1, <1>2, <1>3 DEF Alive
<1>8. Threads'
  BY <1>1, <1>2, <1>3, <1>6, <1>7 DEF Threads
<1>9. Serving' /\ Registered'
  BY <1>1 DEF Serving, Registered
<1>10. Owned'
  BY <1>1, <1>7 DEF Owned, OwnedSocket
<1> QED BY <1>5, <1>8, <1>9, <1>10

LEMMA CloseLoopKeeps ==
  ASSUME Inv, NEW l \in Loop, CloseLoop(l)
  PROVE  Inv'
<1> USE DEF Inv, serving
<1> DEFINE cs == Mine(l) \cup ToSet(queue[l])
<1>1. /\ stopping = l /\ joining /\ pc[l] = "gone"
      /\ Unregistered(Mine(l))
      /\ sock' = [c \in Client |-> IF c \in cs THEN "closed" ELSE sock[c]]
      /\ queue' = [queue EXCEPT ![l] = <<>>]
      /\ joining' = FALSE /\ stopping' = l + 1
      /\ UNCHANGED <<hand, robin, home, late, running, pc, conn>>
  BY DEF CloseLoop
<1>2. /\ Mine(l) \in SUBSET cs /\ cs \in SUBSET Client
      /\ \A c \in cs : home[c] = l /\ sock[c] \in {"open", "pending"}
      /\ \A c \in cs : sock[c] = "open" => c \in Mine(l)
  BY QueuedAreClients DEF Owned, Mine
<1>3. \A c \in Client : sock[c] \in {"open", "pending"} /\ home[c] = l => c \in cs
  BY DEF Owned, OwnedSocket, Mine
<1> HIDE DEF cs
<1>4. Serving' /\ Registered'
  BY <1>1, <1>2, ClosingKeeps
<1>5. /\ queue' \in [Loop -> Seq(Client)]
      /\ ToSet(queue'[l]) = {}
      /\ \A m \in Loop : m # l => queue'[m] = queue[m]
  <2>1. <<>> \in Seq(Client)
    OBVIOUS
  <2>2. queue'[l] = <<>>
    BY <1>1 DEF Types
  <2> QED BY <1>1, <2>1, <2>2, EmptyQueue DEF Types
<1>6. l \in Nat /\ l + 1 \in 0 .. Loops + 1 /\ \A m \in Loop : m \in Nat /\ (l <= m /\ m # l => l + 1 <= m)
  BY LoopsAssumption DEF Loop
<1>7. Types'
  <2>1. sinks' \subseteq Client /\ subs' = [d \in Client |-> subs'[d]]
    BY <1>1 DEF Unregistered, Types
  <2>2. sock' \in [Client -> {"new", "accepted", "pending", "open", "closed"}]
    BY <1>1 DEF Types
  <2> QED BY <1>1, <1>5, <1>6, <2>1, <2>2 DEF Types
<1>8. \A m \in Loop : Alive(m)' <=> Alive(m) /\ m # l
  BY <1>1 DEF Threads, Alive
<1>9. Threads'
  BY <1>1, <1>6, <1>8 DEF Threads, Alive
<1>10. Owned'
  <2>1. \A c \in Client : sock'[c] = IF c \in cs THEN "closed" ELSE sock[c]
    BY <1>1
  <2>2. ASSUME NEW c \in Client PROVE OwnedSocket(c)'
    <3>1. CASE c \in cs
      BY <1>1, <1>2, <2>1, <3>1 DEF Owned, OwnedSocket
    <3>2. CASE c \notin cs
      BY <1>1, <1>3, <1>5, <1>8, <2>1, <3>2 DEF Owned, OwnedSocket
    <3> QED BY <3>1, <3>2
  <2>3. ASSUME NEW m \in Loop, NEW c \in ToSet(queue'[m])
        PROVE  sock'[c] = "pending" /\ home'[c] = m
    <3>1. m # l /\ c \in ToSet(queue[m]) /\ c \in Client
      BY <1>5, <2>3, QueuedAreClients
    <3>2. c \notin cs
      BY <1>2, <3>1 DEF Owned
    <3> QED BY <1>1, <2>1, <3>1, <3>2 DEF Owned
  <2> QED BY <2>2, <2>3 DEF Owned
<1> QED BY <1>4, <1>7, <1>9, <1>10

LEMMA StopKeeps ==
  ASSUME Inv, Stop
  PROVE  Inv'
<1> USE DEF Inv, accepting, registry, serving
<1>1. /\ stopping = 0 /\ stopping' = 1
      /\ UNCHANGED <<sock, hand, robin, home, queue, late, sinks, subs, running, pc, conn, joining>>
  BY DEF Stop
<1>2. ~joining /\ 1 \in 0 .. Loops + 1 /\ \A l \in Loop : l # 0 /\ 1 <= l
  BY <1>1, LoopsAssumption DEF Threads, Loop, Types
<1>3. \A l \in Loop : Alive(l)' <=> Alive(l)
  BY <1>1, <1>2 DEF Alive
<1>4. Types'
  BY <1>1, <1>2 DEF Types
<1>5. Threads'
  BY <1>1, <1>2, <1>3 DEF Threads
<1>6. Serving' /\ Registered'
  BY <1>1 DEF Serving, Registered
<1>7. Owned'
  BY <1>1, <1>3 DEF Owned, OwnedSocket
<1> QED BY <1>4, <1>5, <1>6, <1>7

LEMMA StutterKeeps ==
  ASSUME Inv, UNCHANGED vars
  PROVE  Inv'
<1> USE DEF vars, accepting, registry, serving, stop
<1>1. Types' /\ Threads'
  BY DEF Inv, Types, Threads, Alive
<1>2. Serving' /\ Registered' /\ Owned'
  BY DEF Inv, Serving, Registered, Owned, OwnedSocket, Alive
<1> QED BY <1>1, <1>2 DEF Inv

LEMMA NextInv == Inv /\ [Next]_vars => Inv'
<1> SUFFICES ASSUME Inv, [Next]_vars PROVE Inv'
  OBVIOUS
<1>1. CASE Dispatch
  BY <1>1, DispatchKeeps
<1>2. CASE Stop
  BY <1>2, StopKeeps
<1>3. ASSUME NEW c \in Client, Accept(c) PROVE Inv'
  BY <1>3, AcceptKeeps
<1>4. ASSUME NEW l \in Loop,
             ProcessPending(l) \/ ProcessAsync(l) \/ Exit(l) \/ \E c \in Client : Read(l, c)
      PROVE  Inv'
  BY <1>4, PendingKeeps, TurnKeeps
<1>5. ASSUME NEW l \in Loop, NEW c \in Client, RemoveConnection(l, c) PROVE Inv'
  BY <1>5, RemoveKeeps
<1>6. ASSUME NEW l \in Loop, Serve(l) PROVE Inv'
  BY <1>6, ServeKeeps
<1>7. ASSUME NEW l \in Loop, StopLoop(l) \/ CloseLoop(l) PROVE Inv'
  BY <1>7, StopLoopKeeps, CloseLoopKeeps
<1>8. CASE UNCHANGED vars
  BY <1>8, StutterKeeps
<1> QED BY <1>1, <1>2, <1>3, <1>4, <1>5, <1>6, <1>7, <1>8, Zenon DEF Next

-----------------------------------------------------------------------------
\* Behind Server::stop every socket is closed and no client is registered,
\* unless accept handed it to a loop that did not run any more.
THEOREM StopLeavesNothing == Spec => []StopClosesAll
<1>1. Inv => StopClosesAll
  <2> SUFFICES ASSUME Inv, stopping = Loops + 1, hand = None PROVE
          /\ sinks = {} /\ subs = Nobody
          /\ \A c \in Client : sock[c] \in {"new", "closed"} \/ c \in late
    BY DEF StopClosesAll
  <2>1. \A l \in Loop : ~Alive(l)
    <3>1. \A l \in Loop : l \in Nat /\ ~(Loops + 1 <= l) /\ Loops + 1 # l
      BY LoopsAssumption DEF Loop
    <3> QED BY <3>1 DEF Inv, Threads, Alive
  <2>2. \A c \in Client : sock[c] # "open" /\ sock[c] # "accepted"
                          /\ (sock[c] = "pending" => c \in late)
    BY <2>1, NamesAssumption DEF Inv, Owned, OwnedSocket
  <2>3. sinks = {} /\ \A c \in Client : subs[c] = <<>>
    BY <2>2 DEF Inv, Registered, Types
  <2>4. subs = Nobody
    BY <2>3 DEF Inv, Types, Nobody
  <2> QED BY <2>2, <2>3, <2>4 DEF Inv, Types
<1>2. QED
  BY InitInv, NextInv, <1>1, PTL DEF Spec

-----------------------------------------------------------------------------
(* The subscriptions of a connection. *)

LEMMA AddedIs ==
  ASSUME NEW S, NEW s \in Seq(S), NEW x \in S
  PROVE  /\ Added(s, x) \in Seq(S) /\ Elements(Added(s, x)) = Elements(s) \cup {x}
         /\ Distinct(s) => Distinct(Added(s, x))
<1>1. ToSet(s) = Elements(s)
  BY ElementsAre
<1>2. CASE x \in Elements(s)
  <2>1. Added(s, x) = s
    BY <1>1, <1>2 DEF Added
  <2> QED BY <1>2, <2>1
<1>3. CASE x \notin Elements(s)
  <2>1. Added(s, x) = Append(s, x)
    BY <1>1, <1>3 DEF Added
  <2>2. /\ Append(s, x) \in Seq(S) /\ Elements(Append(s, x)) = Elements(s) \cup {x}
        /\ Distinct(s) /\ x \notin Elements(s) => Distinct(Append(s, x))
    BY AppendElements
  <2> QED BY <1>3, <2>1, <2>2, Zenon
<1> QED BY <1>2, <1>3

LEMMA RemovedIs ==
  ASSUME NEW S, NEW s \in Seq(S), NEW x
  PROVE  /\ Removed(s, x) \in Seq(S) /\ Elements(Removed(s, x)) = Elements(s) \ {x}
         /\ Distinct(s) => Distinct(Removed(s, x))
<1>1. Removed(s, x) = Filter(s, Elements(s) \ {x})
  BY ElementsAre, Zenon DEF Removed
<1> DEFINE T == Elements(s) \ {x}
<1>2. /\ Filter(s, T) \in Seq(S) /\ Elements(Filter(s, T)) = Elements(s) \cap T
      /\ Distinct(s) => Distinct(Filter(s, T))
  BY FilterElements
<1> QED BY <1>1, <1>2

\* The subscriptions after each argument of SUBSCRIBE, and of UNSUBSCRIBE.
Adding(s, ss) ==
  CHOOSE f : f = [i \in 0 .. Len(ss) |-> IF i = 0 THEN s ELSE Added(f[i - 1], ss[i])]

Removing(s, ss) ==
  CHOOSE f : f = [i \in 0 .. Len(ss) |-> IF i = 0 THEN s ELSE Removed(f[i - 1], ss[i])]

LEMMA AddingIs ==
  ASSUME NEW S, NEW s \in Seq(S), Distinct(s), NEW ss \in Seq(S)
  PROVE  \A i \in 0 .. Len(ss) :
           /\ Adding(s, ss)[i] \in Seq(S) /\ Distinct(Adding(s, ss)[i])
           /\ Elements(Adding(s, ss)[i]) \subseteq Elements(s) \cup Elements(ss)
<1> DEFINE n == Len(ss)
           T == Seq(S)
           G == [p \in T \X (1 .. n) |-> Added(p[1], ss[p[2]])]
           Body(f) == [i \in 0 .. n |-> IF i = 0 THEN s ELSE Added(f[i - 1], ss[i])]
           h == Adding(s, ss)
<1>1. n \in Nat /\ \A i \in 1 .. n : ss[i] \in S /\ ss[i] \in Elements(ss)
  BY LenProperties DEF Elements
<1>2. ASSUME NEW t \in T, NEW x \in S
      PROVE  /\ Added(t, x) \in T /\ Elements(Added(t, x)) = Elements(t) \cup {x}
             /\ Distinct(t) => Distinct(Added(t, x))
  BY AddedIs
<1>3. s \in T
  OBVIOUS
<1> HIDE DEF T, n
<1>4. G \in [T \X (1 .. n) -> T] /\ \A t \in T, i \in 1 .. n : G[<<t, i>>] = Added(t, ss[i])
  BY <1>1, <1>2
<1> HIDE DEF G
<1>5. PICK f : Recursion(f, n, T, s, G)
  BY <1>1, <1>3, <1>4, RecursionExists
<1>6. f = Body(f)
  <2>1. \A i \in 0 .. n : f[i] = IF i = 0 THEN s ELSE Added(f[i - 1], ss[i])
    <3> TAKE i \in 0 .. n
    <3>1. CASE i = 0
      BY <1>5, <3>1 DEF Recursion
    <3>2. CASE i # 0
      <4>1. i \in 1 .. n /\ i - 1 \in 0 .. n
        BY <1>1, <3>2
      <4>2. f[i - 1] \in T /\ f[i] = G[<<f[i - 1], i>>]
        BY <1>5, <4>1 DEF Recursion
      <4> QED BY <1>4, <3>2, <4>1, <4>2
    <3> QED BY <3>1, <3>2
  <2>2. f = [i \in 0 .. n |-> f[i]]
    BY <1>5 DEF Recursion
  <2> QED BY <2>1, <2>2
<1>7. h = Body(h)
  <2>1. h = CHOOSE g : g = Body(g)
    BY DEF Adding, n
  <2> HIDE DEF h, Body
  <2> QED BY <1>6, <2>1
<1>8. h[0] = s /\ \A i \in 1 .. n : h[i] = Added(h[i - 1], ss[i])
  <2>1. \A g : Body(g)[0] = s /\ \A i \in 1 .. n : Body(g)[i] = Added(g[i - 1], ss[i])
    BY <1>1
  <2> HIDE DEF h, Body
  <2> QED BY <1>7, <2>1
<1> DEFINE Good(t) == t \in T /\ Distinct(t) /\ Elements(t) \subseteq Elements(s) \cup Elements(ss)
           P == {i \in 0 .. n : Good(h[i])}
<1> HIDE DEF h, Body
<1>9. 0 .. n \subseteq P
  <2>1. 0 \in P
    BY <1>1, <1>3, <1>8
  <2>2. ASSUME NEW i \in 1 .. n, i - 1 \in P PROVE i \in P
    <3>1. Good(h[i - 1]) /\ i \in 0 .. n
      BY <1>1, <2>2
    <3>2. h[i] = Added(h[i - 1], ss[i]) /\ ss[i] \in S /\ ss[i] \in Elements(ss)
      BY <1>1, <1>8
    <3>3. Good(h[i])
      BY <1>2, <3>1, <3>2
    <3> HIDE DEF Good
    <3> QED BY <3>1, <3>3
  <2> HIDE DEF P
  <2> QED BY <1>1, <2>1, <2>2, InductionUpTo
<1> QED BY <1>9 DEF T, n, h

LEMMA RemovingIs ==
  ASSUME NEW S, NEW s \in Seq(S), Distinct(s), NEW ss \in Seq(S)
  PROVE  \A i \in 0 .. Len(ss) :
           /\ Removing(s, ss)[i] \in Seq(S) /\ Distinct(Removing(s, ss)[i])
           /\ Elements(Removing(s, ss)[i]) \subseteq Elements(s)
<1> DEFINE n == Len(ss)
           T == Seq(S)
           G == [p \in T \X (1 .. n) |-> Removed(p[1], ss[p[2]])]
           Body(f) == [i \in 0 .. n |-> IF i = 0 THEN s ELSE Removed(f[i - 1], ss[i])]
           h == Removing(s, ss)
<1>1. n \in Nat
  BY LenProperties
<1>2. ASSUME NEW t \in T, NEW x
      PROVE  /\ Removed(t, x) \in T /\ Elements(Removed(t, x)) = Elements(t) \ {x}
             /\ Distinct(t) => Distinct(Removed(t, x))
  BY RemovedIs
<1>3. s \in T
  OBVIOUS
<1> HIDE DEF T, n
<1>4. G \in [T \X (1 .. n) -> T] /\ \A t \in T, i \in 1 .. n : G[<<t, i>>] = Removed(t, ss[i])
  BY <1>1, <1>2
<1> HIDE DEF G
<1>5. PICK f : Recursion(f, n, T, s, G)
  BY <1>1, <1>3, <1>4, RecursionExists
<1>6. f = Body(f)
  <2>1. \A i \in 0 .. n : f[i] = IF i = 0 THEN s ELSE Removed(f[i - 1], ss[i])
    <3> TAKE i \in 0 .. n
    <3>1. CASE i = 0
      BY <1>5, <3>1 DEF Recursion
    <3>2. CASE i # 0
      <4>1. i \in 1 .. n /\ i - 1 \in 0 .. n
        BY <1>1, <3>2
      <4>2. f[i - 1] \in T /\ f[i] = G[<<f[i - 1], i>>]
        BY <1>5, <4>1 DEF Recursion
      <4> QED BY <1>4, <3>2, <4>1, <4>2
    <3> QED BY <3>1, <3>2
  <2>2. f = [i \in 0 .. n |-> f[i]]
    BY <1>5 DEF Recursion
  <2> QED BY <2>1, <2>2
<1>7. h = Body(h)
  <2>1. h = CHOOSE g : g = Body(g)
    BY DEF Removing, n
  <2> HIDE DEF h, Body
  <2> QED BY <1>6, <2>1
<1>8. h[0] = s /\ \A i \in 1 .. n : h[i] = Removed(h[i - 1], ss[i])
  <2>1. \A g : Body(g)[0] = s /\ \A i \in 1 .. n : Body(g)[i] = Removed(g[i - 1], ss[i])
    BY <1>1
  <2> HIDE DEF h, Body
  <2> QED BY <1>7, <2>1
<1> DEFINE Good(t) == t \in T /\ Distinct(t) /\ Elements(t) \subseteq Elements(s)
           P == {i \in 0 .. n : Good(h[i])}
<1> HIDE DEF h, Body
<1>9. 0 .. n \subseteq P
  <2>1. 0 \in P
    BY <1>1, <1>3, <1>8
  <2>2. ASSUME NEW i \in 1 .. n, i - 1 \in P PROVE i \in P
    <3>1. Good(h[i - 1]) /\ i \in 0 .. n
      BY <1>1, <2>2
    <3>2. h[i] = Removed(h[i - 1], ss[i])
      BY <1>8
    <3>3. Good(h[i])
      BY <1>2, <3>1, <3>2
    <3> HIDE DEF Good
    <3> QED BY <3>1, <3>3
  <2> HIDE DEF P
  <2> QED BY <1>1, <2>1, <2>2, InductionUpTo
<1> QED BY <1>9 DEF T, n, h

-----------------------------------------------------------------------------
(* Frames, and streams of them. *)

Notice == [kind : {"ack"}, sub : Subscription, n : Nat] \cup [kind : {"reply"}, n : Nat]

News   == [kind : {"message"}, sub : Subscription, n : Nat]

Frame  == Notice \cup News

Letter == [to : Client, frame : News]

Post   == [by : Client, due : SUBSET (Client \X Subscription)]

IsNews(f) == f.kind = "message"

Messages(s) == {s[i] : i \in {j \in 1 .. Len(s) : IsNews(s[j])}}

\* No message is in the stream twice.
Once(s) == \A i, j \in 1 .. Len(s) : IsNews(s[i]) /\ s[i] = s[j] => i = j

\* The messages of one publisher are in the order of their numbers; posts[n] is
\* the n-th message that was published.
NotAfter(f, g, posts) == posts[f.n].by = posts[g.n].by => f.n <= g.n

InTurn(s, posts) ==
  \A i, j \in 1 .. Len(s) : i < j /\ IsNews(s[i]) /\ IsNews(s[j]) => NotAfter(s[i], s[j], posts)

AckIn(s, x) == \E f \in Elements(s) : f.kind = "ack" /\ f.sub = x

\* A message comes behind the acknowledgement of its subscription.
Preceded(s) ==
  \A j \in 1 .. Len(s) : IsNews(s[j]) =>
    \E i \in 1 .. j - 1 : s[i].kind = "ack" /\ s[i].sub = s[j].sub

LEMMA KindsOfFrames ==
  /\ \A f \in News : IsNews(f) /\ f \in Frame /\ f.sub \in Subscription /\ f.n \in Nat
  /\ \A f \in Notice : ~IsNews(f) /\ f \in Frame
  /\ \A f \in Frame : IsNews(f) => f \in News
BY DEF News, Notice, Frame, IsNews

LEMMA MessagesOfNews ==
  ASSUME NEW s \in Seq(News)
  PROVE  s \in Seq(Frame) /\ Messages(s) = Elements(s)
<1>1. \A i \in 1 .. Len(s) : s[i] \in News
  BY LenProperties
<1>2. s \in Seq(Frame)
  BY SeqMonotonic DEF Frame
<1> QED BY <1>1, <1>2, KindsOfFrames DEF Messages, Elements

LEMMA MessagesOfNotices ==
  ASSUME NEW s \in Seq(Notice)
  PROVE  s \in Seq(Frame) /\ Messages(s) = {} /\ Once(s) /\ \A posts : InTurn(s, posts)
<1>1. \A i \in 1 .. Len(s) : s[i] \in Notice
  BY LenProperties
<1>2. s \in Seq(Frame)
  BY SeqMonotonic DEF Frame
<1>3. \A i \in 1 .. Len(s) : ~IsNews(s[i])
  BY <1>1, KindsOfFrames
<1> QED BY <1>2, <1>3 DEF Messages, Once, InTurn

LEMMA ConcatMessages ==
  ASSUME NEW a \in Seq(Frame), NEW b \in Seq(Frame)
  PROVE  /\ Messages(a \o b) = Messages(a) \cup Messages(b)
         /\ Once(a \o b) <=> Once(a) /\ Once(b) /\ Messages(a) \cap Messages(b) = {}
<1> DEFINE c == a \o b
           m == Len(a)
<1>1. /\ m \in Nat /\ Len(b) \in Nat
      /\ \A i \in 1 .. m : i \in 1 .. Len(c) /\ c[i] = a[i]
      /\ \A j \in 1 .. Len(b) : m + j \in 1 .. Len(c) /\ c[m + j] = b[j]
      /\ \A k \in 1 .. Len(c) : k \in 1 .. m \/ \E j \in 1 .. Len(b) : k = m + j
  BY ConcatPlaces
<1>c. m = Len(a)
  OBVIOUS
<1> HIDE DEF c, m
<1>2. Messages(c) = Messages(a) \cup Messages(b)
  <2>1. ASSUME NEW k \in 1 .. Len(c), IsNews(c[k]) PROVE c[k] \in Messages(a) \cup Messages(b)
    <3>1. CASE k \in 1 .. m
      BY <1>1, <1>c, <2>1, <3>1 DEF Messages
    <3>2. CASE k \notin 1 .. m
      BY <1>1, <2>1, <3>2 DEF Messages
    <3> QED BY <3>1, <3>2
  <2>2. ASSUME NEW i \in 1 .. m, IsNews(a[i]) PROVE a[i] \in Messages(c)
    BY <1>1, <2>2 DEF Messages
  <2>3. ASSUME NEW j \in 1 .. Len(b), IsNews(b[j]) PROVE b[j] \in Messages(c)
    BY <1>1, <2>3 DEF Messages
  <2> QED BY <1>c, <2>1, <2>2, <2>3 DEF Messages
<1>3. ASSUME Once(a), Once(b), Messages(a) \cap Messages(b) = {} PROVE Once(c)
  <2> SUFFICES ASSUME NEW i \in 1 .. Len(c), NEW j \in 1 .. Len(c), IsNews(c[i]), c[i] = c[j]
               PROVE  i = j
    BY DEF Once
  <2>0. ASSUME NEW x \in 1 .. m, NEW y \in 1 .. Len(b), IsNews(a[x]) PROVE a[x] # b[y]
    BY <1>3, <1>c, <2>0 DEF Messages
  <2>1. CASE i \in 1 .. m /\ j \in 1 .. m
    BY <1>1, <1>3, <1>c, <2>1 DEF Once
  <2>2. CASE i \in 1 .. m /\ j \notin 1 .. m
    BY <1>1, <1>3, <2>0, <2>2
  <2>3. CASE i \notin 1 .. m /\ j \in 1 .. m
    BY <1>1, <1>3, <2>0, <2>3
  <2>4. CASE i \notin 1 .. m /\ j \notin 1 .. m
    BY <1>1, <1>3, <2>4 DEF Once
  <2> QED BY <2>1, <2>2, <2>3, <2>4
<1>4. ASSUME Once(c) PROVE Once(a) /\ Once(b) /\ Messages(a) \cap Messages(b) = {}
  <2>1. Once(a)
    BY <1>1, <1>4, <1>c DEF Once
  <2>2. Once(b)
    <3> SUFFICES ASSUME NEW i \in 1 .. Len(b), NEW j \in 1 .. Len(b), IsNews(b[i]), b[i] = b[j]
                 PROVE  i = j
      BY DEF Once
    <3>1. m + i \in 1 .. Len(c) /\ m + j \in 1 .. Len(c) /\ c[m + i] = b[i] /\ c[m + j] = b[j]
      BY <1>1
    <3>2. m + i = m + j
      BY <1>4, <3>1 DEF Once
    <3> QED BY <1>1, <3>2
  <2>3. ASSUME NEW i \in 1 .. m, NEW j \in 1 .. Len(b), IsNews(a[i]), a[i] = b[j] PROVE FALSE
    <3>1. i \in 1 .. Len(c) /\ m + j \in 1 .. Len(c) /\ c[i] = a[i] /\ c[m + j] = b[j]
      BY <1>1
    <3>2. i = m + j
      BY <1>4, <2>3, <3>1 DEF Once
    <3> QED BY <1>1, <3>2
  <2> QED BY <1>c, <2>1, <2>2, <2>3 DEF Messages
<1> QED BY <1>2, <1>3, <1>4 DEF c

LEMMA ConcatInTurn ==
  ASSUME NEW a \in Seq(Frame), NEW b \in Seq(Frame), NEW posts
  PROVE  InTurn(a \o b, posts) <=>
           /\ InTurn(a, posts) /\ InTurn(b, posts)
           /\ \A f \in Messages(a), g \in Messages(b) : NotAfter(f, g, posts)
<1> DEFINE c == a \o b
           m == Len(a)
<1>1. /\ m \in Nat /\ Len(b) \in Nat
      /\ \A i \in 1 .. m : i \in 1 .. Len(c) /\ c[i] = a[i]
      /\ \A j \in 1 .. Len(b) : m + j \in 1 .. Len(c) /\ c[m + j] = b[j]
      /\ \A k \in 1 .. Len(c) : k \in 1 .. m \/ \E j \in 1 .. Len(b) : k = m + j
  BY ConcatPlaces
<1>c. m = Len(a)
  OBVIOUS
<1> HIDE DEF c, m
<1>2. ASSUME InTurn(a, posts), InTurn(b, posts),
             \A f \in Messages(a), g \in Messages(b) : NotAfter(f, g, posts)
      PROVE  InTurn(c, posts)
  <2> SUFFICES ASSUME NEW i \in 1 .. Len(c), NEW j \in 1 .. Len(c), i < j, IsNews(c[i]), IsNews(c[j])
               PROVE  NotAfter(c[i], c[j], posts)
    BY DEF InTurn
  <2>1. CASE i \in 1 .. m /\ j \in 1 .. m
    BY <1>1, <1>2, <1>c, <2>1 DEF InTurn
  <2>2. CASE i \in 1 .. m /\ j \notin 1 .. m
    <3>1. PICK y \in 1 .. Len(b) : j = m + y
      BY <1>1, <2>2
    <3>2. c[i] \in Messages(a) /\ c[j] \in Messages(b)
      BY <1>1, <1>c, <2>2, <3>1 DEF Messages
    <3> QED BY <1>2, <3>2
  <2>3. CASE i \notin 1 .. m
    <3>1. PICK x \in 1 .. Len(b) : i = m + x
      BY <1>1, <2>3
    <3>2. j \notin 1 .. m
      BY <1>1, <3>1
    <3>3. PICK y \in 1 .. Len(b) : j = m + y
      BY <1>1, <3>2
    <3>4. x < y
      BY <1>1, <3>1, <3>3
    <3> QED BY <1>1, <1>2, <3>1, <3>3, <3>4 DEF InTurn
  <2> QED BY <2>1, <2>2, <2>3
<1>3. ASSUME InTurn(c, posts)
      PROVE  /\ InTurn(a, posts) /\ InTurn(b, posts)
             /\ \A f \in Messages(a), g \in Messages(b) : NotAfter(f, g, posts)
  <2>1. InTurn(a, posts)
    BY <1>1, <1>3, <1>c DEF InTurn
  <2>2. InTurn(b, posts)
    <3> SUFFICES ASSUME NEW i \in 1 .. Len(b), NEW j \in 1 .. Len(b), i < j, IsNews(b[i]), IsNews(b[j])
                 PROVE  NotAfter(b[i], b[j], posts)
      BY DEF InTurn
    <3>1. /\ m + i \in 1 .. Len(c) /\ m + j \in 1 .. Len(c) /\ m + i < m + j
          /\ c[m + i] = b[i] /\ c[m + j] = b[j]
      BY <1>1
    <3> QED BY <1>3, <3>1 DEF InTurn
  <2>3. ASSUME NEW i \in 1 .. m, NEW j \in 1 .. Len(b), IsNews(a[i]), IsNews(b[j])
        PROVE  NotAfter(a[i], b[j], posts)
    <3>1. /\ i \in 1 .. Len(c) /\ m + j \in 1 .. Len(c) /\ c[i] = a[i] /\ c[m + j] = b[j]
          /\ i < m + j
      BY <1>1
    <3> QED BY <1>3, <2>3, <3>1 DEF InTurn
  <2> QED BY <1>c, <2>1, <2>2, <2>3 DEF Messages
<1> QED BY <1>2, <1>3 DEF c

LEMMA ConcatPreceded ==
  ASSUME NEW a \in Seq(Frame), NEW b \in Seq(Frame)
  PROVE  Preceded(a) /\ (\A f \in Messages(b) : AckIn(a, f.sub)) => Preceded(a \o b)
<1> DEFINE c == a \o b
           m == Len(a)
<1>1. /\ m \in Nat /\ Len(b) \in Nat
      /\ \A i \in 1 .. m : i \in 1 .. Len(c) /\ c[i] = a[i]
      /\ \A j \in 1 .. Len(b) : m + j \in 1 .. Len(c) /\ c[m + j] = b[j]
      /\ \A k \in 1 .. Len(c) : k \in 1 .. m \/ \E j \in 1 .. Len(b) : k = m + j
  BY ConcatPlaces
<1>c. m = Len(a)
  OBVIOUS
<1> HIDE DEF c, m
<1> SUFFICES ASSUME Preceded(a), \A f \in Messages(b) : AckIn(a, f.sub),
                    NEW j \in 1 .. Len(c), IsNews(c[j])
             PROVE  \E i \in 1 .. j - 1 : c[i].kind = "ack" /\ c[i].sub = c[j].sub
  BY DEF c, Preceded
<1>2. CASE j \in 1 .. m
  <2>1. PICK i \in 1 .. j - 1 : a[i].kind = "ack" /\ a[i].sub = a[j].sub
    BY <1>1, <1>2, <1>c DEF Preceded
  <2>2. i \in 1 .. m
    BY <1>1, <1>2
  <2> QED BY <1>1, <1>2, <2>1, <2>2
<1>3. CASE j \notin 1 .. m
  <2>1. PICK y \in 1 .. Len(b) : j = m + y
    BY <1>1, <1>3
  <2>2. c[j] \in Messages(b)
    BY <1>1, <2>1 DEF Messages
  <2>3. PICK i \in 1 .. m : a[i].kind = "ack" /\ a[i].sub = c[j].sub
    BY <1>c, <2>2 DEF AckIn, Elements
  <2>4. i \in 1 .. j - 1
    BY <1>1, <2>1
  <2> QED BY <1>1, <2>3, <2>4
<1> QED BY <1>2, <1>3

LEMMA OneFrame ==
  ASSUME NEW f \in Frame
  PROVE  /\ <<f>> \in Seq(Frame) /\ Once(<<f>>) /\ \A posts : InTurn(<<f>>, posts)
         /\ Elements(<<f>>) = {f}
         /\ IsNews(f) => Messages(<<f>>) = {f}
BY DEF Once, InTurn, Messages, Elements

\* Replies in the middle of a stream change nothing for its messages.
LEMMA Insert ==
  ASSUME NEW a \in Seq(Frame), NEW b \in Seq(Frame), NEW ns \in Seq(Notice), NEW posts
  PROVE  /\ (a \o ns) \o b \in Seq(Frame) /\ Messages((a \o ns) \o b) = Messages(a \o b)
         /\ Once((a \o ns) \o b) <=> Once(a \o b)
         /\ InTurn((a \o ns) \o b, posts) <=> InTurn(a \o b, posts)
<1>1. ns \in Seq(Frame) /\ Messages(ns) = {} /\ Once(ns) /\ InTurn(ns, posts)
  BY MessagesOfNotices
<1>2. /\ a \o ns \in Seq(Frame) /\ Messages(a \o ns) = Messages(a)
      /\ Once(a \o ns) <=> Once(a)
      /\ InTurn(a \o ns, posts) <=> InTurn(a, posts)
  <2>1. /\ Messages(a \o ns) = Messages(a) \cup Messages(ns)
        /\ Once(a \o ns) <=> Once(a) /\ Once(ns) /\ Messages(a) \cap Messages(ns) = {}
    BY <1>1, ConcatMessages
  <2>2. InTurn(a \o ns, posts) <=>
          /\ InTurn(a, posts) /\ InTurn(ns, posts)
          /\ \A f \in Messages(a), g \in Messages(ns) : NotAfter(f, g, posts)
    BY <1>1, ConcatInTurn
  <2>3. a \o ns \in Seq(Frame)
    BY <1>1, ConcatProperties
  <2> QED BY <1>1, <2>1, <2>2, <2>3
<1>3. (a \o ns) \o b \in Seq(Frame)
  BY <1>2, ConcatProperties
<1> DEFINE t == a \o ns
<1>4. /\ t \in Seq(Frame) /\ Messages(t) = Messages(a)
      /\ Once(t) <=> Once(a)
      /\ InTurn(t, posts) <=> InTurn(a, posts)
  BY <1>2
<1> HIDE DEF t
<1>5. /\ Messages(t \o b) = Messages(a \o b)
      /\ Once(t \o b) <=> Once(a \o b)
  <2>1. /\ Messages(t \o b) = Messages(t) \cup Messages(b)
        /\ Once(t \o b) <=> Once(t) /\ Once(b) /\ Messages(t) \cap Messages(b) = {}
    BY <1>4, ConcatMessages
  <2>2. /\ Messages(a \o b) = Messages(a) \cup Messages(b)
        /\ Once(a \o b) <=> Once(a) /\ Once(b) /\ Messages(a) \cap Messages(b) = {}
    BY ConcatMessages
  <2> QED BY <1>4, <2>1, <2>2
<1>6. InTurn(t \o b, posts) <=> InTurn(a \o b, posts)
  <2>1. InTurn(t \o b, posts) <=>
          /\ InTurn(t, posts) /\ InTurn(b, posts)
          /\ \A f \in Messages(t), g \in Messages(b) : NotAfter(f, g, posts)
    BY <1>4, ConcatInTurn
  <2>2. InTurn(a \o b, posts) <=>
          /\ InTurn(a, posts) /\ InTurn(b, posts)
          /\ \A f \in Messages(a), g \in Messages(b) : NotAfter(f, g, posts)
    BY ConcatInTurn
  <2> QED BY <1>4, <2>1, <2>2
<1> QED BY <1>3, <1>5, <1>6, Zenon DEF t

LEMMA AckStays ==
  ASSUME NEW a \in Seq(Frame), NEW b \in Seq(Frame), NEW x
  PROVE  AckIn(a \o b, x) <=> AckIn(a, x) \/ AckIn(b, x)
BY ConcatElements DEF AckIn

-----------------------------------------------------------------------------
(* The letters that PUBLISH writes. *)

Told(c, s, n) == [to |-> c, frame |-> Message(s, n)]

LEMMA FramesAre ==
  ASSUME NEW c \in Client, subs[c] \in Seq(Subscription), Distinct(subs[c]), NEW ch, NEW n \in Nat
  PROVE  /\ Frames(c, ch, n) \in Seq(Letter) /\ Distinct(Frames(c, ch, n))
         /\ Elements(Frames(c, ch, n)) = {Told(c, s, n) : s \in {x \in Elements(subs[c]) : Hears(x, ch)}}
         /\ Frames(c, ch, n) = <<>> <=> \A x \in Elements(subs[c]) : ~Hears(x, ch)
<1> DEFINE H == {x \in Elements(subs[c]) : Hears(x, ch)}
           h == Filter(subs[c], H)
           F == [i \in DOMAIN h |-> [to |-> c, frame |-> Message(h[i], n)]]
<1>1. Frames(c, ch, n) = F
  <2>1. ToSet(subs[c]) = Elements(subs[c])
    BY ElementsAre
  <2> QED BY <2>1, Zenon DEF Frames
<1>2. /\ h \in Seq(Subscription) /\ Distinct(h)
      /\ Elements(h) = H
  <2>1. /\ h \in Seq(Subscription)
        /\ Elements(h) = Elements(subs[c]) \cap H
        /\ Distinct(subs[c]) => Distinct(h)
    BY FilterElements
  <2> QED BY <2>1
<1> HIDE DEF h
<1>3. /\ Len(h) \in Nat /\ DOMAIN h = 1 .. Len(h)
      /\ \A i \in 1 .. Len(h) : h[i] \in Subscription
  BY <1>2
<1>4. \A s \in Subscription : Told(c, s, n) \in Letter
  BY DEF Told, Letter, News, Message
<1>5. /\ F \in Seq(Letter) /\ Len(F) = Len(h)
      /\ \A i \in 1 .. Len(h) : F[i] = Told(c, h[i], n)
  <2>1. F = [i \in 1 .. Len(h) |-> Told(c, h[i], n)]
    BY <1>3, Zenon DEF Told
  <2> HIDE DEF F
  <2>2. \A i \in 1 .. Len(h) : F[i] = Told(c, h[i], n) /\ Told(c, h[i], n) \in Letter
    BY <1>3, <1>4, <2>1
  <2>3. F \in [1 .. Len(h) -> Letter]
    BY <2>1, <2>2
  <2> QED BY <1>3, <2>2, <2>3
<1> HIDE DEF F
<1>6. \A s, t : Told(c, s, n) = Told(c, t, n) => s = t
  BY DEF Told, Message
<1>7. Distinct(F)
  BY <1>2, <1>5, <1>6 DEF Distinct
<1>8. Elements(F) = {Told(c, s, n) : s \in H}
  <2>1. Elements(F) = {Told(c, h[i], n) : i \in 1 .. Len(h)}
    BY <1>5 DEF Elements
  <2> HIDE DEF H
  <2> QED BY <1>2, <2>1 DEF Elements
<1>9. F = <<>> <=> \A x \in Elements(subs[c]) : ~Hears(x, ch)
  <2>1. F = <<>> <=> Len(h) = 0
    BY <1>5, EmptySeq
  <2>2. Len(h) = 0 <=> Elements(h) = {}
    <3>1. Len(h) = 0 => Elements(h) = {}
      BY DEF Elements
    <3>2. Len(h) # 0 => h[1] \in Elements(h)
      BY <1>3 DEF Elements
    <3> QED BY <3>1, <3>2
  <2> QED BY <1>2, <2>1, <2>2
<1> QED BY <1>1, <1>5, <1>7, <1>8, <1>9

\* What Publish makes of the registry, part by part.
Listeners(ch, n) == {c \in sinks : Frames(c, ch, n) # <<>>}

DueTo(ch, n) ==
  UNION {{<<c, s>> : s \in {x \in ToSet(subs[c]) : Hears(x, ch)}} : c \in Listeners(ch, n)}

LettersIn(order, ch, n) == FlattenSeq([i \in DOMAIN order |-> Frames(order[i], ch, n)])

\* One letter for each subscription that matches, whatever the order of the
\* listeners.
LEMMA LettersAre ==
  ASSUME \A c \in Client : subs[c] \in Seq(Subscription) /\ Distinct(subs[c]),
         sinks \subseteq Client, IsFiniteSet(sinks), NEW ch, NEW n \in Nat,
         NEW order \in SetToSeqs(Listeners(ch, n))
  PROVE  /\ LettersIn(order, ch, n) \in Seq(Letter) /\ Distinct(LettersIn(order, ch, n))
         /\ DueTo(ch, n) = {d \in Client \X Subscription :
                              d[1] \in sinks /\ d[2] \in Elements(subs[d[1]]) /\ Hears(d[2], ch)}
         /\ Elements(LettersIn(order, ch, n)) = {Told(d[1], d[2], n) : d \in DueTo(ch, n)}
<1> DEFINE heard == {c \in sinks : Frames(c, ch, n) # <<>>}
           F == [i \in DOMAIN order |-> Frames(order[i], ch, n)]
           q == FlattenSeq(F)
           due == UNION {{<<c, s>> : s \in {x \in ToSet(subs[c]) : Hears(x, ch)}} : c \in heard}
           H(c) == {x \in Elements(subs[c]) : Hears(x, ch)}
<1>0. heard = Listeners(ch, n) /\ due = DueTo(ch, n) /\ q = LettersIn(order, ch, n)
  BY DEF Listeners, DueTo, LettersIn
<1>1. ASSUME NEW c \in Client
      PROVE  /\ Frames(c, ch, n) \in Seq(Letter) /\ Distinct(Frames(c, ch, n))
             /\ Elements(Frames(c, ch, n)) = {Told(c, s, n) : s \in H(c)}
             /\ Frames(c, ch, n) = <<>> <=> H(c) = {}
             /\ H(c) \subseteq Subscription
             /\ ToSet(subs[c]) = Elements(subs[c])
  <2>1. subs[c] \in Seq(Subscription) /\ Distinct(subs[c])
    OBVIOUS
  <2>2. /\ Frames(c, ch, n) \in Seq(Letter) /\ Distinct(Frames(c, ch, n))
        /\ Elements(Frames(c, ch, n)) = {Told(c, s, n) : s \in H(c)}
        /\ Frames(c, ch, n) = <<>> <=> \A x \in Elements(subs[c]) : ~Hears(x, ch)
    BY <2>1, FramesAre, Zenon
  <2>3. H(c) \subseteq Subscription
    BY <2>1, LenProperties DEF Elements
  <2>4. ToSet(subs[c]) = Elements(subs[c])
    BY <2>1, ElementsAre
  <2> QED BY <2>2, <2>3, <2>4
<1>2. heard \in SUBSET sinks /\ heard \in SUBSET Client /\ IsFiniteSet(heard)
  <2>1. heard \in SUBSET sinks
    OBVIOUS
  <2> QED BY <2>1, FS_Subset
<1>3. due = {d \in Client \X Subscription : d[1] \in sinks /\ d[2] \in Elements(subs[d[1]])
                                             /\ Hears(d[2], ch)}
  <2>1. \A c, s : <<c, s>> \in due <=> c \in heard /\ s \in ToSet(subs[c]) /\ Hears(s, ch)
    OBVIOUS
  <2>2. \A d \in due : \E c, s : d = <<c, s>> /\ c \in heard
    OBVIOUS
  <2> HIDE DEF due
  <2>3. ASSUME NEW c, NEW s
        PROVE  <<c, s>> \in due <=> c \in sinks /\ s \in H(c)
    BY <1>1, <1>2, <2>1
  <2>4. ASSUME NEW d \in due
        PROVE  d \in Client \X Subscription /\ d[1] \in sinks /\ d[2] \in Elements(subs[d[1]])
                                             /\ Hears(d[2], ch)
    <3>1. PICK c, s : d = <<c, s>> /\ c \in heard
      BY <2>2
    <3> QED BY <1>1, <1>2, <2>3, <3>1
  <2>5. ASSUME NEW d \in Client \X Subscription, d[1] \in sinks, d[2] \in Elements(subs[d[1]]),
               Hears(d[2], ch)
        PROVE  d \in due
    <3>1. PICK c \in Client, s \in Subscription : d = <<c, s>>
      BY <2>5
    <3> QED BY <2>3, <2>5, <3>1
  <2> QED BY <2>4, <2>5
<1>c. \A c, s : <<c, s>> \in due <=> c \in heard /\ s \in H(c)
  <2>1. \A c, s : <<c, s>> \in due <=> c \in heard /\ s \in ToSet(subs[c]) /\ Hears(s, ch)
    OBVIOUS
  <2> HIDE DEF due, heard
  <2> QED BY <1>1, <1>2, <2>1, ZenonT(60)
<1>4. order \in Seq(heard) /\ Distinct(order) /\ Elements(order) = heard
  BY <1>0, <1>2, OrderingIs
<1> HIDE DEF heard, due, H
<1>5. /\ Len(order) \in Nat /\ DOMAIN order = 1 .. Len(order)
      /\ \A i \in 1 .. Len(order) : order[i] \in heard /\ order[i] \in Client
  BY <1>2, <1>4
<1>6. /\ F \in Seq(Seq(Letter)) /\ Len(F) = Len(order)
      /\ \A i \in 1 .. Len(F) : F[i] = Frames(order[i], ch, n)
  <2>1. F = [i \in 1 .. Len(order) |-> Frames(order[i], ch, n)]
    BY <1>5
  <2> HIDE DEF F
  <2>2. \A i \in 1 .. Len(order) : F[i] = Frames(order[i], ch, n) /\ F[i] \in Seq(Letter)
    BY <1>1, <1>5, <2>1
  <2>3. F \in [1 .. Len(order) -> Seq(Letter)]
    BY <2>1, <2>2
  <2> QED BY <1>5, <2>2, <2>3
<1> HIDE DEF F
<1>7. \A c, e, s, t : Told(c, s, n) = Told(e, t, n) => c = e /\ s = t
  BY DEF Told, Message
<1>8. /\ \A i \in 1 .. Len(F) : Distinct(F[i])
      /\ \A i, j \in 1 .. Len(F) : i # j => Elements(F[i]) \cap Elements(F[j]) = {}
  <2>1. \A i \in 1 .. Len(F) : Distinct(F[i])
    BY <1>1, <1>5, <1>6
  <2>2. ASSUME NEW i \in 1 .. Len(F), NEW j \in 1 .. Len(F), i # j,
               NEW x \in Elements(F[i]), x \in Elements(F[j])
        PROVE  FALSE
    <3>1. order[i] # order[j]
      BY <1>4, <1>6, <2>2 DEF Distinct
    <3>2. PICK s : x = Told(order[i], s, n)
      BY <1>1, <1>5, <1>6, <2>2
    <3>3. PICK t : x = Told(order[j], t, n)
      BY <1>1, <1>5, <1>6, <2>2
    <3> QED BY <1>7, <3>1, <3>2, <3>3
  <2> QED BY <2>1, <2>2
<1>9. /\ q \in Seq(Letter) /\ Distinct(q)
      /\ Elements(q) = UNION {Elements(F[i]) : i \in 1 .. Len(F)}
  BY <1>6, <1>8, FlattenElements
<1>10. Elements(q) = {Told(d[1], d[2], n) : d \in due}
  <2> HIDE DEF q
  <2>1. ASSUME NEW x \in Elements(q) PROVE x \in {Told(d[1], d[2], n) : d \in due}
    <3>1. PICK i \in 1 .. Len(F) : x \in Elements(F[i])
      BY <1>9
    <3>2. PICK s \in H(order[i]) : x = Told(order[i], s, n)
      BY <1>1, <1>5, <1>6, <3>1
    <3>3. <<order[i], s>> \in due
      BY <1>c, <1>5, <1>6
    <3> QED BY <3>2, <3>3
  <2>2. ASSUME NEW d \in due PROVE Told(d[1], d[2], n) \in Elements(q)
    <3>1. PICK c \in Client, s \in Subscription : d = <<c, s>>
      BY <1>3
    <3>2. c \in heard /\ s \in H(c)
      BY <1>c, <3>1
    <3>3. PICK i \in 1 .. Len(order) : order[i] = c
      BY <1>4, <3>2 DEF Elements
    <3>4. Told(c, s, n) \in Elements(F[i])
      BY <1>1, <1>6, <3>2, <3>3
    <3> QED BY <1>6, <1>9, <3>1, <3>3, <3>4
  <2> QED BY <2>1, <2>2
<1> HIDE DEF q
<1> QED BY <1>0, <1>3, <1>9, <1>10

LEMMA LettersOf ==
  ASSUME NEW s \in Seq(Letter), NEW d \in Elements(s)
  PROVE  d \in Letter /\ d.to \in Client /\ d.frame \in News
<1>1. d \in Letter
  BY LenProperties DEF Elements
<1> QED BY <1>1 DEF Letter

-----------------------------------------------------------------------------
(* The invariant of the traffic.                                           *)

TrafficTypes ==
  /\ subs \in [Client -> Seq(Subscription)]
  /\ \A c \in Client : Distinct(subs[c])
  /\ IsFiniteSet(sinks)
  /\ out \in [Loop -> Seq(Notice)]
  /\ todo \in [Loop -> Seq(Letter)]
  /\ \A l \in Loop : Distinct(todo[l])
  /\ count \in [Loop -> Nat]
  /\ mail \in [Client -> Seq(News)]
  /\ wire \in [Client -> Seq(Frame)]
  /\ sent \in Seq(Post)

\* Replies are collected while a loop serves, letters while it delivers.
Busy ==
  \A l \in Loop : /\ out[l] # <<>> => pc[l] \in {"read", "deliver"}
                  /\ todo[l] # <<>> => pc[l] = "deliver"

\* The messages that the loops have yet to deliver to c, and those due to it.
Carried(c) == {f \in News : \E l \in Loop : [to |-> c, frame |-> f] \in Elements(todo[l])}

Owed(c) == {f \in News : f.n \in 1 .. Len(sent) /\ <<c, f.sub>> \in sent[f.n].due}

\* The loop has delivered or carries each message that is due, once.  To a socket
\* that is not open nothing is due; of a closed one nothing is known.
Single(c) ==
  sock[c] # "closed" =>
    /\ Once(Stream(c))
    /\ Messages(Stream(c)) \cap Carried(c) = {}
    /\ Messages(Stream(c)) \cup Carried(c) = Owed(c)
    /\ sock[c] # "open" => Owed(c) = {}

Numbered(c) == \A f \in Messages(Stream(c)) : f.n \in 1 .. Len(sent)

\* A loop delivers the latest message of the client it serves.
Latest(l, n) ==
  /\ n \in 1 .. Len(sent) /\ sent[n].by = conn[l]
  /\ \A m \in 1 .. Len(sent) : sent[m].by = conn[l] => m <= n

Newest(l) == \A d \in Elements(todo[l]) : Latest(l, d.frame.n)

\* The acknowledgement is on the wire, or in the batch of the loop that serves c.
Acked(c, x) == AckIn(wire[c], x) \/ \E l \in Loop : conn[l] = c /\ AckIn(out[l], x)

\* Whatever may become a message for c has its subscription acknowledged.
AllAcked ==
  /\ \A c \in Client : \A x \in Elements(subs[c]) : Acked(c, x)
  /\ \A c \in Client : \A f \in Elements(mail[c]) : Acked(c, f.sub)
  /\ \A l \in Loop : \A d \in Elements(todo[l]) : Acked(d.to, d.frame.sub)

EachOnce    == \A c \in Client : Single(c)

Orderly    == /\ \A c \in Client : Numbered(c) /\ InTurn(Stream(c), sent)
              /\ \A l \in Loop : Newest(l)

AckedBefore == AllAcked /\ \A c \in Client : Preceded(wire[c])

Traffic == TrafficTypes /\ Busy /\ EachOnce /\ Orderly /\ AckedBefore

LEMMA StreamIs ==
  ASSUME TrafficTypes, NEW c \in Client
  PROVE  /\ wire[c] \in Seq(Frame) /\ mail[c] \in Seq(Frame) /\ Stream(c) \in Seq(Frame)
         /\ Messages(Stream(c)) = Messages(wire[c]) \cup Elements(mail[c])
         /\ Messages(Stream(c)) \subseteq News
<1>1. wire[c] \in Seq(Frame) /\ mail[c] \in Seq(News)
  BY DEF TrafficTypes
<1>2. mail[c] \in Seq(Frame) /\ Messages(mail[c]) = Elements(mail[c])
  BY <1>1, MessagesOfNews
<1>3. Stream(c) \in Seq(Frame)
  BY <1>1, <1>2, ConcatProperties DEF Stream
<1>4. Messages(Stream(c)) = Messages(wire[c]) \cup Elements(mail[c])
  BY <1>1, <1>2, ConcatMessages DEF Stream
<1>5. Messages(Stream(c)) \subseteq News
  <2> SUFFICES ASSUME NEW i \in 1 .. Len(Stream(c)), IsNews(Stream(c)[i])
               PROVE  Stream(c)[i] \in News
    BY DEF Messages
  <2>1. Stream(c)[i] \in Frame
    BY <1>3, LenProperties
  <2> QED BY <2>1, KindsOfFrames
<1> QED BY <1>1, <1>2, <1>3, <1>4, <1>5

\* Two loops serve two clients, and carry different letters.
LEMMA OneServer ==
  ASSUME Inv, NEW l \in Loop, NEW m \in Loop, pc[l] \in {"read", "deliver"},
         pc[m] \in {"read", "deliver"}, conn[l] = conn[m]
  PROVE  l = m
BY DEF Inv, Serving

LEMMA OneCarrier ==
  ASSUME Inv, Traffic, NEW l \in Loop, NEW m \in Loop, NEW d \in Elements(todo[l]), d \in Elements(todo[m])
  PROVE  l = m
<1>1. Newest(l) /\ Newest(m)
  BY Zenon DEF Traffic, Orderly
<1>2. sent[d.frame.n].by = conn[l] /\ sent[d.frame.n].by = conn[m]
  BY <1>1 DEF Newest, Latest
<1>3. pc[l] = "deliver" /\ pc[m] = "deliver"
  BY EmptyElements DEF Traffic, Busy
<1> QED BY <1>2, <1>3, OneServer

LEMMA InitTraffic == Init => Traffic
<1> SUFFICES ASSUME Init PROVE Traffic
  OBVIOUS
<1>1. /\ sock = [c \in Client |-> "new"] /\ sinks = {} /\ subs = Nobody
      /\ out = [l \in Loop |-> <<>>] /\ todo = [l \in Loop |-> <<>>] /\ count = [l \in Loop |-> 0]
      /\ mail = Nobody /\ wire = Nobody /\ sent = <<>>
  BY Zenon DEF Init
<1>2. \A c \in Client : subs[c] = <<>> /\ mail[c] = <<>> /\ wire[c] = <<>> /\ sock[c] = "new"
  BY <1>1 DEF Nobody
<1>3. \A l \in Loop : out[l] = <<>> /\ todo[l] = <<>>
  BY <1>1
<1>4. \A S : <<>> \in Seq(S)
  BY EmptyElements
<1>5. TrafficTypes
  <2>1. subs \in [Client -> Seq(Subscription)] /\ mail \in [Client -> Seq(News)] /\ wire \in [Client -> Seq(Frame)]
    BY <1>1, <1>4 DEF Nobody
  <2>2. out \in [Loop -> Seq(Notice)] /\ todo \in [Loop -> Seq(Letter)] /\ count \in [Loop -> Nat]
    BY <1>1, <1>4
  <2>3. sent \in Seq(Post) /\ IsFiniteSet(sinks)
    BY <1>1, <1>4, FS_EmptySet
  <2>4. (\A c \in Client : Distinct(subs[c])) /\ \A l \in Loop : Distinct(todo[l])
    BY <1>2, <1>3, EmptyElements
  <2> QED BY <2>1, <2>2, <2>3, <2>4 DEF TrafficTypes
<1>6. Busy
  BY <1>3 DEF Busy
<1>7. ASSUME NEW c \in Client
      PROVE  Stream(c) = <<>> /\ Messages(Stream(c)) = {} /\ Carried(c) = {} /\ Owed(c) = {}
  <2>1. Stream(c) = <<>>
    BY <1>2, <1>4, ConcatEmptySeq DEF Stream
  <2>2. Messages(<<>>) = {}
    BY DEF Messages
  <2>3. Carried(c) = {}
    BY <1>3, EmptyElements DEF Carried
  <2>4. Owed(c) = {}
    BY <1>1 DEF Owed
  <2> QED BY <2>1, <2>2, <2>3, <2>4
<1>8. Once(<<>>) /\ InTurn(<<>>, sent) /\ Preceded(<<>>)
  BY DEF Once, InTurn, Preceded
<1>9. EachOnce
  BY <1>7, <1>8 DEF EachOnce, Single
<1>10. Orderly
  BY <1>3, <1>7, <1>8, EmptyElements DEF Orderly, Numbered, Newest
<1>11. AckedBefore
  BY <1>2, <1>3, <1>8, EmptyElements DEF AckedBefore, AllAcked
<1> QED BY <1>5, <1>6, <1>9, <1>10, <1>11 DEF Traffic

-----------------------------------------------------------------------------
(* Steps that move no frame. *)

Quiet ==
  /\ UNCHANGED <<out, todo, count, mail, wire, sent>>
  /\ subs' = [c \in Client |-> subs'[c]]
  /\ \A c \in Client : subs'[c] = subs[c] \/ subs'[c] = <<>>
  /\ IsFiniteSet(sinks')
  /\ \A l \in Loop : pc[l] = "wait" \/ (pc'[l] = pc[l] /\ conn'[l] = conn[l])
  /\ \A c \in Client : sock'[c] # "closed" => /\ sock[c] # "closed"
                                              /\ sock'[c] # "open" => sock[c] # "open"

LEMMA QuietKeeps ==
  ASSUME Traffic, Quiet
  PROVE  Traffic'
<1>1. /\ UNCHANGED <<out, todo, count, mail, wire, sent>>
      /\ subs' = [c \in Client |-> subs'[c]]
      /\ \A c \in Client : subs'[c] = subs[c] \/ subs'[c] = <<>>
      /\ IsFiniteSet(sinks')
      /\ \A l \in Loop : pc[l] = "wait" \/ (pc'[l] = pc[l] /\ conn'[l] = conn[l])
      /\ \A c \in Client : sock'[c] # "closed" => /\ sock[c] # "closed"
                                                  /\ sock'[c] # "open" => sock[c] # "open"
  BY Zenon DEF Quiet
<1>2. TrafficTypes'
  <2>1. subs' \in [Client -> Seq(Subscription)] /\ \A c \in Client : Distinct(subs'[c])
    <3>1. \A c \in Client : subs'[c] \in Seq(Subscription) /\ Distinct(subs'[c])
      BY <1>1, EmptyElements DEF Traffic, TrafficTypes
    <3> QED BY <1>1, <3>1
  <2> QED BY <1>1, <2>1 DEF Traffic, TrafficTypes
<1>3. Busy'
  BY <1>1 DEF Traffic, Busy
<1>4. EachOnce'
  <2> SUFFICES ASSUME NEW c \in Client PROVE Single(c)'
    BY DEF EachOnce
  <2>1. /\ Stream(c)' = Stream(c) /\ Carried(c)' = Carried(c) /\ Owed(c)' = Owed(c)
    BY <1>1, Zenon DEF Stream, Carried, Owed
  <2> QED BY <1>1, <2>1 DEF Traffic, EachOnce, Single
<1>5. Orderly'
  <2>1. ASSUME NEW c \in Client PROVE Numbered(c)' /\ InTurn(Stream(c), sent)'
    <3>1. Stream(c)' = Stream(c)
      BY <1>1, Zenon DEF Stream
    <3>2. Numbered(c) /\ InTurn(Stream(c), sent)
      BY DEF Traffic, Orderly
    <3> QED BY <1>1, <3>1, <3>2 DEF Numbered, InTurn
  <2>2. ASSUME NEW l \in Loop PROVE Newest(l)'
    <3>1. CASE pc[l] = "wait"
      <4>1. todo'[l] = <<>>
        BY <1>1, <3>1 DEF Traffic, Busy
      <4> QED BY <4>1, EmptyElements DEF Newest
    <3>2. CASE conn'[l] = conn[l]
      BY <1>1, <3>2 DEF Traffic, Orderly, Newest, Latest
    <3> QED BY <1>1, <3>1, <3>2
  <2> QED BY <2>1, <2>2 DEF Orderly
<1>6. AckedBefore'
  <2>1. ASSUME NEW c, NEW x, Acked(c, x) PROVE Acked(c, x)'
    <3>1. CASE AckIn(wire[c], x)
      BY <1>1, <3>1 DEF Acked
    <3>2. CASE \E l \in Loop : conn[l] = c /\ AckIn(out[l], x)
      <4>1. PICK l \in Loop : conn[l] = c /\ AckIn(out[l], x)
        BY <3>2
      <4>2. out[l] # <<>>
        BY <4>1, EmptyElements DEF AckIn
      <4>3. conn'[l] = c
        BY <1>1, <4>1, <4>2 DEF Traffic, Busy
      <4> QED BY <1>1, <4>1, <4>3 DEF Acked
    <3> QED BY <2>1, <3>1, <3>2 DEF Acked
  <2>2. \A c \in Client : \A x \in Elements(subs'[c]) : x \in Elements(subs[c])
    BY <1>1, EmptyElements
  <2> HIDE DEF Acked
  <2>3. AllAcked'
    BY <1>1, <2>1, <2>2 DEF Traffic, AckedBefore, AllAcked
  <2>4. \A c \in Client : Preceded(wire'[c])
    BY <1>1 DEF Traffic, AckedBefore
  <2> QED BY <2>3, <2>4 DEF AckedBefore
<1> QED BY <1>2, <1>3, <1>4, <1>5, <1>6 DEF Traffic

LEMMA SubsAre == Traffic => subs = [c \in Client |-> subs[c]] /\ IsFiniteSet(sinks)
BY DEF Traffic, TrafficTypes

LEMMA QueuedPending ==
  ASSUME Inv, NEW l \in Loop, NEW c \in ToSet(queue[l])
  PROVE  c \in Client /\ sock[c] = "pending"
BY QueuedAreClients DEF Inv, Owned

LEMMA AcceptIsQuiet ==
  ASSUME Inv, Traffic, NEW c \in Client, Accept(c)
  PROVE  Quiet
<1>1. /\ sock[c] = "new" /\ sock' = [sock EXCEPT ![c] = "accepted"]
      /\ UNCHANGED <<registry, serving, mail, wire, sent>>
  BY Zenon DEF Accept
<1>2. \A d \in Client : sock'[d] = IF d = c THEN "accepted" ELSE sock[d]
  BY <1>1 DEF Inv, Types
<1> QED BY <1>1, <1>2, SubsAre DEF Quiet, registry, serving

LEMMA DispatchIsQuiet ==
  ASSUME Inv, Traffic, Dispatch
  PROVE  Quiet
<1>1. /\ hand # None /\ sock' = [sock EXCEPT ![hand] = "pending"]
      /\ UNCHANGED <<registry, serving, mail, wire, sent>>
  BY Zenon DEF Dispatch
<1>2. hand \in Client /\ sock[hand] = "accepted"
  BY <1>1 DEF Inv, Types, Owned, OwnedSocket
<1>3. \A d \in Client : sock'[d] = IF d = hand THEN "pending" ELSE sock[d]
  BY <1>1 DEF Inv, Types
<1> QED BY <1>1, <1>2, <1>3, SubsAre DEF Quiet, registry, serving

LEMMA PendingIsQuiet ==
  ASSUME Inv, Traffic, NEW l \in Loop, ProcessPending(l), IsFiniteSet(sinks')
  PROVE  Quiet
<1>1. PICK ok \in SUBSET ToSet(queue[l]) :
        sock' = [c \in Client |-> IF c \in ok THEN "open"
                                     ELSE IF c \in ToSet(queue[l]) THEN "closed"
                                     ELSE sock[c]]
  BY Zenon DEF ProcessPending
<1>2. UNCHANGED <<subs, serving, mail, wire, sent>>
  BY Zenon DEF ProcessPending
<1>3. \A c \in Client : sock'[c] # "closed" => /\ sock[c] # "closed"
                                               /\ sock'[c] # "open" => sock[c] # "open"
  BY <1>1, QueuedPending
<1> QED BY <1>2, <1>3, SubsAre DEF Quiet, serving

LEMMA FiniteSinks ==
  ASSUME Inv, Traffic, NEW l \in Loop, ProcessPending(l)
  PROVE  IsFiniteSet(sinks')
<1>1. PICK ok \in SUBSET ToSet(queue[l]) : sinks' = sinks \cup ok
  BY Zenon DEF ProcessPending
<1>2. IsFiniteSet(ok)
  <2>1. queue[l] \in Seq(Client)
    BY DEF Inv, Types
  <2>2. IsFiniteSet(ToSet(queue[l]))
    BY <2>1, FiniteElements
  <2> QED BY <2>2, FS_Subset
<1>3. IsFiniteSet(sinks)
  BY SubsAre
<1> QED BY <1>1, <1>2, <1>3, FS_Union

LEMMA ReadIsQuiet ==
  ASSUME Inv, Traffic, NEW l \in Loop, NEW c \in Client, Read(l, c)
  PROVE  Quiet
<1>1. /\ pc[l] = "wait" /\ pc' = [pc EXCEPT ![l] = "read"] /\ conn' = [conn EXCEPT ![l] = c]
      /\ UNCHANGED <<sock, sinks, subs, out, todo, count, mail, wire, sent>>
  BY Zenon DEF Read, Goto, accepting, registry
<1>2. \A m \in Loop : m # l => pc'[m] = pc[m] /\ conn'[m] = conn[m]
  BY <1>1 DEF Inv, Types
<1> QED BY <1>1, <1>2, SubsAre DEF Quiet

LEMMA ExitIsQuiet ==
  ASSUME Inv, Traffic, NEW l \in Loop, Exit(l)
  PROVE  Quiet
<1>1. /\ pc[l] = "wait" /\ pc' = [pc EXCEPT ![l] = "gone"]
      /\ UNCHANGED <<sock, sinks, subs, conn, out, todo, count, mail, wire, sent>>
  BY Zenon DEF Exit, Goto, accepting, registry
<1>2. \A m \in Loop : m # l => pc'[m] = pc[m]
  BY <1>1 DEF Inv, Types
<1> QED BY <1>1, <1>2, SubsAre DEF Quiet

LEMMA ClosingIsQuiet ==
  ASSUME Traffic, NEW cs, Unregistered(cs), UNCHANGED <<serving, mail, wire, sent>>,
         \A c \in Client : sock'[c] # "closed" => sock'[c] = sock[c]
  PROVE  Quiet
<1>1. sinks' = sinks \ cs /\ subs' = [c \in Client |-> IF c \in cs THEN <<>> ELSE subs[c]]
  BY DEF Unregistered
<1>2. IsFiniteSet(sinks')
  <2>1. sinks' \in SUBSET sinks
    BY <1>1
  <2> QED BY <2>1, SubsAre, FS_Subset
<1>3. subs' = [c \in Client |-> subs'[c]] /\ \A c \in Client : subs'[c] = subs[c] \/ subs'[c] = <<>>
  BY <1>1
<1> QED BY <1>2, <1>3 DEF Quiet, serving

LEMMA StillIsQuiet ==
  ASSUME Traffic, UNCHANGED <<sock, registry, serving, mail, wire, sent>>
  PROVE  Quiet
BY SubsAre DEF Quiet, registry, serving

-----------------------------------------------------------------------------
(* Steps that add replies to the batch of a loop. *)

\* The loop l adds the replies ns to its batch; the client it serves may get new
\* subscriptions, which are acknowledged, and lose others.
Telling(l, ns) ==
  /\ pc[l] \in {"read", "deliver"} /\ pc' = [pc EXCEPT ![l] = "read"] /\ todo[l] = <<>>
  /\ out' = [out EXCEPT ![l] = @ \o ns]
  /\ UNCHANGED <<sock, sinks, conn, todo, count, mail, wire, sent>>
  /\ subs' \in [Client -> Seq(Subscription)]
  /\ \A c \in Client : Distinct(subs'[c])
  /\ \A c \in Client : \A x \in Elements(subs'[c]) :
       x \in Elements(subs[c]) \/ (c = conn[l] /\ AckIn(ns, x))

LEMMA TellingKeeps ==
  ASSUME Traffic, pc \in [Loop -> {"wait", "read", "deliver", "gone"}],
         NEW l \in Loop, NEW ns \in Seq(Notice), Telling(l, ns)
  PROVE  Traffic'
<1>1. /\ pc[l] \in {"read", "deliver"} /\ pc' = [pc EXCEPT ![l] = "read"] /\ todo[l] = <<>>
      /\ out' = [out EXCEPT ![l] = @ \o ns]
      /\ UNCHANGED <<sock, sinks, conn, todo, count, mail, wire, sent>>
  BY Zenon DEF Telling
<1>2. /\ subs' \in [Client -> Seq(Subscription)]
      /\ \A c \in Client : Distinct(subs'[c])
      /\ \A c \in Client : \A x \in Elements(subs'[c]) :
           x \in Elements(subs[c]) \/ (c = conn[l] /\ AckIn(ns, x))
  BY Zenon DEF Telling
<1>3. /\ out[l] \in Seq(Notice) /\ out[l] \in Seq(Frame) /\ ns \in Seq(Frame)
      /\ out'[l] = out[l] \o ns /\ out[l] \o ns \in Seq(Notice)
      /\ \A m \in Loop : m # l => out'[m] = out[m]
  <2>1. out \in [Loop -> Seq(Notice)]
    BY DEF Traffic, TrafficTypes
  <2>2. out[l] \in Seq(Notice) /\ out'[l] = out[l] \o ns
    BY <1>1, <2>1
  <2>3. out[l] \in Seq(Frame) /\ ns \in Seq(Frame)
    BY <2>2, MessagesOfNotices
  <2>4. out[l] \o ns \in Seq(Notice)
    BY <2>2, ConcatProperties
  <2> QED BY <1>1, <2>1, <2>2, <2>3, <2>4
<1>4. TrafficTypes'
  <2>1. out' \in [Loop -> Seq(Notice)]
    BY <1>1, <1>3 DEF Traffic, TrafficTypes
  <2> QED BY <1>1, <1>2, <2>1 DEF Traffic, TrafficTypes
<1>5. Busy'
  <2> SUFFICES ASSUME NEW m \in Loop
               PROVE  /\ out'[m] # <<>> => pc'[m] \in {"read", "deliver"}
                      /\ todo'[m] # <<>> => pc'[m] = "deliver"
    BY DEF Busy
  <2>1. CASE m = l
    BY <1>1, <2>1
  <2>2. CASE m # l
    BY <1>1, <1>3, <2>2 DEF Traffic, Busy
  <2> QED BY <2>1, <2>2
<1>6. EachOnce'
  <2> SUFFICES ASSUME NEW c \in Client PROVE Single(c)'
    BY DEF EachOnce
  <2>1. /\ Stream(c)' = Stream(c) /\ Carried(c)' = Carried(c) /\ Owed(c)' = Owed(c)
    BY <1>1, Zenon DEF Stream, Carried, Owed
  <2> QED BY <1>1, <2>1 DEF Traffic, EachOnce, Single
<1>7. Orderly'
  <2>1. ASSUME NEW c \in Client PROVE Numbered(c)' /\ InTurn(Stream(c), sent)'
    <3>1. Stream(c)' = Stream(c)
      BY <1>1, Zenon DEF Stream
    <3>2. Numbered(c) /\ InTurn(Stream(c), sent)
      BY DEF Traffic, Orderly
    <3> QED BY <1>1, <3>1, <3>2 DEF Numbered, InTurn
  <2>2. ASSUME NEW m \in Loop PROVE Newest(m)'
    <3>1. todo' = todo /\ conn' = conn /\ sent' = sent
      BY <1>1
    <3>2. Newest(m)
      BY Zenon DEF Traffic, Orderly
    <3> QED BY <3>1, <3>2 DEF Newest, Latest
  <2> QED BY <2>1, <2>2 DEF Orderly
<1>8. AckedBefore'
  <2>1. ASSUME NEW c, NEW x, Acked(c, x) PROVE Acked(c, x)'
    <3>1. CASE AckIn(wire[c], x)
      BY <1>1, <3>1 DEF Acked
    <3>2. CASE \E m \in Loop : conn[m] = c /\ AckIn(out[m], x)
      <4>1. PICK m \in Loop : conn[m] = c /\ AckIn(out[m], x)
        BY <3>2
      <4>2. AckIn(out'[m], x)
        <5>1. CASE m = l
          <6>1. AckIn(out[l], x)
            BY <4>1, <5>1
          <6>2. AckIn(out[l] \o ns, x)
            BY <1>3, <6>1, AckStays
          <6> QED BY <1>3, <5>1, <6>2
        <5>2. CASE m # l
          BY <1>3, <4>1, <5>2
        <5> QED BY <5>1, <5>2
      <4> QED BY <1>1, <4>1, <4>2 DEF Acked
    <3> QED BY <2>1, <3>1, <3>2 DEF Acked
  <2>2. ASSUME NEW c, c = conn[l], NEW x, AckIn(ns, x) PROVE Acked(c, x)'
    <3>1. AckIn(out'[l], x)
      BY <1>3, <2>2, AckStays
    <3> QED BY <1>1, <2>2, <3>1 DEF Acked
  <2> HIDE DEF Acked
  <2>3. ASSUME NEW c \in Client, NEW x \in Elements(subs'[c]) PROVE Acked(c, x)'
    <3>1. CASE x \in Elements(subs[c])
      <4>1. Acked(c, x)
        BY <3>1 DEF Traffic, AckedBefore, AllAcked
      <4> QED BY <2>1, <4>1
    <3>2. CASE x \notin Elements(subs[c])
      <4>1. c = conn[l] /\ AckIn(ns, x)
        BY <1>2, <2>3, <3>2
      <4> QED BY <2>2, <4>1
    <3> QED BY <3>1, <3>2
  <2>4. \A c \in Client : \A f \in Elements(mail'[c]) : Acked(c, f.sub)'
    BY <1>1, <2>1 DEF Traffic, AckedBefore, AllAcked
  <2>5. \A m \in Loop : \A d \in Elements(todo'[m]) : Acked(d.to, d.frame.sub)'
    BY <1>1, <2>1 DEF Traffic, AckedBefore, AllAcked
  <2>6. \A c \in Client : Preceded(wire'[c])
    BY <1>1 DEF Traffic, AckedBefore
  <2> QED BY <2>3, <2>4, <2>5, <2>6 DEF AckedBefore, AllAcked
<1> QED BY <1>4, <1>5, <1>6, <1>7, <1>8 DEF Traffic

LEMMA SubscribeTells ==
  ASSUME Inv, Traffic, NEW l \in Loop, NEW ss \in Arguments, Subscribe(l, ss)
  PROVE  \E ns \in Seq(Notice) : Telling(l, ns)
<1>1. PICK b \in Client : b = conn[l]
  BY Zenon DEF Subscribe, Command, Inv, Serving
<1> DEFINE h == Adding(subs[b], ss)
           ns == [i \in DOMAIN ss |-> Ack(ss[i], Len(h[i]))]
<1>2. /\ pc[l] = "read"
      /\ subs' = [subs EXCEPT ![b] = h[Len(ss)]]
      /\ out' = [out EXCEPT ![l] = @ \o ns]
      /\ UNCHANGED <<sock, sinks, pc, conn, todo, count, mail, wire, sent>>
  <2>1. /\ pc[l] = "read"
        /\ subs' = [subs EXCEPT ![conn[l]] = Adding(subs[conn[l]], ss)[Len(ss)]]
        /\ out' = [out EXCEPT ![l] = @ \o [i \in DOMAIN ss |-> Ack(ss[i], Len(Adding(subs[conn[l]], ss)[i]))]]
        /\ UNCHANGED <<sock, sinks, pc, conn, todo, count, mail, wire, sent>>
    BY Zenon DEF Subscribe, Command, Tell, accepting, Adding
  <2> QED BY <1>1, <2>1
<1>3. subs \in [Client -> Seq(Subscription)] /\ Distinct(subs[b]) /\ ss \in Seq(Subscription)
  BY ArgumentsAssumption DEF Traffic, TrafficTypes
<1>4. subs[b] \in Seq(Subscription) /\ Len(ss) \in Nat /\ DOMAIN ss = 1 .. Len(ss)
  BY <1>3, LenProperties
<1>5. \A i \in 0 .. Len(ss) :
        /\ h[i] \in Seq(Subscription) /\ Distinct(h[i])
        /\ Elements(h[i]) \subseteq Elements(subs[b]) \cup Elements(ss)
  BY <1>3, <1>4, AddingIs
<1> HIDE DEF h
<1>6. /\ ns \in Seq(Notice) /\ Len(ns) = Len(ss)
      /\ \A i \in 1 .. Len(ss) : ns[i] = Ack(ss[i], Len(h[i]))
  <2>1. ASSUME NEW i \in 1 .. Len(ss) PROVE Ack(ss[i], Len(h[i])) \in Notice
    <3>1. i \in 0 .. Len(ss) /\ ss[i] \in Subscription
      BY <1>3, <1>4
    <3>2. Len(h[i]) \in Nat
      BY <1>5, <3>1, LenProperties
    <3> QED BY <3>1, <3>2 DEF Ack, Notice
  <2>2. ns = [i \in 1 .. Len(ss) |-> Ack(ss[i], Len(h[i]))]
    BY <1>4
  <2> HIDE DEF ns
  <2>3. ns \in [1 .. Len(ss) -> Notice]
    BY <2>1, <2>2
  <2>4. \A i \in 1 .. Len(ss) : ns[i] = Ack(ss[i], Len(h[i]))
    BY <2>2
  <2> QED BY <1>4, <2>3, <2>4
<1> HIDE DEF ns
<1>7. ASSUME NEW x \in Elements(ss) PROVE AckIn(ns, x)
  <2>1. PICK i \in 1 .. Len(ss) : x = ss[i]
    BY DEF Elements
  <2>2. ns[i] \in Elements(ns) /\ ns[i] = Ack(x, Len(h[i]))
    BY <1>6, <2>1 DEF Elements
  <2> QED BY <2>2 DEF AckIn, Ack
<1>8. /\ subs' \in [Client -> Seq(Subscription)]
      /\ \A c \in Client : Distinct(subs'[c])
      /\ \A c \in Client : \A x \in Elements(subs'[c]) :
           x \in Elements(subs[c]) \/ (c = conn[l] /\ AckIn(ns, x))
  <2>1. Len(ss) \in 0 .. Len(ss)
    BY <1>4
  <2>2. /\ h[Len(ss)] \in Seq(Subscription) /\ Distinct(h[Len(ss)])
        /\ Elements(h[Len(ss)]) \subseteq Elements(subs[b]) \cup Elements(ss)
    BY <1>5, <2>1
  <2>3. \A c \in Client : subs'[c] = IF c = b THEN h[Len(ss)] ELSE subs[c]
    BY <1>2, <1>3
  <2>4. \A c \in Client : Distinct(subs'[c])
    BY <2>2, <2>3 DEF Traffic, TrafficTypes
  <2>5. subs' \in [Client -> Seq(Subscription)]
    BY <1>2, <1>3, <2>2
  <2>6. ASSUME NEW c \in Client, NEW x \in Elements(subs'[c])
        PROVE  x \in Elements(subs[c]) \/ (c = conn[l] /\ AckIn(ns, x))
    BY <1>1, <1>7, <2>2, <2>3, <2>6
  <2> QED BY <2>4, <2>5, <2>6
<1>9. pc' = [pc EXCEPT ![l] = "read"] /\ todo[l] = <<>>
  <2>1. pc = [m \in Loop |-> pc[m]]
    BY DEF Inv, Types
  <2>2. todo[l] = <<>>
    BY <1>2 DEF Traffic, Busy
  <2> QED BY <1>2, <2>1, <2>2
<1> QED BY <1>2, <1>6, <1>8, <1>9, Zenon DEF Telling

\* Subscriptions are only lost.
LEMMA LosingTells ==
  ASSUME Inv, Traffic, NEW l \in Loop, NEW b \in Client, NEW rest \in Seq(Subscription), Distinct(rest),
         Elements(rest) \subseteq Elements(subs[b]), NEW ns \in Seq(Notice),
         pc[l] = "read",
         subs' = [subs EXCEPT ![b] = rest],
         out' = [out EXCEPT ![l] = @ \o ns],
         UNCHANGED <<sock, sinks, pc, conn, todo, count, mail, wire, sent>>
  PROVE  Telling(l, ns)
<1>1. subs \in [Client -> Seq(Subscription)] /\ \A c \in Client : Distinct(subs[c])
  BY DEF Traffic, TrafficTypes
<1>2. \A c \in Client : subs'[c] = IF c = b THEN rest ELSE subs[c]
  BY <1>1
<1>3. subs' \in [Client -> Seq(Subscription)] /\ \A c \in Client : Distinct(subs'[c])
  BY <1>1, <1>2
<1>4. ASSUME NEW c \in Client, NEW x \in Elements(subs'[c]) PROVE x \in Elements(subs[c])
  BY <1>2, <1>4
<1>5. pc' = [pc EXCEPT ![l] = "read"] /\ todo[l] = <<>>
  <2>1. pc = [m \in Loop |-> pc[m]]
    BY DEF Inv, Types
  <2>2. todo[l] = <<>>
    BY DEF Traffic, Busy
  <2> QED BY <2>1, <2>2
<1> QED BY <1>3, <1>4, <1>5, Zenon DEF Telling

LEMMA UnsubscribeTells ==
  ASSUME Inv, Traffic, NEW l \in Loop, NEW ss \in Arguments, Unsubscribe(l, ss)
  PROVE  \E ns \in Seq(Notice) : Telling(l, ns)
<1>1. PICK b \in Client : b = conn[l]
  BY Zenon DEF Unsubscribe, Command, Inv, Serving
<1> DEFINE h == Removing(subs[b], ss)
           ns == [i \in DOMAIN ss |-> Reply(Len(h[i]))]
<1>2. /\ pc[l] = "read"
      /\ subs' = [subs EXCEPT ![b] = h[Len(ss)]]
      /\ out' = [out EXCEPT ![l] = @ \o ns]
      /\ UNCHANGED <<sock, sinks, pc, conn, todo, count, mail, wire, sent>>
  <2>1. /\ pc[l] = "read"
        /\ subs' = [subs EXCEPT ![conn[l]] = Removing(subs[conn[l]], ss)[Len(ss)]]
        /\ out' = [out EXCEPT ![l] = @ \o [i \in DOMAIN ss |-> Reply(Len(Removing(subs[conn[l]], ss)[i]))]]
        /\ UNCHANGED <<sock, sinks, pc, conn, todo, count, mail, wire, sent>>
    BY Zenon DEF Unsubscribe, Command, Tell, accepting, Removing
  <2> QED BY <1>1, <2>1
<1>3. subs[b] \in Seq(Subscription) /\ Distinct(subs[b]) /\ ss \in Seq(Subscription)
  BY ArgumentsAssumption DEF Traffic, TrafficTypes
<1>4. Len(ss) \in Nat /\ DOMAIN ss = 1 .. Len(ss) /\ Len(ss) \in 0 .. Len(ss)
  BY <1>3, LenProperties
<1>5. \A i \in 0 .. Len(ss) :
        /\ h[i] \in Seq(Subscription) /\ Distinct(h[i])
        /\ Elements(h[i]) \subseteq Elements(subs[b])
  BY <1>3, RemovingIs
<1> HIDE DEF h
<1>6. ns \in Seq(Notice)
  <2>1. ASSUME NEW i \in 1 .. Len(ss) PROVE Reply(Len(h[i])) \in Notice
    <3>1. i \in 0 .. Len(ss)
      BY <1>4
    <3>2. Len(h[i]) \in Nat
      BY <1>5, <3>1, LenProperties
    <3> QED BY <3>2 DEF Reply, Notice
  <2>2. ns = [i \in 1 .. Len(ss) |-> Reply(Len(h[i]))]
    BY <1>4
  <2> HIDE DEF ns
  <2>3. ns \in [1 .. Len(ss) -> Notice]
    BY <2>1, <2>2
  <2> QED BY <1>4, <2>3
<1> HIDE DEF ns
<1> QED BY <1>2, <1>4, <1>5, <1>6, LosingTells

LEMMA UnsubscribeAllTells ==
  ASSUME Inv, Traffic, NEW l \in Loop, NEW kind, UnsubscribeAll(l, kind)
  PROVE  \E ns \in Seq(Notice) : Telling(l, ns)
<1>1. PICK b \in Client : b = conn[l]
  BY Zenon DEF UnsubscribeAll, Command, Inv, Serving
<1> DEFINE rest == Filter(subs[b], ToSet(subs[b]) \ kind)
           ns == <<Reply(Len(rest))>>
<1>2. /\ pc[l] = "read"
      /\ subs' = [subs EXCEPT ![b] = rest]
      /\ out' = [out EXCEPT ![l] = @ \o ns]
      /\ UNCHANGED <<sock, sinks, pc, conn, todo, count, mail, wire, sent>>
  BY <1>1, Zenon DEF UnsubscribeAll, Command, Tell, accepting
<1>3. subs[b] \in Seq(Subscription) /\ Distinct(subs[b])
  BY DEF Traffic, TrafficTypes
<1>4. /\ rest \in Seq(Subscription) /\ Distinct(rest)
      /\ Elements(rest) \subseteq Elements(subs[b])
  BY <1>3, FilterElements
<1> HIDE DEF rest
<1>5. ns \in Seq(Notice)
  <2>1. Len(rest) \in Nat
    BY <1>4, LenProperties
  <2>2. Reply(Len(rest)) \in Notice
    BY <2>1 DEF Reply, Notice
  <2> QED BY <2>2
<1> HIDE DEF ns
<1> QED BY <1>2, <1>4, <1>5, LosingTells

LEMMA PublishedTells ==
  ASSUME Inv, Traffic, NEW l \in Loop, Published(l)
  PROVE  \E ns \in Seq(Notice) : Telling(l, ns)
<1> DEFINE ns == <<Reply(count[l])>>
<1>2. /\ pc[l] = "deliver" /\ todo[l] = <<>>
      /\ out' = [out EXCEPT ![l] = @ \o ns]
      /\ pc' = [pc EXCEPT ![l] = "read"]
      /\ UNCHANGED <<sock, sinks, subs, conn, todo, count, mail, wire, sent>>
  BY Zenon DEF Published, Tell, Goto, accepting, registry
<1>3. ns \in Seq(Notice)
  <2>1. count[l] \in Nat
    BY DEF Traffic, TrafficTypes
  <2>2. Reply(count[l]) \in Notice
    BY <2>1 DEF Reply, Notice
  <2> QED BY <2>2
<1>4. subs' \in [Client -> Seq(Subscription)] /\ \A c \in Client : Distinct(subs'[c])
  BY <1>2 DEF Traffic, TrafficTypes
<1> HIDE DEF ns
<1> QED BY <1>2, <1>3, <1>4, Zenon DEF Telling

-----------------------------------------------------------------------------
(* Steps that move messages. *)

\* What PUBLISH does, with names for its parts: n is the number of the message,
\* b its publisher, D to whom it is due and q the letters.
Publishing(l, n, b, D, q) ==
  /\ pc[l] = "read" /\ conn[l] = b /\ n = Len(sent) + 1
  /\ todo' = [todo EXCEPT ![l] = q]
  /\ count' \in [Loop -> Nat]
  /\ sent' = Append(sent, [by |-> b, due |-> D])
  /\ pc' = [pc EXCEPT ![l] = "deliver"]
  /\ UNCHANGED <<sock, sinks, subs, conn, out, mail, wire>>
  /\ q \in Seq(Letter) /\ Distinct(q)
  /\ D \in SUBSET (Client \X Subscription)
  /\ \A c \in Client, s \in Subscription :
       <<c, s>> \in D => c \in sinks /\ s \in Elements(subs[c])
  /\ Elements(q) = {Told(d[1], d[2], n) : d \in D}

LEMMA PublishIs ==
  ASSUME Inv, Traffic, NEW l \in Loop, NEW ch, Publish(l, ch)
  PROVE  \E n \in Nat, b \in Client : \E D, q : Publishing(l, n, b, D, q)
<1> DEFINE n == Len(sent) + 1
           due == DueTo(ch, n)
<1>1. PICK order \in SetToSeqs(Listeners(ch, n)) :
        todo' = [todo EXCEPT ![l] = LettersIn(order, ch, n)]
  BY Zenon DEF Publish, Listeners, LettersIn
<1>2. /\ pc[l] = "read"
      /\ count' = [count EXCEPT ![l] = Cardinality(Listeners(ch, n))]
      /\ sent' = Append(sent, [by |-> conn[l], due |-> due])
      /\ pc' = [pc EXCEPT ![l] = "deliver"]
      /\ UNCHANGED <<sock, sinks, subs, conn, out, mail, wire>>
  BY Zenon DEF Publish, Command, Goto, accepting, registry, Listeners, DueTo
<1> DEFINE q == LettersIn(order, ch, n)
<1>3. /\ \A c \in Client : subs[c] \in Seq(Subscription) /\ Distinct(subs[c])
      /\ sinks \in SUBSET Client /\ IsFiniteSet(sinks)
      /\ sent \in Seq(Post) /\ Len(sent) \in Nat /\ n \in Nat
      /\ count \in [Loop -> Nat]
  <2>1. sent \in Seq(Post)
    BY DEF Traffic, TrafficTypes
  <2>2. Len(sent) \in Nat
    BY <2>1, LenProperties
  <2> QED BY <2>1, <2>2 DEF Traffic, TrafficTypes, Inv, Types
<1>4. conn[l] \in Client
  BY <1>2 DEF Inv, Serving
<1>5. /\ q \in Seq(Letter) /\ Distinct(q)
      /\ due = {d \in Client \X Subscription : d[1] \in sinks /\ d[2] \in Elements(subs[d[1]])
                                               /\ Hears(d[2], ch)}
      /\ Elements(q) = {Told(d[1], d[2], n) : d \in due}
  <2> HIDE DEF n
  <2> QED BY <1>3, LettersAre
<1>6. count' \in [Loop -> Nat]
  <2>1. Listeners(ch, n) \in SUBSET sinks
    BY DEF Listeners
  <2>2. Cardinality(Listeners(ch, n)) \in Nat
    BY <1>3, <2>1, FS_Subset, FS_CardinalityType
  <2> QED BY <1>2, <1>3, <2>2
<1> HIDE DEF due, q, n
<1>7. \A c \in Client, s \in Subscription :
        <<c, s>> \in due => c \in sinks /\ s \in Elements(subs[c])
  BY <1>5
<1>8. Publishing(l, n, conn[l], due, q)
  <2>1. due \in SUBSET (Client \X Subscription)
    BY <1>5
  <2> QED BY <1>1, <1>2, <1>5, <1>6, <1>7, <2>1, Zenon DEF Publishing, n, q
<1> QED BY <1>3, <1>4, <1>8

LEMMA PublishKeeps ==
  ASSUME Inv, Traffic, NEW l \in Loop, NEW ch, Publish(l, ch)
  PROVE  Traffic'
<1>a. PICK n \in Nat, b \in Client : \E D, q : Publishing(l, n, b, D, q)
  BY PublishIs
<1>0. PICK D, q : Publishing(l, n, b, D, q)
  BY <1>a
<1>1. /\ pc[l] = "read" /\ conn[l] = b /\ n = Len(sent) + 1
      /\ todo' = [todo EXCEPT ![l] = q]
      /\ count' \in [Loop -> Nat]
      /\ sent' = Append(sent, [by |-> b, due |-> D])
      /\ pc' = [pc EXCEPT ![l] = "deliver"]
      /\ UNCHANGED <<sock, sinks, subs, conn, out, mail, wire>>
  BY <1>0, Zenon DEF Publishing
<1>2. /\ q \in Seq(Letter) /\ Distinct(q)
      /\ D \in SUBSET (Client \X Subscription)
      /\ \A c \in Client, s \in Subscription :
           <<c, s>> \in D => c \in sinks /\ s \in Elements(subs[c])
      /\ Elements(q) = {Told(d[1], d[2], n) : d \in D}
  BY <1>0, Zenon DEF Publishing
<1>3. TrafficTypes /\ Types
  BY DEF Traffic, Inv
<1>4. /\ todo[l] = <<>> /\ todo'[l] = q
      /\ \A m \in Loop : m # l => todo'[m] = todo[m]
      /\ todo' \in [Loop -> Seq(Letter)]
  <2>1. todo[l] = <<>>
    BY <1>1 DEF Traffic, Busy
  <2> QED BY <1>1, <1>2, <1>3, <2>1 DEF TrafficTypes
<1>5. /\ sent \in Seq(Post) /\ sent' \in Seq(Post) /\ Len(sent) \in Nat
      /\ Len(sent') = n /\ n \in 1 .. n
      /\ sent'[n].by = b /\ sent'[n].due = D
      /\ \A i \in 1 .. Len(sent) : i \in 1 .. n /\ i # n /\ sent'[i] = sent[i]
      /\ \A i \in 1 .. n : i # n => i \in 1 .. Len(sent)
  <2>1. sent \in Seq(Post) /\ Len(sent) \in Nat
    BY <1>3, LenProperties DEF TrafficTypes
  <2>2. [by |-> b, due |-> D] \in Post
    BY <1>2 DEF Post
  <2> DEFINE p == [by |-> b, due |-> D]
  <2>3. p \in Post /\ sent' = Append(sent, p) /\ p.by = b /\ p.due = D
    BY <1>1, <2>2
  <2> HIDE DEF p
  <2>4. /\ Append(sent, p) \in Seq(Post) /\ Len(Append(sent, p)) = Len(sent) + 1
        /\ \A i \in 1 .. Len(sent) : Append(sent, p)[i] = sent[i]
        /\ Append(sent, p)[Len(sent) + 1] = p
    BY <2>1, <2>3, AppendProperties
  <2>5. n \in 1 .. n /\ (\A i \in 1 .. Len(sent) : i \in 1 .. n /\ i # n)
        /\ \A i \in 1 .. n : i # n => i \in 1 .. Len(sent)
    BY <1>1, <2>1
  <2> QED BY <1>1, <2>1, <2>3, <2>4, <2>5
<1> DEFINE New(c) == {f \in News : f.n = n /\ <<c, f.sub>> \in D}
<1>6. ASSUME NEW c \in Client, NEW f \in News
      PROVE  [to |-> c, frame |-> f] \in Elements(q) <=> f \in New(c)
  <2>1. ASSUME [to |-> c, frame |-> f] \in Elements(q) PROVE f \in New(c)
    <3>1. PICK d \in D : [to |-> c, frame |-> f] = Told(d[1], d[2], n)
      BY <1>2, <2>1
    <3>2. PICK e \in Client, s \in Subscription : d = <<e, s>>
      BY <1>2
    <3>3. [to |-> c, frame |-> f] = Told(e, s, n)
      BY <3>1, <3>2
    <3>4. c = e /\ f.sub = s /\ f.n = n
      BY <3>3 DEF Told, Message
    <3> QED BY <3>2, <3>4
  <2>2. ASSUME f \in New(c) PROVE [to |-> c, frame |-> f] \in Elements(q)
    <3>1. f = Message(f.sub, n)
      BY <2>2 DEF News, Message
    <3>2. [to |-> c, frame |-> f] = Told(c, f.sub, n)
      BY <3>1 DEF Told
    <3>3. <<c, f.sub>> \in D /\ <<c, f.sub>>[1] = c /\ <<c, f.sub>>[2] = f.sub
      BY <2>2
    <3> QED BY <1>2, <3>2, <3>3
  <2> QED BY <2>1, <2>2
<1>7. ASSUME NEW c \in Client
      PROVE  /\ Stream(c)' = Stream(c)
             /\ Carried(c)' = Carried(c) \cup New(c)
             /\ Owed(c)' = Owed(c) \cup New(c)
             /\ Messages(Stream(c)) \cap New(c) = {}
             /\ sock[c] # "open" => New(c) = {}
  <2>1. Stream(c)' = Stream(c)
    BY <1>1, Zenon DEF Stream
  <2>2. Carried(c)' = Carried(c) \cup New(c)
    <3>1. Elements(todo[l]) = {}
      BY <1>4, EmptyElements
    <3> HIDE DEF New
    <3>2. ASSUME NEW f \in News
          PROVE  (\E m \in Loop : [to |-> c, frame |-> f] \in Elements(todo'[m])) <=>
                   (\E m \in Loop : [to |-> c, frame |-> f] \in Elements(todo[m])) \/ f \in New(c)
      BY <1>4, <1>6, <3>1
    <3>3. New(c) \subseteq News
      BY DEF New
    <3> QED BY <3>2, <3>3 DEF Carried
  <2>3. Owed(c)' = Owed(c) \cup New(c)
    <3>1. ASSUME NEW f \in News
          PROVE  (f.n \in 1 .. Len(sent') /\ <<c, f.sub>> \in sent'[f.n].due) <=>
                   (f.n \in 1 .. Len(sent) /\ <<c, f.sub>> \in sent[f.n].due) \/ f \in New(c)
      <4>1. CASE f.n = n
        BY <1>5, <4>1
      <4>2. CASE f.n # n
        BY <1>5, <4>2
      <4> QED BY <4>1, <4>2
    <3> QED BY <3>1 DEF Owed
  <2>4. Messages(Stream(c)) \cap New(c) = {}
    <3>1. Numbered(c)
      BY DEF Traffic, Orderly
    <3> QED BY <1>5, <3>1 DEF Numbered
  <2>5. sock[c] # "open" => New(c) = {}
    <3>1. sock[c] # "open" => c \notin sinks
      BY DEF Inv, Registered
    <3>2. \A f \in News : f.sub \in Subscription
      BY KindsOfFrames
    <3> QED BY <1>2, <3>1, <3>2
  <2> QED BY <2>1, <2>2, <2>3, <2>4, <2>5
<1> HIDE DEF New
<1>8. TrafficTypes'
  <2>1. \A m \in Loop : Distinct(todo'[m])
    BY <1>2, <1>3, <1>4 DEF TrafficTypes
  <2> QED BY <1>1, <1>3, <1>4, <1>5, <2>1 DEF TrafficTypes
<1>9. Busy'
  <2> SUFFICES ASSUME NEW m \in Loop
               PROVE  /\ out'[m] # <<>> => pc'[m] \in {"read", "deliver"}
                      /\ todo'[m] # <<>> => pc'[m] = "deliver"
    BY DEF Busy
  <2>0. pc = [k \in Loop |-> pc[k]]
    BY <1>3 DEF Types
  <2>1. CASE m = l
    BY <1>1, <2>0, <2>1
  <2>2. CASE m # l
    BY <1>1, <1>4, <2>0, <2>2 DEF Traffic, Busy
  <2> QED BY <2>1, <2>2
<1>10. EachOnce'
  <2> SUFFICES ASSUME NEW c \in Client PROVE Single(c)'
    BY DEF EachOnce
  <2>1. Single(c) /\ sock' = sock
    BY <1>1 DEF Traffic, EachOnce
  <2> QED BY <1>7, <2>1 DEF Single
<1>11. Orderly'
  <2>1. ASSUME NEW c \in Client PROVE Numbered(c)' /\ InTurn(Stream(c), sent)'
    <3>1. Numbered(c) /\ InTurn(Stream(c), sent) /\ Stream(c)' = Stream(c)
      BY <1>7 DEF Traffic, Orderly
    <3>2. Numbered(c)'
      BY <1>5, <3>1 DEF Numbered
    <3>3. InTurn(Stream(c), sent')
      <4> SUFFICES ASSUME NEW i \in 1 .. Len(Stream(c)), NEW j \in 1 .. Len(Stream(c)), i < j,
                          IsNews(Stream(c)[i]), IsNews(Stream(c)[j])
                   PROVE  NotAfter(Stream(c)[i], Stream(c)[j], sent')
        BY DEF InTurn
      <4>1. NotAfter(Stream(c)[i], Stream(c)[j], sent)
        BY <3>1 DEF InTurn
      <4>2. Stream(c)[i].n \in 1 .. Len(sent) /\ Stream(c)[j].n \in 1 .. Len(sent)
        BY <3>1 DEF Numbered, Messages
      <4> QED BY <1>5, <4>1, <4>2 DEF NotAfter
    <3> QED BY <3>1, <3>2, <3>3
  <2>2. ASSUME NEW m \in Loop PROVE Newest(m)'
    <3>0. conn' = conn
      BY <1>1
    <3>1. CASE m = l
      <4>1. \A d \in Elements(q) : d.frame.n = n
        BY <1>2 DEF Told, Message
      <4>2. /\ n \in 1 .. Len(sent') /\ sent'[n].by = conn'[l]
            /\ \A k \in 1 .. Len(sent') : sent'[k].by = conn'[l] => k <= n
        BY <1>1, <1>5
      <4> QED BY <1>4, <3>1, <4>1, <4>2 DEF Newest, Latest
    <3>2. CASE m # l
      <4> SUFFICES ASSUME NEW d \in Elements(todo[m]) PROVE Latest(m, d.frame.n)'
        BY <1>4, <3>2 DEF Newest
      <4>1. Newest(m)
        BY Zenon DEF Traffic, Orderly
      <4>2. Latest(m, d.frame.n)
        BY <4>1 DEF Newest
      <4>3. pc[m] = "deliver"
        BY EmptyElements DEF Traffic, Busy
      <4>4. conn[m] # b
        BY <1>1, <3>2, <4>3, OneServer
      <4>5. \A k \in 1 .. Len(sent') : sent'[k].by = conn'[m] => k <= d.frame.n
        BY <1>5, <3>0, <4>2, <4>4 DEF Latest
      <4>6. d.frame.n \in 1 .. Len(sent') /\ sent'[d.frame.n].by = conn'[m]
        BY <1>5, <3>0, <4>2 DEF Latest
      <4> QED BY <4>5, <4>6 DEF Latest
    <3> QED BY <3>1, <3>2
  <2> QED BY <2>1, <2>2 DEF Orderly
<1>12. AckedBefore'
  <2>0. conn' = conn /\ out' = out /\ wire' = wire /\ subs' = subs /\ mail' = mail
    BY <1>1
  <2>1. ASSUME NEW c, NEW x, Acked(c, x) PROVE Acked(c, x)'
    BY <2>0, <2>1 DEF Acked
  <2> HIDE DEF Acked
  <2>2. AllAcked
    BY DEF Traffic, AckedBefore
  <2>3. \A c \in Client : \A x \in Elements(subs'[c]) : Acked(c, x)'
    BY <2>0, <2>1, <2>2 DEF AllAcked
  <2>4. \A c \in Client : \A f \in Elements(mail'[c]) : Acked(c, f.sub)'
    BY <2>0, <2>1, <2>2 DEF AllAcked
  <2>5. ASSUME NEW m \in Loop, NEW d \in Elements(todo'[m]) PROVE Acked(d.to, d.frame.sub)'
    <3>1. CASE m = l
      <4>1. PICK x \in D : d = Told(x[1], x[2], n)
        BY <1>2, <1>4, <2>5, <3>1
      <4>2. PICK c \in Client, s \in Subscription : x = <<c, s>>
        BY <1>2
      <4>3. s \in Elements(subs[c])
        BY <1>2, <4>1, <4>2
      <4>4. Acked(c, s)'
        BY <2>1, <2>2, <4>3 DEF AllAcked
      <4>5. d.to = c /\ d.frame.sub = s
        BY <4>1, <4>2 DEF Told, Message
      <4> QED BY <4>4, <4>5
    <3>2. CASE m # l
      BY <1>4, <2>1, <2>2, <2>5, <3>2 DEF AllAcked
    <3> QED BY <3>1, <3>2
  <2>6. \A c \in Client : Preceded(wire'[c])
    BY <2>0 DEF Traffic, AckedBefore
  <2> QED BY <2>3, <2>4, <2>5, <2>6 DEF AckedBefore, AllAcked
<1> QED BY <1>8, <1>9, <1>10, <1>11, <1>12 DEF Traffic

\* A letter becomes mail.
LEMMA DeliverKeeps ==
  ASSUME Inv, Traffic, NEW l \in Loop, Deliver(l)
  PROVE  Traffic'
<1>a. /\ pc[l] = "deliver" /\ todo[l] # <<>>
      /\ mail' = [mail EXCEPT ![Head(todo[l]).to] = Append(@, Head(todo[l]).frame)]
      /\ todo' = [todo EXCEPT ![l] = Tail(@)]
      /\ UNCHANGED <<sock, sinks, subs, pc, conn, out, count, wire, sent>>
  BY Zenon DEF Deliver, accepting, registry
<1>2. TrafficTypes
  BY DEF Traffic
<1>3. todo[l] \in Seq(Letter) /\ Distinct(todo[l])
  BY <1>2 DEF TrafficTypes
<1>b. PICK b \in Client, f \in News : Head(todo[l]) = [to |-> b, frame |-> f]
  <2>1. Head(todo[l]) \in Letter
    BY <1>a, <1>3, HeadAndRest
  <2> QED BY <2>1 DEF Letter
<1> DEFINE d == [to |-> b, frame |-> f]
<1>1. /\ pc[l] = "deliver" /\ todo[l] # <<>>
      /\ mail' = [mail EXCEPT ![b] = Append(@, f)]
      /\ todo' = [todo EXCEPT ![l] = Tail(@)]
      /\ UNCHANGED <<sock, sinks, subs, pc, conn, out, count, wire, sent>>
  <2>1. Head(todo[l]).to = b /\ Head(todo[l]).frame = f
    BY <1>b
  <2> QED BY <1>a, <2>1
<1>4. /\ d \in Letter /\ Tail(todo[l]) \in Seq(Letter) /\ Distinct(Tail(todo[l]))
      /\ d \in Elements(todo[l]) /\ Elements(Tail(todo[l])) = Elements(todo[l]) \ {d}
  BY <1>1, <1>3, <1>b, HeadAndRest
<1>5. b \in Client /\ f \in News /\ d = [to |-> b, frame |-> f] /\ d.to = b /\ d.frame = f
  OBVIOUS
<1> HIDE DEF d
<1> DEFINE u == <<f>>
<1>9. /\ f \in Frame /\ IsNews(f) /\ u \in Seq(Frame) /\ Once(u) /\ \A posts : InTurn(u, posts)
      /\ Elements(u) = {f} /\ Messages(u) = {f} /\ u \in Seq(News)
      /\ \A s \in Seq(News) : Append(s, f) = s \o u
  <2>1. f \in Frame /\ IsNews(f)
    BY KindsOfFrames
  <2>2. /\ u \in Seq(Frame) /\ Once(u) /\ \A posts : InTurn(u, posts)
        /\ Elements(u) = {f} /\ Messages(u) = {f}
    BY <2>1, OneFrame, Zenon
  <2>3. \A s \in Seq(News) : Append(s, f) = s \o u
    BY AppendIsConcat
  <2>4. u \in Seq(News)
    OBVIOUS
  <2> QED BY <2>1, <2>2, <2>3, <2>4
<1> HIDE DEF u
<1>6. /\ todo'[l] = Tail(todo[l]) /\ \A m \in Loop : m # l => todo'[m] = todo[m]
      /\ todo' \in [Loop -> Seq(Letter)]
  BY <1>1, <1>2, <1>4 DEF TrafficTypes
<1>7. mail[b] \in Seq(News) /\ u \in Seq(News) /\ mail[b] \o u \in Seq(News)
      /\ Append(mail[b], f) = mail[b] \o u
  <2>1. mail[b] \in Seq(News)
    BY <1>2, <1>5 DEF TrafficTypes
  <2>2. Append(mail[b], f) = mail[b] \o u
    BY <1>9, <2>1
  <2> QED BY <1>9, <2>1, <2>2, ConcatProperties
<1>8. /\ mail'[b] = mail[b] \o u /\ \A c \in Client : c # b => mail'[c] = mail[c]
      /\ mail' \in [Client -> Seq(News)]
  <2>1. mail \in [Client -> Seq(News)]
    BY <1>2 DEF TrafficTypes
  <2>2. mail'[b] = Append(mail[b], f) /\ \A c \in Client : c # b => mail'[c] = mail[c]
    BY <1>1, <1>5, <2>1
  <2>3. mail' \in [Client -> Seq(News)]
    BY <1>1, <1>5, <1>7, <2>1
  <2> QED BY <1>7, <2>2, <2>3
<1>10. /\ Stream(b)' = Stream(b) \o u /\ Stream(b) \in Seq(Frame)
       /\ Messages(Stream(b)') = Messages(Stream(b)) \cup {f}
       /\ \A c \in Client : c # b => Stream(c)' = Stream(c)
  <2>1. wire[b] \in Seq(Frame) /\ mail[b] \in Seq(Frame) /\ Stream(b) \in Seq(Frame)
    BY <1>2, <1>5, StreamIs
  <2>2. wire[b] \o (mail[b] \o u) = (wire[b] \o mail[b]) \o u
    <3>1. Regrouped(wire[b], mail[b], u)
      BY <1>9, <2>1, Regroup
    <3> QED BY <3>1 DEF Regrouped
  <2>3. Stream(b)' = Stream(b) \o u
    BY <1>1, <1>8, <2>2 DEF Stream
  <2>4. Messages(Stream(b) \o u) = Messages(Stream(b)) \cup Messages(u)
    BY <1>9, <2>1, ConcatMessages
  <2>6. \A c \in Client : c # b => Stream(c)' = Stream(c)
    BY <1>1, <1>8 DEF Stream
  <2> QED BY <1>9, <2>1, <2>3, <2>4, <2>6
<1>11. /\ f \in Carried(b) /\ Carried(b)' = Carried(b) \ {f}
       /\ \A c \in Client : c # b => Carried(c)' = Carried(c)
  <2>1. \A m \in Loop : d \in Elements(todo[m]) => m = l
    BY <1>4, OneCarrier
  <2>2. \A m \in Loop : Elements(todo'[m]) = Elements(todo[m]) \ {d}
    BY <1>4, <1>6, <2>1
  <2>3. f \in Carried(b)
    BY <1>4, <1>5 DEF Carried
  <2>4. Carried(b)' = Carried(b) \ {f}
    <3>1. ASSUME NEW g, NEW m \in Loop
          PROVE  [to |-> b, frame |-> g] \in Elements(todo'[m]) <=>
                   [to |-> b, frame |-> g] \in Elements(todo[m]) /\ g # f
      <4>1. [to |-> b, frame |-> g] = d <=> g = f
        BY <1>5
      <4> QED BY <2>2, <4>1
    <3> QED BY <3>1 DEF Carried
  <2>5. ASSUME NEW c \in Client, c # b PROVE Carried(c)' = Carried(c)
    <3>1. ASSUME NEW g, NEW m \in Loop
          PROVE  [to |-> c, frame |-> g] \in Elements(todo'[m]) <=>
                   [to |-> c, frame |-> g] \in Elements(todo[m])
      <4>1. [to |-> c, frame |-> g] # d
        BY <1>5, <2>5
      <4> QED BY <2>2, <4>1
    <3> QED BY <3>1 DEF Carried
  <2> QED BY <2>3, <2>4, <2>5
<1>12. TrafficTypes'
  <2>1. \A m \in Loop : Distinct(todo'[m])
    BY <1>2, <1>4, <1>6 DEF TrafficTypes
  <2> QED BY <1>1, <1>2, <1>6, <1>8, <2>1 DEF TrafficTypes
<1>13. Busy'
  <2> SUFFICES ASSUME NEW m \in Loop
               PROVE  /\ out'[m] # <<>> => pc'[m] \in {"read", "deliver"}
                      /\ todo'[m] # <<>> => pc'[m] = "deliver"
    BY DEF Busy
  <2>1. CASE m = l
    BY <1>1, <2>1
  <2>2. CASE m # l
    BY <1>1, <1>6, <2>2 DEF Traffic, Busy
  <2> QED BY <2>1, <2>2
<1>14. EachOnce'
  <2> SUFFICES ASSUME NEW c \in Client PROVE Single(c)'
    BY DEF EachOnce
  <2>1. Single(c) /\ Owed(c)' = Owed(c) /\ sock' = sock
    BY <1>1 DEF Traffic, EachOnce, Owed
  <2>2. CASE c # b
    <3>1. Stream(c)' = Stream(c) /\ Carried(c)' = Carried(c)
      BY <1>10, <1>11, <2>2
    <3> QED BY <2>1, <3>1 DEF Single
  <2>3. CASE c = b
    <3> SUFFICES ASSUME sock[b] # "closed"
                 PROVE  /\ Once(Stream(b)')
                        /\ Messages(Stream(b)') \cap Carried(b)' = {}
                        /\ Messages(Stream(b)') \cup Carried(b)' = Owed(b)
                        /\ sock[b] # "open" => Owed(b) = {}
      BY <2>1, <2>3 DEF Single
    <3>1. /\ Once(Stream(b))
          /\ Messages(Stream(b)) \cap Carried(b) = {}
          /\ Messages(Stream(b)) \cup Carried(b) = Owed(b)
          /\ sock[b] # "open" => Owed(b) = {}
      BY <2>1, <2>3 DEF Single
    <3>2. Once(Stream(b) \o u)
      <4>2. Messages(Stream(b)) \cap {f} = {}
        BY <1>11, <3>1
      <4> QED BY <1>9, <1>10, <3>1, <4>2, ConcatMessages
    <3> QED BY <1>10, <1>11, <3>1, <3>2
  <2> QED BY <2>2, <2>3
<1>15. Orderly'
  <2>1. ASSUME NEW c \in Client PROVE Numbered(c)' /\ InTurn(Stream(c), sent)'
    <3>1. Numbered(c) /\ InTurn(Stream(c), sent) /\ sent' = sent
      BY <1>1, Zenon DEF Traffic, Orderly
    <3>2. CASE c # b
      <4>1. Stream(c)' = Stream(c)
        BY <1>10, <3>2
      <4> QED BY <3>1, <4>1 DEF Numbered, InTurn
    <3>3. CASE c = b
      <4>1. Latest(l, f.n)
        <5>1. Newest(l)
          BY Zenon DEF Traffic, Orderly
        <5> QED BY <1>4, <1>5, <5>1 DEF Newest
      <4>2. Numbered(c)'
        BY <1>10, <3>1, <3>3, <4>1 DEF Numbered, Latest
      <4>3. \A g \in Messages(Stream(b)) : NotAfter(g, f, sent)
        BY <3>1, <3>3, <4>1 DEF Numbered, Latest, NotAfter
      <4>4. InTurn(u, sent) /\ Messages(u) = {f}
        BY <1>9
      <4>5. \A g \in Messages(Stream(b)), h \in Messages(u) : NotAfter(g, h, sent)
        BY <4>3, <4>4
      <4>6. InTurn(Stream(b) \o u, sent)
        BY <1>9, <1>10, <3>1, <3>3, <4>4, <4>5, ConcatInTurn
      <4>7. Stream(c)' = Stream(b) \o u
        BY <1>10, <3>3
      <4> QED BY <3>1, <4>2, <4>6, <4>7
    <3> QED BY <3>2, <3>3
  <2>2. ASSUME NEW m \in Loop PROVE Newest(m)'
    <3>1. Newest(m)
      BY Zenon DEF Traffic, Orderly
    <3>2. \A e \in Elements(todo'[m]) : e \in Elements(todo[m])
      BY <1>4, <1>6
    <3>3. conn' = conn /\ sent' = sent
      BY <1>1
    <3> QED BY <3>1, <3>2, <3>3 DEF Newest, Latest
  <2> QED BY <2>1, <2>2 DEF Orderly
<1>16. AckedBefore'
  <2>0. conn' = conn /\ out' = out /\ wire' = wire /\ subs' = subs
    BY <1>1
  <2>1. ASSUME NEW c, NEW x, Acked(c, x) PROVE Acked(c, x)'
    BY <2>0, <2>1 DEF Acked
  <2> HIDE DEF Acked
  <2>2. Acked(b, f.sub)
    BY <1>4, <1>5 DEF Traffic, AckedBefore, AllAcked
  <2>3. \A c \in Client : \A x \in Elements(subs'[c]) : Acked(c, x)'
    BY <2>0, <2>1 DEF Traffic, AckedBefore, AllAcked
  <2>4. ASSUME NEW c \in Client, NEW g \in Elements(mail'[c]) PROVE Acked(c, g.sub)'
    <3>1. CASE g \in Elements(mail[c])
      <4>1. Acked(c, g.sub)
        BY <3>1 DEF Traffic, AckedBefore, AllAcked
      <4> QED BY <2>1, <4>1
    <3>2. CASE g \notin Elements(mail[c])
      <4>1. c = b
        BY <1>8, <2>4, <3>2
      <4>2. Elements(mail[b] \o u) = Elements(mail[b]) \cup Elements(u)
        BY <1>7, ConcatElements
      <4>3. g = f
        BY <1>8, <1>9, <2>4, <3>2, <4>1, <4>2
      <4> QED BY <2>1, <2>2, <4>1, <4>3
    <3> QED BY <3>1, <3>2
  <2>5. ASSUME NEW m \in Loop, NEW e \in Elements(todo'[m]) PROVE Acked(e.to, e.frame.sub)'
    <3>1. e \in Elements(todo[m])
      BY <1>4, <1>6, <2>5
    <3>2. Acked(e.to, e.frame.sub)
      BY <3>1 DEF Traffic, AckedBefore, AllAcked
    <3> QED BY <2>1, <3>2
  <2>6. \A c \in Client : Preceded(wire'[c])
    BY <2>0 DEF Traffic, AckedBefore
  <2> QED BY <2>3, <2>4, <2>5, <2>6 DEF AckedBefore, AllAcked
<1> QED BY <1>12, <1>13, <1>14, <1>15, <1>16 DEF Traffic

\* The batch of a loop goes to the wire, in front of the mail.
LEMMA FlushKeeps ==
  ASSUME Inv, Traffic, NEW l \in Loop, Flush(l)
  PROVE  Traffic'
<1>1. /\ pc[l] = "read" /\ out[l] # <<>>
      /\ wire' = [wire EXCEPT ![conn[l]] = @ \o out[l]]
      /\ out' = [out EXCEPT ![l] = <<>>]
      /\ conn' = [conn EXCEPT ![l] = None]
      /\ pc' = [pc EXCEPT ![l] = "wait"]
      /\ UNCHANGED <<sock, sinks, subs, todo, count, mail, sent>>
  BY Zenon DEF Flush, accepting, registry, Goto
<1>2. TrafficTypes /\ Types
  BY DEF Traffic, Inv
<1>3. PICK b \in Client : b = conn[l]
  BY <1>1 DEF Inv, Serving
<1>4. PICK ns \in Seq(Notice) : ns = out[l]
  BY <1>2 DEF TrafficTypes
<1>5. /\ out' \in [Loop -> Seq(Notice)] /\ out'[l] = <<>>
      /\ \A m \in Loop : m # l => out'[m] = out[m] /\ conn'[m] = conn[m] /\ pc'[m] = pc[m]
      /\ todo[l] = <<>>
  <2>1. todo[l] = <<>>
    BY <1>1 DEF Traffic, Busy
  <2>2. out \in [Loop -> Seq(Notice)] /\ conn = [m \in Loop |-> conn[m]] /\ pc = [m \in Loop |-> pc[m]]
    BY <1>2 DEF TrafficTypes, Types
  <2>3. <<>> \in Seq(Notice)
    BY EmptyElements
  <2> QED BY <1>1, <2>1, <2>2, <2>3
<1>6. /\ ns \in Seq(Frame) /\ wire[b] \in Seq(Frame) /\ mail[b] \in Seq(Frame)
      /\ wire'[b] = wire[b] \o ns /\ wire[b] \o ns \in Seq(Frame)
      /\ \A c \in Client : c # b => wire'[c] = wire[c]
      /\ wire' \in [Client -> Seq(Frame)]
  <2>1. ns \in Seq(Frame)
    BY MessagesOfNotices
  <2>2. wire[b] \in Seq(Frame) /\ mail[b] \in Seq(Frame)
    BY <1>2, StreamIs
  <2>3. wire[b] \o ns \in Seq(Frame)
    BY <2>1, <2>2, ConcatProperties
  <2>4. wire \in [Client -> Seq(Frame)]
    BY <1>2 DEF TrafficTypes
  <2>5. wire' = [wire EXCEPT ![b] = wire[b] \o ns]
    BY <1>1, <1>3, <1>4
  <2> QED BY <2>1, <2>2, <2>3, <2>4, <2>5
<1>7. ASSUME NEW c \in Client
      PROVE  /\ Messages(Stream(c)') = Messages(Stream(c))
             /\ Once(Stream(c)') <=> Once(Stream(c))
             /\ InTurn(Stream(c)', sent) <=> InTurn(Stream(c), sent)
  <2>1. CASE c = b
    <3>1. Stream(b)' = (wire[b] \o ns) \o mail[b]
      BY <1>1, <1>6 DEF Stream
    <3>2. Stream(b) = wire[b] \o mail[b]
      BY DEF Stream
    <3>3. /\ Messages((wire[b] \o ns) \o mail[b]) = Messages(wire[b] \o mail[b])
          /\ Once((wire[b] \o ns) \o mail[b]) <=> Once(wire[b] \o mail[b])
          /\ InTurn((wire[b] \o ns) \o mail[b], sent) <=> InTurn(wire[b] \o mail[b], sent)
      BY <1>6, Insert
    <3> QED BY <2>1, <3>1, <3>2, <3>3
  <2>2. CASE c # b
    BY <1>1, <1>6, <2>2 DEF Stream
  <2> QED BY <2>1, <2>2
<1>8. TrafficTypes'
  BY <1>1, <1>2, <1>5, <1>6 DEF TrafficTypes
<1>9. Busy'
  <2> SUFFICES ASSUME NEW m \in Loop
               PROVE  /\ out'[m] # <<>> => pc'[m] \in {"read", "deliver"}
                      /\ todo'[m] # <<>> => pc'[m] = "deliver"
    BY DEF Busy
  <2>1. CASE m = l
    BY <1>1, <1>5, <2>1
  <2>2. CASE m # l
    BY <1>1, <1>5, <2>2 DEF Traffic, Busy
  <2> QED BY <2>1, <2>2
<1>10. EachOnce'
  <2> SUFFICES ASSUME NEW c \in Client PROVE Single(c)'
    BY DEF EachOnce
  <2>1. Single(c)
    BY DEF Traffic, EachOnce
  <2>2. /\ Carried(c)' = Carried(c) /\ Owed(c)' = Owed(c) /\ sock' = sock
    BY <1>1, Zenon DEF Carried, Owed
  <2> QED BY <1>7, <2>1, <2>2 DEF Single
<1>11. Orderly'
  <2>1. ASSUME NEW c \in Client PROVE Numbered(c)' /\ InTurn(Stream(c), sent)'
    <3>1. Numbered(c) /\ InTurn(Stream(c), sent)
      BY DEF Traffic, Orderly
    <3>2. sent' = sent
      BY <1>1
    <3>3. Numbered(c)'
      BY <1>7, <3>1, <3>2 DEF Numbered
    <3> QED BY <1>7, <3>1, <3>2, <3>3
  <2>2. ASSUME NEW m \in Loop PROVE Newest(m)'
    <3>1. CASE m = l
      <4>1. todo'[m] = <<>>
        BY <1>1, <1>5, <3>1
      <4> QED BY <4>1, EmptyElements DEF Newest
    <3>2. CASE m # l
      <4>1. Newest(m)
        BY Zenon DEF Traffic, Orderly
      <4>2. conn'[m] = conn[m] /\ todo' = todo /\ sent' = sent
        BY <1>1, <1>5, <3>2
      <4> QED BY <4>1, <4>2 DEF Newest, Latest
    <3> QED BY <3>1, <3>2
  <2> QED BY <2>1, <2>2 DEF Orderly
<1>12. AckedBefore'
  <2>0. subs' = subs /\ mail' = mail /\ todo' = todo
    BY <1>1
  <2>1. ASSUME NEW c \in Client, NEW x, Acked(c, x) PROVE Acked(c, x)'
    <3>1. CASE AckIn(wire[c], x)
      <4>1. CASE c = b
        <5>1. AckIn(wire[b] \o ns, x)
          BY <1>6, <3>1, <4>1, AckStays
        <5> QED BY <1>6, <4>1, <5>1 DEF Acked
      <4>2. CASE c # b
        BY <1>6, <3>1, <4>2 DEF Acked
      <4> QED BY <4>1, <4>2
    <3>2. CASE \E m \in Loop : conn[m] = c /\ AckIn(out[m], x)
      <4>1. PICK m \in Loop : conn[m] = c /\ AckIn(out[m], x)
        BY <3>2
      <4>2. CASE m = l
        <5>1. c = b /\ AckIn(ns, x)
          BY <1>3, <1>4, <4>1, <4>2
        <5>2. AckIn(wire[b] \o ns, x)
          BY <1>6, <5>1, AckStays
        <5> QED BY <1>6, <5>1, <5>2 DEF Acked
      <4>3. CASE m # l
        BY <1>5, <4>1, <4>3 DEF Acked
      <4> QED BY <4>2, <4>3
    <3> QED BY <2>1, <3>1, <3>2 DEF Acked
  <2> HIDE DEF Acked
  <2>2. AllAcked
    BY DEF Traffic, AckedBefore
  <2>3. AllAcked'
    <3>1. \A c \in Client : \A x \in Elements(subs'[c]) : Acked(c, x)'
      BY <2>0, <2>1, <2>2 DEF AllAcked
    <3>2. \A c \in Client : \A f \in Elements(mail'[c]) : Acked(c, f.sub)'
      BY <2>0, <2>1, <2>2 DEF AllAcked
    <3>3. ASSUME NEW m \in Loop, NEW d \in Elements(todo'[m]) PROVE Acked(d.to, d.frame.sub)'
      <4>1. d \in Elements(todo[m]) /\ todo[m] \in Seq(Letter)
        BY <1>2, <2>0, <3>3 DEF TrafficTypes
      <4>2. d.to \in Client
        BY <4>1, LettersOf
      <4> QED BY <2>1, <2>2, <4>1, <4>2 DEF AllAcked
    <3> QED BY <3>1, <3>2, <3>3 DEF AllAcked
  <2>4. ASSUME NEW c \in Client PROVE Preceded(wire'[c])
    <3>1. Preceded(wire[c])
      BY DEF Traffic, AckedBefore
    <3>2. CASE c = b
      <4>1. Messages(ns) = {}
        BY MessagesOfNotices
      <4>2. Preceded(wire[b] \o ns)
        BY <1>6, <3>1, <3>2, <4>1, ConcatPreceded
      <4> QED BY <1>6, <3>2, <4>2
    <3>3. CASE c # b
      BY <1>6, <3>1, <3>3
    <3> QED BY <3>2, <3>3
  <2> QED BY <2>3, <2>4 DEF AckedBefore
<1> QED BY <1>8, <1>9, <1>10, <1>11, <1>12 DEF Traffic

\* The mail goes to the wire: the loop serves nobody, so what its connections have
\* to see acknowledged is on the wire already.
LEMMA AsyncKeeps ==
  ASSUME Inv, Traffic, NEW l \in Loop, ProcessAsync(l)
  PROVE  Traffic'
<1>1. /\ pc[l] = "wait"
      /\ wire' = [c \in Client |-> IF c \in Mine(l) THEN wire[c] \o mail[c] ELSE wire[c]]
      /\ mail' = [c \in Client |-> IF c \in Mine(l) THEN <<>> ELSE mail[c]]
      /\ UNCHANGED <<sock, sinks, subs, pc, conn, out, todo, count, sent>>
  BY Zenon DEF ProcessAsync, accepting, registry, serving
<1>2. TrafficTypes
  BY DEF Traffic
<1>3. ASSUME NEW c \in Client
      PROVE  /\ wire[c] \in Seq(Frame) /\ mail[c] \in Seq(Frame) /\ mail[c] \in Seq(News)
             /\ wire[c] \o mail[c] \in Seq(Frame)
             /\ Messages(mail[c]) = Elements(mail[c])
             /\ c \in Mine(l) => wire'[c] = wire[c] \o mail[c] /\ mail'[c] = <<>>
             /\ c \notin Mine(l) => wire'[c] = wire[c] /\ mail'[c] = mail[c]
  <2>1. wire[c] \in Seq(Frame) /\ mail[c] \in Seq(Frame) /\ mail[c] \in Seq(News)
    BY <1>2, StreamIs DEF TrafficTypes
  <2>2. wire[c] \o mail[c] \in Seq(Frame)
    BY <2>1, ConcatProperties
  <2>3. Messages(mail[c]) = Elements(mail[c])
    BY <2>1, MessagesOfNews
  <2>4. /\ c \in Mine(l) => wire'[c] = wire[c] \o mail[c] /\ mail'[c] = <<>>
        /\ c \notin Mine(l) => wire'[c] = wire[c] /\ mail'[c] = mail[c]
    BY <1>1
  <2> QED BY <2>1, <2>2, <2>3, <2>4
<1>4. ASSUME NEW c \in Client PROVE Stream(c)' = Stream(c)
  <2>1. CASE c \in Mine(l)
    <3>1. (wire[c] \o mail[c]) \o <<>> = wire[c] \o mail[c]
      BY <1>3, ConcatEmptySeq
    <3> QED BY <1>3, <2>1, <3>1 DEF Stream
  <2>2. CASE c \notin Mine(l)
    BY <1>3, <2>2 DEF Stream
  <2> QED BY <2>1, <2>2
<1>5. TrafficTypes'
  <2>1. wire' \in [Client -> Seq(Frame)]
    BY <1>1, <1>3
  <2>2. mail' \in [Client -> Seq(News)]
    BY <1>1, <1>3, EmptyElements
  <2> QED BY <1>1, <1>2, <2>1, <2>2 DEF TrafficTypes
<1>6. Busy'
  BY <1>1 DEF Traffic, Busy
<1>7. EachOnce'
  <2> SUFFICES ASSUME NEW c \in Client PROVE Single(c)'
    BY DEF EachOnce
  <2>1. Single(c)
    BY DEF Traffic, EachOnce
  <2>2. /\ Carried(c)' = Carried(c) /\ Owed(c)' = Owed(c) /\ sock' = sock
    BY <1>1, Zenon DEF Carried, Owed
  <2> QED BY <1>4, <2>1, <2>2 DEF Single
<1>8. Orderly'
  <2>1. ASSUME NEW c \in Client PROVE Numbered(c)' /\ InTurn(Stream(c), sent)'
    <3>1. Numbered(c) /\ InTurn(Stream(c), sent)
      BY DEF Traffic, Orderly
    <3>2. sent' = sent
      BY <1>1
    <3> QED BY <1>4, <3>1, <3>2 DEF Numbered
  <2>2. ASSUME NEW m \in Loop PROVE Newest(m)'
    <3>1. Newest(m)
      BY Zenon DEF Traffic, Orderly
    <3>2. conn' = conn /\ todo' = todo /\ sent' = sent
      BY <1>1
    <3> QED BY <3>1, <3>2 DEF Newest, Latest
  <2> QED BY <2>1, <2>2 DEF Orderly
<1>9. AckedBefore'
  <2>0. subs' = subs /\ todo' = todo /\ out' = out /\ conn' = conn
    BY <1>1
  <2>1. ASSUME NEW c \in Client, NEW x, Acked(c, x) PROVE Acked(c, x)'
    <3>1. CASE AckIn(wire[c], x)
      <4>1. AckIn(wire'[c], x)
        BY <1>3, <3>1, AckStays
      <4> QED BY <4>1 DEF Acked
    <3>2. CASE \E m \in Loop : conn[m] = c /\ AckIn(out[m], x)
      BY <2>0, <3>2 DEF Acked
    <3> QED BY <2>1, <3>1, <3>2 DEF Acked
  <2>2. ASSUME NEW c \in Mine(l), NEW x, Acked(c, x) PROVE AckIn(wire[c], x)
    <3> SUFFICES ASSUME NEW m \in Loop, conn[m] = c, AckIn(out[m], x) PROVE FALSE
      BY <2>2 DEF Acked
    <3>1. pc[m] \in {"read", "deliver"}
      BY EmptyElements DEF Traffic, Busy, AckIn
    <3>2. home[c] = m
      BY <3>1 DEF Inv, Serving
    <3>3. home[c] = l
      BY DEF Mine
    <3> QED BY <1>1, <3>1, <3>2, <3>3
  <2> HIDE DEF Acked
  <2>3. AllAcked
    BY DEF Traffic, AckedBefore
  <2>4. AllAcked'
    <3>1. \A c \in Client : \A x \in Elements(subs'[c]) : Acked(c, x)'
      BY <2>0, <2>1, <2>3 DEF AllAcked
    <3>2. \A c \in Client : \A f \in Elements(mail'[c]) : Acked(c, f.sub)'
      BY <1>3, <2>1, <2>3, EmptyElements DEF AllAcked
    <3>3. ASSUME NEW m \in Loop, NEW d \in Elements(todo'[m]) PROVE Acked(d.to, d.frame.sub)'
      <4>1. d \in Elements(todo[m]) /\ todo[m] \in Seq(Letter)
        BY <1>2, <2>0, <3>3 DEF TrafficTypes
      <4>2. d.to \in Client
        BY <4>1, LettersOf
      <4> QED BY <2>1, <2>3, <4>1, <4>2 DEF AllAcked
    <3> QED BY <3>1, <3>2, <3>3 DEF AllAcked
  <2>5. ASSUME NEW c \in Client PROVE Preceded(wire'[c])
    <3>1. Preceded(wire[c])
      BY DEF Traffic, AckedBefore
    <3>2. CASE c \in Mine(l)
      <4>1. \A f \in Messages(mail[c]) : AckIn(wire[c], f.sub)
        BY <1>3, <2>2, <2>3, <3>2 DEF AllAcked
      <4>2. Preceded(wire[c] \o mail[c])
        BY <1>3, <3>1, <4>1, ConcatPreceded
      <4> QED BY <1>3, <3>2, <4>2
    <3>3. CASE c \notin Mine(l)
      BY <1>3, <3>1, <3>3
    <3> QED BY <3>2, <3>3
  <2> QED BY <2>4, <2>5 DEF AckedBefore
<1> QED BY <1>5, <1>6, <1>7, <1>8, <1>9 DEF Traffic

LEMMA ServeTraffic ==
  ASSUME Inv, Traffic, NEW l \in Loop, Serve(l)
  PROVE  Traffic'
<1>1. ASSUME NEW ns \in Seq(Notice), Telling(l, ns) PROVE Traffic'
  <2>1. pc \in [Loop -> {"wait", "read", "deliver", "gone"}]
    BY DEF Inv, Types
  <2> QED BY <1>1, <2>1, TellingKeeps
<1>2. ASSUME NEW ss \in Arguments, Subscribe(l, ss) \/ Unsubscribe(l, ss) PROVE Traffic'
  BY <1>1, <1>2, SubscribeTells, UnsubscribeTells
<1>3. ASSUME NEW kind, UnsubscribeAll(l, kind) PROVE Traffic'
  BY <1>1, <1>3, UnsubscribeAllTells
<1>4. ASSUME NEW ch, Publish(l, ch) PROVE Traffic'
  BY <1>4, PublishKeeps
<1>5. ASSUME Deliver(l) PROVE Traffic'
  BY <1>5, DeliverKeeps
<1>6. ASSUME Published(l) PROVE Traffic'
  BY <1>1, <1>6, PublishedTells
<1>7. ASSUME Flush(l) PROVE Traffic'
  BY <1>7, FlushKeeps
<1> QED BY <1>2, <1>3, <1>4, <1>5, <1>6, <1>7, Zenon DEF Serve

LEMMA NextTraffic == Inv /\ Traffic /\ [Next]_vars => Traffic'
<1> SUFFICES ASSUME Inv, Traffic, [Next]_vars PROVE Traffic'
  OBVIOUS
<1>0. ASSUME Quiet PROVE Traffic'
  BY <1>0, QuietKeeps
<1>1. CASE Dispatch
  BY <1>0, <1>1, DispatchIsQuiet
<1>2. CASE Stop
  <2>1. UNCHANGED <<sock, registry, serving, mail, wire, sent>>
    BY <1>2, Zenon DEF Stop, accepting
  <2> QED BY <1>0, <2>1, StillIsQuiet
<1>3. ASSUME NEW c \in Client, Accept(c) PROVE Traffic'
  BY <1>0, <1>3, AcceptIsQuiet
<1>4. ASSUME NEW l \in Loop, ProcessPending(l) PROVE Traffic'
  BY <1>0, <1>4, FiniteSinks, PendingIsQuiet
<1>5. ASSUME NEW l \in Loop, ProcessAsync(l) PROVE Traffic'
  BY <1>5, AsyncKeeps
<1>6. ASSUME NEW l \in Loop, NEW c \in Client, Read(l, c) PROVE Traffic'
  BY <1>0, <1>6, ReadIsQuiet
<1>7. ASSUME NEW l \in Loop, NEW c \in Client, RemoveConnection(l, c) PROVE Traffic'
  <2>1. /\ Unregistered({c}) /\ sock' = [sock EXCEPT ![c] = "closed"]
        /\ UNCHANGED <<serving, mail, wire, sent>>
    BY <1>7, Zenon DEF RemoveConnection
  <2>2. \A d \in Client : sock'[d] # "closed" => sock'[d] = sock[d]
    BY <2>1 DEF Inv, Types
  <2> QED BY <1>0, <2>1, <2>2, ClosingIsQuiet
<1>8. ASSUME NEW l \in Loop, Serve(l) PROVE Traffic'
  BY <1>8, ServeTraffic
<1>9. ASSUME NEW l \in Loop, Exit(l) PROVE Traffic'
  BY <1>0, <1>9, ExitIsQuiet
<1>10. ASSUME NEW l \in Loop, StopLoop(l) PROVE Traffic'
  <2>1. UNCHANGED <<sock, registry, serving, mail, wire, sent>>
    BY <1>10, Zenon DEF StopLoop, accepting
  <2> QED BY <1>0, <2>1, StillIsQuiet
<1>11. ASSUME NEW l \in Loop, CloseLoop(l) PROVE Traffic'
  <2>1. /\ Unregistered(Mine(l))
        /\ sock' = [c \in Client |-> IF c \in Mine(l) \cup ToSet(queue[l]) THEN "closed" ELSE sock[c]]
        /\ UNCHANGED <<serving, mail, wire, sent>>
    BY <1>11, Zenon DEF CloseLoop
  <2>2. \A d \in Client : sock'[d] # "closed" => sock'[d] = sock[d]
    BY <2>1
  <2> QED BY <1>0, <2>1, <2>2, ClosingIsQuiet
<1>12. CASE UNCHANGED vars
  <2>1. UNCHANGED <<sock, registry, serving, mail, wire, sent>>
    BY <1>12, Zenon DEF vars, accepting
  <2> QED BY <1>0, <2>1, StillIsQuiet
<1> QED BY <1>1, <1>2, <1>3, <1>4, <1>5, <1>6, <1>7, <1>8, <1>9, <1>10, <1>11, <1>12, Zenon DEF Next

LEMMA TrafficAlways == Spec => [](Inv /\ Traffic)
BY InitInv, NextInv, InitTraffic, NextTraffic, PTL DEF Spec

-----------------------------------------------------------------------------
(* The properties in the words of the model. *)

LEMMA GotIs ==
  ASSUME Traffic, NEW c \in Client
  PROVE  /\ Got(c) = {i \in 1 .. Len(Stream(c)) : IsNews(Stream(c)[i])}
         /\ Received(c) = Messages(Stream(c))
<1>1. Stream(c) \in Seq(Frame)
  BY StreamIs DEF Traffic
<1>2. DOMAIN Stream(c) = 1 .. Len(Stream(c))
  BY <1>1
<1> QED BY <1>2 DEF Got, Received, Messages, IsNews

LEMMA OnTheWayIs ==
  ASSUME Traffic, NEW c \in Client
  PROVE  OnTheWay(c) = Carried(c)
<1>1. ASSUME NEW l \in Loop
      PROVE  /\ DOMAIN todo[l] = 1 .. Len(todo[l])
             /\ \A i \in 1 .. Len(todo[l]) : /\ todo[l][i].frame \in News
                                             /\ todo[l][i] = [to |-> todo[l][i].to, frame |-> todo[l][i].frame]
  <2>1. todo[l] \in Seq(Letter)
    BY DEF Traffic, TrafficTypes
  <2>2. \A i \in 1 .. Len(todo[l]) : todo[l][i] \in Letter
    BY <2>1, LenProperties
  <2>3. \A d \in Letter : d.frame \in News /\ d = [to |-> d.to, frame |-> d.frame]
    BY DEF Letter
  <2> QED BY <2>1, <2>2, <2>3
<1>2. ASSUME NEW f \in OnTheWay(c) PROVE f \in Carried(c)
  <2>1. PICK l \in Loop : f \in {todo[l][i].frame : i \in {j \in DOMAIN todo[l] : todo[l][j].to = c}}
    BY <1>2, Zenon DEF OnTheWay
  <2>2. PICK i \in DOMAIN todo[l] : todo[l][i].to = c /\ f = todo[l][i].frame
    BY <2>1
  <2>3. f \in News /\ [to |-> c, frame |-> f] = todo[l][i] /\ i \in 1 .. Len(todo[l])
    BY <1>1, <2>2
  <2> QED BY <2>3 DEF Carried, Elements
<1>3. ASSUME NEW f \in Carried(c) PROVE f \in OnTheWay(c)
  <2>1. PICK l \in Loop : [to |-> c, frame |-> f] \in Elements(todo[l])
    BY <1>3 DEF Carried
  <2>2. PICK i \in 1 .. Len(todo[l]) : [to |-> c, frame |-> f] = todo[l][i]
    BY <2>1 DEF Elements
  <2>3. i \in DOMAIN todo[l] /\ todo[l][i].to = c /\ todo[l][i].frame = f
    BY <1>1, <2>2
  <2> QED BY <2>3 DEF OnTheWay
<1> QED BY <1>2, <1>3

LEMMA DueIs ==
  ASSUME Traffic, NEW c \in Client
  PROVE  Due(c) = Owed(c)
<1>1. sent \in Seq(Post) /\ Len(sent) \in Nat /\ DOMAIN sent = 1 .. Len(sent)
  BY LenProperties DEF Traffic, TrafficTypes
<1>2. ASSUME NEW f \in Due(c) PROVE f \in Owed(c)
  <2>1. PICK e \in Subscription \X DOMAIN sent : <<c, e[1]>> \in sent[e[2]].due /\ f = Message(e[1], e[2])
    BY <1>2, Zenon DEF Due
  <2>2. PICK s \in Subscription, n \in DOMAIN sent : e = <<s, n>>
    BY <2>1
  <2>3. f = Message(s, n) /\ <<c, s>> \in sent[n].due /\ n \in Nat
    BY <1>1, <2>1, <2>2
  <2>4. f \in News /\ f.n = n /\ f.sub = s
    BY <2>3 DEF Message, News
  <2> QED BY <1>1, <2>3, <2>4 DEF Owed
<1>3. ASSUME NEW f \in Owed(c) PROVE f \in Due(c)
  <2>1. f \in News /\ f.n \in DOMAIN sent /\ <<c, f.sub>> \in sent[f.n].due
    BY <1>1, <1>3 DEF Owed
  <2>2. f = Message(f.sub, f.n) /\ f.sub \in Subscription
    BY <2>1 DEF Message, News
  <2>3. <<f.sub, f.n>> \in {e \in Subscription \X DOMAIN sent : <<c, e[1]>> \in sent[e[2]].due}
    BY <2>1, <2>2
  <2>4. <<f.sub, f.n>>[1] = f.sub /\ <<f.sub, f.n>>[2] = f.n
    OBVIOUS
  <2> QED BY <2>2, <2>3, <2>4, Zenon DEF Due
<1> QED BY <1>2, <1>3

\* PUBLISH reaches a connected subscriber once for each subscription that matched
\* under pubsub_mutex_, whatever is subscribed, unsubscribed or delivered by other
\* loops meanwhile; nobody else gets it.
THEOREM MessagesOnce == Spec => []EachMessageOnce
<1>1. ASSUME Inv, Traffic PROVE EachMessageOnce
  <2> SUFFICES ASSUME NEW c \in sinks
               PROVE  /\ \A i, j \in Got(c) : Stream(c)[i] = Stream(c)[j] => i = j
                      /\ Received(c) \cap OnTheWay(c) = {}
                      /\ Received(c) \cup OnTheWay(c) = Due(c)
    BY DEF EachMessageOnce
  <2>1. c \in Client /\ sock[c] = "open"
    BY <1>1 DEF Inv, Types, Registered
  <2>2. /\ Once(Stream(c))
        /\ Messages(Stream(c)) \cap Carried(c) = {}
        /\ Messages(Stream(c)) \cup Carried(c) = Owed(c)
    BY <1>1, <2>1 DEF Traffic, EachOnce, Single
  <2>3. /\ Got(c) = {i \in 1 .. Len(Stream(c)) : IsNews(Stream(c)[i])}
        /\ Received(c) = Messages(Stream(c))
    BY <1>1, <2>1, GotIs
  <2>4. OnTheWay(c) = Carried(c) /\ Due(c) = Owed(c)
    BY <1>1, <2>1, OnTheWayIs, DueIs
  <2>5. \A i, j \in Got(c) : Stream(c)[i] = Stream(c)[j] => i = j
    BY <2>2, <2>3 DEF Once
  <2> QED BY <2>2, <2>3, <2>4, <2>5
<1> QED BY <1>1, TrafficAlways, PTL

\* Two messages of one publisher arrive in the order in which it sent them, also
\* when the publisher and the subscriber are on different loops.
THEOREM MessagesInOrder == Spec => []PublisherOrder
<1>1. ASSUME Traffic PROVE PublisherOrder
  <2> SUFFICES ASSUME NEW c \in Client, NEW i \in Got(c), NEW j \in Got(c),
                      i < j, sent[Stream(c)[i].n].by = sent[Stream(c)[j].n].by
               PROVE  Stream(c)[i].n <= Stream(c)[j].n
    BY Zenon DEF PublisherOrder
  <2>1. Got(c) = {k \in 1 .. Len(Stream(c)) : IsNews(Stream(c)[k])}
    BY <1>1, GotIs
  <2>2. InTurn(Stream(c), sent)
    BY <1>1 DEF Traffic, Orderly
  <2> QED BY <2>1, <2>2 DEF InTurn, NotAfter
<1> QED BY <1>1, TrafficAlways, PTL

\* The reply to SUBSCRIBE is on the wire before the first message for it, although
\* another loop may put that message in the mailbox before the reply is flushed.
THEOREM AcksFirst == Spec => []AckFirst
<1>1. ASSUME Traffic PROVE AckFirst
  <2> SUFFICES ASSUME NEW c \in Client, NEW j \in DOMAIN wire[c], wire[c][j].kind = "message"
               PROVE  \E i \in 1 .. j - 1 : wire[c][i].kind = "ack" /\ wire[c][i].sub = wire[c][j].sub
    BY DEF AckFirst
  <2>1. wire[c] \in Seq(Frame) /\ Preceded(wire[c])
    BY <1>1 DEF Traffic, TrafficTypes, AckedBefore
  <2>2. j \in 1 .. Len(wire[c])
    BY <2>1
  <2> QED BY <2>1, <2>2 DEF Preceded, IsNews
<1> QED BY <1>1, TrafficAlways, PTL
=============================================================================
