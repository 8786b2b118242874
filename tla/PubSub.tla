------------------------------- MODULE PubSub -------------------------------
(***************************************************************************)
(* The life of a connection and the channels: the accept thread hands      *)
(* sockets to the worker event loops, a loop registers them and runs their *)
(* commands, PUBLISH delivers to the sinks of subscribers of every loop,   *)
(* and Server::stop takes the loops down one after the other               *)
(* (server.hpp, event_loop.hpp, commands.hpp).                             *)
(*                                                                         *)
(* pubsub_mutex_ is held for one step of the model: what runs under it     *)
(* calls nothing back.  The calls of the sinks are steps of their own.     *)
(* Left out: the eventfd (a loop also wakes up every EPOLL_TIMEOUT_MS),    *)
(* partial writes (write_buf and the socket are one stream) and blocked    *)
(* connections (module EventLoop).                                         *)
(***************************************************************************)
EXTENDS Integers, FiniteSets, SequencesExt, Functions, Data

CONSTANTS Client,       \* sockets, in the order in which they connect
          Loops,        \* number of worker event loops
          Unreliable,   \* loops whose start() may fail
          Channel,
          Pattern,      \* what PSUBSCRIBE subscribes to
          Matches,      \* <<pattern, channel>> for which glob_match holds
          Arguments,    \* the argument lists of SUBSCRIBE and UNSUBSCRIBE
          Subscribers,  \* clients that subscribe and unsubscribe
          Publishers,   \* clients that publish
          None,         \* no socket
          MaxCommands   \* bound on the commands of a client

Loop == 1 .. Loops
Subscription == Channel \cup Pattern

ASSUME LoopsAssumption == Loops \in Nat \ {0} /\ Unreliable \subseteq Loop
ASSUME RolesAssumption == Subscribers \subseteq Client /\ Publishers \subseteq Client
ASSUME NamesAssumption == Channel \cap Pattern = {} /\ None \notin Client
ASSUME MatchesAssumption == Matches \subseteq Pattern \X Channel
ASSUME ArgumentsAssumption ==
  \A ss \in Arguments :
    /\ ss \in Seq(Subscription) /\ ss # <<>>
    /\ ToSet(ss) \subseteq Channel \/ ToSet(ss) \subseteq Pattern
ASSUME BoundsAssumption == MaxCommands \in Nat

VARIABLES
  sock,      \* of each socket: "new", "accepted", "pending", "open", "closed"
  hand,      \* the socket between accept() and add_client
  robin,     \* round_robin_index_
  home,      \* the loop a socket was given to
  queue,     \* pending_conns_ of each loop
  sinks,     \* client_sinks_
  subs,      \* subscriptions_
  running,   \* running_ of each loop
  pc,        \* thread of each loop: "wait", "read", "deliver", "gone"
  conn,      \* whom the loop serves
  out,       \* scratch_out_batch_ of the loop
  todo,      \* deliveries: the sinks PUBLISH has yet to call
  count,     \* recipients.size()
  mail,      \* async_state->pending
  wire,      \* what has been written to a socket
  stopping,  \* the loop that Server::stop takes down, 0 before
  joining,   \* whether it waits for the thread of that loop
  done,      \* commands of each client
  sent,      \* history: for each message its publisher and to whom it is due
  late       \* history: sockets given to a loop that did not run any more

accepting == <<sock, hand, robin, home, queue, late>>
serving   == <<pc, conn, out, todo, count>>
registry  == <<sinks, subs>>
stop      == <<stopping, joining>>
vars == <<accepting, registry, running, serving, mail, wire, stop, done, sent>>

Nobody == [c \in Client |-> <<>>]

Init ==
  /\ sock = [c \in Client |-> "new"] /\ hand = None /\ robin = 0
  /\ home = [c \in Client |-> 0] /\ queue = [l \in Loop |-> <<>>] /\ late = {}
  /\ sinks = {} /\ subs = Nobody
  /\ \E failed \in SUBSET Unreliable :
       /\ running = [l \in Loop |-> l \notin failed]
       /\ pc = [l \in Loop |-> IF l \in failed THEN "gone" ELSE "wait"]
  /\ conn = [l \in Loop |-> None] /\ out = [l \in Loop |-> <<>>]
  /\ todo = [l \in Loop |-> <<>>] /\ count = [l \in Loop |-> 0]
  /\ mail = Nobody /\ wire = Nobody
  /\ stopping = 0 /\ joining = FALSE /\ done = [c \in Client |-> 0] /\ sent = <<>>

-----------------------------------------------------------------------------
(* From accept() to the registration.                                      *)

\* Server::stop clears running_ of the server first.
Accept(c) ==
  /\ stopping = 0 /\ hand = None /\ sock[c] = "new"
  /\ hand' = c /\ sock' = [sock EXCEPT ![c] = "accepted"]
  /\ UNCHANGED <<robin, home, queue, late, registry, running, serving, mail,
                 wire, stop, done, sent>>

\* The next loop in turn gets the socket, whether it runs or not.
Dispatch ==
  /\ hand # None
  /\ LET l == (robin % Loops) + 1
     IN /\ home' = [home EXCEPT ![hand] = l]
        /\ queue' = [queue EXCEPT ![l] = Append(@, hand)]
        /\ late' = IF running[l] \/ (stopping = l /\ joining) THEN late ELSE late \cup {hand}
  /\ robin' = robin + 1
  /\ sock' = [sock EXCEPT ![hand] = "pending"]
  /\ hand' = None
  /\ UNCHANGED <<registry, running, serving, mail, wire, stop, done, sent>>

\* Mutant: a socket that cannot be watched is forgotten, not closed.
ProcessPendingLeaks(l) ==
  /\ pc[l] = "wait" /\ queue[l] # <<>>
  /\ \E ok \in SUBSET ToSet(queue[l]) :
       /\ sock' = [c \in Client |-> IF c \in ok THEN "open" ELSE sock[c]]
       /\ sinks' = sinks \cup ok
  /\ queue' = [queue EXCEPT ![l] = <<>>]
  /\ UNCHANGED <<hand, robin, home, late, subs, running, serving, mail, wire,
                 stop, done, sent>>

\* What epoll_ctl refuses is closed.
ProcessPending(l) ==
  /\ pc[l] = "wait" /\ queue[l] # <<>>
  /\ \E ok \in SUBSET ToSet(queue[l]) :
       /\ sock' = [c \in Client |-> IF c \in ok THEN "open"
                                    ELSE IF c \in ToSet(queue[l]) THEN "closed"
                                    ELSE sock[c]]
       /\ sinks' = sinks \cup ok
  /\ queue' = [queue EXCEPT ![l] = <<>>]
  /\ UNCHANGED <<hand, robin, home, late, subs, running, serving, mail, wire,
                 stop, done, sent>>

-----------------------------------------------------------------------------
(* The thread of a loop.                                                   *)

Ack(s, n)       == [kind |-> "ack", sub |-> s, n |-> n]
Message(s, n)   == [kind |-> "message", sub |-> s, n |-> n]
Reply(n)        == [kind |-> "reply", n |-> n]
Goto(l, where)  == pc' = [pc EXCEPT ![l] = where]
Tell(l, frames) == out' = [out EXCEPT ![l] = @ \o frames]

\* handle_read: there are requests of c to serve.
Read(l, c) ==
  /\ pc[l] = "wait" /\ sock[c] = "open" /\ home[c] = l /\ done[c] < MaxCommands
  /\ Goto(l, "read")
  /\ conn' = [conn EXCEPT ![l] = c]
  /\ UNCHANGED <<accepting, registry, running, out, todo, count, mail, wire,
                 stop, done, sent>>

\* The next request of the connection, which is one of cs.
Command(l, cs) ==
  /\ pc[l] = "read" /\ conn[l] \in cs /\ done[conn[l]] < MaxCommands
  /\ done' = [done EXCEPT ![conn[l]] = @ + 1]

\* Mutant: SUBSCRIBE does not look for the subscription first.
AddedTwice(ss, s) == Append(ss, s)

Added(ss, s) == IF s \in ToSet(ss) THEN ss ELSE Append(ss, s)

Removed(ss, s) == Filter(ss, ToSet(ss) \ {s})

\* The subscriptions of the connection after the arguments given, and the
\* acknowledgement of each argument.
Subscribe(l, ss) ==
  LET c == conn[l]
      After[i \in 0 .. Len(ss)] == IF i = 0 THEN subs[c] ELSE Added(After[i - 1], ss[i])
  IN /\ Command(l, Subscribers)
     /\ subs' = [subs EXCEPT ![c] = After[Len(ss)]]
     /\ Tell(l, [i \in DOMAIN ss |-> Ack(ss[i], Len(After[i]))])
     /\ UNCHANGED <<accepting, sinks, running, pc, conn, todo, count, mail, wire,
                    stop, sent>>

Unsubscribe(l, ss) ==
  LET c == conn[l]
      After[i \in 0 .. Len(ss)] == IF i = 0 THEN subs[c] ELSE Removed(After[i - 1], ss[i])
  IN /\ Command(l, Subscribers)
     /\ subs' = [subs EXCEPT ![c] = After[Len(ss)]]
     /\ Tell(l, [i \in DOMAIN ss |-> Reply(Len(After[i]))])
     /\ UNCHANGED <<accepting, sinks, running, pc, conn, todo, count, mail, wire,
                    stop, sent>>

\* UNSUBSCRIBE and PUNSUBSCRIBE without arguments.
UnsubscribeAll(l, kind) ==
  LET c == conn[l]
      rest == Filter(subs[c], ToSet(subs[c]) \ kind)
  IN /\ Command(l, Subscribers)
     /\ subs' = [subs EXCEPT ![c] = rest]
     /\ Tell(l, <<Reply(Len(rest))>>)
     /\ UNCHANGED <<accepting, sinks, running, pc, conn, todo, count, mail, wire,
                    stop, sent>>

Hears(s, ch) == s = ch \/ <<s, ch>> \in Matches

\* The frames of one client, one for each subscription that matches.
Frames(c, ch, n) ==
  LET heard == Filter(subs[c], {s \in ToSet(subs[c]) : Hears(s, ch)})
  IN  [i \in DOMAIN heard |-> [to |-> c, frame |-> Message(heard[i], n)]]

\* publish_message: the deliveries are collected under the mutex, clients in
\* any order.
Publish(l, ch) ==
  LET n == Len(sent) + 1
      heard == {c \in sinks : Frames(c, ch, n) # <<>>}
  IN /\ Command(l, Publishers)
     /\ \E order \in SetToSeqs(heard) :
          todo' = [todo EXCEPT ![l] = FlattenSeq([i \in DOMAIN order |-> Frames(order[i], ch, n)])]
     /\ count' = [count EXCEPT ![l] = Cardinality(heard)]
     /\ sent' = Append(sent, [by |-> conn[l],
                              due |-> UNION {{<<c, s>> : s \in {x \in ToSet(subs[c]) : Hears(x, ch)}} :
                                              c \in heard}])
     /\ Goto(l, "deliver")
     /\ UNCHANGED <<accepting, registry, running, conn, out, mail, wire, stop>>

\* Mutant: the sink of a connection of the same loop writes to its socket.
DeliverDirect(l) ==
  LET d == Head(todo[l])
  IN /\ pc[l] = "deliver" /\ todo[l] # <<>>
     /\ IF home[d.to] = l /\ sock[d.to] = "open"
        THEN wire' = [wire EXCEPT ![d.to] = Append(@, d.frame)] /\ UNCHANGED mail
        ELSE mail' = [mail EXCEPT ![d.to] = Append(@, d.frame)] /\ UNCHANGED wire
     /\ todo' = [todo EXCEPT ![l] = Tail(@)]
     /\ UNCHANGED <<accepting, registry, running, pc, conn, out, count, stop, done, sent>>

\* Mutant: what comes later goes to the front.
DeliverInFront(l) ==
  LET d == Head(todo[l])
  IN /\ pc[l] = "deliver" /\ todo[l] # <<>>
     /\ mail' = [mail EXCEPT ![d.to] = <<d.frame>> \o @]
     /\ todo' = [todo EXCEPT ![l] = Tail(@)]
     /\ UNCHANGED <<accepting, registry, running, pc, conn, out, count, wire, stop, done, sent>>

\* A sink keeps the mailbox alive: nothing is lost when it is called late, and
\* nobody reads it when the connection is gone.
Deliver(l) ==
  LET d == Head(todo[l])
  IN /\ pc[l] = "deliver" /\ todo[l] # <<>>
     /\ mail' = [mail EXCEPT ![d.to] = Append(@, d.frame)]
     /\ todo' = [todo EXCEPT ![l] = Tail(@)]
     /\ UNCHANGED <<accepting, registry, running, pc, conn, out, count, wire,
                    stop, done, sent>>

Published(l) ==
  /\ pc[l] = "deliver" /\ todo[l] = <<>>
  /\ Tell(l, <<Reply(count[l])>>)
  /\ Goto(l, "read")
  /\ UNCHANGED <<accepting, registry, running, conn, todo, count, mail, wire,
                 stop, done, sent>>

\* The end of handle_read.
Flush(l) ==
  /\ pc[l] = "read" /\ out[l] # <<>>
  /\ wire' = [wire EXCEPT ![conn[l]] = @ \o out[l]]
  /\ out' = [out EXCEPT ![l] = <<>>]
  /\ conn' = [conn EXCEPT ![l] = None]
  /\ Goto(l, "wait")
  /\ UNCHANGED <<accepting, registry, running, todo, count, mail, stop, done, sent>>

Mine(l) == {c \in Client : sock[c] = "open" /\ home[c] = l}

\* Mutant: only a connection that has been written nothing gets its mail.
ProcessAsyncIdle(l) ==
  /\ pc[l] = "wait" /\ \E c \in Mine(l) : mail[c] # <<>>
  /\ LET idle == {c \in Mine(l) : wire[c] = <<>>}
     IN /\ wire' = [c \in Client |-> IF c \in idle THEN mail[c] ELSE wire[c]]
        /\ mail' = [c \in Client |-> IF c \in idle THEN <<>> ELSE mail[c]]
  /\ UNCHANGED <<accepting, registry, running, serving, stop, done, sent>>

ProcessAsync(l) ==
  /\ pc[l] = "wait" /\ \E c \in Mine(l) : mail[c] # <<>>
  /\ wire' = [c \in Client |-> IF c \in Mine(l) THEN wire[c] \o mail[c] ELSE wire[c]]
  /\ mail' = [c \in Client |-> IF c \in Mine(l) THEN <<>> ELSE mail[c]]
  /\ UNCHANGED <<accepting, registry, running, serving, stop, done, sent>>

\* unregister_client and close for all of cs.
Unregistered(cs) ==
  /\ sinks' = sinks \ cs
  /\ subs' = [c \in Client |-> IF c \in cs THEN <<>> ELSE subs[c]]

\* remove_connection: c has hung up, or said QUIT.
RemoveConnection(l, c) ==
  /\ pc[l] = "wait" /\ c \in Mine(l)
  /\ Unregistered({c})
  /\ sock' = [sock EXCEPT ![c] = "closed"]
  /\ UNCHANGED <<hand, robin, home, queue, late, running, serving, mail, wire,
                 stop, done, sent>>

\* Mutant: the thread does not look at running_ while it has mail.
ExitIdle(l) ==
  /\ pc[l] = "wait" /\ ~running[l] /\ \A c \in Client : mail[c] = <<>>
  /\ Goto(l, "gone")
  /\ UNCHANGED <<accepting, registry, running, conn, out, todo, count, mail, wire,
                 stop, done, sent>>

\* The thread looks at running_ between two turns only.
Exit(l) ==
  /\ pc[l] = "wait" /\ ~running[l]
  /\ Goto(l, "gone")
  /\ UNCHANGED <<accepting, registry, running, conn, out, todo, count, mail, wire,
                 stop, done, sent>>

-----------------------------------------------------------------------------
(* Server::stop.                                                           *)

Stop ==
  /\ stopping = 0
  /\ stopping' = 1
  /\ UNCHANGED <<accepting, registry, running, serving, mail, wire, joining, done, sent>>

\* Mutant: sockets that no loop has registered yet stay open.
CloseLoopRegistered(l) ==
  /\ stopping = l /\ joining /\ pc[l] = "gone"
  /\ Unregistered(Mine(l))
  /\ sock' = [c \in Client |-> IF c \in Mine(l) THEN "closed" ELSE sock[c]]
  /\ queue' = [queue EXCEPT ![l] = <<>>]
  /\ joining' = FALSE /\ stopping' = l + 1
  /\ UNCHANGED <<hand, robin, home, late, running, serving, mail, wire, done, sent>>

\* WorkerEventLoop::stop: nothing to do for a loop that did not start.
StopLoop(l) ==
  /\ stopping = l /\ ~joining
  /\ running' = [running EXCEPT ![l] = FALSE]
  /\ IF running[l] THEN joining' = TRUE /\ UNCHANGED stopping
     ELSE stopping' = l + 1 /\ UNCHANGED joining
  /\ UNCHANGED <<accepting, registry, serving, mail, wire, done, sent>>

\* When the thread has ended, its connections are closed and unregistered, and
\* then the sockets of pending_conns_ are closed.
CloseLoop(l) ==
  /\ stopping = l /\ joining /\ pc[l] = "gone"
  /\ Unregistered(Mine(l))
  /\ sock' = [c \in Client |-> IF c \in Mine(l) \cup ToSet(queue[l]) THEN "closed" ELSE sock[c]]
  /\ queue' = [queue EXCEPT ![l] = <<>>]
  /\ joining' = FALSE /\ stopping' = l + 1
  /\ UNCHANGED <<hand, robin, home, late, running, serving, mail, wire, done, sent>>

-----------------------------------------------------------------------------
Serve(l) ==
  \/ \E ss \in Arguments : Subscribe(l, ss) \/ Unsubscribe(l, ss)
  \/ UnsubscribeAll(l, Channel) \/ UnsubscribeAll(l, Pattern)
  \/ \E ch \in Channel : Publish(l, ch)
  \/ Deliver(l) \/ Published(l) \/ Flush(l)

Next ==
  \/ \E c \in Client : Accept(c)
  \/ Dispatch
  \/ \E l \in Loop : \/ ProcessPending(l) \/ ProcessAsync(l)
                     \/ \E c \in Client : Read(l, c) \/ RemoveConnection(l, c)
                     \/ Serve(l)
                     \/ Exit(l)
                     \/ StopLoop(l) \/ CloseLoop(l)
  \/ Stop

Spec == Init /\ [][Next]_vars

\* Threads are scheduled, a turn of a loop ends, and epoll_wait returns after
\* EPOLL_TIMEOUT_MS at the latest.  Nobody has to connect, to send or to stop.
Fairness ==
  /\ WF_vars(Dispatch)
  /\ \A l \in Loop :
       /\ WF_vars(Serve(l)) /\ WF_vars(ProcessPending(l)) /\ WF_vars(ProcessAsync(l))
       /\ WF_vars(Exit(l)) /\ WF_vars(StopLoop(l)) /\ WF_vars(CloseLoop(l))

FairSpec == Spec /\ Fairness

-----------------------------------------------------------------------------
(* Properties.                                                             *)

\* What has reached a client or waits for its loop, and the messages in it.
Stream(c) == wire[c] \o mail[c]

Got(c) == {i \in DOMAIN Stream(c) : Stream(c)[i].kind = "message"}

Received(c) == {Stream(c)[i] : i \in Got(c)}

OnTheWay(c) == UNION {{todo[l][i].frame : i \in {j \in DOMAIN todo[l] : todo[l][j].to = c}} : l \in Loop}

\* The messages published with c among those who are to have them.
Due(c) == {Message(d[1], d[2]) : d \in {e \in Subscription \X DOMAIN sent : <<c, e[1]>> \in sent[e[2]].due}}

\* While a client is connected, a message is on its way to it or has reached
\* it once for each of its subscriptions that matched when PUBLISH held the
\* mutex, and never for another subscription.
EachMessageOnce ==
  \A c \in sinks :
    /\ \A i, j \in Got(c) : Stream(c)[i] = Stream(c)[j] => i = j
    /\ Received(c) \cap OnTheWay(c) = {}
    /\ Received(c) \cup OnTheWay(c) = Due(c)

\* Messages of one publisher reach a client in the order in which they were
\* published.
PublisherOrder ==
  \A c \in Client : \A i, j \in Got(c) :
    LET m == Stream(c)[i].n
        n == Stream(c)[j].n
    IN i < j /\ sent[m].by = sent[n].by => m <= n

\* A client sees the acknowledgement of a subscription before the first
\* message for it, whatever loop the message comes from.
AckFirst ==
  \A c \in Client : \A j \in DOMAIN wire[c] :
    wire[c][j].kind = "message" =>
      \E i \in 1 .. j - 1 : wire[c][i].kind = "ack" /\ wire[c][i].sub = wire[c][j].sub

\* When Server::stop has been through all loops, every socket is closed and no
\* client registered, except for sockets that accept handed to a loop that did
\* not run any more.
StopClosesAll ==
  stopping = Loops + 1 /\ hand = None =>
    /\ sinks = {} /\ subs = Nobody
    /\ \A c \in Client : sock[c] \in {"new", "closed"} \/ c \in late

\* What a sink was given is written to its connection, while that is open.
MailArrives ==
  \A c \in Client :
    (sock[c] = "open" /\ mail[c] # <<>>) ~> (mail[c] = <<>> \/ sock[c] # "open")

\* A socket that was accepted is served or closed, except for those that came
\* too late.
AcceptedIsServed ==
  \A c \in Client : sock[c] = "accepted" ~> (sock[c] \in {"open", "closed"} \/ c \in late)

\* Server::stop gets through the joins of all loops.
StopEnds == stopping = 1 ~> stopping = Loops + 1
=============================================================================
