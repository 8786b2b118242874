---------------------------- MODULE MCEventLoop ----------------------------
(* Small instances of EventLoop for TLC. *)
EXTENDS EventLoop

(* A consumer with a worker of its own and a producer with another. *)
MCClients == {"consumer", "producer"}
MCWorkers == {"w1", "w2"}
TwoWorkers == "consumer" :> "w1" @@ "producer" :> "w2"

(* A consumer of two lists that pipelines, and a producer that fills them,  *)
(* in a transaction or not.                                                 *)
Await == BlockingPop(<<"k1", "k2">>, TRUE)

QueueOfWork ==
  "consumer" :> <<{Await}, {Await, Op("publish"), Op("quit")}>> @@
  "producer" :> <<{Push("k1", 1), Op("multi"), Op("subscribe")},
                  {Push("k2", 2), Pop("k1")},
                  {Op("exec"), Op("discard"), Push("k2", 1)}>>

(* One value for one client that waits. *)
OnePop == "consumer" :> <<{Await}>> @@ "producer" :> <<{Push("k1", 1)}>>

(* A subscriber waits for a list while somebody publishes. *)
WaitingSubscriber ==
  "consumer" :> <<{Op("subscribe")}, {Await}, {Push("k2", 1)}>> @@ "producer" :> <<{Op("publish")}>>

(* A blocking pop in a transaction. *)
PopInExec == "consumer" :> <<{Op("multi")}, {Await}, {Op("exec")}, {Push("k2", 1)}>> @@ "producer" :> <<>>
=============================================================================
