--------------------------- MODULE AtomicKeyspace ---------------------------
(***************************************************************************)
(* What the keyspace promises to the threads that call it, without shards  *)
(* and locks: a request is a list of sections, and each section reads and  *)
(* writes all of its keys in one step.  MSET, MGET, DEL, EXISTS, a command *)
(* on one key and the dump of a snapshot are one section; FLUSHDB, DBSIZE  *)
(* and KEYS are one section for each shard; EXEC is one for each command   *)
(* of its queue.  Between two sections of a request other threads may act. *)
(***************************************************************************)
EXTENDS Sections

CONSTANTS Thread,     \* the threads that call the store
          Request     \* the requests, sequences of sections

VARIABLES db,         \* what each key holds
          request,    \* the last request of each thread
          answers,    \* what its finished sections have found
          done,       \* is the next section done, but not answered?
          found       \* what that section has found

vars == <<db, request, answers, done, found>>

Active(t) == Len(answers[t]) < Len(request[t])
Current(t) == request[t][Len(answers[t]) + 1]

Init ==
  /\ db \in [Key -> Value]
  /\ request = [t \in Thread |-> <<>>]
  /\ answers = [t \in Thread |-> <<>>]
  /\ done = [t \in Thread |-> FALSE]
  /\ found = [t \in Thread |-> <<>>]

Call(t) ==
  /\ ~Active(t)
  /\ \E r \in Request : request' = [request EXCEPT ![t] = r]
  /\ answers' = [answers EXCEPT ![t] = <<>>]
  /\ UNCHANGED <<db, done, found>>

Commit(t) ==
  /\ Active(t) /\ ~done[t]
  /\ done' = [done EXCEPT ![t] = TRUE]
  /\ found' = [found EXCEPT ![t] = Finds(db, Current(t))]
  /\ db' = After(db, Current(t), 1, Len(Current(t).steps))
  /\ UNCHANGED <<request, answers>>

Return(t) ==
  /\ done[t]
  /\ done' = [done EXCEPT ![t] = FALSE]
  /\ answers' = [answers EXCEPT ![t] = Append(@, found[t])]
  /\ found' = [found EXCEPT ![t] = <<>>]
  /\ UNCHANGED <<db, request>>

Next == \E t \in Thread : Call(t) \/ Commit(t) \/ Return(t)

Spec == Init /\ [][Next]_vars
=============================================================================
