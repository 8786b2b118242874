----------------------------- MODULE ShardLocks -----------------------------
(***************************************************************************)
(* The locks of the 32 shards of the store.  A command takes the locks of  *)
(* the shards of its keys one by one in ascending order (the indexes are   *)
(* sorted and made unique), shared or unique, then goes from key to key,   *)
(* and releases the locks one by one.  MSET, MGET, DEL, EXISTS, a command  *)
(* on one key and the dump of a snapshot are one such section; FLUSHDB,    *)
(* DBSIZE and KEYS lock shard after shard, one at a time; EXEC runs the    *)
(* commands of its queue one after the other, with no lock around them.    *)
(*                                                                         *)
(* Left out: the content of the entries, memory and change counters, and   *)
(* times to live (module Store).  The removal of the expired keys that a   *)
(* reader has met is, for the locks, a section of its own for each key.    *)
(***************************************************************************)
EXTENDS Sections, FiniteSets

CONSTANTS Thread,     \* worker threads, the snapshot and eviction threads
          NShards,    \* NUM_SHARDS
          ShardOf,    \* shard_index: the shard of each key
          Request,    \* the requests: non-empty sequences of sections
          MaxCalls    \* bound on the requests of each thread

Shard == 1 .. NShards

ASSUME NShardsAssumption == NShards \in Nat
ASSUME ShardOfAssumption == ShardOf \in [Key -> Shard]
ASSUME RequestAssumption ==
  \A r \in Request : /\ r \in Seq(Section)
                     /\ \A i \in 1 .. Len(r) : r[i].steps # <<>>
ASSUME MaxCallsAssumption == MaxCalls \in Nat

VARIABLES store,      \* shards_: what each key holds
          request,    \* the last request of each thread
          answers,    \* what its finished sections have found
          phase,      \* what the thread does with the next one
          want,       \* involved_shards not yet locked
          held,       \* the shards whose locks it holds
          seen,       \* what its accesses so far have found
          calls       \* requests so far

vars == <<store, request, answers, phase, want, held, seen, calls>>

TypeOK ==
  /\ store \in [Key -> Value]
  /\ request \in [Thread -> Request \cup {<<>>}]
  /\ answers \in [Thread -> Seq(Seq(Value))]
  /\ phase \in [Thread -> {"idle", "locking", "running"}]
  /\ want \in [Thread -> SUBSET Shard]
  /\ held \in [Thread -> SUBSET Shard]
  /\ seen \in [Thread -> Seq(Value)]
  /\ calls \in [Thread -> 0 .. MaxCalls]

Init ==
  /\ store \in [Key -> Value]
  /\ request = [t \in Thread |-> <<>>]
  /\ answers = [t \in Thread |-> <<>>]
  /\ phase = [t \in Thread |-> "idle"]
  /\ want = [t \in Thread |-> {}]
  /\ held = [t \in Thread |-> {}]
  /\ seen = [t \in Thread |-> <<>>]
  /\ calls = [t \in Thread |-> 0]
-----------------------------------------------------------------------------
(* The locks.                                                              *)

Active(t) == Len(answers[t]) < Len(request[t])
Current(t) == request[t][Len(answers[t]) + 1]
Shards(sec) == {ShardOf[sec.steps[i].key] : i \in 1 .. Len(sec.steps)}

\* The next lock that t takes: the indexes are in ascending order.
NextShardUnsorted(t, s) == s \in want[t]
NextShard(t, s) == s \in want[t] /\ \A r \in want[t] : s <= r

\* u holds the lock of s, and it or t, which asks for it, is a writer.
HoldsWritersOnly(u, t, s) == s \in held[u] /\ Current(u).writes
Holds(u, t, s) == s \in held[u] /\ (Current(u).writes \/ Current(t).writes)

\* A lock may also let a writer that waits for s pass before a new reader.
Precedes(u, t, s) ==
  phase[u] = "locking" /\ NextShard(u, s) /\ Current(u).writes /\ ~Current(t).writes

WaitsFor(t, u) ==
  /\ phase[t] = "locking"
  /\ \E s \in Shard : NextShard(t, s) /\ (Holds(u, t, s) \/ Precedes(u, t, s))
-----------------------------------------------------------------------------
(* The steps of a thread.                                                  *)

Call(t) ==
  /\ phase[t] = "idle" /\ ~Active(t)
  /\ calls[t] < MaxCalls
  /\ calls' = [calls EXCEPT ![t] = @ + 1]
  /\ \E r \in Request : request' = [request EXCEPT ![t] = r]
  /\ answers' = [answers EXCEPT ![t] = <<>>]
  /\ UNCHANGED <<store, phase, want, held, seen>>

Begin(t) ==
  /\ phase[t] = "idle" /\ Active(t)
  /\ phase' = [phase EXCEPT ![t] = "locking"]
  /\ want' = [want EXCEPT ![t] = Shards(Current(t))]
  /\ UNCHANGED <<store, request, answers, held, seen, calls>>

\* Which of two waiting threads the lock lets in first is open: a reader may
\* pass a writer that waits.
Lock(t) ==
  /\ phase[t] = "locking"
  /\ \E s \in want[t] :
       /\ NextShard(t, s)
       /\ \A u \in Thread : ~Holds(u, t, s)
       /\ want' = [want EXCEPT ![t] = @ \ {s}]
       /\ held' = [held EXCEPT ![t] = @ \cup {s}]
       /\ phase' = [phase EXCEPT ![t] = IF want[t] = {s} THEN "running" ELSE @]
  /\ UNCHANGED <<store, request, answers, seen, calls>>

Complete(t) == Len(seen[t]) = Len(Current(t).steps)

Access(t) ==
  /\ phase[t] = "running" /\ ~Complete(t)
  /\ LET step == Current(t).steps[Len(seen[t]) + 1]
     IN /\ seen' = [seen EXCEPT ![t] = Append(@, store[step.key])]
        /\ store' = IF Current(t).writes
                    THEN [store EXCEPT ![step.key] = step.put]
                    ELSE store
  /\ UNCHANGED <<request, answers, phase, want, held, calls>>

Unlock(t) ==
  /\ phase[t] = "running" /\ Complete(t)
  /\ \E s \in held[t] :
       /\ held' = [held EXCEPT ![t] = @ \ {s}]
       /\ IF held[t] = {s}
          THEN /\ phase' = [phase EXCEPT ![t] = "idle"]
               /\ answers' = [answers EXCEPT ![t] = Append(@, seen[t])]
               /\ seen' = [seen EXCEPT ![t] = <<>>]
          ELSE UNCHANGED <<phase, answers, seen>>
  /\ UNCHANGED <<store, request, want, calls>>

\* Nothing is left to do: the bound on the calls is reached.
Finished ==
  /\ \A t \in Thread : phase[t] = "idle" /\ ~Active(t) /\ calls[t] = MaxCalls
  /\ UNCHANGED vars

Step(t) == Call(t) \/ Begin(t) \/ Lock(t) \/ Access(t) \/ Unlock(t)
Next == (\E t \in Thread : Step(t)) \/ Finished

Spec == Init /\ [][Next]_vars
-----------------------------------------------------------------------------
(* Properties.                                                             *)

\* No set of threads waits only for threads of the set, whatever the lock
\* prefers: neither two MSETs with their keys in opposite orders, nor an MSET
\* between an MGET and the dump, nor a command with two keys of one shard
\* (store.hpp sorts the shard indexes and makes them unique).
NoWaitCycle ==
  \A S \in SUBSET Thread :
     S # {} => \E t \in S : \A u \in S : ~WaitsFor(t, u)

\* What t still has to write counts as written, and what it still has to read
\* as read, once it holds all its locks.
Pending(t, k) ==
  /\ phase[t] = "running" /\ Current(t).writes
  /\ Touches(Current(t), Len(seen[t]) + 1, Len(Current(t).steps), k)

Rest(t) == After(store, Current(t), Len(seen[t]) + 1, Len(Current(t).steps))

Committed ==
  [k \in Key |-> IF \E t \in Thread : Pending(t, k)
                 THEN Rest(CHOOSE t \in Thread : Pending(t, k))[k]
                 ELSE store[k]]

Outcome(t) ==
  [i \in 1 .. Len(Current(t).steps) |->
     IF i <= Len(seen[t]) THEN seen[t][i]
     ELSE After(store, Current(t), Len(seen[t]) + 1, i - 1)[Current(t).steps[i].key]]

Atomic == INSTANCE AtomicKeyspace WITH
  db <- Committed,
  done <- [t \in Thread |-> phase[t] = "running"],
  found <- [t \in Thread |-> IF phase[t] = "running" THEN Outcome(t) ELSE <<>>]

\* Every section takes effect in one step: MSET is seen whole or not at all,
\* MGET and the dump see one moment, and DEL counts a key named twice once
\* (docs/en.md:118, tests/test_multi_key.py:119).
ImplementsKeyspace == Atomic!Spec
=============================================================================
