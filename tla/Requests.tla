------------------------------ MODULE Requests ------------------------------
(***************************************************************************)
(* The operations of the store as requests of ShardLocks: which keys they  *)
(* go through in which order, and what one lock discipline covers.         *)
(***************************************************************************)
EXTENDS ShardLocks, SequencesExt

CONSTANT None         \* what a key without an entry holds

Reads(ks) == [writes |-> FALSE, steps |-> [i \in 1 .. Len(ks) |-> [key |-> ks[i], put |-> None]]]
Erases(ks) == [writes |-> TRUE, steps |-> [i \in 1 .. Len(ks) |-> [key |-> ks[i], put |-> None]]]
Writes(kvs) == [writes |-> TRUE, steps |-> [i \in 1 .. Len(kvs) |-> [key |-> kvs[i][1], put |-> kvs[i][2]]]]

\* The entries of a shard, in some order.
KeysOf(s) == SetToSeq({k \in Key : ShardOf[k] = s})

\* The shards that have a key, in order: the others are locked for nothing.
InUse == SelectSeq([s \in Shard |-> s], LAMBDA s : KeysOf(s) # <<>>)

MSet(kvs) == <<Writes(kvs)>>
MGet(ks) == <<Reads(ks)>>
Exists(ks) == <<Reads(ks)>>
Del(ks) == <<Erases(ks)>>

\* The dump of a snapshot holds the locks of all shards at once.
GetAllEntries == <<Reads(FlattenSeq([i \in 1 .. Len(InUse) |-> KeysOf(InUse[i])]))>>

\* FLUSHDB, DBSIZE and KEYS hold one lock at a time.
FlushDb == [i \in 1 .. Len(InUse) |-> Erases(KeysOf(InUse[i]))]
Keys == [i \in 1 .. Len(InUse) |-> Reads(KeysOf(InUse[i]))]

\* EXEC runs its queue command by command.
Exec(queue) == FlattenSeq(queue)
-----------------------------------------------------------------------------
\* website/src/components/Documentation.tsx:15 calls transactions atomic: then
\* one that only reads finds a key the same wherever its queue names it.
ReadsAgree ==
  \A t \in Thread :
    (\A i \in DOMAIN request[t] : ~request[t][i].writes) =>
      \A i, j \in DOMAIN answers[t] :
        \A m \in DOMAIN answers[t][i], n \in DOMAIN answers[t][j] :
          request[t][i].steps[m].key = request[t][j].steps[n].key
            => answers[t][i][m] = answers[t][j][n]
=============================================================================
