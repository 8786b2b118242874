---------------------------- MODULE MCShardLocks ----------------------------
(* Four keys in three shards, and the requests that can meet on them: each *)
(* of the commands on several keys names its keys in another order.        *)
EXTENDS Requests

CONSTANTS a, b, c, d, v1, v2

MCShardOf == (a :> 3) @@ (b :> 1) @@ (c :> 1) @@ (d :> 2)

MCRequest == {MSet(<< <<a, v1>>, <<b, v1>>, <<a, v2>> >>),
              Del(<<d, a, d>>),
              MGet(<<b, d, c>>),
              Exists(<<c, a>>),
              Keys,
              GetAllEntries,
              FlushDb,
              Exec(<<MGet(<<b>>), MGet(<<a, b>>)>>)}

\* A transaction that reads a key twice, and a command that writes it.
ReadTwice == {Exec(<<MGet(<<b>>), MGet(<<a, b>>)>>), MSet(<< <<b, v1>> >>)}

\* The contents to start with: every key has an entry.
MCInit == Init /\ store = [k \in Key |-> v2]
MCSpec == MCInit /\ [][Next]_vars
=============================================================================
