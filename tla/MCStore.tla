------------------------------ MODULE MCStore ------------------------------
(* One thread asks for memory and reads, the other writes collections,     *)
(* changes times to live and flushes; the two keys share a shard.          *)
EXTENDS Store

CONSTANTS k1, k2, t1, t2

MCShardOf == [k \in Keys |-> 1]
MCAsks == [t \in Threads |->
    IF t = t1 THEN {"checked", "read"} ELSE {"unchecked", "flush"}]
MCUses == [k \in Keys |->
    IF k = k1 THEN {"string", "list"} ELSE {"string", "hash", "set", "zset"}]
MCRank == [k \in Keys |-> IF k = k1 THEN 1 ELSE 2]
=============================================================================
