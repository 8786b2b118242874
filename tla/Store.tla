------------------------------- MODULE Store -------------------------------
(***************************************************************************)
(* The keyspace of kvllay (src/include/kvllay/store.hpp) with its expiry,  *)
(* its accounting of memory and its eviction.                              *)
(*                                                                         *)
(* A key lives in one shard.  What a command does to the keys it names     *)
(* happens under the unique locks of their shards and is one step.  The    *)
(* places where the code lets go of a lock, or never has one that covers   *)
(* all it does, are the steps of this module:                              *)
(*   - a read that finds an expired entry under the shared lock and comes  *)
(*     back for it under the unique lock (Lookup, GetSlow, MGetSlow);      *)
(*   - check_memory_and_evict: the check, the choice of a victim under     *)
(*     shared locks, its erasure under a unique lock, and only then the    *)
(*     write that was admitted (Check, PickVictim, Evict, ...);            *)
(*   - FLUSHDB, shard by shard, the counter last;                          *)
(*   - the sweep of the eviction thread, shard by shard.                   *)
(*                                                                         *)
(* The content of an entry is its size n in units of memory; the 112 bytes *)
(* and the name that every entry is charged with are Overhead.  Time is a  *)
(* clock that stops at MaxTime.  A command reads it and takes its first    *)
(* lock in one step.                                                       *)
(***************************************************************************)
EXTENDS Data, FiniteSets

CONSTANTS
    Keys,           \* key names
    Threads,        \* worker threads, each in one command at a time
    Asks,           \* the groups of commands the clients of a thread send
    Uses,           \* the kinds of entry clients keep under each key
    NumShards,      \* shards are 1..NumShards
    ShardOf,        \* shard_index: the shard of each key
    Policy,         \* maxmemory_policy_
    MaxMemory,      \* maxmemory_, 0 for no limit
    Overhead,       \* memory of an entry beside its content
    MaxSize,        \* bound: the largest content
    TTLs,           \* times to live a client may ask for
    MaxTime,        \* bound: the clock stops here
    Sampled,        \* candidates looked at per shard (5 in the code)
    BatchPerShard,  \* limit_per_shard of a sweep (4 in the code)
    Rank            \* the order in which a sweep walks keys_with_ttl

Shards == 1 .. NumShards
Kinds == {"string", "list", "hash", "set", "zset"}
Policies == {"noeviction", "allkeys-lru", "volatile-lru", "volatile-ttl",
             "allkeys-random"}

Groups == {"checked", "unchecked", "read", "flush"}

ASSUME StoreAssumption ==
    /\ Uses \in [Keys -> SUBSET Kinds]
    /\ Asks \in [Threads -> SUBSET Groups]
    /\ NumShards \in Nat \ {0}
    /\ ShardOf \in [Keys -> Shards]
    /\ Policy \in Policies
    /\ MaxMemory \in Nat /\ Overhead \in Nat \ {0} /\ MaxSize \in Nat \ {0}
    /\ TTLs \subseteq Nat \ {0} /\ MaxTime \in Nat
    /\ Sampled \in Nat \ {0} /\ BatchPerShard \in Nat \ {0}
    /\ Rank \in [Keys -> Nat]

\* A name is a string whose length fits into a size_t: there are finitely many.
ASSUME KeysAssumption == IsFiniteSet(Keys)

VARIABLES
    data,           \* the entries of all shards
    keys_with_ttl,  \* the index of the keys that have an expiry
    used_memory,    \* used_memory_
    clock,          \* current_time_ms()
    pc,             \* where each thread is inside its command
    sweep           \* the eviction thread: the shard it is at, 0 if asleep

vars == <<data, keys_with_ttl, used_memory, clock, pc, sweep>>
stored == <<data, keys_with_ttl, used_memory>>

None == [kind |-> "none", n |-> 0, exp |-> 0]
Entry == [kind : Kinds, n : 1 .. MaxSize, exp : 0 .. MaxTime] \cup {None}

Idle == [at |-> "idle", keys |-> {}, now |-> 0, shard |-> 0]
Places == {"idle", "get", "mread", "mget", "evicting", "victim", "verdict",
           "admitted", "flush"}

Init ==
    /\ data = [k \in Keys |-> None]
    /\ keys_with_ttl = {}
    /\ used_memory = 0
    /\ clock = 0
    /\ pc = [t \in Threads |-> Idle]
    /\ sweep = [shard |-> 0, now |-> 0]

-----------------------------------------------------------------------------
(* Entries and their memory.                                               *)

Present(k) == data[k] # None
Stored == {k \in Keys : Present(k)}
Expired(e, now) == e.exp # 0 /\ e.exp <= now

\* estimate_entry_memory.
Estimate(e) == IF e = None THEN 0 ELSE Overhead + e.n

\* The memory of the entries under the names in K.
Sizes == [k \in Keys |-> Estimate(data[k])]
Memory(K) == Total(Sizes, K)

\* sub_memory: the counter stops at zero.
Sub(used, bytes) == IF bytes >= used THEN 0 ELSE used - bytes

\* The counter after an entry went from old to new bytes.
Delta(used, old, new) ==
    IF new >= old THEN used + (new - old) ELSE Sub(used, old - new)

\* What a write finds under its unique lock: an expired entry is erased
\* first, with its memory and its place in the index.
Find(k) == IF Expired(data[k], clock) THEN None ELSE data[k]
\* Mutant: the memory of the purged entry is not given back.
PurgeUncounted(k) == used_memory

PurgedMemory(k) ==
    IF Expired(data[k], clock) THEN Sub(used_memory, Estimate(data[k]))
                               ELSE used_memory
PurgedIndex(k) ==
    IF Expired(data[k], clock) THEN keys_with_ttl \ {k} ELSE keys_with_ttl

\* An entry written under the lock, or erased when it is None.
Write(k, e, used, index) ==
    /\ e.kind \in Uses[k] \cup {"none"}
    /\ data' = [data EXCEPT ![k] = e]
    /\ used_memory' = used
    /\ keys_with_ttl' = index

Erase(k) == Write(k, None, Sub(used_memory, Estimate(data[k])),
                  keys_with_ttl \ {k})

\* The entry as the purge left it.
Purge(k) ==
    /\ data' = [data EXCEPT ![k] = Find(k)]
    /\ used_memory' = PurgedMemory(k)
    /\ keys_with_ttl' = PurgedIndex(k)

Begins(t, group) == pc[t] = Idle /\ group \in Asks[t]
GoTo(t, place) == pc' = [pc EXCEPT ![t] = place]

-----------------------------------------------------------------------------
(* Commands that ask check_memory_and_evict before they write.             *)

\* The limit is compared with the counter alone: the size of the write to
\* come is not part of it.
Roomy == MaxMemory = 0 \/ used_memory <= MaxMemory

Check(t) ==
    /\ Begins(t, "checked")
    /\ \/ Roomy /\ GoTo(t, [Idle EXCEPT !.at = "admitted"])
       \/ ~Roomy /\ Policy # "noeviction"
            /\ GoTo(t, [Idle EXCEPT !.at = "evicting", !.now = clock])
    /\ UNCHANGED <<stored, clock, sweep>>

\* SET with EX/PX, KEEPTTL, NX and XX (set_with_options).
Set(k, n, ttl, keep, only) ==
    LET old == Find(k)
        exp == IF ttl # 0 THEN clock + ttl ELSE IF keep THEN old.exp ELSE 0
        index == IF exp # 0 THEN PurgedIndex(k) \cup {k}
                 ELSE IF old.exp # 0 THEN PurgedIndex(k) \ {k}
                 ELSE PurgedIndex(k)
        new == [kind |-> "string", n |-> n, exp |-> exp]
    IN  IF (only = "nx" /\ old # None) \/ (only = "xx" /\ old = None)
        THEN Purge(k)
        ELSE Write(k, new, Delta(PurgedMemory(k), Estimate(old), Estimate(new)), index)

\* SETEX writes over an expired entry without erasing it first.
SetEx(k, n, ttl) ==
    LET new == [kind |-> "string", n |-> n, exp |-> clock + ttl]
    IN  Write(k, new, Delta(used_memory, Estimate(data[k]), Estimate(new)),
              keys_with_ttl \cup {k})

\* Mutant: the keys of an MSET stay in the index.
MSetIndexed(k, l, n) ==
    LET new == [kind |-> "string", n |-> n, exp |-> 0]
    IN  /\ "string" \in Uses[k] \cap Uses[l]
        /\ data' = [data EXCEPT ![k] = new, ![l] = new]
        /\ used_memory' = used_memory
        /\ UNCHANGED keys_with_ttl

\* MSET of two keys, under the locks of both.
MSet(k, l, n) ==
    LET new == [kind |-> "string", n |-> n, exp |-> 0]
        Grown(used, x) == Delta(used, Estimate(data[x]), Estimate(new))
    IN  /\ "string" \in Uses[k] \cap Uses[l]
        /\ data' = [data EXCEPT ![k] = new, ![l] = new]
        /\ used_memory' = Grown(Grown(used_memory, k), l)
        /\ keys_with_ttl' = keys_with_ttl \ {k, l}

\* INCR, DECR, INCRBY and DECRBY (modify_int); the length may change.
ModifyInt(k, n) ==
    LET old == Find(k)
        new == [kind |-> "string", n |-> n, exp |-> old.exp]
    IN  /\ old.kind \in {"none", "string"}
        /\ Write(k, new, Delta(PurgedMemory(k), Estimate(old), Estimate(new)),
                 PurgedIndex(k))

\* LPUSH and RPUSH of elements of c units.
Push(k, c) ==
    LET old == Find(k)
        new == [kind |-> "list", n |-> old.n + c, exp |-> old.exp]
        added == IF old = None THEN Overhead + c ELSE c
    IN  /\ old.kind \in {"none", "list"}
        /\ new.n <= MaxSize
        /\ Write(k, new, PurgedMemory(k) + added, PurgedIndex(k))

\* WRONGTYPE, a value that is no integer, an overflow: nothing is written,
\* but DECRBY of the smallest integer has purged what had expired by then.
Refused(k) == UNCHANGED stored \/ Purge(k)

CheckedWrite(t) ==
    /\ pc[t].at = "admitted"
    /\ \E k \in Keys :
        \/ \E n \in 1 .. MaxSize :
            \/ \E ttl \in TTLs \cup {0}, keep \in BOOLEAN, only \in {"", "nx", "xx"} :
                   /\ clock + ttl <= MaxTime
                   /\ keep => ttl = 0
                   /\ Set(k, n, ttl, keep, only)
            \/ \E ttl \in TTLs : clock + ttl <= MaxTime /\ SetEx(k, n, ttl)
            \/ \E l \in Keys \ {k} : MSet(k, l, n)
            \/ ModifyInt(k, n)
            \/ Push(k, n)
        \/ Refused(k)
    /\ GoTo(t, Idle)
    /\ UNCHANGED <<clock, sweep>>

-----------------------------------------------------------------------------
(* check_memory_and_evict beyond the check: choose, erase, look again.     *)

InShard(s) == {k \in Stored : ShardOf[k] = s}

\* An unexpired entry that counts as a sample under the policy.
Eligible(k, now) ==
    /\ ~Expired(data[k], now)
    /\ Policy \in {"volatile-lru", "volatile-ttl"} => data[k].exp # 0

\* The scan of a shard ends with its last entry or its Sampled-th candidate.
Reached(E, now) ==
    \A s \in Shards :
        \/ InShard(s) \subseteq E
        \/ Cardinality({k \in InShard(s) \cap E : Eligible(k, now)}) = Sampled

InFirstShard(K) == {k \in K : \A l \in K : ShardOf[k] <= ShardOf[l]}

\* What the scan may choose among the entries E it looked at: an expired
\* entry ends it at once, a random policy takes the first entry it sees,
\* volatile-ttl the one that expires first, and the lru policies the oldest
\* last_access, which is not part of the model: it may be any.
Victims(E, now) ==
    LET gone == {k \in E : Expired(data[k], now)}
        candidates == {k \in E : Eligible(k, now)}
    IN  IF Policy = "allkeys-random" THEN InFirstShard(E)
        ELSE IF gone # {} THEN InFirstShard(gone)
        ELSE {k \in candidates :
                /\ Policy = "volatile-ttl" =>
                        \A l \in candidates : data[k].exp <= data[l].exp
                /\ Policy # "noeviction"}

\* The shards are scanned under their shared locks, one after the other, here
\* in one step; the victim is remembered by its name only, so that whatever
\* happens to it during the rest of the scan may as well happen before Evict.
PickVictim(t) ==
    /\ pc[t].at = "evicting"
    /\ ~Roomy
    /\ \E E \in SUBSET Stored :
        /\ Reached(E, pc[t].now)
        /\ \/ \E k \in Victims(E, pc[t].now) :
                GoTo(t, [pc[t] EXCEPT !.at = "victim", !.keys = {k}])
           \/ /\ Victims(E, pc[t].now) = {}
              /\ GoTo(t, [Idle EXCEPT !.at = "verdict"])
    /\ UNCHANGED <<stored, clock, sweep>>

\* Under the unique lock: whatever has that name by now is erased.
Evict(t) ==
    /\ pc[t].at = "victim"
    /\ \E k \in pc[t].keys : IF Present(k) THEN Erase(k) ELSE UNCHANGED stored
    /\ GoTo(t, [pc[t] EXCEPT !.at = "evicting", !.keys = {}])
    /\ UNCHANGED <<clock, sweep>>

\* The loop ends when there is room, or when no victim was found.
Evicted(t) ==
    /\ pc[t].at = "evicting"
    /\ Roomy
    /\ GoTo(t, [Idle EXCEPT !.at = "verdict"])
    /\ UNCHANGED <<stored, clock, sweep>>

\* The limit is compared once more; without room the command is refused.
Verdict(t) ==
    /\ pc[t].at = "verdict"
    /\ GoTo(t, IF Roomy THEN [Idle EXCEPT !.at = "admitted"] ELSE Idle)
    /\ UNCHANGED <<stored, clock, sweep>>

-----------------------------------------------------------------------------
(* Commands that write without asking for memory.                          *)

\* HSET and HINCRBY: the entry has n units afterwards.
Resize(k, n) ==
    LET old == Find(k)
        new == [kind |-> "hash", n |-> n, exp |-> old.exp]
    IN  /\ old.kind \in {"none", "hash"}
        /\ Write(k, new, Delta(PurgedMemory(k), Estimate(old), Estimate(new)),
                 PurgedIndex(k))

HSet(k, n) == Resize(k, n)
HIncrBy(k, n) == Resize(k, n)

\* HSETNX and SADD create the empty entry before they take the old estimate,
\* so that its Overhead is not in the difference.
AddMember(k, kind, n) ==
    LET old == Find(k)
        new == [kind |-> kind, n |-> n, exp |-> old.exp]
    IN  /\ old.kind \in {"none", kind}
        /\ n > old.n
        /\ Write(k, new, PurgedMemory(k) + (n - old.n), PurgedIndex(k))

HSetNx(k, n) == AddMember(k, "hash", n)
SAdd(k, n) == AddMember(k, "set", n)

\* ZADD counts the entry and the members it added.
ZAdd(k, n) ==
    LET old == Find(k)
        new == [kind |-> "zset", n |-> n, exp |-> old.exp]
        added == IF old = None THEN Overhead + n ELSE n - old.n
    IN  /\ old.kind \in {"none", "zset"}
        /\ n >= old.n
        /\ Write(k, new, PurgedMemory(k) + added, PurgedIndex(k))

\* A removal that leaves n units of an unexpired entry.
Shrink(k, kind, n) ==
    /\ ~Expired(data[k], clock)
    /\ data[k].kind = kind
    /\ n < data[k].n
    /\ IF n = 0
       THEN Erase(k)
       ELSE Write(k, [data[k] EXCEPT !.n = n], Sub(used_memory, data[k].n - n),
                  keys_with_ttl)

\* LPOP, RPOP and HDEL erase an expired entry, SREM and ZREM leave it.
PurgeExpired(k) == Expired(data[k], clock) /\ Purge(k)
LPop(k, n) == PurgeExpired(k) \/ Shrink(k, "list", n)
HDel(k, n) == PurgeExpired(k) \/ Shrink(k, "hash", n)
SRem(k, n) == Shrink(k, "set", n)
ZRem(k, n) == Shrink(k, "zset", n)

\* DEL of two keys, or of one named twice; expired or not they are erased.
Del(k, l) ==
    LET Left(used, x) == Sub(used, Estimate(data[x]))
    IN  /\ Present(k)
        /\ data' = [data EXCEPT ![k] = None, ![l] = None]
        /\ keys_with_ttl' = keys_with_ttl \ {k, l}
        /\ used_memory' = IF l = k THEN Left(used_memory, k)
                          ELSE Left(Left(used_memory, k), l)

\* Mutant: the key is not put into the index.
ExpireUnindexed(k, ttl) ==
    /\ Present(k)
    /\ ttl # 0 /\ ~Expired(data[k], clock)
    /\ Write(k, [data[k] EXCEPT !.exp = clock + ttl], used_memory, keys_with_ttl)

\* EXPIRE and EXPIREAT; a time to live of zero deletes.
Expire(k, ttl) ==
    /\ Present(k)
    /\ IF ttl = 0 \/ Expired(data[k], clock)
       THEN Erase(k)
       ELSE Write(k, [data[k] EXCEPT !.exp = clock + ttl], used_memory,
                  keys_with_ttl \cup {k})

Persist(k) ==
    /\ data[k].exp # 0
    /\ IF Expired(data[k], clock)
       THEN Erase(k)
       ELSE Write(k, [data[k] EXCEPT !.exp = 0], used_memory, keys_with_ttl \ {k})

UncheckedWrite(t) ==
    /\ Begins(t, "unchecked")
    /\ \E k \in Keys :
        \/ \E n \in 1 .. MaxSize :
            HSet(k, n) \/ HIncrBy(k, n) \/ HSetNx(k, n) \/ SAdd(k, n) \/ ZAdd(k, n)
        \/ \E n \in 0 .. MaxSize :
            LPop(k, n) \/ HDel(k, n) \/ SRem(k, n) \/ ZRem(k, n)
        \/ \E l \in Keys : Del(k, l)
        \/ \E ttl \in TTLs \cup {0} : clock + ttl <= MaxTime /\ Expire(k, ttl)
        \/ Persist(k)
    /\ UNCHANGED <<clock, pc, sweep>>

-----------------------------------------------------------------------------
(* Reads.                                                                  *)

\* GET, TYPE, EXISTS, TTL, LLEN, LRANGE, LINDEX of one key change nothing when
\* the entry is alive; an expired one sends the command to the unique lock.
Lookup(t) ==
    /\ Begins(t, "read")
    /\ \E k \in Keys :
        /\ Expired(data[k], clock)
        /\ GoTo(t, [Idle EXCEPT !.at = "get", !.keys = {k}])
    /\ UNCHANGED <<stored, clock, sweep>>

\* Mutant: the verdict of the shared lock is trusted under the unique one.
GetTrusts(t) ==
    /\ pc[t].at = "get"
    /\ \E k \in pc[t].keys : Erase(k)
    /\ GoTo(t, Idle)
    /\ UNCHANGED <<clock, sweep>>

\* Under the unique lock the entry is looked up and judged again.
GetSlow(t) ==
    /\ pc[t].at = "get"
    /\ \E k \in pc[t].keys :
        IF Expired(data[k], clock) THEN Erase(k) ELSE UNCHANGED stored
    /\ GoTo(t, Idle)
    /\ UNCHANGED <<clock, sweep>>

\* MGET and EXISTS of several keys read all of them under the shared locks of
\* their shards, and come back with a second reading of the clock.
MGet(t) ==
    /\ Begins(t, "read")
    /\ \E K \in SUBSET Keys :
        LET expired == {k \in K : Expired(data[k], clock)}
        IN  /\ Cardinality(K) > 1 /\ expired # {}
            /\ GoTo(t, [Idle EXCEPT !.at = "mread", !.keys = expired])
    /\ UNCHANGED <<stored, clock, sweep>>

MGetClock(t) ==
    /\ pc[t].at = "mread"
    /\ GoTo(t, [pc[t] EXCEPT !.at = "mget", !.now = clock])
    /\ UNCHANGED <<stored, clock, sweep>>

MGetSlow(t) ==
    /\ pc[t].at = "mget"
    /\ \E k \in pc[t].keys :
        /\ IF Expired(data[k], pc[t].now) THEN Erase(k) ELSE UNCHANGED stored
        /\ GoTo(t, IF pc[t].keys = {k} THEN Idle
                   ELSE [pc[t] EXCEPT !.keys = @ \ {k}])
    /\ UNCHANGED <<clock, sweep>>

-----------------------------------------------------------------------------
(* FLUSHDB, the sweep of the eviction thread, time.                        *)

FlushDb(t) ==
    /\ Begins(t, "flush")
    /\ GoTo(t, [Idle EXCEPT !.at = "flush", !.shard = 1])
    /\ UNCHANGED <<stored, clock, sweep>>

FlushShard(t) ==
    /\ pc[t].at = "flush" /\ pc[t].shard # 0
    /\ LET gone == InShard(pc[t].shard)
       IN  /\ data' = [k \in Keys |-> IF k \in gone THEN None ELSE data[k]]
           /\ keys_with_ttl' = {k \in keys_with_ttl : ShardOf[k] # pc[t].shard}
    /\ GoTo(t, [pc[t] EXCEPT !.shard = IF @ = NumShards THEN 0 ELSE @ + 1])
    /\ UNCHANGED <<used_memory, clock, sweep>>

FlushMemory(t) ==
    /\ pc[t].at = "flush" /\ pc[t].shard = 0
    /\ used_memory' = 0
    /\ GoTo(t, Idle)
    /\ UNCHANGED <<data, keys_with_ttl, clock, sweep>>

\* evict_expired: every 50 ms, with one reading of the clock for all shards.
SweepStart ==
    /\ sweep.shard = 0
    /\ keys_with_ttl # {}
    /\ sweep' = [shard |-> 1, now |-> clock]
    /\ UNCHANGED <<stored, clock, pc>>

SweepShard ==
    /\ sweep.shard # 0
    /\ sweep' = IF sweep.shard = NumShards THEN [shard |-> 0, now |-> 0]
                ELSE [sweep EXCEPT !.shard = @ + 1]
    /\ LET indexed == {k \in keys_with_ttl : ShardOf[k] = sweep.shard}
           checked == {k \in indexed :
                Cardinality({l \in indexed : Rank[l] < Rank[k]}) < BatchPerShard}
           gone == {k \in checked : Expired(data[k], sweep.now)}
       IN  /\ data' = [k \in Keys |-> IF k \in gone THEN None ELSE data[k]]
           /\ keys_with_ttl' = keys_with_ttl \ (gone \cup {k \in checked : ~Present(k)})
           /\ used_memory' = Sub(used_memory, Memory(gone))
    /\ UNCHANGED <<clock, pc>>

\* start_active_eviction: the loop of the thread.
EvictionThread == SweepStart \/ SweepShard

Tick ==
    /\ clock < MaxTime
    /\ clock' = clock + 1
    /\ UNCHANGED <<stored, pc, sweep>>

Command(t) ==
    \/ Check(t) \/ PickVictim(t) \/ Evict(t) \/ Evicted(t) \/ Verdict(t)
    \/ CheckedWrite(t) \/ UncheckedWrite(t)
    \/ Lookup(t) \/ GetSlow(t) \/ MGet(t) \/ MGetClock(t) \/ MGetSlow(t)
    \/ FlushDb(t) \/ FlushShard(t) \/ FlushMemory(t)

Next ==
    \/ \E t \in Threads : Command(t)
    \/ EvictionThread \/ Tick

Spec == Init /\ [][Next]_vars

\* The eviction thread runs for as long as the store exists, and time passes.
FairSpec == Spec /\ WF_vars(EvictionThread) /\ WF_vars(Tick)

-----------------------------------------------------------------------------
(* Properties.                                                             *)

Flushing == \E t \in Threads : pc[t].at = "flush"

\* The counter that decides over OOM errors and evictions never claims more
\* than the entries there are (estimate_entry_memory over the whole store),
\* so nothing is evicted or refused for memory that is not in use: through
\* the deltas of every command, the clamp of sub_memory, the entries HSETNX
\* and SADD do not count, and FLUSHDB racing the writes of other threads.
NeverOvercounted == ~Flushing => used_memory <= Memory(Keys)

\* The keys the sweep walks are exactly those that have an expiry: one left
\* out would stay in memory until somebody asked for it.
TtlIndexed == keys_with_ttl = {k \in Keys : data[k].exp # 0}

\* An entry that is alive is erased neither by a read that comes back for the
\* expired entry it saw, nor by the sweep with its old reading of the clock:
\* one that was written anew, persisted or given more time in between stays.
OnlyExpiredExpire ==
    [][ \A k \in Keys : data'[k] # data[k] /\ ~Expired(data[k], clock) =>
          ~ (SweepShard \/ \E t \in Threads : GetSlow(t) \/ MGetSlow(t)) ]_vars

\* docs/en.md:250: under volatile-lru "keys without expiration are never
\* evicted".  What documents say and the code does not keep: PERSIST or SET
\* may come between the choice of a victim and its end.
VolatileVictims ==
    [][ \A t \in Threads, k \in Keys :
          Evict(t) /\ Policy \in {"volatile-lru", "volatile-ttl"} /\ data[k].exp = 0
            => data'[k] = data[k] ]_vars

\* Again and again there is no expired entry left, although nobody asks for
\* them and a sweep looks at a few keys of a shard only, in an order of its
\* own; clients stop asking for new times to live when the clock stops.
ExpiredCollected == []<>(\A k \in Keys : ~Expired(data[k], clock))
=============================================================================
