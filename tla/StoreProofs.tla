---------------------------- MODULE StoreProofs ----------------------------
(***************************************************************************)
(* Proofs about Store, for every number of keys, threads and shards, every *)
(* limit, policy and time to live: keys_with_ttl holds exactly the keys    *)
(* that have an expiry, and neither a read that comes back under the       *)
(* unique lock nor a sweep erases an entry that is alive; outside of a     *)
(* FLUSHDB the memory counter claims no more than the entries have.        *)
(*                                                                         *)
(* The second one needs that no remembered reading of the clock is ahead   *)
(* of it (ReadingsPast): what was expired then is expired now.  The third  *)
(* one needs that every other step keeps a counter that claims z units too *)
(* many from claiming more (Over), and that a FLUSHDB ends with zero.      *)
(***************************************************************************)
EXTENDS Store, DataLemmas

\* What the locks of the shards protect: the entries and their index.
Keyspace == data \in [Keys -> Entry] /\ TtlIndexed

PcTypes == pc \in [Threads -> [at : Places, keys : SUBSET Keys,
                               now : 0 .. MaxTime, shard : 0 .. NumShards]]
SweepTypes == sweep \in [shard : 0 .. NumShards, now : 0 .. MaxTime]

\* The readings of the clock that threads still hold are not in the future.
ReadingsPast == sweep.now <= clock /\ \A t \in Threads : pc[t].now <= clock

IInv == /\ Keyspace
        /\ clock \in 0 .. MaxTime
        /\ PcTypes /\ SweepTypes
        /\ ReadingsPast

-----------------------------------------------------------------------------
(* One entry written, erased or purged under the lock of its shard.        *)

LEMMA NoneIsEntry == None \in Entry /\ None.exp = 0 /\ None.kind = "none"
BY DEF None, Entry

\* A write keeps the index when it changes the index at its key only, and
\* there as the expiry of the new entry says.
LEMMA WriteKeeps ==
    ASSUME Keyspace, NEW k \in Keys, NEW e \in Entry, NEW used, NEW index,
           Write(k, e, used, index),
           index \ {k} = keys_with_ttl \ {k},
           k \in index <=> e.exp # 0
    PROVE  Keyspace'
<1>1. data' = [data EXCEPT ![k] = e] /\ keys_with_ttl' = index
  BY DEF Write
<1>2. data' \in [Keys -> Entry]
  BY <1>1 DEF Keyspace
<1>3. \A x \in Keys : data'[x] = IF x = k THEN e ELSE data[x]
  BY <1>1 DEF Keyspace
<1>4. \A x : x \in index <=> x \in Keys /\ data'[x].exp # 0
  BY <1>3 DEF Keyspace, TtlIndexed
<1> QED
  BY <1>1, <1>2, <1>4 DEF Keyspace, TtlIndexed

LEMMA EraseKeeps ==
    ASSUME Keyspace, NEW k \in Keys, Erase(k)
    PROVE  Keyspace'
<1> DEFINE used == Sub(used_memory, Estimate(data[k]))
<1>1. Write(k, None, used, keys_with_ttl \ {k})
  BY DEF Erase
<1> QED
  BY <1>1, NoneIsEntry, WriteKeeps

\* What Find and the purge leave is an entry and the index that fits it.
LEMMA FindFits ==
    ASSUME Keyspace, NEW k \in Keys
    PROVE  /\ Find(k) \in Entry
           /\ PurgedIndex(k) \ {k} = keys_with_ttl \ {k}
           /\ k \in PurgedIndex(k) <=> Find(k).exp # 0
<1>1. data[k] \in Entry /\ (k \in keys_with_ttl <=> data[k].exp # 0)
  BY DEF Keyspace, TtlIndexed
<1>2. CASE Expired(data[k], clock)
  BY <1>1, <1>2, NoneIsEntry DEF Find, PurgedIndex
<1>3. CASE ~Expired(data[k], clock)
  BY <1>1, <1>3 DEF Find, PurgedIndex
<1> QED
  BY <1>2, <1>3

LEMMA PurgeKeeps ==
    ASSUME Keyspace, NEW k \in Keys, Purge(k)
    PROVE  Keyspace'
<1>1. data' = [data EXCEPT ![k] = Find(k)] /\ keys_with_ttl' = PurgedIndex(k)
  BY DEF Purge
<1>2. data' \in [Keys -> Entry]
  BY <1>1, FindFits DEF Keyspace
<1>3. \A x \in Keys : data'[x] = IF x = k THEN Find(k) ELSE data[x]
  BY <1>1 DEF Keyspace
<1>4. \A x : x \in PurgedIndex(k) <=> x \in Keys /\ data'[x].exp # 0
  BY <1>3, FindFits DEF Keyspace, TtlIndexed
<1> QED
  BY <1>1, <1>2, <1>4 DEF Keyspace, TtlIndexed

LEMMA StoredKeeps == Keyspace /\ UNCHANGED stored => Keyspace'
BY DEF Keyspace, TtlIndexed, stored

-----------------------------------------------------------------------------
(* The commands.                                                           *)

LEMMA EntryFields ==
    ASSUME NEW e \in Entry
    PROVE  /\ e.kind \in Kinds \cup {"none"} /\ e.n \in 0 .. MaxSize /\ e.exp \in 0 .. MaxTime
           /\ e.kind = "none" => e.exp = 0 /\ e.n = 0
           /\ e.kind # "none" => e.n # 0
BY StoreAssumption DEF Entry, None, Kinds

LEMMA EntryMade ==
    ASSUME NEW kind \in Kinds, NEW n \in 1 .. MaxSize, NEW exp \in 0 .. MaxTime
    PROVE  [kind |-> kind, n |-> n, exp |-> exp] \in Entry
BY DEF Entry

\* A write that keeps the expiry it found (and ModifyInt, Push, HSet, ...).
LEMMA SameExpiryKeeps ==
    ASSUME Keyspace, NEW k \in Keys, NEW kind \in Kinds, NEW n \in 1 .. MaxSize, NEW used,
           Write(k, [kind |-> kind, n |-> n, exp |-> Find(k).exp], used, PurgedIndex(k))
    PROVE  Keyspace'
<1> DEFINE e == [kind |-> kind, n |-> n, exp |-> Find(k).exp]
<1>1. Find(k).exp \in 0 .. MaxTime
  BY FindFits, EntryFields
<1>2. e \in Entry
  BY <1>1, EntryMade
<1>3. e.exp = Find(k).exp
  OBVIOUS
<1> HIDE DEF e
<1>4. Write(k, e, used, PurgedIndex(k))
  BY DEF e
<1> QED
  BY <1>2, <1>3, <1>4, FindFits, WriteKeeps

LEMMA SetKeeps ==
    ASSUME Keyspace, clock \in 0 .. MaxTime, NEW k \in Keys, NEW n \in 1 .. MaxSize,
           NEW ttl \in TTLs \cup {0}, NEW keep \in BOOLEAN, NEW only,
           clock + ttl <= MaxTime, Set(k, n, ttl, keep, only)
    PROVE  Keyspace'
<1> DEFINE old == Find(k)
           exp == IF ttl # 0 THEN clock + ttl ELSE IF keep THEN old.exp ELSE 0
           index == IF exp # 0 THEN PurgedIndex(k) \cup {k}
                    ELSE IF old.exp # 0 THEN PurgedIndex(k) \ {k}
                    ELSE PurgedIndex(k)
           new == [kind |-> "string", n |-> n, exp |-> exp]
           used == Delta(PurgedMemory(k), Estimate(old), Estimate(new))
<1>1. Purge(k) \/ Write(k, new, used, index)
  BY DEF Set
<1>2. exp \in 0 .. MaxTime
  <2>1. ttl \in Nat
    BY StoreAssumption
  <2>2. old.exp \in 0 .. MaxTime
    BY FindFits, EntryFields
  <2> QED
    BY <2>1, <2>2, StoreAssumption
<1>3. new \in Entry
  BY <1>2, EntryMade DEF Kinds
<1>4. new.exp = exp
  OBVIOUS
<1>5. index \ {k} = keys_with_ttl \ {k} /\ (k \in index <=> exp # 0)
  <2> HIDE DEF exp
  <2> QED
    BY FindFits
<1> HIDE DEF new, index, used
<1> QED
  BY <1>1, <1>3, <1>4, <1>5, PurgeKeeps, WriteKeeps

LEMMA SetExKeeps ==
    ASSUME Keyspace, clock \in 0 .. MaxTime, NEW k \in Keys, NEW n \in 1 .. MaxSize,
           NEW ttl \in TTLs, clock + ttl <= MaxTime, SetEx(k, n, ttl)
    PROVE  Keyspace'
<1> DEFINE new == [kind |-> "string", n |-> n, exp |-> clock + ttl]
           used == Delta(used_memory, Estimate(data[k]), Estimate(new))
<1>1. Write(k, new, used, keys_with_ttl \cup {k})
  BY DEF SetEx
<1>2. clock + ttl \in 0 .. MaxTime /\ clock + ttl # 0
  BY StoreAssumption
<1>3. new \in Entry /\ new.exp # 0
  BY <1>2, EntryMade DEF Kinds
<1> HIDE DEF new, used
<1> QED
  BY <1>1, <1>3, WriteKeeps

LEMMA MSetKeeps ==
    ASSUME Keyspace, NEW k \in Keys, NEW l \in Keys, NEW n \in 1 .. MaxSize, MSet(k, l, n)
    PROVE  Keyspace'
<1> DEFINE new == [kind |-> "string", n |-> n, exp |-> 0]
<1>1. data' = [data EXCEPT ![k] = new, ![l] = new] /\ keys_with_ttl' = keys_with_ttl \ {k, l}
  BY DEF MSet
<1>2. new \in Entry /\ new.exp = 0
  BY EntryMade, StoreAssumption DEF Kinds
<1> HIDE DEF new
<1>3. data' \in [Keys -> Entry]
  BY <1>1, <1>2 DEF Keyspace
<1>4. \A x \in Keys : data'[x] = IF x \in {k, l} THEN new ELSE data[x]
  BY <1>1 DEF Keyspace
<1> QED
  BY <1>1, <1>2, <1>3, <1>4 DEF Keyspace, TtlIndexed

LEMMA CheckedWriteKeeps ==
    ASSUME Keyspace, clock \in 0 .. MaxTime, NEW t \in Threads, CheckedWrite(t)
    PROVE  Keyspace'
<1>1. ASSUME NEW k \in Keys, Refused(k) PROVE Keyspace'
  BY <1>1, StoredKeeps, PurgeKeeps DEF Refused
<1>2. ASSUME NEW k \in Keys, NEW n \in 1 .. MaxSize, ModifyInt(k, n) PROVE Keyspace'
  <2>1. PICK used : Write(k, [kind |-> "string", n |-> n, exp |-> Find(k).exp], used, PurgedIndex(k))
    BY <1>2 DEF ModifyInt
  <2> QED
    BY <2>1, SameExpiryKeeps DEF Kinds
<1>3. ASSUME NEW k \in Keys, NEW n \in 1 .. MaxSize, Push(k, n) PROVE Keyspace'
  <2> DEFINE size == Find(k).n + n
  <2>1. PICK used : Write(k, [kind |-> "list", n |-> size, exp |-> Find(k).exp], used, PurgedIndex(k))
    BY <1>3 DEF Push
  <2>2. size \in 1 .. MaxSize
    <3>1. Find(k).n \in 0 .. MaxSize
      BY FindFits, EntryFields
    <3>2. size <= MaxSize
      BY <1>3 DEF Push
    <3> QED
      BY <3>1, <3>2, StoreAssumption
  <2> HIDE DEF size
  <2> QED
    BY <2>1, <2>2, SameExpiryKeeps DEF Kinds
<1> QED
  BY <1>1, <1>2, <1>3, SetKeeps, SetExKeeps, MSetKeeps DEF CheckedWrite

\* A removal keeps the expiry, or erases the entry.
LEMMA ShrinkKeeps ==
    ASSUME Keyspace, NEW k \in Keys, NEW kind \in Kinds, NEW n \in 0 .. MaxSize,
           Shrink(k, kind, n)
    PROVE  Keyspace'
<1>1. CASE n = 0
  BY <1>1, EraseKeeps DEF Shrink
<1>2. CASE n # 0
  <2> DEFINE e == [data[k] EXCEPT !.n = n]
             used == Sub(used_memory, data[k].n - n)
  <2>1. Write(k, e, used, keys_with_ttl)
    BY <1>2 DEF Shrink
  <2>2. data[k] \in Entry /\ data[k].kind = kind /\ (k \in keys_with_ttl <=> data[k].exp # 0)
    BY DEF Shrink, Keyspace, TtlIndexed
  <2>3. n \in 1 .. MaxSize
    BY <1>2, StoreAssumption
  <2>4. data[k] \in [kind : Kinds, n : 1 .. MaxSize, exp : 0 .. MaxTime]
    BY <2>2 DEF Entry, None, Kinds
  <2>5. e \in Entry /\ e.exp = data[k].exp
    BY <2>3, <2>4 DEF Entry
  <2> HIDE DEF e, used
  <2> QED
    BY <2>1, <2>2, <2>5, WriteKeeps
<1> QED
  BY <1>1, <1>2

\* EXPIRE and PERSIST replace the expiry of an entry that is there.
LEMMA NewExpiryKeeps ==
    ASSUME Keyspace, NEW k \in Keys, Present(k), NEW exp \in 0 .. MaxTime, NEW used, NEW index,
           Write(k, [data[k] EXCEPT !.exp = exp], used, index),
           index \ {k} = keys_with_ttl \ {k},
           k \in index <=> exp # 0
    PROVE  Keyspace'
<1> DEFINE e == [data[k] EXCEPT !.exp = exp]
<1>1. data[k] \in [kind : Kinds, n : 1 .. MaxSize, exp : 0 .. MaxTime]
  BY DEF Keyspace, Entry, Present
<1>2. e \in Entry /\ e.exp = exp
  BY <1>1 DEF Entry
<1>3. Write(k, e, used, index)
  OBVIOUS
<1> HIDE DEF e
<1> QED
  BY <1>2, <1>3, WriteKeeps

LEMMA ExpireKeeps ==
    ASSUME Keyspace, clock \in 0 .. MaxTime, NEW k \in Keys, NEW ttl \in TTLs \cup {0},
           clock + ttl <= MaxTime, Expire(k, ttl)
    PROVE  Keyspace'
<1>1. CASE ttl = 0 \/ Expired(data[k], clock)
  BY <1>1, EraseKeeps DEF Expire
<1>2. CASE ~(ttl = 0 \/ Expired(data[k], clock))
  <2> DEFINE exp == clock + ttl
  <2>1. exp \in 0 .. MaxTime /\ exp # 0
    BY <1>2, StoreAssumption
  <2>2. Present(k) /\ Write(k, [data[k] EXCEPT !.exp = exp], used_memory, keys_with_ttl \cup {k})
    BY <1>2 DEF Expire
  <2> HIDE DEF exp
  <2> QED
    BY <2>1, <2>2, NewExpiryKeeps
<1> QED
  BY <1>1, <1>2

LEMMA PersistKeeps ==
    ASSUME Keyspace, NEW k \in Keys, Persist(k)
    PROVE  Keyspace'
<1>1. CASE Expired(data[k], clock)
  BY <1>1, EraseKeeps DEF Persist
<1>2. CASE ~Expired(data[k], clock)
  <2>1. Present(k)
    BY NoneIsEntry DEF Persist, Present
  <2>2. Write(k, [data[k] EXCEPT !.exp = 0], used_memory, keys_with_ttl \ {k})
    BY <1>2 DEF Persist
  <2>3. 0 \in 0 .. MaxTime
    BY StoreAssumption
  <2> QED
    BY <2>1, <2>2, <2>3, NewExpiryKeeps
<1> QED
  BY <1>1, <1>2

LEMMA DelKeeps ==
    ASSUME Keyspace, NEW k \in Keys, NEW l \in Keys, Del(k, l)
    PROVE  Keyspace'
<1>1. data' = [data EXCEPT ![k] = None, ![l] = None] /\ keys_with_ttl' = keys_with_ttl \ {k, l}
  BY DEF Del
<1>2. data' \in [Keys -> Entry]
  BY <1>1, NoneIsEntry DEF Keyspace
<1>3. \A x \in Keys : data'[x] = IF x \in {k, l} THEN None ELSE data[x]
  BY <1>1 DEF Keyspace
<1> QED
  BY <1>1, <1>2, <1>3, NoneIsEntry DEF Keyspace, TtlIndexed

LEMMA UncheckedWriteKeeps ==
    ASSUME Keyspace, clock \in 0 .. MaxTime, NEW t \in Threads, UncheckedWrite(t)
    PROVE  Keyspace'
<1>1. ASSUME NEW k \in Keys, NEW n \in 1 .. MaxSize,
             HSet(k, n) \/ HIncrBy(k, n) \/ HSetNx(k, n) \/ SAdd(k, n) \/ ZAdd(k, n)
      PROVE  Keyspace'
  <2>1. \E kind \in Kinds : \E used :
            Write(k, [kind |-> kind, n |-> n, exp |-> Find(k).exp], used, PurgedIndex(k))
    <3>1. CASE HSet(k, n) \/ HIncrBy(k, n)
      BY <3>1 DEF HSet, HIncrBy, Resize, Kinds
    <3>2. CASE HSetNx(k, n) \/ SAdd(k, n)
      BY <3>2 DEF HSetNx, SAdd, AddMember, Kinds
    <3>3. CASE ZAdd(k, n)
      BY <3>3 DEF ZAdd, Kinds
    <3> QED
      BY <1>1, <3>1, <3>2, <3>3
  <2> QED
    BY <2>1, SameExpiryKeeps
<1>2. ASSUME NEW k \in Keys, NEW n \in 0 .. MaxSize,
             LPop(k, n) \/ HDel(k, n) \/ SRem(k, n) \/ ZRem(k, n)
      PROVE  Keyspace'
  <2>1. Purge(k) \/ \E kind \in Kinds : Shrink(k, kind, n)
    BY <1>2 DEF LPop, HDel, SRem, ZRem, PurgeExpired, Kinds
  <2> QED
    BY <2>1, PurgeKeeps, ShrinkKeeps
<1> QED
  BY <1>1, <1>2, DelKeeps, ExpireKeeps, PersistKeeps DEF UncheckedWrite

\* FLUSHDB empties a shard, its index included.
LEMMA FlushShardKeeps ==
    ASSUME Keyspace, NEW t \in Threads, FlushShard(t)
    PROVE  Keyspace'
<1> DEFINE gone == InShard(pc[t].shard)
<1>1. /\ data' = [k \in Keys |-> IF k \in gone THEN None ELSE data[k]]
      /\ keys_with_ttl' = {k \in keys_with_ttl : ShardOf[k] # pc[t].shard}
  BY DEF FlushShard
<1>2. \A k \in Keys : data'[k].exp # 0 <=> data[k].exp # 0 /\ ShardOf[k] # pc[t].shard
  BY <1>1, NoneIsEntry DEF InShard, Stored, Present
<1> QED
  BY <1>1, <1>2, NoneIsEntry DEF Keyspace, TtlIndexed

\* A sweep erases what it found expired, and drops no other key.
LEMMA SweepShardKeeps ==
    ASSUME Keyspace, SweepShard
    PROVE  Keyspace'
<1> DEFINE indexed == {k \in keys_with_ttl : ShardOf[k] = sweep.shard}
           checked == {k \in indexed :
                Cardinality({l \in indexed : Rank[l] < Rank[k]}) < BatchPerShard}
           gone == {k \in checked : Expired(data[k], sweep.now)}
           missing == {k \in checked : ~Present(k)}
<1>1. /\ data' = [k \in Keys |-> IF k \in gone THEN None ELSE data[k]]
      /\ keys_with_ttl' = keys_with_ttl \ (gone \cup missing)
  BY DEF SweepShard
<1>2. gone \subseteq keys_with_ttl /\ missing \subseteq keys_with_ttl
  OBVIOUS
<1>3. missing = {}
  BY NoneIsEntry DEF Keyspace, TtlIndexed, Present
<1> HIDE DEF gone, missing
<1> QED
  BY <1>1, <1>2, <1>3, NoneIsEntry DEF Keyspace, TtlIndexed

LEMMA CommandKeeps ==
    ASSUME Keyspace, clock \in 0 .. MaxTime, PcTypes, NEW t \in Threads, Command(t)
    PROVE  Keyspace'
<1>1. pc[t].keys \subseteq Keys
  BY DEF PcTypes
<1>2. CASE Check(t) \/ PickVictim(t) \/ Evicted(t) \/ Verdict(t)
  BY <1>2, StoredKeeps DEF Check, PickVictim, Evicted, Verdict
<1>3. CASE Lookup(t) \/ MGet(t) \/ MGetClock(t) \/ FlushDb(t)
  BY <1>3, StoredKeeps DEF Lookup, MGet, MGetClock, FlushDb
<1>4. CASE Evict(t) \/ GetSlow(t) \/ MGetSlow(t)
  <2>1. UNCHANGED stored \/ \E k \in Keys : Erase(k)
    BY <1>1, <1>4 DEF Evict, GetSlow, MGetSlow
  <2> QED
    BY <2>1, EraseKeeps, StoredKeeps
<1>5. CASE FlushMemory(t)
  BY <1>5 DEF FlushMemory, Keyspace, TtlIndexed
<1> QED
  BY <1>2, <1>3, <1>4, <1>5, CheckedWriteKeeps, UncheckedWriteKeeps, FlushShardKeeps
  DEF Command

-----------------------------------------------------------------------------
(* Places of threads and their readings of the clock.                      *)

Place == [at : Places, keys : SUBSET Keys, now : 0 .. MaxTime, shard : 0 .. NumShards]

LEMMA IdlePlace == Idle \in Place /\ Idle.now = 0
<1>1. "idle" \in Places /\ {} \in SUBSET Keys /\ 0 \in 0 .. MaxTime /\ 0 \in 0 .. NumShards
  BY StoreAssumption DEF Places
<1> QED
  BY <1>1 DEF Idle, Place

\* A thread goes to a place whose reading of the clock is not in the future.
LEMMA GoToKeeps ==
    ASSUME PcTypes, ReadingsPast, NEW t \in Threads, NEW place \in Place,
           place.now <= clock, GoTo(t, place)
    PROVE  PcTypes' /\ \A u \in Threads : pc'[u].now <= clock
<1>1. pc' = [pc EXCEPT ![t] = place]
  BY DEF GoTo
<1>2. PcTypes'
  BY <1>1 DEF PcTypes, Place
<1>3. \A u \in Threads : pc'[u] = IF u = t THEN place ELSE pc[u]
  BY <1>1 DEF PcTypes
<1> QED
  BY <1>2, <1>3 DEF ReadingsPast

\* Every step of a command leads its thread to such a place.
LEMMA CommandPlaces ==
    ASSUME IInv, NEW t \in Threads, Command(t)
    PROVE  pc' = pc \/ \E place \in Place : place.now <= clock /\ GoTo(t, place)
<1>1. pc[t] \in Place /\ pc[t].now <= clock /\ clock \in 0 .. MaxTime
  BY DEF IInv, PcTypes, Place, ReadingsPast
<1>2. Idle \in Place /\ Idle.now <= clock
  BY <1>1, IdlePlace
<1> DEFINE At(at) == [Idle EXCEPT !.at = at]
           Reading(at, now) == [Idle EXCEPT !.at = at, !.now = now]
           About(at, keys) == [Idle EXCEPT !.at = at, !.keys = keys]
           In(at, shard) == [Idle EXCEPT !.at = at, !.shard = shard]
           Victim(k) == [pc[t] EXCEPT !.at = "victim", !.keys = {k}]
           Again == [pc[t] EXCEPT !.at = "evicting", !.keys = {}]
           Come == [pc[t] EXCEPT !.at = "mget", !.now = clock]
           Less(k) == [pc[t] EXCEPT !.keys = @ \ {k}]
           Onwards(shard) == [pc[t] EXCEPT !.shard = shard]
<1>a. /\ \A at \in Places : At(at) \in Place /\ At(at).now <= clock
      /\ \A at \in Places : Reading(at, clock) \in Place /\ Reading(at, clock).now <= clock
      /\ \A at \in Places, keys \in SUBSET Keys :
             About(at, keys) \in Place /\ About(at, keys).now <= clock
      /\ \A at \in Places, shard \in 0 .. NumShards :
             In(at, shard) \in Place /\ In(at, shard).now <= clock
  <2>1. ASSUME NEW at \in Places
        PROVE  /\ At(at) \in Place /\ At(at).now = Idle.now
               /\ Reading(at, clock) \in Place /\ Reading(at, clock).now = clock
    BY <1>1, <1>2 DEF Place
  <2>2. ASSUME NEW at \in Places, NEW keys \in SUBSET Keys
        PROVE  About(at, keys) \in Place /\ About(at, keys).now = Idle.now
    BY <1>2 DEF Place
  <2>3. ASSUME NEW at \in Places, NEW shard \in 0 .. NumShards
        PROVE  In(at, shard) \in Place /\ In(at, shard).now = Idle.now
    BY <1>2 DEF Place
  <2> HIDE DEF At, Reading, About, In
  <2> QED
    BY <1>1, <1>2, <2>1, <2>2, <2>3
<1>b. "evicting" \in Places /\ "admitted" \in Places /\ "verdict" \in Places
      /\ "idle" \in Places /\ "get" \in Places /\ "mread" \in Places /\ "flush" \in Places
  BY DEF Places
<1>c. /\ \A k \in Keys : Victim(k) \in Place /\ Victim(k).now <= clock
      /\ Again \in Place /\ Again.now <= clock
      /\ Come \in Place /\ Come.now <= clock
      /\ \A k : Less(k) \in Place /\ Less(k).now <= clock
      /\ \A shard \in 0 .. NumShards :
             Onwards(shard) \in Place /\ Onwards(shard).now <= clock
  <2>1. ASSUME NEW k \in Keys
        PROVE  Victim(k) \in Place /\ Victim(k).now = pc[t].now
    BY <1>1 DEF Place, Places
  <2>2. Again \in Place /\ Again.now = pc[t].now
    BY <1>1 DEF Place, Places
  <2>3. Come \in Place /\ Come.now = clock
    BY <1>1 DEF Place, Places
  <2>4. ASSUME NEW k
        PROVE  Less(k) \in Place /\ Less(k).now = pc[t].now
    BY <1>1 DEF Place
  <2>5. ASSUME NEW shard \in 0 .. NumShards
        PROVE  Onwards(shard) \in Place /\ Onwards(shard).now = pc[t].now
    BY <1>1 DEF Place
  <2> HIDE DEF Victim, Again, Come, Less, Onwards
  <2> QED
    BY <1>1, <2>1, <2>2, <2>3, <2>4, <2>5
<1> HIDE DEF At, Reading, About, In, Victim, Again, Come, Less, Onwards
<1>3. CASE Check(t)
  <2>1. GoTo(t, At("admitted")) \/ GoTo(t, Reading("evicting", clock))
    BY <1>3 DEF Check, At, Reading
  <2> QED
    BY <1>a, <1>b, <2>1, Zenon
<1>4. CASE PickVictim(t)
  <2>1. (\E k \in Keys : GoTo(t, Victim(k))) \/ GoTo(t, At("verdict"))
    BY <1>4 DEF PickVictim, Victims, InFirstShard, Stored, At, Victim
  <2> QED
    BY <1>a, <1>b, <1>c, <2>1, Zenon
<1>5. CASE Evict(t)
  BY <1>1, <1>5, <1>c, Zenon DEF Evict, Again
<1>6. CASE Evicted(t) \/ Verdict(t)
  <2>1. GoTo(t, At("verdict")) \/ GoTo(t, At("admitted")) \/ GoTo(t, Idle)
    BY <1>6 DEF Evicted, Verdict, At
  <2> QED
    BY <1>a, <1>b, <1>2, <2>1, Zenon
<1>7. CASE CheckedWrite(t) \/ GetSlow(t) \/ FlushMemory(t)
  BY <1>2, <1>7 DEF CheckedWrite, GetSlow, FlushMemory
<1>8. CASE UncheckedWrite(t)
  BY <1>8 DEF UncheckedWrite
<1>9. CASE Lookup(t)
  <2>1. PICK k \in Keys : GoTo(t, About("get", {k}))
    BY <1>9 DEF Lookup, About
  <2>2. {k} \in SUBSET Keys
    OBVIOUS
  <2> QED
    BY <1>a, <1>b, <2>1, <2>2, Zenon
<1>10. CASE MGet(t)
  <2>1. PICK K \in SUBSET Keys : GoTo(t, About("mread", K))
    BY <1>10 DEF MGet, About
  <2> QED
    BY <1>a, <1>b, <2>1, Zenon
<1>11. CASE MGetClock(t)
  <2>1. GoTo(t, Come)
    BY <1>11 DEF MGetClock, Come
  <2> QED
    BY <1>c, <2>1, Zenon
<1>12. CASE MGetSlow(t)
  <2>1. \E k : GoTo(t, Idle) \/ GoTo(t, Less(k))
    BY <1>12 DEF MGetSlow, Less
  <2> QED
    BY <1>2, <1>c, <2>1, Zenon
<1>13. CASE FlushDb(t)
  <2>1. 1 \in 0 .. NumShards
    BY StoreAssumption
  <2>2. GoTo(t, In("flush", 1))
    BY <1>13 DEF FlushDb, In
  <2> QED
    BY <1>a, <1>b, <2>1, <2>2, Zenon
<1>14. CASE FlushShard(t)
  <2> DEFINE next == IF pc[t].shard = NumShards THEN 0 ELSE pc[t].shard + 1
  <2>1. next \in 0 .. NumShards
    BY <1>1, StoreAssumption DEF Place
  <2>2. GoTo(t, Onwards(next))
    BY <1>14 DEF FlushShard, Onwards
  <2> QED
    BY <1>c, <2>1, <2>2, Zenon
<1> QED
  BY <1>3, <1>4, <1>5, <1>6, <1>7, <1>8, <1>9, <1>10, <1>11, <1>12, <1>13, <1>14 DEF Command

-----------------------------------------------------------------------------
(* The invariant.                                                          *)

\* A new store has no entries and nobody is in a command.
LEMMA InitHolds == Init => IInv
<1> SUFFICES ASSUME Init PROVE IInv
  OBVIOUS
<1>1. Keyspace
  BY NoneIsEntry DEF Init, Keyspace, TtlIndexed
<1>2. 0 \in 0 .. MaxTime /\ 0 \in 0 .. NumShards
  BY StoreAssumption
<1>3. PcTypes /\ SweepTypes
  BY <1>2, IdlePlace DEF Init, PcTypes, SweepTypes, Place
<1>4. ReadingsPast
  BY IdlePlace DEF Init, ReadingsPast
<1> QED
  BY <1>1, <1>2, <1>3, <1>4 DEF Init, IInv

LEMMA StepHolds == IInv /\ [Next]_vars => IInv'
<1> SUFFICES ASSUME IInv, [Next]_vars PROVE IInv'
  OBVIOUS
<1> USE DEF IInv
<1>1. ASSUME NEW t \in Threads, Command(t) PROVE IInv'
  <2>1. clock' = clock /\ sweep' = sweep
    BY <1>1 DEF Command, Check, PickVictim, Evict, Evicted, Verdict, CheckedWrite,
                UncheckedWrite, Lookup, GetSlow, MGet, MGetClock, MGetSlow, FlushDb,
                FlushShard, FlushMemory
  <2>2. Keyspace'
    BY <1>1, CommandKeeps
  <2>3. PcTypes' /\ \A u \in Threads : pc'[u].now <= clock
    <3>1. CASE pc' = pc
      BY <3>1 DEF PcTypes, ReadingsPast
    <3>2. CASE \E place \in Place : place.now <= clock /\ GoTo(t, place)
      BY <3>2, GoToKeeps
    <3> QED
      BY <1>1, <3>1, <3>2, CommandPlaces
  <2> QED
    BY <2>1, <2>2, <2>3 DEF SweepTypes, ReadingsPast
<1>2. CASE SweepStart
  <2>1. sweep' = [shard |-> 1, now |-> clock] /\ 1 \in 0 .. NumShards
    BY <1>2, StoreAssumption DEF SweepStart
  <2>2. UNCHANGED <<stored, clock, pc>>
    BY <1>2 DEF SweepStart
  <2> QED
    BY <2>1, <2>2, StoredKeeps DEF PcTypes, SweepTypes, ReadingsPast
<1>3. CASE SweepShard
  <2>1. sweep' = IF sweep.shard = NumShards THEN [shard |-> 0, now |-> 0]
                 ELSE [sweep EXCEPT !.shard = @ + 1]
    BY <1>3 DEF SweepShard
  <2>2. UNCHANGED <<clock, pc>>
    BY <1>3 DEF SweepShard
  <2>3. SweepTypes' /\ sweep'.now <= clock
    BY <2>1, StoreAssumption DEF SweepTypes, ReadingsPast
  <2> QED
    BY <1>3, <2>2, <2>3, SweepShardKeeps DEF PcTypes, ReadingsPast
<1>4. CASE Tick
  <2>1. clock' = clock + 1 /\ clock' \in 0 .. MaxTime
    BY <1>4, StoreAssumption DEF Tick
  <2>2. UNCHANGED <<stored, pc, sweep>>
    BY <1>4 DEF Tick
  <2>3. ReadingsPast'
    BY <2>1, <2>2 DEF ReadingsPast, PcTypes, SweepTypes
  <2> QED
    BY <2>1, <2>2, <2>3, StoredKeeps DEF PcTypes, SweepTypes
<1>5. CASE UNCHANGED vars
  BY <1>5, StoredKeeps DEF vars, stored, PcTypes, SweepTypes, ReadingsPast
<1> QED
  BY <1>1, <1>2, <1>3, <1>4, <1>5 DEF Next, EvictionThread

LEMMA AlwaysHolds == Spec => []IInv
BY InitHolds, StepHolds, PTL DEF Spec

\* keys_with_ttl holds exactly the keys that have an expiry, whatever the
\* commands, evictions, flushes and sweeps do to it under their locks.
THEOREM IndexIsExact == Spec => []TtlIndexed
<1>1. IInv => TtlIndexed
  BY DEF IInv, Keyspace
<1> QED
  BY <1>1, AlwaysHolds, PTL

\* A read that comes back under the unique lock, and the sweep with its old
\* reading of the clock, erase no entry that is alive by then.
THEOREM OnlyExpiredGo == Spec => OnlyExpiredExpire
<1> DEFINE Live(k) == data'[k] # data[k] /\ ~Expired(data[k], clock)
           A == \A k \in Keys : Live(k) =>
                    ~ (SweepShard \/ \E t \in Threads : GetSlow(t) \/ MGetSlow(t))
<1>1. IInv /\ [Next]_vars => [A]_vars
  <2> SUFFICES ASSUME IInv, NEW k \in Keys, Live(k) PROVE
          ~ (SweepShard \/ \E t \in Threads : GetSlow(t) \/ MGetSlow(t))
    OBVIOUS
  <2>1. data \in [Keys -> Entry] /\ data[k] \in Entry /\ clock \in 0 .. MaxTime
    BY DEF IInv, Keyspace
  <2>2. ASSUME NEW now \in 0 .. MaxTime, now <= clock, Expired(data[k], now) PROVE FALSE
    <3>1. data[k].exp \in 0 .. MaxTime
      BY <2>1, EntryFields
    <3> QED
      BY <2>1, <2>2, <3>1 DEF Expired
  <2>3. ASSUME NEW x \in Keys, Erase(x) PROVE x = k
    BY <2>1, <2>3 DEF Erase, Write
  <2>4. ASSUME SweepShard PROVE FALSE
    <3>1. \A x \in Keys : data'[x] # data[x] => Expired(data[x], sweep.now)
      BY <2>4 DEF SweepShard
    <3>2. sweep.now \in 0 .. MaxTime /\ sweep.now <= clock
      BY DEF IInv, SweepTypes, ReadingsPast
    <3> QED
      BY <2>2, <3>1, <3>2
  <2>5. ASSUME NEW t \in Threads, GetSlow(t) \/ MGetSlow(t) PROVE FALSE
    <3>1. pc[t].now \in 0 .. MaxTime /\ pc[t].now <= clock /\ pc[t].keys \subseteq Keys
      BY DEF IInv, PcTypes, ReadingsPast
    <3>2. \/ UNCHANGED stored
          \/ \E x \in Keys : Erase(x) /\ (Expired(data[x], clock) \/ Expired(data[x], pc[t].now))
      BY <2>5, <3>1 DEF GetSlow, MGetSlow
    <3>3. ~ UNCHANGED stored
      BY DEF stored
    <3> QED
      BY <2>2, <2>3, <3>1, <3>2, <3>3
  <2> QED
    BY <2>4, <2>5
<1> QED
  BY <1>1, AlwaysHolds, PTL DEF Spec, OnlyExpiredExpire

-----------------------------------------------------------------------------
(* The memory of the entries, and what the steps of a command add to the    *)
(* counter.  Over(z): the counter claims z units too many at most.          *)

Over(z) == used_memory \in Nat /\ used_memory <= Memory(Keys) + z

\* With the counter at used, k may hold e.
Fits(k, used, e, z) ==
    used \in Nat /\ used + Estimate(data[k]) <= Memory(Keys) + Estimate(e) + z

LEMMA EstimateIs ==
    ASSUME NEW e \in Entry
    PROVE  /\ Estimate(e) \in Nat
           /\ Estimate(e) = IF e = None THEN 0 ELSE Overhead + e.n
           /\ e.kind # "none" => Estimate(e) = Overhead + e.n
           /\ e.n \in Nat
<1>1. e.n \in Nat /\ Overhead \in Nat
  BY EntryFields, StoreAssumption
<1>2. e.kind # "none" => e # None
  BY DEF None
<1> QED
  BY <1>1, <1>2 DEF Estimate

\* The entry at k is counted with all others.
LEMMA MemoryHolds ==
    ASSUME Keyspace, NEW k \in Keys
    PROVE  Memory(Keys) \in Nat /\ Estimate(data[k]) \in Nat /\ Estimate(data[k]) <= Memory(Keys)
<1>1. \A x \in Keys : Sizes[x] = Estimate(data[x]) /\ Sizes[x] \in Nat
  BY EstimateIs DEF Keyspace, Sizes
<1>2. ChangesAt(Sizes, Sizes, Keys, k)
  BY <1>1 DEF ChangesAt
<1>3. Total(Sizes, Keys) \in Nat /\ Sizes[k] <= Total(Sizes, Keys)
  BY <1>2, KeysAssumption, TotalChange
<1> QED
  BY <1>1, <1>3 DEF Memory

LEMMA MemoryType ==
    ASSUME Keyspace
    PROVE  Memory(Keys) \in Nat
<1>1. \A x \in Keys : Sizes[x] = Estimate(data[x]) /\ Sizes[x] \in Nat
  BY EstimateIs DEF Keyspace, Sizes
<1>2. Keys \in SUBSET Keys
  OBVIOUS
<1>3. Total(Sizes, Keys) \in Nat
  BY <1>1, <1>2, KeysAssumption, TotalParts
<1> QED
  BY <1>3 DEF Memory

MemoryTyped == Memory(Keys) \in Nat

LEMMA MemoryStays == Keyspace' => Memory(Keys)' \in Nat
<1>1. Keyspace => MemoryTyped
  BY MemoryType DEF MemoryTyped
<1>2. Keyspace' => MemoryTyped'
  BY <1>1, PTL
<1> QED
  BY <1>2 DEF MemoryTyped

LEMMA SameMemory ==
    ASSUME data' = data
    PROVE  Memory(Keys)' = Memory(Keys)
BY DEF Memory, Sizes

\* One entry is replaced.
LEMMA MemoryChange ==
    ASSUME Keyspace, NEW k \in Keys, NEW e \in Entry, data' = [data EXCEPT ![k] = e]
    PROVE  Memory(Keys)' = Memory(Keys) - Estimate(data[k]) + Estimate(e)
<1>1. \A x \in Keys : Sizes[x] = Estimate(data[x]) /\ Sizes[x] \in Nat
  BY EstimateIs DEF Keyspace, Sizes
<1>2. \A x \in Keys : data'[x] = IF x = k THEN e ELSE data[x]
  BY DEF Keyspace
<1>3. \A x \in Keys : Sizes'[x] = IF x = k THEN Estimate(e) ELSE Estimate(data[x])
  <2>1. \A x \in Keys : Sizes'[x] = Estimate(data'[x])
    BY DEF Sizes
  <2> QED
    BY <1>2, <2>1
<1>4. Estimate(e) \in Nat
  BY EstimateIs
<1> DEFINE m == Sizes
           n == Sizes'
<1>5. ChangesAt(m, n, Keys, k)
  <2>1. \A x \in Keys : m[x] \in Nat /\ n[x] \in Nat
    BY <1>1, <1>3, <1>4
  <2>2. \A x \in Keys \ {k} : n[x] = m[x]
    BY <1>1, <1>3
  <2> QED
    BY <2>1, <2>2 DEF ChangesAt
<1>6. m[k] = Estimate(data[k]) /\ n[k] = Estimate(e)
  BY <1>1, <1>3
<1> HIDE DEF m, n
<1>7. Total(n, Keys) = Total(m, Keys) - m[k] + n[k]
  BY <1>5, KeysAssumption, TotalChange
<1>8. Memory(Keys) = Total(m, Keys) /\ Memory(Keys)' = Total(n, Keys)
  BY DEF Memory, m, n
<1> QED
  BY <1>6, <1>7, <1>8

\* sub_memory and the two directions of a change.
LEMMA SubBound ==
    ASSUME NEW used \in Nat, NEW bytes \in Nat, NEW m \in Nat, used <= m, bytes <= m
    PROVE  Sub(used, bytes) \in Nat /\ Sub(used, bytes) <= m - bytes
BY DEF Sub

LEMMA DeltaBound ==
    ASSUME NEW used \in Nat, NEW old \in Nat, NEW new \in Nat, NEW m \in Nat,
           used <= m, old <= m
    PROVE  Delta(used, old, new) \in Nat /\ Delta(used, old, new) <= m - old + new
BY DEF Delta, Sub

\* The entry at k becomes e, the counter becomes used.
LEMMA ChangeCounts ==
    ASSUME Keyspace, NEW z \in Nat, NEW k \in Keys, NEW e \in Entry, NEW used,
           Fits(k, used, e, z), data' = [data EXCEPT ![k] = e], used_memory' = used
    PROVE  Over(z)'
<1>1. Memory(Keys) \in Nat /\ Estimate(data[k]) \in Nat /\ Estimate(data[k]) <= Memory(Keys)
  BY MemoryHolds
<1>2. Memory(Keys)' = Memory(Keys) - Estimate(data[k]) + Estimate(e) /\ Estimate(e) \in Nat
  BY MemoryChange, EstimateIs
<1> DEFINE m == Memory(Keys)
           n == Memory(Keys)'
<1>3. used \in Nat /\ used + Estimate(data[k]) <= m + Estimate(e) + z
  BY DEF Fits
<1>4. m \in Nat /\ n = m - Estimate(data[k]) + Estimate(e)
  BY <1>1, <1>2
<1> HIDE DEF m, n
<1>5. used <= n + z
  BY <1>1, <1>2, <1>3, <1>4
<1> QED
  BY <1>3, <1>5 DEF Over, n

LEMMA WriteCounts ==
    ASSUME Keyspace, NEW z \in Nat, NEW k \in Keys, NEW e \in Entry, NEW used, NEW index,
           Fits(k, used, e, z), Write(k, e, used, index)
    PROVE  Over(z)'
<1>1. data' = [data EXCEPT ![k] = e] /\ used_memory' = used
  BY DEF Write
<1> QED
  BY <1>1, ChangeCounts

LEMMA StoredCounts ==
    ASSUME NEW z \in Nat, Over(z), UNCHANGED stored
    PROVE  Over(z)'
BY SameMemory DEF Over, stored

LEMMA EraseCounts ==
    ASSUME Keyspace, NEW z \in Nat, Over(z), NEW k \in Keys, Erase(k)
    PROVE  Over(z)'
<1> DEFINE bytes == Estimate(data[k])
           used == Sub(used_memory, bytes)
           m == Memory(Keys)
<1>1. m \in Nat /\ bytes \in Nat /\ bytes <= m /\ used_memory \in Nat /\ used_memory <= m + z
  BY MemoryHolds DEF Over
<1>2. used \in Nat /\ used <= (m + z) - bytes
  <2> HIDE DEF m, bytes
  <2>1. m + z \in Nat /\ bytes <= m + z
    BY <1>1
  <2> QED
    BY <1>1, <2>1, SubBound
<1>3. Estimate(None) = 0
  BY DEF Estimate
<1>4. Fits(k, used, None, z)
  <2>1. used + bytes <= m + 0 + z
    <3> HIDE DEF used, m, bytes
    <3> QED
      BY <1>1, <1>2
  <2> QED
    BY <1>2, <1>3, <2>1 DEF Fits
<1>5. Write(k, None, used, keys_with_ttl \ {k})
  BY DEF Erase
<1> HIDE DEF used
<1> QED
  BY <1>4, <1>5, NoneIsEntry, WriteCounts

\* What a purge leaves fits what Find finds.
LEMMA PurgeFits ==
    ASSUME Keyspace, NEW z \in Nat, Over(z), NEW k \in Keys
    PROVE  Fits(k, PurgedMemory(k), Find(k), z)
<1> DEFINE bytes == Estimate(data[k])
           m == Memory(Keys)
<1>1. m \in Nat /\ bytes \in Nat /\ bytes <= m /\ used_memory \in Nat /\ used_memory <= m + z
  BY MemoryHolds DEF Over
<1>2. CASE Expired(data[k], clock)
  <2> DEFINE used == Sub(used_memory, bytes)
  <2>1. PurgedMemory(k) = used /\ Estimate(Find(k)) = 0
    BY <1>2 DEF PurgedMemory, Find, Estimate
  <2>2. used \in Nat /\ used + bytes <= m + 0 + z
    <3> HIDE DEF m, bytes
    <3>1. m + z \in Nat /\ bytes <= m + z
      BY <1>1
    <3>2. used \in Nat /\ used <= (m + z) - bytes
      BY <1>1, <3>1, SubBound
    <3> QED
      BY <1>1, <3>2
  <2> QED
    BY <2>1, <2>2 DEF Fits
<1>3. CASE ~Expired(data[k], clock)
  <2>1. PurgedMemory(k) = used_memory /\ Estimate(Find(k)) = bytes
    BY <1>3 DEF PurgedMemory, Find
  <2>2. used_memory + bytes <= m + bytes + z
    BY <1>1
  <2> QED
    BY <1>1, <2>1, <2>2 DEF Fits
<1> QED
  BY <1>2, <1>3

\* As long as the counter is in order, what is at k fits there.
LEMMA HereFits ==
    ASSUME Keyspace, NEW z \in Nat, Over(z), NEW k \in Keys
    PROVE  Fits(k, used_memory, data[k], z)
<1>1. Memory(Keys) \in Nat /\ Estimate(data[k]) \in Nat
  BY MemoryHolds
<1> QED
  BY <1>1 DEF Over, Fits

\* An entry e that fits is replaced by f.
LEMMA MoreFits ==
    ASSUME Keyspace, NEW z \in Nat, NEW k \in Keys, NEW e \in Entry, NEW f \in Entry,
           NEW used, Fits(k, used, e, z),
           NEW added \in Nat, Estimate(e) + added <= Estimate(f)
    PROVE  Fits(k, used + added, f, z)
<1>1. /\ Memory(Keys) \in Nat /\ Estimate(data[k]) \in Nat
      /\ Estimate(e) \in Nat /\ Estimate(f) \in Nat
  BY MemoryHolds, EstimateIs
<1> QED
  BY <1>1 DEF Fits

LEMMA LessFits ==
    ASSUME Keyspace, NEW z \in Nat, NEW k \in Keys, NEW e \in Entry, NEW f \in Entry,
           NEW used, Fits(k, used, e, z),
           NEW bytes \in Nat, Estimate(e) = Estimate(f) + bytes
    PROVE  Fits(k, Sub(used, bytes), f, z)
<1>1. /\ Memory(Keys) \in Nat /\ Estimate(data[k]) \in Nat /\ Estimate(data[k]) <= Memory(Keys)
      /\ Estimate(e) \in Nat /\ Estimate(f) \in Nat
  BY MemoryHolds, EstimateIs
<1> QED
  BY <1>1 DEF Fits, Sub

LEMMA DeltaFits ==
    ASSUME Keyspace, NEW z \in Nat, NEW k \in Keys, NEW e \in Entry, NEW f \in Entry,
           NEW used, Fits(k, used, e, z)
    PROVE  Fits(k, Delta(used, Estimate(e), Estimate(f)), f, z)
<1>1. Estimate(e) \in Nat /\ Estimate(f) \in Nat
  BY EstimateIs
<1>2. CASE Estimate(f) >= Estimate(e)
  <2> DEFINE added == Estimate(f) - Estimate(e)
  <2>1. added \in Nat /\ Estimate(e) + added <= Estimate(f)
    BY <1>1, <1>2
  <2>2. Delta(used, Estimate(e), Estimate(f)) = used + added
    BY <1>2 DEF Delta
  <2> HIDE DEF added
  <2> QED
    BY <2>1, <2>2, MoreFits
<1>3. CASE ~(Estimate(f) >= Estimate(e))
  <2> DEFINE bytes == Estimate(e) - Estimate(f)
  <2>1. bytes \in Nat /\ Estimate(e) = Estimate(f) + bytes
    BY <1>1, <1>3
  <2>2. Delta(used, Estimate(e), Estimate(f)) = Sub(used, bytes)
    BY <1>3 DEF Delta
  <2> HIDE DEF bytes
  <2> QED
    BY <2>1, <2>2, LessFits
<1> QED
  BY <1>2, <1>3

LEMMA PurgeCounts ==
    ASSUME Keyspace, NEW z \in Nat, Over(z), NEW k \in Keys, Purge(k)
    PROVE  Over(z)'
<1>1. data' = [data EXCEPT ![k] = Find(k)] /\ used_memory' = PurgedMemory(k)
  BY DEF Purge
<1> QED
  BY <1>1, PurgeFits, FindFits, ChangeCounts

\* Two entries are replaced, one after the other.
LEMMA TwoChange ==
    ASSUME Keyspace, NEW k \in Keys, NEW l \in Keys, k # l, NEW e \in Entry, NEW f \in Entry,
           data' = [data EXCEPT ![k] = e, ![l] = f]
    PROVE  \E m \in Nat : /\ m = Memory(Keys) - Estimate(data[k]) + Estimate(e)
                          /\ Estimate(data[l]) <= m
                          /\ Memory(Keys)' = m - Estimate(data[l]) + Estimate(f)
<1>1. \A x \in Keys : Sizes[x] = Estimate(data[x]) /\ Sizes[x] \in Nat
  BY EstimateIs DEF Keyspace, Sizes
<1>2. \A x \in Keys : data'[x] = IF x = l THEN f ELSE IF x = k THEN e ELSE data[x]
  BY DEF Keyspace
<1>3. Estimate(e) \in Nat /\ Estimate(f) \in Nat
  BY EstimateIs
<1> DEFINE before == Sizes
           between == [x \in Keys |-> IF x = k THEN Estimate(e) ELSE Sizes[x]]
           after == Sizes'
<1>4. \A x \in Keys : after[x] = IF x = l THEN Estimate(f)
                                 ELSE IF x = k THEN Estimate(e) ELSE Sizes[x]
  <2>1. \A x \in Keys : after[x] = Estimate(data'[x])
    BY DEF Sizes
  <2> QED
    BY <1>1, <1>2, <2>1, ZenonT(60)
<1>5. ChangesAt(before, between, Keys, k)
  <2>1. \A x \in Keys : before[x] \in Nat /\ between[x] \in Nat
    BY <1>1, <1>3
  <2>2. \A x \in Keys \ {k} : between[x] = before[x]
    OBVIOUS
  <2> QED
    BY <2>1, <2>2 DEF ChangesAt
<1>6. ChangesAt(between, after, Keys, l)
  <2>1. \A x \in Keys : between[x] \in Nat /\ after[x] \in Nat
    BY <1>1, <1>3, <1>4
  <2>2. \A x \in Keys \ {l} : after[x] = between[x]
    BY <1>4
  <2> QED
    BY <2>1, <2>2 DEF ChangesAt
<1>7. /\ before[k] = Estimate(data[k]) /\ between[k] = Estimate(e)
      /\ between[l] = Estimate(data[l]) /\ after[l] = Estimate(f)
  BY <1>1, <1>4
<1>8. Memory(Keys) = Total(before, Keys) /\ Memory(Keys)' = Total(after, Keys)
  BY DEF Memory
<1> HIDE DEF before, between, after
<1>9. /\ Total(between, Keys) \in Nat
      /\ Total(between, Keys) = Total(before, Keys) - before[k] + between[k]
  BY <1>5, KeysAssumption, TotalChange
<1>10. /\ between[l] <= Total(between, Keys)
       /\ Total(after, Keys) = Total(between, Keys) - between[l] + after[l]
  BY <1>6, KeysAssumption, TotalChange
<1> QED
  BY <1>7, <1>8, <1>9, <1>10

-----------------------------------------------------------------------------
(* What each command leaves the counter with.                               *)

LEMMA SetCounts ==
    ASSUME Keyspace, clock \in 0 .. MaxTime, NEW z \in Nat, Over(z),
           NEW k \in Keys, NEW n \in 1 .. MaxSize,
           NEW ttl \in TTLs \cup {0}, NEW keep \in BOOLEAN, NEW only,
           clock + ttl <= MaxTime, Set(k, n, ttl, keep, only)
    PROVE  Over(z)'
<1> DEFINE old == Find(k)
           exp == IF ttl # 0 THEN clock + ttl ELSE IF keep THEN old.exp ELSE 0
           index == IF exp # 0 THEN PurgedIndex(k) \cup {k}
                    ELSE IF old.exp # 0 THEN PurgedIndex(k) \ {k}
                    ELSE PurgedIndex(k)
           new == [kind |-> "string", n |-> n, exp |-> exp]
           used == Delta(PurgedMemory(k), Estimate(old), Estimate(new))
<1>1. Purge(k) \/ Write(k, new, used, index)
  BY DEF Set
<1>2. exp \in 0 .. MaxTime
  <2>1. ttl \in Nat
    BY StoreAssumption
  <2>2. old.exp \in 0 .. MaxTime
    BY FindFits, EntryFields
  <2> QED
    BY <2>1, <2>2, StoreAssumption
<1>3. new \in Entry
  BY <1>2, EntryMade DEF Kinds
<1> HIDE DEF new, index
<1>4. Fits(k, used, new, z)
  BY <1>3, FindFits, PurgeFits, DeltaFits
<1> HIDE DEF used
<1> QED
  BY <1>1, <1>3, <1>4, PurgeCounts, WriteCounts

LEMMA SetExCounts ==
    ASSUME Keyspace, clock \in 0 .. MaxTime, NEW z \in Nat, Over(z),
           NEW k \in Keys, NEW n \in 1 .. MaxSize,
           NEW ttl \in TTLs, clock + ttl <= MaxTime, SetEx(k, n, ttl)
    PROVE  Over(z)'
<1> DEFINE new == [kind |-> "string", n |-> n, exp |-> clock + ttl]
           used == Delta(used_memory, Estimate(data[k]), Estimate(new))
<1>1. Write(k, new, used, keys_with_ttl \cup {k})
  BY DEF SetEx
<1>2. clock + ttl \in 0 .. MaxTime
  BY StoreAssumption
<1>3. new \in Entry /\ data[k] \in Entry
  BY <1>2, EntryMade DEF Kinds, Keyspace
<1> HIDE DEF new
<1>4. Fits(k, used, new, z)
  BY <1>3, HereFits, DeltaFits
<1> HIDE DEF used
<1> QED
  BY <1>1, <1>3, <1>4, WriteCounts

\* The counter of MSET follows its two entries one after the other.
LEMMA MSetCounts ==
    ASSUME Keyspace, NEW z \in Nat, Over(z), NEW k \in Keys, NEW l \in Keys \ {k},
           NEW n \in 1 .. MaxSize, MSet(k, l, n)
    PROVE  Over(z)'
<1> DEFINE new == [kind |-> "string", n |-> n, exp |-> 0]
           first == Delta(used_memory, Estimate(data[k]), Estimate(new))
           second == Delta(first, Estimate(data[l]), Estimate(new))
<1>1. data' = [data EXCEPT ![k] = new, ![l] = new] /\ used_memory' = second
  BY DEF MSet
<1>2. new \in Entry
  BY EntryMade, StoreAssumption DEF Kinds
<1>3. /\ Estimate(new) \in Nat /\ Estimate(data[l]) \in Nat
      /\ Memory(Keys) \in Nat /\ Estimate(data[k]) \in Nat /\ Estimate(data[k]) <= Memory(Keys)
      /\ used_memory \in Nat /\ used_memory <= Memory(Keys) + z
  BY <1>2, EstimateIs, MemoryHolds DEF Over
<1> HIDE DEF new
<1>4. PICK m \in Nat : /\ m = Memory(Keys) - Estimate(data[k]) + Estimate(new)
                       /\ Estimate(data[l]) <= m
                       /\ Memory(Keys)' = m - Estimate(data[l]) + Estimate(new)
  BY <1>1, <1>2, TwoChange
<1> DEFINE room == Memory(Keys) + z
<1>5. room \in Nat /\ used_memory <= room /\ Estimate(data[k]) <= room
  BY <1>3
<1>6. first \in Nat /\ first <= room - Estimate(data[k]) + Estimate(new)
  <2> HIDE DEF room
  <2> QED
    BY <1>3, <1>5, DeltaBound
<1> HIDE DEF first
<1>7. first <= m + z /\ m + z \in Nat /\ Estimate(data[l]) <= m + z
  BY <1>3, <1>4, <1>6
<1>8. second \in Nat /\ second <= (m + z) - Estimate(data[l]) + Estimate(new)
  BY <1>3, <1>6, <1>7, DeltaBound
<1> DEFINE after == Memory(Keys)'
<1>9. after = m - Estimate(data[l]) + Estimate(new)
  BY <1>4
<1> HIDE DEF second, after
<1>10. second <= after + z
  BY <1>3, <1>4, <1>8, <1>9
<1> QED
  BY <1>1, <1>8, <1>10 DEF Over, after

\* INCR, HSET and HINCRBY count the difference of what they found and made.
LEMMA ReplaceCounts ==
    ASSUME Keyspace, NEW z \in Nat, Over(z), NEW k \in Keys, NEW n \in 1 .. MaxSize,
           NEW kind \in Kinds, NEW index,
           LET old == Find(k)
               new == [kind |-> kind, n |-> n, exp |-> old.exp]
           IN  Write(k, new, Delta(PurgedMemory(k), Estimate(old), Estimate(new)), index)
    PROVE  Over(z)'
<1> DEFINE new == [kind |-> kind, n |-> n, exp |-> Find(k).exp]
           used == Delta(PurgedMemory(k), Estimate(Find(k)), Estimate(new))
<1>1. Write(k, new, used, index)
  OBVIOUS
<1>2. new \in Entry
  BY FindFits, EntryFields, EntryMade
<1> HIDE DEF new
<1>3. Fits(k, used, new, z)
  BY <1>2, FindFits, PurgeFits, DeltaFits
<1> HIDE DEF used
<1> QED
  BY <1>1, <1>2, <1>3, WriteCounts

\* PUSH, SADD, HSETNX and ZADD add no more than their entry grew by.
LEMMA GrowCounts ==
    ASSUME Keyspace, NEW z \in Nat, Over(z), NEW k \in Keys, NEW n \in 1 .. MaxSize,
           NEW kind \in Kinds, NEW index, NEW added \in Nat,
           Write(k, [kind |-> kind, n |-> n, exp |-> Find(k).exp],
                 PurgedMemory(k) + added, index),
           \/ Find(k).n + added <= n
           \/ Find(k) = None /\ added <= Overhead + n
    PROVE  Over(z)'
<1> DEFINE new == [kind |-> kind, n |-> n, exp |-> Find(k).exp]
           used == PurgedMemory(k) + added
<1>1. Write(k, new, used, index)
  OBVIOUS
<1>2. new \in Entry /\ Find(k) \in Entry
  BY FindFits, EntryFields, EntryMade
<1>3. Estimate(new) = Overhead + n
  <2>1. new # None
    BY DEF None, Kinds
  <2> QED
    BY <2>1 DEF Estimate
<1>4. Estimate(Find(k)) + added <= Estimate(new)
  <2>1. /\ Find(k).n \in Nat /\ Overhead \in Nat /\ n \in Nat
        /\ Estimate(Find(k)) = IF Find(k) = None THEN 0 ELSE Overhead + Find(k).n
    BY <1>2, EstimateIs, StoreAssumption
  <2>2. None.n = 0
    BY DEF None
  <2> QED
    BY <1>3, <2>1, <2>2
<1> HIDE DEF new
<1>5. Fits(k, used, new, z)
  BY <1>2, <1>4, PurgeFits, MoreFits
<1> HIDE DEF used
<1> QED
  BY <1>1, <1>2, <1>5, WriteCounts

LEMMA PushCounts ==
    ASSUME Keyspace, NEW z \in Nat, Over(z), NEW k \in Keys, NEW c \in 1 .. MaxSize, Push(k, c)
    PROVE  Over(z)'
<1> DEFINE size == Find(k).n + c
           added == IF Find(k) = None THEN Overhead + c ELSE c
<1>1. Write(k, [kind |-> "list", n |-> size, exp |-> Find(k).exp], PurgedMemory(k) + added,
            PurgedIndex(k))
  BY DEF Push
<1>2. Find(k).n \in Nat /\ c \in Nat /\ c >= 1 /\ Overhead \in Nat /\ MaxSize \in Nat
  BY FindFits, EntryFields, StoreAssumption
<1>3. size \in 1 .. MaxSize
  BY <1>2 DEF Push
<1>4. added \in Nat
  BY <1>2
<1>5. \/ Find(k).n + added <= size
      \/ Find(k) = None /\ added <= Overhead + size
  BY <1>2
<1> HIDE DEF size, added
<1> QED
  BY <1>1, <1>3, <1>4, <1>5, GrowCounts DEF Kinds

LEMMA CheckedWriteCounts ==
    ASSUME Keyspace, clock \in 0 .. MaxTime, NEW z \in Nat, Over(z),
           NEW t \in Threads, CheckedWrite(t)
    PROVE  Over(z)'
<1>1. ASSUME NEW k \in Keys, Refused(k) PROVE Over(z)'
  BY <1>1, StoredCounts, PurgeCounts DEF Refused
<1>2. ASSUME NEW k \in Keys, NEW n \in 1 .. MaxSize, ModifyInt(k, n) PROVE Over(z)'
  <2>1. LET old == Find(k)
            new == [kind |-> "string", n |-> n, exp |-> old.exp]
        IN  Write(k, new, Delta(PurgedMemory(k), Estimate(old), Estimate(new)), PurgedIndex(k))
    BY <1>2 DEF ModifyInt
  <2>2. "string" \in Kinds
    BY DEF Kinds
  <2> QED
    BY <2>1, <2>2, ReplaceCounts
<1>3. ASSUME NEW k \in Keys, NEW n \in 1 .. MaxSize, NEW ttl \in TTLs \cup {0},
             NEW keep \in BOOLEAN, NEW only, clock + ttl <= MaxTime, Set(k, n, ttl, keep, only)
      PROVE  Over(z)'
  BY <1>3, SetCounts
<1>4. ASSUME NEW k \in Keys, NEW n \in 1 .. MaxSize, NEW ttl \in TTLs,
             clock + ttl <= MaxTime, SetEx(k, n, ttl)
      PROVE  Over(z)'
  BY <1>4, SetExCounts
<1>5. ASSUME NEW k \in Keys, NEW n \in 1 .. MaxSize, NEW l \in Keys \ {k}, MSet(k, l, n)
      PROVE  Over(z)'
  BY <1>5, MSetCounts
<1>6. ASSUME NEW k \in Keys, NEW n \in 1 .. MaxSize, Push(k, n) PROVE Over(z)'
  BY <1>6, PushCounts
<1> QED
  BY <1>1, <1>2, <1>3, <1>4, <1>5, <1>6 DEF CheckedWrite

\* A removal takes off what the entry lost.
LEMMA ShrinkCounts ==
    ASSUME Keyspace, NEW z \in Nat, Over(z), NEW k \in Keys, NEW kind \in Kinds,
           NEW n \in 0 .. MaxSize, Shrink(k, kind, n)
    PROVE  Over(z)'
<1>1. CASE n = 0
  BY <1>1, EraseCounts DEF Shrink
<1>2. CASE n # 0
  <2> DEFINE e == [data[k] EXCEPT !.n = n]
             bytes == data[k].n - n
             used == Sub(used_memory, bytes)
  <2>1. Write(k, e, used, keys_with_ttl)
    BY <1>2 DEF Shrink
  <2>2. data[k] \in Entry /\ data[k].kind = kind /\ n < data[k].n
    BY DEF Shrink, Keyspace
  <2>3. n \in 1 .. MaxSize /\ n \in Nat
    BY <1>2, StoreAssumption
  <2>4. data[k] \in [kind : Kinds, n : 1 .. MaxSize, exp : 0 .. MaxTime]
    BY <2>2 DEF Entry, None, Kinds
  <2>5. e \in Entry /\ e.kind = data[k].kind /\ e.n = n
    BY <2>3, <2>4 DEF Entry
  <2>6. /\ Estimate(data[k]) = Overhead + data[k].n /\ Estimate(e) = Overhead + n
        /\ data[k].n \in Nat /\ Overhead \in Nat
    <3>1. data[k].kind # "none"
      BY <2>2 DEF Kinds
    <3> HIDE DEF e
    <3> QED
      BY <2>2, <2>5, <3>1, EstimateIs, StoreAssumption
  <2> HIDE DEF e
  <2>7. bytes \in Nat /\ Estimate(data[k]) = Estimate(e) + bytes
    BY <2>2, <2>3, <2>6
  <2> HIDE DEF bytes
  <2>8. Fits(k, used, e, z)
    BY <2>2, <2>5, <2>7, HereFits, LessFits
  <2> HIDE DEF used
  <2> QED
    BY <2>1, <2>5, <2>8, WriteCounts
<1> QED
  BY <1>1, <1>2

\* A new expiry weighs nothing.
LEMMA NewExpiryCounts ==
    ASSUME Keyspace, NEW z \in Nat, Over(z), NEW k \in Keys, Present(k),
           NEW exp \in 0 .. MaxTime, NEW index,
           Write(k, [data[k] EXCEPT !.exp = exp], used_memory, index)
    PROVE  Over(z)'
<1> DEFINE e == [data[k] EXCEPT !.exp = exp]
<1>1. data[k] \in [kind : Kinds, n : 1 .. MaxSize, exp : 0 .. MaxTime]
  BY DEF Keyspace, Entry, Present
<1>2. e \in Entry /\ e.kind = data[k].kind /\ e.n = data[k].n
  BY <1>1 DEF Entry
<1>3. Write(k, e, used_memory, index)
  OBVIOUS
<1> HIDE DEF e
<1>4. data[k] \in Entry /\ data[k].kind # "none"
  BY <1>1 DEF Keyspace, Kinds
<1>5. Estimate(e) = Estimate(data[k])
  BY <1>2, <1>4, EstimateIs
<1>6. Fits(k, used_memory, e, z)
  BY <1>5, HereFits DEF Fits
<1> QED
  BY <1>2, <1>3, <1>6, WriteCounts

LEMMA ExpireCounts ==
    ASSUME Keyspace, clock \in 0 .. MaxTime, NEW z \in Nat, Over(z), NEW k \in Keys,
           NEW ttl \in TTLs \cup {0}, clock + ttl <= MaxTime, Expire(k, ttl)
    PROVE  Over(z)'
<1>1. CASE ttl = 0 \/ Expired(data[k], clock)
  BY <1>1, EraseCounts DEF Expire
<1>2. CASE ~(ttl = 0 \/ Expired(data[k], clock))
  <2> DEFINE exp == clock + ttl
  <2>1. exp \in 0 .. MaxTime
    BY <1>2, StoreAssumption
  <2>2. Present(k) /\ Write(k, [data[k] EXCEPT !.exp = exp], used_memory, keys_with_ttl \cup {k})
    BY <1>2 DEF Expire
  <2> HIDE DEF exp
  <2> QED
    BY <2>1, <2>2, NewExpiryCounts
<1> QED
  BY <1>1, <1>2

LEMMA PersistCounts ==
    ASSUME Keyspace, NEW z \in Nat, Over(z), NEW k \in Keys, Persist(k)
    PROVE  Over(z)'
<1>1. CASE Expired(data[k], clock)
  BY <1>1, EraseCounts DEF Persist
<1>2. CASE ~Expired(data[k], clock)
  <2>1. Present(k)
    BY NoneIsEntry DEF Persist, Present
  <2>2. Write(k, [data[k] EXCEPT !.exp = 0], used_memory, keys_with_ttl \ {k})
    BY <1>2 DEF Persist
  <2>3. 0 \in 0 .. MaxTime
    BY StoreAssumption
  <2> QED
    BY <2>1, <2>2, <2>3, NewExpiryCounts
<1> QED
  BY <1>1, <1>2

\* DEL of two keys takes off their entries one after the other.
LEMMA DelCounts ==
    ASSUME Keyspace, NEW z \in Nat, Over(z), NEW k \in Keys, NEW l \in Keys, Del(k, l)
    PROVE  Over(z)'
<1> DEFINE first == Sub(used_memory, Estimate(data[k]))
           second == Sub(first, Estimate(data[l]))
           m == Memory(Keys)
<1>1. /\ data' = [data EXCEPT ![k] = None, ![l] = None]
      /\ used_memory' = IF l = k THEN first ELSE second
  BY DEF Del
<1>2. /\ Estimate(None) = 0 /\ Estimate(data[l]) \in Nat
      /\ m \in Nat /\ Estimate(data[k]) \in Nat /\ Estimate(data[k]) <= m
      /\ used_memory \in Nat /\ used_memory <= m + z
  BY MemoryHolds DEF Over, Estimate
<1>3. first \in Nat /\ first <= (m + z) - Estimate(data[k])
  <2> HIDE DEF m
  <2>1. m + z \in Nat /\ Estimate(data[k]) <= m + z
    BY <1>2
  <2> QED
    BY <1>2, <2>1, SubBound
<1>4. CASE l = k
  <2>1. data' = [data EXCEPT ![k] = None] /\ used_memory' = first
    BY <1>1, <1>4 DEF Keyspace
  <2>2. Fits(k, first, None, z)
    <3>1. first + Estimate(data[k]) <= m + 0 + z
      <4> HIDE DEF first, m
      <4> QED
        BY <1>2, <1>3
    <3> QED
      BY <1>2, <1>3, <3>1 DEF Fits
  <2> HIDE DEF first
  <2> QED
    BY <2>1, <2>2, NoneIsEntry, ChangeCounts
<1>5. CASE l # k
  <2>1. PICK x \in Nat : /\ x = Memory(Keys) - Estimate(data[k]) + Estimate(None)
                         /\ Estimate(data[l]) <= x
                         /\ Memory(Keys)' = x - Estimate(data[l]) + Estimate(None)
    BY <1>1, <1>5, NoneIsEntry, TwoChange
  <2>6. x = m - Estimate(data[k]) + Estimate(None)
    BY <2>1
  <2> HIDE DEF first, m
  <2>2. x + z \in Nat /\ first <= x + z /\ Estimate(data[l]) <= x + z
    BY <1>2, <1>3, <2>1, <2>6
  <2>3. second \in Nat /\ second <= (x + z) - Estimate(data[l])
    BY <1>2, <1>3, <2>2, SubBound
  <2> DEFINE after == Memory(Keys)'
  <2>4. after = x - Estimate(data[l]) + 0
    BY <1>2, <2>1
  <2> HIDE DEF second, after
  <2>5. second <= after + z
    BY <1>2, <2>1, <2>3, <2>4
  <2> QED
    BY <1>1, <1>5, <2>3, <2>5 DEF Over, after
<1> QED
  BY <1>4, <1>5

LEMMA UncheckedWriteCounts ==
    ASSUME Keyspace, clock \in 0 .. MaxTime, NEW z \in Nat, Over(z),
           NEW t \in Threads, UncheckedWrite(t)
    PROVE  Over(z)'
<1>1. ASSUME NEW k \in Keys, NEW n \in 1 .. MaxSize, HSet(k, n) \/ HIncrBy(k, n)
      PROVE  Over(z)'
  <2>1. LET old == Find(k)
            new == [kind |-> "hash", n |-> n, exp |-> old.exp]
        IN  Write(k, new, Delta(PurgedMemory(k), Estimate(old), Estimate(new)), PurgedIndex(k))
    BY <1>1 DEF HSet, HIncrBy, Resize
  <2>2. "hash" \in Kinds
    BY DEF Kinds
  <2> QED
    BY <2>1, <2>2, ReplaceCounts
<1>2. ASSUME NEW k \in Keys, NEW n \in 1 .. MaxSize, HSetNx(k, n) \/ SAdd(k, n)
      PROVE  Over(z)'
  <2> DEFINE added == n - Find(k).n
  <2>1. PICK kind \in Kinds : /\ Write(k, [kind |-> kind, n |-> n, exp |-> Find(k).exp],
                                       PurgedMemory(k) + added, PurgedIndex(k))
                              /\ n > Find(k).n
    BY <1>2 DEF HSetNx, SAdd, AddMember, Kinds
  <2>2. Find(k).n \in Nat
    BY FindFits, EntryFields
  <2>3. added \in Nat /\ Find(k).n + added <= n
    BY <2>1, <2>2
  <2> HIDE DEF added
  <2> QED
    BY <2>1, <2>3, GrowCounts
<1>3. ASSUME NEW k \in Keys, NEW n \in 1 .. MaxSize, ZAdd(k, n) PROVE Over(z)'
  <2> DEFINE added == IF Find(k) = None THEN Overhead + n ELSE n - Find(k).n
  <2>1. /\ Write(k, [kind |-> "zset", n |-> n, exp |-> Find(k).exp],
                 PurgedMemory(k) + added, PurgedIndex(k))
        /\ n >= Find(k).n
    BY <1>3 DEF ZAdd
  <2>2. Find(k).n \in Nat /\ n \in Nat /\ Overhead \in Nat
    BY FindFits, EntryFields, StoreAssumption
  <2>3. /\ added \in Nat
        /\ \/ Find(k).n + added <= n
           \/ Find(k) = None /\ added <= Overhead + n
    BY <2>1, <2>2
  <2> HIDE DEF added
  <2> QED
    BY <2>1, <2>3, GrowCounts DEF Kinds
<1>4. ASSUME NEW k \in Keys, NEW n \in 0 .. MaxSize,
             LPop(k, n) \/ HDel(k, n) \/ SRem(k, n) \/ ZRem(k, n)
      PROVE  Over(z)'
  <2>1. Purge(k) \/ \E kind \in Kinds : Shrink(k, kind, n)
    BY <1>4 DEF LPop, HDel, SRem, ZRem, PurgeExpired, Kinds
  <2> QED
    BY <2>1, PurgeCounts, ShrinkCounts
<1> QED
  BY <1>1, <1>2, <1>3, <1>4, DelCounts, ExpireCounts, PersistCounts DEF UncheckedWrite

\* The sweep takes off what the entries it erased had.
LEMMA SweepShardCounts ==
    ASSUME Keyspace, NEW z \in Nat, Over(z), SweepShard
    PROVE  Over(z)'
<1> DEFINE indexed == {k \in keys_with_ttl : ShardOf[k] = sweep.shard}
           checked == {k \in indexed :
                Cardinality({l \in indexed : Rank[l] < Rank[k]}) < BatchPerShard}
           gone == {k \in checked : Expired(data[k], sweep.now)}
<1>1. /\ data' = [k \in Keys |-> IF k \in gone THEN None ELSE data[k]]
      /\ used_memory' = Sub(used_memory, Memory(gone))
  BY DEF SweepShard
<1>2. gone \in SUBSET Keys
  BY DEF Keyspace, TtlIndexed
<1> HIDE DEF gone
<1>3. \A x \in Keys : Sizes[x] = Estimate(data[x]) /\ Sizes[x] \in Nat
  BY EstimateIs DEF Keyspace, Sizes
<1>4. Estimate(None) = 0
  BY DEF Estimate
<1> DEFINE before == Sizes
           after == Sizes'
           m == Memory(Keys)
           n == Memory(Keys)'
           bytes == Memory(gone)
<1>5. \A x \in Keys : before[x] \in Nat /\ after[x] = IF x \in gone THEN 0 ELSE before[x]
  <2>1. \A x \in Keys : after[x] = Estimate(data'[x])
    BY DEF Sizes
  <2> QED
    BY <1>1, <1>3, <1>4, <2>1
<1>6. m = Total(before, Keys) /\ n = Total(after, Keys) /\ bytes = Total(before, gone)
  BY DEF Memory
<1> HIDE DEF before, after
<1>7. /\ Total(before, Keys) \in Nat /\ Total(after, Keys) \in Nat /\ Total(before, gone) \in Nat
      /\ Total(before, Keys) = Total(before, gone) + Total(after, Keys)
  BY <1>2, <1>5, KeysAssumption, TotalZeroed
<1>8. used_memory \in Nat /\ used_memory <= m + z
  BY DEF Over
<1>9. used_memory' = Sub(used_memory, bytes)
  BY <1>1
<1> HIDE DEF m, n, bytes
<1>10. used_memory' \in Nat /\ used_memory' <= n + z
  <2>1. m + z \in Nat /\ bytes \in Nat /\ bytes <= m + z
    BY <1>6, <1>7
  <2>2. Sub(used_memory, bytes) \in Nat /\ Sub(used_memory, bytes) <= (m + z) - bytes
    BY <1>8, <2>1, SubBound
  <2> QED
    BY <1>6, <1>7, <1>9, <2>2
<1> QED
  BY <1>10 DEF Over, n

-----------------------------------------------------------------------------
(* The counter: in order whenever no FLUSHDB is under way, whatever it is   *)
(* during one, because the end of every FLUSHDB sets it to zero.            *)

Counted == used_memory \in Nat /\ NeverOvercounted

\* Only FLUSHDB itself takes a thread away from there.
Stays == Flushing => Flushing'

LEMMA StepStays ==
    ASSUME PcTypes, [Next]_vars, ~ \E t \in Threads : FlushMemory(t)
    PROVE  Stays
<1> SUFFICES ASSUME NEW u \in Threads, pc[u].at = "flush" PROVE Flushing'
  BY DEF Stays, Flushing
<1> DEFINE In(t) == pc'[t].at = "flush"
<1>1. ASSUME NEW t \in Threads, Command(t) PROVE In(u)
  <2>1. ASSUME NEW place, GoTo(t, place), t # u PROVE In(u)
    BY <2>1 DEF GoTo, PcTypes
  <2>2. CASE t # u
    <3>1. CASE pc' = pc
      BY <3>1
    <3>2. CASE \E place : GoTo(t, place)
      BY <2>1, <2>2, <3>2
    <3> QED
      BY <1>1, <3>1, <3>2
      DEF Command, Check, PickVictim, Evict, Evicted, Verdict, CheckedWrite,
          UncheckedWrite, Lookup, GetSlow, MGet, MGetClock, MGetSlow, FlushDb,
          FlushShard, FlushMemory
  <2>3. CASE t = u
    <3>1. pc[t].at = "flush" /\ pc[t] # Idle
      BY <2>3 DEF Idle
    <3>2. FlushShard(t)
      BY <1>1, <3>1
      DEF Command, Check, PickVictim, Evict, Evicted, Verdict, CheckedWrite,
          UncheckedWrite, Lookup, GetSlow, MGet, MGetClock, MGetSlow, FlushDb, Begins
    <3> QED
      BY <2>3, <3>1, <3>2 DEF FlushShard, GoTo, PcTypes
  <2> QED
    BY <2>2, <2>3
<1>2. ASSUME UNCHANGED pc PROVE In(u)
  BY <1>2
<1>3. In(u)
  BY <1>1, <1>2 DEF Next, EvictionThread, SweepStart, SweepShard, Tick, vars
<1> QED
  BY <1>3 DEF Flushing

\* No step but those of FLUSHDB makes a claim that no entry stands for.
LEMMA StepCounts ==
    ASSUME Keyspace, clock \in 0 .. MaxTime, PcTypes, [Next]_vars,
           ~ \E t \in Threads : FlushMemory(t) \/ FlushShard(t),
           NEW z \in Nat, Over(z)
    PROVE  Over(z)'
<1>1. ASSUME NEW t \in Threads, Command(t) PROVE Over(z)'
  <2>1. pc[t].keys \subseteq Keys
    BY DEF PcTypes
  <2>2. CASE Check(t) \/ PickVictim(t) \/ Evicted(t) \/ Verdict(t)
    BY <2>2, StoredCounts DEF Check, PickVictim, Evicted, Verdict
  <2>3. CASE Lookup(t) \/ MGet(t) \/ MGetClock(t) \/ FlushDb(t)
    BY <2>3, StoredCounts DEF Lookup, MGet, MGetClock, FlushDb
  <2>4. CASE Evict(t) \/ GetSlow(t) \/ MGetSlow(t)
    <3>1. UNCHANGED stored \/ \E k \in Keys : Erase(k)
      BY <2>1, <2>4 DEF Evict, GetSlow, MGetSlow
    <3> QED
      BY <3>1, EraseCounts, StoredCounts
  <2> QED
    BY <1>1, <2>2, <2>3, <2>4, CheckedWriteCounts, UncheckedWriteCounts DEF Command
<1>2. CASE SweepStart \/ Tick \/ UNCHANGED vars
  BY <1>2, StoredCounts DEF SweepStart, Tick, vars, stored
<1> QED
  BY <1>1, <1>2, SweepShardCounts DEF Next, EvictionThread

LEMMA InitCounted == Init => Counted
<1> SUFFICES ASSUME Init PROVE Counted
  OBVIOUS
<1>1. Memory(Keys) \in Nat
  BY InitHolds, MemoryType DEF IInv
<1> QED
  BY <1>1 DEF Init, Counted, NeverOvercounted

LEMMA StepCounted == IInv /\ Counted /\ [Next]_vars => Counted'
<1> SUFFICES ASSUME IInv, Counted, [Next]_vars PROVE Counted'
  OBVIOUS
<1>1. Keyspace /\ clock \in 0 .. MaxTime /\ PcTypes /\ used_memory \in Nat
  BY DEF IInv, Counted
<1>2. Memory(Keys) \in Nat
  BY <1>1, MemoryType
<1>3. Memory(Keys)' \in Nat
  BY StepHolds, MemoryStays DEF IInv
<1>4. CASE \E t \in Threads : FlushMemory(t)
  BY <1>3, <1>4 DEF FlushMemory, Counted, NeverOvercounted
<1>5. CASE /\ \E t \in Threads : FlushShard(t)
           /\ ~ \E t \in Threads : FlushMemory(t)
  <2>1. Flushing /\ used_memory' = used_memory
    BY <1>5 DEF FlushShard, Flushing
  <2>2. Flushing'
    BY <1>1, <1>5, <2>1, StepStays DEF Stays
  <2> QED
    BY <1>1, <2>1, <2>2 DEF Counted, NeverOvercounted
<1>6. CASE ~ \E t \in Threads : FlushMemory(t) \/ FlushShard(t)
  <2>1. CASE Flushing
    <3>1. PICK z \in Nat : z = used_memory
      BY <1>1
    <3>2. Over(z)
      BY <1>1, <1>2, <3>1 DEF Over
    <3>3. Over(z)'
      BY <1>1, <1>6, <3>2, StepCounts
    <3>4. Flushing'
      BY <1>1, <1>6, <2>1, StepStays DEF Stays
    <3> QED
      BY <3>3, <3>4 DEF Counted, NeverOvercounted, Over
  <2>2. CASE ~Flushing
    <3>1. 0 \in Nat /\ Over(0)
      BY <1>1, <1>2, <2>2 DEF Over, Counted, NeverOvercounted
    <3>2. Over(0)'
      BY <1>1, <1>6, <3>1, StepCounts
    <3> QED
      BY <1>3, <3>2 DEF Counted, NeverOvercounted, Over
  <2> QED
    BY <2>1, <2>2
<1> QED
  BY <1>4, <1>5, <1>6

\* Outside of a FLUSHDB used_memory_ never claims more than the entries of the
\* store have, whatever expires, is evicted, swept or flushed in between: no
\* write is refused and no entry evicted for memory that is not in use.
THEOREM CounterNeverOver == Spec => []NeverOvercounted
<1>1. Counted => NeverOvercounted
  BY DEF Counted
<1> QED
  BY <1>1, InitCounted, StepCounted, AlwaysHolds, PTL DEF Spec
=============================================================================
