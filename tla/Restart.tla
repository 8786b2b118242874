------------------------------- MODULE Restart -------------------------------
(***************************************************************************)
(* What a restart makes of the keyspace: the commands and the records they *)
(* leave in the log (commands.hpp), BGREWRITEAOF, the snapshot, and the    *)
(* start, which loads the snapshot and replays the log over it             *)
(* (server.hpp, aof.hpp).  The clock goes on all the time, and the replay  *)
(* runs the commands of the log against the clock of the restart.          *)
(*                                                                         *)
(* Left out: how records reach the disk (module Aof: here the log is       *)
(* complete, as under "always"), concurrent commands and steps of the wall *)
(* clock.  The content of an entry is a sequence: the elements of a list,  *)
(* or the writes, SET and its INCRs, that made a string.  Hashes and sets  *)
(* are logged and replayed as lists are.  An entry counts as absent from   *)
(* the moment it expires (module Store).                                   *)
(***************************************************************************)
EXTENDS Naturals, FiniteSets, SequencesExt

CONSTANTS Key,
          Elem,         \* what SET, INCR and RPUSH put into an entry
          None,         \* no entry
          MaxTime,      \* bound on the clock
          MaxTtl,       \* bound on the times to live that clients ask for
          MaxLog,       \* bound on the records of the log
          MaxSaves,     \* bound on the snapshots
          MaxRewrites,  \* bound on BGREWRITEAOF
          MaxStarts     \* bound on the starts

Content == Seq(Elem) \ {<<>>}
Entry == [kind : {"string", "list"}, content : Content, exp : Nat]

Record ==
  [op : {"SET"}, key : Key, content : Content, ttl : Nat, keep : BOOLEAN, cond : {"none", "NX", "XX"}]
    \cup [op : {"INCR"}, key : Key, content : Content]
    \cup [op : {"RPUSH"}, key : Key, content : Content]
    \cup [op : {"LPOP"}, key : Key, count : Nat]
    \cup [op : {"DEL", "PERSIST"}, key : Key]
    \cup [op : {"PEXPIREAT"}, key : Key, at : Nat]
    \cup [op : {"FLUSHDB"}]

ASSUME NoneAssumption == None \notin Entry
ASSUME KeyAssumption == IsFiniteSet(Key)
ASSUME BoundsAssumption ==
  /\ MaxTime \in Nat /\ MaxTtl \in Nat /\ MaxLog \in Nat
  /\ MaxSaves \in Nat /\ MaxRewrites \in Nat /\ MaxStarts \in Nat

VARIABLES kv,       \* shards_: the entry of each key
          log,      \* the file at aof_path_
          snap,     \* the file at snapshot_path_
          now,      \* the clock, from 1; an expiry of 0 is none
          mode,     \* "up", "loading", "down"
          pos,      \* how much of the log is replayed
          before,   \* history: from a stop to the end of the next start, the
                    \* keyspace at that stop
          silent,   \* history: for each key, the first record that can make up
                    \* for a change which has none: a pop by BRPOP, an eviction,
                    \* an entry that came from the snapshot
          saves, rewrites, starts

vars == <<kv, log, snap, now, mode, pos, before, silent, saves, rewrites, starts>>

Empty == [k \in Key |-> None]

Init ==
  /\ kv = Empty /\ log = <<>> /\ snap = Empty
  /\ now = 1 /\ mode = "up" /\ pos = 0
  /\ before = Empty /\ silent = [k \in Key |-> 0]
  /\ saves = 0 /\ rewrites = 0 /\ starts = 0
-----------------------------------------------------------------------------
(* What the operations of the store do to an entry.  Each of them erases   *)
(* an expired entry first.                                                 *)

Seen(e, t) == IF e # None /\ e.exp # 0 /\ e.exp <= t THEN None ELSE e

Applies(r, e) ==
  (r.cond = "NX" => e = None) /\ (r.cond = "XX" => e # None)

WithContent(e, c) == [kind |-> e.kind, content |-> c, exp |-> e.exp]
WithExp(e, at) == [kind |-> e.kind, content |-> e.content, exp |-> at]

SetOptions(r, e, t) ==
  IF ~Applies(r, e) THEN e
  ELSE [kind |-> "string", content |-> r.content,
        exp |-> IF r.ttl # 0 THEN t + r.ttl
                ELSE IF r.keep /\ e # None THEN e.exp ELSE 0]

\* INCR and RPUSH keep the time to live of what they find.
Extend(e, kind, content) ==
  IF e = None THEN [kind |-> kind, content |-> content, exp |-> 0]
  ELSE IF e.kind # kind THEN e
  ELSE WithContent(e, e.content \o content)

\* Mutant: the list stays when its last element is gone.
PopLeavesEmpty(e, n) ==
  IF e = None \/ e.kind # "list" THEN e
  ELSE WithContent(e, SubSeq(e.content, n + 1, Len(e.content)))

Pop(e, n) ==
  IF e = None \/ e.kind # "list" THEN e
  ELSE IF n >= Len(e.content) THEN None
  ELSE WithContent(e, SubSeq(e.content, n + 1, Len(e.content)))

ExpireAt(e, at, t) ==
  IF e = None \/ at <= t THEN None ELSE WithExp(e, at)

Persisted(e) == IF e = None THEN None ELSE WithExp(e, 0)

Touches(r, k) == r.op = "FLUSHDB" \/ r.key = k

\* What r makes of the entry e of a key that it touches, at time t.
Effect(r, e, t) ==
  CASE r.op = "SET"       -> SetOptions(r, Seen(e, t), t)
    [] r.op = "INCR"      -> Extend(Seen(e, t), "string", r.content)
    [] r.op = "RPUSH"     -> Extend(Seen(e, t), "list", r.content)
    [] r.op = "LPOP"      -> Pop(Seen(e, t), r.count)
    [] r.op = "PERSIST"   -> Persisted(Seen(e, t))
    [] r.op = "PEXPIREAT" -> ExpireAt(Seen(e, t), r.at, t)
    [] OTHER              -> None

Run(r, db, t) == [k \in Key |-> IF Touches(r, k) THEN Effect(r, db[k], t) ELSE db[k]]
-----------------------------------------------------------------------------
(* The running server.                                                     *)

Commands ==
  LET one == {<<e>> : e \in Elem}
  IN  [op : {"SET"}, key : Key, content : one, ttl : 0 .. MaxTtl, keep : BOOLEAN, cond : {"none", "NX", "XX"}]
        \cup [op : {"INCR", "RPUSH"}, key : Key, content : one]
        \cup [op : {"LPOP"}, key : Key, count : {0, 1}]
        \cup [op : {"DEL", "PERSIST"}, key : Key]
        \cup [op : {"FLUSHDB"}]

\* dispatch logs what did not end in an error; SET, DEL and PERSIST only when
\* they have changed something.  A pop of nothing is logged too.
Logged(r) ==
  CASE r.op = "FLUSHDB" -> TRUE
    [] r.op = "SET"     -> Applies(r, Seen(kv[r.key], now))
    [] r.op = "DEL"     -> Seen(kv[r.key], now) # None
    [] r.op = "PERSIST" -> Seen(kv[r.key], now) # None /\ kv[r.key].exp # 0
    [] OTHER            ->
         Seen(kv[r.key], now) # None
           => kv[r.key].kind = (IF r.op = "INCR" THEN "string" ELSE "list")

Execute(r) ==
  /\ mode = "up" /\ Len(log) < MaxLog
  /\ r.op = "SET" => ~(r.keep /\ r.ttl # 0)
  /\ kv' = Run(r, kv, now)
  /\ log' = IF Logged(r) THEN Append(log, r) ELSE log
  /\ UNCHANGED <<snap, now, mode, pos, before, silent, saves, rewrites, starts>>

\* Mutant: the log gets the relative time.
ExpireRelative(k, ttl) ==
  /\ mode = "up" /\ Len(log) < MaxLog
  /\ Seen(kv[k], now) # None
  /\ kv' = [kv EXCEPT ![k] = ExpireAt(@, now + ttl, now)]
  /\ log' = Append(log, [op |-> "PEXPIREAT", key |-> k, at |-> ttl])
  /\ UNCHANGED <<snap, now, mode, pos, before, silent, saves, rewrites, starts>>

\* EXPIRE and PEXPIRE are logged with the time at which the key expires, and
\* with 0 when they have erased it.
Expire(k, ttl) ==
  /\ mode = "up" /\ Len(log) < MaxLog
  /\ Seen(kv[k], now) # None
  /\ LET at == IF ttl = 0 THEN 0 ELSE now + ttl
     IN /\ kv' = [kv EXCEPT ![k] = ExpireAt(@, at, now)]
        /\ log' = Append(log, [op |-> "PEXPIREAT", key |-> k, at |-> at])
  /\ UNCHANGED <<snap, now, mode, pos, before, silent, saves, rewrites, starts>>

\* BRPOP takes the last element, and an eviction the whole entry, without a
\* record.
BrPop(k) ==
  /\ mode = "up"
  /\ LET e == Seen(kv[k], now)
     IN /\ e # None /\ e.kind = "list"
        /\ kv' = [kv EXCEPT ![k] =
                    IF Len(e.content) = 1 THEN None
                    ELSE WithContent(e, SubSeq(e.content, 1, Len(e.content) - 1))]
  /\ silent' = [silent EXCEPT ![k] = Len(log) + 1]
  /\ UNCHANGED <<log, snap, now, mode, pos, before, saves, rewrites, starts>>

Evict(k) ==
  /\ mode = "up" /\ kv[k] # None
  /\ kv' = [kv EXCEPT ![k] = None]
  /\ silent' = [silent EXCEPT ![k] = Len(log) + 1]
  /\ UNCHANGED <<log, snap, now, mode, pos, before, saves, rewrites, starts>>

Alive == [k \in Key |-> Seen(kv[k], now)]

Save ==
  /\ mode = "up" /\ saves < MaxSaves
  /\ snap' = Alive
  /\ saves' = saves + 1
  /\ UNCHANGED <<kv, log, now, mode, pos, before, silent, rewrites, starts>>

\* perform_rewrite: a string becomes a SET, a list an RPUSH of its elements,
\* and a time to live a PEXPIREAT.
Dumped(k) ==
  LET e == Alive[k]
  IN  IF e = None THEN <<>>
      ELSE << IF e.kind = "string"
              THEN [op |-> "SET", key |-> k, content |-> e.content,
                    ttl |-> 0, keep |-> FALSE, cond |-> "none"]
              ELSE [op |-> "RPUSH", key |-> k, content |-> e.content] >>
           \o IF e.exp = 0 THEN <<>>
              ELSE << [op |-> "PEXPIREAT", key |-> k, at |-> e.exp] >>

\* The dump of one key after the other.
DumpOf(order) == FlattenSeq([i \in DOMAIN order |-> Dumped(order[i])])

Rewrite ==
  /\ mode = "up" /\ rewrites < MaxRewrites
  /\ \E order \in SetToSeqs(Key) : log' = DumpOf(order)
  /\ silent' = [k \in Key |-> 0]
  /\ rewrites' = rewrites + 1
  /\ UNCHANGED <<kv, snap, now, mode, pos, before, saves, starts>>
-----------------------------------------------------------------------------
(* Stop, start and replay.                                                 *)

Stop ==
  /\ mode \in {"up", "loading"}
  /\ mode' = "down"
  /\ before' = IF mode = "up" THEN kv ELSE before
  /\ kv' = Empty /\ pos' = 0
  /\ UNCHANGED <<log, snap, now, silent, saves, rewrites, starts>>

\* SnapshotManager::load restores what has not expired by now.
Start ==
  /\ mode = "down" /\ starts < MaxStarts
  /\ mode' = "loading" /\ pos' = 0
  /\ kv' = [k \in Key |-> Seen(snap[k], now)]
  /\ silent' = [k \in Key |-> IF silent[k] = 0 /\ Seen(snap[k], now) # None THEN 1 ELSE silent[k]]
  /\ starts' = starts + 1
  /\ UNCHANGED <<log, snap, now, before, saves, rewrites>>

\* replay_command takes a count of 0 for 1.
Replayed(r) == IF r.op = "LPOP" /\ r.count = 0 THEN [r EXCEPT !.count = 1] ELSE r

Replay ==
  /\ mode = "loading" /\ pos < Len(log)
  /\ kv' = Run(Replayed(log[pos + 1]), kv, now)
  /\ pos' = pos + 1
  /\ UNCHANGED <<log, snap, now, mode, before, silent, saves, rewrites, starts>>

Ready ==
  /\ mode = "loading" /\ pos = Len(log)
  /\ mode' = "up" /\ pos' = 0
  /\ before' = Empty
  /\ UNCHANGED <<kv, log, snap, now, silent, saves, rewrites, starts>>

Tick ==
  /\ now < MaxTime
  /\ now' = now + 1
  /\ UNCHANGED <<kv, log, snap, mode, pos, before, silent, saves, rewrites, starts>>

Next ==
  \/ \E r \in Commands : Execute(r)
  \/ \E k \in Key : BrPop(k) \/ Evict(k) \/ \E ttl \in 0 .. MaxTtl : Expire(k, ttl)
  \/ Save \/ Rewrite
  \/ Stop \/ Start \/ Replay \/ Ready
  \/ Tick

Spec == Init /\ [][Next]_vars
-----------------------------------------------------------------------------
(* Properties.                                                             *)

\* Lists are never empty: a pop that takes the last element takes the key.
TypeOK ==
  /\ kv \in [Key -> Entry \cup {None}]
  /\ log \in Seq(Record)
  /\ snap \in [Key -> Entry \cup {None}]
  /\ now \in Nat \ {0}
  /\ mode \in {"up", "loading", "down"}
  /\ pos \in 0 .. Len(log)
  /\ before \in [Key -> Entry \cup {None}]
  /\ silent \in [Key -> Nat]
  /\ saves \in Nat /\ rewrites \in Nat /\ starts \in Nat

\* The beginning of the log, or a record that leaves the same entry at k
\* whatever is there, and at whatever time.
Settles(i, k) ==
  i = 0 \/ /\ Touches(log[i], k)
           /\ \/ log[i].op \in {"DEL", "FLUSHDB"}
              \/ log[i].op = "SET" /\ log[i].cond = "none" /\ log[i].ttl = 0 /\ ~log[i].keep

\* The record i changes the content of k only, in the same way whenever it is
\* replayed, or is the last record of k and sets its time to live.
Faithful(i, k) ==
  \/ ~Touches(log[i], k)
  \/ log[i].op \in {"DEL", "FLUSHDB", "INCR", "RPUSH", "PERSIST"}
  \/ log[i].op = "SET" /\ log[i].ttl = 0
  \/ log[i].op = "LPOP" /\ log[i].count # 0
  \/ log[i].op = "PEXPIREAT" /\ \A j \in i + 1 .. Len(log) : ~Touches(log[j], k)

\* The records from b on tell all there is to tell about k.
ToldFrom(b, k) ==
  /\ silent[k] <= b
  /\ Settles(b, k)
  /\ \A i \in b + 1 .. Len(log) : Faithful(i, k)

Told(k) == \E b \in 0 .. Len(log) : ToldFrom(b, k)

Restored(k) == Seen(kv[k], now) = Seen(before[k], now)

\* After a restart a key is what it was, or has expired since, if its history
\* is free of what the log cannot tell: a time to live given with SET or
\* SETEX, a write behind an EXPIRE, a BRPOP or an eviction, LPOP with a count
\* of 0, a snapshot of the key that the log does not set anew.
RestartRestores ==
  mode = "loading" /\ pos = Len(log) => \A k \in Key : Told(k) => Restored(k)

\* tests/test_persistence.py:131: the log is "replayed and recovered exact state
\* (strings and lists) across server restart".  Whatever was done to it, each
\* key is what it was, or has expired since.
RestartExact ==
  mode = "loading" /\ pos = Len(log) => \A k \in Key : Restored(k)

\* docs/en.md:129: PERSIST "removes expiration timer".  A key that was there
\* when the server stopped, with PERSIST as the last command in the log, is
\* there after the restart.
PersistStays ==
  mode = "loading" /\ pos = Len(log) /\ pos # 0 /\ log[pos].op = "PERSIST"
    => LET k == log[pos].key IN before[k] # None => Seen(kv[k], now) # None
=============================================================================
