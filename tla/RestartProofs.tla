--------------------------- MODULE RestartProofs ---------------------------
(***************************************************************************)
(* Proofs about Restart.  The argument: where the log tells all about a    *)
(* key from the record b on, every record between b and a last PEXPIREAT   *)
(* is one whose effect does not depend on the time.  So there is a         *)
(* sequence h of contents, h[i] for the log up to record i, that the       *)
(* running server has gone through and that every replay goes through.     *)
(* The second part is about the snapshot that the restart loads (Snapshot). *)
(***************************************************************************)
EXTENDS Restart, Snapshot, DataLemmas

OptEntry == Entry \cup {None}

\* The entries that have no time to live.
Timeless == {e \in OptEntry : e # None => e.exp = 0}

\* The records whose effect on an entry without a time to live does not
\* depend on the time.
Plain(r) ==
  \/ r.op \in {"DEL", "FLUSHDB", "INCR", "RPUSH", "PERSIST"}
  \/ r.op = "SET" /\ r.ttl = 0
  \/ r.op = "LPOP" /\ r.count # 0

-----------------------------------------------------------------------------
(* The effects of the records.                                             *)

LEMMA EntryFields ==
  ASSUME NEW e \in Entry
  PROVE  /\ e # None /\ e.kind \in {"string", "list"} /\ e.content \in Content /\ e.exp \in Nat
         /\ \A a \in Nat : WithExp(e, a) \in Entry /\ WithExp(e, a).exp = a
         /\ \A c \in Content : WithContent(e, c) \in Entry /\ WithContent(e, c).exp = e.exp
BY NoneAssumption DEF Entry, WithExp, WithContent

LEMMA NewEntry ==
  ASSUME NEW kind \in {"string", "list"}, NEW c \in Content, NEW a \in Nat
  PROVE  /\ [kind |-> kind, content |-> c, exp |-> a] \in Entry
         /\ [kind |-> kind, content |-> c, exp |-> a].exp = a
BY DEF Entry

LEMMA Unchanged ==
  ASSUME NEW e \in Entry
  PROVE  WithExp(e, e.exp) = e
BY DEF Entry, WithExp

LEMMA Joined ==
  ASSUME NEW c \in Content, NEW d \in Content
  PROVE  c \o d \in Content
<1>1. c \in Seq(Elem) /\ d \in Seq(Elem) /\ Len(c) # 0
  BY DEF Content
<1>2. c \o d \in Seq(Elem) /\ Len(c \o d) = Len(c) + Len(d)
  BY <1>1
<1> QED BY <1>1, <1>2 DEF Content

LEMMA Shortened ==
  ASSUME NEW c \in Content, NEW n \in Nat, n < Len(c)
  PROVE  SubSeq(c, n + 1, Len(c)) \in Content
<1>1. c \in Seq(Elem) /\ Len(c) \in Nat
  BY DEF Content
<1>2. SubSeq(c, n + 1, Len(c)) \in Seq(Elem) /\ Len(SubSeq(c, n + 1, Len(c))) = Len(c) - n
  BY <1>1
<1>a. PICK d \in Seq(Elem) : d = SubSeq(c, n + 1, Len(c)) /\ Len(d) = Len(c) - n
  BY <1>2
<1>3. Len(d) # 0
  BY <1>1, <1>a
<1>4. d # <<>>
  BY <1>3
<1> QED BY <1>a, <1>4 DEF Content

LEMMA ShortenedByOne ==
  ASSUME NEW c \in Content, Len(c) # 1
  PROVE  SubSeq(c, 1, Len(c) - 1) \in Content
<1>1. c \in Seq(Elem) /\ Len(c) \in Nat /\ Len(c) # 0
  BY DEF Content
<1>a. \A m \in Nat : m # 0 /\ m # 1 => m > 1
  OBVIOUS
<1>2. Len(c) > 1
  BY <1>1, <1>a
<1>3. SubSeq(c, 1, Len(c) - 1) \in Seq(Elem) /\ Len(SubSeq(c, 1, Len(c) - 1)) = Len(c) - 1
  BY <1>1, <1>2
<1>4. PICK d \in Seq(Elem) : d = SubSeq(c, 1, Len(c) - 1) /\ Len(d) = Len(c) - 1
  BY <1>3
<1>5. Len(d) # 0
  BY <1>1, <1>2, <1>4
<1>6. d # <<>>
  BY <1>5
<1> QED BY <1>4, <1>6 DEF Content

\* What an operation finds is well typed, and an entry without a time to live
\* never expires.
LEMMA SeenType ==
  ASSUME NEW e \in OptEntry, NEW t \in Nat
  PROVE  /\ Seen(e, t) \in OptEntry
         /\ e \in Timeless => Seen(e, t) = e
         /\ Seen(e, t) \in {e, None}
BY DEF Seen, OptEntry, Timeless

\* Looking again, later, makes no difference to looking later.
LEMMA SeenTwice ==
  ASSUME NEW e \in OptEntry, NEW t \in Nat, NEW u \in Nat, t <= u
  PROVE  Seen(Seen(e, t), u) = Seen(e, u)
<1>1. CASE e = None
  BY <1>1 DEF Seen
<1>2. CASE e # None
  <2>1. e.exp \in Nat
    BY <1>2, EntryFields DEF OptEntry
  <2> QED BY <1>2, <2>1 DEF Seen
<1> QED BY <1>1, <1>2

\* An operation works on what it finds.
LEMMA EffectOfSeen ==
  ASSUME NEW r, NEW e \in OptEntry, NEW t \in Nat
  PROVE  Effect(r, Seen(e, t), t) = Effect(r, e, t)
<1>1. Seen(Seen(e, t), t) = Seen(e, t)
  BY SeenTwice
<1> QED BY <1>1 DEF Effect

LEMMA RecordFields ==
  ASSUME NEW r \in Record
  PROVE  /\ r.op \in {"SET", "INCR", "RPUSH", "LPOP", "DEL", "PERSIST", "PEXPIREAT", "FLUSHDB"}
         /\ r.op # "FLUSHDB" => r.key \in Key
         /\ r.op = "SET" => r.content \in Content /\ r.ttl \in Nat
         /\ r.op \in {"INCR", "RPUSH"} => r.content \in Content
         /\ r.op = "LPOP" => r.count \in Nat
         /\ r.op = "PEXPIREAT" => r.at \in Nat
BY DEF Record

LEMMA EffectType ==
  ASSUME NEW r \in Record, NEW e \in OptEntry, NEW t \in Nat
  PROVE  /\ Effect(r, e, t) \in OptEntry
         /\ Plain(r) /\ e \in Timeless => Effect(r, e, t) \in Timeless
<1> DEFINE c == Seen(e, t)
<1>1. c \in OptEntry /\ (e \in Timeless => c = e)
  BY SeenType
<1>2. CASE r.op = "SET"
  <2>1. r.content \in Content /\ r.ttl \in Nat
    BY <1>2, RecordFields
  <2>2. c # None => c.exp \in Nat
    BY <1>1, EntryFields DEF OptEntry
  <2>3. DEFINE a == IF r.ttl # 0 THEN t + r.ttl ELSE IF r.keep /\ c # None THEN c.exp ELSE 0
  <2>4. a \in Nat
    BY <2>1, <2>2
  <2>5. [kind |-> "string", content |-> r.content, exp |-> a] \in Entry
        /\ [kind |-> "string", content |-> r.content, exp |-> a].exp = a
    BY <2>1, <2>4, NewEntry
  <2>6. Plain(r) /\ e \in Timeless => a = 0
    BY <1>1, <1>2 DEF Plain, Timeless
  <2> QED
    BY <1>1, <1>2, <2>5, <2>6 DEF Effect, SetOptions, OptEntry, Timeless
<1>3. CASE r.op \in {"INCR", "RPUSH"}
  <2> DEFINE kind == IF r.op = "INCR" THEN "string" ELSE "list"
  <2>1. Effect(r, e, t) = Extend(c, kind, r.content) /\ r.content \in Content
    BY <1>3, RecordFields DEF Effect
  <2>2. CASE c = None
    BY <2>1, <2>2, NewEntry DEF Extend, OptEntry, Timeless
  <2>3. CASE c # None
    <3>1. c \in Entry
      BY <1>1, <2>3 DEF OptEntry
    <3>2. c.content \o r.content \in Content
      BY <2>1, <3>1, EntryFields, Joined
    <3>3. WithContent(c, c.content \o r.content) \in Entry
          /\ WithContent(c, c.content \o r.content).exp = c.exp
      BY <3>1, <3>2, EntryFields
    <3> QED BY <1>1, <2>1, <2>3, <3>1, <3>3 DEF Extend, OptEntry, Timeless
  <2> QED BY <2>2, <2>3
<1>4. CASE r.op = "LPOP"
  <2>1. Effect(r, e, t) = Pop(c, r.count) /\ r.count \in Nat
    BY <1>4, RecordFields DEF Effect
  <2>2. CASE c = None \/ c.kind # "list"
    BY <1>1, <2>1, <2>2 DEF Pop
  <2>3. CASE c # None /\ c.kind = "list" /\ r.count >= Len(c.content)
    BY <2>1, <2>3 DEF Pop, OptEntry, Timeless
  <2>4. CASE c # None /\ c.kind = "list" /\ ~(r.count >= Len(c.content))
    <3>1. c \in Entry /\ c.content \in Content
      BY <1>1, <2>4, EntryFields DEF OptEntry
    <3>2. Len(c.content) \in Nat
      BY <3>1 DEF Content
    <3>3. SubSeq(c.content, r.count + 1, Len(c.content)) \in Content
      BY <2>1, <2>4, <3>1, <3>2, Shortened
    <3>4. WithContent(c, SubSeq(c.content, r.count + 1, Len(c.content))) \in Entry
          /\ WithContent(c, SubSeq(c.content, r.count + 1, Len(c.content))).exp = c.exp
      BY <3>1, <3>3, EntryFields
    <3> QED BY <1>1, <2>1, <2>4, <3>4 DEF Pop, OptEntry, Timeless
  <2> QED BY <2>2, <2>3, <2>4
<1>5. CASE r.op = "PERSIST"
  <2>1. Effect(r, e, t) = Persisted(c)
    BY <1>5 DEF Effect
  <2> QED BY <1>1, <2>1, EntryFields DEF Persisted, OptEntry, Timeless
<1>6. CASE r.op = "PEXPIREAT"
  <2>1. Effect(r, e, t) = ExpireAt(c, r.at, t) /\ r.at \in Nat
    BY <1>6, RecordFields DEF Effect
  <2> QED BY <1>1, <1>6, <2>1, EntryFields DEF ExpireAt, OptEntry, Plain
<1>7. CASE r.op \in {"DEL", "FLUSHDB"}
  BY <1>7 DEF Effect, OptEntry, Timeless
<1> QED BY <1>2, <1>3, <1>4, <1>5, <1>6, <1>7, RecordFields

\* Whenever it is replayed, a plain record does the same to an entry without
\* a time to live.
LEMMA PlainIsTimeless ==
  ASSUME NEW r \in Record, Plain(r), NEW e \in Timeless, NEW t \in Nat
  PROVE  Effect(r, e, t) = Effect(r, e, 0) /\ Replayed(r) = r
<1>1. Seen(e, t) = e /\ Seen(e, 0) = e
  BY SeenType DEF Timeless
<1>2. Replayed(r) = r
  BY DEF Replayed, Plain
<1>3. CASE r.op = "SET"
  BY <1>1, <1>2, <1>3 DEF Effect, SetOptions, Plain
<1>4. CASE r.op # "SET"
  <2>1. r.op # "PEXPIREAT"
    BY DEF Plain
  <2> QED BY <1>1, <1>2, <1>4, <2>1 DEF Effect
<1> QED BY <1>3, <1>4

\* A record that settles a key leaves the same whatever it finds.
Final(r) ==
  \/ r.op \in {"DEL", "FLUSHDB"}
  \/ r.op = "SET" /\ r.cond = "none" /\ r.ttl = 0 /\ ~r.keep

LEMMA FinalIsFinal ==
  ASSUME NEW r \in Record, Final(r), NEW e \in OptEntry, NEW t \in Nat
  PROVE  /\ Effect(r, e, t) = Effect(r, None, 0)
         /\ Effect(r, None, 0) \in Timeless
         /\ Replayed(r) = r /\ r.op # "PEXPIREAT"
<1>1. Replayed(r) = r /\ r.op # "PEXPIREAT" /\ Plain(r)
  BY DEF Replayed, Plain, Final
<1>2. ASSUME r.op = "SET"
      PROVE  Effect(r, e, t) = Effect(r, None, 0)
  <2>1. r.cond = "none" /\ r.ttl = 0 /\ ~r.keep
    BY <1>2 DEF Final
  <2>2. \A c, a : SetOptions(r, c, a) = [kind |-> "string", content |-> r.content, exp |-> 0]
    BY <2>1 DEF SetOptions, Applies
  <2>3. \A c, a : Effect(r, c, a) = SetOptions(r, Seen(c, a), a)
    BY <1>2 DEF Effect
  <2> QED BY <2>2, <2>3
<1>3. ASSUME r.op \in {"DEL", "FLUSHDB"}
      PROVE  Effect(r, e, t) = Effect(r, None, 0)
  <2>1. \A c, a : Effect(r, c, a) = None
    BY <1>3 DEF Effect
  <2> QED BY <2>1
<1>4. None \in Timeless /\ None \in OptEntry
  BY DEF Timeless, OptEntry
<1>5. Effect(r, None, 0) \in Timeless
  BY <1>1, <1>4, EffectType
<1> QED BY <1>1, <1>2, <1>3, <1>5 DEF Final

\* A command that leaves no record leaves the entry as it is, unless it has
\* expired.
LEMMA UnloggedChangesNothing ==
  ASSUME NEW r \in Record, r.op # "PEXPIREAT", ~Logged(r),
         kv \in [Key -> OptEntry], now \in Nat
  PROVE  r.op # "FLUSHDB" /\ Effect(r, kv[r.key], now) = Seen(kv[r.key], now)
<1> DEFINE c == Seen(kv[r.key], now)
<1>0. r.op \in {"SET", "INCR", "RPUSH", "LPOP", "DEL", "PERSIST", "PEXPIREAT", "FLUSHDB"}
  BY RecordFields
<1>1. r.op # "FLUSHDB"
  BY DEF Logged
<1>2. CASE r.op = "SET"
  BY <1>2 DEF Logged, Effect, SetOptions
<1>3. CASE r.op = "DEL"
  BY <1>3 DEF Logged, Effect
<1>4. CASE r.op = "PERSIST"
  <2>1. c = None \/ kv[r.key].exp = 0
    BY <1>4 DEF Logged
  <2>2. Effect(r, kv[r.key], now) = Persisted(c)
    BY <1>4 DEF Effect
  <2>3. c \in OptEntry /\ (c # None => c = kv[r.key])
    BY <1>1, RecordFields, SeenType DEF Seen
  <2>4. CASE c # None
    <3>1. c \in Entry /\ c.exp = 0
      BY <2>1, <2>3, <2>4 DEF OptEntry
    <3>2. WithExp(c, 0) = c
      BY <3>1, Unchanged
    <3> QED BY <1>1, <2>2, <2>4, <3>2 DEF Persisted
  <2> QED BY <1>1, <2>2, <2>4 DEF Persisted
<1>5. CASE r.op \in {"INCR", "RPUSH", "LPOP"}
  <2>1. c # None /\ c = kv[r.key]
    BY <1>5 DEF Logged, Seen
  <2>2. c.kind # (IF r.op = "INCR" THEN "string" ELSE "list")
    BY <1>5, <2>1 DEF Logged
  <2>3. CASE r.op = "INCR"
    BY <2>1, <2>2, <2>3 DEF Effect, Extend
  <2>4. CASE r.op = "RPUSH"
    BY <2>1, <2>2, <2>4 DEF Effect, Extend
  <2>5. CASE r.op = "LPOP"
    BY <2>1, <2>2, <2>5 DEF Effect, Pop
  <2> QED BY <1>5, <2>3, <2>4, <2>5
<1> QED BY <1>0, <1>1, <1>2, <1>3, <1>4, <1>5

-----------------------------------------------------------------------------
(* The invariant.  l is a log, k a key, t the time; the records of l from b  *)
(* on are those that tell about k.                                          *)

Loyal(l, i, k) ==
  \/ ~Touches(l[i], k)
  \/ l[i].op \in {"DEL", "FLUSHDB", "INCR", "RPUSH", "PERSIST"}
  \/ l[i].op = "SET" /\ l[i].ttl = 0
  \/ l[i].op = "LPOP" /\ l[i].count # 0
  \/ l[i].op = "PEXPIREAT" /\ \A j \in i + 1 .. Len(l) : ~Touches(l[j], k)

Timed(l, k, i) == l[i].op = "PEXPIREAT" /\ l[i].key = k

\* What r makes of the content e of k, times to live aside.
Bare(r, e, k) ==
  IF Touches(r, k) /\ r.op # "PEXPIREAT" THEN Effect(r, e, 0) ELSE e

\* h[i] is the content of k when the records up to i have been executed.
Trace(l, k, b, h) ==
  /\ h[b] = IF b = 0 THEN None ELSE Effect(l[b], None, 0)
  /\ \A i \in b + 1 .. Len(l) : h[i] = Bare(l[i], h[i - 1], k)

\* e has the content c and expires at a, or has expired.
Late(e, c, a, t) ==
  \/ c = None /\ e = None
  \/ c # None /\ e = WithExp(c, a) /\ a # 0
  \/ a <= t /\ e = None

\* e is the entry of k when the records up to n have been executed.
At(l, e, h, k, b, n, t) ==
  /\ (\A i \in b + 1 .. n : ~Timed(l, k, i)) => e = h[n]
  /\ \A i \in b + 1 .. n : Timed(l, k, i) => Late(e, h[n], l[i].at, t)

Follows(k, b, h) ==
  /\ Trace(log, k, b, h)
  /\ mode = "up" => At(log, Seen(kv[k], now), h, k, b, Len(log), now)
  /\ mode # "up" => At(log, Seen(before[k], now), h, k, b, Len(log), now)
  /\ mode = "loading" /\ pos >= b => At(log, Seen(kv[k], now), h, k, b, pos, now)

Contents == [0 .. Len(log) -> Timeless]

IInv ==
  \A k \in Key : \A b \in 0 .. Len(log) :
    ToldFrom(b, k) => \E h \in Contents : Follows(k, b, h)

-----------------------------------------------------------------------------
(* One record, executed or replayed.                                        *)

LEMMA OneRecord ==
  ASSUME NEW l \in Seq(Record), NEW k \in Key, NEW b \in Nat, NEW n \in Nat,
         b <= n, n + 1 <= Len(l), NEW t \in Nat, NEW e \in OptEntry, NEW h,
         h[n] \in Timeless, h[n + 1] = Bare(l[n + 1], h[n], k),
         \A i \in b + 1 .. n + 1 : Loyal(l, i, k),
         At(l, e, h, k, b, n, t)
  PROVE  /\ At(l, IF Touches(l[n + 1], k) THEN Effect(l[n + 1], e, t) ELSE e, h, k, b, n + 1, t)
         /\ Touches(l[n + 1], k) => Replayed(l[n + 1]) = l[n + 1]
<1> DEFINE r == l[n + 1]
<1>1. r \in Record /\ n + 1 \in b + 1 .. n + 1 /\ Loyal(l, n + 1, k)
  OBVIOUS
<1>2. b + 1 .. n + 1 = (b + 1 .. n) \cup {n + 1}
  OBVIOUS
<1>3. CASE ~Touches(r, k)
  <2>1. ~Timed(l, k, n + 1)
    BY <1>3 DEF Timed, Touches
  <2>2. h[n + 1] = h[n]
    BY <1>3 DEF Bare
  <2> QED BY <1>2, <1>3, <2>1, <2>2 DEF At
<1>4. ASSUME Touches(r, k)
      PROVE  e = h[n] /\ \A i \in b + 1 .. n : ~Timed(l, k, i)
  <2>1. ASSUME NEW i \in b + 1 .. n PROVE ~Timed(l, k, i)
    <3>1. i \in b + 1 .. n + 1 /\ n + 1 \in i + 1 .. Len(l)
      OBVIOUS
    <3>2. Loyal(l, i, k)
      BY <3>1
    <3> QED BY <1>4, <3>1, <3>2 DEF Loyal, Timed, Touches
  <2> QED BY <2>1 DEF At
<1>5. CASE Touches(r, k) /\ r.op # "PEXPIREAT"
  <2>1. Plain(r)
    BY <1>1, <1>5 DEF Loyal, Plain
  <2>2. Effect(r, e, t) = h[n + 1] /\ Replayed(r) = r
    BY <1>1, <1>4, <1>5, <2>1, PlainIsTimeless DEF Bare
  <2>3. ~Timed(l, k, n + 1)
    BY <1>5 DEF Timed
  <2> QED BY <1>2, <1>4, <1>5, <2>2, <2>3 DEF At
<1>6. CASE Touches(r, k) /\ r.op = "PEXPIREAT"
  <2>1. r.at \in Nat /\ Replayed(r) = r
    BY <1>1, <1>6, RecordFields DEF Replayed
  <2>2. h[n + 1] = h[n]
    BY <1>6 DEF Bare
  <2>3. Effect(r, e, t) = ExpireAt(h[n], r.at, t)
    BY <1>4, <1>6, SeenType DEF Effect
  <2>4. Late(Effect(r, e, t), h[n + 1], r.at, t)
    BY <2>1, <2>2, <2>3 DEF ExpireAt, Late
  <2>5. Timed(l, k, n + 1)
    BY <1>6 DEF Timed, Touches
  <2> QED BY <1>2, <1>4, <1>6, <2>1, <2>4, <2>5 DEF At
<1> QED BY <1>3, <1>5, <1>6

\* The record that settles k.
LEMMA FirstRecord ==
  ASSUME NEW l \in Seq(Record), NEW k \in Key, NEW b \in 1 .. Len(l), NEW t \in Nat,
         NEW e \in OptEntry, NEW h, h[b] = Effect(l[b], None, 0), Final(l[b])
  PROVE  /\ At(l, Effect(l[b], e, t), h, k, b, b, t)
         /\ Replayed(l[b]) = l[b]
         /\ h[b] \in Timeless
BY FinalIsFinal DEF At

\* What time does to an entry.
LEMMA Later ==
  ASSUME NEW l \in Seq(Record), NEW k, NEW b \in Nat, NEW n \in Nat, n <= Len(l),
         NEW t \in Nat, NEW u \in Nat, t <= u, NEW e, NEW h, At(l, e, h, k, b, n, t)
  PROVE  At(l, e, h, k, b, n, u)
<1>1. ASSUME NEW i \in b + 1 .. n, Timed(l, k, i)
      PROVE  Late(e, h[n], l[i].at, u)
  <2>1. l[i] \in Record
    OBVIOUS
  <2>2. l[i].at \in Nat
    BY <1>1, <2>1, RecordFields DEF Timed
  <2> QED BY <1>1, <2>2 DEF At, Late
<1> QED BY <1>1 DEF At

\* An entry is as good as what an operation finds in its place.
LEMMA SeenIsAt ==
  ASSUME NEW l \in Seq(Record), NEW k, NEW b \in Nat, NEW n \in Nat, n <= Len(l),
         NEW t \in Nat, NEW e, NEW h, h[n] \in Timeless, At(l, e, h, k, b, n, t)
  PROVE  At(l, Seen(e, t), h, k, b, n, t)
<1>1. ASSUME NEW i \in b + 1 .. n, Timed(l, k, i)
      PROVE  Late(Seen(e, t), h[n], l[i].at, t)
  <2>1. l[i] \in Record
    OBVIOUS
  <2>2. l[i].at \in Nat
    BY <1>1, <2>1, RecordFields DEF Timed
  <2>3. Late(e, h[n], l[i].at, t)
    BY <1>1 DEF At
  <2>4. h[n] # None => WithExp(h[n], l[i].at).exp = l[i].at
    BY <2>2, EntryFields DEF Timeless, OptEntry
  <2> QED BY <2>2, <2>3, <2>4 DEF Late, Seen
<1>2. Seen(h[n], t) = h[n]
  BY SeenType DEF Timeless
<1> QED BY <1>1, <1>2 DEF At

\* Two entries that are both what the log tells look the same.
LEMMA SameAtSame ==
  ASSUME NEW l \in Seq(Record), NEW k, NEW b \in Nat, NEW n \in Nat, n <= Len(l),
         NEW t \in Nat, NEW e, NEW f, NEW h, h[n] \in Timeless,
         At(l, e, h, k, b, n, t), At(l, f, h, k, b, n, t)
  PROVE  Seen(e, t) = Seen(f, t)
<1>1. CASE \A i \in b + 1 .. n : ~Timed(l, k, i)
  BY <1>1 DEF At
<1>2. ASSUME NEW i \in b + 1 .. n, Timed(l, k, i)
      PROVE  Seen(e, t) = Seen(f, t)
  <2>1. l[i] \in Record
    OBVIOUS
  <2>2. l[i].at \in Nat
    BY <1>2, <2>1, RecordFields DEF Timed
  <2>3. Late(e, h[n], l[i].at, t) /\ Late(f, h[n], l[i].at, t)
    BY <1>2 DEF At
  <2>4. h[n] # None => WithExp(h[n], l[i].at).exp = l[i].at
    BY <2>2, EntryFields DEF Timeless, OptEntry
  <2> QED BY <2>2, <2>3, <2>4 DEF Late, Seen
<1> QED BY <1>1, <1>2
\* The same for what an operation would find.
LEMMA OneRecordSeen ==
  ASSUME NEW l \in Seq(Record), NEW k \in Key, NEW b \in Nat, NEW n \in Nat,
         b <= n, n + 1 <= Len(l), NEW t \in Nat, NEW e \in OptEntry, NEW h,
         h[n] \in Timeless, h[n + 1] \in Timeless, h[n + 1] = Bare(l[n + 1], h[n], k),
         \A i \in b + 1 .. n + 1 : Loyal(l, i, k),
         At(l, Seen(e, t), h, k, b, n, t),
         NEW f, f = IF Touches(l[n + 1], k) THEN Effect(l[n + 1], e, t) ELSE e
  PROVE  /\ At(l, Seen(f, t), h, k, b, n + 1, t)
         /\ Touches(l[n + 1], k) => Replayed(l[n + 1]) = l[n + 1]
<1> DEFINE r == l[n + 1]
           c == Seen(e, t)
           g == IF Touches(r, k) THEN Effect(r, c, t) ELSE c
<1>1. c \in OptEntry
  BY SeenType
<1>2. At(l, g, h, k, b, n + 1, t) /\ (Touches(r, k) => Replayed(r) = r)
  BY <1>1, OneRecord
<1>3. At(l, Seen(g, t), h, k, b, n + 1, t)
  BY <1>2, SeenIsAt
<1>4. Seen(g, t) = Seen(f, t)
  BY SeenTwice, EffectOfSeen
<1> QED BY <1>2, <1>3, <1>4

-----------------------------------------------------------------------------
(* Types.                                                                   *)

Types ==
  /\ kv \in [Key -> OptEntry] /\ log \in Seq(Record) /\ snap \in [Key -> OptEntry]
  /\ now \in Nat \ {0} /\ mode \in {"up", "loading", "down"} /\ pos \in 0 .. Len(log)
  /\ mode # "loading" => pos = 0
  /\ before \in [Key -> OptEntry] /\ silent \in [Key -> Nat]
  /\ saves \in Nat /\ rewrites \in Nat /\ starts \in Nat

LEMMA CommandsAreRecords == Commands \subseteq Record
<1>1. \A e \in Elem : <<e>> \in Content
  <2> SUFFICES ASSUME NEW e \in Elem PROVE <<e>> \in Content
    OBVIOUS
  <2>1. <<e>> \in Seq(Elem) /\ Len(<<e>>) = 1
    OBVIOUS
  <2>2. <<e>> # <<>>
    BY <2>1
  <2> QED BY <2>1, <2>2 DEF Content
<1> QED BY <1>1, BoundsAssumption DEF Commands, Record

LEMMA RunType ==
  ASSUME NEW r \in Record, NEW db \in [Key -> OptEntry], NEW t \in Nat
  PROVE  Run(r, db, t) \in [Key -> OptEntry]
BY EffectType DEF Run

LEMMA ReplayedType ==
  ASSUME NEW r \in Record
  PROVE  Replayed(r) \in Record
<1>1. CASE r.op = "LPOP"
  BY <1>1 DEF Replayed, Record
<1>2. CASE r.op # "LPOP"
  BY <1>2 DEF Replayed
<1> QED BY <1>1, <1>2

LEMMA ReplayedTouches ==
  ASSUME NEW r \in Record, NEW k
  PROVE  Touches(Replayed(r), k) = Touches(r, k)
<1>1. CASE r.op = "LPOP"
  BY <1>1 DEF Replayed, Touches, Record
<1>2. CASE r.op # "LPOP"
  BY <1>2 DEF Replayed
<1> QED BY <1>1, <1>2

\* EXPIRE is the execution of the record that it leaves.
LEMMA ExpireIsARecord ==
  ASSUME Types, NEW k \in Key, NEW ttl \in 0 .. MaxTtl, Expire(k, ttl)
  PROVE  \E r \in Record : kv' = Run(r, kv, now) /\ log' = Append(log, r)
<1> DEFINE at == IF ttl = 0 THEN 0 ELSE now + ttl
           r == [op |-> "PEXPIREAT", key |-> k, at |-> at]
<1>1. at \in Nat
  BY BoundsAssumption DEF Types
<1>2. r \in Record
  BY <1>1 DEF Record
<1>3. kv' = [kv EXCEPT ![k] = ExpireAt(@, at, now)] /\ log' = Append(log, r)
  BY DEF Expire
<1>4. Seen(kv[k], now) = kv[k]
  BY DEF Expire, Seen
<1>5. Effect(r, kv[k], now) = ExpireAt(kv[k], at, now)
  BY <1>4 DEF Effect
<1>6. \A j \in Key : Touches(r, j) <=> j = k
  BY DEF Touches
<1>7. kv' = Run(r, kv, now)
  BY <1>3, <1>5, <1>6 DEF Run, Types
<1> QED BY <1>2, <1>3, <1>7

(* The dump of a rewrite.                                                   *)

\* What the dump holds for k: nothing; or at p one record that makes the
\* entry, and behind it the one for its time to live, if it has one.
MakerOf(k, e) ==
  IF e.kind = "string"
  THEN [op |-> "SET", key |-> k, content |-> e.content, ttl |-> 0, keep |-> FALSE, cond |-> "none"]
  ELSE [op |-> "RPUSH", key |-> k, content |-> e.content]

Holds(l, k, e, p) ==
  /\ p \in 1 .. Len(l) /\ l[p] = MakerOf(k, e)
  /\ e.exp # 0 => p + 1 \in 1 .. Len(l) /\ l[p + 1] = [op |-> "PEXPIREAT", key |-> k, at |-> e.exp]
  /\ \A i \in 1 .. Len(l) : Touches(l[i], k) => i = p \/ (e.exp # 0 /\ i = p + 1)

HoldsNone(l, k) == \A i \in 1 .. Len(l) : ~Touches(l[i], k)

LEMMA MakerType ==
  ASSUME NEW k \in Key, NEW e \in Entry
  PROVE  /\ MakerOf(k, e) \in Record /\ MakerOf(k, e).key = k /\ MakerOf(k, e).op \in {"SET", "RPUSH"}
         /\ [op |-> "PEXPIREAT", key |-> k, at |-> e.exp] \in Record
BY EntryFields DEF MakerOf, Record

\* Two sequences of one element, one after the other.
LEMMA TwoInOne ==
  ASSUME NEW S, NEW a \in S, NEW b \in S
  PROVE  <<a>> \o <<b>> = <<a, b>>
<1>1. <<a>> \in Seq(S) /\ Len(<<a>>) = 1 /\ <<a>>[1] = a
  OBVIOUS
<1>2. <<b>> \in Seq(S) /\ Len(<<b>>) = 1 /\ <<b>>[1] = b
  OBVIOUS
<1>3. <<a, b>> \in Seq(S) /\ Len(<<a, b>>) = 2 /\ <<a, b>>[1] = a /\ <<a, b>>[2] = b
  OBVIOUS
<1> DEFINE s == <<a>>
           t == <<b>>
           u == <<a, b>>
<1> HIDE DEF s, t, u
<1>4. s \in Seq(S) /\ Len(s) = 1 /\ s[1] = a /\ t \in Seq(S) /\ Len(t) = 1 /\ t[1] = b
  BY <1>1, <1>2 DEF s, t
<1>5. u \in Seq(S) /\ Len(u) = 2 /\ u[1] = a /\ u[2] = b
  BY <1>3 DEF u
<1>6. s \o t \in Seq(S) /\ Len(s \o t) = 2 /\ (s \o t)[1] = a /\ (s \o t)[2] = b
  BY <1>4, ConcatProperties
<1>7. \A i \in 1 .. 2 : (s \o t)[i] = u[i]
  <2>1. \A i \in 1 .. 2 : i = 1 \/ i = 2
    OBVIOUS
  <2> QED BY <1>5, <1>6, <2>1
<1>8. s \o t = u
  BY <1>5, <1>6, <1>7, SeqEqual
<1> QED BY <1>8 DEF s, t, u

LEMMA DumpedIs ==
  ASSUME Types, NEW k \in Key
  PROVE  /\ Dumped(k) \in Seq(Record)
         /\ Alive[k] \in OptEntry
         /\ \A j \in 1 .. Len(Dumped(k)) : Dumped(k)[j].op # "FLUSHDB" /\ Dumped(k)[j].key = k
         /\ Alive[k] = None => Len(Dumped(k)) = 0
         /\ Alive[k] # None =>
              /\ Len(Dumped(k)) = IF Alive[k].exp = 0 THEN 1 ELSE 2
              /\ Dumped(k)[1] = MakerOf(k, Alive[k])
              /\ Alive[k].exp # 0 =>
                   Dumped(k)[2] = [op |-> "PEXPIREAT", key |-> k, at |-> Alive[k].exp]
<1> DEFINE e == Alive[k]
           x == [op |-> "PEXPIREAT", key |-> k, at |-> e.exp]
<1>1. e \in OptEntry
  BY SeenType DEF Alive, Types
<1>2. CASE e = None
  BY <1>1, <1>2 DEF Dumped
<1>3. CASE e # None
  <2>1. e \in Entry
    BY <1>1, <1>3 DEF OptEntry
  <2> HIDE DEF e
  <2>2. MakerOf(k, e) \in Record /\ MakerOf(k, e).key = k /\ MakerOf(k, e).op # "FLUSHDB" /\ x \in Record
    BY <2>1, MakerType
  <2>3. x.key = k /\ x.op # "FLUSHDB"
    OBVIOUS
  <2>4. Dumped(k) = <<MakerOf(k, e)>> \o IF e.exp = 0 THEN <<>> ELSE <<x>>
    BY <1>3 DEF Dumped, MakerOf, e
  <2> HIDE DEF x
  <2>5. CASE e.exp = 0
    <3>1. Dumped(k) = <<MakerOf(k, e)>>
      BY <2>2, <2>4, <2>5
    <3> QED BY <1>1, <1>3, <2>2, <2>5, <3>1 DEF e
  <2>6. CASE e.exp # 0
    <3>1. \A m, y \in Record : <<m>> \o <<y>> = <<m, y>>
      BY TwoInOne
    <3>2. Dumped(k) = <<MakerOf(k, e)>> \o <<x>>
      BY <2>4, <2>6
    <3>3. Dumped(k) = <<MakerOf(k, e), x>>
      BY <2>2, <3>1, <3>2
    <3> QED BY <1>1, <1>3, <2>2, <2>3, <2>6, <3>3 DEF e, x
  <2> QED BY <2>5, <2>6
<1> QED BY <1>2, <1>3

LEMMA DumpShape ==
  ASSUME Types, NEW order \in SetToSeqs(Key)
  PROVE  /\ DumpOf(order) \in Seq(Record)
         /\ \A k \in Key :
              /\ Alive[k] = None => HoldsNone(DumpOf(order), k)
              /\ Alive[k] # None => \E p \in Nat : Holds(DumpOf(order), k, Alive[k], p)
<1> DEFINE q == [i \in DOMAIN order |-> Dumped(order[i])]
           n == Len(q)
           l == FlattenSeq(q)
<1>1. order \in Seq(Key) /\ Distinct(order) /\ Elements(order) = Key
  BY KeyAssumption, OrderingIs
<1>2. /\ Len(order) \in Nat /\ DOMAIN order = 1 .. Len(order) /\ \A i \in 1 .. Len(order) : order[i] \in Key
  BY <1>1, LenProperties
<1>3. \A i \in 1 .. Len(order) : Dumped(order[i]) \in Seq(Record)
  BY <1>2, DumpedIs
<1>4. q \in Seq(Seq(Record)) /\ n = Len(order) /\ \A i \in 1 .. n : q[i] = Dumped(order[i])
  <2> DEFINE T == Seq(Record)
  <2> HIDE DEF T
  <2>1. q \in Seq(T) /\ Len(q) = Len(order)
    BY <1>2, <1>3, SeqDef DEF T
  <2> QED BY <1>2, <2>1 DEF T
<1>5. l \in Seq(Record) /\ \E o \in [0 .. n -> Nat] : PartsAt(o, q, l)
  BY <1>4, FlattenPlaces
<1>6. PICK o \in [0 .. n -> Nat] : PartsAt(o, q, l)
  BY <1>5
<1> HIDE DEF q, l, n
<1>7. ASSUME NEW k \in Key, NEW m \in 1 .. n, order[m] = k, NEW i \in 1 .. Len(l), Touches(l[i], k)
      PROVE  \E j \in 1 .. Len(q[m]) : i = o[m - 1] + j
  <2>1. PICK a \in 1 .. n : \E j \in 1 .. Len(q[a]) : i = o[a - 1] + j
    BY <1>6 DEF PartsAt, n
  <2>2. PICK j \in 1 .. Len(q[a]) : i = o[a - 1] + j
    BY <2>1
  <2>3. l[i] = q[a][j]
    BY <1>6, <2>2 DEF PartsAt, n
  <2>4. l[i].op # "FLUSHDB" /\ l[i].key = order[a]
    <3>1. order[a] \in Key /\ q[a] = Dumped(order[a])
      BY <1>2, <1>4
    <3>2. \A c \in Key : \A z \in 1 .. Len(Dumped(c)) :
            Dumped(c)[z].op # "FLUSHDB" /\ Dumped(c)[z].key = c
      BY DumpedIs
    <3>3. q[a][j].op # "FLUSHDB" /\ q[a][j].key = order[a]
      BY <2>2, <3>1, <3>2
    <3> QED BY <2>3, <3>3
  <2>5. order[a] = order[m]
    BY <1>7, <2>4 DEF Touches
  <2>6. a = m
    BY <1>1, <1>4, <2>5 DEF Distinct
  <2> QED BY <2>2, <2>6
<1>8. ASSUME NEW k \in Key
      PROVE  /\ Alive[k] = None => HoldsNone(l, k)
             /\ Alive[k] # None => \E p \in Nat : Holds(l, k, Alive[k], p)
  <2>1. PICK m \in 1 .. n : order[m] = k
    BY <1>1, <1>4 DEF Elements
  <2>2. q[m] = Dumped(k)
    BY <1>4, <2>1
  <2>3. ASSUME Alive[k] = None PROVE HoldsNone(l, k)
    <3>1. Len(q[m]) = 0
      BY <2>2, <2>3, DumpedIs
    <3> QED BY <1>7, <2>1, <3>1 DEF HoldsNone
  <2>4. ASSUME Alive[k] # None PROVE \E p \in Nat : Holds(l, k, Alive[k], p)
    <3> DEFINE e == Alive[k]
               p == o[m - 1] + 1
    <3>1. /\ Len(q[m]) = IF e.exp = 0 THEN 1 ELSE 2
          /\ q[m][1] = MakerOf(k, e)
          /\ e.exp # 0 => q[m][2] = [op |-> "PEXPIREAT", key |-> k, at |-> e.exp]
      BY <2>2, <2>4, DumpedIs
    <3>2. \A j \in 1 .. Len(q[m]) : o[m - 1] + j \in 1 .. Len(l) /\ l[o[m - 1] + j] = q[m][j]
      BY <1>6 DEF PartsAt, n
    <3>3. o[m - 1] \in Nat
      <4>1. n \in Nat
        BY <1>2, <1>4
      <4>2. m \in 1 .. n
        BY <2>1
      <4>3. m - 1 \in 0 .. n
        BY <4>1, <4>2
      <4> QED BY <1>6, <4>3
    <3>4. p \in Nat /\ p + 1 = o[m - 1] + 2
      BY <3>3
    <3> HIDE DEF e
    <3>5. p \in 1 .. Len(l) /\ l[p] = MakerOf(k, e)
      BY <3>1, <3>2
    <3>6. e.exp # 0 => p + 1 \in 1 .. Len(l) /\ l[p + 1] = [op |-> "PEXPIREAT", key |-> k, at |-> e.exp]
      BY <3>1, <3>2, <3>4
    <3>7. ASSUME NEW i \in 1 .. Len(l), Touches(l[i], k)
          PROVE  i = p \/ (e.exp # 0 /\ i = p + 1)
      <4>1. PICK j \in 1 .. Len(q[m]) : i = o[m - 1] + j
        BY <1>7, <2>1, <3>7
      <4>2. j = 1 \/ (e.exp # 0 /\ j = 2)
        BY <3>1
      <4> QED BY <3>4, <4>1, <4>2
    <3> HIDE DEF p
    <3> QED BY <3>4, <3>5, <3>6, <3>7 DEF Holds, e
  <2> QED BY <2>3, <2>4
<1>9. DumpOf(order) = l
  BY DEF DumpOf, l, q
<1> QED BY <1>5, <1>8, <1>9

-----------------------------------------------------------------------------
LEMMA InitTypes == Init => Types
BY DEF Init, Types, Empty, OptEntry

LEMMA NextTypes ==
  ASSUME Types, [Next]_vars
  PROVE  Types'
<1> USE DEF Types
<1>1. CASE UNCHANGED vars
  BY <1>1 DEF vars
<1>2. ASSUME NEW r \in Commands, Execute(r)
      PROVE  Types'
  <2>1. r \in Record
    BY CommandsAreRecords
  <2>2. kv' \in [Key -> OptEntry]
    BY <1>2, <2>1, RunType DEF Execute
  <2>3. log' \in Seq(Record) /\ Len(log') >= Len(log)
    BY <1>2, <2>1 DEF Execute
  <2> QED BY <1>2, <2>2, <2>3 DEF Execute
<1>3. ASSUME NEW k \in Key, NEW ttl \in 0 .. MaxTtl, Expire(k, ttl)
      PROVE  Types'
  <2>1. PICK r \in Record : kv' = Run(r, kv, now) /\ log' = Append(log, r)
    BY <1>3, ExpireIsARecord
  <2>2. kv' \in [Key -> OptEntry]
    BY <2>1, RunType
  <2>3. log' \in Seq(Record) /\ Len(log') >= Len(log)
    BY <2>1
  <2> QED BY <1>3, <2>2, <2>3 DEF Expire
<1>4. ASSUME NEW k \in Key, BrPop(k)
      PROVE  Types'
  <2> DEFINE e == Seen(kv[k], now)
             c == SubSeq(e.content, 1, Len(e.content) - 1)
  <2>1. e \in Entry /\ e.content \in Content
    BY <1>4, SeenType, EntryFields DEF BrPop, OptEntry
  <2>2. Len(e.content) # 1 => WithContent(e, c) \in Entry
    <3> SUFFICES ASSUME Len(e.content) # 1 PROVE WithContent(e, c) \in Entry
      OBVIOUS
    <3>1. c \in Content
      BY <2>1, ShortenedByOne
    <3> QED BY <2>1, <3>1, EntryFields
  <2>3. kv' = [kv EXCEPT ![k] = IF Len(e.content) = 1 THEN None ELSE WithContent(e, c)]
    BY <1>4 DEF BrPop
  <2>4. kv' \in [Key -> OptEntry]
    BY <2>2, <2>3 DEF OptEntry
  <2> QED BY <1>4, <2>4 DEF BrPop
<1>5. ASSUME NEW k \in Key, Evict(k)
      PROVE  Types'
  BY <1>5 DEF Evict, OptEntry
<1>6. CASE Save
  BY <1>6, SeenType DEF Save, Alive
<1>7. CASE Rewrite
  <2>1. PICK order \in SetToSeqs(Key) : log' = DumpOf(order)
    BY <1>7 DEF Rewrite
  <2>2. log' \in Seq(Record)
    BY <2>1, DumpShape
  <2>3. Len(log') \in Nat /\ pos = 0
    BY <1>7, <2>2 DEF Rewrite
  <2> QED BY <1>7, <2>2, <2>3 DEF Rewrite
<1>8. CASE Stop
  BY <1>8 DEF Stop, Empty, OptEntry
<1>9. CASE Start
  BY <1>9, SeenType DEF Start
<1>10. CASE Replay
  <2>1. log[pos + 1] \in Record
    BY <1>10 DEF Replay
  <2>2. kv' \in [Key -> OptEntry]
    BY <1>10, <2>1, ReplayedType, RunType DEF Replay
  <2> QED BY <1>10, <2>2 DEF Replay
<1>11. CASE Ready
  BY <1>11 DEF Ready, Empty, OptEntry
<1>12. CASE Tick
  BY <1>12 DEF Tick
<1> QED
  BY <1>1, <1>2, <1>3, <1>4, <1>5, <1>6, <1>7, <1>8, <1>9, <1>10, <1>11, <1>12 DEF Next

-----------------------------------------------------------------------------
(* The invariant holds.                                                     *)

\* What tells about k in a log has told about k in the log before it.
LEMMA ToldBefore ==
  ASSUME Types, NEW k \in Key, NEW r \in Record, NEW b \in 0 .. Len(log),
         log' = Append(log, r), silent' = silent, ToldFrom(b, k)'
  PROVE  /\ ToldFrom(b, k)
         /\ \A i \in b + 1 .. Len(log) + 1 : Loyal(log', i, k)
<1>1. /\ log \in Seq(Record) /\ Len(log) \in Nat
      /\ log' \in Seq(Record) /\ Len(log') = Len(log) + 1
      /\ \A i \in 1 .. Len(log) : log'[i] = log[i]
  BY DEF Types
<1>2. \A i \in b + 1 .. Len(log) + 1 : Loyal(log', i, k)
  BY <1>1 DEF ToldFrom, Faithful, Loyal
<1>3. ASSUME NEW i \in b + 1 .. Len(log) PROVE Faithful(i, k)
  <2>1. i \in 1 .. Len(log) /\ i \in b + 1 .. Len(log) + 1
    BY <1>1
  <2>2. Loyal(log', i, k) /\ log'[i] = log[i]
    BY <1>1, <1>2, <2>1
  <2>3. \A j \in i + 1 .. Len(log) : j \in i + 1 .. Len(log') /\ log'[j] = log[j]
    BY <1>1, <2>1
  <2> QED BY <2>2, <2>3 DEF Faithful, Loyal
<1>4. Settles(b, k)
  BY <1>1 DEF ToldFrom, Settles
<1> QED BY <1>2, <1>3, <1>4 DEF ToldFrom

LEMMA SettlesIsFinal ==
  ASSUME NEW k \in Key, NEW b \in Nat, b # 0, Settles(b, k)
  PROVE  Final(log[b]) /\ Touches(log[b], k)
BY DEF Settles, Final

\* The server executes a record and appends it to the log.
LEMMA Grown ==
  ASSUME Types, Types', IInv, NEW r \in Record, mode = "up",
         kv' = Run(r, kv, now), log' = Append(log, r),
         UNCHANGED <<now, mode, silent>>
  PROVE  IInv'
<1> DEFINE n == Len(log)
<1>1. /\ log \in Seq(Record) /\ n \in Nat /\ log' \in Seq(Record) /\ Len(log') = n + 1
      /\ \A i \in 1 .. n : log'[i] = log[i]
      /\ log'[n + 1] = r /\ now \in Nat
  BY DEF Types
<1> SUFFICES ASSUME NEW k \in Key, NEW b \in 0 .. Len(log'), ToldFrom(b, k)'
             PROVE  \E h \in Contents' : Follows(k, b, h)'
  BY DEF IInv
<1>2. kv[k] \in OptEntry /\ kv'[k] = IF Touches(r, k) THEN Effect(r, kv[k], now) ELSE kv[k]
  BY DEF Types, Run
<1>3. CASE b = n + 1
  <2>0. PICK h : h = [i \in 0 .. n + 1 |-> Effect(r, None, 0)]
    OBVIOUS
  <2>1. Settles(b, k)'
    BY DEF ToldFrom
  <2>2. Final(r) /\ Touches(r, k)
    BY <1>1, <1>3, <2>1 DEF Settles, Final
  <2>3. h[b] = Effect(log'[b], None, 0) /\ b \in 1 .. Len(log')
    BY <1>1, <1>3, <2>0
  <2>4. Effect(r, None, 0) \in Timeless
    BY <2>2, FinalIsFinal DEF OptEntry
  <2>5. h \in Contents'
    BY <1>1, <2>0, <2>4 DEF Contents
  <2>6. kv'[k] = Effect(log'[b], kv[k], now)
    BY <1>1, <1>2, <1>3, <2>2
  <2>a. At(log', kv'[k], h, k, b, b, now)
    BY <1>1, <1>2, <1>3, <2>2, <2>3, <2>6, FirstRecord, ZenonT(30)
  <2>b. b \in Nat /\ b <= Len(log') /\ h[b] \in Timeless
    BY <1>1, <1>3, <2>0, <2>4
  <2>7. At(log', Seen(kv'[k], now), h, k, b, b, now)
    BY <1>1, <2>a, <2>b, SeenIsAt
  <2>8. Trace(log', k, b, h)
    BY <1>1, <1>3, <2>3 DEF Trace
  <2>9. Follows(k, b, h)'
    BY <1>1, <1>3, <2>7, <2>8 DEF Follows
  <2> QED BY <2>5, <2>9
<1>4. CASE b \in 0 .. n
  <2>1. ToldFrom(b, k) /\ \A i \in b + 1 .. n + 1 : Loyal(log', i, k)
    BY <1>4, ToldBefore
  <2>2. PICK g \in Contents : Follows(k, b, g)
    BY <1>4, <2>1 DEF IInv
  <2>3. g[n] \in Timeless /\ g \in [0 .. n -> Timeless]
    BY <1>1 DEF Contents
  <2>a. PICK h : h = [i \in 0 .. n + 1 |-> IF i = n + 1 THEN Bare(r, g[n], k) ELSE g[i]]
    OBVIOUS
  <2>4. /\ \A i \in 0 .. n : h[i] = g[i]
        /\ h[n + 1] = Bare(r, g[n], k)
    BY <1>1, <2>a
  <2>5. At(log', Seen(kv[k], now), g, k, b, n, now)
    <3>1. At(log, Seen(kv[k], now), g, k, b, n, now)
      BY <2>2 DEF Follows
    <3>2. \A i \in b + 1 .. n : log'[i] = log[i]
      BY <1>1, <1>4
    <3> QED BY <3>1, <3>2 DEF At, Timed
  <2>6. At(log', Seen(kv[k], now), h, k, b, n, now)
    <3>1. h[n] = g[n]
      BY <1>1, <2>4
    <3> QED BY <2>5, <3>1 DEF At
  <2>b. h[n] \in Timeless /\ h[n + 1] = Bare(log'[n + 1], h[n], k)
    BY <1>1, <2>3, <2>4
  <2>c. b \in Nat /\ b <= n /\ n + 1 <= Len(log')
    BY <1>1, <1>4
  <2>8. Trace(log', k, b, h)
    <3>1. Trace(log, k, b, g)
      BY <2>2 DEF Follows
    <3>2. h[b] = IF b = 0 THEN None ELSE Effect(log'[b], None, 0)
      BY <1>1, <1>4, <2>4, <3>1 DEF Trace
    <3>3. ASSUME NEW i \in b + 1 .. n + 1
          PROVE  h[i] = Bare(log'[i], h[i - 1], k)
      <4>1. CASE i = n + 1
        <5>1. i - 1 = n /\ h[n] = g[n]
          BY <1>1, <2>4, <4>1
        <5> QED BY <1>1, <2>4, <4>1, <5>1
      <4>2. CASE i # n + 1
        <5>1. i \in b + 1 .. n /\ i \in 0 .. n /\ i - 1 \in 0 .. n /\ i \in 1 .. n
          BY <1>1, <1>4, <4>2
        <5>2. h[i] = g[i] /\ h[i - 1] = g[i - 1] /\ log'[i] = log[i]
          BY <1>1, <2>4, <5>1
        <5>3. g[i] = Bare(log[i], g[i - 1], k)
          BY <3>1, <5>1 DEF Trace
        <5> QED BY <5>2, <5>3
      <4> QED BY <4>1, <4>2
    <3> QED BY <1>1, <3>2, <3>3 DEF Trace
  <2>9. h \in Contents'
    <3>1. Bare(r, g[n], k) \in Timeless
      <4>1. CASE Touches(r, k) /\ r.op # "PEXPIREAT"
        <5>1. Loyal(log', n + 1, k)
          BY <1>1, <1>4, <2>1
        <5>2. Plain(r)
          BY <1>1, <4>1, <5>1 DEF Loyal, Plain
        <5>3. g[n] \in OptEntry
          BY <2>3 DEF Timeless
        <5> QED BY <2>3, <4>1, <5>2, <5>3, EffectType DEF Bare
      <4> QED BY <2>3, <4>1 DEF Bare
    <3> QED BY <1>1, <2>3, <2>a, <3>1 DEF Contents
  <2>10. At(log', Seen(kv'[k], now), h, k, b, n + 1, now)
    <3>1. h[n + 1] \in Timeless
      BY <1>1, <2>9 DEF Contents
    <3> QED BY <1>1, <1>2, <2>1, <2>6, <2>b, <2>c, <3>1, OneRecordSeen, ZenonT(30)
  <2>11. Follows(k, b, h)'
    BY <1>1, <2>8, <2>10 DEF Follows
  <2> QED BY <2>9, <2>11
<1> QED BY <1>1, <1>3, <1>4

\* A step that leaves the log alone.
LEMMA SameLog ==
  ASSUME Types, Types', IInv, log' = log,
         \A k \in Key : \A b \in 0 .. Len(log) :
           silent'[k] <= b =>
             /\ silent[k] <= b
             /\ \A h \in Contents :
                  ToldFrom(b, k) /\ Follows(k, b, h) => Follows(k, b, h)'
  PROVE  IInv'
<1> SUFFICES ASSUME NEW k \in Key, NEW b \in 0 .. Len(log), ToldFrom(b, k)'
             PROVE  \E h \in Contents' : Follows(k, b, h)'
  BY DEF IInv
<1>1. ToldFrom(b, k)
  BY DEF ToldFrom, Settles, Faithful
<1>2. PICK h \in Contents : Follows(k, b, h)
  BY <1>1 DEF IInv
<1>3. Contents' = Contents
  BY DEF Contents
<1>4. silent'[k] <= b
  BY DEF ToldFrom
<1> QED BY <1>1, <1>2, <1>3, <1>4

LEMMA InitInv == Init => IInv
<1> SUFFICES ASSUME Init, NEW k \in Key, NEW b \in 0 .. Len(log), ToldFrom(b, k)
             PROVE  \E h \in Contents : Follows(k, b, h)
  BY DEF IInv
<1>1. log = <<>> /\ Len(log) = 0 /\ b = 0 /\ mode = "up" /\ kv[k] = None
  BY DEF Init, Empty
<1>2. PICK h : h = [i \in 0 .. 0 |-> None]
  OBVIOUS
<1>3. h \in Contents
  BY <1>1, <1>2 DEF Contents, Timeless, OptEntry
<1>4. h[0] = None
  BY <1>2
<1>5. Trace(log, k, b, h) /\ At(log, Seen(kv[k], now), h, k, b, 0, now)
  BY <1>1, <1>4 DEF Trace, At, Seen
<1> QED BY <1>1, <1>3, <1>5 DEF Follows

LEMMA ExecuteInv ==
  ASSUME Types, Types', IInv, NEW r \in Commands, Execute(r)
  PROVE  IInv'
<1>1. r \in Record /\ r.op # "PEXPIREAT"
  BY CommandsAreRecords DEF Commands
<1>2. CASE Logged(r)
  BY <1>1, <1>2, Grown DEF Execute
<1>3. CASE ~Logged(r)
  <2>1. r.op # "FLUSHDB" /\ Effect(r, kv[r.key], now) = Seen(kv[r.key], now)
    BY <1>1, <1>3, UnloggedChangesNothing DEF Types
  <2>2. /\ log' = log /\ UNCHANGED <<now, mode, silent, before, pos>> /\ mode = "up"
        /\ \A k \in Key : kv'[k] \in {kv[k], Seen(kv[k], now)}
    BY <1>3, <2>1 DEF Execute, Run, Touches, Types
  <2>3. ASSUME NEW k \in Key, NEW b \in 0 .. Len(log), NEW h \in Contents, Follows(k, b, h)
        PROVE  Follows(k, b, h)'
    <3>1. At(log, Seen(kv[k], now), h, k, b, Len(log), now)
      BY <2>2, <2>3 DEF Follows
    <3>2. Seen(kv'[k], now) = Seen(kv[k], now)
      <4>1. kv[k] \in OptEntry /\ now \in Nat
        BY DEF Types
      <4>2. kv'[k] = kv[k] \/ kv'[k] = Seen(kv[k], now)
        BY <2>2
      <4> QED BY <4>1, <4>2, SeenTwice
    <3> QED BY <2>2, <2>3, <3>1, <3>2 DEF Follows
  <2> QED BY <2>2, <2>3, SameLog
<1> QED BY <1>2, <1>3

\* A change without a record.
LEMMA SilentInv ==
  ASSUME Types, Types', IInv, NEW j \in Key, log' = log,
         \A k \in Key : k # j => kv'[k] = kv[k],
         silent' = [silent EXCEPT ![j] = Len(log) + 1],
         UNCHANGED <<now, mode, before, pos>>
  PROVE  IInv'
<1>1. ASSUME NEW k \in Key, NEW b \in 0 .. Len(log), silent'[k] <= b
      PROVE  k # j /\ silent[k] <= b
  BY <1>1 DEF Types
<1>2. ASSUME NEW k \in Key, k # j, NEW b \in 0 .. Len(log), NEW h \in Contents, Follows(k, b, h)
      PROVE  Follows(k, b, h)'
  BY <1>2 DEF Follows
<1> QED BY <1>1, <1>2, SameLog

LEMMA StartInv ==
  ASSUME Types, Types', IInv, Start
  PROVE  IInv'
<1>1. /\ log' = log /\ UNCHANGED <<now, before>> /\ pos' = 0 /\ mode # "up" /\ mode' = "loading"
      /\ kv' = [k \in Key |-> Seen(snap[k], now)]
      /\ silent' = [k \in Key |-> IF silent[k] = 0 /\ Seen(snap[k], now) # None THEN 1 ELSE silent[k]]
  BY DEF Start
<1>2. ASSUME NEW k \in Key, NEW b \in 0 .. Len(log), silent'[k] <= b
      PROVE  silent[k] <= b /\ (b = 0 => kv'[k] = None)
  BY <1>1, <1>2 DEF Types
<1>3. ASSUME NEW k \in Key, NEW b \in 0 .. Len(log), silent'[k] <= b,
             NEW h \in Contents, Follows(k, b, h)
      PROVE  Follows(k, b, h)'
  <2>1. Trace(log, k, b, h) /\ At(log, Seen(before[k], now), h, k, b, Len(log), now)
    BY <1>1, <1>3 DEF Follows
  <2>2. CASE b = 0
    <3>1. kv'[k] = None /\ h[0] = None
      BY <1>2, <1>3, <2>1, <2>2 DEF Trace
    <3>2. At(log, Seen(kv'[k], now), h, k, b, 0, now)
      BY <2>2, <3>1 DEF At, Seen
    <3> QED BY <1>1, <2>1, <3>2 DEF Follows
  <2>3. CASE b # 0
    BY <1>1, <2>1, <2>3 DEF Follows
  <2> QED BY <2>2, <2>3
<1> QED BY <1>1, <1>2, <1>3, SameLog

LEMMA ReplayInv ==
  ASSUME Types, Types', IInv, Replay
  PROVE  IInv'
<1> DEFINE r == log[pos + 1]
<1>1. /\ log' = log /\ UNCHANGED <<now, before, silent, mode>> /\ pos' = pos + 1 /\ mode = "loading"
      /\ pos < Len(log) /\ kv' = Run(Replayed(r), kv, now)
  BY DEF Replay
<1>2. /\ log \in Seq(Record) /\ Len(log) \in Nat /\ pos \in Nat /\ r \in Record /\ now \in Nat
      /\ silent \in [Key -> Nat]
  BY <1>1 DEF Types
<1>3. \A k \in Key : /\ kv[k] \in OptEntry
                     /\ kv'[k] = IF Touches(Replayed(r), k) THEN Effect(Replayed(r), kv[k], now) ELSE kv[k]
                     /\ Touches(Replayed(r), k) = Touches(r, k)
  <2>1. \A k \in Key : Touches(Replayed(r), k) = Touches(r, k)
    BY <1>2, ReplayedTouches
  <2> QED BY <1>1, <2>1 DEF Types, Run
<1>4. ASSUME NEW k \in Key, NEW b \in 0 .. Len(log), ToldFrom(b, k), NEW h \in Contents, Follows(k, b, h)
      PROVE  Follows(k, b, h)'
  <2>1. /\ Trace(log, k, b, h) /\ At(log, Seen(before[k], now), h, k, b, Len(log), now)
        /\ pos >= b => At(log, Seen(kv[k], now), h, k, b, pos, now)
    BY <1>1, <1>4 DEF Follows
  <2>2. ASSUME pos + 1 >= b
        PROVE  At(log, Seen(kv'[k], now), h, k, b, pos + 1, now)
    <3>1. CASE b = pos + 1
      <4>1. Settles(b, k)
        BY <1>4 DEF ToldFrom
      <4>2. Final(log[b]) /\ Touches(log[b], k)
        BY <1>2, <3>1, <4>1, SettlesIsFinal
      <4>3. h[b] = Effect(log[b], None, 0)
        BY <1>2, <2>1, <3>1 DEF Trace
      <4>4. b \in 1 .. Len(log)
        BY <1>2, <3>1
      <4>5. /\ At(log, Effect(log[b], kv[k], now), h, k, b, b, now) /\ Replayed(log[b]) = log[b]
            /\ h[b] \in Timeless
        BY <1>2, <1>3, <4>2, <4>3, <4>4, FirstRecord
      <4>6. kv'[k] = Effect(log[b], kv[k], now)
        BY <1>3, <3>1, <4>2, <4>5
      <4>7. At(log, Seen(kv'[k], now), h, k, b, b, now)
        BY <1>2, <4>4, <4>5, <4>6, SeenIsAt
      <4> QED BY <3>1, <4>7
    <3>2. CASE b # pos + 1
      <4>1. b \in Nat /\ b <= pos /\ pos + 1 <= Len(log) /\ pos >= b
        BY <1>1, <1>2, <2>2, <3>2
      <4>2. h[pos] \in Timeless /\ h[pos + 1] \in Timeless
        BY <1>1, <1>2, <4>1 DEF Contents
      <4>3. h[pos + 1] = Bare(log[pos + 1], h[pos], k)
        <5>1. pos + 1 \in b + 1 .. Len(log) /\ (pos + 1) - 1 = pos
          BY <1>2, <4>1
        <5> QED BY <2>1, <5>1 DEF Trace
      <4>4. \A i \in b + 1 .. pos + 1 : Loyal(log, i, k)
        BY <1>2, <1>4, <4>1 DEF ToldFrom, Faithful, Loyal
      <4> DEFINE f == IF Touches(r, k) THEN Effect(r, kv[k], now) ELSE kv[k]
      <4>5. /\ At(log, Seen(f, now), h, k, b, pos + 1, now)
            /\ Touches(r, k) => Replayed(r) = r
        BY <1>2, <1>3, <2>1, <4>1, <4>2, <4>3, <4>4, OneRecordSeen
      <4>6. kv'[k] = f
        BY <1>3, <4>5
      <4> QED BY <4>5, <4>6
    <3> QED BY <3>1, <3>2
  <2> QED BY <1>1, <2>1, <2>2 DEF Follows
<1> QED BY <1>1, <1>2, <1>4, SameLog

\* After a rewrite, the sequence of contents is that of the dump.
LEMMA RewriteInv ==
  ASSUME Types, Types', IInv, Rewrite
  PROVE  IInv'
<1>1. PICK order \in SetToSeqs(Key) : log' = DumpOf(order)
  BY DEF Rewrite
<1>2. mode = "up" /\ UNCHANGED <<kv, now, mode, before, pos>> /\ now \in Nat /\ kv \in [Key -> OptEntry]
  BY DEF Rewrite, Types
<1>3. log' \in Seq(Record) /\ Len(log') \in Nat
  BY DEF Types
<1> DEFINE n == Len(log')
<1> SUFFICES ASSUME NEW k \in Key, NEW b \in 0 .. n, ToldFrom(b, k)'
             PROVE  \E h \in Contents' : Follows(k, b, h)'
  BY DEF IInv
<1> DEFINE e == Alive[k]
<1>4. e \in OptEntry /\ e = Seen(kv[k], now)
  BY DumpedIs DEF Alive
<1>5. Settles(b, k)'
  BY DEF ToldFrom
<1> HIDE DEF e, n
<1>6. CASE e = None
  <2>1. HoldsNone(log', k)
    BY <1>1, <1>6, DumpShape DEF e
  <2>2. b = 0
    BY <1>3, <1>5, <2>1 DEF Settles, HoldsNone, n
  <2> DEFINE h == [i \in 0 .. n |-> None]
  <2>3. h \in Contents' /\ (\A i \in 0 .. n : h[i] = None)
    BY DEF Contents, Timeless, OptEntry, n
  <2> HIDE DEF h
  <2>4. n \in Nat /\ \A i \in 1 .. n : h[i] = Bare(log'[i], h[i - 1], k)
    <3>1. \A i \in 1 .. n : i \in 0 .. n /\ i - 1 \in 0 .. n
      BY <1>3 DEF n
    <3> QED BY <1>3, <2>1, <2>3, <3>1 DEF Bare, HoldsNone, n
  <2>5. Trace(log', k, b, h)
    BY <1>3, <2>2, <2>3, <2>4 DEF Trace, n
  <2>6. \A i \in 1 .. n : ~Timed(log', k, i)
    BY <2>1 DEF HoldsNone, Timed, Touches, n
  <2>7. At(log', e, h, k, b, n, now)
    BY <1>6, <2>2, <2>3, <2>4, <2>6 DEF At
  <2> QED BY <1>2, <1>4, <2>3, <2>5, <2>7 DEF Follows, n
<1>7. CASE e # None
  <2>1. PICK p \in Nat : Holds(log', k, e, p)
    BY <1>1, <1>7, DumpShape DEF e
  <2>2. e \in Entry
    BY <1>4, <1>7 DEF OptEntry
  <2> DEFINE c == WithExp(e, 0)
             h == [i \in 0 .. n |-> IF i < p THEN None ELSE c]
  <2>3. c \in Entry /\ c.exp = 0 /\ c # None /\ e = WithExp(c, e.exp) /\ e.exp \in Nat
        /\ c = [kind |-> e.kind, content |-> e.content, exp |-> 0]
    BY <2>2, EntryFields DEF WithExp, Entry
  <2>4. MakerOf(k, e).key = k /\ MakerOf(k, e).op \in {"SET", "RPUSH"} /\ Effect(MakerOf(k, e), None, 0) = c
    <3>1. Seen(None, 0) = None
      BY DEF Seen
    <3>2. CASE e.kind = "string"
      BY <2>3, <3>1, <3>2 DEF MakerOf, Effect, SetOptions, Applies
    <3>3. CASE e.kind = "list"
      BY <2>3, <3>1, <3>3 DEF MakerOf, Effect, Extend
    <3> QED BY <2>2, <3>2, <3>3, EntryFields
  <2>5. n \in Nat /\ p \in 1 .. n
    BY <1>3, <2>1 DEF Holds, n
  <2>6. /\ h \in Contents'
        /\ \A i \in 0 .. n : h[i] = IF i < p THEN None ELSE c
    BY <2>3 DEF Contents, Timeless, OptEntry, n
  <2> HIDE DEF c, h
  <2>7. b = 0 \/ b = p
    <3>1. b \in 1 .. n => Touches(log'[b], k) /\ log'[b].op # "PEXPIREAT"
      BY <1>5, <2>5 DEF Settles
    <3> QED BY <2>1, <2>5, <3>1 DEF Holds, n
  <2>8. h[b] = IF b = 0 THEN None ELSE Effect(log'[b], None, 0)
    BY <2>1, <2>4, <2>5, <2>6, <2>7 DEF Holds
  <2>9. ASSUME NEW i \in b + 1 .. n PROVE h[i] = Bare(log'[i], h[i - 1], k)
    <3>1. i \in 1 .. n /\ i - 1 \in 0 .. n /\ i \in 0 .. n
      BY <2>5
    <3>2. CASE i = p
      <4>1. b = 0 /\ h[i - 1] = None /\ h[i] = c
        BY <2>5, <2>6, <2>7, <3>1, <3>2
      <4>2. Touches(log'[i], k) /\ log'[i] = MakerOf(k, e)
        BY <2>1, <2>4, <3>2 DEF Holds, Touches
      <4> QED BY <2>4, <4>1, <4>2 DEF Bare
    <3>3. CASE i # p
      <4>1. h[i] = h[i - 1]
        BY <2>5, <2>6, <3>1, <3>3
      <4>2. Touches(log'[i], k) => log'[i].op = "PEXPIREAT"
        BY <2>1, <3>1, <3>3 DEF Holds, n
      <4> QED BY <4>1, <4>2 DEF Bare
    <3> QED BY <3>2, <3>3
  <2>10. Trace(log', k, b, h)
    BY <2>8, <2>9 DEF Trace, n
  <2>11. h[n] = c
    BY <2>5, <2>6
  <2>12. At(log', e, h, k, b, n, now)
    <3>1. ASSUME \A i \in b + 1 .. n : ~Timed(log', k, i) PROVE e = c
      <4>1. e.exp = 0
        <5>1. e.exp # 0 => p + 1 \in b + 1 .. n /\ Timed(log', k, p + 1)
          BY <2>1, <2>5, <2>7 DEF Holds, Timed, n
        <5> QED BY <3>1, <5>1
      <4> QED BY <2>2, <4>1, Unchanged DEF c
    <3>2. ASSUME NEW i \in b + 1 .. n, Timed(log', k, i) PROVE Late(e, c, log'[i].at, now)
      <4>1. i \in 1 .. n /\ Touches(log'[i], k) /\ log'[i].op = "PEXPIREAT"
        BY <2>5, <3>2 DEF Timed, Touches
      <4>2. e.exp # 0 /\ i = p + 1
        BY <2>1, <2>4, <4>1 DEF Holds, n
      <4>3. log'[i].at = e.exp
        BY <2>1, <4>2 DEF Holds
      <4> QED BY <2>3, <4>2, <4>3 DEF Late
    <3> QED BY <2>11, <3>1, <3>2 DEF At
  <2> QED BY <1>2, <1>4, <2>6, <2>10, <2>12 DEF Follows, n
<1> QED BY <1>6, <1>7

LEMMA NextInv ==
  ASSUME Types, Types', IInv, [Next]_vars
  PROVE  IInv'
<1>1. CASE UNCHANGED vars
  BY <1>1 DEF vars, IInv, ToldFrom, Settles, Faithful, Contents, Follows
<1>2. ASSUME NEW r \in Commands, Execute(r)
      PROVE  IInv'
  BY <1>2, ExecuteInv
<1>3. ASSUME NEW k \in Key, NEW ttl \in 0 .. MaxTtl, Expire(k, ttl)
      PROVE  IInv'
  <2>1. PICK r \in Record : kv' = Run(r, kv, now) /\ log' = Append(log, r)
    BY <1>3, ExpireIsARecord
  <2> QED BY <1>3, <2>1, Grown DEF Expire
<1>4. ASSUME NEW k \in Key, BrPop(k) \/ Evict(k)
      PROVE  IInv'
  BY <1>4, SilentInv DEF BrPop, Evict, Types
<1>5. CASE Save
  <2>1. ASSUME NEW k \in Key, NEW b \in 0 .. Len(log), NEW h \in Contents, Follows(k, b, h)
        PROVE  Follows(k, b, h)'
    BY <1>5, <2>1 DEF Save, Follows
  <2> QED BY <1>5, <2>1, SameLog DEF Save
<1>6. CASE Rewrite
  BY <1>6, RewriteInv
<1>7. CASE Stop
  <2>1. ASSUME NEW k \in Key, NEW b \in 0 .. Len(log), NEW h \in Contents, Follows(k, b, h)
        PROVE  Follows(k, b, h)'
    BY <1>7, <2>1 DEF Stop, Follows
  <2> QED BY <1>7, <2>1, SameLog DEF Stop
<1>8. CASE Start
  BY <1>8, StartInv
<1>9. CASE Replay
  BY <1>9, ReplayInv
<1>10. CASE Ready
  <2>1. ASSUME NEW k \in Key, NEW b \in 0 .. Len(log), NEW h \in Contents, Follows(k, b, h)
        PROVE  Follows(k, b, h)'
    BY <1>10, <2>1 DEF Ready, Follows, Types
  <2> QED BY <1>10, <2>1, SameLog DEF Ready
<1>11. CASE Tick
  <2>1. now' = now + 1 /\ now \in Nat /\ UNCHANGED <<kv, log, mode, pos, before, silent>>
        /\ log \in Seq(Record) /\ pos \in Nat /\ pos <= Len(log) /\ Len(log) \in Nat
    BY <1>11 DEF Tick, Types
  <2>2. ASSUME NEW k \in Key, NEW b \in 0 .. Len(log), NEW h \in Contents, Follows(k, b, h)
        PROVE  Follows(k, b, h)'
    <3>1. ASSUME NEW e \in OptEntry, NEW n \in Nat, n <= Len(log),
                 At(log, Seen(e, now), h, k, b, n, now)
          PROVE  At(log, Seen(e, now'), h, k, b, n, now')
      <4>1. At(log, Seen(e, now), h, k, b, n, now')
        BY <2>1, <3>1, Later
      <4>2. h[n] \in Timeless /\ now' \in Nat
        BY <2>1, <3>1 DEF Contents
      <4>3. At(log, Seen(Seen(e, now), now'), h, k, b, n, now')
        BY <2>1, <3>1, <4>1, <4>2, SeenIsAt
      <4> QED BY <2>1, <4>3, SeenTwice
    <3>2. Trace(log, k, b, h) /\ (mode = "up" => At(log, Seen(kv[k], now), h, k, b, Len(log), now))
          /\ (mode # "up" => At(log, Seen(before[k], now), h, k, b, Len(log), now))
          /\ (mode = "loading" /\ pos >= b => At(log, Seen(kv[k], now), h, k, b, pos, now))
      BY <2>2 DEF Follows
    <3>3. /\ mode = "up" => At(log, Seen(kv[k], now'), h, k, b, Len(log), now')
          /\ mode # "up" => At(log, Seen(before[k], now'), h, k, b, Len(log), now')
          /\ mode = "loading" /\ pos >= b => At(log, Seen(kv[k], now'), h, k, b, pos, now')
      BY <2>1, <3>1, <3>2 DEF Types
    <3> QED BY <2>1, <3>2, <3>3 DEF Follows
  <2> QED BY <2>1, <2>2, SameLog
<1> QED
  BY <1>1, <1>2, <1>3, <1>4, <1>5, <1>6, <1>7, <1>8, <1>9, <1>10, <1>11 DEF Next

-----------------------------------------------------------------------------
(* The theorems.                                                            *)

\* Whatever the commands, the keys and the clock: entries are well typed, and
\* no list is ever kept empty.
THEOREM RestartTypes == Spec => []TypeOK
<1>1. Types => TypeOK
  BY DEF Types, TypeOK, OptEntry
<1> QED BY <1>1, InitTypes, NextTypes, PTL DEF Spec

LEMMA InvariantsHold == Spec => [](Types /\ IInv)
BY InitTypes, InitInv, NextTypes, NextInv, PTL DEF Spec

LEMMA InvRestores == Types /\ IInv => RestartRestores
<1> SUFFICES ASSUME Types, IInv, mode = "loading", pos = Len(log), NEW k \in Key, Told(k)
             PROVE  Restored(k)
  BY DEF RestartRestores
<1>1. PICK b \in 0 .. Len(log) : ToldFrom(b, k)
  BY DEF Told
<1>2. PICK h \in Contents : Follows(k, b, h)
  BY <1>1 DEF IInv
<1>3. /\ At(log, Seen(before[k], now), h, k, b, Len(log), now)
      /\ At(log, Seen(kv[k], now), h, k, b, Len(log), now)
      /\ log \in Seq(Record) /\ Len(log) \in Nat /\ b \in Nat /\ now \in Nat
      /\ before[k] \in OptEntry /\ kv[k] \in OptEntry
  BY <1>2 DEF Follows, Types
<1>4. h[Len(log)] \in Timeless
  BY <1>3 DEF Contents
<1>5. Seen(Seen(before[k], now), now) = Seen(Seen(kv[k], now), now)
  BY <1>3, <1>4, SameAtSame
<1> QED BY <1>3, <1>5, SeenTwice DEF Restored

\* Whatever the commands, the keys and the clock, and however often the server
\* stops, also while it loads, and rewrites its log: the replay gives back, or
\* lets expire, every key whose history the log tells.
THEOREM ToldIsRestored == Spec => []RestartRestores
BY InvariantsHold, InvRestores, PTL

-----------------------------------------------------------------------------
(* The snapshot that a restart loads (module Snapshot), for any number of   *)
(* worker threads, writes, saves and restarts.                              *)

(* What a power loss leaves of a file is a file. *)
LEMMA DiskCopy ==
  ASSUME NEW f \in Copy, NEW g \in OnDisk(f)
  PROVE  /\ g \in Copy /\ g.synced /\ g.unseen = f.unseen
         /\ g.held = f.held \/ (~f.synced /\ g.held = Broken)
BY DEF OnDisk, Copy

(* No dump is what the checksum rejects. *)
LEMMA DumpIsWhole == ASSUME NEW S \in SUBSET Write PROVE S # Broken
BY SnapshotBounds DEF Broken, Write

(* The variables of Snapshot keep their types. *)
THEOREM SnapshotTypes == SnapshotSpec => []SnapshotTypeOK
<1> USE SnapshotBounds, ClientsAssumption
<1>1. SnapshotInit => SnapshotTypeOK
  <2> SUFFICES ASSUME SnapshotInit PROVE SnapshotTypeOK
    OBVIOUS
  <2>1. /\ job \in [Savers -> {"none", "write", "rename", "done", "failed"}]
        /\ entries \in [Savers -> SUBSET Write]
        /\ cpc \in [Clients -> {"idle", "count", "save", "reset"}]
    BY DEF SnapshotInit, Idle
  <2>2. /\ store \subseteq Write /\ saved \subseteq Write /\ forgotten \subseteq Write
        /\ file \in Copy /\ previous \in Copy
    BY DEF SnapshotInit, NoFile, Copy
  <2>3. /\ issued \in 0 .. MaxWrites /\ dirty \in Nat
        /\ snapshots \in 0 .. MaxSnapshots /\ lives \in 0 .. MaxLives
    BY DEF SnapshotInit
  <2>4. /\ saving \in BOOLEAN /\ shutdown \in BOOLEAN
        /\ mutex = NoOne /\ apc = "exit" /\ spc = "down"
    BY DEF SnapshotInit
  <2> QED BY <2>1, <2>2, <2>3, <2>4 DEF SnapshotTypeOK
<1>2. SnapshotTypeOK /\ [SnapshotNext]_snapshotVars => SnapshotTypeOK'
  <2> SUFFICES ASSUME SnapshotTypeOK, [SnapshotNext]_snapshotVars PROVE SnapshotTypeOK'
    OBVIOUS
  <2> USE DEF SnapshotTypeOK, data, disk, history, locks, work, bounds, Savers
  <2>1. CASE StartServer
    <3>1. store' \subseteq Write /\ saved' \subseteq Write
      BY <2>1 DEF StartServer, Loaded, Copy
    <3>2. lives' \in 0 .. MaxLives /\ apc' \in {"wait", "reset", "exit"} /\ spc' = "up"
      BY <2>1 DEF StartServer
    <3>3. UNCHANGED <<issued, dirty, disk, locks, cpc, forgotten, snapshots>>
      BY <2>1 DEF StartServer
    <3>4. job' = job /\ entries' = entries
      BY <2>1 DEF StartServer
    <3> QED BY <3>1, <3>2, <3>3, <3>4
  <2>2. ASSUME NEW c \in Clients, WriteCounted(c) \/ WriteSet(c) \/ CountSet(c)
        PROVE  SnapshotTypeOK'
    <3>1. ASSUME issued < MaxWrites PROVE issued + 1 \in 0 .. MaxWrites /\ issued + 1 \in Write
      BY <3>1 DEF Write
    <3>2. CASE WriteCounted(c)
      BY <3>1, <3>2 DEF WriteCounted
    <3>3. CASE WriteSet(c)
      BY <3>1, <3>3 DEF WriteSet
    <3>4. CASE CountSet(c)
      BY <3>4 DEF CountSet
    <3> QED BY <2>2, <3>2, <3>3, <3>4
  <2>3. ASSUME NEW c \in Clients, SaveBegin(c) PROVE SnapshotTypeOK'
    BY <2>3 DEF SaveBegin
  <2>4. ASSUME NEW c \in Clients, SaveEnd(c) PROVE SnapshotTypeOK'
    BY <2>4 DEF SaveEnd
  <2>5. ASSUME NEW c \in Clients, SaveReply(c) PROVE SnapshotTypeOK'
    BY <2>5 DEF SaveReply, ResetDirty
  <2>6. ASSUME NEW c \in Clients, BgSave(c) PROVE SnapshotTypeOK'
    BY <2>6 DEF BgSave, SpawnSave
  <2>7. ASSUME NEW p \in Savers, SaveWrite(p) \/ SaveRename(p) PROVE SnapshotTypeOK'
    <3>1. CASE SaveWrite(p)
      BY <3>1 DEF SaveWrite
    <3>2. CASE SaveRename(p)
      <4>1. entries[p] \in SUBSET Write
        OBVIOUS
      <4>2. \A flushed, synced \in BOOLEAN : Written(p, flushed, synced) \in Copy
        BY <4>1 DEF Written, Copy
      <4>3. file' \in Copy /\ previous' \in Copy
        BY <3>2, <4>2 DEF SaveRename
      <4>4. job' \in [Savers -> {"none", "write", "rename", "done", "failed"}]
        BY <3>2 DEF SaveRename
      <4>5. UNCHANGED <<data, locks, entries, cpc, apc, spc, history, bounds>>
        BY <3>2 DEF SaveRename
      <4> QED BY <4>3, <4>4, <4>5
    <3> QED BY <2>7, <3>1, <3>2
  <2>8. CASE ThreadEnd
    BY <2>8 DEF ThreadEnd
  <2>9. CASE AutoSpawn \/ AutoReset \/ AutoExit
    <3>1. CASE AutoSpawn
      BY <3>1 DEF AutoSpawn, SpawnSave
    <3>2. CASE AutoReset
      BY <3>2 DEF AutoReset, ResetDirty
    <3>3. CASE AutoExit
      BY <3>3 DEF AutoExit
    <3> QED BY <2>9, <3>1, <3>2, <3>3
  <2>10. CASE StopBegin \/ StopShutdown
    BY <2>10 DEF StopBegin, StopShutdown
  <2>11. CASE StopSave
    <3>1. CASE dirty > 0 /\ ~saving
      <4>1. /\ job' \in [Savers -> {"none", "write", "rename", "done", "failed"}]
            /\ entries' \in [Savers -> SUBSET Write]
        BY <2>11, <3>1 DEF StopSave
      <4> QED BY <2>11, <3>1, <4>1, ZenonT(30) DEF StopSave
    <3>2. CASE ~(dirty > 0 /\ ~saving)
      BY <2>11, <3>2 DEF StopSave
    <3> QED BY <3>1, <3>2
  <2>12. CASE StopSaved
    BY <2>12 DEF StopSaved
  <2>13. CASE StopEnd
    BY <2>13 DEF StopEnd, ProcessGone, Idle, NoOne
  <2>14. CASE Crash
    <3>1. /\ file' \in Copy /\ previous' \in Copy
          /\ spc' = "dead" /\ saved' \subseteq Write
      BY <2>14, DiskCopy DEF Crash
    <3>2. ProcessGone
      BY <2>14 DEF Crash
    <3>3. /\ store' = {} /\ dirty' = 0 /\ mutex' = NoOne
          /\ saving' \in BOOLEAN /\ shutdown' \in BOOLEAN /\ apc' = "exit"
          /\ issued' = issued /\ forgotten' = forgotten
          /\ snapshots' = snapshots /\ lives' = lives
      BY <3>2 DEF ProcessGone
    <3>4. /\ job' \in [Savers -> {"none", "write", "rename", "done", "failed"}]
          /\ entries' \in [Savers -> SUBSET Write]
          /\ cpc' \in [Clients -> {"idle", "count", "save", "reset"}]
      BY <3>2 DEF ProcessGone, Idle
    <3> QED BY <3>1, <3>3, <3>4
  <2>15. CASE UNCHANGED snapshotVars
    BY <2>15 DEF snapshotVars
  <2> QED BY <2>1, <2>2, <2>3, <2>4, <2>5, <2>6, <2>7, <2>8, <2>9, <2>10, <2>11,
             <2>12, <2>13, <2>14, <2>15 DEF SnapshotNext
<1> QED BY <1>1, <1>2, PTL DEF SnapshotSpec

-----------------------------------------------------------------------------
(* The flag saving_in_progress_ covers every save. *)
SavingCovers == \A p \in Savers : job[p] # "none" => saving

(* At most one saver, and the flag is up as long as it is there. *)
LEMMA OneSaverInvariant == SnapshotSpec => [](OneSaver /\ SavingCovers)
<1> DEFINE Inv == OneSaver /\ SavingCovers
<1>1. SnapshotInit => Inv
  BY DEF SnapshotInit, Idle, OneSaver, SavingCovers
<1>2. SnapshotTypeOK /\ Inv /\ [SnapshotNext]_snapshotVars => Inv'
  <2> SUFFICES ASSUME SnapshotTypeOK, Inv, [SnapshotNext]_snapshotVars PROVE Inv'
    OBVIOUS
  <2> USE DEF OneSaver, SavingCovers, data, disk, history, locks, work, bounds
  <2>0. job \in [Savers -> {"none", "write", "rename", "done", "failed"}]
    BY DEF SnapshotTypeOK
  (* A save begins only when no other is there. *)
  <2>a. ASSUME NEW p \in Savers, ~saving, saving', job' = [job EXCEPT ![p] = "write"]
        PROVE  Inv'
    BY <2>0, <2>a
  (* The end of the only save there is. *)
  <2>b. ASSUME NEW p \in Savers, job[p] # "none", job' = [job EXCEPT ![p] = "none"]
        PROVE  Inv'
    <3>1. \A q \in Savers : job'[q] = "none"
      BY <2>0, <2>b
    <3> QED BY <3>1
  (* A save goes on. *)
  <2>c. ASSUME NEW p \in Savers, NEW s, job[p] # "none", job' = [job EXCEPT ![p] = s],
               saving' = saving
        PROVE  Inv'
    BY <2>0, <2>c
  <2>d. ASSUME UNCHANGED <<job, saving>> PROVE Inv'
    BY <2>d
  <2>1. CASE StartServer
    BY <2>1, <2>d DEF StartServer
  <2>2. ASSUME NEW c \in Clients, WriteCounted(c) \/ WriteSet(c) \/ CountSet(c) \/ SaveReply(c)
        PROVE  Inv'
    BY <2>2, <2>d DEF WriteCounted, WriteSet, CountSet, SaveReply
  <2>3. ASSUME NEW c \in Clients, SaveBegin(c) PROVE Inv'
    BY <2>3, <2>a DEF SaveBegin, Savers
  <2>4. ASSUME NEW c \in Clients, SaveEnd(c) PROVE Inv'
    BY <2>4, <2>b DEF SaveEnd, Returned, Savers
  <2>5. ASSUME NEW c \in Clients, BgSave(c) PROVE Inv'
    BY <2>5, <2>a DEF BgSave, SpawnSave, Savers
  <2>6. ASSUME NEW p \in Savers, SaveWrite(p) PROVE Inv'
    BY <2>6, <2>c DEF SaveWrite
  <2>7. ASSUME NEW p \in Savers, SaveRename(p) PROVE Inv'
    BY <2>7, <2>c DEF SaveRename
  <2>8. CASE ThreadEnd
    BY <2>8, <2>b DEF ThreadEnd, Returned, Savers
  <2>9. CASE AutoSpawn
    BY <2>9, <2>a DEF AutoSpawn, SpawnSave, Savers
  <2>10. CASE AutoReset \/ AutoExit \/ StopBegin \/ StopShutdown
    BY <2>10, <2>d DEF AutoReset, AutoExit, StopBegin, StopShutdown
  <2>11. CASE StopSave
    BY <2>11, <2>a, <2>d DEF StopSave, Savers
  <2>12. CASE StopSaved
    BY <2>12, <2>b DEF StopSaved, Returned, Savers
  <2>13. CASE StopEnd \/ Crash
    <3>1. job' = Idle
      BY <2>13 DEF StopEnd, Crash, ProcessGone
    <3> QED BY <3>1 DEF Idle
  <2>14. CASE UNCHANGED snapshotVars
    BY <2>14, <2>d DEF snapshotVars
  <2> QED BY <2>1, <2>2, <2>3, <2>4, <2>5, <2>6, <2>7, <2>8, <2>9, <2>10, <2>11,
             <2>12, <2>13, <2>14 DEF SnapshotNext
<1> QED BY <1>1, <1>2, SnapshotTypes, PTL DEF SnapshotSpec

(* Whoever asks for a save - SAVE in any worker thread, BGSAVE, the          *)
(* auto-save thread, Server::stop - at most one writes.  The mutex alone    *)
(* would not do: a background save runs without it.                         *)
THEOREM OneSaverAtATime == SnapshotSpec => []OneSaver
BY OneSaverInvariant, PTL

-----------------------------------------------------------------------------
(* A file is broken, or may be by a power loss, only by a failure that       *)
(* nobody looked at.                                                        *)
Explained(f) == (f.held = Broken => f.unseen) /\ (~f.synced => f.unseen)

FilesExplained == Explained(file) /\ Explained(previous)

(* An invariant: the file and the one a power loss may bring back. *)
LEMMA FilesAreExplained == SnapshotSpec => []FilesExplained
<1>1. SnapshotInit => FilesExplained
  BY DumpIsWhole DEF SnapshotInit, FilesExplained, Explained, NoFile
<1>2. SnapshotTypeOK /\ FilesExplained /\ [SnapshotNext]_snapshotVars => FilesExplained'
  <2> SUFFICES ASSUME SnapshotTypeOK, FilesExplained, [SnapshotNext]_snapshotVars
               PROVE  FilesExplained'
    OBVIOUS
  <2> USE DEF FilesExplained, data, disk, history, locks, work, bounds
  <2>1. ASSUME NEW p \in Savers, SaveRename(p) PROVE FilesExplained'
    <3>1. entries[p] # Broken
      BY DumpIsWhole DEF SnapshotTypeOK
    <3>2. \A flushed, synced \in BOOLEAN : Explained(Written(p, flushed, synced))
      BY <3>1 DEF Explained, Written
    <3> QED BY <2>1, <3>2 DEF SaveRename
  <2>2. CASE Crash
    <3>1. \A f \in Copy : Explained(f) => \A g \in OnDisk(f) : Explained(g)
      BY DiskCopy DEF Explained
    <3> QED BY <2>2, <3>1 DEF Crash, SnapshotTypeOK
  <2>3. CASE UNCHANGED disk
    BY <2>3
  <2>4. CASE \E c \in Clients :
               \/ WriteCounted(c) \/ WriteSet(c) \/ CountSet(c)
               \/ SaveBegin(c) \/ SaveEnd(c) \/ SaveReply(c) \/ BgSave(c)
    BY <2>3, <2>4 DEF WriteCounted, WriteSet, CountSet, SaveBegin, SaveEnd, SaveReply, BgSave
  <2>5. ASSUME NEW p \in Savers, SaveWrite(p) PROVE FilesExplained'
    BY <2>3, <2>5 DEF SaveWrite
  <2>6. CASE ThreadEnd \/ AutoSpawn \/ AutoReset \/ AutoExit \/ StartServer
    BY <2>3, <2>6 DEF ThreadEnd, AutoSpawn, AutoReset, AutoExit, StartServer
  <2>7. CASE StopBegin \/ StopShutdown \/ StopSave \/ StopSaved \/ StopEnd
    BY <2>3, <2>7 DEF StopBegin, StopShutdown, StopSave, StopSaved, StopEnd
  <2>8. CASE UNCHANGED snapshotVars
    BY <2>3, <2>8 DEF snapshotVars
  <2> QED BY <2>1, <2>2, <2>4, <2>5, <2>6, <2>7, <2>8 DEF SnapshotNext
<1> QED BY <1>1, <1>2, SnapshotTypes, PTL DEF SnapshotSpec

(* A crash or a power loss, at any step of any save, leaves a snapshot that  *)
(* load() accepts, unless a flush or a sync of the save that wrote this very *)
(* file had failed, which perform_save() does not look at.                  *)
THEOREM CrashLeavesSnapshot == SnapshotSpec => []FileIntact
<1>1. FilesExplained => FileIntact
  BY DEF FilesExplained, Explained, FileIntact
<1> QED BY <1>1, FilesAreExplained, PTL

-----------------------------------------------------------------------------
(* What keeps confirmed snapshots: the store holds more than the file and    *)
(* than what was confirmed, a save in progress lies between them, and        *)
(* nothing of the process outlives it.                                      *)
Down  == spc \in {"down", "dead"}
Intact == file.held # Broken
Writing(p) == job[p] \in {"write", "rename"}

StoreAhead   == ~Down => saved \subseteq store /\ (Intact => file.held \subseteq store)
DumpAhead    == \A p \in Savers : Writing(p) =>
                  /\ saved \subseteq entries[p] /\ (Intact => file.held \subseteq entries[p])
                  /\ \A c \in Clients : cpc[c] = "reset" => entries[c] \subseteq entries[p]
DumpOfStore  == /\ \A p \in Savers : job[p] # "none" => entries[p] \subseteq store
                /\ \A c \in Clients : cpc[c] = "reset" => entries[c] \subseteq store
DoneIsInFile == /\ \A p \in Savers : job[p] = "done" /\ Intact => entries[p] \subseteq file.held
                /\ \A c \in Clients : cpc[c] = "reset" /\ Intact => entries[c] \subseteq file.held
NothingRuns  == Down => job = Idle /\ apc = "exit" /\ \A c \in Clients : cpc[c] = "idle"

KeepsSaved ==
  SavedStays /\ StoreAhead /\ DumpAhead /\ DumpOfStore /\ DoneIsInFile /\ NothingRuns

(* An invariant. *)
LEMMA SavedIsKept == SnapshotSpec => []KeepsSaved
<1>1. SnapshotInit => KeepsSaved
  BY DEF SnapshotInit, KeepsSaved, SavedStays, StoreAhead, DumpAhead, DumpOfStore, DoneIsInFile,
         NothingRuns, Down, Intact, Writing, Idle
<1>2. SnapshotTypeOK /\ OneSaver /\ SavingCovers /\ KeepsSaved
        /\ [SnapshotNext]_snapshotVars => KeepsSaved'
  <2> SUFFICES ASSUME SnapshotTypeOK, OneSaver, SavingCovers, KeepsSaved,
                      [SnapshotNext]_snapshotVars
               PROVE  KeepsSaved'
    OBVIOUS
  <2> USE ClientsAssumption
      DEF KeepsSaved, SavedStays, StoreAhead, DumpAhead, DumpOfStore, DoneIsInFile,
          NothingRuns, Down, Intact, Writing, data, disk, history, locks, work, bounds
  <2>0. /\ job \in [Savers -> {"none", "write", "rename", "done", "failed"}]
        /\ entries \in [Savers -> SUBSET Write]
        /\ cpc \in [Clients -> {"idle", "count", "save", "reset"}]
        /\ Clients \subseteq Savers /\ "thread" \in Savers \ Clients /\ "stop" \in Savers \ Clients
    BY DEF SnapshotTypeOK, Savers
  (* A dump of the running store. *)
  <2>a. ASSUME NEW p \in Savers, ~Down, ~saving, ~Down', UNCHANGED <<store, file, saved>>,
               job' = [job EXCEPT ![p] = "write"], entries' = [entries EXCEPT ![p] = store],
               \A c \in Clients : cpc'[c] = "reset" => cpc[c] = "reset" /\ c # p
        PROVE  KeepsSaved'
    <3>1. /\ \A q \in Savers : q # p => job'[q] = "none" /\ entries'[q] = entries[q]
          /\ job'[p] = "write" /\ entries'[p] = store
      BY <2>0, <2>a DEF SavingCovers
    <3>2. \A c \in Clients : cpc'[c] = "reset" =>
            /\ entries'[c] = entries[c] /\ entries[c] \subseteq store
            /\ Intact => entries[c] \subseteq file.held
      BY <2>0, <2>a, <3>1
    <3> QED BY <2>0, <2>a, <3>1, <3>2
  (* Steps that leave the saves alone. *)
  <2>b. ASSUME UNCHANGED <<file, saved, job, entries>>, store \subseteq store', ~Down, ~Down',
               \A c \in Clients : cpc'[c] = "reset" => cpc[c] = "reset"
        PROVE  KeepsSaved'
    BY <2>0, <2>b
  (* Steps of a save that leave the file alone. *)
  <2>c. ASSUME NEW p \in Savers, NEW s, s # "write", s # "done", job[p] # "none",
               s = "rename" => job[p] = "write", job' = [job EXCEPT ![p] = s],
               UNCHANGED <<store, file, saved, entries, cpc, spc>>
        PROVE  KeepsSaved'
    <3>1. ~Down
      BY <2>0, <2>c DEF Idle
    <3>2. \A q \in Savers : /\ job'[q] # "none" => job[q] # "none"
                            /\ job'[q] = "done" => job[q] = "done"
                            /\ Writing(q)' => Writing(q)
      BY <2>0, <2>c
    <3> QED BY <2>0, <2>c, <3>1, <3>2
  <2>1. CASE StartServer
    <3>1. /\ job = Idle /\ store' = Loaded /\ saved' = saved \cap Loaded /\ ~Down'
          /\ UNCHANGED <<file, job, entries, cpc>> /\ \A c \in Clients : cpc[c] = "idle"
      BY <2>1 DEF StartServer
    <3>2. \A p \in Savers : job'[p] = "none"
      BY <3>1 DEF Idle
    <3> QED BY <3>1, <3>2 DEF Loaded
  <2>2. ASSUME NEW c \in Clients, WriteCounted(c) \/ WriteSet(c) \/ CountSet(c)
        PROVE  KeepsSaved'
    <3>1. CASE WriteCounted(c)
      BY <2>b, <3>1 DEF WriteCounted
    <3>2. CASE WriteSet(c)
      BY <2>0, <2>b, <3>2 DEF WriteSet
    <3>3. CASE CountSet(c)
      BY <2>0, <2>b, <3>3 DEF CountSet
    <3> QED BY <2>2, <3>1, <3>2, <3>3
  <2>3. ASSUME NEW c \in Clients, SaveBegin(c) PROVE KeepsSaved'
    BY <2>0, <2>3, <2>a DEF SaveBegin
  <2>4. ASSUME NEW c \in Clients, SaveEnd(c) PROVE KeepsSaved'
    <3>1. /\ ~Down /\ UNCHANGED <<store, file, saved, entries, spc, apc>>
          /\ job[c] \in {"done", "failed"} /\ job'[c] = "none"
          /\ cpc'[c] = "reset" => job[c] = "done"
          /\ \A d \in Clients : d # c => cpc'[d] = cpc[d]
      BY <2>0, <2>4 DEF SaveEnd, Returned, Idle
    <3>2. \A q \in Savers : job'[q] = "none"
      BY <2>0, <2>4, <3>1 DEF SaveEnd, OneSaver
    <3> QED BY <2>0, <3>1, <3>2
  <2>5. ASSUME NEW c \in Clients, SaveReply(c) PROVE KeepsSaved'
    <3>1. /\ cpc[c] = "reset" /\ cpc' = [cpc EXCEPT ![c] = "idle"] /\ ~Down
          /\ saved' = saved \cup entries[c] /\ UNCHANGED <<store, file, job, entries, apc, spc>>
      BY <2>5 DEF SaveReply
    <3>2. \A d \in Clients : cpc'[d] = "reset" => cpc[d] = "reset"
      BY <2>0, <3>1
    <3> QED BY <3>1, <3>2
  <2>6. ASSUME NEW c \in Clients, BgSave(c) PROVE KeepsSaved'
    BY <2>0, <2>6, <2>a DEF BgSave, SpawnSave
  <2>7. ASSUME NEW p \in Savers, SaveWrite(p) PROVE KeepsSaved'
    BY <2>0, <2>7, <2>c DEF SaveWrite
  <2>8. ASSUME NEW p \in Savers, SaveRename(p) PROVE KeepsSaved'
    <3>1. ~Down
      BY <2>0, <2>8 DEF SaveRename, Idle
    <3>2. \A q \in Savers : q # p => job[q] = "none"
      BY <2>8 DEF SaveRename, OneSaver
    <3>3. CASE /\ file'.held \in {entries[p], Broken} /\ job' = [job EXCEPT ![p] = "done"]
               /\ UNCHANGED <<store, saved, entries, cpc, spc>>
      <4>1. \A q \in Savers : q # p => job'[q] = "none"
        BY <2>0, <3>2, <3>3
      <4>2. job'[p] = "done" /\ Writing(p)
        BY <2>0, <2>8, <3>3 DEF SaveRename
      <4> QED BY <2>0, <3>1, <3>3, <4>1, <4>2
    <3>4. CASE file' = file /\ job' = [job EXCEPT ![p] = "failed"]
      BY <2>0, <2>8, <2>c, <3>4 DEF SaveRename
    <3>5. \A flushed, synced \in BOOLEAN : Written(p, flushed, synced).held \in {entries[p], Broken}
      BY DEF Written
    <3> QED BY <2>8, <3>3, <3>4, <3>5 DEF SaveRename
  <2>9. CASE ThreadEnd
    BY <2>0, <2>9, <2>c DEF ThreadEnd, Returned
  <2>10. CASE AutoSpawn
    BY <2>0, <2>10, <2>a DEF AutoSpawn, SpawnSave
  <2>11. CASE AutoReset \/ AutoExit \/ StopBegin \/ StopShutdown
    BY <2>0, <2>11, <2>b DEF AutoReset, AutoExit, StopBegin, StopShutdown
  <2>12. CASE StopSave
    <3>1. CASE dirty > 0 /\ ~saving
      BY <2>0, <2>12, <2>a, <3>1 DEF StopSave
    <3>2. CASE ~(dirty > 0 /\ ~saving)
      BY <2>0, <2>12, <2>b, <3>2 DEF StopSave
    <3> QED BY <3>1, <3>2
  <2>13. CASE StopSaved
    <3>1. \A q \in Savers : job'[q] = "none"
      BY <2>0, <2>13 DEF StopSaved, Returned, OneSaver
    <3> QED BY <2>0, <2>13, <3>1 DEF StopSaved
  <2>14. CASE StopEnd \/ Crash
    <3>1. /\ job' = Idle /\ apc' = "exit" /\ Down'
          /\ cpc' = [c \in Clients |-> "idle"]
      BY <2>14 DEF StopEnd, Crash, ProcessGone
    <3>2. SavedStays'
      <4>1. \A f \in Copy : \A g \in OnDisk(f) : g.held \in {f.held, Broken}
        BY DiskCopy
      <4> QED BY <2>14, <4>1 DEF StopEnd, Crash, SnapshotTypeOK
    <3> QED BY <3>1, <3>2 DEF Idle
  <2>15. CASE UNCHANGED snapshotVars
    BY <2>15 DEF snapshotVars
  <2> QED BY <2>1, <2>2, <2>3, <2>4, <2>5, <2>6, <2>7, <2>8, <2>9, <2>10, <2>11,
             <2>12, <2>13, <2>14, <2>15 DEF SnapshotNext
<1> QED BY <1>1, <1>2, SnapshotTypes, OneSaverInvariant, PTL DEF SnapshotSpec

(* What one SAVE has confirmed is in every file that can be loaded, whoever  *)
(* saves afterwards, fails to, crashes or restarts; a power loss takes the   *)
(* last rename only.                                                        *)
THEOREM ConfirmedSavesStay == SnapshotSpec => []SavedStays
BY SavedIsKept, PTL DEF KeepsSaved

-----------------------------------------------------------------------------
(* Why Server::stop may trust the counter for everything but what a reset    *)
(* has forgotten: as long as no change is pending, the file, and what is     *)
(* about to replace it, lack nothing else.                                  *)
Pending == dirty > 0 \/ \E c \in Clients : cpc[c] = "count"

NothingElseLost ==
  /\ ~Down /\ ~Pending /\ Intact => store \subseteq file.held \cup forgotten
  /\ \A p \in Savers : Writing(p) /\ ~Pending => store \subseteq entries[p] \cup forgotten

(* An invariant. *)
LEMMA NothingElseIsLost == SnapshotSpec => []NothingElseLost
<1>1. SnapshotInit => NothingElseLost
  BY DEF SnapshotInit, NothingElseLost, Down, Writing, Idle
<1>2. SnapshotTypeOK /\ OneSaver /\ SavingCovers /\ KeepsSaved /\ NothingElseLost
        /\ [SnapshotNext]_snapshotVars => NothingElseLost'
  <2> SUFFICES ASSUME SnapshotTypeOK, OneSaver, SavingCovers, KeepsSaved, NothingElseLost,
                      [SnapshotNext]_snapshotVars
               PROVE  NothingElseLost'
    OBVIOUS
  <2> USE ClientsAssumption
      DEF NothingElseLost, Down, Intact, Writing, data, disk, history, locks, work, bounds
  <2>0. /\ job \in [Savers -> {"none", "write", "rename", "done", "failed"}]
        /\ entries \in [Savers -> SUBSET Write]
        /\ cpc \in [Clients -> {"idle", "count", "save", "reset"}] /\ dirty \in Nat
        /\ Clients \subseteq Savers /\ "thread" \in Savers \ Clients /\ "stop" \in Savers \ Clients
    BY DEF SnapshotTypeOK, Savers
  <2>d. Down => \A p \in Savers : job[p] = "none"
    BY DEF KeepsSaved, NothingRuns, Idle
  (* A dump of the running store. *)
  <2>a. ASSUME NEW p \in Savers, ~saving, UNCHANGED <<store, dirty, file, forgotten>>, ~Down,
               job' = [job EXCEPT ![p] = "write"], entries' = [entries EXCEPT ![p] = store],
               Pending' <=> Pending
        PROVE  NothingElseLost'
    <3>1. \A q \in Savers : q # p => job'[q] = "none"
      BY <2>0, <2>a DEF SavingCovers
    <3>2. entries'[p] = store
      BY <2>0, <2>a
    <3> QED BY <2>0, <2>a, <3>1, <3>2
  (* Nothing is begun, renamed or reset. *)
  <2>b. ASSUME UNCHANGED <<store, file, forgotten, entries>>, Pending => Pending',
               Down' => Down, Down => Down',
               \A p \in Savers : Writing(p)' => Writing(p)
        PROVE  NothingElseLost'
    BY <2>b
  (* A reset of the counter forgets what the file lacks. *)
  <2>c. ASSUME ResetDirty, ~Down, UNCHANGED <<store, file, job, entries>> PROVE NothingElseLost'
    <3>1. forgotten' = forgotten \cup (store \ file.held)
      BY <2>c DEF ResetDirty
    <3>2. \A p \in Savers : Writing(p) /\ Intact => file.held \subseteq entries[p]
      BY DEF KeepsSaved, DumpAhead
    <3>3. ~Intact => store \subseteq forgotten'
      BY <3>1, SnapshotBounds DEF Broken, Write, SnapshotTypeOK
    <3> QED BY <2>c, <3>1, <3>2, <3>3
  <2>1. CASE StartServer
    <3>1. /\ store' = Loaded /\ UNCHANGED <<file, job>> /\ Down
      BY <2>1 DEF StartServer
    <3> QED BY <2>d, <3>1 DEF Loaded
  <2>2. ASSUME NEW c \in Clients, WriteCounted(c) \/ WriteSet(c) \/ CountSet(c)
        PROVE  NothingElseLost'
    <3>1. Pending'
      BY <2>0, <2>2 DEF WriteCounted, WriteSet, CountSet, Pending
    <3> QED BY <3>1
  <2>3. ASSUME NEW c \in Clients, SaveBegin(c) PROVE NothingElseLost'
    <3>1. Pending' <=> Pending
      BY <2>0, <2>3 DEF SaveBegin, Pending
    <3> QED BY <2>0, <2>3, <2>a, <3>1 DEF SaveBegin
  <2>4. ASSUME NEW c \in Clients, SaveEnd(c) PROVE NothingElseLost'
    <3>1. Pending' <=> Pending
      BY <2>0, <2>4 DEF SaveEnd, Pending
    <3> QED BY <2>0, <2>4, <2>b, <3>1 DEF SaveEnd
  <2>5. ASSUME NEW c \in Clients, SaveReply(c) PROVE NothingElseLost'
    BY <2>5, <2>c DEF SaveReply, KeepsSaved, NothingRuns
  <2>6. ASSUME NEW c \in Clients, BgSave(c) PROVE NothingElseLost'
    BY <2>0, <2>6, <2>a DEF BgSave, SpawnSave, Pending
  <2>7. ASSUME NEW p \in Savers, SaveWrite(p) PROVE NothingElseLost'
    BY <2>0, <2>7, <2>b DEF SaveWrite, Pending
  <2>8. ASSUME NEW p \in Savers, SaveRename(p) PROVE NothingElseLost'
    <3>1. /\ UNCHANGED <<store, dirty, forgotten, entries, cpc, spc>> /\ Writing(p)
          /\ \A q \in Savers : Writing(q)' => Writing(q)
      BY <2>0, <2>8 DEF SaveRename
    <3>2. \A flushed, synced \in BOOLEAN : Written(p, flushed, synced).held \in {entries[p], Broken}
      BY DEF Written
    <3>3. file' = file \/ file'.held \in {entries[p], Broken}
      BY <2>8, <3>2 DEF SaveRename
    <3> QED BY <3>1, <3>3 DEF Pending
  <2>9. CASE ThreadEnd
    BY <2>0, <2>9, <2>b DEF ThreadEnd, Pending
  <2>10. CASE AutoSpawn
    BY <2>0, <2>10, <2>a DEF AutoSpawn, SpawnSave, Pending, KeepsSaved, NothingRuns
  <2>11. CASE AutoReset
    BY <2>11, <2>c DEF AutoReset, KeepsSaved, NothingRuns
  <2>12. CASE AutoExit \/ StopBegin \/ StopShutdown
    BY <2>0, <2>12, <2>b DEF AutoExit, StopBegin, StopShutdown, Pending
  <2>13. CASE StopSave
    <3>1. CASE dirty > 0 /\ ~saving
      BY <2>0, <2>13, <2>a, <3>1 DEF StopSave, Pending
    <3>2. CASE ~(dirty > 0 /\ ~saving)
      BY <2>0, <2>13, <2>b, <3>2 DEF StopSave, Pending
    <3> QED BY <3>1, <3>2
  <2>14. CASE StopSaved
    BY <2>0, <2>14, <2>b DEF StopSaved, Pending
  <2>15. CASE StopEnd \/ Crash
    <3>1. job' = Idle /\ Down'
      BY <2>15 DEF StopEnd, Crash, ProcessGone
    <3> QED BY <3>1 DEF Idle
  <2>16. CASE UNCHANGED snapshotVars
    BY <2>16 DEF snapshotVars, Pending
  <2> QED BY <2>1, <2>2, <2>3, <2>4, <2>5, <2>6, <2>7, <2>8, <2>9, <2>10, <2>11,
             <2>12, <2>13, <2>14, <2>15, <2>16 DEF SnapshotNext
<1> QED BY <1>1, <1>2, SnapshotTypes, OneSaverInvariant, SavedIsKept, PTL DEF SnapshotSpec

(* Server::stop: every worker thread and the auto-save thread have ended     *)
(* before the last save, which takes the store as it stays.                 *)
LastSave ==
  /\ spc \notin {"up", "down", "dead"} => \A c \in Clients : cpc[c] = "idle"
  /\ \A c \in Clients : job[c] # "none" => cpc[c] = "save"
  /\ spc \in {"join_thread", "save", "exit", "unsaved"} => apc = "exit"
  /\ spc \in {"save", "exit", "unsaved"} => job["thread"] = "none"
  /\ job["stop"] # "none" <=> spc = "save"
  /\ spc = "save" => entries["stop"] = store
  /\ job["stop"] = "done" => file.held \in {store, Broken}
  /\ StopSavesCounted

(* Whatever worker threads, auto-save and failures did before, a stop whose  *)
(* last save succeeds, or that finds nothing to save, leaves a file that     *)
(* lacks only the changes that a reset of the counter has forgotten, or one  *)
(* that the checksum rejects because of a failed flush.                     *)
THEOREM StopSavesCounts == SnapshotSpec => []StopSavesCounted
<1>1. SnapshotInit => LastSave
  BY DEF SnapshotInit, LastSave, StopSavesCounted, Idle, Savers
<1>2. SnapshotTypeOK /\ OneSaver /\ SavingCovers /\ KeepsSaved /\ NothingElseLost /\ LastSave
        /\ [SnapshotNext]_snapshotVars => LastSave'
  <2> SUFFICES ASSUME SnapshotTypeOK, OneSaver, SavingCovers, KeepsSaved, NothingElseLost,
                      LastSave, [SnapshotNext]_snapshotVars
               PROVE  LastSave'
    OBVIOUS
  <2> USE ClientsAssumption
      DEF LastSave, StopSavesCounted, data, disk, history, locks, work, bounds
  <2>0. /\ job \in [Savers -> {"none", "write", "rename", "done", "failed"}]
        /\ entries \in [Savers -> SUBSET Write]
        /\ cpc \in [Clients -> {"idle", "count", "save", "reset"}] /\ dirty \in Nat
        /\ Clients \subseteq Savers /\ "thread" \in Savers \ Clients /\ "stop" \in Savers \ Clients
        /\ Savers = Clients \cup {"thread", "stop"} /\ "thread" # "stop"
    BY DEF SnapshotTypeOK, Savers
  <2>d. spc \in {"down", "dead"} => /\ \A p \in Savers : job[p] = "none"
                                    /\ apc = "exit" /\ \A c \in Clients : cpc[c] = "idle"
    BY DEF KeepsSaved, NothingRuns, Down, Idle
  (* While commands are executed, only the worker threads' saves matter. *)
  <2>a. ASSUME spc = "up", spc' = "up", job'["stop"] = job["stop"],
               \A c \in Clients : job'[c] # "none" => cpc'[c] = "save"
        PROVE  LastSave'
    BY <2>a
  <2>1. CASE StartServer
    BY <2>0, <2>1, <2>d DEF StartServer
  <2>2. ASSUME NEW c \in Clients, WriteCounted(c) \/ WriteSet(c) PROVE LastSave'
    BY <2>0, <2>2, <2>a DEF WriteCounted, WriteSet
  <2>3. ASSUME NEW c \in Clients, CountSet(c) \/ SaveEnd(c) \/ SaveReply(c) PROVE LastSave'
    <3>1. spc = "up" /\ spc' = "up"
      BY <2>0, <2>3, <2>d DEF CountSet, SaveEnd, SaveReply, SnapshotTypeOK
    <3>2. CASE CountSet(c)
      BY <2>0, <2>a, <3>1, <3>2 DEF CountSet
    <3>3. CASE SaveEnd(c)
      BY <2>0, <2>a, <3>1, <3>3 DEF SaveEnd
    <3>4. CASE SaveReply(c)
      BY <2>0, <2>a, <3>1, <3>4 DEF SaveReply
    <3> QED BY <2>3, <3>2, <3>3, <3>4
  <2>4. ASSUME NEW c \in Clients, SaveBegin(c) \/ BgSave(c) PROVE LastSave'
    BY <2>0, <2>4, <2>a DEF SaveBegin, BgSave, SpawnSave
  <2>5. ASSUME NEW p \in Savers, SaveWrite(p) PROVE LastSave'
    <3>1. /\ UNCHANGED <<store, file, forgotten, entries, cpc, apc, spc>>
          /\ \A q \in Savers : /\ job'[q] # "none" <=> job[q] # "none"
                               /\ job'[q] = "done" => job[q] = "done"
      BY <2>0, <2>5 DEF SaveWrite
    <3> QED BY <2>0, <3>1
  <2>6. ASSUME NEW p \in Savers, SaveRename(p) PROVE LastSave'
    <3>1. /\ UNCHANGED <<store, forgotten, entries, cpc, apc, spc>> /\ job[p] = "rename"
          /\ \A q \in Savers : job'[q] # "none" <=> job[q] # "none"
      BY <2>0, <2>6 DEF SaveRename
    <3>2. \A flushed, synced \in BOOLEAN : Written(p, flushed, synced).held \in {entries[p], Broken}
      BY DEF Written
    <3>3. job'[p] = "done" => file'.held \in {entries[p], Broken}
      BY <2>0, <2>6, <3>2 DEF SaveRename
    <3>4. spc # "exit"
      BY <2>0, <3>1
    <3>5. job'["stop"] = "done" => file'.held \in {store, Broken}
      <4>1. CASE p = "stop"
        BY <2>0, <3>1, <3>3, <4>1
      <4>2. CASE p # "stop"
        BY <2>0, <2>6, <3>1, <4>2 DEF OneSaver, SaveRename
      <4> QED BY <4>1, <4>2
    <3> QED BY <2>0, <3>1, <3>4, <3>5
  <2>7. CASE ThreadEnd
    BY <2>0, <2>7 DEF ThreadEnd, Returned
  <2>8. CASE AutoSpawn
    BY <2>0, <2>8, <2>d DEF AutoSpawn, SpawnSave, SavingCovers
  <2>9. CASE AutoReset
    BY <2>0, <2>9 DEF AutoReset, ResetDirty
  <2>10. CASE AutoExit \/ StopBegin \/ StopShutdown
    BY <2>0, <2>10 DEF AutoExit, StopBegin, StopShutdown
  <2>11. CASE StopSave
    <3>1. CASE dirty > 0 /\ ~saving
      BY <2>0, <2>11, <3>1 DEF StopSave
    <3>2. CASE dirty > 0 /\ saving
      BY <2>0, <2>11, <3>2 DEF StopSave
    <3>3. CASE dirty = 0
      <4>1. ~Pending
        BY <2>0, <2>11, <3>3 DEF StopSave, Pending
      <4>2. file.held # Broken => store \subseteq file.held \cup forgotten
        BY <2>11, <4>1 DEF StopSave, NothingElseLost, Down, Intact
      <4> QED BY <2>0, <2>11, <3>3, <4>2 DEF StopSave
    <3> QED BY <2>0, <3>1, <3>2, <3>3
  <2>12. CASE StopSaved
    BY <2>0, <2>12 DEF StopSaved, Returned
  <2>13. CASE StopEnd \/ Crash
    <3>1. /\ job' = Idle /\ apc' = "exit" /\ spc' \in {"down", "dead"}
          /\ cpc' = [d \in Clients |-> "idle"]
      BY <2>13 DEF StopEnd, Crash, ProcessGone
    <3> QED BY <2>0, <3>1 DEF Idle
  <2>14. CASE UNCHANGED snapshotVars
    BY <2>14 DEF snapshotVars
  <2> QED BY <2>1, <2>2, <2>3, <2>4, <2>5, <2>6, <2>7, <2>8, <2>9, <2>10, <2>11,
             <2>12, <2>13, <2>14 DEF SnapshotNext
<1>3. LastSave => StopSavesCounted
  BY DEF LastSave
<1> QED BY <1>1, <1>2, <1>3, SnapshotTypes, OneSaverInvariant, SavedIsKept, NothingElseIsLost,
           PTL DEF SnapshotSpec
=============================================================================
