-------------------------- MODULE ShardLocksProofs --------------------------
(***************************************************************************)
(* No wait of threads on each other, and the implementation of the atomic  *)
(* keyspace, for any number of threads, keys, shards and requests.         *)
(***************************************************************************)
EXTENDS ShardLocks, WellFoundedInduction, TLAPS

(***************************************************************************)
(* Sets of numbers.                                                        *)
(***************************************************************************)

\* A set of natural numbers has a smallest element.
LEMMA Smallest ==
  ASSUME NEW S \in SUBSET Nat, S # {}
  PROVE  \E n \in S : \A m \in S : n <= m
<1> DEFINE L == {ss \in Nat \X Nat : ss[1] < ss[2]}
<1>1. IsWellFoundedOn(L, Nat)
  BY NatLessThanWellFounded, Zenon DEF OpToRel
<1>2. \E n \in S : \A m \in S : ~(<<m, n>> \in L)
  <2> HIDE DEF L
  <2> QED BY <1>1, WFMin
<1>3. ASSUME NEW m \in Nat, NEW n \in Nat, ~(<<m, n>> \in L)
      PROVE  n <= m
  <2> SUFFICES ASSUME m < n PROVE FALSE
    OBVIOUS
  <2> <<m, n>> \in Nat \X Nat /\ <<m, n>>[1] = m /\ <<m, n>>[2] = n
    OBVIOUS
  <2> QED BY <1>3
<1> HIDE DEF L
<1>4. QED
  BY <1>2, <1>3

\* A bounded one has a largest element.
LEMMA Largest ==
  ASSUME NEW b \in Nat, NEW S \in SUBSET Nat, S # {}, \A n \in S : n <= b
  PROVE  \E n \in S : \A m \in S : m <= n
<1> DEFINE R == {r \in Nat : \E n \in S : r = b - n}
<1>1. R # {}
  <2>1. PICK n \in S : TRUE
    OBVIOUS
  <2>2. b - n \in R
    BY <2>1
  <2> QED BY <2>2
<1>2. PICK r \in R : \A q \in R : r <= q
  <2> HIDE DEF R
  <2>1. R \in SUBSET Nat
    BY DEF R
  <2> QED BY <1>1, <2>1, Smallest
<1>3. PICK n \in S : r = b - n
  OBVIOUS
<1>4. ASSUME NEW m \in S PROVE m <= n
  <2>1. b - m \in R
    OBVIOUS
  <2>2. b - n <= b - m
    BY <1>2, <1>3, <2>1
  <2> QED BY <2>2
<1> QED BY <1>4
-----------------------------------------------------------------------------
(***************************************************************************)
(* Sections.                                                               *)
(***************************************************************************)

IsLast(sec, a, b, k, i) ==
  /\ i \in a .. b
  /\ sec.steps[i].key = k
  /\ \A j \in a .. b : sec.steps[j].key = k => j <= i

\* An access that touches k has a last one.
LEMMA LastAccessIs ==
  ASSUME NEW sec, NEW a \in Nat, NEW b \in Nat, NEW k, Touches(sec, a, b, k)
  PROVE  IsLast(sec, a, b, k, LastAccess(sec, a, b, k))
<1> DEFINE S == {i \in a .. b : sec.steps[i].key = k}
<1>1. S \in SUBSET Nat /\ S # {} /\ \A n \in S : n <= b
  BY DEF Touches
<1>2. PICK n \in S : \A m \in S : m <= n
  <2> HIDE DEF S
  <2> QED BY <1>1, Largest
<1>3. IsLast(sec, a, b, k, n)
  BY <1>2 DEF IsLast
<1>4. LastAccess(sec, a, b, k) = CHOOSE i \in a .. b : IsLast(sec, a, b, k, i)
  BY DEF LastAccess, IsLast
<1>5. n \in a .. b
  BY <1>2
<1> QED BY <1>3, <1>4, <1>5

\* It is the only one.
LEMMA LastAccessUnique ==
  ASSUME NEW sec, NEW a \in Nat, NEW b \in Nat, NEW k, NEW i, IsLast(sec, a, b, k, i)
  PROVE  Touches(sec, a, b, k) /\ LastAccess(sec, a, b, k) = i
<1>1. Touches(sec, a, b, k)
  BY DEF Touches, IsLast
<1>2. IsLast(sec, a, b, k, LastAccess(sec, a, b, k))
  BY <1>1, LastAccessIs
<1>3. LastAccess(sec, a, b, k) <= i /\ i <= LastAccess(sec, a, b, k)
        /\ LastAccess(sec, a, b, k) \in a .. b /\ i \in a .. b
  BY <1>2 DEF IsLast
<1> QED BY <1>1, <1>3

\* m1 is m after the access i of a section.
Written(m, m1, sec, i) ==
  \A k \in Key : m1[k] = IF sec.steps[i].key = k THEN sec.steps[i].put ELSE m[k]

\* The accesses a .. b are the access a and then the accesses a+1 .. b.
LEMMA AfterFirst ==
  ASSUME NEW sec, NEW m, NEW a \in Nat, NEW b \in Nat, a <= b, sec.writes,
         NEW m1, Written(m, m1, sec, a), NEW c, c = a + 1
  PROVE  After(m1, sec, c, b) = After(m, sec, a, b)
<1> SUFFICES ASSUME NEW k \in Key
             PROVE  After(m1, sec, a + 1, b)[k] = After(m, sec, a, b)[k]
  BY DEF After
<1>1. CASE Touches(sec, a + 1, b, k)
  <2> DEFINE i == LastAccess(sec, a + 1, b, k)
  <2>1. IsLast(sec, a + 1, b, k, i)
    BY <1>1, LastAccessIs
  <2> HIDE DEF i
  <2>2. IsLast(sec, a, b, k, i)
    BY <2>1 DEF IsLast
  <2>3. Touches(sec, a, b, k) /\ LastAccess(sec, a, b, k) = i
    BY <2>2, LastAccessUnique
  <2>4. After(m, sec, a, b)[k] = sec.steps[i].put
    BY <2>3 DEF After
  <2>5. After(m1, sec, a + 1, b)[k] = sec.steps[i].put
    BY <1>1 DEF After, i
  <2> QED BY <2>4, <2>5
<1>2. CASE ~Touches(sec, a + 1, b, k)
  <2>1. After(m1, sec, a + 1, b)[k] = m1[k]
    BY <1>2 DEF After
  <2>2. \A j \in a + 1 .. b : sec.steps[j].key # k
    BY <1>2 DEF Touches
  <2>3. CASE sec.steps[a].key = k
    <3>1. IsLast(sec, a, b, k, a)
      BY <2>2, <2>3 DEF IsLast
    <3>2. Touches(sec, a, b, k) /\ LastAccess(sec, a, b, k) = a
      BY <3>1, LastAccessUnique
    <3>3. After(m, sec, a, b)[k] = sec.steps[a].put
      BY <3>2 DEF After
    <3>4. m1[k] = sec.steps[a].put
      BY <2>3 DEF Written
    <3> QED BY <2>1, <3>3, <3>4
  <2>4. CASE sec.steps[a].key # k
    <3>1. ~Touches(sec, a, b, k)
      BY <2>2, <2>4 DEF Touches
    <3>2. After(m, sec, a, b)[k] = m[k]
      BY <3>1 DEF After
    <3>3. m1[k] = m[k]
      BY <2>4 DEF Written
    <3> QED BY <2>1, <3>2, <3>3
  <2> QED BY <2>3, <2>4
<1> QED BY <1>1, <1>2

\* A section leaves a value at every key.
LEMMA AfterType ==
  ASSUME NEW sec \in Section, NEW m \in [Key -> Value],
         NEW a \in Nat \ {0}, NEW b \in 0 .. Len(sec.steps)
  PROVE  After(m, sec, a, b) \in [Key -> Value]
<1> SUFFICES ASSUME NEW k \in Key
             PROVE  After(m, sec, a, b)[k] \in Value
  BY DEF After
<1>1. CASE sec.writes /\ Touches(sec, a, b, k)
  <2> DEFINE i == LastAccess(sec, a, b, k)
  <2>1. Len(sec.steps) \in Nat /\ sec.steps \in Seq(Accesses)
    BY DEF Section
  <2>2. a \in Nat /\ b \in Nat /\ b <= Len(sec.steps)
    BY <2>1
  <2>3. IsLast(sec, a, b, k, i)
    BY <1>1, <2>2, LastAccessIs
  <2>4. After(m, sec, a, b)[k] = sec.steps[i].put
    BY <1>1 DEF After
  <2> HIDE DEF i
  <2>5. i \in 1 .. Len(sec.steps)
    BY <2>1, <2>2, <2>3 DEF IsLast
  <2>6. sec.steps[i] \in Accesses
    BY <2>1, <2>5
  <2> QED BY <2>4, <2>6 DEF Accesses
<1>2. CASE ~(sec.writes /\ Touches(sec, a, b, k))
  BY <1>2 DEF After
<1> QED BY <1>1, <1>2
-----------------------------------------------------------------------------
(***************************************************************************)
(* The discipline of the locks.                                            *)
(***************************************************************************)

\* What a thread wants, holds and has seen in each phase: while it locks, what
\* it holds lies below what it wants; while it runs, it holds every shard of
\* its section until it has been through all of its accesses.
Disciplined(t) ==
  /\ phase[t] = "idle" => want[t] = {} /\ held[t] = {} /\ seen[t] = <<>>
  /\ phase[t] # "idle" => Active(t)
  /\ phase[t] = "locking" => /\ seen[t] = <<>>
                             /\ want[t] # {}
                             /\ want[t] \cup held[t] = Shards(Current(t))
                             /\ \A s \in held[t], r \in want[t] : s < r
  /\ phase[t] = "running" => /\ want[t] = {}
                             /\ held[t] # {}
                             /\ Len(seen[t]) <= Len(Current(t).steps)
                             /\ ~Complete(t) => held[t] = Shards(Current(t))

\* A writer shares no shard.
Exclusive ==
  \A t, u \in Thread : \A s \in Shard :
    t # u /\ s \in held[t] /\ s \in held[u] => ~Current(t).writes

LockInv == TypeOK /\ (\A t \in Thread : Disciplined(t)) /\ Exclusive

LEMMA InitLockInv == Init => LockInv
BY MaxCallsAssumption DEF Init, LockInv, TypeOK, Disciplined, Exclusive

\* The section that an active thread is at.
LEMMA CurrentType ==
  ASSUME TypeOK, NEW t \in Thread, Active(t)
  PROVE  /\ Current(t) \in Section
         /\ Len(Current(t).steps) \in Nat \ {0}
         /\ Shards(Current(t)) \in SUBSET Shard
         /\ Shards(Current(t)) # {}
         /\ \A i \in 1 .. Len(Current(t).steps) :
              /\ Current(t).steps[i] \in Accesses
              /\ ShardOf[Current(t).steps[i].key] \in Shards(Current(t))
<1>1. request[t] \in Request
  <2>1. request[t] # <<>>
    BY DEF TypeOK, Active
  <2> QED BY <2>1 DEF TypeOK
<1>2. request[t] \in Seq(Section) /\ \A i \in 1 .. Len(request[t]) : request[t][i].steps # <<>>
  BY <1>1, RequestAssumption
<1>3. Len(answers[t]) + 1 \in 1 .. Len(request[t])
  BY <1>2 DEF TypeOK, Active
<1>4. Current(t) \in Section /\ Current(t).steps # <<>>
  BY <1>2, <1>3 DEF Current
<1>5. Current(t).steps \in Seq(Accesses)
  BY <1>4 DEF Section
<1> HIDE DEF Current
<1>6. Len(Current(t).steps) \in Nat \ {0}
  BY <1>4, <1>5
<1>7. \A i \in 1 .. Len(Current(t).steps) : Current(t).steps[i] \in Accesses
  BY <1>5
<1>8. \A i \in 1 .. Len(Current(t).steps) : ShardOf[Current(t).steps[i].key] \in Shard
  BY <1>7, ShardOfAssumption DEF Accesses
<1>9. 1 \in 1 .. Len(Current(t).steps)
  BY <1>6
<1> QED
  BY <1>4, <1>6, <1>7, <1>8, <1>9 DEF Shards

LEMMA AppendType ==
  ASSUME NEW S, NEW q \in Seq(S), NEW e \in S
  PROVE  Append(q, e) \in Seq(S)
OBVIOUS

\* A step of another thread that leaves t's own state alone leaves t disciplined.
LEMMA OthersDisciplined ==
  ASSUME NEW t \in Thread, Disciplined(t),
         request'[t] = request[t], answers'[t] = answers[t], phase'[t] = phase[t],
         want'[t] = want[t], held'[t] = held[t], seen'[t] = seen[t]
  PROVE  Disciplined(t)'
<1>1. Active(t)' = Active(t) /\ Current(t)' = Current(t) /\ Complete(t)' = Complete(t)
  BY DEF Active, Current, Complete
<1> QED BY <1>1 DEF Disciplined

LEMMA CallKeeps == ASSUME LockInv, NEW t \in Thread, Call(t) PROVE LockInv'
<1> USE DEF LockInv, Call
<1>1. TypeOK'
  <2>1. calls' \in [Thread -> 0 .. MaxCalls]
    BY MaxCallsAssumption DEF TypeOK
  <2>2. request' \in [Thread -> Request \cup {<<>>}]
    BY DEF TypeOK
  <2>3. answers' \in [Thread -> Seq(Seq(Value))]
    BY DEF TypeOK
  <2> QED BY <2>1, <2>2, <2>3 DEF TypeOK
<1>2. Disciplined(t)'
  BY DEF TypeOK, Disciplined, Active
<1>3. ASSUME NEW u \in Thread, u # t PROVE Disciplined(u)'
  BY <1>3, OthersDisciplined DEF TypeOK
<1>4. Exclusive'
  <2> SUFFICES ASSUME NEW u \in Thread, NEW w \in Thread, NEW s \in Shard, u # w,
                      s \in held[u], s \in held[w]
               PROVE  ~Current(u)'.writes
    BY DEF Exclusive
  <2>1. u # t
    BY DEF Disciplined
  <2>2. Current(u)' = Current(u)
    BY <2>1 DEF TypeOK, Current
  <2> QED BY <2>2 DEF Exclusive
<1> QED BY <1>1, <1>2, <1>3, <1>4

LEMMA BeginKeeps == ASSUME LockInv, NEW t \in Thread, Begin(t) PROVE LockInv'
<1> USE DEF LockInv, Begin
<1>0. \A u \in Thread : Current(u)' = Current(u) /\ Active(u)' = Active(u)
  BY DEF Current, Active
<1>1. TypeOK'
  BY CurrentType DEF TypeOK
<1>2. Disciplined(t)'
  <2>1. want'[t] = Shards(Current(t)) /\ phase'[t] = "locking"
    BY DEF TypeOK
  <2>2. held'[t] = {} /\ seen'[t] = <<>>
    BY DEF Disciplined
  <2> QED BY <1>0, <2>1, <2>2, CurrentType DEF Disciplined
<1>3. ASSUME NEW u \in Thread, u # t PROVE Disciplined(u)'
  BY <1>3, OthersDisciplined DEF TypeOK
<1>4. Exclusive'
  BY <1>0 DEF Exclusive
<1> QED BY <1>1, <1>2, <1>3, <1>4

LEMMA LockKeeps == ASSUME LockInv, NEW t \in Thread, Lock(t) PROVE LockInv'
<1> USE DEF LockInv, Lock
<1>0. \A u \in Thread : Current(u)' = Current(u) /\ Active(u)' = Active(u)
  BY DEF Current, Active
<1>1. PICK s \in want[t] :
        /\ NextShard(t, s)
        /\ \A u \in Thread : ~Holds(u, t, s)
        /\ want' = [want EXCEPT ![t] = @ \ {s}]
        /\ held' = [held EXCEPT ![t] = @ \cup {s}]
        /\ phase' = [phase EXCEPT ![t] = IF want[t] = {s} THEN "running" ELSE @]
  OBVIOUS
<1>2. s \in Shard /\ want[t] \subseteq Shard
  BY DEF TypeOK
<1>3. TypeOK'
  BY <1>1, <1>2 DEF TypeOK
<1>4. Disciplined(t)'
  <2>1. want'[t] = want[t] \ {s} /\ held'[t] = held[t] \cup {s} /\ seen'[t] = <<>>
    BY <1>1 DEF TypeOK, Disciplined
  <2>2. Active(t) /\ Len(Current(t).steps) \in Nat \ {0}
    BY CurrentType DEF Disciplined
  <2>3. want'[t] \cup held'[t] = Shards(Current(t))
    BY <2>1 DEF Disciplined
  <2>4. CASE want[t] = {s}
    <3>1. phase'[t] = "running" /\ want'[t] = {}
      BY <1>1, <2>1, <2>4 DEF TypeOK
    <3>2. Len(seen'[t]) <= Len(Current(t).steps)
      BY <2>1, <2>2
    <3>3. held'[t] # {} /\ held'[t] = Shards(Current(t))
      BY <2>1, <2>3, <3>1
    <3>4. Current(t)' = Current(t) /\ Active(t)'
      BY <1>0, <2>2
    <3> HIDE DEF LockInv, Lock
    <3> QED BY <3>1, <3>2, <3>3, <3>4 DEF Disciplined
  <2>5. CASE want[t] # {s}
    <3>1. phase'[t] = "locking" /\ want'[t] # {}
      BY <1>1, <2>1, <2>5 DEF TypeOK
    <3>2. \A r \in want'[t] : r \in Nat /\ s \in Nat /\ s <= r /\ r # s
      BY <1>1, <1>2, <2>1, NShardsAssumption DEF NextShard, Shard
    <3>3. \A q \in held'[t], r \in want'[t] : q < r
      BY <2>1, <3>2 DEF Disciplined
    <3> QED BY <1>0, <2>1, <2>2, <2>3, <3>1, <3>3 DEF Disciplined
  <2> QED BY <2>4, <2>5
<1>5. ASSUME NEW u \in Thread, u # t PROVE Disciplined(u)'
  BY <1>1, <1>5, OthersDisciplined DEF TypeOK
<1>6. Exclusive'
  <2> SUFFICES ASSUME NEW u \in Thread, NEW w \in Thread, NEW q \in Shard, u # w,
                      q \in held'[u], q \in held'[w]
               PROVE  ~Current(u).writes
    BY <1>0 DEF Exclusive
  <2>1. CASE q \in held[u] /\ q \in held[w]
    BY <2>1 DEF Exclusive
  <2>2. CASE q \notin held[u]
    <3>1. u = t /\ q = s /\ q \in held[w]
      BY <1>1, <2>2 DEF TypeOK
    <3> QED BY <1>1, <3>1 DEF Holds
  <2>3. CASE q \notin held[w]
    <3>1. w = t /\ q = s /\ q \in held[u]
      BY <1>1, <2>3 DEF TypeOK
    <3> QED BY <1>1, <3>1 DEF Holds
  <2> QED BY <2>1, <2>2, <2>3
<1> QED BY <1>3, <1>4, <1>5, <1>6

LEMMA AccessKeeps == ASSUME LockInv, NEW t \in Thread, Access(t) PROVE LockInv'
<1> USE DEF LockInv, Access
<1>0. \A u \in Thread : Current(u)' = Current(u) /\ Active(u)' = Active(u)
  BY DEF Current, Active
<1> DEFINE n == Len(seen[t])
           step == Current(t).steps[n + 1]
<1>1. n \in Nat /\ n <= Len(Current(t).steps) /\ n # Len(Current(t).steps)
        /\ Len(Current(t).steps) \in Nat
  BY CurrentType DEF TypeOK, Disciplined, Complete
<1>2. n + 1 \in 1 .. Len(Current(t).steps)
  BY <1>1
<1>3. step.key \in Key /\ step.put \in Value
  BY <1>2, CurrentType DEF Disciplined, Accesses
<1>4. store[step.key] \in Value
  BY <1>3 DEF TypeOK
<1>5. TypeOK'
  <2>1. store' \in [Key -> Value]
    BY <1>3 DEF TypeOK
  <2>2. seen' \in [Thread -> Seq(Value)]
    BY <1>4 DEF TypeOK
  <2> QED BY <2>1, <2>2 DEF TypeOK
<1>6. Disciplined(t)'
  <2>1. seen'[t] = Append(seen[t], store[step.key]) /\ Len(seen'[t]) = n + 1
    BY <1>4 DEF TypeOK
  <2>2. held[t] = Shards(Current(t))
    BY DEF Disciplined
  <2> QED BY <1>0, <1>1, <2>1, <2>2 DEF Disciplined
<1>7. ASSUME NEW u \in Thread, u # t PROVE Disciplined(u)'
  BY <1>7, OthersDisciplined DEF TypeOK
<1>8. Exclusive'
  BY <1>0 DEF Exclusive
<1> QED BY <1>5, <1>6, <1>7, <1>8

LEMMA UnlockKeeps == ASSUME LockInv, NEW t \in Thread, Unlock(t) PROVE LockInv'
<1> USE DEF LockInv, Unlock
<1>1. PICK s \in held[t] :
        /\ held' = [held EXCEPT ![t] = @ \ {s}]
        /\ IF held[t] = {s}
           THEN /\ phase' = [phase EXCEPT ![t] = "idle"]
                /\ answers' = [answers EXCEPT ![t] = Append(@, seen[t])]
                /\ seen' = [seen EXCEPT ![t] = <<>>]
           ELSE UNCHANGED <<phase, answers, seen>>
  OBVIOUS
<1>2. TypeOK'
  <2>1. held' \in [Thread -> SUBSET Shard]
    BY <1>1 DEF TypeOK
  <2>2. CASE held[t] = {s}
    <3>1. seen[t] \in Seq(Value) /\ answers[t] \in Seq(Seq(Value))
      BY DEF TypeOK
    <3>2. Append(answers[t], seen[t]) \in Seq(Seq(Value))
      BY <3>1, AppendType
    <3>3. answers' \in [Thread -> Seq(Seq(Value))]
      BY <1>1, <2>2, <3>2 DEF TypeOK
    <3>4. phase' \in [Thread -> {"idle", "locking", "running"}]
      BY <1>1, <2>2 DEF TypeOK
    <3>5. seen' \in [Thread -> Seq(Value)]
      <4>1. <<>> \in Seq(Value)
        OBVIOUS
      <4>2. seen' = [seen EXCEPT ![t] = <<>>] /\ seen \in [Thread -> Seq(Value)]
        BY <1>1, <2>2 DEF TypeOK
      <4> QED BY <4>1, <4>2
    <3> QED BY <2>1, <3>3, <3>4, <3>5 DEF TypeOK
  <2>3. CASE held[t] # {s}
    BY <1>1, <2>1, <2>3 DEF TypeOK
  <2> QED BY <2>2, <2>3
<1>3. Disciplined(t)'
  <2>1. held'[t] = held[t] \ {s} /\ want'[t] = {}
    BY <1>1 DEF TypeOK, Disciplined
  <2>2. CASE held[t] = {s}
    BY <1>1, <2>1, <2>2 DEF TypeOK, Disciplined
  <2>3. CASE held[t] # {s}
    <3>1. held'[t] # {}
      BY <2>1, <2>3
    <3>2. Active(t)' = Active(t) /\ Current(t)' = Current(t) /\ Complete(t)' = Complete(t)
            /\ phase'[t] = phase[t] /\ seen'[t] = seen[t]
      BY <1>1, <2>3 DEF Active, Current, Complete
    <3> QED BY <2>1, <3>1, <3>2 DEF Disciplined
  <2> QED BY <2>2, <2>3
<1>4. ASSUME NEW u \in Thread, u # t
      PROVE  Disciplined(u)' /\ Current(u)' = Current(u) /\ held'[u] = held[u]
  <2>1. request'[u] = request[u] /\ answers'[u] = answers[u] /\ phase'[u] = phase[u]
          /\ want'[u] = want[u] /\ held'[u] = held[u] /\ seen'[u] = seen[u]
    BY <1>1, <1>4 DEF TypeOK
  <2> QED BY <2>1, OthersDisciplined DEF Current
<1>5. Exclusive'
  <2> SUFFICES ASSUME NEW u \in Thread, NEW w \in Thread, NEW q \in Shard, u # w,
                      q \in held'[u], q \in held'[w]
               PROVE  ~Current(u)'.writes
    BY DEF Exclusive
  <2>1. q \in held[u] /\ q \in held[w]
    BY <1>1 DEF TypeOK
  <2>2. Current(u)' = Current(u)
    <3>1. CASE u = t
      <4>1. held[t] # {s}
        BY <1>1, <3>1 DEF TypeOK
      <4> QED BY <1>1, <4>1 DEF Current
    <3> QED BY <1>4, <3>1
  <2> QED BY <2>1, <2>2 DEF Exclusive
<1> QED BY <1>2, <1>3, <1>4, <1>5

LEMMA StutterKeeps == ASSUME LockInv, UNCHANGED vars PROVE LockInv'
<1>1. \A t \in Thread : Disciplined(t)'
  BY OthersDisciplined DEF LockInv, vars
<1>2. TypeOK' /\ Exclusive'
  BY DEF LockInv, vars, TypeOK, Exclusive, Current
<1> QED BY <1>1, <1>2 DEF LockInv

LEMMA NextLockInv == LockInv /\ [Next]_vars => LockInv'
<1> SUFFICES ASSUME LockInv, [Next]_vars PROVE LockInv'
  OBVIOUS
<1>1. CASE UNCHANGED vars
  BY <1>1, StutterKeeps
<1>2. ASSUME NEW t \in Thread, Step(t) PROVE LockInv'
  BY <1>2, CallKeeps, BeginKeeps, LockKeeps, AccessKeeps, UnlockKeeps DEF Step
<1> QED
  BY <1>1, <1>2 DEF Next, Finished

\* The shards a thread holds are of its section and rank below what it still
\* wants, and the locks of a shard are compatible.
THEOREM LockDiscipline == Spec => []LockInv
<1>1. QED
  BY InitLockInv, NextLockInv, PTL DEF Spec

\* Types are correct.
THEOREM LockTypes == Spec => []TypeOK
<1>1. LockInv => TypeOK
  BY DEF LockInv
<1>2. QED
  BY LockDiscipline, <1>1, PTL
-----------------------------------------------------------------------------
(***************************************************************************)
(* No thread waits in a circle.                                            *)
(***************************************************************************)

\* How far a waiting thread has come in the order of the locks; a writer counts
\* as further than a reader that waits for the same lock.
Rank(t, s) == 2 * s + (IF Current(t).writes THEN 1 ELSE 0)

\* Whoever keeps a thread waiting, and waits itself, has come further.
LEMMA WaitsForFurther ==
  ASSUME LockInv, NEW t \in Thread, NEW u \in Thread, NEW s \in Shard, NEW r \in Shard,
         phase[u] = "locking", NextShard(t, s), NextShard(u, r),
         Holds(u, t, s) \/ Precedes(u, t, s)
  PROVE  Rank(t, s) < Rank(u, r)
<1>1. s \in Nat /\ r \in Nat
  BY NShardsAssumption DEF Shard
<1>2. CASE Holds(u, t, s)
  <2>1. s < r
    BY <1>2 DEF Holds, LockInv, Disciplined, NextShard
  <2> QED BY <1>1, <2>1 DEF Rank
<1>3. CASE Precedes(u, t, s)
  <2>1. s <= r /\ r <= s
    BY <1>3 DEF Precedes, NextShard
  <2>2. Current(u).writes /\ ~Current(t).writes
    BY <1>3 DEF Precedes
  <2> QED BY <1>1, <2>1, <2>2 DEF Rank
<1> QED BY <1>2, <1>3

LEMMA LockInvNoCycle == LockInv => NoWaitCycle
<1> SUFFICES ASSUME LockInv, NEW S \in SUBSET Thread, S # {},
                    \A t \in S : \E u \in S : WaitsFor(t, u)
             PROVE  FALSE
  BY DEF NoWaitCycle
<1> DEFINE R == {n \in Nat : \E t \in S, s \in Shard :
                               phase[t] = "locking" /\ NextShard(t, s) /\ n = Rank(t, s)}
<1>1. \A t \in Thread, s \in Shard : Rank(t, s) \in Nat /\ Rank(t, s) <= 2 * NShards + 1
  BY NShardsAssumption DEF Rank, Shard
<1>2. R # {}
  <2>1. PICK t \in S : TRUE
    OBVIOUS
  <2>2. PICK s \in Shard : phase[t] = "locking" /\ NextShard(t, s)
    BY DEF WaitsFor
  <2>3. Rank(t, s) \in R
    BY <1>1, <2>2
  <2> QED BY <2>3
<1>3. PICK n \in R : \A m \in R : m <= n
  <2>1. R \in SUBSET Nat /\ \A m \in R : m <= 2 * NShards + 1
    BY <1>1
  <2>2. 2 * NShards + 1 \in Nat
    BY NShardsAssumption
  <2> HIDE DEF R
  <2> QED BY <1>2, <2>1, <2>2, Largest
<1>4. PICK t \in S, s \in Shard : phase[t] = "locking" /\ NextShard(t, s) /\ n = Rank(t, s)
  BY <1>3
<1>5. PICK u \in S : WaitsFor(t, u)
  OBVIOUS
<1>6. PICK q \in Shard : NextShard(t, q) /\ (Holds(u, t, q) \/ Precedes(u, t, q))
  BY <1>5 DEF WaitsFor
<1>7. q = s
  <2>1. q \in Nat /\ s \in Nat
    BY NShardsAssumption DEF Shard
  <2> QED BY <1>4, <1>6, <2>1 DEF NextShard
<1>8. PICK r \in Shard : phase[u] = "locking" /\ NextShard(u, r)
  BY DEF WaitsFor
<1>9. Rank(t, s) < Rank(u, r)
  BY <1>4, <1>6, <1>7, <1>8, WaitsForFurther
<1>10. Rank(u, r) \in R
  BY <1>1, <1>8
<1> QED
  BY <1>1, <1>3, <1>4, <1>9, <1>10

\* No set of threads waits on itself, in whatever order the requests name
\* their keys and whether or not a lock prefers writers.
THEOREM NoDeadlock == Spec => []NoWaitCycle
<1>1. QED
  BY LockDiscipline, LockInvNoCycle, PTL
-----------------------------------------------------------------------------
(***************************************************************************)
(* Every section takes effect in one step.                                 *)
(***************************************************************************)

\* A thread with accesses to come holds every shard of its section.
LEMMA HoldsShards ==
  ASSUME LockInv, NEW t \in Thread, phase[t] = "running", NEW k \in Key,
         Touches(Current(t), Len(seen[t]) + 1, Len(Current(t).steps), k)
  PROVE  ShardOf[k] \in held[t] /\ ShardOf[k] \in Shard
<1>1. PICK i \in Len(seen[t]) + 1 .. Len(Current(t).steps) : Current(t).steps[i].key = k
  BY DEF Touches
<1>2. Active(t) /\ Len(seen[t]) \in Nat /\ Len(Current(t).steps) \in Nat
  BY CurrentType DEF LockInv, TypeOK, Disciplined
<1>3. i \in 1 .. Len(Current(t).steps) /\ ~Complete(t)
  BY <1>1, <1>2 DEF Complete
<1>4. ShardOf[k] \in Shards(Current(t)) /\ held[t] = Shards(Current(t))
  BY <1>1, <1>2, <1>3, CurrentType DEF LockInv, Disciplined
<1> QED BY <1>2, <1>4, CurrentType DEF LockInv

\* Only one thread has writes to a key to come: they are what is committed.
CommittedIs ==
  \A k \in Key :
    /\ \A t \in Thread : Pending(t, k) => Committed[k] = Rest(t)[k]
    /\ (\A t \in Thread : ~Pending(t, k)) => Committed[k] = store[k]

LEMMA CommittedAt == LockInv => CommittedIs
<1> SUFFICES ASSUME LockInv, NEW k \in Key
             PROVE  /\ \A t \in Thread : Pending(t, k) => Committed[k] = Rest(t)[k]
                    /\ (\A t \in Thread : ~Pending(t, k)) => Committed[k] = store[k]
  BY DEF CommittedIs
<1>1. ASSUME NEW t \in Thread, NEW u \in Thread, Pending(t, k), Pending(u, k)
      PROVE  t = u
  <2>1. ShardOf[k] \in held[t] /\ ShardOf[k] \in held[u] /\ ShardOf[k] \in Shard
    BY <1>1, HoldsShards DEF Pending
  <2> QED BY <1>1, <2>1 DEF Pending, LockInv, Exclusive
<1>2. ASSUME NEW t \in Thread, Pending(t, k)
      PROVE  Committed[k] = Rest(t)[k]
  <2>1. (CHOOSE u \in Thread : Pending(u, k)) = t
    BY <1>1, <1>2
  <2> QED BY <1>2, <2>1 DEF Committed
<1> QED BY <1>2 DEF Committed

LEMMA SameCommitted ==
  ASSUME LockInv, LockInv',
         \A k \in Key : \A t \in Thread : Pending(t, k)' <=> Pending(t, k),
         \A k \in Key : \A t \in Thread : Pending(t, k) => Rest(t)'[k] = Rest(t)[k],
         \A k \in Key : (\A t \in Thread : ~Pending(t, k)) => store'[k] = store[k]
  PROVE  Committed' = Committed
<1> SUFFICES ASSUME NEW k \in Key PROVE Committed'[k] = Committed[k]
  BY DEF Committed
<1>1. CommittedIs /\ CommittedIs'
  BY CommittedAt, PTL
<1>2. CASE \E t \in Thread : Pending(t, k)
  BY <1>1, <1>2 DEF CommittedIs
<1>3. CASE \A t \in Thread : ~Pending(t, k)
  BY <1>1, <1>3 DEF CommittedIs
<1> QED BY <1>2, <1>3

\* A step that leaves the accesses of the running threads as they are, and lets
\* nobody start or stop to run, is no step of the abstract keyspace's sections.
LEMMA QuietStep ==
  ASSUME LockInv, LockInv', store' = store,
         \A t \in Thread : (phase'[t] = "running") = (phase[t] = "running"),
         \A t \in Thread : phase[t] = "running" => Current(t)' = Current(t) /\ seen'[t] = seen[t]
  PROVE  /\ Committed' = Committed
         /\ \A t \in Thread : phase[t] = "running" => Outcome(t)' = Outcome(t)
<1>1. \A k \in Key : \A t \in Thread : Pending(t, k)' <=> Pending(t, k)
  BY DEF Pending, Touches
<1>2. \A k \in Key : \A t \in Thread : Pending(t, k) => Rest(t)'[k] = Rest(t)[k]
  BY DEF Rest, Pending
<1>3. Committed' = Committed
  BY <1>1, <1>2, SameCommitted
<1>4. \A t \in Thread : phase[t] = "running" => Outcome(t)' = Outcome(t)
  BY DEF Outcome
<1> QED BY <1>3, <1>4

\* The sections of ShardLocks and of AtomicKeyspace are the same operators.
LEMMA SameOperators ==
  /\ \A t : Atomic!Active(t) = Active(t)
  /\ \A t : Atomic!Current(t) = Current(t)
  /\ \A m, sec, i, j : Atomic!After(m, sec, i, j) = After(m, sec, i, j)
  /\ \A m, sec : Atomic!Finds(m, sec) = Finds(m, sec)
BY DEF Atomic!Active, Atomic!Current, Atomic!After, Atomic!Finds, Atomic!Touches,
       Atomic!LastAccess, Active, Current, After, Finds, Touches, LastAccess

Done == [t \in Thread |-> phase[t] = "running"]
Found == [t \in Thread |-> IF phase[t] = "running" THEN Outcome(t) ELSE <<>>]

LEMMA InitAtomic == Init => Atomic!Init
<1> SUFFICES ASSUME Init PROVE Atomic!Init
  OBVIOUS
<1>1. \A t \in Thread : phase[t] = "idle"
  BY DEF Init
<1>2. Committed = store
  BY <1>1 DEF Committed, Pending, Init
<1>3. Done = [t \in Thread |-> FALSE] /\ Found = [t \in Thread |-> <<>>]
  BY <1>1 DEF Done, Found
<1> QED BY <1>2, <1>3 DEF Init, Atomic!Init, Done, Found

LEMMA CallAtomic ==
  ASSUME LockInv, LockInv', NEW t \in Thread, Call(t)
  PROVE  Atomic!Call(t)
<1>1. phase' = phase /\ seen' = seen /\ store' = store /\ phase[t] = "idle"
  BY DEF Call
<1>2. \A u \in Thread : phase[u] = "running" => Current(u)' = Current(u)
  BY <1>1 DEF Call, Current, LockInv, TypeOK
<1>3. Committed' = Committed /\ \A u \in Thread : phase[u] = "running" => Outcome(u)' = Outcome(u)
  BY <1>1, <1>2, QuietStep
<1>4. Done' = Done /\ Found' = Found
  BY <1>1, <1>3 DEF Done, Found
<1> QED BY <1>3, <1>4, SameOperators DEF Call, Atomic!Call, Done, Found

LEMMA BeginAtomic ==
  ASSUME LockInv, LockInv', NEW t \in Thread, Begin(t)
  PROVE  UNCHANGED Atomic!vars
<1>1. seen' = seen /\ store' = store /\ request' = request /\ answers' = answers
  BY DEF Begin
<1>2. \A u \in Thread : (phase'[u] = "running") = (phase[u] = "running")
  BY DEF Begin, LockInv, TypeOK
<1>3. \A u \in Thread : Current(u)' = Current(u)
  BY <1>1 DEF Current
<1>4. Committed' = Committed /\ \A u \in Thread : phase[u] = "running" => Outcome(u)' = Outcome(u)
  BY <1>1, <1>2, <1>3, QuietStep
<1>5. Done' = Done /\ Found' = Found
  BY <1>2, <1>4 DEF Done, Found
<1> QED BY <1>1, <1>4, <1>5 DEF Atomic!vars, Done, Found

\* The last lock of a section is the step at which it takes effect.
LEMMA LockAtomic ==
  ASSUME LockInv, LockInv', NEW t \in Thread, Lock(t)
  PROVE  Atomic!Commit(t) \/ UNCHANGED Atomic!vars
<1>1. PICK s \in want[t] :
        /\ held' = [held EXCEPT ![t] = @ \cup {s}]
        /\ phase' = [phase EXCEPT ![t] = IF want[t] = {s} THEN "running" ELSE @]
  BY DEF Lock
<1>2. /\ store' = store /\ request' = request /\ answers' = answers /\ seen' = seen
      /\ phase[t] = "locking"
  BY DEF Lock
<1>3. \A u \in Thread : Current(u)' = Current(u)
  BY <1>2 DEF Current
<1>4. \A u \in Thread : u # t => phase'[u] = phase[u]
  BY <1>1 DEF LockInv, TypeOK
<1>5. CASE want[t] # {s}
  <2>1. \A u \in Thread : (phase'[u] = "running") = (phase[u] = "running")
    BY <1>1, <1>5 DEF LockInv, TypeOK
  <2>2. Committed' = Committed /\ \A u \in Thread : phase[u] = "running" => Outcome(u)' = Outcome(u)
    BY <1>2, <1>3, <2>1, QuietStep
  <2>3. Done' = Done /\ Found' = Found
    BY <2>1, <2>2 DEF Done, Found
  <2> QED BY <1>2, <2>2, <2>3 DEF Atomic!vars, Done, Found
<1>6. CASE want[t] = {s}
  <2> DEFINE sec == Current(t)
             L == Len(sec.steps)
  <2>1. phase'[t] = "running"
    BY <1>1, <1>6 DEF LockInv, TypeOK
  <2>2. seen[t] = <<>> /\ Len(seen[t]) + 1 = 1 /\ Active(t) /\ L \in Nat
    BY <1>2, CurrentType DEF LockInv, Disciplined
  <2>3. CommittedIs /\ CommittedIs'
    BY CommittedAt, PTL
  <2>4. \A u \in Thread : u # t => \A k \in Key : Pending(u, k)' = Pending(u, k)
    BY <1>2, <1>3, <1>4 DEF Pending, Touches
  <2>5. \A k \in Key : ~Pending(t, k)
    BY <1>2 DEF Pending
  <2>6. \A k \in Key : Pending(t, k)' <=> sec.writes /\ Touches(sec, 1, L, k)
    BY <1>2, <1>3, <2>1, <2>2 DEF Pending, Touches
  <2>7. \A u \in Thread : Rest(u)' = Rest(u)
    BY <1>2, <1>3 DEF Rest
  <2>8. Rest(t) = After(store, sec, 1, L)
    BY <2>2 DEF Rest
  <2>9. Committed' = After(Committed, sec, 1, L)
    <3> SUFFICES ASSUME NEW k \in Key
                 PROVE  Committed'[k] = After(Committed, sec, 1, L)[k]
      BY DEF Committed, After
    <3>1. CASE sec.writes /\ Touches(sec, 1, L, k)
      <4>1. Committed'[k] = Rest(t)'[k]
        BY <2>3, <2>6, <3>1 DEF CommittedIs
      <4>2. After(store, sec, 1, L)[k] = After(Committed, sec, 1, L)[k]
        BY <3>1 DEF After
      <4> QED BY <2>7, <2>8, <4>1, <4>2
    <3>2. CASE ~(sec.writes /\ Touches(sec, 1, L, k))
      <4>1. After(Committed, sec, 1, L)[k] = Committed[k]
        BY <3>2 DEF After
      <4>2. \A u \in Thread : Pending(u, k)' <=> Pending(u, k)
        BY <2>4, <2>5, <2>6, <3>2
      <4>3. CASE \E u \in Thread : Pending(u, k)
        BY <2>3, <2>7, <4>1, <4>2, <4>3 DEF CommittedIs
      <4>4. CASE \A u \in Thread : ~Pending(u, k)
        BY <1>2, <2>3, <4>1, <4>2, <4>4 DEF CommittedIs
      <4> QED BY <4>3, <4>4
    <3> QED BY <3>1, <3>2
  <2>10. ASSUME NEW i \in 1 .. L PROVE Committed[sec.steps[i].key] = store[sec.steps[i].key]
    <3> DEFINE k == sec.steps[i].key
    <3>1. k \in Key /\ ShardOf[k] \in Shards(sec)
      BY <2>2, CurrentType DEF LockInv, Accesses
    <3>2. held'[t] = Shards(sec) /\ ShardOf[k] \in Shard
      <4>1. held'[t] = held[t] \cup want[t]
        BY <1>1, <1>6 DEF LockInv, TypeOK
      <4> QED BY <1>2, <2>2, <3>1, <4>1, CurrentType DEF LockInv, Disciplined
    <3>3. ASSUME NEW u \in Thread, Pending(u, k) PROVE FALSE
      <4>1. u # t
        BY <2>5, <3>1, <3>3
      <4>2. ShardOf[k] \in held[u] /\ Current(u).writes
        BY <3>1, <3>3, HoldsShards DEF Pending
      <4>3. ShardOf[k] \in held'[u]
        BY <1>1, <4>1, <4>2 DEF LockInv, TypeOK
      <4> QED BY <1>3, <3>1, <3>2, <4>1, <4>2, <4>3 DEF LockInv, Exclusive
    <3> QED BY <2>3, <3>1, <3>3 DEF CommittedIs
  <2>11. Outcome(t)' = Finds(Committed, sec)
    <3>1. Outcome(t)' = [i \in 1 .. L |-> After(store, sec, 1, i - 1)[sec.steps[i].key]]
      BY <1>2, <1>3, <2>2 DEF Outcome
    <3>2. ASSUME NEW i \in 1 .. L
          PROVE  After(store, sec, 1, i - 1)[sec.steps[i].key]
                   = After(Committed, sec, 1, i - 1)[sec.steps[i].key]
      <4>1. sec.steps[i].key \in Key
        BY <2>2, CurrentType DEF LockInv, Accesses
      <4> QED BY <2>10, <4>1 DEF After
    <3> QED BY <3>1, <3>2 DEF Finds
  <2>12. \A u \in Thread : u # t => Outcome(u)' = Outcome(u)
    BY <1>2, <1>3 DEF Outcome
  <2>13. Done' = [Done EXCEPT ![t] = TRUE] /\ ~Done[t]
    BY <1>2, <1>4, <2>1 DEF Done
  <2>14. Found' = [Found EXCEPT ![t] = Finds(Committed, sec)]
    BY <1>4, <2>1, <2>11, <2>12 DEF Found
  <2>15. Atomic!Commit(t)
    BY <1>2, <2>2, <2>9, <2>13, <2>14, SameOperators DEF Atomic!Commit, Done, Found
  <2> QED BY <2>15
<1> QED BY <1>5, <1>6

\* An access does what its section has already committed to.
LEMMA AccessAtomic ==
  ASSUME LockInv, LockInv', NEW t \in Thread, Access(t)
  PROVE  UNCHANGED Atomic!vars
<1> DEFINE sec == Current(t)
           L == Len(sec.steps)
           n == Len(seen[t])
           step == sec.steps[n + 1]
<1>1. /\ phase' = phase /\ request' = request /\ answers' = answers /\ phase[t] = "running"
      /\ seen' = [seen EXCEPT ![t] = Append(@, store[step.key])]
      /\ store' = IF sec.writes THEN [store EXCEPT ![step.key] = step.put] ELSE store
  BY DEF Access
<1>2. \A u \in Thread : Current(u)' = Current(u)
  BY <1>1 DEF Current
<1>3. n \in Nat /\ L \in Nat /\ n + 1 <= L
  BY CurrentType DEF Access, Complete, LockInv, TypeOK, Disciplined
<1>4. step.key \in Key /\ DOMAIN store = Key /\ ShardOf[step.key] \in Shards(sec)
  <2>1. n + 1 \in 1 .. L
    BY <1>3
  <2> QED BY <1>1, <2>1, CurrentType DEF LockInv, TypeOK, Disciplined, Accesses
<1>5. /\ seen'[t] = Append(seen[t], store[step.key]) /\ Len(seen'[t]) = n + 1
      /\ \A i \in 1 .. n : seen'[t][i] = seen[t][i]
      /\ seen'[t][n + 1] = store[step.key]
  BY <1>1, <1>4 DEF LockInv, TypeOK
<1>6. \A u \in Thread : u # t => seen'[u] = seen[u]
  BY <1>1 DEF LockInv, TypeOK
<1>7. Touches(sec, n + 1, L, step.key)
  BY <1>3 DEF Touches
<1>8. ASSUME sec.writes, NEW j \in Nat, n + 1 <= j
      PROVE  After(store', sec, n + 2, j) = After(store, sec, n + 1, j)
  <2>1. Written(store, store', sec, n + 1)
    BY <1>1, <1>4, <1>8 DEF Written
  <2>2. n + 2 = (n + 1) + 1 /\ n + 1 \in Nat
    BY <1>3
  <2> HIDE DEF n, sec
  <2> QED BY <1>8, <2>1, <2>2, AfterFirst
<1>9. \A k \in Key : k # step.key \/ ~sec.writes => store'[k] = store[k]
  BY <1>1, <1>4
<1>10. CommittedIs /\ CommittedIs'
  BY CommittedAt, PTL
<1>11. Rest(t) = After(store, sec, n + 1, L) /\ Rest(t)' = After(store', sec, n + 2, L)
  BY <1>2, <1>3, <1>5 DEF Rest
<1>12. \A u \in Thread, k \in Key : u # t => Pending(u, k)' = Pending(u, k)
  BY <1>1, <1>2, <1>6 DEF Pending, Touches
<1>13. ASSUME NEW u \in Thread, u # t, phase[u] = "running", NEW k \in Key,
              Touches(Current(u), Len(seen[u]) + 1, Len(Current(u).steps), k)
       PROVE  store'[k] = store[k]
  <2>1. CASE k = step.key /\ sec.writes
    <3>1. ShardOf[k] \in held[u] /\ ShardOf[k] \in held[t] /\ ShardOf[k] \in Shard
      BY <1>1, <1>7, <1>13, <2>1, HoldsShards
    <3> QED BY <1>13, <2>1, <3>1 DEF LockInv, Exclusive
  <2> QED BY <1>9, <2>1
<1>14. ASSUME NEW k \in Key PROVE Committed'[k] = Committed[k]
  <2>1. CASE Pending(t, k)
    <3>1. Committed[k] = After(store, sec, n + 1, L)[k] /\ sec.writes
      BY <1>10, <1>11, <2>1 DEF CommittedIs, Pending
    <3>2. After(store', sec, n + 2, L)[k] = Committed[k]
      BY <1>3, <1>8, <3>1
    <3>3. CASE Pending(t, k)'
      BY <1>10, <1>11, <3>2, <3>3 DEF CommittedIs
    <3>4. CASE ~Pending(t, k)'
      <4>1. ~Touches(sec, n + 2, L, k)
        BY <1>1, <1>2, <1>3, <1>5, <3>1, <3>4 DEF Pending, Touches
      <4>2. After(store', sec, n + 2, L)[k] = store'[k]
        BY <4>1 DEF After
      <4>3. ASSUME NEW u \in Thread, Pending(u, k)' PROVE FALSE
        <5>1. u # t /\ Pending(u, k)
          BY <1>12, <3>4, <4>3
        <5>2. ShardOf[k] \in held[u] /\ ShardOf[k] \in held[t] /\ ShardOf[k] \in Shard
          BY <2>1, <5>1, HoldsShards DEF Pending
        <5> QED BY <3>1, <5>1, <5>2 DEF LockInv, Exclusive
      <4> QED BY <1>10, <3>2, <4>2, <4>3 DEF CommittedIs
    <3> QED BY <3>3, <3>4
  <2>2. CASE ~Pending(t, k)
    <3>1. k # step.key \/ ~sec.writes
      BY <1>1, <1>7, <2>2 DEF Pending
    <3>2. store'[k] = store[k]
      BY <1>9, <3>1
    <3>3. ~Pending(t, k)'
      <4>1. ASSUME Touches(sec, n + 2, L, k) PROVE Touches(sec, n + 1, L, k)
        BY <1>3, <4>1 DEF Touches
      <4>2. Pending(t, k)' => sec.writes /\ Touches(sec, n + 2, L, k)
        BY <1>2, <1>3, <1>5 DEF Pending, Touches
      <4>3. ~(sec.writes /\ Touches(sec, n + 1, L, k))
        BY <1>1, <2>2 DEF Pending
      <4> QED BY <4>1, <4>2, <4>3
    <3>4. CASE \E u \in Thread : Pending(u, k)
      <4>1. PICK u \in Thread : Pending(u, k)
        BY <3>4
      <4>2. u # t /\ Pending(u, k)'
        BY <1>12, <2>2, <4>1
      <4>3. Rest(u)' = After(store', Current(u), Len(seen[u]) + 1, Len(Current(u).steps))
        BY <1>2, <1>6, <4>2 DEF Rest
      <4>4. Rest(u)'[k] = Rest(u)[k]
        BY <3>2, <4>3 DEF Rest, After
      <4> QED BY <1>10, <4>1, <4>2, <4>4 DEF CommittedIs
    <3>5. CASE \A u \in Thread : ~Pending(u, k)
      <4>1. \A u \in Thread : ~Pending(u, k)'
        BY <1>12, <3>3, <3>5
      <4> QED BY <1>10, <3>2, <3>5, <4>1 DEF CommittedIs
    <3> QED BY <3>4, <3>5
  <2> QED BY <2>1, <2>2
<1>15. Committed' = Committed
  BY <1>14 DEF Committed
<1>16. Outcome(t)' = Outcome(t)
  <2>1. Outcome(t)' = [i \in 1 .. L |->
           IF i <= n + 1 THEN seen'[t][i]
           ELSE After(store', sec, n + 2, i - 1)[sec.steps[i].key]]
    BY <1>2, <1>3, <1>5, SMTT(60) DEF Outcome
  <2>2. Outcome(t) = [i \in 1 .. L |->
           IF i <= n THEN seen[t][i]
           ELSE After(store, sec, n + 1, i - 1)[sec.steps[i].key]]
    BY DEF Outcome
  <2> SUFFICES ASSUME NEW i \in 1 .. L PROVE Outcome(t)'[i] = Outcome(t)[i]
    BY <2>1, <2>2
  <2>3. CASE i <= n
    <3>1. Outcome(t)[i] = seen[t][i]
      BY <2>2, <2>3
    <3>2. i <= n + 1
      BY <1>3, <2>3
    <3>3. Outcome(t)'[i] = seen'[t][i]
      BY <2>1, <3>2
    <3>4. seen'[t][i] = seen[t][i]
      BY <1>3, <1>5, <2>3
    <3> QED BY <3>1, <3>3, <3>4
  <2>4. CASE i = n + 1
    <3>1. After(store, sec, n + 1, n)[step.key] = store[step.key]
      <4>1. ~Touches(sec, n + 1, n, step.key)
        BY <1>3 DEF Touches
      <4> QED BY <1>4, <4>1 DEF After
    <3>2. Outcome(t)[i] = After(store, sec, n + 1, n)[step.key]
      BY <1>3, <2>2, <2>4
    <3>3. Outcome(t)'[i] = seen'[t][n + 1]
      BY <1>3, <2>1, <2>4
    <3> QED BY <1>5, <3>1, <3>2, <3>3
  <2>5. CASE i > n + 1
    <3>1. sec.steps[i].key \in Key
      BY <1>1, CurrentType DEF LockInv, Disciplined, Accesses
    <3>2. Outcome(t)'[i] = After(store', sec, n + 2, i - 1)[sec.steps[i].key]
            /\ Outcome(t)[i] = After(store, sec, n + 1, i - 1)[sec.steps[i].key]
      BY <1>3, <2>1, <2>2, <2>5
    <3>3. CASE sec.writes
      <4>1. i - 1 \in Nat /\ n + 1 <= i - 1
        BY <1>3, <2>5
      <4> QED BY <1>8, <3>2, <3>3, <4>1
    <3>4. CASE ~sec.writes
      <4>1. After(store', sec, n + 2, i - 1)[sec.steps[i].key] = store'[sec.steps[i].key]
              /\ After(store, sec, n + 1, i - 1)[sec.steps[i].key] = store[sec.steps[i].key]
        BY <3>1, <3>4 DEF After
      <4> QED BY <1>1, <3>2, <3>4, <4>1
    <3> QED BY <3>3, <3>4
  <2> QED BY <1>3, <2>3, <2>4, <2>5
<1>17. ASSUME NEW u \in Thread, u # t, phase[u] = "running"
       PROVE  Outcome(u)' = Outcome(u)
  <2> DEFINE m == Len(seen[u])
             M == Len(Current(u).steps)
  <2>1. m \in Nat /\ M \in Nat
    BY <1>17, CurrentType DEF LockInv, TypeOK, Disciplined
  <2>2. ASSUME NEW i \in 1 .. M, ~(i <= m)
        PROVE  After(store', Current(u), m + 1, i - 1)[Current(u).steps[i].key]
                 = After(store, Current(u), m + 1, i - 1)[Current(u).steps[i].key]
    <3> DEFINE k == Current(u).steps[i].key
    <3>1. k \in Key
      BY <1>17, CurrentType DEF LockInv, Disciplined, Accesses
    <3>2. Touches(Current(u), m + 1, M, k)
      <4>1. i \in m + 1 .. M
        BY <2>1, <2>2
      <4> QED BY <4>1 DEF Touches
    <3>3. store'[k] = store[k]
      BY <1>13, <1>17, <3>1, <3>2
    <3> QED BY <3>1, <3>3 DEF After
  <2> QED BY <1>2, <1>6, <1>17, <2>2 DEF Outcome
<1>18. Done' = Done /\ Found' = Found
  BY <1>1, <1>16, <1>17 DEF Done, Found
<1> QED BY <1>1, <1>15, <1>18 DEF Atomic!vars, Done, Found

\* The last unlock hands over what the section has found.
LEMMA UnlockAtomic ==
  ASSUME LockInv, LockInv', NEW t \in Thread, Unlock(t)
  PROVE  Atomic!Return(t) \/ UNCHANGED Atomic!vars
<1>1. PICK s \in held[t] :
        IF held[t] = {s}
        THEN /\ phase' = [phase EXCEPT ![t] = "idle"]
             /\ answers' = [answers EXCEPT ![t] = Append(@, seen[t])]
             /\ seen' = [seen EXCEPT ![t] = <<>>]
        ELSE UNCHANGED <<phase, answers, seen>>
  BY DEF Unlock
<1>2. store' = store /\ request' = request /\ phase[t] = "running" /\ Complete(t)
  BY DEF Unlock
<1>3. CASE held[t] # {s}
  <2>1. phase' = phase /\ answers' = answers /\ seen' = seen
    BY <1>1, <1>3
  <2>2. \A u \in Thread : Current(u)' = Current(u)
    BY <1>2, <2>1 DEF Current
  <2>3. Committed' = Committed /\ \A u \in Thread : phase[u] = "running" => Outcome(u)' = Outcome(u)
    BY <1>2, <2>1, <2>2, QuietStep
  <2>4. Done' = Done /\ Found' = Found
    BY <2>1, <2>3 DEF Done, Found
  <2> QED BY <1>2, <2>1, <2>3, <2>4 DEF Atomic!vars, Done, Found
<1>4. CASE held[t] = {s}
  <2>1. /\ phase' = [phase EXCEPT ![t] = "idle"]
        /\ answers' = [answers EXCEPT ![t] = Append(@, seen[t])]
        /\ seen' = [seen EXCEPT ![t] = <<>>]
    BY <1>1, <1>4
  <2>2. \A u \in Thread : u # t => /\ phase'[u] = phase[u] /\ seen'[u] = seen[u]
                                   /\ Current(u)' = Current(u)
    BY <1>2, <2>1 DEF LockInv, TypeOK, Current
  <2>3. phase'[t] = "idle"
    BY <2>1 DEF LockInv, TypeOK
  <2>4. \A k \in Key : ~Pending(t, k) /\ ~Pending(t, k)'
    <3>1. Len(seen[t]) = Len(Current(t).steps) /\ Len(seen[t]) \in Nat
      BY <1>2 DEF Complete, LockInv, TypeOK
    <3> QED BY <2>3, <3>1 DEF Pending, Touches
  <2>5. \A k \in Key : \A u \in Thread : Pending(u, k)' <=> Pending(u, k)
    <3>1. \A u \in Thread, k \in Key : u # t => Pending(u, k)' = Pending(u, k)
      BY <2>2 DEF Pending, Touches
    <3> QED BY <2>4, <3>1
  <2>6. \A k \in Key : \A u \in Thread : Pending(u, k) => Rest(u)'[k] = Rest(u)[k]
    BY <1>2, <2>2, <2>4 DEF Rest
  <2>7. Committed' = Committed
    BY <1>2, <2>5, <2>6, SameCommitted
  <2>8. Outcome(t) = seen[t]
    <3>1. seen[t] \in Seq(Value) /\ Len(seen[t]) = Len(Current(t).steps)
      BY <1>2 DEF Complete, LockInv, TypeOK
    <3>2. Outcome(t) = [i \in 1 .. Len(seen[t]) |-> seen[t][i]]
      BY <3>1 DEF Outcome
    <3> QED BY <3>1, <3>2
  <2>9. \A u \in Thread : u # t => Outcome(u)' = Outcome(u)
    BY <1>2, <2>2 DEF Outcome
  <2>10. Done' = [Done EXCEPT ![t] = FALSE] /\ Done[t]
    BY <1>2, <2>2, <2>3 DEF Done
  <2>11. Found' = [Found EXCEPT ![t] = <<>>] /\ Found[t] = seen[t]
    BY <1>2, <2>2, <2>3, <2>8, <2>9 DEF Found
  <2>12. answers' = [answers EXCEPT ![t] = Append(@, Found[t])]
    BY <2>1, <2>11
  <2>13. Atomic!Return(t)
    BY <1>2, <2>7, <2>10, <2>11, <2>12 DEF Atomic!Return, Done, Found
  <2> QED BY <2>13
<1> QED BY <1>3, <1>4

LEMMA NextAtomic == LockInv /\ LockInv' /\ [Next]_vars => [Atomic!Next]_(Atomic!vars)
<1> SUFFICES ASSUME LockInv, LockInv', [Next]_vars
             PROVE  Atomic!Next \/ UNCHANGED Atomic!vars
  OBVIOUS
<1>1. CASE UNCHANGED vars
  <2>1. \A u \in Thread : Current(u)' = Current(u)
    BY <1>1 DEF vars, Current
  <2>2. Committed' = Committed /\ \A u \in Thread : phase[u] = "running" => Outcome(u)' = Outcome(u)
    BY <1>1, <2>1, QuietStep DEF vars
  <2>3. Done' = Done /\ Found' = Found
    BY <1>1, <2>2 DEF vars, Done, Found
  <2> QED BY <1>1, <2>2, <2>3 DEF vars, Atomic!vars, Done, Found
<1>2. ASSUME NEW t \in Thread, Step(t)
      PROVE  Atomic!Next \/ UNCHANGED Atomic!vars
  BY <1>2, CallAtomic, BeginAtomic, LockAtomic, AccessAtomic, UnlockAtomic DEF Step, Atomic!Next
<1> QED
  BY <1>1, <1>2 DEF Next, Finished

\* Every command takes effect in one step between its call and its reply: MSET
\* and DEL of several keys are seen whole or not at all, MGET, EXISTS and the
\* dump of a snapshot see the keys as they are together at one moment.
THEOREM SectionsAreAtomic == Spec => ImplementsKeyspace
<1>1. QED
  BY InitAtomic, LockDiscipline, NextAtomic, PTL DEF Spec, ImplementsKeyspace, Atomic!Spec
=============================================================================
