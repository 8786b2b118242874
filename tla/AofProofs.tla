----------------------------- MODULE AofProofs -----------------------------
(***************************************************************************)
(* Theorems about Aof, for every set of clients, every policy and every    *)
(* bound.  TypeCorrect comes first; every later proof uses it.             *)
(***************************************************************************)
EXTENDS Aof, DataLemmas

-----------------------------------------------------------------------------
(* load() yields commands only: it never gets past a partial record. *)
LEMMA LoadableType ==
  ASSUME NEW f \in Seq(Record)
  PROVE  Loadable(f) \in Seq(Cmd)
<1> DEFINE torn == { i \in DOMAIN f : f[i] = Torn }
           first == CHOOSE i \in torn : \A j \in torn : i <= j
<1>1. CASE torn = {}
  <2>1. \A i \in 1 .. Len(f) : f[i] \in Cmd
    BY <1>1 DEF Record
  <2>2. f \in Seq(Cmd)
    BY <2>1
  <2> QED BY <1>1, <2>2 DEF Loadable
<1>2. CASE torn # {}
  <2>1. torn \subseteq Nat
    OBVIOUS
  <2>2. \E i \in torn : \A j \in torn : i <= j
    BY <1>2, <2>1, LeastNatural
  <2>3. first \in torn /\ \A j \in torn : first <= j
    BY <2>2
  <2>4. \A i \in 1 .. first - 1 : f[i] \in Cmd
    BY <2>3 DEF Record
  <2>5. SubSeq(f, 1, first - 1) \in Seq(Cmd)
    BY <2>3, <2>4, SubSeqProperties
  <2> QED BY <1>2, <2>5 DEF Loadable
<1> QED BY <1>1, <1>2

(* What the steps do to a file: it is extended, or cut to a prefix. *)
LEMMA CommandsAreRecords == Seq(Cmd) \subseteq Seq(Record)
BY DEF Record

(* What may be left of a record is a record. *)
LEMMA TailType ==
  ASSUME NEW tail \in {<<>>, <<Torn>>}
  PROVE  tail \in Seq(Record)
<1>1. <<>> \in Seq(Record) /\ <<Torn>> \in Seq({Torn})
  BY EmptySeq
<1>2. Seq({Torn}) \subseteq Seq(Record)
  BY DEF Record
<1> QED BY <1>1, <1>2

LEMMA PrefixType ==
  ASSUME NEW S, NEW f \in Seq(S), NEW n \in 0 .. Len(f)
  PROVE  SubSeq(f, 1, n) \in Seq(S) /\ Len(SubSeq(f, 1, n)) = n
BY SubSeqProperties

-----------------------------------------------------------------------------
(* Both orders of writing the buffers give a file of records. *)
LEMMA WritingType ==
  ASSUME NEW f \in Seq(Record), NEW a \in Seq(Cmd), NEW b \in Seq(Cmd)
  PROVE  /\ f \o a \o b \in Seq(Record)
         /\ Len(f \o a \o b) = Len(f) + Len(a) + Len(b)
         /\ f \o a \in Seq(Record)
         /\ Len(f \o a) = Len(f) + Len(a)
<1>1. a \in Seq(Record) /\ b \in Seq(Record)
  BY CommandsAreRecords
<1>2. f \o a \in Seq(Record) /\ Len(f \o a) = Len(f) + Len(a)
  BY <1>1, ConcatProperties
<1> QED BY <1>1, <1>2, ConcatProperties

(* The variables of Aof keep their types, and the synced prefix never       *)
(* exceeds the file, through rewrites, restarts and crashes.                *)
THEOREM TypeCorrect == Spec => []TypeOK
<1> USE PolicyAssumption, BoundsAssumption
<1>1. Init => TypeOK
  <2> SUFFICES ASSUME Init PROVE TypeOK
    OBVIOUS
  <2>1. <<>> \in Seq(Cmd) /\ <<>> \in Seq(Record) /\ Len(<<>>) = 0
    BY EmptySeq
  <2>2. store \in Seq(Cmd) /\ active \in Seq(Cmd) /\ flushing \in Seq(Cmd) /\ snap \in Seq(Cmd)
    BY <2>1 DEF Init
  <2>3. file \in Seq(Record) /\ synced \in 0 .. Len(file)
    <3>1. file = <<>> /\ synced = 0
      BY DEF Init
    <3>2. file \in Seq(Record) /\ Len(file) = 0
      BY <2>1, <3>1, Zenon
    <3> QED BY <3>1, <3>2
  <2>4. /\ cpc \in [Clients -> {"idle", "applied", "flush", "rewrite"}]
        /\ issued \in [Clients -> 0 .. MaxCmds]
        /\ \A c \in Clients : cpc[c] \notin {"applied", "flush"}
    BY DEF Init
  <2>5. /\ open \in BOOLEAN /\ running \in BOOLEAN /\ rewriting \in BOOLEAN
        /\ wpc = "exit" /\ rpc = "none" /\ spc = "down" /\ acked = {}
    BY DEF Init
  <2>6. rewrites \in 0 .. MaxRewrites /\ lives \in 0 .. MaxLives
    BY DEF Init
  <2>7. cut \in BOOLEAN
    BY DEF Init
  <2> QED BY <2>2, <2>3, <2>4, <2>5, <2>6, <2>7 DEF TypeOK
<1>2. TypeOK /\ [Next]_vars => TypeOK'
  <2> SUFFICES ASSUME TypeOK, [Next]_vars PROVE TypeOK'
    OBVIOUS
  <2> USE DEF TypeOK, memory, disk, flags, client, bounds
  <2>0. ASSUME NEW c \in Clients, cpc[c] \in {"applied", "flush"}
        PROVE  Current(c) \in Cmd
    BY <2>0 DEF Current, Cmd
  <2>a. FlushSync => /\ active' \in Seq(Cmd) /\ flushing' \in Seq(Cmd)
                     /\ file' \in Seq(Record) /\ synced' \in 0 .. Len(file')
    <3>1. <<>> \in Seq(Cmd)
      BY EmptySeq
    <3>2. CASE open
      <4>1. file \o active \o flushing \in Seq(Record)
        BY WritingType
      <4>2. Len(file) <= Len(file \o active \o flushing)
        BY WritingType, LenProperties
      <4>3. FlushSync => synced' \in 0 .. Len(file')
        BY <3>2, <4>1, <4>2 DEF FlushSync
      <4> QED BY <3>1, <3>2, <4>1, <4>3 DEF FlushSync
    <3>3. CASE ~open
      BY <3>3 DEF FlushSync
    <3> QED BY <3>2, <3>3
  <2>b. ASSUME ProcessGone, file' \in Seq(Record), synced' \in 0 .. Len(file'),
               spc' \in {"down", "dead"}
        PROVE  TypeOK'
    <3>1. <<>> \in Seq(Cmd)
      BY EmptySeq
    <3> QED BY <2>b, <3>1 DEF ProcessGone
  <2>1. CASE Start
    BY <2>1, LoadableType DEF Start
  <2>2. ASSUME NEW c \in Clients, Apply(c) PROVE TypeOK'
    <3>1. <<c, issued[c] + 1>> \in Cmd
      BY <2>2, SMTT(60) DEF Apply, Cmd
    <3> QED BY <2>2, <3>1 DEF Apply
  <2>3. ASSUME NEW c \in Clients, AppendCmd(c) PROVE TypeOK'
    <3>1. Current(c) \in Cmd
      BY <2>0, <2>3 DEF AppendCmd
    <3>2. active' \in Seq(Cmd)
      BY <2>3, <3>1, AppendProperties DEF AppendCmd
    <3>3. acked' \subseteq Cmd /\ cpc' \in [Clients -> {"idle", "applied", "flush", "rewrite"}]
      BY <2>3, <3>1 DEF AppendCmd
    <3>4. \A d \in Clients : cpc'[d] \in {"applied", "flush"} => issued'[d] # 0
      BY <2>3 DEF AppendCmd
    <3> QED BY <2>3, <3>2, <3>3, <3>4 DEF AppendCmd
  <2>4. ASSUME NEW c \in Clients, FlushCmd(c) PROVE TypeOK'
    <3>1. Current(c) \in Cmd
      BY <2>0, <2>4 DEF FlushCmd
    <3> QED BY <2>4, <2>a, <3>1 DEF FlushCmd
  <2>5. CASE WriterLoop
    BY <2>5 DEF WriterLoop
  <2>6. CASE WriterSwap
    BY <2>6 DEF WriterSwap
  <2>7. ASSUME NEW second \in BOOLEAN, WriterWrite(second) PROVE TypeOK'
    <3>1. file' \in Seq(Record) /\ Len(file) <= Len(file') /\ flushing' \in Seq(Cmd)
      <4>1. <<>> \in Seq(Cmd)
        BY EmptySeq
      <4>2. file \o flushing \in Seq(Record) /\ Len(file) <= Len(file \o flushing)
        BY WritingType, LenProperties
      <4>3. CASE open
        BY <2>7, <4>1, <4>2, <4>3 DEF WriterWrite
      <4>4. CASE ~open
        BY <2>7, <4>4, LenProperties DEF WriterWrite
      <4> QED BY <4>3, <4>4
    <3>2. synced' \in 0 .. Len(file')
      BY <2>7, <3>1 DEF WriterWrite
    <3> QED BY <2>7, <3>1, <3>2 DEF WriterWrite
  <2>8. ASSUME NEW c \in Clients, RewriteBegin(c) PROVE TypeOK'
    BY <2>8 DEF RewriteBegin
  <2>9. ASSUME NEW c \in Clients, RewriteSpawn(c) PROVE TypeOK'
    BY <2>9 DEF RewriteSpawn
  <2>10. CASE RewriteDump
    BY <2>10 DEF RewriteDump
  <2>11. CASE RewriteInstall
    <3>1. snap \o flushing \o active \in Seq(Record)
      BY WritingType, CommandsAreRecords
    <3>2. /\ file' \in Seq(Record) /\ synced' \in 0 .. Len(file')
      <4>1. CASE file' = snap \o flushing \o active /\ synced' = 0
        BY <3>1, <4>1, LenProperties
      <4>2. ASSUME NEW n \in 0 .. Len(snap \o flushing \o active) - 1, NEW tail \in {<<>>, <<Torn>>},
                   file' = SubSeq(snap \o flushing \o active, 1, n) \o tail, synced' = 0
            PROVE  file' \in Seq(Record) /\ synced' \in 0 .. Len(file')
        <5>1. SubSeq(snap \o flushing \o active, 1, n) \in Seq(Record)
          <6>1. n \in 0 .. Len(snap \o flushing \o active)
            BY <3>1, LenProperties
          <6> QED BY <3>1, <6>1, PrefixType
        <5>2. tail \in Seq(Record)
          BY TailType
        <5>3. file' \in Seq(Record)
          BY <4>2, <5>1, <5>2, ConcatProperties
        <5> QED BY <4>2, <5>3, LenProperties
      <4>3. CASE UNCHANGED disk
        BY <4>3
      <4> QED BY <2>11, <4>1, <4>2, <4>3 DEF RewriteInstall
    <3>3. active' \in Seq(Cmd) /\ flushing' \in Seq(Cmd)
      BY <2>11, EmptySeq DEF RewriteInstall
    <3>4. open' \in BOOLEAN
      BY <2>11, Zenon DEF RewriteInstall
    <3>5. cut' \in BOOLEAN
      BY <2>11, Zenon DEF RewriteInstall
    <3> QED BY <2>11, <3>2, <3>3, <3>4, <3>5 DEF RewriteInstall
  <2>12. CASE RewriteFinish
    BY <2>12, EmptySeq DEF RewriteFinish
  <2>13. CASE StopBegin
    <3>1. CASE running
      BY <2>13, <3>1 DEF StopBegin
    <3>2. CASE ~running
      BY <2>13, <3>2, <2>b DEF StopBegin
    <3> QED BY <3>1, <3>2
  <2>14. CASE StopJoinWriter
    BY <2>14 DEF StopJoinWriter
  <2>15. CASE StopJoinRewriter
    BY <2>15 DEF StopJoinRewriter
  <2>16. CASE StopFlush
    BY <2>16, <2>a DEF StopFlush
  <2>17. CASE StopClose
    <3>1. file' \in Seq(Record) /\ synced' \in 0 .. Len(file')
      BY <2>17 DEF StopClose
    <3> QED BY <2>17, <3>1, <2>b DEF StopClose
  <2>18. CASE Crash
    <3>1. PICK n \in synced .. Len(file), tail \in {<<>>, <<Torn>>} :
            /\ file' = SubSeq(file, 1, n) \o tail
            /\ synced' = IF n = Len(file) THEN synced ELSE n
      BY <2>18 DEF Crash
    <3>2. SubSeq(file, 1, n) \in Seq(Record) /\ Len(SubSeq(file, 1, n)) = n
      BY PrefixType
    <3>3. tail \in Seq(Record)
      BY TailType
    <3>4. file' \in Seq(Record) /\ Len(file') >= n
      BY <3>1, <3>2, <3>3, ConcatProperties
    <3>5. synced' \in 0 .. Len(file')
      BY <3>1, <3>4
    <3> QED BY <2>18, <3>4, <3>5, <2>b DEF Crash
  <2>19. CASE UNCHANGED vars
    BY <2>19 DEF vars
  <2> QED
    BY <2>1, <2>2, <2>3, <2>4, <2>5, <2>6, <2>7, <2>8, <2>9, <2>10, <2>11, <2>12,
       <2>13, <2>14, <2>15, <2>16, <2>17, <2>18, <2>19 DEF Next
<1>3. QED BY <1>1, <1>2, PTL DEF Spec

-----------------------------------------------------------------------------
(* For every number of workers, rewrites, failures and restarts there is    *)
(* one rewrite at a time: the compare-and-swap of rewrite_async() and the   *)
(* store at the end of the thread protect rewrite_thread_ and the entries.  *)
THEOREM OneRewriteAtATime == Spec => []RewriteExclusive
<1>1. Init => RewriteExclusive
  BY DEF Init, RewriteExclusive
<1>2. TypeOK /\ RewriteExclusive /\ [Next]_vars => RewriteExclusive'
  <2> SUFFICES ASSUME TypeOK, RewriteExclusive, [Next]_vars PROVE RewriteExclusive'
    OBVIOUS
  <2> USE DEF RewriteExclusive, memory, disk, flags, client, bounds
  <2>0. ProcessGone => RewriteExclusive'
    BY DEF ProcessGone
  <2>1. CASE Start
    BY <2>1 DEF Start
  <2>2. ASSUME NEW c \in Clients, Apply(c) \/ AppendCmd(c) \/ FlushCmd(c)
        PROVE  RewriteExclusive'
    <3>1. rewriting' = rewriting /\ rpc' = rpc
          /\ \E x \in {"applied", "idle", "flush"} : cpc' = [cpc EXCEPT ![c] = x]
      BY <2>2 DEF Apply, AppendCmd, FlushCmd
    <3>2. \A d \in Clients : cpc'[d] = "rewrite" => cpc[d] = "rewrite"
      BY <3>1 DEF TypeOK
    <3> QED BY <3>1, <3>2
  <2>3. CASE WriterLoop \/ WriterSwap \/ \E second \in BOOLEAN : WriterWrite(second)
    BY <2>3 DEF WriterLoop, WriterSwap, WriterWrite
  <2>4. ASSUME NEW c \in Clients, RewriteBegin(c) PROVE RewriteExclusive'
    <3>1. rpc = "none" /\ \A d \in Clients : cpc[d] # "rewrite"
      BY <2>4 DEF RewriteBegin
    <3> QED BY <2>4, <3>1 DEF RewriteBegin, TypeOK
  <2>5. ASSUME NEW c \in Clients, RewriteSpawn(c) PROVE RewriteExclusive'
    <3>1. \A d \in Clients : cpc'[d] # "rewrite"
      BY <2>5 DEF RewriteSpawn, TypeOK
    <3> QED BY <2>5, <3>1 DEF RewriteSpawn
  <2>6. CASE RewriteDump \/ RewriteInstall
    BY <2>6 DEF RewriteDump, RewriteInstall
  <2>7. CASE RewriteFinish
    BY <2>7 DEF RewriteFinish
  <2>8. CASE StopBegin \/ StopClose \/ Crash
    BY <2>8, <2>0 DEF StopBegin, StopClose, Crash
  <2>9. CASE StopJoinWriter \/ StopJoinRewriter \/ StopFlush
    BY <2>9 DEF StopJoinWriter, StopJoinRewriter, StopFlush
  <2>10. CASE UNCHANGED vars
    BY <2>10 DEF vars
  <2> QED
    BY <2>1, <2>2, <2>3, <2>4, <2>5, <2>6, <2>7, <2>8, <2>9, <2>10 DEF Next
<1>3. QED BY <1>1, <1>2, TypeCorrect, PTL DEF Spec

-----------------------------------------------------------------------------
(* The records of a sequence, under the operations of the model. *)
LEMMA ElemsType ==
  ASSUME NEW S, NEW s \in Seq(S)
  PROVE  Elems(s) = { s[i] : i \in 1 .. Len(s) } /\ Elems(s) \subseteq S
BY DEF Elems

LEMMA ElemsConcat ==
  ASSUME NEW S, NEW s \in Seq(S), NEW t \in Seq(S)
  PROVE  Elems(s \o t) = Elems(s) \cup Elems(t)
<1> DEFINE u == s \o t
<1>1. /\ u \in Seq(S) /\ Len(u) = Len(s) + Len(t)
      /\ \A i \in 1 .. Len(u) : u[i] = IF i <= Len(s) THEN s[i] ELSE t[i - Len(s)]
  BY ConcatProperties
<1>2. Len(s) \in Nat /\ Len(t) \in Nat
  BY LenProperties
<1> HIDE DEF u
<1>3. ASSUME NEW x \in Elems(u) PROVE x \in Elems(s) \cup Elems(t)
  <2>1. PICK i \in 1 .. Len(u) : x = u[i]
    BY <1>1, <1>3 DEF Elems
  <2>2. CASE i <= Len(s)
    BY <2>1, <2>2, <1>1, <1>2 DEF Elems
  <2>3. CASE ~(i <= Len(s))
    <3>1. i - Len(s) \in 1 .. Len(t)
      BY <2>1, <2>3, <1>1, <1>2
    <3> QED BY <2>1, <2>3, <3>1, <1>1 DEF Elems
  <2> QED BY <2>2, <2>3
<1>4. ASSUME NEW x \in Elems(s) PROVE x \in Elems(u)
  <2>1. PICK i \in 1 .. Len(s) : x = s[i]
    BY <1>4 DEF Elems
  <2>2. i \in 1 .. Len(u) /\ u[i] = x
    BY <2>1, <1>1, <1>2
  <2> QED BY <2>2, <1>1 DEF Elems
<1>5. ASSUME NEW x \in Elems(t) PROVE x \in Elems(u)
  <2>1. PICK i \in 1 .. Len(t) : x = t[i]
    BY <1>5 DEF Elems
  <2>2. i + Len(s) \in 1 .. Len(u) /\ ~(i + Len(s) <= Len(s)) /\ (i + Len(s)) - Len(s) = i
    BY <2>1, <1>1, <1>2
  <2>3. u[i + Len(s)] = t[i]
    BY <2>2, <1>1
  <2> QED BY <2>1, <2>2, <2>3, <1>1, LenProperties DEF Elems
<1>6. Elems(u) = Elems(s) \cup Elems(t)
  BY <1>3, <1>4, <1>5
<1> QED BY <1>6 DEF u

LEMMA ElemsAppend ==
  ASSUME NEW S, NEW s \in Seq(S), NEW e \in S
  PROVE  Elems(Append(s, e)) = Elems(s) \cup {e}
<1> DEFINE u == Append(s, e)
<1>1. /\ u \in Seq(S) /\ Len(u) = Len(s) + 1 /\ u[Len(s) + 1] = e
      /\ \A i \in 1 .. Len(s) : u[i] = s[i]
  BY AppendProperties
<1>2. Len(s) \in Nat
  BY LenProperties
<1>3. Elems(s) = { s[i] : i \in 1 .. Len(s) } /\ Elems(u) = { u[i] : i \in 1 .. Len(u) }
  BY <1>1, ElemsType
<1> HIDE DEF u
<1>4. \A i \in 1 .. Len(u) : i \in 1 .. Len(s) \/ i = Len(s) + 1
  BY <1>1, <1>2
<1>5. Elems(u) = Elems(s) \cup {e}
  BY <1>1, <1>2, <1>3, <1>4
<1> QED BY <1>5 DEF u

LEMMA ElemsEmpty == Elems(<<>>) = {}
<1>1. DOMAIN <<>> = {}
  OBVIOUS
<1> QED BY <1>1, Zenon DEF Elems

LEMMA ElemsPrefix ==
  ASSUME NEW S, NEW s \in Seq(S), NEW m \in 0 .. Len(s), NEW n \in 0 .. Len(s), m <= n
  PROVE  Elems(SubSeq(s, 1, m)) \subseteq Elems(SubSeq(s, 1, n))
<1>1. /\ SubSeq(s, 1, m) \in Seq(S) /\ Len(SubSeq(s, 1, m)) = m
      /\ SubSeq(s, 1, n) \in Seq(S) /\ Len(SubSeq(s, 1, n)) = n
  BY PrefixType
<1>2. ASSUME NEW i \in 1 .. m
      PROVE  SubSeq(s, 1, m)[i] = s[i] /\ SubSeq(s, 1, n)[i] = s[i]
  BY SubSeqProperties
<1>3. ASSUME NEW x \in Elems(SubSeq(s, 1, m)) PROVE x \in Elems(SubSeq(s, 1, n))
  <2>1. PICK i \in 1 .. m : x = SubSeq(s, 1, m)[i]
    BY <1>1, <1>3 DEF Elems
  <2>2. i \in 1 .. n /\ x = SubSeq(s, 1, n)[i]
    BY <2>1, <1>2
  <2> QED BY <2>2, <1>1 DEF Elems
<1> QED BY <1>3

-----------------------------------------------------------------------------
(* The log without rewrites: the inductive invariant. *)
LEMMA DisciplineStep ==
  ASSUME MaxRewrites = 0, TypeOK, BufferDiscipline, [Next]_vars
  PROVE  BufferDiscipline'
<1> USE DEF BufferDiscipline, memory, disk, flags, client, bounds
<1>0. ProcessGone /\ spc' \in {"down", "dead"} => BufferDiscipline'
  BY DEF ProcessGone
<1>1. CASE Start
  <2>1. PICK opened \in BOOLEAN :
          open' = opened /\ running' = opened /\ wpc' = IF opened THEN "loop" ELSE "exit"
    BY <1>1 DEF Start
  <2>2. running' \/ wpc' # "exit" => open'
    BY <2>1
  <2> QED BY <1>1, <2>2 DEF Start
<1>2. ASSUME NEW c \in Clients, Apply(c) PROVE BufferDiscipline'
  BY <1>2 DEF Apply, TypeOK
<1>3. ASSUME NEW c \in Clients, AppendCmd(c) PROVE BufferDiscipline'
  <2>1. spc = "up"
    BY <1>3 DEF AppendCmd
  <2>2. \A d \in Clients : cpc'[d] # "rewrite"
    BY <1>3 DEF AppendCmd, TypeOK
  <2> QED BY <1>3, <2>1, <2>2 DEF AppendCmd
<1>4. ASSUME NEW c \in Clients, FlushCmd(c) PROVE BufferDiscipline'
  <2>1. spc = "up"
    BY <1>4 DEF FlushCmd
  <2>2. \A d \in Clients : cpc'[d] # "rewrite"
    BY <1>4 DEF FlushCmd, TypeOK
  <2> QED BY <1>4, <2>1, <2>2 DEF FlushCmd, FlushSync
<1>5. CASE WriterLoop
  BY <1>5 DEF WriterLoop
<1>6. CASE WriterSwap
  BY <1>6 DEF WriterSwap
<1>7. ASSUME NEW second \in BOOLEAN, WriterWrite(second) PROVE BufferDiscipline'
  BY <1>7 DEF WriterWrite
<1>8. ASSUME NEW c \in Clients PROVE ~RewriteBegin(c) /\ ~RewriteSpawn(c)
  <2>1. ~(rewrites < MaxRewrites)
    BY DEF TypeOK
  <2> QED BY <2>1 DEF RewriteBegin, RewriteSpawn
<1>9. ~RewriteDump /\ ~RewriteInstall /\ ~RewriteFinish
  BY DEF RewriteDump, RewriteInstall, RewriteFinish
<1>10. CASE StopBegin
  BY <1>10, <1>0 DEF StopBegin
<1>11. CASE StopJoinWriter \/ StopJoinRewriter
  BY <1>11 DEF StopJoinWriter, StopJoinRewriter
<1>12. CASE StopFlush
  BY <1>12 DEF StopFlush, FlushSync
<1>13. CASE StopClose \/ Crash
  BY <1>13, <1>0 DEF StopClose, Crash
<1>14. CASE UNCHANGED vars
  BY <1>14 DEF vars
<1> QED
  BY <1>1, <1>2, <1>3, <1>4, <1>5, <1>6, <1>7, <1>8, <1>9, <1>10, <1>11, <1>12,
     <1>13, <1>14 DEF Next

(* Without rewrites the buffers are used as the comment of BufferDiscipline *)
(* says, for any number of threads, failures and crashes.                   *)
THEOREM Discipline ==
  ASSUME MaxRewrites = 0
  PROVE  Spec => []BufferDiscipline
<1>1. Init => BufferDiscipline
  BY DEF Init, BufferDiscipline
<1>2. TypeOK /\ BufferDiscipline /\ [Next]_vars => BufferDiscipline'
  BY DisciplineStep
<1>3. QED BY <1>1, <1>2, TypeCorrect, PTL DEF Spec

(* What a file and two buffers hold. *)
LEMMA ElemsThree ==
  ASSUME NEW f \in Seq(Record), NEW s \in Seq(Cmd), NEW t \in Seq(Cmd)
  PROVE  Elems(f \o s \o t) = Elems(f) \cup Elems(s) \cup Elems(t)
<1>1. s \in Seq(Record) /\ t \in Seq(Record)
  BY CommandsAreRecords
<1> DEFINE u == f \o s
<1>2. u \in Seq(Record) /\ Elems(u) = Elems(f) \cup Elems(s)
  BY <1>1, ConcatProperties, ElemsConcat
<1> HIDE DEF u
<1>3. Elems(u \o t) = Elems(u) \cup Elems(t)
  BY <1>1, <1>2, ElemsConcat
<1> QED BY <1>2, <1>3 DEF u

(* load() invents nothing. *)
LEMMA LoadableElems ==
  ASSUME NEW f \in Seq(Record)
  PROVE  Elems(Loadable(f)) \subseteq Elems(f)
<1> DEFINE torn == { i \in DOMAIN f : f[i] = Torn }
           first == CHOOSE i \in torn : \A j \in torn : i <= j
<1>1. CASE torn = {}
  BY <1>1 DEF Loadable
<1>2. CASE torn # {}
  <2>1. first \in 1 .. Len(f)
    <3>1. torn \subseteq Nat
      OBVIOUS
    <3>2. \E i \in torn : \A j \in torn : i <= j
      BY <1>2, <3>1, LeastNatural
    <3> QED BY <3>2
  <2> HIDE DEF first
  <2>2. first - 1 \in 0 .. Len(f) /\ Len(f) \in 0 .. Len(f) /\ first - 1 <= Len(f)
    BY <2>1, LenProperties
  <2>3. Elems(SubSeq(f, 1, first - 1)) \subseteq Elems(SubSeq(f, 1, Len(f)))
    BY <2>2, ElemsPrefix
  <2>4. SubSeq(f, 1, Len(f)) = f
    BY SubSeqFull
  <2>5. Loadable(f) = SubSeq(f, 1, first - 1)
    BY <1>2 DEF Loadable, first
  <2> QED BY <2>3, <2>4, <2>5
<1> QED BY <1>1, <1>2

(* flush_sync() neither adds to the log nor takes from it. *)
LEMMA FlushElems ==
  ASSUME TypeOK, FlushSync
  PROVE  Elems(Log') = Elems(Log)
<1>1. Elems(Log) = Elems(file) \cup Elems(flushing) \cup Elems(active)
  BY ElemsThree DEF TypeOK, Log
<1>2. CASE open
  <2>1. file' = file \o active \o flushing /\ active' = <<>> /\ flushing' = <<>>
    BY <1>2 DEF FlushSync
  <2>2. file \o active \o flushing \in Seq(Record) /\ <<>> \in Seq(Cmd)
    BY WritingType, EmptySeq DEF TypeOK
  <2>3. Elems(Log') = Elems(file') \cup Elems(<<>>) \cup Elems(<<>>)
    <3>1. file' \in Seq(Record) /\ flushing' \in Seq(Cmd) /\ active' \in Seq(Cmd)
      BY <2>1, <2>2
    <3>2. Elems(file' \o flushing' \o active')
            = Elems(file') \cup Elems(flushing') \cup Elems(active')
      BY <3>1, ElemsThree
    <3> QED BY <2>1, <3>2 DEF Log
  <2>4. Elems(file') = Elems(file) \cup Elems(active) \cup Elems(flushing)
    BY <2>1, ElemsThree DEF TypeOK
  <2> QED BY <1>1, <2>3, <2>4, ElemsEmpty
<1>3. CASE ~open
  BY <1>3 DEF FlushSync, Log, disk
<1> QED BY <1>2, <1>3

(* Without rewrites, whatever the interleaving of clients, writer, stop and *)
(* crashes, a command in the store is in the file, in a buffer, or still in *)
(* the hands of the worker that applied it.                                 *)
THEOREM NothingIsLost ==
  ASSUME MaxRewrites = 0
  PROVE  Spec => []NothingLost
<1>1. Init => NothingLost
  BY ElemsEmpty DEF Init, NothingLost
<1>2. TypeOK /\ TypeOK' /\ BufferDiscipline /\ NothingLost /\ [Next]_vars => NothingLost'
  <2> SUFFICES ASSUME TypeOK, TypeOK', BufferDiscipline, NothingLost, [Next]_vars
               PROVE  NothingLost'
    OBVIOUS
  <2> USE DEF memory, disk, flags, client, bounds
  <2>a. /\ Elems(Log) = Elems(file) \cup Elems(flushing) \cup Elems(active)
        /\ Elems(Log') = Elems(file') \cup Elems(flushing') \cup Elems(active')
    BY ElemsThree DEF TypeOK, Log
  <2>b. ASSUME store' = store, Elems(Log) \subseteq Elems(Log'),
               UNCHANGED <<cpc, issued>>
        PROVE  NothingLost'
    BY <2>b DEF NothingLost, InFlight, Current
  <2>c. ProcessGone => NothingLost'
    BY ElemsEmpty DEF ProcessGone, NothingLost
  <2>1. CASE Start
    BY <2>1, <2>a, LoadableElems DEF Start, NothingLost, TypeOK
  <2>2. ASSUME NEW c \in Clients, Apply(c) PROVE NothingLost'
    <3> DEFINE new == <<c, issued[c] + 1>>
    <3>1. Elems(store') = Elems(store) \cup {new}
      <4>1. new \in Cmd
        BY <2>2 DEF Apply, Cmd, TypeOK
      <4>2. \A e \in Cmd : Elems(Append(store, e)) = Elems(store) \cup {e}
        BY ElemsAppend DEF TypeOK
      <4>3. store' = Append(store, new)
        BY <2>2 DEF Apply
      <4> QED BY <4>1, <4>2, <4>3
    <3>2. new \in InFlight'
      BY <2>2 DEF Apply, InFlight, Current, TypeOK
    <3>3. InFlight \subseteq InFlight'
      BY <2>2 DEF Apply, InFlight, Current, TypeOK
    <3>4. Log' = Log
      BY <2>2 DEF Apply, Log
    <3> QED BY <3>1, <3>2, <3>3, <3>4 DEF NothingLost
  <2>3. ASSUME NEW c \in Clients, AppendCmd(c) PROVE NothingLost'
    <3>1. Current(c) \in Cmd
      BY <2>3 DEF AppendCmd, Current, Cmd, TypeOK
    <3>2. Elems(Log') = Elems(Log) \cup {Current(c)}
      <4>1. Elems(active') = Elems(active) \cup {Current(c)}
        BY <2>3, <3>1, ElemsAppend DEF AppendCmd, TypeOK
      <4> QED BY <2>3, <4>1, <2>a DEF AppendCmd
    <3>3. InFlight \subseteq InFlight' \cup {Current(c)}
      BY <2>3 DEF AppendCmd, InFlight, Current, TypeOK
    <3>4. store' = store
      BY <2>3 DEF AppendCmd
    <3> QED BY <3>2, <3>3, <3>4 DEF NothingLost
  <2>4. ASSUME NEW c \in Clients, FlushCmd(c) PROVE NothingLost'
    <3>1. InFlight' = InFlight
      BY <2>4 DEF FlushCmd, InFlight, Current, TypeOK
    <3>2. Elems(Log') = Elems(Log) /\ store' = store
      BY <2>4, FlushElems DEF FlushCmd
    <3> QED BY <3>1, <3>2 DEF NothingLost
  <2>5. CASE WriterLoop
    BY <2>5, <2>b DEF WriterLoop, Log
  <2>6. CASE WriterSwap
    <3>1. Elems(Log') = Elems(Log)
      BY <2>6, <2>a DEF WriterSwap
    <3> QED BY <2>6, <3>1, <2>b DEF WriterSwap
  <2>7. ASSUME NEW second \in BOOLEAN, WriterWrite(second) PROVE NothingLost'
    <3>1. open
      BY <2>7 DEF WriterWrite, BufferDiscipline
    <3>2. flushing \in Seq(Record)
      BY CommandsAreRecords DEF TypeOK
    <3>3. Elems(file') = Elems(file) \cup Elems(flushing)
      <4>1. Elems(file \o flushing) = Elems(file) \cup Elems(flushing)
        BY <3>2, ElemsConcat DEF TypeOK
      <4>2. file' = file \o flushing
        BY <2>7, <3>1 DEF WriterWrite
      <4> QED BY <4>1, <4>2
    <3>4. Elems(Log) \subseteq Elems(Log')
      BY <2>7, <3>3, <2>a DEF WriterWrite
    <3> QED BY <2>7, <3>4, <2>b DEF WriterWrite
  <2>8. ASSUME NEW c \in Clients PROVE ~RewriteBegin(c) /\ ~RewriteSpawn(c)
    <3>1. ~(rewrites < MaxRewrites)
      BY BoundsAssumption DEF TypeOK
    <3> QED BY <3>1 DEF RewriteBegin, RewriteSpawn, BufferDiscipline
  <2>9. ~RewriteDump /\ ~RewriteInstall /\ ~RewriteFinish
    BY DEF RewriteDump, RewriteInstall, RewriteFinish, BufferDiscipline
  <2>10. CASE StopBegin
    BY <2>10, <2>b, <2>c DEF StopBegin, Log
  <2>11. CASE StopJoinWriter \/ StopJoinRewriter
    BY <2>11, <2>b DEF StopJoinWriter, StopJoinRewriter, Log
  <2>12. CASE StopFlush
    BY <2>12, <2>b, FlushElems DEF StopFlush
  <2>13. CASE StopClose \/ Crash
    BY <2>13, <2>c DEF StopClose, Crash
  <2>14. CASE UNCHANGED vars
    BY <2>14, <2>b DEF vars, Log
  <2> QED
    BY <2>1, <2>2, <2>3, <2>4, <2>5, <2>6, <2>7, <2>8, <2>9, <2>10, <2>11, <2>12,
       <2>13, <2>14 DEF Next
<1>3. Spec => []BufferDiscipline
  BY Discipline
<1>4. QED BY <1>1, <1>2, <1>3, TypeCorrect, PTL DEF Spec

(* Without rewrites a clean stop leaves in the file everything the store    *)
(* holds, although the writer may have had a swapped buffer when it began.  *)
THEOREM CleanStop ==
  ASSUME MaxRewrites = 0
  PROVE  Spec => []ShutdownComplete
<1>1. TypeOK /\ BufferDiscipline /\ NothingLost => ShutdownComplete
  <2> SUFFICES ASSUME TypeOK, BufferDiscipline, NothingLost, spc = "close"
               PROVE  Elems(store) \subseteq Elems(file)
    BY DEF ShutdownComplete
  <2>1. active = <<>> /\ flushing = <<>> /\ \A c \in Clients : cpc[c] = "idle"
    BY DEF BufferDiscipline
  <2>2. InFlight = {}
    BY <2>1 DEF InFlight
  <2>3. Elems(Log) = Elems(file) \cup Elems(flushing) \cup Elems(active)
    BY ElemsThree DEF TypeOK, Log
  <2> QED BY <2>1, <2>2, <2>3, ElemsEmpty DEF NothingLost
<1>2. Spec => []BufferDiscipline /\ []NothingLost
  BY Discipline, NothingIsLost
<1> QED BY <1>1, <1>2, TypeCorrect, PTL

-----------------------------------------------------------------------------
(* Prefixes of a file that grows or is cut. *)
LEMMA ElemsOfPrefix ==
  ASSUME NEW S, NEW f \in Seq(S), NEW n \in 0 .. Len(f)
  PROVE  Elems(SubSeq(f, 1, n)) = { f[i] : i \in 1 .. n }
<1>1. SubSeq(f, 1, n) \in Seq(S) /\ Len(SubSeq(f, 1, n)) = n
  BY PrefixType
<1>2. ASSUME NEW i \in 1 .. n PROVE SubSeq(f, 1, n)[i] = f[i]
  BY SubSeqProperties
<1>3. Elems(SubSeq(f, 1, n)) = { SubSeq(f, 1, n)[i] : i \in 1 .. n }
  BY <1>1, ElemsType
<1> QED BY <1>2, <1>3

LEMMA PrefixOfConcat ==
  ASSUME NEW S, NEW f \in Seq(S), NEW g \in Seq(S), NEW n \in 0 .. Len(f)
  PROVE  SubSeq(f \o g, 1, n) = SubSeq(f, 1, n)
<1> DEFINE u == f \o g
<1>1. /\ u \in Seq(S) /\ Len(u) = Len(f) + Len(g)
      /\ \A i \in 1 .. Len(f) : u[i] = f[i]
  BY ConcatProperties, LenProperties
<1> HIDE DEF u
<1>2. n \in 0 .. Len(u)
  BY <1>1, LenProperties
<1>3. /\ SubSeq(u, 1, n) \in Seq(S) /\ Len(SubSeq(u, 1, n)) = n
      /\ SubSeq(f, 1, n) \in Seq(S) /\ Len(SubSeq(f, 1, n)) = n
  BY <1>1, <1>2, PrefixType
<1>4. ASSUME NEW i \in 1 .. n PROVE SubSeq(u, 1, n)[i] = SubSeq(f, 1, n)[i]
  BY <1>1, SubSeqProperties
<1>5. SubSeq(u, 1, n) = SubSeq(f, 1, n)
  BY <1>3, <1>4, SeqEqual
<1> QED BY <1>5 DEF u

(* A file of whole records is loaded in full. *)
LEMMA LoadableWhole ==
  ASSUME NEW f \in Seq(Cmd)
  PROVE  Loadable(f) = f
<1>1. { i \in DOMAIN f : f[i] = Torn } = {}
  BY TornAssumption
<1> QED BY <1>1 DEF Loadable

-----------------------------------------------------------------------------
(* What makes "always" durable: the file has no partial record, replies were *)
(* given for synced commands only, and a command whose worker is about to    *)
(* flush is in the log, perhaps already written by somebody else.            *)
DurableInv ==
  /\ file \in Seq(Cmd)
  /\ acked \subseteq { file[i] : i \in 1 .. synced }
  /\ \A c \in Clients : cpc[c] = "flush" => Current(c) \in Elems(Log)
  /\ spc = "up" => open

LEMMA DurableStep ==
  ASSUME Policy = "always", MaxRewrites = 0, "open" \notin Faults, "torn" \notin Faults,
         TypeOK, TypeOK', BufferDiscipline, DurableInv, [Next]_vars
  PROVE  DurableInv'
<1> USE DEF memory, disk, flags, client, bounds
<1>a. /\ Elems(Log) = Elems(file) \cup Elems(flushing) \cup Elems(active)
      /\ Elems(Log') = Elems(file') \cup Elems(flushing') \cup Elems(active')
  BY ElemsThree DEF TypeOK, Log
<1>b. ASSUME UNCHANGED disk, Elems(Log) \subseteq Elems(Log'), UNCHANGED client,
             spc' = "up" => spc = "up", open' = open
      PROVE  DurableInv'
  BY <1>b DEF DurableInv, Current
<1>c. ASSUME ProcessGone, file' \in Seq(Cmd), spc' # "up",
             { file[i] : i \in 1 .. synced } \subseteq { file'[i] : i \in 1 .. synced' }
      PROVE  DurableInv'
  BY <1>c DEF DurableInv, ProcessGone
<1>1. CASE Start
  <2>1. open' = TRUE
    BY <1>1 DEF Start
  <2> QED BY <1>1, <2>1 DEF Start, DurableInv, Log, Current
<1>2. ASSUME NEW c \in Clients, Apply(c) PROVE DurableInv'
  <2>1. ASSUME NEW d \in Clients, cpc'[d] = "flush" PROVE Current(d)' \in Elems(Log')
    <3>1. d # c /\ cpc[d] = "flush" /\ issued'[d] = issued[d]
      BY <1>2, <2>1 DEF Apply, TypeOK
    <3> QED BY <1>2, <3>1 DEF Apply, DurableInv, Current, Log
  <2> QED BY <1>2, <2>1 DEF Apply, DurableInv
<1>3. ASSUME NEW c \in Clients, AppendCmd(c) PROVE DurableInv'
  <2>1. Current(c) \in Cmd
    BY <1>3 DEF AppendCmd, Current, Cmd, TypeOK
  <2>2. \A e \in Cmd : Elems(Append(active, e)) = Elems(active) \cup {e}
    BY ElemsAppend DEF TypeOK
  <2>3. Elems(Log') = Elems(Log) \cup {Current(c)}
    BY <1>3, <2>1, <2>2, <1>a DEF AppendCmd
  <2>4. ASSUME NEW d \in Clients, cpc'[d] = "flush" PROVE Current(d)' \in Elems(Log')
    <3>1. Current(d)' = Current(d) /\ (d = c \/ cpc[d] = "flush")
      BY <1>3, <2>4 DEF AppendCmd, Current, TypeOK
    <3> QED BY <2>3, <3>1 DEF DurableInv
  <2> QED BY <1>3, <2>4 DEF AppendCmd, DurableInv
<1>d. ASSUME FlushSync, open
      PROVE  /\ file' \in Seq(Cmd)
             /\ { file'[i] : i \in 1 .. synced' } = Elems(Log)
             /\ Elems(Log') = Elems(Log)
  <2>1. file' = file \o active \o flushing /\ synced' = Len(file')
        /\ active' = <<>> /\ flushing' = <<>>
    BY <1>d DEF FlushSync
  <2>2. file' \in Seq(Cmd)
    BY <2>1, ConcatProperties DEF TypeOK, DurableInv
  <2>3. Elems(Log') = Elems(Log)
    BY <1>d, FlushElems
  <2>4. Elems(Log') = Elems(file')
    BY <2>1, <1>a, ElemsEmpty
  <2>5. Elems(file') = { file'[i] : i \in 1 .. synced' }
    <3>1. DOMAIN file' = 1 .. synced'
      BY <2>1, <2>2, LenProperties
    <3> QED BY <3>1, Zenon DEF Elems
  <2> QED BY <2>2, <2>3, <2>4, <2>5
<1>e. { file[i] : i \in 1 .. synced } \subseteq Elems(Log)
  <2>1. { file[i] : i \in 1 .. synced } \subseteq Elems(file)
    BY LenProperties, SMTT(60) DEF TypeOK, Elems
  <2> QED BY <2>1, <1>a
<1>4. ASSUME NEW c \in Clients, FlushCmd(c) PROVE DurableInv'
  <2>1. open /\ Current(c) \in Elems(Log)
    BY <1>4 DEF FlushCmd, BufferDiscipline, DurableInv
  <2>2. /\ file' \in Seq(Cmd) /\ { file'[i] : i \in 1 .. synced' } = Elems(Log)
        /\ Elems(Log') = Elems(Log)
    BY <1>4, <2>1, <1>d DEF FlushCmd
  <2>3. acked' \subseteq { file'[i] : i \in 1 .. synced' }
    BY <1>4, <2>1, <2>2, <1>e DEF FlushCmd, DurableInv
  <2>4. ASSUME NEW d \in Clients, cpc'[d] = "flush" PROVE Current(d)' \in Elems(Log')
    <3>1. Current(d)' = Current(d) /\ cpc[d] = "flush"
      BY <1>4, <2>4 DEF FlushCmd, Current, TypeOK
    <3> QED BY <2>2, <3>1 DEF DurableInv
  <2> QED BY <1>4, <2>2, <2>3, <2>4 DEF FlushCmd, DurableInv
<1>5. CASE WriterLoop
  BY <1>5, <1>b DEF WriterLoop, Log
<1>6. CASE WriterSwap
  <2>1. Elems(Log') = Elems(Log)
    BY <1>6, <1>a DEF WriterSwap
  <2> QED BY <1>6, <2>1, <1>b DEF WriterSwap
<1>7. ASSUME NEW second \in BOOLEAN, WriterWrite(second) PROVE DurableInv'
  <2>1. file' = file \o flushing /\ synced' = synced /\ flushing' = <<>> /\ active' = active
    BY <1>7 DEF WriterWrite, BufferDiscipline
  <2>2. /\ file' \in Seq(Cmd)
        /\ \A i \in 1 .. Len(file) : file'[i] = file[i]
    BY <2>1, ConcatProperties, LenProperties DEF TypeOK, DurableInv
  <2>3. { file'[i] : i \in 1 .. synced' } = { file[i] : i \in 1 .. synced }
    BY <2>1, <2>2 DEF TypeOK
  <2>4. Elems(file \o flushing) = Elems(file) \cup Elems(flushing)
    BY ElemsConcat DEF DurableInv, TypeOK
  <2>5. Elems(Log) \subseteq Elems(Log')
    BY <2>1, <2>4, <1>a
  <2> QED BY <1>7, <2>2, <2>3, <2>5 DEF WriterWrite, DurableInv, Current
<1>8. ASSUME NEW c \in Clients PROVE ~RewriteBegin(c) /\ ~RewriteSpawn(c)
  <2>1. ~(rewrites < MaxRewrites)
    BY BoundsAssumption DEF TypeOK
  <2> QED BY <2>1 DEF RewriteBegin, RewriteSpawn, BufferDiscipline
<1>9. ~RewriteDump /\ ~RewriteInstall /\ ~RewriteFinish
  BY DEF RewriteDump, RewriteInstall, RewriteFinish, BufferDiscipline
<1>10. CASE StopBegin
  <2>1. CASE running
    BY <1>10, <2>1, <1>b DEF StopBegin, Log
  <2>2. CASE ~running
    BY <1>10, <2>2, <1>c DEF StopBegin, DurableInv
  <2> QED BY <2>1, <2>2
<1>11. CASE StopJoinWriter \/ StopJoinRewriter
  BY <1>11, <1>b DEF StopJoinWriter, StopJoinRewriter, Log
<1>12. CASE StopFlush
  <2>1. open
    BY <1>12 DEF StopFlush, BufferDiscipline
  <2>2. /\ file' \in Seq(Cmd) /\ { file'[i] : i \in 1 .. synced' } = Elems(Log)
        /\ Elems(Log') = Elems(Log)
    BY <1>12, <2>1, <1>d DEF StopFlush
  <2> QED BY <1>12, <2>2, <1>e DEF StopFlush, DurableInv, Current
<1>13. CASE StopClose
  <2>1. file' = file /\ synced <= synced' /\ synced' \in Nat
    BY <1>13, LenProperties DEF StopClose, TypeOK
  <2>2. { file[i] : i \in 1 .. synced } \subseteq { file'[i] : i \in 1 .. synced' }
    <3>1. \A i \in 1 .. synced : i \in 1 .. synced' /\ file'[i] = file[i]
      BY <2>1 DEF TypeOK
    <3> QED BY <3>1, Zenon
  <2> QED BY <1>13, <2>1, <2>2, <1>c DEF StopClose, DurableInv
<1>14. CASE Crash
  <2>1. PICK n \in synced .. Len(file) :
          file' = SubSeq(file, 1, n) \o <<>> /\ synced' = IF n = Len(file) THEN synced ELSE n
    BY <1>14 DEF Crash
  <2>2. SubSeq(file, 1, n) \in Seq(Cmd) /\ \A i \in 1 .. n : SubSeq(file, 1, n)[i] = file[i]
    BY PrefixType, SubSeqProperties, SMTT(60) DEF DurableInv, TypeOK
  <2>3. file' = SubSeq(file, 1, n)
    BY <2>1, <2>2, ConcatEmptySeq
  <2>4. synced <= synced' /\ synced' \in Nat /\ synced <= n
    BY <2>1 DEF TypeOK
  <2>5. { file[i] : i \in 1 .. synced } \subseteq { file'[i] : i \in 1 .. synced' }
    BY <2>2, <2>3, <2>4, SMTT(60) DEF TypeOK
  <2> QED BY <1>14, <2>2, <2>3, <2>5, <1>c DEF Crash
<1>15. CASE UNCHANGED vars
  BY <1>15, <1>b DEF vars, Log
<1> QED
  BY <1>1, <1>2, <1>3, <1>4, <1>5, <1>6, <1>7, <1>8, <1>9, <1>10, <1>11, <1>12,
     <1>13, <1>14, <1>15 DEF Next

(* Under "always", with the file open and no partial records, a client that *)
(* has its reply has its command on the disk: another thread may write it,  *)
(* but the reply waits for a sync that covers it.  Power losses included.   *)
THEOREM ReplyMeansDurable ==
  ASSUME Policy = "always", MaxRewrites = 0, "open" \notin Faults, "torn" \notin Faults
  PROVE  Spec => []AlwaysDurable
<1>1. Init => DurableInv
  <2> SUFFICES ASSUME Init PROVE DurableInv
    OBVIOUS
  <2>1. file \in Seq(Cmd)
    BY EmptySeq, Zenon DEF Init
  <2> QED BY <2>1 DEF Init, DurableInv
<1>2. TypeOK /\ TypeOK' /\ BufferDiscipline /\ DurableInv /\ [Next]_vars => DurableInv'
  BY DurableStep
<1>3. TypeOK /\ DurableInv => AlwaysDurable
  <2> SUFFICES ASSUME TypeOK, DurableInv
               PROVE  acked \subseteq Elems(Loadable(SubSeq(file, 1, synced)))
    BY DEF AlwaysDurable
  <2>1. SubSeq(file, 1, synced) \in Seq(Cmd)
    BY PrefixType DEF DurableInv, TypeOK
  <2>2. Elems(SubSeq(file, 1, synced)) = { file[i] : i \in 1 .. synced }
    <3>1. file \in Seq(Cmd)
      BY DEF DurableInv
    <3>2. synced \in 0 .. Len(file)
      BY DEF TypeOK
    <3> QED BY <3>1, <3>2, ElemsOfPrefix
  <2> QED BY <2>1, <2>2, LoadableWhole DEF DurableInv
<1>4. Spec => []BufferDiscipline
  BY Discipline
<1>5. QED BY <1>1, <1>2, <1>3, <1>4, TypeCorrect, PTL DEF Spec

-----------------------------------------------------------------------------
(* While nothing is rewritten, and no client flushes between the writer's   *)
(* swap and its write, Aof implements the append-only log of DurableLog.    *)

(* Only append() under "always" sends a client into flush_sync(). *)
NoClientFlush == \A c \in Clients : cpc[c] # "flush"

LEMMA NoClientFlushInv ==
  ASSUME Policy # "always"
  PROVE  Spec => []NoClientFlush
<1>1. Init => NoClientFlush
  BY DEF Init, NoClientFlush
<1>2. TypeOK /\ NoClientFlush /\ [Next]_vars => NoClientFlush'
  <2> SUFFICES ASSUME TypeOK, NoClientFlush, [Next]_vars, NEW d \in Clients
               PROVE  cpc'[d] # "flush"
    BY DEF NoClientFlush
  <2> USE DEF memory, disk, flags, client, bounds, TypeOK, NoClientFlush
  <2>1. ASSUME NEW c \in Clients,
               Apply(c) \/ AppendCmd(c) \/ FlushCmd(c) \/ RewriteBegin(c) \/ RewriteSpawn(c)
        PROVE  cpc'[d] # "flush"
    BY <2>1 DEF Apply, AppendCmd, FlushCmd, RewriteBegin, RewriteSpawn
  <2>2. CASE ProcessGone
    BY <2>2 DEF ProcessGone
  <2>3. CASE cpc' = cpc
    BY <2>3
  <2>4. CASE Start \/ StopJoinWriter \/ StopJoinRewriter \/ StopFlush \/ WriterLoop
             \/ WriterSwap \/ RewriteDump \/ RewriteInstall \/ RewriteFinish
             \/ \E second \in BOOLEAN : WriterWrite(second)
    BY <2>3, <2>4 DEF Start, StopJoinWriter, StopJoinRewriter, StopFlush, WriterLoop,
       WriterSwap, RewriteDump, RewriteInstall, RewriteFinish, WriterWrite
  <2>5. CASE StopBegin \/ StopClose \/ Crash
    BY <2>2, <2>3, <2>5 DEF StopBegin, StopClose, Crash
  <2>6. CASE UNCHANGED vars
    BY <2>3, <2>6 DEF vars
  <2> QED BY <2>1, <2>4, <2>5, <2>6 DEF Next
<1> QED BY <1>1, <1>2, TypeCorrect, PTL DEF Spec

-----------------------------------------------------------------------------
(* Appending to the last of three parts appends to the whole. *)
LEMMA AppendLast ==
  ASSUME NEW S, NEW f \in Seq(S), NEW s \in Seq(S), NEW t \in Seq(S), NEW e \in S
  PROVE  f \o s \o Append(t, e) = Append(f \o s \o t, e)
<1>1. f \o s \in Seq(S)
  BY ConcatProperties
<1> DEFINE u == f \o s
<1>2. u \in Seq(S)
  BY <1>1
<1> HIDE DEF u
<1>3. u \o Append(t, e) = Append(u \o t, e)
  <2> DEFINE v == u \o t
             w == u \o Append(t, e)
  <2>1. Append(t, e) \in Seq(S) /\ Len(Append(t, e)) = Len(t) + 1
        /\ \A i \in 1 .. Len(t) : Append(t, e)[i] = t[i]
        /\ Append(t, e)[Len(t) + 1] = e
    BY LenProperties
  <2>2. v \in Seq(S) /\ Len(v) = Len(u) + Len(t)
        /\ \A i \in 1 .. Len(u) + Len(t) :
             v[i] = IF i <= Len(u) THEN u[i] ELSE t[i - Len(u)]
    BY <1>2, ConcatProperties
  <2>3. w \in Seq(S) /\ Len(w) = Len(u) + Len(t) + 1
        /\ \A i \in 1 .. Len(u) + Len(t) + 1 :
             w[i] = IF i <= Len(u) THEN u[i] ELSE Append(t, e)[i - Len(u)]
    <3> DEFINE a == Append(t, e)
    <3>1. a \in Seq(S) /\ Len(a) = Len(t) + 1
      BY <2>1
    <3> HIDE DEF a
    <3>2. u \o a \in Seq(S) /\ Len(u \o a) = Len(u) + Len(a)
      BY <1>2, <3>1, ConcatProperties
    <3>3. \A i \in 1 .. Len(u) + Len(a) : (u \o a)[i] = IF i <= Len(u) THEN u[i] ELSE a[i - Len(u)]
      BY <1>2, <3>1, ConcatProperties
    <3>4. Len(u) \in Nat /\ Len(t) \in Nat
      BY <1>2, LenProperties
    <3>5. Len(u) + Len(a) = Len(u) + Len(t) + 1
      BY <3>1, <3>4
    <3> QED BY <3>2, <3>3, <3>5 DEF a
  <2> HIDE DEF v, w
  <2>4. Len(u) \in Nat /\ Len(t) \in Nat
    BY <1>2, LenProperties
  <2>5. Append(v, e) \in Seq(S) /\ Len(Append(v, e)) = Len(w)
    BY <2>2, <2>3
  <2>6. ASSUME NEW i \in 1 .. Len(w) PROVE Append(v, e)[i] = w[i]
    <3>1. CASE i <= Len(u)
      BY <2>2, <2>3, <2>4, <3>1, SMTT(60)
    <3>2. CASE i > Len(u) /\ i <= Len(u) + Len(t)
      <4>1. w[i] = t[i - Len(u)] /\ v[i] = t[i - Len(u)]
        BY <2>1, <2>2, <2>3, <2>4, <3>2
      <4> QED BY <2>2, <2>4, <3>2, <4>1
    <3>3. CASE i = Len(u) + Len(t) + 1
      BY <2>1, <2>2, <2>3, <2>4, <3>3
    <3>4. i <= Len(u) \/ (i > Len(u) /\ i <= Len(u) + Len(t)) \/ i = Len(u) + Len(t) + 1
      <4>1. i \in 1 .. Len(u) + Len(t) + 1
        BY <2>3
      <4> QED BY <2>4, <4>1
    <3> QED BY <3>1, <3>2, <3>3, <3>4
  <2>7. Append(v, e) = w
    BY <2>3, <2>5, <2>6, SeqEqual
  <2> QED BY <2>7 DEF v, w
<1> QED BY <1>3 DEF u

(* The buffers may change parts as long as their order stays. *)
LEMMA MovingParts ==
  ASSUME NEW S, NEW f \in Seq(S), NEW s \in Seq(S), NEW t \in Seq(S)
  PROVE  /\ f \o s \in Seq(S) /\ Len(f \o s) = Len(f) + Len(s)
         /\ f \o <<>> \o t = f \o t
         /\ f \o s \o <<>> = f \o s
         /\ f \o s \o t \in Seq(S)
         /\ Len(f \o s \o t) = Len(f) + Len(s) + Len(t)
<1>1. f \o s \in Seq(S) /\ Len(f \o s) = Len(f) + Len(s)
  BY ConcatProperties
<1>2. f \o <<>> = f /\ f \o s \o <<>> = f \o s
  BY <1>1, ConcatEmptySeq
<1>3. f \o s \o t \in Seq(S) /\ Len(f \o s \o t) = Len(f \o s) + Len(t)
  BY <1>1, ConcatProperties
<1> QED BY <1>1, <1>2, <1>3

-----------------------------------------------------------------------------
(* Every step of Aof is a step of the log, or none. *)
LEMMA LogStep ==
  ASSUME "torn" \notin Faults, MaxRewrites = 0, TypeOK, TypeOK', BufferDiscipline,
         NoClientFlush, [Next]_vars
  PROVE  [AbstractLog!Next]_(AbstractLog!vars)
<1> USE DEF memory, disk, flags, client, bounds
<1> DEFINE kept == Log' = Log /\ UNCHANGED disk
<1>a. /\ file \in Seq(Record) /\ flushing \in Seq(Record) /\ active \in Seq(Record)
      /\ synced \in 0 .. Len(file) /\ Len(file) \in Nat
  BY CommandsAreRecords, LenProperties DEF TypeOK
<1>b. /\ Log \in Seq(Record) /\ Len(Log) = Len(file) + Len(flushing) + Len(active)
      /\ Len(flushing) \in Nat /\ Len(active) \in Nat
  BY <1>a, MovingParts, LenProperties DEF Log
<1>c. ASSUME kept PROVE UNCHANGED AbstractLog!vars
  BY <1>c DEF AbstractLog!vars
<1>d. ASSUME Log' = Log, Len(file') \in Len(file) .. Len(Log), synced' \in synced .. Len(file')
      PROVE  AbstractLog!Next
  BY <1>d DEF AbstractLog!Next, AbstractLog!Persist
<1>e. ASSUME NEW n \in synced .. Len(file), ProcessGone, file' = SubSeq(file, 1, n),
             synced' \in synced .. n
      PROVE  AbstractLog!Next
  <2>1. n \in 0 .. Len(file)
    BY <1>a
  <2>2. file' \in Seq(Record) /\ Len(file') = n
    BY <1>a, <1>e, <2>1, PrefixType
  <2>3. Log' = file'
    <3>1. Log' = file' \o <<>> \o <<>>
      BY <1>e DEF ProcessGone, Log
    <3> QED BY <2>2, <3>1, ConcatEmptySeq
  <2>4. SubSeq(Log, 1, n) = SubSeq(file, 1, n)
    <3>1. file \o flushing \in Seq(Record) /\ Len(file \o flushing) = Len(file) + Len(flushing)
      BY <1>a, MovingParts
    <3>2. n \in 0 .. Len(file \o flushing)
      BY <1>b, <2>1, <3>1
    <3>3. SubSeq(Log, 1, n) = SubSeq(file \o flushing, 1, n)
      BY <1>a, <3>1, <3>2, PrefixOfConcat DEF Log
    <3> QED BY <1>a, <2>1, <3>3, PrefixOfConcat
  <2> QED BY <1>e, <2>2, <2>3, <2>4 DEF AbstractLog!Next, AbstractLog!Lose
<1>1. CASE Start
  BY <1>1, <1>c DEF Start, Log
<1>2. ASSUME NEW c \in Clients, Apply(c) PROVE UNCHANGED AbstractLog!vars
  BY <1>2, <1>c DEF Apply, Log
<1>3. ASSUME NEW c \in Clients, AppendCmd(c) PROVE AbstractLog!Next
  <2>1. Current(c) \in Record
    BY <1>3 DEF AppendCmd, Current, Cmd, Record, TypeOK
  <2>2. active' = Append(active, Current(c)) /\ UNCHANGED <<file, flushing, synced>>
    BY <1>3 DEF AppendCmd
  <2>3. Log' = Append(Log, Current(c))
    BY <1>a, <2>1, <2>2, AppendLast DEF Log
  <2> QED BY <2>1, <2>2, <2>3 DEF AbstractLog!Next, AbstractLog!Add
<1>4. ASSUME NEW c \in Clients PROVE ~FlushCmd(c)
  BY DEF FlushCmd, NoClientFlush
<1>5. CASE WriterLoop \/ StopJoinWriter \/ StopJoinRewriter
  BY <1>5, <1>c DEF WriterLoop, StopJoinWriter, StopJoinRewriter, Log
<1>6. CASE WriterSwap
  <2>1. CASE active = <<>>
    BY <1>6, <2>1, <1>c DEF WriterSwap, Log
  <2>2. CASE active # <<>>
    <3>1. flushing = <<>>
      BY <1>6 DEF WriterSwap, BufferDiscipline
    <3>2. flushing' = active /\ active' = <<>> /\ UNCHANGED disk
      BY <1>6, <2>2, <3>1 DEF WriterSwap
    <3>3. Log' = Log
      BY <1>a, <3>1, <3>2, MovingParts DEF Log
    <3> QED BY <3>2, <3>3, <1>c
  <2> QED BY <2>1, <2>2
<1>7. ASSUME NEW second \in BOOLEAN, WriterWrite(second) PROVE AbstractLog!Next
  <2>1. file' = file \o flushing /\ flushing' = <<>> /\ active' = active
        /\ (synced' = synced \/ synced' = Len(file'))
    BY <1>7 DEF WriterWrite, BufferDiscipline
  <2>2. file' \in Seq(Record) /\ Len(file') = Len(file) + Len(flushing)
    BY <1>a, <2>1, MovingParts
  <2>3. Log' = Log
    <3>1. Log' = file' \o <<>> \o active
      BY <2>1 DEF Log
    <3>2. Log' = file' \o active
      BY <1>a, <2>2, <3>1, MovingParts
    <3> QED BY <2>1, <3>2 DEF Log
  <2> QED BY <1>a, <1>b, <1>d, <2>1, <2>2, <2>3
<1>8. ASSUME NEW c \in Clients PROVE ~RewriteBegin(c) /\ ~RewriteSpawn(c)
  <2>1. ~(rewrites < MaxRewrites)
    BY BoundsAssumption DEF TypeOK
  <2> QED BY <2>1 DEF RewriteBegin, RewriteSpawn, BufferDiscipline
<1>9. ~RewriteDump /\ ~RewriteInstall /\ ~RewriteFinish
  BY DEF RewriteDump, RewriteInstall, RewriteFinish, BufferDiscipline
<1>f. SubSeq(file, 1, Len(file)) = file
  BY <1>a, SubSeqFull
<1>10. CASE StopBegin
  <2>1. CASE running
    BY <1>10, <2>1, <1>c DEF StopBegin, Log
  <2>2. CASE ~running
    <3>1. ProcessGone /\ UNCHANGED disk
      BY <1>10, <2>2 DEF StopBegin
    <3>2. Len(file) \in synced .. Len(file) /\ synced' \in synced .. Len(file)
      BY <1>a, <3>1
    <3> QED BY <1>e, <1>f, <3>1, <3>2
  <2> QED BY <2>1, <2>2
<1>11. CASE StopFlush
  <2>1. open /\ flushing = <<>>
    BY <1>11 DEF StopFlush, BufferDiscipline
  <2>2. file' = file \o active \o <<>> /\ flushing' = <<>> /\ active' = <<>>
        /\ (synced' = synced \/ synced' = Len(file'))
    BY <1>11, <2>1 DEF StopFlush, FlushSync
  <2>3. file' = file \o active
    BY <1>a, <2>2, MovingParts
  <2>4. file' \in Seq(Record) /\ Len(file') = Len(file) + Len(active)
    BY <1>a, <2>3, MovingParts
  <2>5. Log' = file'
    <3>1. Log' = file' \o <<>> \o <<>>
      BY <2>2 DEF Log
    <3> QED BY <2>4, <3>1, ConcatEmptySeq
  <2>6. Log = file \o active
    BY <1>a, <2>1, MovingParts DEF Log
  <2> QED BY <1>a, <1>b, <1>d, <2>2, <2>3, <2>4, <2>5, <2>6
<1>12. CASE StopClose
  <2>1. ProcessGone /\ file' = file /\ (synced' = synced \/ synced' = Len(file))
    BY <1>12 DEF StopClose
  <2>2. Len(file) \in synced .. Len(file) /\ synced' \in synced .. Len(file)
    BY <1>a, <2>1
  <2> QED BY <1>e, <1>f, <2>1, <2>2
<1>13. CASE Crash
  <2>1. PICK n \in synced .. Len(file) :
          file' = SubSeq(file, 1, n) \o <<>> /\ synced' = IF n = Len(file) THEN synced ELSE n
    BY <1>13 DEF Crash
  <2>2. SubSeq(file, 1, n) \in Seq(Record)
    BY <1>a, PrefixType
  <2>3. file' = SubSeq(file, 1, n)
    BY <2>1, <2>2, ConcatEmptySeq
  <2>4. synced' \in synced .. n
    BY <1>a, <2>1
  <2> QED BY <1>13, <1>e, <2>3, <2>4 DEF Crash
<1>14. CASE UNCHANGED vars
  BY <1>14, <1>c DEF vars, Log
<1> QED
  BY <1>1, <1>2, <1>3, <1>4, <1>5, <1>6, <1>7, <1>8, <1>9, <1>10, <1>11, <1>12,
     <1>13, <1>14 DEF Next

(* Without rewrites, partial records and flushes by clients, the buffers    *)
(* and the file together are an append-only log: records are accepted at    *)
(* its end, reach the file and the disk in that order, and a death of the   *)
(* process or of the machine cuts a tail that was not synced.               *)
THEOREM LogIsImplemented ==
  ASSUME Policy # "always", "torn" \notin Faults, MaxRewrites = 0
  PROVE  Spec => ImplementsLog
<1>1. Init => AbstractLog!Init
  <2>1. Init => Log = <<>> /\ Len(file) = 0
    <3>1. <<>> \o <<>> = <<>> /\ Len(<<>>) = 0
      BY ConcatEmptySeq, EmptySeq
    <3> QED BY <3>1, Zenon DEF Init, Log
  <2> QED BY <2>1 DEF Init, AbstractLog!Init
<1>2. TypeOK /\ TypeOK' /\ BufferDiscipline /\ NoClientFlush /\ [Next]_vars
        => [AbstractLog!Next]_(AbstractLog!vars)
  BY LogStep
<1>3. Spec => []BufferDiscipline
  BY Discipline
<1>4. Spec => []NoClientFlush
  BY NoClientFlushInv
<1> QED BY <1>1, <1>2, <1>3, <1>4, TypeCorrect, PTL DEF Spec, ImplementsLog, AbstractLog!Spec
-----------------------------------------------------------------------------
(* No record but a partial one stands twice in s. *)
Once(s) == \A i, j \in 1 .. Len(s) : s[i] = s[j] /\ s[i] # Torn => i = j

LEMMA OnceEmpty == Once(<<>>)
BY DEF Once

LEMMA OnceConcat ==
  ASSUME NEW S, NEW s \in Seq(S), NEW t \in Seq(S)
  PROVE  Once(s \o t) <=> Once(s) /\ Once(t) /\ Elems(s) \cap Elems(t) \subseteq {Torn}
<1> DEFINE u == s \o t
           m == Len(s)
<1>1. /\ u \in Seq(S) /\ Len(u) = m + Len(t) /\ m \in Nat /\ Len(t) \in Nat
      /\ \A i \in 1 .. m : u[i] = s[i]
      /\ \A j \in 1 .. Len(t) : u[m + j] = t[j]
  BY ConcatPlaces
<1>2. Elems(s) = {s[i] : i \in 1 .. m} /\ Elems(t) = {t[i] : i \in 1 .. Len(t)}
  BY ElemsType
<1> HIDE DEF u, m
<1>3. \A i \in 1 .. m : i \in 1 .. Len(u)
  BY <1>1
<1>4. \A j \in 1 .. Len(t) : m + j \in 1 .. Len(u)
  BY <1>1
<1>5. \A i \in 1 .. Len(u) : i \in 1 .. m \/ \E j \in 1 .. Len(t) : i = m + j
  <2> SUFFICES ASSUME NEW i \in 1 .. Len(u), i \notin 1 .. m
               PROVE  \E j \in 1 .. Len(t) : i = m + j
    OBVIOUS
  <2>1. i - m \in 1 .. Len(t) /\ i = m + (i - m)
    BY <1>1
  <2> QED BY <2>1
<1>6. ASSUME Once(u) PROVE Once(s)
  BY <1>6, <1>1, <1>3 DEF Once, m
<1>7. ASSUME Once(u) PROVE Once(t)
  <2> SUFFICES ASSUME NEW i \in 1 .. Len(t), NEW j \in 1 .. Len(t), t[i] = t[j], t[i] # Torn
               PROVE  i = j
    BY DEF Once
  <2>1. u[m + i] = u[m + j] /\ u[m + i] # Torn
    BY <1>1
  <2>2. m + i = m + j
    BY <1>7, <1>4, <2>1 DEF Once
  <2> QED BY <1>1, <2>2
<1>8. ASSUME Once(u) PROVE Elems(s) \cap Elems(t) \subseteq {Torn}
  <2> SUFFICES ASSUME NEW x \in Elems(s), x \in Elems(t), x # Torn PROVE FALSE
    OBVIOUS
  <2>1. PICK i \in 1 .. m : x = s[i]
    BY <1>2
  <2>2. PICK j \in 1 .. Len(t) : x = t[j]
    BY <1>2
  <2>3. u[i] = x /\ u[m + j] = x
    BY <1>1, <2>1, <2>2
  <2>4. i = m + j
    BY <1>8, <1>3, <1>4, <2>3 DEF Once
  <2> QED BY <1>1, <2>4
<1>9. ASSUME Once(s), Once(t), Elems(s) \cap Elems(t) \subseteq {Torn} PROVE Once(u)
  <2> SUFFICES ASSUME NEW i \in 1 .. Len(u), NEW j \in 1 .. Len(u), u[i] = u[j], u[i] # Torn
               PROVE  i = j
    BY DEF Once
  <2>1. CASE i \in 1 .. m /\ j \in 1 .. m
    BY <1>1, <1>9, <2>1 DEF Once, m
  <2>2. ASSUME NEW k \in 1 .. m, NEW l \in 1 .. Len(t) PROVE u[k] # u[m + l] \/ u[k] = Torn
    BY <1>1, <1>2, <1>9
  <2>3. CASE i \in 1 .. m /\ j \notin 1 .. m
    BY <1>5, <2>2, <2>3
  <2>4. CASE i \notin 1 .. m /\ j \in 1 .. m
    BY <1>5, <2>2, <2>4
  <2>5. CASE i \notin 1 .. m /\ j \notin 1 .. m
    <3>1. PICK k \in 1 .. Len(t) : i = m + k
      BY <1>5, <2>5
    <3>2. PICK l \in 1 .. Len(t) : j = m + l
      BY <1>5, <2>5
    <3>3. t[k] = t[l] /\ t[k] # Torn
      BY <1>1, <3>1, <3>2
    <3>4. k = l
      BY <1>9, <3>3 DEF Once
    <3> QED BY <3>1, <3>2, <3>4
  <2> QED BY <2>1, <2>3, <2>4, <2>5
<1>10. Once(u) <=> Once(s) /\ Once(t) /\ Elems(s) \cap Elems(t) \subseteq {Torn}
  BY <1>6, <1>7, <1>8, <1>9
<1> QED BY <1>10 DEF u

LEMMA OncePrefix ==
  ASSUME NEW S, NEW s \in Seq(S), NEW n \in 0 .. Len(s), Once(s)
  PROVE  /\ Once(SubSeq(s, 1, n)) /\ SubSeq(s, 1, n) \in Seq(S)
         /\ Elems(SubSeq(s, 1, n)) \subseteq Elems(s)
<1>1. SubSeq(s, 1, n) \in Seq(S) /\ Len(SubSeq(s, 1, n)) = n
  BY PrefixType
<1>2. \A i \in 1 .. n : SubSeq(s, 1, n)[i] = s[i] /\ i \in 1 .. Len(s)
  BY SubSeqProperties, LenProperties
<1>3. Once(SubSeq(s, 1, n))
  BY <1>1, <1>2 DEF Once
<1>4. Elems(SubSeq(s, 1, n)) = {s[i] : i \in 1 .. n} /\ Elems(s) = {s[i] : i \in 1 .. Len(s)}
  BY ElemsOfPrefix, ElemsType
<1> QED BY <1>1, <1>2, <1>3, <1>4

(* One record more. *)
LEMMA OnceLonger ==
  ASSUME NEW S, NEW s \in Seq(S), NEW x \in S, Once(s), x = Torn \/ x \notin Elems(s)
  PROVE  Once(Append(s, x)) /\ Once(s \o <<x>>) /\ Elems(s \o <<x>>) = Elems(s) \cup {x}
<1>1. Append(s, x) = s \o <<x>>
  BY AppendIsConcat
<1>2. <<x>> \in Seq(S) /\ Once(<<x>>) /\ Elems(<<x>>) = {x}
  <2>1. <<x>> \in Seq(S) /\ Len(<<x>>) = 1 /\ <<x>>[1] = x
    OBVIOUS
  <2>2. Elems(<<x>>) = {<<x>>[i] : i \in 1 .. 1}
    BY <2>1, ElemsType
  <2> QED BY <2>1, <2>2 DEF Once
<1>3. Elems(s) \cap Elems(<<x>>) \subseteq {Torn}
  BY <1>2
<1>4. Once(s \o <<x>>)
  BY <1>2, <1>3, OnceConcat
<1>5. Elems(s \o <<x>>) = Elems(s) \cup Elems(<<x>>)
  BY <1>2, ElemsConcat, ZenonT(60)
<1> QED BY <1>1, <1>2, <1>4, <1>5

-----------------------------------------------------------------------------
(* Why no command is logged twice: the file and the buffers have no record  *)
(* in common, and a worker that has applied a command is the first to log   *)
(* it, for it numbers its commands, in all lives of the process.            *)
OneCopy ==
  /\ Once(file) /\ Once(flushing) /\ Once(active)
  /\ Elems(file) \cap Elems(flushing) = {}
  /\ Elems(file) \cap Elems(active) = {}
  /\ Elems(flushing) \cap Elems(active) = {}

Logged == Elems(file) \cup Elems(flushing) \cup Elems(active)

Numbered ==
  \A c \in Clients : \A n \in 1 .. MaxCmds :
    <<c, n>> \in Logged => n <= issued[c] /\ (cpc[c] = "applied" => n # issued[c])

LEMMA OneCopyStep ==
  ASSUME MaxRewrites = 0, TypeOK, TypeOK', BufferDiscipline, OneCopy, Numbered, [Next]_vars
  PROVE  OneCopy' /\ Numbered'
<1> USE DEF memory, disk, flags, client, bounds
<1>a. /\ file \in Seq(Record) /\ flushing \in Seq(Cmd) /\ active \in Seq(Cmd)
      /\ flushing \in Seq(Record) /\ active \in Seq(Record)
      /\ issued \in [Clients -> 0 .. MaxCmds] /\ MaxCmds \in Nat
  BY CommandsAreRecords, BoundsAssumption DEF TypeOK
<1>b. Elems(flushing) \subseteq Cmd /\ Elems(active) \subseteq Cmd /\ Torn \notin Cmd
  BY <1>a, ElemsType, TornAssumption
<1>c. ASSUME UNCHANGED issued, Logged' \cap Cmd \subseteq Logged,
             \A c \in Clients : cpc'[c] = "applied" => cpc[c] = "applied"
      PROVE  Numbered'
  <2> SUFFICES ASSUME NEW c \in Clients, NEW n \in 1 .. MaxCmds, <<c, n>> \in Logged'
               PROVE  n <= issued'[c] /\ (cpc'[c] = "applied" => n # issued'[c])
    BY DEF Numbered
  <2>1. <<c, n>> \in Cmd
    BY DEF Cmd
  <2>2. <<c, n>> \in Logged
    BY <1>c, <2>1
  <2> QED BY <1>c, <2>2 DEF Numbered
<1>d. ASSUME UNCHANGED <<file, flushing, active>> PROVE OneCopy' /\ Logged' = Logged
  BY <1>d DEF OneCopy, Logged
<1>e. ASSUME ProcessGone, Once(file'), Elems(file') \subseteq Elems(file) \cup {Torn}
      PROVE  OneCopy' /\ Numbered'
  <2>1. flushing' = <<>> /\ active' = <<>> /\ UNCHANGED issued
        /\ \A c \in Clients : cpc'[c] # "applied"
    BY <1>e DEF ProcessGone
  <2>2. OneCopy'
    BY <1>e, <2>1, OnceEmpty, ElemsEmpty DEF OneCopy
  <2>3. Logged' \cap Cmd \subseteq Logged
    BY <1>b, <1>e, <2>1, ElemsEmpty DEF Logged
  <2> QED BY <1>c, <2>1, <2>2, <2>3
<1>f. ASSUME FlushSync PROVE OneCopy' /\ Logged' = Logged
  <2>1. CASE open
    <3>1. file' = file \o active \o flushing /\ active' = <<>> /\ flushing' = <<>>
      BY <1>f, <2>1 DEF FlushSync
    <3>2. /\ file \o active \in Seq(Record) /\ Elems(file \o active) = Elems(file) \cup Elems(active)
          /\ Once(file \o active)
      BY <1>a, ConcatProperties, ElemsConcat, OnceConcat DEF OneCopy
    <3> DEFINE g == file \o active
    <3>3. g \in Seq(Record) /\ Elems(g) = Elems(file) \cup Elems(active) /\ Once(g)
      BY <3>2
    <3> HIDE DEF g
    <3>4. Elems(g) \cap Elems(flushing) \subseteq {Torn}
      BY <3>3 DEF OneCopy
    <3>5. Once(g \o flushing) /\ Elems(g \o flushing) = Elems(g) \cup Elems(flushing)
      BY <1>a, <3>3, <3>4, ElemsConcat, OnceConcat DEF OneCopy
    <3>6. Once(file') /\ Elems(file') = Elems(g) \cup Elems(flushing)
      BY <3>1, <3>5 DEF g
    <3> QED BY <3>1, <3>3, <3>6, OnceEmpty, ElemsEmpty DEF OneCopy, Logged
  <2>2. CASE ~open
    BY <1>d, <1>f, <2>2 DEF FlushSync
  <2> QED BY <2>1, <2>2
<1>1. CASE Start
  <2>1. UNCHANGED <<file, flushing, active, issued, cpc>>
    BY <1>1 DEF Start
  <2> QED BY <1>c, <1>d, <2>1
<1>2. ASSUME NEW c \in Clients, Apply(c) PROVE OneCopy' /\ Numbered'
  <2>1. /\ UNCHANGED <<file, flushing, active>> /\ issued' = [issued EXCEPT ![c] = @ + 1]
        /\ cpc' = [cpc EXCEPT ![c] = "applied"]
    BY <1>2 DEF Apply
  <2>2. ASSUME NEW d \in Clients, NEW n \in 1 .. MaxCmds, <<d, n>> \in Logged
        PROVE  n <= issued'[d] /\ (cpc'[d] = "applied" => n # issued'[d])
    <3>1. n <= issued[d] /\ (cpc[d] = "applied" => n # issued[d]) /\ issued[d] \in Nat /\ n \in Nat
      BY <1>a, <2>2 DEF Numbered
    <3>2. CASE d = c
      <4>1. issued'[d] = issued[d] + 1
        BY <1>a, <2>1, <3>2
      <4> QED BY <3>1, <4>1
    <3>3. CASE d # c
      BY <1>a, <2>1, <3>1, <3>3 DEF TypeOK
    <3> QED BY <3>2, <3>3
  <2>3. OneCopy' /\ Logged' = Logged
    BY <1>d, <2>1
  <2> QED BY <2>2, <2>3 DEF Numbered
<1>3. ASSUME NEW c \in Clients, AppendCmd(c) PROVE OneCopy' /\ Numbered'
  <2> DEFINE x == <<c, issued[c]>>
  <2>1. /\ cpc[c] = "applied" /\ active' = Append(active, x)
        /\ UNCHANGED <<file, flushing, issued>>
        /\ \E p \in {"idle", "flush"} : cpc' = [cpc EXCEPT ![c] = p]
    BY <1>3 DEF AppendCmd, Current
  <2>2. issued[c] \in 1 .. MaxCmds /\ x \in Cmd /\ x # Torn
    BY <1>a, <1>b, <2>1 DEF TypeOK, Cmd
  <2>3. x \notin Logged
    BY <2>1, <2>2 DEF Numbered
  <2>4. x \notin Elems(active)
    BY <2>3 DEF Logged
  <2> HIDE DEF x
  <2>5. Once(active') /\ Elems(active') = Elems(active) \cup {x}
    <3>1. Once(active) /\ active \in Seq(Cmd)
      BY <1>a DEF OneCopy
    <3>2. Once(Append(active, x))
      BY <3>1, <2>2, <2>4, OnceLonger
    <3>3. Elems(Append(active, x)) = Elems(active) \cup {x}
      BY <3>1, <2>2, ElemsAppend
    <3>4. active' = Append(active, x)
      BY <2>1
    <3> QED BY <3>2, <3>3, <3>4, Zenon
  <2>6. OneCopy' /\ Logged' = Logged \cup {x}
    BY <2>1, <2>3, <2>5 DEF OneCopy, Logged
  <2>7. ASSUME NEW d \in Clients, NEW n \in 1 .. MaxCmds, <<d, n>> \in Logged'
        PROVE  n <= issued'[d] /\ (cpc'[d] = "applied" => n # issued'[d])
    <3>1. cpc'[d] = "applied" => cpc[d] = "applied" /\ d # c
      BY <2>1 DEF TypeOK
    <3>2. CASE <<d, n>> \in Logged
      BY <2>1, <3>1, <3>2 DEF Numbered
    <3>3. CASE <<d, n>> = x
      <4>1. d = c /\ n = issued[c]
        BY <3>3 DEF x
      <4> QED BY <2>1, <3>1, <4>1
    <3> QED BY <2>6, <2>7, <3>2, <3>3
  <2> QED BY <2>6, <2>7 DEF Numbered
<1>4. ASSUME NEW c \in Clients, FlushCmd(c) PROVE OneCopy' /\ Numbered'
  <2>1. FlushSync /\ UNCHANGED issued /\ cpc' = [cpc EXCEPT ![c] = "idle"]
    BY <1>4 DEF FlushCmd
  <2>2. \A d \in Clients : cpc'[d] = "applied" => cpc[d] = "applied"
    BY <2>1 DEF TypeOK
  <2> QED BY <1>c, <1>f, <2>1, <2>2
<1>5. CASE WriterLoop \/ StopJoinWriter \/ StopJoinRewriter
  <2>1. UNCHANGED <<file, flushing, active, issued, cpc>>
    BY <1>5 DEF WriterLoop, StopJoinWriter, StopJoinRewriter
  <2> QED BY <1>c, <1>d, <2>1
<1>6. CASE WriterSwap
  <2>1. UNCHANGED <<file, issued, cpc>>
    BY <1>6 DEF WriterSwap
  <2>2. \/ UNCHANGED <<flushing, active>>
        \/ flushing' = active /\ active' = flushing
    BY <1>6 DEF WriterSwap
  <2>3. OneCopy' /\ Logged' = Logged
    BY <2>1, <2>2 DEF OneCopy, Logged
  <2> QED BY <1>c, <2>1, <2>3
<1>7. ASSUME NEW second \in BOOLEAN, WriterWrite(second) PROVE OneCopy' /\ Numbered'
  <2>1. open /\ UNCHANGED <<active, issued, cpc>>
    BY <1>7 DEF WriterWrite, BufferDiscipline
  <2>2. file' = file \o flushing /\ flushing' = <<>>
    BY <1>7, <2>1 DEF WriterWrite
  <2>3. Elems(file') = Elems(file) \cup Elems(flushing) /\ Once(file')
    BY <1>a, <2>2, ElemsConcat, OnceConcat DEF OneCopy
  <2>4. OneCopy' /\ Logged' = Logged
    BY <2>1, <2>2, <2>3, OnceEmpty, ElemsEmpty DEF OneCopy, Logged
  <2> QED BY <1>c, <2>1, <2>4
<1>8. ASSUME NEW c \in Clients PROVE ~RewriteBegin(c) /\ ~RewriteSpawn(c)
  <2>1. ~(rewrites < MaxRewrites)
    BY BoundsAssumption DEF TypeOK
  <2> QED BY <2>1 DEF RewriteBegin, RewriteSpawn, BufferDiscipline
<1>9. ~RewriteDump /\ ~RewriteInstall /\ ~RewriteFinish
  BY DEF RewriteDump, RewriteInstall, RewriteFinish, BufferDiscipline
<1>10. CASE StopBegin
  <2>1. CASE running
    <3>1. UNCHANGED <<file, flushing, active, issued, cpc>>
      BY <1>10, <2>1 DEF StopBegin
    <3> QED BY <1>c, <1>d, <3>1
  <2>2. CASE ~running
    BY <1>10, <1>e, <2>2 DEF StopBegin, OneCopy
  <2> QED BY <2>1, <2>2
<1>11. CASE StopFlush
  BY <1>11, <1>c, <1>f DEF StopFlush
<1>12. CASE StopClose
  BY <1>12, <1>e DEF StopClose, OneCopy
<1>13. CASE Crash
  <2>1. PICK n \in synced .. Len(file), tail \in {<<>>, <<Torn>>} :
          file' = SubSeq(file, 1, n) \o tail
    BY <1>13 DEF Crash
  <2>2. n \in 0 .. Len(file)
    BY DEF TypeOK
  <2> DEFINE g == SubSeq(file, 1, n)
  <2>3. g \in Seq(Record) /\ Once(g) /\ Elems(g) \subseteq Elems(file)
    BY <1>a, <2>2, OncePrefix DEF OneCopy
  <2> HIDE DEF g
  <2>4. CASE tail = <<>>
    <3>1. file' = g
      BY <2>1, <2>3, <2>4, ConcatEmptySeq DEF g
    <3> QED BY <1>13, <1>e, <2>3, <3>1 DEF Crash
  <2>5. CASE tail = <<Torn>>
    <3>1. file' = g \o <<Torn>>
      BY <2>1, <2>5 DEF g
    <3>2. Torn \in Record
      BY DEF Record
    <3>3. Once(file') /\ Elems(file') = Elems(g) \cup {Torn}
      BY <2>3, <3>1, <3>2, OnceLonger
    <3> QED BY <1>13, <1>e, <2>3, <3>3 DEF Crash
  <2> QED BY <2>4, <2>5
<1>14. CASE UNCHANGED vars
  <2>1. UNCHANGED <<file, flushing, active, issued, cpc>>
    BY <1>14 DEF vars
  <2> QED BY <1>c, <1>d, <2>1
<1> QED
  BY <1>1, <1>2, <1>3, <1>4, <1>5, <1>6, <1>7, <1>8, <1>9, <1>10, <1>11, <1>12,
     <1>13, <1>14 DEF Next

(* Without rewrites no command is logged twice, whoever of the writer,      *)
(* clients and stop empties the buffers, through crashes and torn records.  *)
THEOREM LoggedOnce ==
  ASSUME MaxRewrites = 0
  PROVE  Spec => []NoDuplicate
<1>1. Init => OneCopy /\ Numbered
  BY OnceEmpty, ElemsEmpty DEF Init, OneCopy, Numbered, Logged
<1>2. TypeOK /\ TypeOK' /\ BufferDiscipline /\ OneCopy /\ Numbered /\ [Next]_vars
        => OneCopy' /\ Numbered'
  BY OneCopyStep
<1>3. TypeOK /\ OneCopy => NoDuplicate
  <2> SUFFICES ASSUME TypeOK, OneCopy PROVE NoDuplicate
    OBVIOUS
  <2>1. file \in Seq(Record) /\ flushing \in Seq(Record) /\ active \in Seq(Record)
    BY CommandsAreRecords DEF TypeOK
  <2> DEFINE g == file \o flushing
  <2>2. g \in Seq(Record) /\ Once(g) /\ Elems(g) = Elems(file) \cup Elems(flushing)
    BY <2>1, ConcatProperties, ElemsConcat, OnceConcat DEF OneCopy
  <2> HIDE DEF g
  <2>3. Elems(g) \cap Elems(active) \subseteq {Torn}
    BY <2>2 DEF OneCopy
  <2>4. Once(g \o active) /\ g \o active \in Seq(Record)
    BY <2>1, <2>2, <2>3, ConcatProperties, OnceConcat DEF OneCopy
  <2>5. Log \in Seq(Record) /\ Once(Log)
    BY <2>4 DEF g, Log
  <2> QED BY <2>5 DEF NoDuplicate, Once
<1>4. Spec => []BufferDiscipline
  BY Discipline
<1> QED BY <1>1, <1>2, <1>3, <1>4, TypeCorrect, PTL DEF Spec

-----------------------------------------------------------------------------
(* The records of one worker in a file and two buffers. *)
LEMMA OwnType ==
  ASSUME NEW S, NEW c, NEW s \in Seq(S)
  PROVE  Own(c, s) \in Seq(S)
BY FilterType DEF Own

LEMMA OwnEmpty ==
  ASSUME NEW c
  PROVE  Own(c, <<>>) = <<>>
BY FilterEmpty DEF Own

LEMMA OwnThree ==
  ASSUME NEW c, NEW f \in Seq(Cmd), NEW s \in Seq(Cmd), NEW t \in Seq(Cmd)
  PROVE  Own(c, f \o s \o t) = Own(c, f) \o Own(c, s) \o Own(c, t)
<1> DEFINE u == f \o s
<1>1. u \in Seq(Cmd) /\ Own(c, u) = Own(c, f) \o Own(c, s)
  BY ConcatProperties, FilterConcat, SMTT(60) DEF Own
<1> HIDE DEF u
<1>2. \A T : Filter(u \o t, T) = Filter(u, T) \o Filter(t, T)
  BY <1>1, FilterConcat, SMTT(60)
<1>3. Own(c, u \o t) = Own(c, u) \o Own(c, t)
  BY <1>2, Zenon DEF Own
<1> QED BY <1>1, <1>3, Zenon DEF u

LEMMA OwnAppend ==
  ASSUME NEW s \in Seq(Cmd), NEW c \in Clients, NEW d \in Clients, NEW n \in 1 .. MaxCmds
  PROVE  Own(c, Append(s, <<d, n>>)) = IF d = c THEN Append(Own(c, s), <<d, n>>) ELSE Own(c, s)
<1> DEFINE x == <<d, n>>
           T == {c} \X (1 .. MaxCmds)
<1>1. x \in Cmd /\ (x \in T <=> d = c)
  BY DEF Cmd
<1> HIDE DEF x, T
<1>2. Filter(Append(s, x), T) = IF x \in T THEN Append(Filter(s, T), x) ELSE Filter(s, T)
  BY <1>1, FilterAppend
<1> QED BY <1>1, <1>2 DEF Own, x, T

(* The buffers may be written in either order as far as c can tell. *)
LEMMA EitherOrder ==
  ASSUME NEW c, NEW f \in Seq(Cmd), NEW s \in Seq(Cmd), NEW t \in Seq(Cmd),
         Own(c, s) = <<>> \/ Own(c, t) = <<>>
  PROVE  Own(c, f \o t \o s) = Own(c, f \o s \o t)
<1> DEFINE F == Own(c, f)
           G == Own(c, s)
           H == Own(c, t)
<1>1. F \in Seq(Cmd) /\ G \in Seq(Cmd) /\ H \in Seq(Cmd)
  BY OwnType
<1>2. Own(c, f \o t \o s) = F \o H \o G /\ Own(c, f \o s \o t) = F \o G \o H
  <2>1. Own(c, f \o t \o s) = F \o H \o G
    BY OwnThree
  <2>2. Own(c, f \o s \o t) = F \o G \o H
    BY OwnThree
  <2> QED BY <2>1, <2>2
<1>3. G = <<>> \/ H = <<>>
  OBVIOUS
<1> HIDE DEF F, G, H
<1>4. CASE G = <<>>
  <2>1. F \o H \o <<>> = F \o H /\ F \o <<>> \o H = F \o H
    BY <1>1, MovingParts
  <2> QED BY <1>2, <1>4, <2>1
<1>5. CASE H = <<>>
  <2>1. F \o G \o <<>> = F \o G /\ F \o <<>> \o G = F \o G
    BY <1>1, MovingParts
  <2> QED BY <1>2, <1>5, <2>1
<1> QED BY <1>3, <1>4, <1>5

-----------------------------------------------------------------------------
(* Why each worker's commands stay in order under "always", where a client  *)
(* writes the active buffer in front of the flushing one: with the file open *)
(* a worker has at most one command in the buffers, that it is flushing.    *)
InStep ==
  spc = "up" => \A c \in Clients :
    /\ cpc[c] = "applied" => Own(c, store) = Append(Own(c, Log), Current(c))
    /\ cpc[c] # "applied" => Own(c, store) = Own(c, Log)

OneBuffer ==
  Policy = "always" /\ open => \A c \in Clients :
    /\ Own(c, flushing) = <<>> \/ Own(c, active) = <<>>
    /\ cpc[c] # "flush" => Own(c, flushing) = <<>> /\ Own(c, active) = <<>>

PerWorker ==
  /\ file \in Seq(Cmd)
  /\ spc \in {"down", "dead"} => active = <<>>
  /\ Policy # "always" => NoClientFlush
  /\ InStep /\ OneBuffer

(* Steps of the writer leave the log as it is. *)
LEMMA SameLog ==
  ASSUME TypeOK, BufferDiscipline, WriterSwap \/ \E second \in BOOLEAN : WriterWrite(second)
  PROVE  Log' = Log
<1>a. file \in Seq(Record) /\ flushing \in Seq(Record) /\ active \in Seq(Record)
  BY CommandsAreRecords DEF TypeOK
<1>1. CASE WriterSwap
  <2>1. CASE active = <<>>
    BY <1>1, <2>1 DEF WriterSwap, Log, disk
  <2>2. CASE active # <<>>
    <3>1. flushing = <<>>
      BY <1>1 DEF WriterSwap, BufferDiscipline
    <3>2. flushing' = active /\ active' = <<>> /\ UNCHANGED disk
      BY <1>1, <2>2, <3>1 DEF WriterSwap
    <3> QED BY <1>a, <3>1, <3>2, MovingParts DEF Log, disk
  <2> QED BY <2>1, <2>2
<1>2. ASSUME NEW second \in BOOLEAN, WriterWrite(second) PROVE Log' = Log
  <2>1. file' = file \o flushing /\ flushing' = <<>> /\ active' = active
    BY <1>2 DEF WriterWrite, BufferDiscipline
  <2>2. file' \in Seq(Record)
    BY <1>a, <2>1, MovingParts
  <2>3. Log' = file' \o <<>> \o active
    BY <2>1 DEF Log
  <2>4. Log' = file' \o active
    BY <1>a, <2>2, <2>3, MovingParts
  <2> QED BY <2>1, <2>4 DEF Log
<1> QED BY <1>1, <1>2

LEMMA PerWorkerStep ==
  ASSUME MaxRewrites = 0, "torn" \notin Faults, TypeOK, TypeOK', BufferDiscipline,
         BufferDiscipline', PerWorker, [Next]_vars
  PROVE  PerWorker'
<1> USE DEF memory, disk, flags, client, bounds
<1>a. /\ file \in Seq(Cmd) /\ flushing \in Seq(Cmd) /\ active \in Seq(Cmd) /\ store \in Seq(Cmd)
      /\ issued \in [Clients -> 0 .. MaxCmds] /\ MaxCmds \in Nat
      /\ Log \in Seq(Cmd) /\ Policy \in {"always", "everysec", "no"}
  <2>1. /\ file \in Seq(Cmd) /\ flushing \in Seq(Cmd) /\ active \in Seq(Cmd) /\ store \in Seq(Cmd)
        /\ issued \in [Clients -> 0 .. MaxCmds] /\ MaxCmds \in Nat
        /\ Policy \in {"always", "everysec", "no"}
    BY BoundsAssumption, PolicyAssumption DEF TypeOK, PerWorker
  <2> QED BY <2>1, MovingParts DEF Log
<1>b. ASSUME ProcessGone, spc' # "up", file' \in Seq(Cmd) PROVE PerWorker'
  BY <1>b DEF ProcessGone, PerWorker, InStep, OneBuffer, NoClientFlush
<1>c. ASSUME UNCHANGED <<file, flushing, active, store, issued, cpc, open>>,
             spc' = spc \/ spc' \notin {"up", "down", "dead"}
      PROVE  PerWorker'
  <2>1. Log' = Log /\ \A c \in Clients : Current(c)' = Current(c)
    BY <1>c DEF Log, Current
  <2>2. InStep'
    BY <1>c, <2>1 DEF PerWorker, InStep
  <2>3. OneBuffer'
    BY <1>c DEF PerWorker, OneBuffer
  <2> QED BY <1>c, <2>2, <2>3 DEF PerWorker, NoClientFlush
<1>d. ASSUME FlushSync, UNCHANGED <<store, issued, open>>,
             spc' = spc \/ spc' \notin {"up", "down", "dead"},
             spc' = "up" => Policy = "always",
             \A c \in Clients : cpc'[c] = cpc[c] \/ (cpc[c] = "flush" /\ cpc'[c] = "idle")
      PROVE  PerWorker'
  <2>1. CASE ~open
    <3>1. UNCHANGED <<file, flushing, active>>
      BY <1>d, <2>1 DEF FlushSync
    <3>2. Log' = Log /\ \A c \in Clients : Current(c)' = Current(c)
      BY <1>d, <3>1 DEF Log, Current
    <3>3. InStep'
      BY <1>d, <3>2 DEF PerWorker, InStep
    <3>4. OneBuffer'
      BY <1>d, <2>1 DEF OneBuffer
    <3> QED BY <1>d, <3>1, <3>3, <3>4 DEF PerWorker, NoClientFlush
  <2>2. CASE open
    <3>1. file' = file \o active \o flushing /\ active' = <<>> /\ flushing' = <<>>
      BY <1>d, <2>2 DEF FlushSync
    <3>2. file' \in Seq(Cmd)
      BY <1>a, <3>1, MovingParts
    <3>3. Log' = file'
      <4>1. Log' = file' \o <<>> \o <<>>
        BY <3>1 DEF Log
      <4> QED BY <3>2, <4>1, MovingParts, ConcatEmptySeq
    <3>4. ASSUME NEW c \in Clients, spc' = "up" PROVE Own(c, Log') = Own(c, Log)
      <4>1. Own(c, flushing) = <<>> \/ Own(c, active) = <<>>
        BY <1>d, <2>2, <3>4 DEF PerWorker, OneBuffer
      <4>2. Own(c, file \o active \o flushing) = Own(c, file \o flushing \o active)
        BY <1>a, <4>1, EitherOrder
      <4> QED BY <3>1, <3>3, <4>2 DEF Log
    <3>5. InStep'
      <4> SUFFICES ASSUME spc' = "up", NEW c \in Clients
                   PROVE  /\ cpc'[c] = "applied" => Own(c, store') = Append(Own(c, Log'), Current(c)')
                          /\ cpc'[c] # "applied" => Own(c, store') = Own(c, Log')
        BY DEF InStep
      <4>1. Own(c, Log') = Own(c, Log) /\ Current(c)' = Current(c) /\ store' = store /\ spc = "up"
        BY <1>d, <3>4 DEF Current
      <4>2. cpc'[c] = "applied" <=> cpc[c] = "applied"
        BY <1>d
      <4> QED BY <4>1, <4>2 DEF PerWorker, InStep
    <3>6. OneBuffer'
      BY <3>1, OwnEmpty DEF OneBuffer
    <3> QED BY <1>d, <3>1, <3>2, <3>5, <3>6 DEF PerWorker, NoClientFlush
  <2> QED BY <2>1, <2>2
<1>1. CASE Start
  <2>1. /\ UNCHANGED <<file, flushing, active, issued, cpc>> /\ store' = Loadable(file)
        /\ spc \in {"down", "dead"} /\ spc' = "up"
    BY <1>1 DEF Start
  <2>2. active = <<>> /\ flushing = <<>> /\ \A c \in Clients : cpc[c] = "idle"
    BY <2>1 DEF PerWorker, BufferDiscipline
  <2>3. store' = file
    BY <1>a, <2>1, LoadableWhole
  <2>4. Log' = file
    <3>1. Log' = file \o <<>> \o <<>>
      BY <2>1, <2>2 DEF Log
    <3> QED BY <1>a, <3>1, MovingParts, ConcatEmptySeq
  <2>5. InStep'
    BY <2>1, <2>2, <2>3, <2>4 DEF InStep
  <2>6. OneBuffer'
    BY <2>1, <2>2, OwnEmpty DEF OneBuffer
  <2> QED BY <2>1, <2>2, <2>5, <2>6, <1>a DEF PerWorker, NoClientFlush
<1>2. ASSUME NEW c \in Clients, Apply(c) PROVE PerWorker'
  <2>1. /\ UNCHANGED <<file, flushing, active, open, spc>> /\ issued' = [issued EXCEPT ![c] = @ + 1]
        /\ cpc' = [cpc EXCEPT ![c] = "applied"] /\ cpc[c] = "idle" /\ spc = "up"
        /\ store' = Append(store, <<c, issued[c] + 1>>) /\ issued[c] < MaxCmds
    BY <1>2 DEF Apply
  <2>2. Log' = Log
    BY <2>1 DEF Log
  <2>3. InStep'
    <3> SUFFICES ASSUME NEW d \in Clients
                 PROVE  /\ cpc'[d] = "applied" => Own(d, store') = Append(Own(d, Log'), Current(d)')
                        /\ cpc'[d] # "applied" => Own(d, store') = Own(d, Log')
      BY DEF InStep
    <3>1. issued[c] + 1 \in 1 .. MaxCmds
      BY <1>a, <2>1
    <3>2. Own(d, store') = IF c = d THEN Append(Own(d, store), <<c, issued[c] + 1>>) ELSE Own(d, store)
      BY <1>a, <2>1, <3>1, OwnAppend
    <3>3. CASE d = c
      <4>1. Current(d)' = <<c, issued[c] + 1>> /\ cpc'[d] = "applied"
        BY <1>a, <2>1, <3>3 DEF Current, TypeOK
      <4>2. Own(d, store) = Own(d, Log)
        BY <2>1, <3>3 DEF PerWorker, InStep
      <4> QED BY <2>2, <3>2, <3>3, <4>1, <4>2
    <3>4. CASE d # c
      <4>1. Current(d)' = Current(d) /\ cpc'[d] = cpc[d]
        BY <1>a, <2>1, <3>4 DEF Current, TypeOK
      <4> QED BY <2>1, <2>2, <3>2, <3>4, <4>1 DEF PerWorker, InStep
    <3> QED BY <3>3, <3>4
  <2>4. OneBuffer'
    <3>1. \A d \in Clients : cpc'[d] # "flush" => cpc[d] # "flush"
      BY <2>1 DEF TypeOK
    <3> QED BY <2>1, <3>1 DEF PerWorker, OneBuffer
  <2>5. Policy # "always" => NoClientFlush'
    BY <2>1 DEF PerWorker, NoClientFlush, TypeOK
  <2> QED BY <2>1, <2>3, <2>4, <2>5 DEF PerWorker
<1>3. ASSUME NEW c \in Clients, AppendCmd(c) PROVE PerWorker'
  <2>1. /\ UNCHANGED <<file, flushing, open, spc, store, issued>> /\ cpc[c] = "applied"
        /\ active' = Append(active, Current(c))
        /\ cpc' = [cpc EXCEPT ![c] = IF Policy = "always" THEN "flush" ELSE "idle"]
    BY <1>3 DEF AppendCmd
  <2>2. spc = "up" /\ issued[c] \in 1 .. MaxCmds
    BY <1>a, <2>1 DEF BufferDiscipline, TypeOK
  <2>3. Log' = Append(Log, Current(c))
    <3>1. Current(c) \in Cmd
      BY <2>2 DEF Current, Cmd
    <3> QED BY <1>a, <2>1, <3>1, AppendLast, SMTT(60) DEF Log
  <2>4. ASSUME NEW d \in Clients
        PROVE  /\ Own(d, Log') = IF c = d THEN Append(Own(d, Log), Current(c)) ELSE Own(d, Log)
               /\ Own(d, active') = IF c = d THEN Append(Own(d, active), Current(c)) ELSE Own(d, active)
    BY <1>a, <2>1, <2>2, <2>3, OwnAppend, SMTT(60) DEF Current
  <2>5. InStep'
    <3> SUFFICES ASSUME NEW d \in Clients
                 PROVE  /\ cpc'[d] = "applied" => Own(d, store') = Append(Own(d, Log'), Current(d)')
                        /\ cpc'[d] # "applied" => Own(d, store') = Own(d, Log')
      BY DEF InStep
    <3>1. Current(d)' = Current(d) /\ store' = store
      BY <2>1 DEF Current
    <3>2. CASE d = c
      <4>1. cpc'[d] # "applied"
        BY <2>1, <3>2 DEF TypeOK
      <4>2. Own(d, store) = Append(Own(d, Log), Current(d))
        BY <2>1, <2>2, <3>2 DEF PerWorker, InStep
      <4> QED BY <2>4, <3>1, <3>2, <4>1, <4>2
    <3>3. CASE d # c
      <4>1. cpc'[d] = cpc[d]
        BY <2>1, <3>3 DEF TypeOK
      <4> QED BY <2>2, <2>4, <3>1, <3>3, <4>1 DEF PerWorker, InStep
    <3> QED BY <3>2, <3>3
  <2>6. OneBuffer'
    <3> SUFFICES ASSUME Policy = "always", open, NEW d \in Clients
                 PROVE  /\ Own(d, flushing) = <<>> \/ Own(d, active') = <<>>
                        /\ cpc'[d] # "flush" => Own(d, flushing) = <<>> /\ Own(d, active') = <<>>
      BY <2>1 DEF OneBuffer
    <3>1. CASE d = c
      <4>1. Own(d, flushing) = <<>> /\ cpc'[d] = "flush"
        BY <2>1, <3>1 DEF PerWorker, OneBuffer, TypeOK
      <4> QED BY <4>1
    <3>2. CASE d # c
      <4>1. cpc'[d] = cpc[d] /\ Own(d, active') = Own(d, active)
        BY <2>1, <2>4, <3>2 DEF TypeOK
      <4> QED BY <4>1 DEF PerWorker, OneBuffer
    <3> QED BY <3>1, <3>2
  <2>7. Policy # "always" => NoClientFlush'
    BY <2>1 DEF PerWorker, NoClientFlush, TypeOK
  <2> QED BY <1>a, <2>1, <2>2, <2>5, <2>6, <2>7 DEF PerWorker
<1>4. ASSUME NEW c \in Clients, FlushCmd(c) PROVE PerWorker'
  <2>1. /\ FlushSync /\ UNCHANGED <<store, issued, open, spc>>
        /\ cpc[c] = "flush" /\ cpc' = [cpc EXCEPT ![c] = "idle"]
    BY <1>4 DEF FlushCmd
  <2>2. \A d \in Clients : cpc'[d] = cpc[d] \/ (cpc[d] = "flush" /\ cpc'[d] = "idle")
    BY <2>1 DEF TypeOK
  <2>3. Policy = "always"
    BY <2>1 DEF PerWorker, NoClientFlush
  <2> QED BY <1>d, <2>1, <2>2, <2>3
<1>5. CASE WriterLoop \/ StopJoinWriter \/ StopJoinRewriter
  <2>1. /\ UNCHANGED <<file, flushing, active, store, issued, cpc, open>>
        /\ spc' = spc \/ spc' \notin {"up", "down", "dead"}
    BY <1>5 DEF WriterLoop, StopJoinWriter, StopJoinRewriter
  <2> QED BY <1>c, <2>1
<1>6. CASE WriterSwap \/ \E second \in BOOLEAN : WriterWrite(second)
  <2>1. UNCHANGED <<store, issued, cpc, open, spc>>
    BY <1>6 DEF WriterSwap, WriterWrite
  <2>2. Log' = Log /\ \A c \in Clients : Current(c)' = Current(c)
    BY <1>6, <2>1, SameLog DEF Current
  <2>3. InStep'
    BY <2>1, <2>2 DEF PerWorker, InStep
  <2>4. OneBuffer' /\ file' \in Seq(Cmd) /\ (active' = active \/ spc \notin {"down", "dead"})
    <3>1. CASE WriterSwap
      <4>1. wpc = "wait" /\ file' = file
        BY <3>1 DEF WriterSwap
      <4>2. flushing = <<>> /\ spc \in {"up", "join_writer"}
        BY <4>1 DEF BufferDiscipline
      <4>3. (flushing' = active /\ active' = flushing) \/ (flushing' = flushing /\ active' = active)
        BY <3>1 DEF WriterSwap
      <4> QED BY <1>a, <2>1, <4>1, <4>2, <4>3 DEF PerWorker, OneBuffer
    <3>2. ASSUME NEW second \in BOOLEAN, WriterWrite(second)
          PROVE  OneBuffer' /\ file' \in Seq(Cmd) /\ active' = active
      <4>1. file' = file \o flushing /\ flushing' = <<>> /\ active' = active
        BY <3>2 DEF WriterWrite, BufferDiscipline
      <4>2. file' \in Seq(Cmd)
        BY <1>a, <4>1, MovingParts
      <4>3. \A c \in Clients : Own(c, flushing') = <<>>
        BY <4>1, OwnEmpty
      <4> QED BY <2>1, <4>1, <4>2, <4>3 DEF PerWorker, OneBuffer
    <3> QED BY <1>6, <3>1, <3>2
  <2> QED BY <2>1, <2>3, <2>4 DEF PerWorker, NoClientFlush
<1>8. ASSUME NEW c \in Clients PROVE ~RewriteBegin(c) /\ ~RewriteSpawn(c)
  <2>1. ~(rewrites < MaxRewrites)
    BY BoundsAssumption DEF TypeOK
  <2> QED BY <2>1 DEF RewriteBegin, RewriteSpawn, BufferDiscipline
<1>9. ~RewriteDump /\ ~RewriteInstall /\ ~RewriteFinish
  BY DEF RewriteDump, RewriteInstall, RewriteFinish, BufferDiscipline
<1>10. CASE StopBegin
  <2>1. CASE running
    <3>1. /\ UNCHANGED <<file, flushing, active, store, issued, cpc, open>>
          /\ spc' \notin {"up", "down", "dead"}
      BY <1>10, <2>1 DEF StopBegin
    <3> QED BY <1>c, <3>1
  <2>2. CASE ~running
    BY <1>10, <1>a, <1>b, <2>2 DEF StopBegin
  <2> QED BY <2>1, <2>2
<1>11. CASE StopFlush
  BY <1>11, <1>d DEF StopFlush
<1>12. CASE StopClose
  BY <1>12, <1>a, <1>b DEF StopClose
<1>13. CASE Crash
  <2>1. PICK n \in synced .. Len(file) : file' = SubSeq(file, 1, n) \o <<>>
    BY <1>13 DEF Crash
  <2>2. n \in 0 .. Len(file)
    BY DEF TypeOK
  <2>3. SubSeq(file, 1, n) \in Seq(Cmd)
    BY <1>a, <2>2, PrefixType
  <2>4. file' \in Seq(Cmd)
    BY <2>1, <2>3, ConcatEmptySeq
  <2> QED BY <1>13, <1>b, <2>4 DEF Crash
<1>14. CASE UNCHANGED vars
  <2>1. UNCHANGED <<file, flushing, active, store, issued, cpc, open, spc>>
    BY <1>14 DEF vars
  <2> QED BY <1>c, <2>1
<1> QED
  BY <1>1, <1>2, <1>3, <1>4, <1>5, <1>6, <1>8, <1>9, <1>10, <1>11, <1>12,
     <1>13, <1>14 DEF Next

(* Without rewrites and torn records a replay gives each worker its own     *)
(* commands back, once each and in order, under every policy, although a    *)
(* flush of a client may overtake the buffer that the writer has swapped.   *)
THEOREM WorkersReplayInOrder ==
  ASSUME MaxRewrites = 0, "torn" \notin Faults
  PROVE  Spec => []ReplayPerWorker
<1>1. Init => PerWorker
  <2> SUFFICES ASSUME Init PROVE PerWorker
    OBVIOUS
  <2>1. file = <<>> /\ active = <<>> /\ spc = "down" /\ ~open /\ \A c \in Clients : cpc[c] = "idle"
    BY DEF Init
  <2>2. file \in Seq(Cmd)
    BY <2>1, EmptySeq
  <2> QED BY <2>1, <2>2 DEF PerWorker, InStep, OneBuffer, NoClientFlush
<1>2. TypeOK /\ TypeOK' /\ BufferDiscipline /\ BufferDiscipline' /\ PerWorker /\ [Next]_vars
        => PerWorker'
  BY PerWorkerStep
<1>3. TypeOK /\ PerWorker => ReplayPerWorker
  <2> SUFFICES ASSUME TypeOK, PerWorker, NEW c \in Clients, spc = "up", cpc[c] = "idle"
               PROVE  Own(c, Loadable(Log)) = Own(c, store)
    BY DEF ReplayPerWorker
  <2>1. Log \in Seq(Cmd)
    BY MovingParts DEF TypeOK, PerWorker, Log
  <2>2. Loadable(Log) = Log
    BY <2>1, LoadableWhole
  <2> QED BY <2>2 DEF PerWorker, InStep
<1>4. Spec => []BufferDiscipline
  BY Discipline
<1> QED BY <1>1, <1>2, <1>3, <1>4, TypeCorrect, PTL DEF Spec

-----------------------------------------------------------------------------
(* The log with rewrites.  While a process runs, the file, the buffers and  *)
(* the picture of a rewrite hold commands of its store only, so a picture   *)
(* taken later holds what is in the file by then.                           *)
Gone == spc \in {"down", "dead"}

Pictured == Elems(file) \cup Elems(flushing) \cup Elems(active) \cup Elems(snap)

FromStore ==
  /\ Elems(file) \subseteq Cmd
  /\ Gone => /\ active = <<>> /\ flushing = <<>> /\ snap = <<>> /\ ~rewriting
             /\ \A c \in Clients : cpc[c] = "idle"
  /\ ~Gone => /\ Pictured \subseteq Elems(store)
              /\ \A c \in Clients : cpc[c] = "applied" => Current(c) \in Elems(store)

(* A record that is in the file and will be in the next one. *)
Kept(r) == r \in Elems(file) /\ (rewriting => r \in Elems(snap))

(* The file after a crash that loses nothing written and tears nothing. *)
LEMMA CrashKeepsFile ==
  ASSUME TypeOK, "power" \notin Faults, "torn" \notin Faults, Crash
  PROVE  file' = file
<1>1. PICK n \in synced .. Len(file), tail \in {<<>>, <<Torn>>} :
        /\ n = Len(file) \/ "power" \in Faults
        /\ tail = <<>> \/ ("torn" \in Faults /\ Len(Log) > n)
        /\ file' = SubSeq(file, 1, n) \o tail
  BY DEF Crash
<1>2. file' = SubSeq(file, 1, Len(file)) \o <<>>
  BY <1>1
<1>3. SubSeq(file, 1, Len(file)) = file
  BY SubSeqFull DEF TypeOK
<1>4. file \o <<>> = file
  BY ConcatEmptySeq DEF TypeOK
<1> QED BY <1>2, <1>3, <1>4

LEMMA GoneKeeps ==
  ASSUME ProcessGone, spc' \in {"down", "dead"}, file' = file, FromStore
  PROVE  FromStore' /\ \A r : Kept(r) => Kept(r)'
BY DEF ProcessGone, FromStore, Kept, Gone

LEMMA ElemsBuffers ==
  ASSUME TypeOK
  PROVE  /\ Elems(file \o active \o flushing) = Elems(file) \cup Elems(active) \cup Elems(flushing)
         /\ Elems(file \o flushing) = Elems(file) \cup Elems(flushing)
         /\ Elems(snap \o flushing \o active)
              = Elems(snap) \cup Elems(flushing) \cup Elems(active)
<1>1. snap \in Seq(Record) /\ flushing \in Seq(Record)
  BY CommandsAreRecords DEF TypeOK
<1>2. Elems(file \o active \o flushing) = Elems(file) \cup Elems(active) \cup Elems(flushing)
  BY ElemsThree DEF TypeOK
<1>3. Elems(snap \o flushing \o active) = Elems(snap) \cup Elems(flushing) \cup Elems(active)
  BY <1>1, ElemsThree DEF TypeOK
<1>4. Elems(file \o flushing) = Elems(file) \cup Elems(flushing)
  BY <1>1, ElemsConcat DEF TypeOK
<1> QED BY <1>2, <1>3, <1>4

LEMMA FlushPictured ==
  ASSUME TypeOK, FlushSync, UNCHANGED snap
  PROVE  /\ Elems(file) \subseteq Elems(file')
         /\ Elems(file') \subseteq Elems(file) \cup Elems(flushing) \cup Elems(active)
         /\ Elems(flushing') \subseteq Elems(flushing) /\ Elems(active') \subseteq Elems(active)
<1>1. CASE open
  <2>1. /\ file' = file \o active \o flushing /\ active' = <<>> /\ flushing' = <<>>
    BY <1>1 DEF FlushSync
  <2>2. Elems(file') = Elems(file) \cup Elems(active) \cup Elems(flushing)
    BY <2>1, ElemsBuffers
  <2> QED BY <2>1, <2>2, ElemsEmpty
<1>2. CASE ~open
  BY <1>2 DEF FlushSync, disk
<1> QED BY <1>1, <1>2

LEMMA KeptStep ==
  ASSUME TypeOK, TypeOK', RewriteExclusive, FromStore, [Next]_vars,
         "power" \notin Faults, "torn" \notin Faults, ~cut'
  PROVE  FromStore' /\ \A r : Kept(r) => Kept(r)'
<1> USE DEF memory, disk, flags, client, bounds
<1>a. /\ Elems(store) \subseteq Cmd /\ Elems(flushing) \subseteq Cmd
      /\ Elems(active) \subseteq Cmd /\ Elems(snap) \subseteq Cmd
  BY ElemsType DEF TypeOK
\* The store, who is in a command and who rewrites stay as they are; what the
\* buffers held moves, at most, into the file.
<1>b. ASSUME UNCHANGED <<store, rewriting, snap, issued>>,
             Gone' <=> Gone,
             \A c \in Clients : cpc'[c] \in {cpc[c], "idle", "flush"},
             Gone => cpc' = cpc,
             Elems(file) \subseteq Elems(file'),
             Elems(file') \subseteq Elems(file) \cup Elems(flushing) \cup Elems(active),
             Elems(flushing') \cup Elems(active') \subseteq Elems(flushing) \cup Elems(active),
             Gone => active' = <<>> /\ flushing' = <<>>
      PROVE  FromStore' /\ \A r : Kept(r) => Kept(r)'
  <2>1. \A c \in Clients : cpc'[c] = "applied" => cpc[c] = "applied" /\ Current(c)' = Current(c)
    BY <1>b DEF Current
  <2>2. Elems(file') \subseteq Cmd
    BY <1>a, <1>b DEF FromStore
  <2>3. Pictured' \subseteq Pictured
    BY <1>b DEF Pictured
  <2>4. FromStore'
    BY <1>b, <2>1, <2>2, <2>3 DEF FromStore
  <2> QED BY <1>b, <2>4 DEF Kept
<1>1. CASE Start
  <2>1. Elems(store') = Elems(file)
    <3>1. {i \in DOMAIN file : file[i] = Torn} = {}
      BY TornAssumption DEF FromStore, Elems
    <3>2. store' = file
      BY <1>1, <3>1 DEF Start, Loadable
    <3> QED BY <3>2
  <2>2. /\ active = <<>> /\ flushing = <<>> /\ snap = <<>> /\ ~rewriting
        /\ \A c \in Clients : cpc[c] = "idle"
    BY <1>1 DEF Start, FromStore, Gone
  <2>3. UNCHANGED <<active, flushing, snap, file, cpc, rewriting>> /\ ~Gone'
    BY <1>1 DEF Start, Gone
  <2>4. Pictured' = Elems(file)
    BY <2>2, <2>3, ElemsEmpty DEF Pictured
  <2>5. FromStore'
    BY <2>1, <2>2, <2>3, <2>4 DEF FromStore
  <2> QED BY <2>3, <2>5 DEF Kept
<1>2. ASSUME NEW c \in Clients, Apply(c) PROVE FromStore' /\ \A r : Kept(r) => Kept(r)'
  <2> DEFINE new == <<c, issued[c] + 1>>
  <2>1. Elems(store') = Elems(store) \cup {new}
    <3>1. new \in Cmd
      BY <1>2 DEF Apply, Cmd, TypeOK
    <3>2. \A e \in Cmd : Elems(Append(store, e)) = Elems(store) \cup {e}
      BY ElemsAppend DEF TypeOK
    <3> QED BY <1>2, <3>1, <3>2 DEF Apply
  <2>2. /\ UNCHANGED <<active, flushing, file, snap, rewriting, spc>> /\ ~Gone /\ ~Gone'
    BY <1>2 DEF Apply, Gone
  <2>3. \A d \in Clients : cpc'[d] = "applied" => Current(d)' \in Elems(store')
    <3>1. Current(c)' = new
      BY <1>2 DEF Apply, Current, TypeOK
    <3>2. \A d \in Clients \ {c} : cpc'[d] = cpc[d] /\ Current(d)' = Current(d)
      BY <1>2 DEF Apply, Current, TypeOK
    <3> QED BY <2>1, <2>2, <3>1, <3>2 DEF FromStore
  <2>4. Pictured' = Pictured
    BY <2>2 DEF Pictured
  <2>5. FromStore'
    BY <2>1, <2>2, <2>3, <2>4 DEF FromStore
  <2> QED BY <2>2, <2>5 DEF Kept
<1>3. ASSUME NEW c \in Clients, AppendCmd(c) PROVE FromStore' /\ \A r : Kept(r) => Kept(r)'
  <2>1. Current(c) \in Cmd
    BY <1>3 DEF AppendCmd, Current, Cmd, TypeOK
  <2>2. Elems(active') = Elems(active) \cup {Current(c)}
    <3>1. \A e \in Cmd : Elems(Append(active, e)) = Elems(active) \cup {e}
      BY ElemsAppend DEF TypeOK
    <3> QED BY <1>3, <2>1, <3>1 DEF AppendCmd
  <2>3. UNCHANGED <<store, flushing, file, snap, rewriting, spc, issued>>
    BY <1>3 DEF AppendCmd
  <2>4. ~Gone /\ ~Gone' /\ Current(c) \in Elems(store)
    BY <1>3, <2>3 DEF AppendCmd, FromStore, Gone
  <2>5. \A d \in Clients : cpc'[d] = "applied" => cpc[d] = "applied" /\ Current(d)' = Current(d)
    BY <1>3 DEF AppendCmd, Current, TypeOK
  <2>6. Pictured' \subseteq Pictured \cup {Current(c)}
    BY <2>2, <2>3 DEF Pictured
  <2>7. FromStore'
    BY <2>3, <2>4, <2>5, <2>6 DEF FromStore
  <2> QED BY <2>3, <2>7 DEF Kept
<1>4. ASSUME NEW c \in Clients, FlushCmd(c) PROVE FromStore' /\ \A r : Kept(r) => Kept(r)'
  <2>1. FlushSync /\ UNCHANGED <<store, rewriting, snap, issued, spc>>
    BY <1>4 DEF FlushCmd
  <2>2. ~Gone /\ (Gone' <=> Gone) /\ \A d \in Clients : cpc'[d] \in {cpc[d], "idle"}
    BY <1>4, <2>1 DEF FlushCmd, FromStore, Gone, TypeOK
  <2> QED BY <1>b, <2>1, <2>2, FlushPictured
<1>5. CASE WriterLoop \/ StopJoinWriter \/ StopJoinRewriter \/ UNCHANGED vars
  <2>1. UNCHANGED <<store, active, flushing, file, rewriting, snap, issued, cpc>>
    BY <1>5 DEF WriterLoop, StopJoinWriter, StopJoinRewriter, vars
  <2>2. Gone' <=> Gone
    BY <1>5 DEF WriterLoop, StopJoinWriter, StopJoinRewriter, vars, Gone
  <2> QED BY <1>b, <2>1, <2>2 DEF FromStore
<1>6. CASE WriterSwap
  <2>1. UNCHANGED <<store, file, rewriting, snap, issued, cpc, spc>>
    BY <1>6 DEF WriterSwap
  <2>2. (Gone' <=> Gone) /\ (Gone => active' = <<>> /\ flushing' = <<>>)
    BY <1>6, <2>1 DEF WriterSwap, Gone, FromStore
  <2>3. Elems(flushing') \cup Elems(active') \subseteq Elems(flushing) \cup Elems(active)
    BY <1>6 DEF WriterSwap
  <2> QED BY <1>b, <2>1, <2>2, <2>3
<1>7. ASSUME NEW second \in BOOLEAN, WriterWrite(second)
      PROVE  FromStore' /\ \A r : Kept(r) => Kept(r)'
  <2>1. UNCHANGED <<store, active, rewriting, snap, issued, cpc, spc>>
    BY <1>7 DEF WriterWrite
  <2>2. (Gone' <=> Gone) /\ (Gone => active' = <<>> /\ flushing' = <<>>)
    BY <1>7, <2>1 DEF WriterWrite, Gone, FromStore
  <2>3. \/ file' = file \o flushing /\ flushing' = <<>>
        \/ UNCHANGED <<file, flushing>>
    BY <1>7 DEF WriterWrite
  <2>4. /\ Elems(file) \subseteq Elems(file')
        /\ Elems(file') \subseteq Elems(file) \cup Elems(flushing)
        /\ Elems(flushing') \subseteq Elems(flushing)
    BY <2>3, ElemsBuffers, ElemsEmpty
  <2> QED BY <1>b, <2>1, <2>2, <2>4
<1>8. ASSUME NEW c \in Clients, RewriteBegin(c) PROVE FromStore' /\ \A r : Kept(r) => Kept(r)'
  <2>1. UNCHANGED <<store, active, flushing, file, issued, spc>> /\ snap' = store
    BY <1>8 DEF RewriteBegin
  <2>2. ~Gone /\ ~Gone'
    BY <1>8, <2>1 DEF RewriteBegin, Gone
  <2>3. \A d \in Clients : cpc'[d] = "applied" => cpc[d] = "applied" /\ Current(d)' = Current(d)
    BY <1>8 DEF RewriteBegin, Current, TypeOK
  <2>4. Pictured' \subseteq Pictured \cup Elems(store)
    BY <2>1 DEF Pictured
  <2>5. Elems(file) \subseteq Elems(snap')
    BY <2>1, <2>2 DEF FromStore, Pictured
  <2>6. FromStore'
    BY <2>1, <2>2, <2>3, <2>4 DEF FromStore
  <2> QED BY <2>1, <2>5, <2>6 DEF Kept
<1>9. ASSUME NEW c \in Clients, RewriteSpawn(c) PROVE FromStore' /\ \A r : Kept(r) => Kept(r)'
  <2>1. UNCHANGED <<store, active, flushing, file, snap, issued, spc>>
    BY <1>9 DEF RewriteSpawn
  <2>2. ~Gone /\ ~Gone'
    BY <1>9, <2>1 DEF RewriteSpawn, Gone, FromStore
  <2>3. \A d \in Clients : cpc'[d] = "applied" => cpc[d] = "applied" /\ Current(d)' = Current(d)
    BY <1>9 DEF RewriteSpawn, Current, TypeOK
  <2>4. rewriting' => rewriting
    BY <1>9 DEF RewriteSpawn
  <2>5. Pictured' = Pictured
    BY <2>1 DEF Pictured
  <2>6. FromStore'
    BY <2>1, <2>2, <2>3, <2>5 DEF FromStore
  <2> QED BY <2>1, <2>4, <2>6 DEF Kept
<1>10. CASE RewriteDump
  <2>1. UNCHANGED <<store, active, flushing, file, rewriting, snap, issued, cpc, spc>>
    BY <1>10 DEF RewriteDump
  <2>2. Gone' <=> Gone
    BY <2>1 DEF Gone
  <2> QED BY <1>b, <2>1, <2>2 DEF FromStore
<1>11. CASE RewriteInstall
  <2>1. rewriting /\ ~Gone
    BY <1>11 DEF RewriteInstall, RewriteExclusive, FromStore
  <2>2. UNCHANGED <<store, rewriting, snap, issued, cpc, spc>> /\ ~Gone'
    BY <1>11, <2>1 DEF RewriteInstall, Gone
  <2>3. /\ \/ file' = file
           \/ Elems(file') = Elems(snap) \cup Elems(flushing) \cup Elems(active)
        /\ Elems(flushing') = {} /\ Elems(active') = {}
    BY <1>11, ElemsBuffers, ElemsEmpty DEF RewriteInstall
  <2>4. Pictured' \subseteq Pictured /\ Elems(file') \subseteq Cmd
    BY <1>a, <2>2, <2>3 DEF Pictured, FromStore
  <2>5. \A c \in Clients : Current(c)' = Current(c)
    BY <2>2 DEF Current
  <2>6. FromStore'
    BY <2>1, <2>2, <2>4, <2>5 DEF FromStore
  <2> QED BY <2>1, <2>2, <2>3, <2>6 DEF Kept
<1>12. CASE RewriteFinish
  <2>1. UNCHANGED <<store, active, flushing, file, issued, cpc, spc>> /\ ~rewriting' /\ snap' = <<>>
    BY <1>12 DEF RewriteFinish
  <2>2. (Gone' <=> Gone) /\ \A c \in Clients : Current(c)' = Current(c)
    BY <2>1 DEF Gone, Current
  <2>3. Pictured' \subseteq Pictured
    BY <2>1, ElemsEmpty DEF Pictured
  <2>4. FromStore'
    BY <2>1, <2>2, <2>3 DEF FromStore
  <2> QED BY <2>1, <2>4 DEF Kept
<1>13. CASE StopBegin
  <2>1. CASE running
    <3>1. UNCHANGED <<store, active, flushing, file, rewriting, snap, issued, cpc>>
      BY <1>13, <2>1 DEF StopBegin
    <3>2. Gone' <=> Gone
      BY <1>13, <2>1 DEF StopBegin, Gone
    <3> QED BY <1>b, <3>1, <3>2 DEF FromStore
  <2>2. CASE ~running
    BY <1>13, <2>2, GoneKeeps DEF StopBegin
  <2> QED BY <2>1, <2>2
<1>14. CASE StopFlush
  <2>1. FlushSync /\ UNCHANGED <<store, rewriting, snap, issued, cpc>> /\ ~Gone /\ ~Gone'
    BY <1>14 DEF StopFlush, Gone
  <2> QED BY <1>b, <2>1, FlushPictured
<1>15. CASE StopClose
  BY <1>15, GoneKeeps DEF StopClose
<1>16. CASE Crash
  <2>1. file' = file
    BY <1>16, CrashKeepsFile
  <2> QED BY <1>16, <2>1, GoneKeeps DEF Crash
<1> QED
  BY <1>1, <1>2, <1>3, <1>4, <1>5, <1>6, <1>7, <1>8, <1>9, <1>10, <1>11, <1>12,
     <1>13, <1>14, <1>15, <1>16 DEF Next

(* A log that was cut off counts as cut off for good. *)
LEMMA CutStays == cut /\ [Next]_vars => cut'
<1> SUFFICES ASSUME cut, [Next]_vars PROVE cut'
  OBVIOUS
<1> USE DEF bounds
<1>1. CASE \E c \in Clients :
             \/ Apply(c) \/ AppendCmd(c) \/ FlushCmd(c) \/ RewriteBegin(c) \/ RewriteSpawn(c)
  BY <1>1 DEF Apply, AppendCmd, FlushCmd, RewriteBegin, RewriteSpawn
<1>2. CASE \/ WriterLoop \/ WriterSwap \/ \E second \in BOOLEAN : WriterWrite(second)
  BY <1>2 DEF WriterLoop, WriterSwap, WriterWrite
<1>3. CASE RewriteDump \/ RewriteInstall \/ RewriteFinish
  BY <1>3 DEF RewriteDump, RewriteInstall, RewriteFinish
<1>4. CASE \/ Start \/ StopBegin \/ StopJoinWriter \/ StopJoinRewriter \/ StopFlush \/ StopClose
           \/ Crash
  BY <1>4 DEF Start, StopBegin, StopJoinWriter, StopJoinRewriter, StopFlush, StopClose, Crash,
              ProcessGone
<1>5. CASE UNCHANGED vars
  BY <1>5 DEF vars
<1> QED BY <1>1, <1>2, <1>3, <1>4, <1>5 DEF Next

(* What is in the file while no rewrite runs stays in it, through all       *)
(* rewrites, successful or not, stops, crashes and restarts, although a     *)
(* rewrite replaces the whole file by a picture of the store.  Where a      *)
(* crash loses what was written, or tears it, it need not; nor from the     *)
(* rewrite on whose last flush has failed unseen.                           *)
THEOREM LoggedIsForever ==
  ASSUME "power" \notin Faults, "torn" \notin Faults
  PROVE  Spec => LoggedStays
<1> SUFFICES ASSUME NEW r \in Cmd
             PROVE  Spec => [](r \in Elems(file) /\ ~rewriting => [](r \in Elems(file) \/ cut))
  BY DEF LoggedStays
<1>1. Init => FromStore \/ cut
  BY ElemsEmpty DEF Init, FromStore, Gone
<1>2. TypeOK /\ TypeOK' /\ RewriteExclusive /\ (FromStore \/ cut) /\ [Next]_vars
        => (FromStore \/ cut)'
  BY KeptStep, CutStays
<1>3. TypeOK /\ TypeOK' /\ RewriteExclusive /\ (FromStore \/ cut) /\ (Kept(r) \/ cut)
        /\ [Next]_vars => (Kept(r) \/ cut)'
  BY KeptStep, CutStays
<1>4. r \in Elems(file) /\ ~rewriting => Kept(r) \/ cut
  BY DEF Kept
<1>5. Kept(r) \/ cut => r \in Elems(file) \/ cut
  BY DEF Kept
<1> QED BY <1>1, <1>2, <1>3, <1>4, <1>5, TypeCorrect, OneRewriteAtATime, PTL DEF Spec
=============================================================================
