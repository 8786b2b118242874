------------------------------ MODULE Sections ------------------------------
(***************************************************************************)
(* A section of a request is what is done under locks held together: a     *)
(* record [writes, steps], the steps being its accesses in order, each     *)
(* [key, put] with what a writing section leaves at that key.              *)
(***************************************************************************)
EXTENDS Naturals, Sequences

CONSTANTS Key, Value

Accesses == [key : Key, put : Value]
Section == [writes : BOOLEAN, steps : Seq(Accesses)]

Touches(sec, a, b, k) == \E i \in a .. b : sec.steps[i].key = k

\* The last of the accesses a .. b that touches k.
LastAccess(sec, a, b, k) ==
  CHOOSE i \in a .. b : sec.steps[i].key = k
                        /\ \A j \in a .. b : sec.steps[j].key = k => j <= i

\* The keyspace m after the accesses a .. b: only a writing section changes it,
\* and the last write to a key stays.
After(m, sec, a, b) ==
  [k \in Key |-> IF sec.writes /\ Touches(sec, a, b, k)
                 THEN sec.steps[LastAccess(sec, a, b, k)].put
                 ELSE m[k]]

\* What each access finds when the section starts from m: the second DEL of a
\* key in one command finds what the first has left.
Finds(m, sec) ==
  [i \in 1 .. Len(sec.steps) |-> After(m, sec, 1, i - 1)[sec.steps[i].key]]
=============================================================================
