----------------------------- MODULE DurableLog -----------------------------
(***************************************************************************)
(* What an append-only file promises, without its buffers and threads: a   *)
(* log of records that grows only at its end, a prefix of it `written' to  *)
(* the operating system and a shorter prefix `synced' to the disk.  A loss *)
(* of power or of the process cuts the log somewhere in the unsynced part; *)
(* it never removes a record from the middle and never reorders two.       *)
(***************************************************************************)
EXTENDS Naturals, Sequences

CONSTANT Record     \* the records that may be appended

VARIABLES log,      \* every record accepted so far, in order
          written,  \* how many of them survive the death of the process
          synced    \* how many of them survive a power loss

vars == <<log, written, synced>>

Init == log = <<>> /\ written = 0 /\ synced = 0

Add(r) == log' = Append(log, r) /\ UNCHANGED <<written, synced>>

Persist ==
  /\ written' \in written .. Len(log)
  /\ synced' \in synced .. written'
  /\ UNCHANGED log

Lose ==
  \E n \in synced .. written :
    /\ log' = SubSeq(log, 1, n)
    /\ written' = n
    /\ synced' \in synced .. n

Next == (\E r \in Record : Add(r)) \/ Persist \/ Lose

Spec == Init /\ [][Next]_vars
=============================================================================
