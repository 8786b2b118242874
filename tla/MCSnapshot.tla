----------------------------- MODULE MCSnapshot -----------------------------
(* Small instances of Snapshot for TLC. *)
EXTENDS Snapshot, TLC

(* Worker threads are interchangeable.  Used by the runs without liveness. *)
ClientSymmetry == Permutations(Clients)

NoFaults  == {}
AllFaults == FaultKinds
DiskFull  == {"flush"}
=============================================================================
