------------------------------- MODULE MCAof -------------------------------
(* Small instances of Aof for TLC. *)
EXTENDS Aof, TLC

(* Worker threads are interchangeable.  Used by the runs without liveness. *)
ClientSymmetry == Permutations(Clients)

PowerLoss    == {"power"}
OpenFails    == {"open", "power"}
RewriteFails == {"tmp", "full", "rename", "reopen", "open"}
=============================================================================
