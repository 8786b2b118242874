----------------------------- MODULE MCRestart -----------------------------
(* Small instances of Restart for TLC.  One key is enough: only FLUSHDB     *)
(* touches two.                                                            *)
EXTENDS Restart

Restarting == Stop \/ Start \/ Replay \/ Ready
Executes(ops) == \E r \in Commands : r.op \in ops /\ Execute(r)
Awaited == \E k \in Key : BrPop(k)
Expiring == Tick \/ \E k \in Key, ttl \in 0 .. MaxTtl : Expire(k, ttl)

\* Whatever may be done to a list: pushes and pops, a snapshot, a time to live
\* and its end.  Evictions are left out, which are meant to forget.
ExactSpec ==
  Init /\ [][Restarting \/ Executes({"RPUSH", "LPOP", "PERSIST"}) \/ Save \/ Awaited \/ Expiring]_vars

\* One way to lose at a time: a BRPOP, an LPOP of nothing, an expiry.
AwaitedSpec  == Init /\ [][Restarting \/ Executes({"RPUSH"}) \/ Awaited]_vars
PoppedSpec   == Init /\ [][Restarting \/ Executes({"RPUSH", "LPOP"})]_vars
ExpiringSpec == Init /\ [][Restarting \/ Executes({"RPUSH", "PERSIST"}) \/ Expiring]_vars
=============================================================================
