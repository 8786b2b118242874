------------------------------ MODULE MCPubSub ------------------------------
(* A small instance of PubSub for TLC. *)
EXTENDS PubSub

AllMatch == Pattern \X Channel

\* SUBSCRIBE and PSUBSCRIBE with one argument, or twice the same.
Lists == {<<s>> : s \in Subscription} \cup {<<s, s>> : s \in Channel}
=============================================================================
