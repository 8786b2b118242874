---------------------------- MODULE MCRespStream ----------------------------
(* A small instance of RespStream for TLC. *)
EXTENDS RespStream

\* An argument that looks like the end of a line, and one that a line has to
\* quote and escape.
Tricky == {CRLF, <<"\"", " ">>}
=============================================================================
