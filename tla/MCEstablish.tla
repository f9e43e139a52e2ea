---------------------------- MODULE MCEstablish -----------------------------
(* Instances of Establish for TLC. *)
EXTENDS Establish

\* An ordinary port, and one beyond sixteen bits, which only the text of an
\* HTTP CONNECT can name.
MCPorts == {80, 65616}
=============================================================================
