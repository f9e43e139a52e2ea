----------------------------- MODULE MCUDPRelay -----------------------------
(* Instances of UDPRelay for TLC. *)
EXTENDS UDPRelay, TLC

\* Clients are interchangeable, and so are sessions: Next names none of them.
\* Used by the safety runs only.
Symmetry == Permutations(Clients) \cup Permutations(Sessions)
=============================================================================
