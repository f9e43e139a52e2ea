---------------------------- MODULE MCMITMSigner ----------------------------
(* Instances of MITMSigner for TLC. *)
EXTENDS MITMSigner

CONSTANTS n1, n2

\* A TLS relay that follows the SNI, a DTLS relay, and one with both halves,
\* these two with -servername=.
MCSetups ==
    {[halves |-> {"tcp"}, name |-> NoName]}
      \cup [halves : {{"udp"}, {"tcp", "udp"}}, name : {n1}]
=============================================================================
