------------------------------- MODULE MCGopr -------------------------------
(* Instances of Gopr for TLC: one or two "--" groups. *)
EXTENDS Gopr, TLC

CONSTANTS g1, g2

\* A relay with both halves next to a proxy of either kind.
RelayAndProxy == {g1 :> {"tcp", "udp"} @@ g2 :> {k} : k \in {"socks", "http"}}

\* A single TCP relay.
OneRelay == {g1 :> {"tcp"}}
=============================================================================
