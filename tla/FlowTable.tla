----------------------------- MODULE FlowTable ------------------------------
(***************************************************************************)
(* What the plaintext UDP relay promises of its session table, without its *)
(* goroutines, its lock and its clock: each client has at most one flow, a *)
(* flow is a socket of its own used once, and a flow ends by leaving the   *)
(* table, with its socket closed then or later but never before.           *)
(***************************************************************************)
CONSTANTS Clients, Sessions, NoSession

VARIABLES
    flow,     \* the session of each client, or NoSession
    socket    \* the socket of each session: "none", "open" or "closed"

vars == <<flow, socket>>

Init ==
    /\ flow = [c \in Clients |-> NoSession]
    /\ socket = [s \in Sessions |-> "none"]

\* A client without a flow gets a fresh one.
Create(c, s) ==
    /\ flow[c] = NoSession
    /\ socket[s] = "none"
    /\ flow' = [flow EXCEPT ![c] = s]
    /\ socket' = [socket EXCEPT ![s] = "open"]

\* The flows of the clients in C end.  All their sockets are closed with them,
\* or none.
Retire(C, closing) ==
    /\ \A c \in C : flow[c] # NoSession
    /\ flow' = [c \in Clients |-> IF c \in C THEN NoSession ELSE flow[c]]
    /\ socket' = [s \in Sessions |->
                    IF closing /\ \E c \in C : flow[c] = s
                    THEN "closed" ELSE socket[s]]

\* The socket of a flow that has ended is closed.
Close(s) ==
    /\ socket[s] = "open"
    /\ \A c \in Clients : flow[c] # s
    /\ socket' = [socket EXCEPT ![s] = "closed"]
    /\ UNCHANGED flow

Next ==
    \/ \E c \in Clients, s \in Sessions : Create(c, s)
    \/ \E C \in SUBSET Clients, closing \in BOOLEAN : Retire(C, closing)
    \/ \E s \in Sessions : Close(s)

Spec == Init /\ [][Next]_vars

\* The socket of a flow that has ended does not stay open.
Fairness == \A s \in Sessions : WF_vars(Close(s))
=============================================================================
