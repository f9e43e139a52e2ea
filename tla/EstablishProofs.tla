-------------------------- MODULE EstablishProofs --------------------------
(***************************************************************************)
(* TLAPS proofs about Establish, for any routes and any port numbers: no   *)
(* connection leaks on any of the error returns, a tunnel starts clean,    *)
(* the timeouts add up, no read from a client or SOCKS upstream lacks its  *)
(* deadline, and no step leads back.                                       *)
(***************************************************************************)
EXTENDS Establish, TLAPS

-----------------------------------------------------------------------------
(* The inductive invariant.                                                *)

\* The protocol spoken fixes which control states there are.
RouteShape ==
    /\ pc \in ClientWaits => front = "socks" /\ attempt = 1 /\ port = NoPort
    /\ pc \in UpstreamSOCKS => back = "socks"
    /\ pc = "connect" => back = "http"

\* Each attempt's connection: none before its dial, open after it, closed on
\* failure and before the next attempt.
ConnShape ==
    /\ pc \in ClientWaits \cup {"dial"} => ups[attempt] = "none"
    /\ pc \in UpstreamSOCKS \cup {"connect", "reply", "tunnel"} => ups[attempt] = "open"
    /\ pc \in {"fail", "returned"} => ups[attempt] # "open"
    /\ attempt = 1 => ups[2] = "none"
    /\ attempt = 2 => ups[1] = "closed" /\ back = "http"

\* A deadline is on a connection only while its handshake lasts.
DeadlineShape ==
    /\ srcDeadline => front = "socks" /\ pc # "tunnel"
    /\ upDeadline => pc \in UpstreamSOCKS
    /\ pc \in UpstreamSOCKS => upDeadline
    /\ back # "http" => skew = 0

PortShape ==
    back # "direct" /\ IsPort(port) /\ pc \in {"upreply", "reply", "tunnel"} => sentPort = port

ClientShape ==
    /\ pc = "returned" => src # "open"
    /\ front = "http" /\ pc \notin {"tunnel", "returned"} => src = "server"
    /\ pc = "tunnel" /\ front # "relay" => answer = "ok"

\* Where the client's 30 s have gone: at most ten in a dial, ten more in the
\* handshake with a SOCKS upstream.
TimeShape ==
    front = "socks" /\ back # "http" =>
        /\ pc = "dial" => age <= reqAge + wait
        /\ pc \in UpstreamSOCKS => age <= reqAge + 1 + wait
        /\ pc \in {"fail", "reply"} => age <= reqAge + 2

IInv ==
    /\ TypeOK
    /\ RouteShape
    /\ ConnShape
    /\ DeadlineShape
    /\ PortShape
    /\ ClientShape
    /\ TimeShape
    /\ BudgetFits

USE DEF ClientDeadline, DialTimeout, UpstreamDeadline, LastAttempt

LEMMA PortFacts ==
    \A p \in Nat : p % 65536 \in Nat /\ (p < 65536 => p % 65536 = p)
OBVIOUS

\* The port sent is the one asked for, unless that does not fit sixteen bits.
LEMMA SentFacts ==
    ASSUME TypeOK, SendRequest
    PROVE  pc' = "upreply" /\ sentPort' \in Nat /\ (IsPort(port) => sentPort' = port)
BY PortFacts, PortsAssumption DEF TypeOK, SendRequest, IsPort

\* What DialFails does, variable by variable.
LEMMA FailFacts ==
    ASSUME TypeOK, DialFails
    PROVE  /\ ups' \in [1 .. 2 -> {"none", "open", "closed"}]
           /\ ups'[attempt] # "open"
           /\ \A n \in 1 .. 2 : n # attempt => ups'[n] = ups[n]
           /\ pc' = "fail"
           /\ upDeadline' \in BOOLEAN /\ ~upDeadline'
           /\ UNCHANGED <<front, back, auth, src, gone, port, age, reqAge, srcDeadline, attempt,
                          creds, wait, sentPort, skew, answer>>
<1>1. upDeadline' \in BOOLEAN /\ ~upDeadline'
  BY DEF DialFails
<1>2. /\ ups' \in [1 .. 2 -> {"none", "open", "closed"}]
      /\ ups'[attempt] # "open"
      /\ \A n \in 1 .. 2 : n # attempt => ups'[n] = ups[n]
  BY DEF TypeOK, DialFails
<1> QED
  BY <1>1, <1>2 DEF DialFails, config, clientVars

LEMMA InvInit == Init => IInv
<1> SUFFICES ASSUME Init PROVE IInv
  OBVIOUS
<1>1. PICK r \in Routes : front = r[1] /\ back = r[2]
  BY DEF Init
<1>2. <<front, back>> \in Routes
  BY <1>1, RoutesAssumption DEF AllRoutes, Backs
<1>3. auth \in BOOLEAN /\ (back = "direct" => auth = FALSE)
  BY DEF Init
<1>4. port \in Ports \cup {NoPort} /\ (front # "http" => port = NoPort)
  BY DEF Init
<1>5. srcDeadline \in BOOLEAN /\ gone \in BOOLEAN /\ upDeadline \in BOOLEAN
  BY DEF Init
<1>6. TypeOK
  BY <1>2, <1>3, <1>4, <1>5
     DEF Init, TypeOK, Waiting, ClientWaits, UpstreamSOCKS
<1>7. RouteShape /\ ConnShape
  BY <1>3, <1>4, <1>6 DEF Init, RouteShape, ConnShape, ClientWaits, UpstreamSOCKS
<1>8. DeadlineShape /\ PortShape /\ ClientShape /\ TimeShape /\ BudgetFits
  BY <1>4, <1>6 DEF Init, DeadlineShape, PortShape, ClientShape, TimeShape, BudgetFits, ClientWaits,
     UpstreamSOCKS
<1> QED
  BY <1>6, <1>7, <1>8 DEF IInv

LEMMA InvStep == IInv /\ [Next]_vars => IInv'
<1> SUFFICES ASSUME IInv, [Next]_vars PROVE IInv'
  OBVIOUS
<1> USE PortsAssumption
    DEF IInv, TypeOK, RouteShape, ConnShape, DeadlineShape, PortShape, ClientShape, TimeShape,
        BudgetFits, Waiting, ClientWaits, UpstreamSOCKS, config, clientVars, upVars,
        Late, Reachable, Timely, Abandon
<1>1. CASE GreetOk
  BY <1>1 DEF GreetOk
<1>2. CASE GreetError
  BY <1>2 DEF GreetError
<1>3. ASSUME NEW p \in Ports, RequestOk(p) PROVE IInv'
  BY <1>3 DEF RequestOk
<1>4. CASE RequestError
  BY <1>4 DEF RequestError
<1>5. CASE DialError
  <2>1. pc = "dial" /\ DialFails
    BY <1>5 DEF DialError
  <2> QED BY <2>1, FailFacts
<1>6. CASE DialOk
  <2>1. /\ pc = "dial"
        /\ ups' \in [1 .. 2 -> {"none", "open", "closed"}]
        /\ ups'[attempt] = "open"
        /\ \A n \in 1 .. 2 : n # attempt => ups'[n] = ups[n]
        /\ UNCHANGED <<front, back, auth, src, gone, port, age, reqAge, srcDeadline, attempt,
                       creds, sentPort, skew, answer>>
    BY <1>6 DEF DialOk
  <2>2. CASE back = "socks"
    <3>1. upDeadline' \in BOOLEAN /\ upDeadline'
      BY <1>6, <2>2 DEF DialOk
    <3>2. pc' = "greeting" /\ wait' = 0
      BY <1>6, <2>2 DEF DialOk
    <3> QED BY <2>1, <2>2, <3>1, <3>2
  <2>3. CASE back # "socks"
    <3>1. /\ \/ back = "direct" /\ pc' = "reply"
             \/ back = "http" /\ pc' = "connect"
          /\ UNCHANGED <<wait, upDeadline>>
      BY <1>6, <2>3 DEF DialOk
    <3> QED BY <2>1, <2>3, <3>1
  <2> QED BY <2>2, <2>3
<1>7. CASE UpGreeting
  <2>1. /\ pc = "greeting"
        /\ UNCHANGED <<front, back, auth, src, gone, port, age, reqAge, srcDeadline, ups, attempt,
                       creds, wait, upDeadline, skew, answer>>
    BY <1>7 DEF UpGreeting
  <2>2. (pc' = "userpass" /\ sentPort' = sentPort) \/ SendRequest
    BY <1>7 DEF UpGreeting
  <2> QED BY <2>1, <2>2, SentFacts
<1>8. CASE UpUserPass
  <2>1. /\ pc = "userpass" /\ SendRequest
        /\ UNCHANGED <<front, back, auth, src, gone, port, age, reqAge, srcDeadline, ups, attempt,
                       creds, wait, upDeadline, skew, answer>>
    BY <1>8 DEF UpUserPass
  <2> QED BY <2>1, SentFacts
<1>9. CASE UpError
  <2>1. pc \in UpstreamSOCKS /\ DialFails
    BY <1>9 DEF UpError
  <2> QED BY <2>1, FailFacts
<1>10. ASSUME NEW b \in BoundAddresses, UpReplyOk(b[1], b[2]) PROVE IInv'
  <2>1. Consumed(b[1], b[2]) - (BoundLength(b[1], b[2]) + 2) = 0
    BY <1>10 DEF BoundAddresses, Consumed, BoundLength
  <2>2. upDeadline' \in BOOLEAN /\ ~upDeadline'
    BY <1>10 DEF UpReplyOk
  <2>3. /\ pc = "upreply" /\ pc' = "reply" /\ skew' = 0
        /\ UNCHANGED <<front, back, auth, src, gone, port, age, reqAge, srcDeadline, ups, attempt,
                       creds, wait, sentPort, answer>>
    BY <1>10, <2>1 DEF UpReplyOk
  <2> QED BY <2>2, <2>3
<1>11. ASSUME NEW n \in ContentLengths, ConnectOk(n) PROVE IInv'
  <2>1. n \in Int
    BY DEF ContentLengths
  <2> QED BY <1>11, <2>1 DEF ConnectOk
<1>12. CASE ConnectRetry
  BY <1>12 DEF ConnectRetry
<1>13. CASE ConnectError
  <2>1. pc = "connect" /\ DialFails
    BY <1>13 DEF ConnectError
  <2> QED BY <2>1, FailFacts
<1>14. CASE RefuseSOCKS
  BY <1>14 DEF RefuseSOCKS
<1>15. CASE RefuseConnect
  BY <1>15 DEF RefuseConnect
<1>16. CASE RefuseRelay
  BY <1>16 DEF RefuseRelay
<1>17. CASE AcceptSOCKS
  <2>1. srcDeadline' \in BOOLEAN /\ ~srcDeadline'
    BY <1>17 DEF AcceptSOCKS
  <2>2. /\ pc = "reply" /\ front = "socks" /\ pc' = "tunnel" /\ answer' = "ok"
        /\ UNCHANGED <<front, back, auth, src, gone, port, age, reqAge, ups, attempt, creds, wait,
                       upDeadline, sentPort, skew>>
    BY <1>17 DEF AcceptSOCKS
  <2> QED BY <2>1, <2>2
<1>18. CASE AcceptSOCKSError
  BY <1>18 DEF AcceptSOCKSError
<1>19. CASE AcceptConnect
  BY <1>19 DEF AcceptConnect
<1>20. CASE AcceptConnectError
  BY <1>20 DEF AcceptConnectError
<1>21. CASE AcceptRelay
  BY <1>21 DEF AcceptRelay
<1>22. CASE ClientBreaks
  BY <1>22 DEF ClientBreaks
<1>23. CASE Tick
  BY <1>23 DEF Tick, TimedOut
<1>24. CASE UNCHANGED vars
  BY <1>24 DEF vars
<1> QED
  BY <1>1, <1>2, <1>3, <1>4, <1>5, <1>6, <1>7, <1>8, <1>9, <1>10, <1>11, <1>12, <1>13,
     <1>14, <1>15, <1>16, <1>17, <1>18, <1>19, <1>20, <1>21, <1>22, <1>23, <1>24
     DEF Next, Server, Dial, Answer

LEMMA Invariance == Spec => []IInv
BY InvInit, InvStep, PTL DEF Spec

-----------------------------------------------------------------------------
(* Waiting and going on.                                                   *)

\* Whenever the handler waits for its client or for a SOCKS upstream, the
\* connection it reads from has its deadline.
WaitsTimed ==
    /\ pc \in ClientWaits => srcDeadline
    /\ pc \in UpstreamSOCKS => upDeadline

\* The client's deadline is set until the tunnel starts.
ClientTimed == front = "socks" /\ pc # "tunnel" => srcDeadline

-----------------------------------------------------------------------------
(* The theorems.                                                           *)

\* The handler's variables keep their types; in particular there is no third
\* attempt at an upstream, and no deadline outlives its bound.
THEOREM TypeCorrect == Spec => []TypeOK
BY Invariance, PTL DEF IInv

\* No outbound connection outlives the handler, on any of the error returns of
\* dialUpstreamSOCKS, dialUpstreamConnect and the three handlers.
THEOREM NoConnLeakHolds == Spec => []NoConnLeak
<1>1. IInv => NoConnLeak
  <2> SUFFICES ASSUME IInv PROVE NoConnLeak
    OBVIOUS
  <2>1. \A n \in 1 .. 2 : ups[n] = "open" => n = attempt
    BY DEF IInv, TypeOK, ConnShape
  <2>2. pc \in {"fail", "returned"} => ups[attempt] # "open"
    BY DEF IInv, ConnShape
  <2>3. pc = "returned" => src # "open"
    BY DEF IInv, ClientShape
  <2> QED BY <2>1, <2>2, <2>3 DEF NoConnLeak, Open
<1> QED BY <1>1, Invariance, PTL

\* Every tunnel starts clean: one connection, no deadline, nothing of a
\* SOCKS reply left or overread, the client told and the right port asked.
THEOREM TunnelReadyHolds == Spec => []TunnelReady
<1>1. IInv => TunnelReady
  <2> SUFFICES ASSUME IInv, pc = "tunnel" PROVE TunnelReady
    BY DEF TunnelReady
  <2>1. \A n \in 1 .. 2 : ups[n] = "open" <=> n = attempt
    BY DEF IInv, TypeOK, ConnShape
  <2>2. attempt \in 1 .. 2
    BY DEF IInv, TypeOK
  <2>3. Open = {attempt}
    BY <2>1, <2>2 DEF Open
  <2>4. ~srcDeadline /\ ~upDeadline /\ (back # "http" => skew = 0)
    BY DEF IInv, DeadlineShape, UpstreamSOCKS
  <2>5. front # "relay" => answer = "ok"
    BY DEF IInv, ClientShape
  <2>6. back # "direct" /\ IsPort(port) => sentPort = port
    BY DEF IInv, PortShape
  <2> QED BY <2>3, <2>4, <2>5, <2>6 DEF TunnelReady
<1> QED BY <1>1, Invariance, PTL

\* The 30 s of a SOCKS client suffice for the dial and for the handshake with a
\* SOCKS upstream, ten seconds each.
THEOREM BudgetFitsHolds == Spec => []BudgetFits
BY Invariance, PTL DEF IInv

\* No read from a silent client or SOCKS upstream lacks its deadline.  (A relay's
\* dial and the response of an HTTP upstream have none.)
THEOREM WaitsTimedHolds == Spec => []WaitsTimed
<1>1. Init => ClientTimed
  BY Zenon DEF Init, ClientTimed
<1>2. ClientTimed /\ [Next]_vars => ClientTimed'
  <2> SUFFICES ASSUME ClientTimed, [Next]_vars PROVE ClientTimed'
    OBVIOUS
  <2> USE DEF config, clientVars, upVars
  <2>1. CASE AcceptSOCKS
    BY <2>1 DEF AcceptSOCKS, ClientTimed
  <2>2. CASE UNCHANGED <<front, srcDeadline>> /\ (pc # "tunnel" \/ pc' = pc)
    BY <2>2 DEF ClientTimed
  <2>3. CASE Server
    BY <2>2, <2>3 DEF Server, GreetOk, GreetError, RequestOk, RequestError, Abandon
  <2>4. CASE Dial
    BY <2>2, <2>4 DEF Dial, DialError, DialOk, UpGreeting, UpUserPass, UpError, UpReplyOk, ConnectOk,
       ConnectRetry, ConnectError, DialFails, UpstreamSOCKS
  <2>5. CASE Answer /\ ~AcceptSOCKS
    BY <2>2, <2>5 DEF Answer, RefuseSOCKS, AcceptSOCKSError, RefuseConnect, AcceptConnect,
       AcceptConnectError, RefuseRelay, AcceptRelay
  <2>6. CASE ClientBreaks \/ Tick \/ UNCHANGED vars
    BY <2>2, <2>6 DEF ClientBreaks, Tick, vars
  <2> QED BY <2>1, <2>3, <2>4, <2>5, <2>6 DEF Next
<1>3. IInv /\ ClientTimed => WaitsTimed
  BY DEF IInv, TypeOK, RouteShape, DeadlineShape, ClientTimed, WaitsTimed, ClientWaits, UpstreamSOCKS
<1> QED BY <1>1, <1>2, <1>3, Invariance, PTL DEF Spec

\* A handler only moves forward, whatever its peers send: after a Digest retry it
\* is closer to its end than before, so there is no second one.
THEOREM OnlyForwardHolds == Spec => OnlyForward
<1>1. IInv /\ [Next]_vars => [GoesOn]_vars
  <2> SUFFICES ASSUME IInv, Next, pc' # pc PROVE Stage \in Nat /\ Stage' \in 0 .. Stage - 1
    BY DEF GoesOn
  <2>0. attempt \in {1, 2}
    BY DEF IInv, TypeOK
  <2> DEFINE Table ==
        /\ pc = "greet" => Stage = 11
        /\ pc = "request" => Stage = 10
        /\ pc = "dial" => Stage = IF attempt = 1 THEN 9 ELSE 7
        /\ pc = "connect" => Stage = IF attempt = 1 THEN 8 ELSE 6
        /\ pc = "greeting" => Stage = 8
        /\ pc = "userpass" => Stage = 7
        /\ pc = "upreply" => Stage = 6
        /\ pc \in {"reply", "fail"} => Stage = 2
        /\ pc = "tunnel" => Stage = 1
        /\ pc = "returned" => Stage = 0
  <2>t. Table /\ Table'
    BY DEF Stage
  <2>1. CASE Server
    <3>1. attempt = 1 /\ attempt' = 1
      BY <2>1 DEF Server, GreetOk, GreetError, RequestOk, RequestError, Abandon, upVars, IInv, RouteShape,
         ClientWaits
    <3> QED
      BY <2>1, <2>t, <3>1 DEF Server, GreetOk, GreetError, RequestOk, RequestError, Abandon
  <2>2. CASE DialError \/ UpError \/ ConnectError
    <3>1. pc \in {"dial", "greeting", "userpass", "upreply", "connect"} /\ pc' = "fail"
      BY <2>2 DEF DialError, UpError, ConnectError, DialFails, UpstreamSOCKS
    <3> QED BY <2>t, <2>0, <3>1
  <2>3. CASE DialOk
    <3>1. pc = "dial" /\ attempt' = attempt /\ (attempt = 2 => back = "http")
      BY <2>3 DEF DialOk, IInv, ConnShape
    <3>2. pc' = "reply" \/ (back = "socks" /\ pc' = "greeting") \/ (back = "http" /\ pc' = "connect")
      BY <2>3 DEF DialOk
    <3> QED BY <2>t, <2>0, <3>1, <3>2
  <2>4. CASE UpGreeting \/ UpUserPass
    <3>1. \/ pc = "greeting" /\ pc' \in {"userpass", "upreply"}
          \/ pc = "userpass" /\ pc' = "upreply"
      BY <2>4 DEF UpGreeting, UpUserPass, SendRequest
    <3> QED BY <2>t, <3>1
  <2>5. CASE (\E b \in BoundAddresses : UpReplyOk(b[1], b[2]))
                \/ (\E n \in ContentLengths : ConnectOk(n))
    <3>1. pc \in {"upreply", "connect"} /\ pc' = "reply"
      BY <2>5 DEF UpReplyOk, ConnectOk
    <3> QED BY <2>t, <2>0, <3>1
  <2>6. CASE ConnectRetry
    <3>1. pc = "connect" /\ attempt = 1 /\ pc' = "dial" /\ attempt' = 2
      BY <2>6 DEF ConnectRetry
    <3> QED BY <2>t, <3>1
  <2>7. CASE Answer
    <3>1. pc \in {"fail", "reply"} /\ pc' \in {"tunnel", "returned"}
      BY <2>7 DEF Answer, RefuseSOCKS, AcceptSOCKS, AcceptSOCKSError, RefuseConnect, AcceptConnect,
         AcceptConnectError, RefuseRelay, AcceptRelay
    <3> QED BY <2>t, <3>1
  <2> QED
    BY <2>1, <2>2, <2>3, <2>4, <2>5, <2>6, <2>7 DEF Next, Dial, ClientBreaks, Tick
<1> QED BY <1>1, Invariance, PTL DEF Spec, OnlyForward
=============================================================================
