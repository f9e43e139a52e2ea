----------------------------- MODULE Establish ------------------------------
(***************************************************************************)
(* The life of one accepted connection up to the start of relaying:        *)
(* handleSOCKSConn (with socksHandshake and socksReadRequest),             *)
(* handleConnect, and handleTCPConn / handleUDPDTLSConn, with what they    *)
(* call to reach the target: a direct dial, dialUpstreamSOCKS, or          *)
(* dialUpstreamConnect with its Digest retry.                              *)
(*                                                                         *)
(* The peers (client, target, upstream proxy) may answer, refuse, break or *)
(* stay silent at every step.  Time runs in units of ten seconds.  An      *)
(* operation under a deadline or a dial timeout does not outlive it.       *)
(***************************************************************************)
EXTENDS Integers, FiniteSets

CONSTANTS
    Routes,     \* pairs <<front, back>> considered, a subset of AllRoutes
    Ports,      \* port numbers a request may name
    NoPort      \* a target without a usable port; also "nothing sent"

Fronts == {"socks", "http", "relay"}
Backs  == {"direct", "socks", "http"}
AllRoutes == ({"socks", "http"} \X Backs) \cup {<<"relay", "direct">>}

ASSUME RoutesAssumption == Routes \subseteq AllRoutes
ASSUME PortsAssumption  == Ports \subseteq Nat /\ NoPort \notin Nat

IsPort(p) == p # NoPort /\ p < 65536

\* handleSOCKSConn: conn.SetDeadline(30 s); the dials: 10 s each;
\* dialUpstreamSOCKS: conn.SetDeadline(10 s).
ClientDeadline_Short == 2   \* mutant: 20 s
ClientDeadline   == 3
DialTimeout      == 1
UpstreamDeadline == 1
LastAttempt      == 2

VARIABLES
    front, back,   \* the protocol served, and the one used to reach the target
    auth,          \* credentials for the upstream are configured (-F -user=)
    pc,            \* control state of the handler
    src,           \* client connection: "open", "closed", or still net/http's
    gone,          \* the client's connection is broken
    port,          \* the port of the requested target
    age,           \* time since the connection was accepted
    reqAge,        \* history: age at which the request was complete
    srcDeadline,   \* the 30 s deadline is set on the client connection
    ups,           \* the outbound connection of each attempt
    attempt,       \* number of the current outbound connection
    creds,         \* Proxy-Authorization the current CONNECT presents
    wait,          \* time since the current dial or deadline began
    upDeadline,    \* the 10 s deadline is set on the outbound connection
    sentPort,      \* the port asked of the upstream
    skew,          \* bytes read past the upstream's reply, out of the tunnel
    answer         \* the reply written to the client

config == <<front, back, auth>>
clientVars == <<src, gone, port, reqAge, srcDeadline, answer>>
upVars == <<ups, attempt, creds, upDeadline, sentPort, skew>>
vars == <<config, pc, clientVars, age, wait, upVars>>

ClientWaits   == {"greet", "request"}
UpstreamSOCKS == {"greeting", "userpass", "upreply"}
Waiting       == ClientWaits \cup UpstreamSOCKS \cup {"dial", "connect"}

TypeOK ==
    /\ <<front, back>> \in Routes
    /\ auth \in BOOLEAN
    /\ pc \in Waiting \cup {"fail", "reply", "tunnel", "returned"}
    /\ src \in {"open", "closed", "server"}
    /\ gone \in BOOLEAN
    /\ port \in Ports \cup {NoPort}
    /\ age \in 0 .. ClientDeadline
    /\ reqAge \in 0 .. ClientDeadline
    /\ srcDeadline \in BOOLEAN
    /\ ups \in [1 .. LastAttempt -> {"none", "open", "closed"}]
    /\ attempt \in 1 .. LastAttempt
    /\ creds \in {"none", "basic", "digest"}
    /\ wait \in 0 .. DialTimeout
    /\ upDeadline \in BOOLEAN
    /\ sentPort \in Nat \cup {NoPort}
    /\ skew \in Int
    /\ answer \in {"none", "ok", "fail", "noMethod", "badCmd", "badAtyp"}

\* A SOCKS handler starts with the greeting, under the 30 s deadline.  An HTTP
\* handler starts with a parsed CONNECT whose host is the client's own text; a
\* relay handler with the configured target, and neither sets a deadline.
Init ==
    /\ \E r \in Routes : front = r[1] /\ back = r[2]
    /\ auth \in (IF back = "direct" THEN {FALSE} ELSE BOOLEAN)
    /\ pc = IF front = "socks" THEN "greet" ELSE "dial"
    /\ src = IF front = "http" THEN "server" ELSE "open"
    /\ gone = FALSE
    /\ port \in (IF front = "http" THEN Ports \cup {NoPort} ELSE {NoPort})
    /\ age = 0
    /\ reqAge = 0
    /\ srcDeadline = (front = "socks")
    /\ ups = [n \in 1 .. LastAttempt |-> "none"]
    /\ attempt = 1
    /\ creds = IF auth /\ back = "http" THEN "basic" ELSE "none"
    /\ wait = 0
    /\ upDeadline = FALSE
    /\ sentPort = NoPort
    /\ skew = 0
    /\ answer = "none"

\* An operation on the client connection finds its deadline expired.
Late == srcDeadline /\ age >= ClientDeadline
Reachable == ~gone /\ ~Late

-----------------------------------------------------------------------------
(* The SOCKS server side.                                                  *)

\* A return before the dial: the deferred Close is all there is to do.
Abandon(a) ==
    /\ pc' = "returned"
    /\ src' = "closed"
    /\ answer' = IF Reachable THEN a ELSE "none"
    /\ UNCHANGED <<config, gone, port, reqAge, srcDeadline, age, wait, upVars>>

\* socksHandshake: the client offers "no authentication" and is told so.
GreetOk ==
    /\ pc = "greet"
    /\ Reachable
    /\ pc' = "request"
    /\ UNCHANGED <<config, clientVars, age, wait, upVars>>

\* A short read, an expired deadline, a wrong version; or no usable method.
GreetError ==
    /\ pc = "greet"
    /\ \E a \in {"none", "noMethod"} : Abandon(a)

\* socksReadRequest: a CONNECT; the port is read from two bytes.
RequestOk(p) ==
    /\ pc = "request"
    /\ Reachable
    /\ IsPort(p)
    /\ port' = p
    /\ reqAge' = age
    /\ pc' = "dial"
    /\ wait' = 0
    /\ UNCHANGED <<config, src, gone, srcDeadline, answer, age, upVars>>

\* A short read, an expired deadline, another command or address type.
RequestError ==
    /\ pc = "request"
    /\ \E a \in {"none", "badCmd", "badAtyp"} : Abandon(a)

-----------------------------------------------------------------------------
(* Reaching the target.                                                    *)

\* Mutant of DialFails: an error return that forgets conn.Close.
DialFails_NoClose ==
    /\ pc' = "fail"
    /\ upDeadline' = FALSE
    /\ UNCHANGED <<config, clientVars, age, wait, ups, attempt, creds, sentPort, skew>>

\* The outbound connection is closed (if it was opened) and the dial function
\* returns an error.  dialUpstreamSOCKS's deferred reset of the deadline runs
\* on every return.
DialFails ==
    /\ pc' = "fail"
    /\ ups' = [ups EXCEPT ![attempt] = IF @ = "open" THEN "closed" ELSE @]
    /\ upDeadline' = FALSE
    /\ UNCHANGED <<config, clientVars, age, wait, attempt, creds, sentPort, skew>>

DialError ==
    /\ pc = "dial"
    /\ DialFails

\* Mutant of DialOk: no deadline on the connection to the SOCKS upstream.
DialOk_NoDeadline ==
    /\ pc = "dial"
    /\ ups' = [ups EXCEPT ![attempt] = "open"]
    /\ \/ /\ back = "direct"
          /\ front = "relay" \/ IsPort(port)
          /\ pc' = "reply"
       \/ back = "socks" /\ pc' = "greeting"
       \/ back = "http" /\ pc' = "connect"
    /\ UNCHANGED <<config, clientVars, age, wait, upDeadline, attempt, creds, sentPort, skew>>

\* The connection to the target itself (direct) or to the upstream is up.  A
\* target that names no valid port cannot be dialled.
DialOk ==
    /\ pc = "dial"
    /\ ups' = [ups EXCEPT ![attempt] = "open"]
    /\ \/ /\ back = "direct"
          /\ front = "relay" \/ IsPort(port)
          /\ pc' = "reply"
          /\ UNCHANGED <<wait, upDeadline>>
       \/ /\ back = "socks"
          /\ pc' = "greeting"
          /\ wait' = 0
          /\ upDeadline' = TRUE
       \/ /\ back = "http"
          /\ pc' = "connect"
          /\ UNCHANGED <<wait, upDeadline>>
    /\ UNCHANGED <<config, clientVars, age, attempt, creds, sentPort, skew>>

Timely == upDeadline => wait < UpstreamDeadline

\* The CONNECT request names the target with its port in two bytes; a target
\* that does not split, or whose port is no number, ends the dial here.
SendRequest ==
    /\ pc' = "upreply"
    /\ port # NoPort
    /\ sentPort' = port % 65536

\* dialUpstreamSOCKS: the upstream accepts the one method offered.
UpGreeting ==
    /\ pc = "greeting"
    /\ Timely
    /\ \/ auth /\ pc' = "userpass" /\ UNCHANGED sentPort
       \/ ~auth /\ SendRequest
    /\ UNCHANGED <<config, clientVars, age, wait, ups, attempt, creds, upDeadline, skew>>

\* The upstream accepts the user name and password.
UpUserPass ==
    /\ pc = "userpass"
    /\ Timely
    /\ SendRequest
    /\ UNCHANGED <<config, clientVars, age, wait, ups, attempt, creds, upDeadline, skew>>

\* Lengths of BND.ADDR a reply can carry, by address type; n is the length
\* byte of a domain name.
BoundLength(atyp, n) ==
    CASE atyp = "ipv4" -> 4
      [] atyp = "ipv6" -> 16
      [] atyp = "domain" -> 1 + n

\* What the dial reads: for a domain the length byte, then addrLen bytes, and
\* the two bytes of BND.PORT.
Consumed(atyp, n) ==
    LET addrLen == CASE atyp = "ipv4" -> 4 [] atyp = "ipv6" -> 16 [] atyp = "domain" -> n
    IN  (IF atyp = "domain" THEN 1 ELSE 0) + addrLen + 2

\* The upstream reports success; its bound address is read past.
UpReplyOk(atyp, n) ==
    /\ pc = "upreply"
    /\ Timely
    /\ skew' = Consumed(atyp, n) - (BoundLength(atyp, n) + 2)
    /\ upDeadline' = FALSE
    /\ pc' = "reply"
    /\ UNCHANGED <<config, clientVars, age, wait, ups, attempt, creds, sentPort>>

\* Any failure on the way: a refusal, a bad version or address type, a broken
\* connection, the deadline, credentials or a host name over 255 bytes, a bad
\* target.
UpError ==
    /\ pc \in UpstreamSOCKS
    /\ DialFails

\* connectAttempt and the upstream's 200.  What the bufio.Reader read beyond
\* the response stays readable through bufferedConn; but if the 200 declares a
\* content of n bytes, closing its Body reads these out of the tunnel.
ConnectOk(n) ==
    /\ pc = "connect"
    /\ sentPort' = port
    /\ skew' = n
    /\ pc' = "reply"
    /\ UNCHANGED <<config, clientVars, age, wait, ups, attempt, creds, upDeadline>>

\* Mutant of ConnectRetry: every 407 is answered, in a loop.
ConnectRetry_Loop ==
    /\ pc = "connect"
    /\ auth
    /\ ups' = [ups EXCEPT ![attempt] = "closed", ![LastAttempt] = "none"]
    /\ attempt' = LastAttempt
    /\ creds' = "digest"
    /\ pc' = "dial"
    /\ wait' = 0
    /\ UNCHANGED <<config, clientVars, age, upDeadline, sentPort, skew>>

\* The first attempt meets a 407 with a usable Digest challenge: close it and
\* try once more on a fresh connection.
ConnectRetry ==
    /\ pc = "connect"
    /\ attempt = 1
    /\ auth
    /\ ups' = [ups EXCEPT ![attempt] = "closed"]
    /\ attempt' = attempt + 1
    /\ creds' = "digest"
    /\ pc' = "dial"
    /\ wait' = 0
    /\ UNCHANGED <<config, clientVars, age, upDeadline, sentPort, skew>>

\* Any other status, no usable challenge, a failed write or read.
ConnectError ==
    /\ pc = "connect"
    /\ DialFails

-----------------------------------------------------------------------------
(* Answering the client.                                                   *)

\* The dial failed.  A SOCKS client gets "general failure"; whether it could be
\* written is not looked at.
RefuseSOCKS ==
    /\ pc = "fail"
    /\ front = "socks"
    /\ pc' = "returned"
    /\ src' = "closed"
    /\ answer' = IF Reachable THEN "fail" ELSE "none"
    /\ UNCHANGED <<config, gone, port, reqAge, srcDeadline, age, wait, upVars>>

\* An HTTP client gets 502, and its connection stays with net/http.
RefuseConnect ==
    /\ pc = "fail"
    /\ front = "http"
    /\ pc' = "returned"
    /\ answer' = "fail"
    /\ UNCHANGED <<config, src, gone, port, reqAge, srcDeadline, age, wait, upVars>>

\* A relayed client is disconnected.
RefuseRelay ==
    /\ pc = "fail"
    /\ front = "relay"
    /\ pc' = "returned"
    /\ src' = "closed"
    /\ UNCHANGED <<config, gone, port, reqAge, srcDeadline, answer, age, wait, upVars>>

\* Mutant of AcceptSOCKS: the client's deadline is not lifted.
AcceptSOCKS_KeepDeadline ==
    /\ pc = "reply"
    /\ front = "socks"
    /\ Reachable
    /\ pc' = "tunnel"
    /\ answer' = "ok"
    /\ UNCHANGED <<config, src, gone, port, reqAge, srcDeadline, age, wait, upVars>>

\* The success reply is written; only then is the client's deadline lifted.
AcceptSOCKS ==
    /\ pc = "reply"
    /\ front = "socks"
    /\ Reachable
    /\ pc' = "tunnel"
    /\ srcDeadline' = FALSE
    /\ answer' = "ok"
    /\ UNCHANGED <<config, src, gone, port, reqAge, age, wait, upVars>>

\* The reply cannot be written: both deferred Closes run.
AcceptSOCKSError ==
    /\ pc = "reply"
    /\ front = "socks"
    /\ ~Reachable
    /\ pc' = "returned"
    /\ src' = "closed"
    /\ ups' = [ups EXCEPT ![attempt] = "closed"]
    /\ UNCHANGED <<config, gone, port, reqAge, srcDeadline, answer, age, wait,
                   attempt, creds, upDeadline, sentPort, skew>>

\* The connection is taken over from net/http and the 200 flushed.
AcceptConnect ==
    /\ pc = "reply"
    /\ front = "http"
    /\ pc' = "tunnel"
    /\ src' = "open"
    /\ answer' = "ok"
    /\ UNCHANGED <<config, gone, port, reqAge, srcDeadline, age, wait, upVars>>

\* Hijack fails, and net/http keeps the client; or the 200 cannot be written.
AcceptConnectError ==
    /\ pc = "reply"
    /\ front = "http"
    /\ pc' = "returned"
    /\ src' \in {"server", "closed"}
    /\ answer' = IF src' = "server" THEN "fail" ELSE "none"
    /\ ups' = [ups EXCEPT ![attempt] = "closed"]
    /\ UNCHANGED <<config, gone, port, reqAge, srcDeadline, age, wait,
                   attempt, creds, upDeadline, sentPort, skew>>

\* A relay starts copying at once.
AcceptRelay ==
    /\ pc = "reply"
    /\ front = "relay"
    /\ pc' = "tunnel"
    /\ UNCHANGED <<config, clientVars, age, wait, upVars>>

-----------------------------------------------------------------------------
(* The environment.                                                        *)

ClientBreaks ==
    /\ ~gone
    /\ pc \notin {"tunnel", "returned"}
    /\ front = "socks"
    /\ gone' = TRUE
    /\ UNCHANGED <<config, pc, src, port, reqAge, srcDeadline, answer, age, wait, upVars>>

\* The current operation has reached its deadline: it fails before time goes
\* on.  A relay's dial has no timeout, nor has the wait for an HTTP upstream.
TimedOut ==
    \/ pc \in ClientWaits /\ Late
    \/ pc = "dial" /\ front # "relay" /\ wait >= DialTimeout
    \/ pc \in UpstreamSOCKS /\ ~Timely

\* One unit of time passes while the handler waits.
Tick ==
    /\ pc \in Waiting
    /\ ~TimedOut
    /\ age' = IF age < ClientDeadline THEN age + 1 ELSE age
    /\ wait' = IF wait < DialTimeout THEN wait + 1 ELSE wait
    /\ UNCHANGED <<config, pc, clientVars, upVars>>

Server == GreetOk \/ GreetError \/ (\E p \in Ports : RequestOk(p)) \/ RequestError

\* Content-Length of a 200 to CONNECT: none, or one an upstream must not send.
ContentLengths == {0, 1}

BoundAddresses == {<<"ipv4", 0>>, <<"ipv6", 0>>, <<"domain", 0>>, <<"domain", 255>>}

Dial ==
    \/ DialError \/ DialOk
    \/ UpGreeting \/ UpUserPass \/ UpError
    \/ \E b \in BoundAddresses : UpReplyOk(b[1], b[2])
    \/ \E n \in ContentLengths : ConnectOk(n)
    \/ ConnectRetry \/ ConnectError

Answer ==
    \/ RefuseSOCKS \/ AcceptSOCKS \/ AcceptSOCKSError
    \/ RefuseConnect \/ AcceptConnect \/ AcceptConnectError
    \/ RefuseRelay \/ AcceptRelay

Next == Server \/ Dial \/ Answer \/ ClientBreaks \/ Tick

Spec == Init /\ [][Next]_vars

\* The handler acts on an expired deadline and answers; time passes.  No peer
\* is assumed ever to send anything.
FairSpec ==
    /\ Spec
    /\ WF_vars(TimedOut /\ (GreetError \/ RequestError \/ DialError \/ UpError))
    /\ WF_vars(Answer)
    /\ WF_vars(Tick)

-----------------------------------------------------------------------------
(* Properties.                                                             *)

Open == {n \in 1 .. LastAttempt : ups[n] = "open"}

\* No outbound connection outlives the handler, whichever of the many error
\* returns it took; the connection of a first CONNECT is closed before the
\* Digest retry opens its own.
NoConnLeak ==
    /\ Open \subseteq {attempt}
    /\ pc \in {"fail", "returned"} => Open = {}
    /\ pc = "returned" => src # "open"

\* Relaying starts with exactly one outbound connection, no deadline left on
\* either side, at the first byte behind a SOCKS upstream's reply (an HTTP one's
\* may declare a content), with the client told, and the upstream asked for the
\* port the client named (if it is a port number).
TunnelReady ==
    pc = "tunnel" =>
        /\ Open = {attempt}
        /\ ~srcDeadline /\ ~upDeadline
        /\ back # "http" => skew = 0
        /\ front # "relay" => answer = "ok"
        /\ back # "direct" /\ IsPort(port) => sentPort = port

\* The timeouts add up: a SOCKS client that is there and whose request came at
\* once always gets its answer before its 30 s run out, however slow a direct
\* target or a SOCKS upstream is.
BudgetFits ==
    (/\ front = "socks" /\ back # "http"
     /\ pc = "returned" /\ ~gone /\ reqAge = 0 /\ port # NoPort)
    => answer = "fail"

\* How far the handler still has to go.  The Digest retry is the one way back.
Stage ==
    LET again == IF attempt = 1 THEN 2 ELSE 0
    IN  CASE pc = "greet"    -> 11
          [] pc = "request"  -> 10
          [] pc = "dial"     -> 7 + again
          [] pc = "connect"  -> 6 + again
          [] pc = "greeting" -> 8
          [] pc = "userpass" -> 7
          [] pc = "upreply"  -> 6
          [] pc = "reply"    -> 2
          [] pc = "fail"     -> 2
          [] pc = "tunnel"   -> 1
          [] pc = "returned" -> 0

GoesOn == pc' = pc \/ (Stage \in Nat /\ Stage' \in 0 .. Stage - 1)

\* Whatever its peers send, a handler that moves comes closer to its end: an
\* upstream that answers every CONNECT with a challenge gets two of them, and no
\* other answer leads back.
OnlyForward == [][GoesOn]_vars

\* However silent its peers are, a handler gets to relaying or returns; one that
\* does not waits for ever in one of the two waits without a deadline: for the
\* response of an HTTP upstream, or in a relay's dial.
HandshakeEnds ==
    \/ <>(pc \in {"tunnel", "returned"})
    \/ <>[](pc = "connect")
    \/ <>[](front = "relay" /\ pc = "dial")
=============================================================================
