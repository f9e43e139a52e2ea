------------------------------ MODULE Forward ------------------------------
(***************************************************************************)
(* One plain HTTP request through the proxy: handleForward, with the       *)
(* transport RunHTTP has chosen, and upstreamAuthTransport's Basic attempt *)
(* and Digest retry.  The next hop may refuse, answer anything, stop in    *)
(* the middle of a body or say nothing; the client may go away any time.   *)
(***************************************************************************)
EXTENDS Digest, FiniteSets

CONSTANTS
    Routes,      \* the transports to check, a subset of AllRoutes
    EnvProxies,  \* whether HTTP_PROXY is set in the environment
    Challenges,  \* lists of Proxy-Authenticate headers of a 407
    MaxBody,     \* bound on the parts of a request body
    MaxLen       \* bound on the parts of a response body

\* RunHTTP's transports: DefaultTransport, newSOCKSBackedTransport, an upstream
\* HTTP proxy without and with credentials.
AllRoutes == {"direct", "socks", "proxy", "auth"}

\* Request URIs: one without a host; http with and without a path; https.
URIs == {"/", "http://host/", "http://host", "https://host/"}

ASSUME RoutesAssumption == Routes \subseteq AllRoutes /\ EnvProxies \subseteq BOOLEAN
ASSUME BoundsAssumption == MaxBody \in Nat /\ MaxLen \in Nat

VARIABLES
    route,     \* the transport of this proxy
    envProxy,  \* HTTP_PROXY is set
    req,       \* the request: its URI and the size of its body
    pc,        \* control state of the handler
    attempt,   \* 1, and 2 for the Digest retry
    buffered,  \* parts of the body read into bodyBytes
    received,  \* the requests the next hop has received
    resp,      \* the response to the last of them
    open,      \* the attempts whose response body is open
    status,    \* the status line written to the client, 0 for none
    declared,  \* the client was told the length
    copied,    \* parts of the response body written to it
    ended,     \* how the response ended for it
    gone       \* it has gone away

vars == <<route, envProxy, req, pc, attempt, buffered, received, resp, open,
          status, declared, copied, ended, gone>>

NoAuth == [scheme |-> "none"]
NoResponse == [status |-> 0, challenges |-> <<>>, declared |-> FALSE, length |-> 0]
Responses ==
    [status : {200}, challenges : {<<>>}, declared : BOOLEAN, length : 0 .. MaxLen]
      \cup [status : {407}, challenges : Challenges, declared : {TRUE}, length : 0 .. MaxLen]

TypeOK ==
    /\ route \in AllRoutes /\ envProxy \in BOOLEAN
    /\ req \in [uri : URIs, body : 0 .. MaxBody]
    /\ pc \in {"start", "buffer", "send", "wait", "decide", "headers", "copy", "finish", "returned"}
    /\ attempt \in {1, 2}
    /\ buffered \in 0 .. MaxBody
    /\ Len(received) <= attempt
    /\ resp \in Responses \cup {NoResponse}
    /\ open \subseteq {1, 2}
    /\ status \in {0, 200, 400, 407, 502}
    /\ copied \in 0 .. resp.length
    /\ ended \in {"no", "complete", "cut"}
    /\ {declared, gone} \subseteq BOOLEAN

Init ==
    /\ route \in Routes
    /\ envProxy \in EnvProxies
    /\ req \in [uri : URIs, body : 0 .. MaxBody]
    /\ pc = "start"
    /\ attempt = 1
    /\ buffered = 0
    /\ received = <<>>
    /\ resp = NoResponse
    /\ open = {}
    /\ status = 0
    /\ declared = FALSE
    /\ copied = 0
    /\ ended = "no"
    /\ gone = FALSE

Goto(l) == pc' = l

\* http.Error: a short answer with its length.
HTTPError(code) ==
    /\ status' = code
    /\ declared' = TRUE
    /\ Goto("finish")

-----------------------------------------------------------------------------
(* handleForward up to RoundTrip, and the buffering of the body.           *)

\* A request URI that is not absolute.
NotAbsolute ==
    /\ pc = "start" /\ req.uri = "/"
    /\ HTTPError(400)
    /\ UNCHANGED <<route, envProxy, req, attempt, buffered, received, resp, open,
                   copied, ended, gone>>

Begin ==
    /\ pc = "start" /\ req.uri # "/"
    /\ Goto(IF route = "auth" /\ req.body > 0 THEN "buffer" ELSE "send")
    /\ UNCHANGED <<route, envProxy, req, attempt, buffered, received, resp, open,
                   status, declared, copied, ended, gone>>

\* io.ReadAll of the client's body.
BufferPart ==
    /\ pc = "buffer" /\ ~gone
    /\ IF buffered < req.body THEN buffered' = buffered + 1 /\ UNCHANGED pc
                              ELSE Goto("send") /\ UNCHANGED buffered
    /\ UNCHANGED <<route, envProxy, req, attempt, received, resp, open,
                   status, declared, copied, ended, gone>>

BufferError ==
    /\ pc = "buffer" /\ gone
    /\ HTTPError(502)
    /\ UNCHANGED <<route, envProxy, req, attempt, buffered, received, resp, open,
                   copied, ended, gone>>

-----------------------------------------------------------------------------
(* RoundTrip.                                                              *)

\* Who receives the request: DefaultTransport heeds the environment,
\* newSOCKSBackedTransport has cleared Proxy.  For an https URI the inner
\* Transport has the upstream open a tunnel and sends the request through it.
Hop ==
    CASE route = "direct" /\ envProxy /\ req.uri # "https://host/" -> "envProxy"
      [] route \in {"proxy", "auth"} /\ req.uri # "https://host/" -> "upstream"
      [] OTHER -> "destination"

\* The target net/http writes in the request line: a proxy gets the URI, with a
\* path, a destination the path alone.
RequestTarget == IF Hop = "destination" THEN "/" ELSE "http://host/"

\* Mutant of CloneBody: both attempts share one reader.
CloneBody_Shared == IF attempt = 1 THEN buffered ELSE 0

\* cloneWithBody: a reader of its own on bodyBytes.
CloneBody == buffered

\* The digest uri is the URL of the request, as the client wrote it.
Digested ==
    BuildDigestAuthorization(ParseDigestChallenge(resp.challenges[FirstDigest(resp.challenges)]),
                             "GET", req.uri, "user", "pass", "cnonce")

\* upstreamAuthTransport: Basic preemptively, Digest on the retry.
Authorization ==
    CASE route # "auth" -> NoAuth
      [] route = "auth" /\ attempt = 1 -> [scheme |-> "Basic"]
      [] OTHER -> Digested

\* The inner RoundTrip writes the request.
Send ==
    /\ pc = "send" /\ ~gone
    /\ received' = Append(received,
         [hop |-> Hop, target |-> RequestTarget, auth |-> Authorization,
          body |-> IF route = "auth" THEN CloneBody ELSE req.body])
    /\ Goto("wait")
    /\ UNCHANGED <<route, envProxy, req, attempt, buffered, resp, open,
                   status, declared, copied, ended, gone>>

\* The next hop answers.
Respond(r) ==
    /\ pc = "wait"
    /\ resp' = r
    /\ open' = open \cup {attempt}
    /\ Goto("decide")
    /\ UNCHANGED <<route, envProxy, req, attempt, buffered, received,
                   status, declared, copied, ended, gone>>

\* Mutant of RoundTripError: RoundTrip does not know the client's context.
RoundTripError_NoContext ==
    /\ pc \in {"send", "wait"} /\ ~gone
    /\ HTTPError(502)
    /\ UNCHANGED <<route, envProxy, req, attempt, buffered, received, resp, open,
                   copied, ended, gone>>

\* It cannot be reached, breaks, or the request's context is cancelled, which
\* the server does when the client goes away.
RoundTripError ==
    /\ pc \in {"send", "wait"}
    /\ HTTPError(502)
    /\ UNCHANGED <<route, envProxy, req, attempt, buffered, received, resp, open,
                   copied, ended, gone>>

\* Mutant of Challenged: every 407 is answered again.
Challenged_Always ==
    route = "auth" /\ resp.status = 407 /\ HasDigestChallenge(resp.challenges)

\* The first 407 with a Digest challenge.
Challenged ==
    route = "auth" /\ attempt = 1 /\ resp.status = 407 /\ HasDigestChallenge(resp.challenges)

\* RoundTrip returns the response to handleForward.
Deliver ==
    /\ pc = "decide" /\ ~Challenged
    /\ Goto("headers")
    /\ UNCHANGED <<route, envProxy, req, attempt, buffered, received, resp, open,
                   status, declared, copied, ended, gone>>

\* Mutant of Retry: the first response is not closed.
Retry_KeepOpen ==
    /\ pc = "decide" /\ Challenged
    /\ Supported(resp.challenges[FirstDigest(resp.challenges)])
    /\ attempt' = 2
    /\ Goto("send")
    /\ UNCHANGED <<route, envProxy, req, buffered, received, resp, open,
                   status, declared, copied, ended, gone>>

\* A Digest challenge: the first response is closed, the request repeated.
Retry ==
    /\ pc = "decide" /\ Challenged
    /\ Supported(resp.challenges[FirstDigest(resp.challenges)])
    /\ open' = open \ {1}
    /\ attempt' = 2
    /\ Goto("send")
    /\ UNCHANGED <<route, envProxy, req, buffered, received, resp,
                   status, declared, copied, ended, gone>>

\* buildDigestAuthorization does not know the algorithm.  (Its other error, of
\* crypto/rand, cannot occur with the Go version of go.mod.)
RetryError ==
    /\ pc = "decide" /\ Challenged
    /\ ~Supported(resp.challenges[FirstDigest(resp.challenges)])
    /\ open' = open \ {1}
    /\ HTTPError(502)
    /\ UNCHANGED <<route, envProxy, req, attempt, buffered, received, resp,
                   copied, ended, gone>>

-----------------------------------------------------------------------------
(* The response is copied back.                                            *)

\* Mutant of CopyHeaders: the status line is written before the headers are set.
CopyHeaders_Late ==
    /\ pc = "headers"
    /\ status' = resp.status
    /\ Goto("copy")
    /\ UNCHANGED <<route, envProxy, req, attempt, buffered, received, resp, open,
                   declared, copied, ended, gone>>

\* The headers, Content-Length among them, and the status.
CopyHeaders ==
    /\ pc = "headers"
    /\ status' = resp.status
    /\ declared' = resp.declared
    /\ Goto("copy")
    /\ UNCHANGED <<route, envProxy, req, attempt, buffered, received, resp, open,
                   copied, ended, gone>>

CopyPart ==
    /\ pc = "copy" /\ ~gone /\ copied < resp.length
    /\ copied' = copied + 1
    /\ UNCHANGED <<route, envProxy, req, pc, attempt, buffered, received, resp, open,
                   status, declared, ended, gone>>

\* Copy returns: at the end, because reading fails (the next hop breaks off or
\* the client's context is cancelled) or because writing does.  handleForward
\* does not look at its result.
CopyEnd ==
    /\ pc = "copy"
    /\ Goto("finish")
    /\ UNCHANGED <<route, envProxy, req, attempt, buffered, received, resp, open,
                   status, declared, copied, ended, gone>>

\* The handler returns and its defer closes the response; the server ends the
\* answer, and cuts the connection if it is shorter than declared.
Return ==
    /\ pc = "finish"
    /\ open' = open \ {attempt}
    /\ ended' = IF \/ gone
                   \/ declared /\ status = resp.status /\ copied < resp.length
                THEN "cut" ELSE "complete"
    /\ Goto("returned")
    /\ UNCHANGED <<route, envProxy, req, attempt, buffered, received, resp,
                   status, declared, copied, gone>>

ClientGone ==
    /\ ~gone /\ pc # "returned"
    /\ gone' = TRUE
    /\ UNCHANGED <<route, envProxy, req, pc, attempt, buffered, received, resp, open,
                   status, declared, copied, ended>>

Handler ==
    \/ NotAbsolute \/ Begin \/ BufferError
    \/ Deliver \/ Retry \/ RetryError
    \/ CopyHeaders \/ Return

Next ==
    \/ Handler
    \/ BufferPart \/ Send \/ RoundTripError \/ CopyPart \/ CopyEnd
    \/ \E r \in Responses : Respond(r)
    \/ ClientGone

Spec == Init /\ [][Next]_vars

\* The handler runs; a transport call ends once the client is gone.  Nothing is
\* assumed of the next hop.
FairSpec ==
    /\ Spec
    /\ WF_vars(Handler)
    /\ WF_vars(gone /\ (RoundTripError \/ CopyEnd))

-----------------------------------------------------------------------------
(* Properties.                                                             *)

\* No response body, and so no connection, is left open: the challenge's is
\* closed before the retry, the last one when the handler returns.
NoBodyLeak ==
    /\ attempt = 2 => 1 \notin open
    /\ pc = "returned" => open = {}

\* The whole body is in every request sent, the retry's included.
BodyReplayed == \A i \in DOMAIN received : received[i].body = req.body

\* "Username/password presented to the upstream proxy": whoever receives the
\* credentials is the upstream.
CredentialsScope ==
    \A i \in DOMAIN received : received[i].auth.scheme # "none" => received[i].hop = "upstream"

\* With credentials configured, a 407 reaches the client only if none of its
\* headers is a Digest challenge, or it is the answer to a Digest attempt.
ChallengeAnswered ==
    status = 407 /\ route = "auth" =>
        \/ \A i \in DOMAIN resp.challenges : ~IsDigest(resp.challenges[i])
        \/ Len(received) = 2 /\ received[2].auth.scheme = "Digest"

\* The upstream's own computation, from the request line it received, agrees with
\* the response sent to its first Digest challenge, when that is an answerable
\* one and the client's URI has a path.
DigestVerifies ==
    Len(received) = 2 /\ pc = "wait" /\ received[2].hop = "upstream" /\ req.uri # "http://host" =>
        LET h == resp.challenges[FirstDigest(resp.challenges)]
        IN  Answerable(h) =>
              Accepts(h, received[2].auth, "GET", received[2].target, "user", "pass")

\* A response with a length that breaks off breaks off for the client.
LengthKept ==
    ended = "complete" /\ resp.declared /\ status = resp.status => copied = resp.length

\* When the client goes away the handler ends, however silent the next hop.
GoneEnds == gone ~> pc = "returned"
=============================================================================
