--------------------------- MODULE ForwardProofs ---------------------------
(***************************************************************************)
(* TLAPS proofs about Forward and Digest, for any lists of challenges and  *)
(* bodies of any size: no response body is left open, the whole body is in *)
(* every attempt, a Digest challenge is answered, the upstream can verify  *)
(* the answer, a response that breaks off is seen to, and no step leads    *)
(* back.                                                                   *)
(***************************************************************************)
EXTENDS Forward, SequenceTheorems, TLAPS

-----------------------------------------------------------------------------
(* digest.go.                                                              *)

\* For every answerable challenge, the upstream's computation from its own
\* header and the parameters sent gives the response buildDigestAuthorization
\* computed from the parsed one.
THEOREM DigestRoundTrip ==
    ASSUME NEW h, NEW method, NEW uri, NEW user, NEW pass, NEW cnonce, Answerable(h)
    PROVE  Accepts(h, BuildDigestAuthorization(ParseDigestChallenge(h), method, uri,
                                               user, pass, cnonce),
                   method, uri, user, pass)
<1> DEFINE ch == ParseDigestChallenge(h)
           a == BuildDigestAuthorization(ch, method, uri, user, pass, cnonce)
<1>1. /\ <<a.realm, a.nonce, a.opaque, a.algorithm>> = <<h.realm, h.nonce, h.opaque, h.algorithm>>
      /\ a.scheme = "Digest" /\ a.username = user /\ a.uri = uri
  BY DEF BuildDigestAuthorization, ParseDigestChallenge
<1>2. CASE "auth" \in h.qop
  BY <1>1, <1>2 DEF Accepts, BuildDigestAuthorization, ParseDigestChallenge, Response, HA1, HA2
<1>3. CASE h.qop = {} /\ h.algorithm # "MD5-sess"
  BY <1>1, <1>3 DEF Accepts, BuildDigestAuthorization, ParseDigestChallenge, Response, HA1, HA2
<1> QED BY <1>2, <1>3 DEF Answerable

-----------------------------------------------------------------------------
(* The inductive invariant.                                                *)

\* Requests sent so far.
Sent == Len(received)

\* How the number of requests follows the control state.
SentShape ==
    /\ attempt \in {1, 2}
    /\ \/ Sent = 0 /\ received = <<>>
       \/ Sent = 1 /\ received = <<received[1]>>
       \/ Sent = 2 /\ received = <<received[1], received[2]>>
    /\ Sent <= attempt
    /\ pc \in {"start", "buffer"} => attempt = 1 /\ Sent = 0
    /\ pc = "send" => Sent = attempt - 1
    /\ pc \in {"wait", "decide"} => Sent = attempt
    /\ attempt = 2 => Sent >= 1

\* A body is buffered completely before the first attempt, of an absolute URI.
BufferFull ==
    /\ pc \in {"buffer", "send", "wait", "decide"} => req.uri # "/"
    /\ route = "auth" /\ pc \in {"send", "wait", "decide"} => buffered = req.body
    /\ buffered <= req.body
    /\ buffered \in Nat /\ req.body \in Nat
    /\ pc = "start" => buffered = 0

\* Only the last response may be open, and none before it has arrived.
OpenShape ==
    /\ open \subseteq {attempt}
    /\ pc \in {"start", "buffer", "send", "wait", "returned"} => open = {}

\* The retry is upstreamAuthTransport's, after its Basic attempt, and while it
\* is in flight resp is the challenge it answers.
RetryShape ==
    /\ Sent >= 1 /\ route = "auth" => received[1].auth.scheme = "Basic"
    /\ Sent = 2 => received[2].auth.scheme = "Digest"
    /\ attempt = 2 => route = "auth"
    /\ Sent = 2 /\ pc = "wait" => received[2].auth = Digested
    /\ \A i \in 1 .. Sent : received[i].hop = Hop /\ received[i].target = RequestTarget

IInv ==
    /\ SentShape
    /\ BufferFull
    /\ OpenShape
    /\ RetryShape
    /\ BodyReplayed

LEMMA InvInit == Init => IInv
<1> SUFFICES ASSUME Init PROVE IInv
  OBVIOUS
<1>1. BufferFull
  BY BoundsAssumption DEF Init, BufferFull
<1> QED
  BY <1>1 DEF Init, IInv, SentShape, OpenShape, RetryShape, BodyReplayed, Sent

LEMMA AppendToOne ==
    ASSUME NEW S, NEW x \in S, NEW y \in S, NEW s \in Seq(S), s = <<x>>
    PROVE  Append(s, y) = <<x, y>>
<1>1. Len(s) = 1 /\ s[1] = x
  OBVIOUS
<1> DEFINE t == Append(s, y)
<1>2. /\ t \in Seq(S) /\ Len(t) = Len(s) + 1
      /\ t[1] = s[1]
      /\ t[Len(s) + 1] = y
  <2>1. Len(s) = 1
    BY <1>1
  <2> QED BY <2>1, AppendProperties
<1>3. <<x, y>> \in Seq(S) /\ Len(<<x, y>>) = 2 /\ <<x, y>>[1] = x /\ <<x, y>>[2] = y
  OBVIOUS
<1> HIDE DEF t
<1>4. Len(t) = 2 /\ \A i \in 1 .. 2 : t[i] = <<x, y>>[i]
  BY <1>1, <1>2, <1>3
<1>5. t = <<x, y>>
  BY <1>2, <1>3, <1>4, SeqEqual
<1> QED BY <1>5 DEF t

LEMMA AppendFacts ==
    ASSUME NEW x, NEW y
    PROVE  Append(<<>>, y) = <<y>> /\ Append(<<x>>, y) = <<x, y>>
<1>1. <<x>> \in Seq({x, y}) /\ <<>> \in Seq({x, y}) /\ x \in {x, y} /\ y \in {x, y}
  OBVIOUS
<1>2. Append(<<x>>, y) = <<x, y>>
  BY <1>1, AppendToOne
<1>3. Append(<<>>, y) = <<y>>
  BY <1>1
<1> QED BY <1>2, <1>3

\* The one step that sends.
LEMMA SendStep == IInv /\ Send => IInv'
<1> SUFFICES ASSUME IInv, Send PROVE IInv'
  OBVIOUS
<1> DEFINE r == [hop |-> Hop, target |-> RequestTarget, auth |-> Authorization,
                 body |-> IF route = "auth" THEN CloneBody ELSE req.body]
<1> USE DEF IInv, SentShape, Sent
<1>1. /\ received' = Append(received, r)
      /\ pc = "send" /\ pc' = "wait"
      /\ UNCHANGED <<route, envProxy, req, attempt, buffered, resp, open>>
  BY DEF Send, Goto
<1>2. r.body = req.body
  BY <1>1 DEF BufferFull, CloneBody
<1>3. /\ route = "auth" /\ attempt = 1 => r.auth.scheme = "Basic"
      /\ route = "auth" /\ attempt = 2 => r.auth = Digested
  BY DEF Authorization
<1>4. Digested.scheme = "Digest"
  BY DEF Digested, BuildDigestAuthorization
<1>5. Digested' = Digested /\ Hop' = Hop /\ RequestTarget' = RequestTarget
  BY <1>1 DEF Digested, Hop, RequestTarget
<1>6. r.hop = Hop /\ r.target = RequestTarget
  OBVIOUS
<1>7. BufferFull' /\ OpenShape'
  BY <1>1 DEF BufferFull, OpenShape
<1> HIDE DEF r
<1>8. CASE attempt = 1
  <2>1. received = <<>> /\ received' = <<r>>
    BY <1>1, <1>8, AppendFacts
  <2>2. SentShape'
    BY <1>1, <1>8, <2>1
  <2>3. RetryShape'
    BY <1>1, <1>3, <1>5, <1>6, <1>8, <2>1 DEF RetryShape
  <2>4. BodyReplayed'
    BY <1>1, <1>2, <2>1 DEF BodyReplayed
  <2> QED BY <1>7, <2>2, <2>3, <2>4
<1>9. CASE attempt = 2
  <2>0. received = <<received[1]>>
    BY <1>1, <1>9
  <2>1. received' = <<received[1], r>>
    BY <1>1, <2>0, AppendFacts, Zenon
  <2>2. SentShape'
    BY <1>1, <1>9, <2>1
  <2>3. route = "auth" /\ received[1].auth.scheme = "Basic"
    BY <1>9, <2>0 DEF RetryShape
  <2>4. RetryShape'
    BY <1>1, <1>3, <1>4, <1>5, <1>6, <1>9, <2>1, <2>3 DEF RetryShape
  <2>5. BodyReplayed'
    <3>1. received[1].body = req.body
      BY <1>1, <1>9, <2>0 DEF BodyReplayed
    <3> QED BY <1>1, <1>2, <2>1, <3>1 DEF BodyReplayed
  <2> QED BY <1>7, <2>2, <2>4, <2>5
<1> QED BY <1>8, <1>9

\* The challenge's body is closed and the request goes round again.
LEMMA RetryStep == IInv /\ Retry => IInv'
<1> SUFFICES ASSUME IInv, Retry PROVE IInv'
  OBVIOUS
<1>1. /\ pc = "decide" /\ pc' = "send"
      /\ attempt = 1 /\ attempt' = 2 /\ route = "auth"
      /\ open' = open \ {1}
      /\ UNCHANGED <<route, envProxy, req, buffered, received>>
  BY DEF Retry, Challenged, Goto
<1>2. Sent = 1 /\ received = <<received[1]>>
  BY <1>1 DEF IInv, SentShape
<1>3. Sent' = Sent /\ Hop' = Hop /\ RequestTarget' = RequestTarget
  BY <1>1 DEF Sent, Hop, RequestTarget
<1>4. SentShape'
  BY <1>1, <1>2, <1>3 DEF SentShape
<1>5. BufferFull' /\ OpenShape'
  BY <1>1 DEF IInv, BufferFull, OpenShape
<1>6. RetryShape'
  BY <1>1, <1>2, <1>3 DEF IInv, RetryShape
<1>7. BodyReplayed'
  BY <1>1 DEF IInv, BodyReplayed
<1> QED BY <1>4, <1>5, <1>6, <1>7 DEF IInv

LEMMA InvStep == IInv /\ [Next]_vars => IInv'
<1> SUFFICES ASSUME IInv, [Next]_vars PROVE IInv'
  OBVIOUS
<1> USE DEF IInv, SentShape, BufferFull, OpenShape, RetryShape, BodyReplayed, Sent, Goto,
            HTTPError, Hop, RequestTarget
<1>1. CASE NotAbsolute \/ Begin
  BY <1>1 DEF NotAbsolute, Begin
<1>2. CASE BufferPart \/ BufferError
  BY <1>2 DEF BufferPart, BufferError
<1>3. CASE Send
  BY <1>3, SendStep
<1>4. ASSUME NEW r \in Responses, Respond(r) PROVE IInv'
  BY <1>4 DEF Respond
<1>5. CASE RoundTripError
  BY <1>5 DEF RoundTripError
<1>6. CASE Deliver
  BY <1>6 DEF Deliver
<1>7. CASE Retry
  BY <1>7, RetryStep
<1>8. CASE RetryError
  BY <1>8 DEF RetryError, Challenged
<1>9. CASE CopyHeaders \/ CopyPart \/ CopyEnd
  BY <1>9 DEF CopyHeaders, CopyPart, CopyEnd
<1>10. CASE Return
  BY <1>10 DEF Return
<1>11. CASE ClientGone
  BY <1>11 DEF ClientGone, Digested
<1>12. CASE UNCHANGED vars
  BY <1>12 DEF vars, Digested
<1> QED
  BY <1>1, <1>2, <1>3, <1>4, <1>5, <1>6, <1>7, <1>8, <1>9, <1>10, <1>11, <1>12
     DEF Next, Handler

LEMMA Invariance == Spec => []IInv
BY InvInit, InvStep, PTL DEF Spec

-----------------------------------------------------------------------------
(* The answer to the client.                                               *)

LEMMA ResponseFacts ==
    ASSUME NEW r \in Responses \cup {NoResponse}
    PROVE  /\ r.status \in {0, 200, 407}
           /\ r.declared \in BOOLEAN
           /\ r.length \in Nat /\ r.length <= MaxLen
<1> USE BoundsAssumption
<1>1. CASE r = NoResponse
  <2>1. r.status = 0 /\ r.length = 0
    BY <1>1 DEF NoResponse
  <2>2. r.declared \in BOOLEAN
    BY <1>1, Zenon DEF NoResponse
  <2> QED BY <2>1, <2>2
<1>2. ASSUME NEW S, NEW C, NEW D,
             r \in [status : S, challenges : C, declared : D, length : 0 .. MaxLen]
      PROVE  r.status \in S /\ r.declared \in D /\ r.length \in 0 .. MaxLen
  BY <1>2
<1>3. CASE r \in [status : {200}, challenges : {<<>>}, declared : BOOLEAN, length : 0 .. MaxLen]
  BY <1>2, <1>3
<1>4. CASE r \in [status : {407}, challenges : Challenges, declared : {TRUE}, length : 0 .. MaxLen]
  <2>1. r.status \in {407} /\ r.declared \in {TRUE} /\ r.length \in 0 .. MaxLen
    BY <1>2, <1>4
  <2>2. r.declared \in BOOLEAN
    BY <2>1, Zenon
  <2> QED BY <2>1, <2>2
<1> QED BY <1>1, <1>3, <1>4, Zenon DEF Responses

\* The answer starts with the headers, after the last response has come, and
\* says what handleForward or http.Error said; a status of 400 or 502 is never
\* the next hop's.
AnswerShape ==
    /\ pc \in {"start", "buffer", "send", "wait", "decide", "headers"} => status = 0 /\ copied = 0
    /\ pc # "returned" => ended = "no"
    /\ pc \in {"copy", "finish", "returned"} /\ status = resp.status => declared = resp.declared

AInv ==
    /\ TypeOK
    /\ AnswerShape
    /\ LengthKept

LEMMA AnswerInit == Init => AInv
<1> SUFFICES ASSUME Init PROVE AInv
  OBVIOUS
<1>1. declared \in BOOLEAN /\ gone \in BOOLEAN
  BY Zenon DEF Init
<1>2. resp.length = 0 /\ resp \in Responses \cup {NoResponse} /\ 0 \in 0 .. 0
  BY DEF Init, NoResponse
<1>3. TypeOK
  BY <1>1, <1>2, RoutesAssumption, BoundsAssumption DEF Init, TypeOK
<1> QED
  BY <1>3 DEF Init, AInv, AnswerShape, LengthKept

\* Steps of handleForward that say nothing to the client.
LEMMA AnswerSilent ==
    ASSUME AInv, IInv', UNCHANGED <<route, envProxy, req, resp, status, declared, copied, ended>>,
           \/ UNCHANGED pc
           \/ /\ pc \in {"start", "buffer", "send", "wait", "decide"}
              /\ pc' \in {"buffer", "send", "wait", "decide", "headers"}
           \/ pc = "copy" /\ pc' = "finish",
           buffered' \in 0 .. MaxBody, gone' \in BOOLEAN
    PROVE  AInv'
<1>1. TypeOK'
  BY DEF AInv, TypeOK, IInv, SentShape, OpenShape, Sent
<1>2. AnswerShape' /\ LengthKept'
  BY DEF AInv, AnswerShape, LengthKept
<1> QED BY <1>1, <1>2 DEF AInv

\* http.Error.
LEMMA AnswerError ==
    ASSUME AInv, IInv', NEW code \in {400, 502}, HTTPError(code),
           UNCHANGED <<route, envProxy, req, buffered, resp, copied, ended, gone>>,
           pc \in {"start", "buffer", "send", "wait", "decide"}
    PROVE  AInv'
<1>1. pc' = "finish" /\ status' = code
  BY DEF HTTPError, Goto
<1>2. declared' \in BOOLEAN
  BY Zenon DEF HTTPError
<1>3. resp.status # code
  BY ResponseFacts DEF AInv, TypeOK
<1>4. TypeOK'
  BY <1>1, <1>2 DEF AInv, TypeOK, IInv, SentShape, OpenShape, Sent
<1>5. AnswerShape' /\ LengthKept'
  BY <1>1, <1>3 DEF AInv, AnswerShape, LengthKept
<1> QED BY <1>4, <1>5 DEF AInv

LEMMA AnswerStep == AInv /\ IInv /\ IInv' /\ [Next]_vars => AInv'
<1> SUFFICES ASSUME AInv, IInv, IInv', [Next]_vars PROVE AInv'
  OBVIOUS
<1>1. CASE NotAbsolute \/ BufferError \/ RoundTripError \/ RetryError
  <2>1. /\ pc \in {"start", "buffer", "send", "wait", "decide"}
        /\ UNCHANGED <<route, envProxy, req, buffered, resp, copied, ended, gone>>
    BY <1>1 DEF NotAbsolute, BufferError, RoundTripError, RetryError
  <2>2. HTTPError(400) \/ HTTPError(502)
    BY <1>1 DEF NotAbsolute, BufferError, RoundTripError, RetryError
  <2> QED BY <2>1, <2>2, AnswerError
<1>2. CASE Begin \/ Send \/ Deliver \/ Retry \/ CopyEnd \/ UNCHANGED vars
  BY <1>2, AnswerSilent DEF Begin, Send, Deliver, Retry, CopyEnd, vars, Goto, AInv, TypeOK
<1>3. CASE BufferPart
  <2>1. buffered' \in 0 .. MaxBody
    BY <1>3, BoundsAssumption DEF BufferPart, AInv, TypeOK
  <2> QED BY <1>3, <2>1, AnswerSilent DEF BufferPart, Goto, AInv, TypeOK
<1>4. CASE ClientGone
  <2>1. gone' \in BOOLEAN
    BY <1>4, Zenon DEF ClientGone
  <2>2. UNCHANGED <<route, envProxy, req, resp, status, declared, copied, ended, pc, buffered>>
    BY <1>4 DEF ClientGone
  <2> QED BY <2>1, <2>2, AnswerSilent DEF AInv, TypeOK
<1>5. ASSUME NEW r \in Responses, Respond(r) PROVE AInv'
  <2>1. /\ pc = "wait" /\ pc' = "decide" /\ resp' = r
        /\ UNCHANGED <<route, envProxy, req, buffered, status, declared, copied, ended, gone>>
    BY <1>5 DEF Respond, Goto
  <2>2. r.length \in Nat /\ 0 \in 0 .. r.length
    BY ResponseFacts
  <2>3. copied = 0
    BY <2>1 DEF AInv, AnswerShape
  <2>4. TypeOK'
    BY <2>1, <2>2, <2>3 DEF AInv, TypeOK, IInv, SentShape, OpenShape, Sent
  <2> QED BY <2>1, <2>4 DEF AInv, AnswerShape, LengthKept
<1>6. CASE CopyHeaders
  <2>1. /\ pc = "headers" /\ pc' = "copy" /\ status' = resp.status /\ declared' = resp.declared
        /\ UNCHANGED <<route, envProxy, req, buffered, resp, copied, ended, gone>>
    BY <1>6 DEF CopyHeaders, Goto
  <2>2. resp.status \in {0, 200, 407} /\ resp.declared \in BOOLEAN
    BY ResponseFacts DEF AInv, TypeOK
  <2>3. TypeOK'
    BY <2>1, <2>2 DEF AInv, TypeOK, IInv, SentShape, OpenShape, Sent
  <2> QED BY <2>1, <2>3 DEF AInv, AnswerShape, LengthKept
<1>7. CASE CopyPart
  <2>1. /\ pc = "copy" /\ copied < resp.length /\ copied' = copied + 1
        /\ UNCHANGED <<route, envProxy, req, pc, buffered, resp, status, declared, ended, gone>>
    BY <1>7 DEF CopyPart
  <2>2. copied' \in 0 .. resp.length
    BY <2>1, ResponseFacts DEF AInv, TypeOK
  <2>3. TypeOK'
    BY <2>1, <2>2 DEF AInv, TypeOK, IInv, SentShape, OpenShape, Sent
  <2> QED BY <2>1, <2>3 DEF AInv, AnswerShape, LengthKept
<1>8. CASE Return
  <2>1. /\ pc = "finish" /\ pc' = "returned"
        /\ UNCHANGED <<route, envProxy, req, buffered, resp, status, declared, copied, gone>>
    BY <1>8 DEF Return, Goto
  <2>2. /\ ended' \in {"complete", "cut"}
        /\ ended' = "complete" => ~(declared /\ status = resp.status /\ copied < resp.length)
    BY <1>8 DEF Return
  <2>3. copied \in 0 .. resp.length /\ resp.length \in Nat
    BY ResponseFacts DEF AInv, TypeOK
  <2>4. TypeOK'
    BY <2>1, <2>2 DEF AInv, TypeOK, IInv, SentShape, OpenShape, Sent
  <2>5. AnswerShape'
    BY <2>1 DEF AInv, AnswerShape
  <2>6. LengthKept'
    BY <2>1, <2>2, <2>3 DEF AInv, AnswerShape, LengthKept
  <2> QED BY <2>4, <2>5, <2>6 DEF AInv
<1> QED
  BY <1>1, <1>2, <1>3, <1>4, <1>5, <1>6, <1>7, <1>8 DEF Next, Handler

LEMMA AnswerInvariance == Spec => []AInv
BY AnswerInit, AnswerStep, Invariance, PTL DEF Spec

-----------------------------------------------------------------------------
(* The handler cannot go round in circles.                                 *)

\* What is at most left to do at each statement of the handler: a part of a
\* body is moved once, and only a first attempt leads to a second one.
Left ==
    LET again == IF attempt = 1 THEN 3 ELSE 0
    IN  CASE pc = "start"    -> 11 + MaxLen + req.body
          [] pc = "buffer"   -> 10 + MaxLen + (req.body - buffered)
          [] pc = "send"     -> 6 + MaxLen + again
          [] pc = "wait"     -> 5 + MaxLen + again
          [] pc = "decide"   -> 4 + MaxLen + again
          [] pc = "headers"  -> 3 + MaxLen
          [] pc = "copy"     -> 2 + (resp.length - copied)
          [] pc = "finish"   -> 1
          [] pc = "returned" -> 0

\* The client can leave once more.
Rank == Left + (IF gone THEN 0 ELSE 1)

Progress == Rank \in Nat /\ Rank' \in 0 .. Rank - 1

-----------------------------------------------------------------------------
(* The results.                                                            *)

\* upstreamAuthTransport closes the challenge's body before it repeats the
\* request, handleForward the last one before it returns, on every path.
THEOREM NoBodyLeakHolds == Spec => []NoBodyLeak
<1>1. IInv => NoBodyLeak
  BY DEF IInv, OpenShape, NoBodyLeak
<1> QED BY <1>1, Invariance, PTL

\* Every request that goes out, the Digest retry included, has the whole body.
THEOREM BodyReplayedHolds == Spec => []BodyReplayed
<1>1. IInv => BodyReplayed
  BY DEF IInv
<1> QED BY <1>1, Invariance, PTL

\* The upstream can verify the Digest response it is sent: the uri hashed is the
\* one in the request line.
THEOREM DigestVerifiesHolds == Spec => []DigestVerifies
<1>1. AInv /\ IInv => DigestVerifies
  <2> SUFFICES ASSUME AInv, IInv, Len(received) = 2, pc = "wait",
                      received[2].hop = "upstream", req.uri # "http://host",
                      NEW h, h = resp.challenges[FirstDigest(resp.challenges)], Answerable(h)
               PROVE  Accepts(h, received[2].auth, "GET", received[2].target, "user", "pass")
    BY DEF DigestVerifies
  <2>1. /\ received[2].auth = Digested
        /\ Hop = "upstream" /\ received[2].target = RequestTarget
    BY DEF IInv, RetryShape, Sent
  <2>2. req.uri \in URIs /\ req.uri # "/"
    BY DEF AInv, TypeOK, IInv, BufferFull
  <2>3. req.uri # "https://host/"
    BY <2>1 DEF Hop
  <2>4. req.uri = "http://host/" /\ RequestTarget = "http://host/"
    BY <2>1, <2>2, <2>3 DEF RequestTarget, URIs
  <2> QED
    BY <2>1, <2>4, DigestRoundTrip DEF Digested
<1> QED BY <1>1, Invariance, AnswerInvariance, PTL

\* The 407 to be passed on, before and after its status line is written.
PassedOn ==
    /\ route = "auth"
    /\ (pc = "headers" /\ resp.status = 407) \/ status = 407

PassedShape ==
    PassedOn => \/ ~HasDigestChallenge(resp.challenges)
                \/ Sent = 2

\* RoundTrip returns a 407 to handleForward only if it has no answer to it: none
\* of its challenges is a Digest one, or the answer was not accepted.
THEOREM ChallengeAnsweredHolds == Spec => []ChallengeAnswered
<1>1. Init => PassedShape
  BY DEF Init, PassedShape, PassedOn
<1>2. AInv /\ IInv /\ PassedShape /\ [Next]_vars => PassedShape'
  <2> SUFFICES ASSUME AInv, IInv, PassedShape, [Next]_vars, PassedOn'
               PROVE  ~HasDigestChallenge(resp'.challenges) \/ Sent' = 2
    BY DEF PassedShape
  <2> USE DEF PassedShape, PassedOn, HasDigestChallenge, Sent
  <2>1. CASE NotAbsolute \/ BufferError \/ RoundTripError \/ RetryError
    BY <2>1 DEF NotAbsolute, BufferError, RoundTripError, RetryError, HTTPError, Goto
  <2>2. CASE Begin \/ BufferPart \/ Send \/ Retry
    BY <2>2 DEF Begin, BufferPart, Send, Retry, Goto, AInv, AnswerShape
  <2>3. ASSUME NEW r \in Responses, Respond(r) PROVE FALSE
    BY <2>3 DEF Respond, Goto, AInv, AnswerShape
  <2>4. CASE Deliver
    <3>1. /\ pc = "decide" /\ ~Challenged /\ status = 0
          /\ UNCHANGED <<route, attempt, received, resp, status>>
      BY <2>4 DEF Deliver, AInv, AnswerShape
    <3>2. route = "auth" /\ resp.status = 407 /\ Len(received) = attempt /\ attempt \in {1, 2}
      BY <3>1 DEF IInv, SentShape
    <3> QED BY <3>1, <3>2 DEF Challenged
  <2>5. CASE CopyHeaders \/ CopyPart \/ CopyEnd \/ Return \/ ClientGone \/ UNCHANGED vars
    BY <2>5 DEF CopyHeaders, CopyPart, CopyEnd, Return, ClientGone, vars, Goto
  <2> QED BY <2>1, <2>2, <2>3, <2>4, <2>5 DEF Next, Handler
<1>3. IInv /\ PassedShape => ChallengeAnswered
  BY DEF IInv, RetryShape, PassedShape, PassedOn, ChallengeAnswered, HasDigestChallenge, Sent
<1> QED BY <1>1, <1>2, <1>3, Invariance, AnswerInvariance, PTL DEF Spec

\* Every variable keeps its type; no more requests go out than attempts are made,
\* and no more of a body is written to the client than the next hop sent.
THEOREM TypeCorrect == Spec => []TypeOK
<1>1. AInv => TypeOK
  BY DEF AInv
<1> QED BY <1>1, AnswerInvariance, PTL

\* Although handleForward ignores what Copy returns, a response that breaks off
\* before its Content-Length never looks complete to the client.
THEOREM LengthKeptHolds == Spec => []LengthKept
<1>1. AInv => LengthKept
  BY DEF AInv
<1> QED BY <1>1, AnswerInvariance, PTL

\* Every step of the handler, its client and its next hop brings the request
\* closer to its end: with the retry, it takes at most 12 steps and one for each
\* part of the two bodies, whatever the next hop answers.
THEOREM Terminates == Spec => [][Progress]_vars
<1>1. AInv /\ IInv /\ [Next]_vars => [Progress]_vars
  <2> SUFFICES ASSUME AInv, IInv, Next PROVE Progress
    BY DEF vars
  <2>1. /\ buffered \in Nat /\ req.body \in Nat /\ buffered <= req.body /\ attempt \in {1, 2}
        /\ MaxLen \in Nat /\ resp.length \in 0 .. MaxLen /\ copied \in 0 .. resp.length
    BY ResponseFacts, BoundsAssumption DEF AInv, TypeOK, IInv, BufferFull
  <2>2. Left \in Nat
    <3>1. /\ 11 + MaxLen + req.body \in Nat /\ 10 + MaxLen + (req.body - buffered) \in Nat
          /\ 2 + (resp.length - copied) \in Nat
      BY <2>1
    <3>2. CASE pc \in {"start", "buffer", "copy"}
      BY <3>1, <3>2 DEF Left
    <3>3. CASE pc \in {"send", "wait", "decide"}
      BY <2>1, <3>3 DEF Left
    <3>4. CASE pc \in {"headers", "finish", "returned"}
      BY <2>1, <3>4 DEF Left
    <3> QED BY <3>2, <3>3, <3>4 DEF AInv, TypeOK
  <2>3. SUFFICES ASSUME ~ClientGone PROVE Left' \in 0 .. Left - 1 /\ gone' = gone
    <3>1. CASE ClientGone
      <4>1. Left' = Left
        BY <3>1, Zenon DEF ClientGone, Left
      <4> QED BY <2>2, <3>1, <4>1 DEF ClientGone, Progress, Rank
    <3> QED BY <2>2, <2>3, <3>1 DEF Progress, Rank
  <2>4. CASE NotAbsolute
    BY <2>1, <2>4 DEF NotAbsolute, HTTPError, Goto, Left
  <2>5. CASE BufferError
    BY <2>1, <2>5 DEF BufferError, HTTPError, Goto, Left
  <2>6. CASE Begin
    <3>1. attempt = 1 /\ buffered = 0
      BY <2>6 DEF Begin, IInv, BufferFull, SentShape
    <3>2. Left = 11 + MaxLen + req.body
      BY <2>6 DEF Begin, Left
    <3>3. CASE pc' = "buffer"
      <4>1. Left' = 10 + MaxLen + (req.body - 0)
        BY <2>6, <3>1, <3>3 DEF Begin, Left
      <4> QED BY <2>1, <2>6, <3>2, <4>1 DEF Begin
    <3>4. CASE pc' = "send"
      <4>1. Left' = 6 + MaxLen + 3
        BY <2>6, <3>1, <3>4 DEF Begin, Left
      <4> QED BY <2>1, <2>6, <3>2, <4>1 DEF Begin
    <3> QED BY <2>6, <3>3, <3>4 DEF Begin, Goto
  <2>7. CASE BufferPart
    <3>1. Left = 10 + MaxLen + (req.body - buffered) /\ attempt = 1
      BY <2>7 DEF BufferPart, Left, IInv, SentShape
    <3>2. CASE buffered < req.body
      <4>1. Left' = 10 + MaxLen + (req.body - (buffered + 1))
        BY <2>7, <3>2 DEF BufferPart, Left
      <4> QED BY <2>1, <2>7, <3>1, <3>2, <4>1 DEF BufferPart
    <3>3. CASE ~(buffered < req.body)
      <4>1. Left' = 6 + MaxLen + 3
        BY <2>7, <3>1, <3>3 DEF BufferPart, Left, Goto
      <4> QED BY <2>1, <2>7, <3>1, <3>3, <4>1 DEF BufferPart
    <3> QED BY <3>2, <3>3
  <2>8. CASE Send
    BY <2>1, <2>8 DEF Send, Goto, Left
  <2>9. CASE RoundTripError
    BY <2>1, <2>9 DEF RoundTripError, HTTPError, Goto, Left
  <2>10. CASE \E r \in Responses : Respond(r)
    BY <2>1, <2>10 DEF Respond, Goto, Left
  <2>11. CASE Deliver
    BY <2>1, <2>11 DEF Deliver, Goto, Left
  <2>12. CASE RetryError
    BY <2>1, <2>12 DEF RetryError, HTTPError, Goto, Left
  <2>13. CASE Retry
    BY <2>1, <2>13 DEF Retry, Challenged, Goto, Left
  <2>14. CASE CopyHeaders
    BY <2>1, <2>14 DEF CopyHeaders, Goto, Left
  <2>15. CASE CopyPart
    BY <2>1, <2>15 DEF CopyPart, Left
  <2>16. CASE CopyEnd
    BY <2>1, <2>16 DEF CopyEnd, Goto, Left
  <2>17. CASE Return
    BY <2>17 DEF Return, Goto, Left
  <2> QED
    BY <2>3, <2>4, <2>5, <2>6, <2>7, <2>8, <2>9, <2>10,
       <2>11, <2>12, <2>13, <2>14, <2>15, <2>16, <2>17
    DEF Next, Handler
<1> QED BY <1>1, AnswerInvariance, Invariance, PTL DEF Spec
=============================================================================
