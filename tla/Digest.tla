------------------------------- MODULE Digest -------------------------------
(***************************************************************************)
(* Digest authentication toward an upstream HTTP proxy (digest.go).  A     *)
(* Proxy-Authenticate header is a record of its parameters, "" for one     *)
(* that is missing and a set of words for qop.  MD5 is symbolic: the hash  *)
(* of a text is the tuple of the parts the code joins, headed by which     *)
(* text it is, so different texts have different hashes.                   *)
(***************************************************************************)
EXTENDS Naturals, Sequences

\* parseDigestChallenge: a Digest header with a nonce is a challenge; of the
\* qop words only "auth" is known.
IsDigest(h) == h.scheme = "Digest" /\ h.nonce # ""

ParseDigestChallenge(h) ==
    [realm |-> h.realm, nonce |-> h.nonce, opaque |-> h.opaque,
     algorithm |-> h.algorithm, qop |-> IF "auth" \in h.qop THEN "auth" ELSE ""]

\* Mutant of HasDigestChallenge: Header.Get, which returns the first header.
HasDigestChallenge_First(hs) == Len(hs) > 0 /\ IsDigest(hs[1])

\* findDigestChallenge: the first of the headers that is one.
HasDigestChallenge(hs) == \E i \in DOMAIN hs : IsDigest(hs[i])
FirstDigest(hs) ==
    CHOOSE i \in DOMAIN hs : IsDigest(hs[i]) /\ \A j \in 1 .. i - 1 : ~IsDigest(hs[j])

MD5(text) == <<"md5", text>>

Supported(ch) == ch.algorithm \in {"", "MD5", "MD5-sess"}

\* The hash of the credentials, and the session hash of MD5-sess.
HA1(ch, user, pass, cnonce) ==
    LET a1 == MD5(<<"A1", user, ch.realm, pass>>)
    IN  IF ch.algorithm = "MD5-sess" THEN MD5(<<"A1-sess", a1, ch.nonce, cnonce>>) ELSE a1

HA2(method, uri) == MD5(<<"A2", method, uri>>)

\* Mutant of Response: the nonce count is left out.
Response_NoCount(ch, ha1, ha2, cnonce) ==
    MD5(<<"response", ha1, ch.nonce, cnonce, ch.qop, ha2>>)

\* The response, with and without qop.
Response(ch, ha1, ha2, cnonce) ==
    IF ch.qop # "" THEN MD5(<<"response", ha1, ch.nonce, "00000001", cnonce, ch.qop, ha2>>)
                   ELSE MD5(<<"response", ha1, ch.nonce, ha2>>)

\* buildDigestAuthorization, for a supported algorithm: the header sent.
BuildDigestAuthorization(ch, method, uri, user, pass, cnonce) ==
    [scheme |-> "Digest", username |-> user, realm |-> ch.realm, nonce |-> ch.nonce,
     uri |-> uri, opaque |-> ch.opaque, algorithm |-> ch.algorithm, qop |-> ch.qop,
     nc |-> IF ch.qop # "" THEN "00000001" ELSE "",
     cnonce |-> IF ch.qop # "" THEN cnonce ELSE "",
     response |-> Response(ch, HA1(ch, user, pass, cnonce), HA2(method, uri), cnonce)]

\* An upstream (RFC 2617) that sent header h and receives authorization a with
\* a request for uri: it computes the response from its own challenge and from
\* the client's nonce and count.
Accepts(h, a, method, uri, user, pass) ==
    LET a1 == MD5(<<"A1", user, h.realm, pass>>)
        ha1 == IF h.algorithm = "MD5-sess" THEN MD5(<<"A1-sess", a1, h.nonce, a.cnonce>>) ELSE a1
        ha2 == MD5(<<"A2", method, uri>>)
    IN  /\ a.scheme = "Digest"
        /\ a.username = user
        /\ a.uri = uri
        /\ <<a.realm, a.nonce, a.opaque, a.algorithm>> = <<h.realm, h.nonce, h.opaque, h.algorithm>>
        /\ IF h.qop = {} THEN a.qop = "" ELSE a.qop \in h.qop
        /\ a.response = IF a.qop = "" THEN MD5(<<"response", ha1, h.nonce, ha2>>)
                        ELSE MD5(<<"response", ha1, h.nonce, a.nc, a.cnonce, a.qop, ha2>>)

\* A challenge README promises an answer to (MD5 or MD5-sess, qop=auth), or one
\* without qop, for which MD5-sess has no defined response.
Answerable(h) ==
    /\ IsDigest(h)
    /\ h.algorithm \in {"", "MD5", "MD5-sess"}
    /\ IF h.qop = {} THEN h.algorithm # "MD5-sess" ELSE "auth" \in h.qop
=============================================================================
