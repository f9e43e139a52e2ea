----------------------------- MODULE MCForward -----------------------------
(* Instances of Forward for TLC. *)
EXTENDS Forward

Header(s, a, q, n) ==
    [scheme |-> s, realm |-> "realm", nonce |-> n, opaque |-> "o", algorithm |-> a, qop |-> q]

Basic == Header("Basic", "", {}, "")

\* No challenge, Basic only, Digest with every combination of algorithm and
\* qop, after Basic or another Digest or first, and Digest without a nonce.
Lists ==
    {<<>>, <<Basic>>, <<Header("Digest", "MD5", {"auth"}, "")>>}
      \cup {<<Header("Digest", a, q, "n")>> :
               a \in {"", "MD5", "MD5-sess", "SHA-256"},
               q \in {{}, {"auth"}, {"auth-int"}, {"auth", "auth-int"}}}
      \cup {<<Basic, Header("Digest", a, {"auth"}, "n")>> : a \in {"MD5", "MD5-sess"}}
      \cup {<<Header("Digest", a, {"auth"}, "n"), Header("Digest", "MD5", {"auth"}, "n2")>> :
               a \in {"MD5-sess", "SHA-256"}}
=============================================================================
