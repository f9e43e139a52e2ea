--------------------------- MODULE MCCommandLine ---------------------------
(* Instances of CommandLine for TLC. *)
EXTENDS CommandLine

Opt(o, v) == [opt |-> o, val |-> v]
Addr(h, p) == [colon |-> TRUE, splits |-> TRUE, host |-> h, port |-> p]
BarePort(p) == [colon |-> FALSE, splits |-> TRUE, host |-> "", port |-> p]
Bare(h) == [colon |-> FALSE, splits |-> TRUE, host |-> h, port |-> 0]
Arg(a, s) == [opt |-> "arg", addr |-> a, suffix |-> s]

\* Every block and sub-option, right and wrong values, a certificate with its
\* key ("ck") and one without, and a key that cannot be loaded.
MCOptions ==
    {Opt("Q", ""), Opt("Z", ""), Opt("M", ""), Opt("F", ""),
     Opt("key", "k"), Opt("cert", "c"), Opt("cert", "ck"), Opt("ca", "a"), Opt("verify", "0"),
     Opt("signca", "s"), Opt("servername", "n"), Opt("user", "u:p"), Opt("user", ":p"),
     Opt("help", "")}
MCTrailing == {Opt("help", "")}
WithKey == {"ck"}
BadFile == {"k"}

\* Targets and listeners of relays and of proxies, a port that is none, and a
\* host with the name of the keyword.
MCPositionals ==
    {Arg(Addr("h", 80), <<"SSL">>), Arg(BarePort(80), <<"tcp", "udp", "ssl">>),
     Arg(BarePort(80), <<"UDP">>), Arg(Addr("h", 65536), <<>>), Arg(Addr("proxy", 80), <<>>),
     Arg(Bare("proxy"), <<>>), Arg(Addr("h", 80), <<"SOCKS">>)}

\* A relay to a TLS target, plaintext UDP on the listen side.
TargetOptions == {Opt("Q", ""), Opt("verify", "0")}
TargetPositionals == {Arg(Addr("h", 80), <<"SSL">>), Arg(BarePort(80), <<"UDP">>)}
None == {}
=============================================================================
