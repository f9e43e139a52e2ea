---------------------------- MODULE CommandLine ----------------------------
(***************************************************************************)
(* The command line: extractOptions reads a group's tokens one by one,     *)
(* Parse and validateSSL decide on the group, ParseAll on all groups, and  *)
(* serveTCP, serveUDP and serveUDPDTLS build what they listen with from    *)
(* the accepted Config (serverTLSConfig, clientTLSConfig and their DTLS    *)
(* counterparts).  Error texts are left out: an error is an error.         *)
(*                                                                         *)
(* A token is a record.  An option has a name and the text after its "=";  *)
(* a positional argument has an address and the words after its slashes.   *)
(* An address has a host, a port (0 for text that is no number) and        *)
(* whether it has a colon and net.SplitHostPort accepts it.                *)
(***************************************************************************)
EXTENDS Naturals, Sequences, FiniteSets

CONSTANTS
    Options,     \* option tokens tried: [opt, val]
    Positionals, \* positional tokens tried: [opt |-> "arg", addr, suffix]
    Trailing,    \* option tokens tried after a positional one: [opt, val]
    Embedded,    \* certificate files that contain a private key
    Unusable,    \* files that cannot be loaded when a listener starts
    MaxArgs,     \* bound on the tokens of a single group
    MaxShort,    \* bound on the tokens of each of several groups
    MaxRest,     \* bound on a group's positional arguments
    MaxGroups    \* bound on the groups

ASSUME BoundsAssumption ==
    /\ {MaxArgs, MaxShort, MaxRest, MaxGroups} \subseteq Nat
    /\ MaxShort <= MaxArgs /\ MaxGroups > 0

\* What follows a positional argument's slashes is a list of words.
ASSUME SuffixAssumption ==
    \A t \in Positionals \cup Trailing : t.opt = "arg" => t.suffix \in Seq(STRING)

\* A text without characters: Go's value of a field that was not set.
Empty == ""

Blocks == {"Q", "Z", "M", "F"}

\* The sub-options each block accepts.
Allowed == [Q |-> {"key", "cert", "ca", "verify"},
            Z |-> {"key", "cert", "ca", "verify"},
            M |-> {"signca", "servername", "ca", "verify"},
            F |-> {"user"}]

SubOptions == UNION {Allowed[b] : b \in Blocks}
LogLevelTokens == [d |-> 1, dd |-> 2, ddd |-> 3]
Globals == {"help", "version", "v"} \cup DOMAIN LogLevelTokens

\* -user= values of the form user:pass with a user.
UserPass == {"u:p", "u:"}

VARIABLES
    args,     \* the tokens read of the current group
    scope,    \* the block that is open
    opts,     \* what extractOptions has collected
    rest,     \* the positional arguments
    rejected, \* extractOptions has returned an error
    groups,   \* the groups read: their tokens and what Parse returned
    phase,    \* "reading", or what main does: "usage", "refused", "running"
    halves,   \* the halves that listen, and with what
    failed    \* those whose configuration could not be built

vars == <<args, scope, opts, rest, rejected, groups, phase, halves, failed>>

NoOptions ==
    [seen |-> {},
     value |-> [b \in Blocks |-> [s \in Allowed[b] |->
                   IF s = "verify" THEN "1" ELSE Empty]],
     help |-> FALSE, version |-> FALSE, verbose |-> FALSE, logLevel |-> 0]

TypeOK ==
    /\ Len(args) <= MaxArgs
    /\ scope \in Blocks \cup {"none"}
    /\ opts.seen \subseteq Blocks
    /\ opts.logLevel \in 0 .. 3
    /\ scope # "none" => scope \in opts.seen
    /\ {rejected, opts.help, opts.version, opts.verbose} \subseteq BOOLEAN
    /\ Len(groups) <= MaxGroups
    /\ phase \in {"reading", "usage", "refused", "running"}
    /\ phase # "running" => halves = {} /\ failed = {}

Init ==
    /\ args = <<>>
    /\ scope = "none"
    /\ opts = NoOptions
    /\ rest = <<>>
    /\ rejected = FALSE
    /\ groups = <<>>
    /\ phase = "reading"
    /\ halves = {}
    /\ failed = {}

-----------------------------------------------------------------------------
(* extractOptions.                                                         *)

Read(t) ==
    /\ phase = "reading"
    /\ ~rejected
    /\ Len(args) < IF groups = <<>> THEN MaxArgs ELSE MaxShort
    /\ args' = Append(args, t)
    /\ UNCHANGED <<groups, phase, halves, failed>>

ReadOption(t, name) == Read(t) /\ rest = <<>> /\ t.opt = name

Reject ==
    /\ rejected' = TRUE
    /\ UNCHANGED <<scope, opts, rest>>

\* Mutant of ReadGlobal: a global option closes the block.
ReadGlobal_Closes(t) ==
    /\ Read(t) /\ rest = <<>> /\ t.opt \in Globals
    /\ scope' = "none"
    /\ UNCHANGED <<opts, rest, rejected>>

\* -help, -version, -v and -d leave the open block open.
ReadGlobal(t) ==
    /\ Read(t) /\ rest = <<>> /\ t.opt \in Globals
    /\ LET level == IF t.opt \in DOMAIN LogLevelTokens THEN LogLevelTokens[t.opt] ELSE 0
       IN  opts' = [opts EXCEPT !.help = @ \/ t.opt = "help",
                                !.version = @ \/ t.opt = "version",
                                !.verbose = @ \/ t.opt = "v",
                                !.logLevel = IF level > @ THEN level ELSE @]
    /\ UNCHANGED <<scope, rest, rejected>>

\* Mutant of OpenBlock: the block is not remembered.
OpenBlock_NotSeen(t, b) ==
    /\ ReadOption(t, b)
    /\ scope' = b
    /\ UNCHANGED <<opts, rest, rejected>>

\* -Q, -Z, -M and -F: once each.
OpenBlock(t, b) ==
    /\ ReadOption(t, b)
    /\ IF b \in opts.seen
       THEN Reject
       ELSE /\ opts' = [opts EXCEPT !.seen = @ \cup {b}]
            /\ scope' = b
            /\ UNCHANGED <<rest, rejected>>

\* A sub-option other than -verify= that already has a value.
Repeated(s) == s # "verify" /\ opts.value[scope][s] # Empty

\* A sub-option belongs to the open block.
ReadSubOption(t, s) ==
    /\ ReadOption(t, s)
    /\ IF \/ scope = "none"
          \/ s \notin Allowed[scope]
          \/ Repeated(s)
          \/ s = "user" /\ t.val \notin UserPass
       THEN Reject
       ELSE /\ opts' = [opts EXCEPT !.value[scope][s] =
                          IF s = "verify" /\ t.val # "0" THEN "1" ELSE t.val]
            /\ UNCHANGED <<scope, rest, rejected>>

\* The first token that is no option, and whatever follows it.
ReadPositional(t) ==
    /\ Read(t)
    /\ t.opt = "arg" \/ rest # <<>>
    /\ Len(rest) < MaxRest
    /\ rest' = Append(rest, t)
    /\ UNCHANGED <<scope, opts, rejected>>

-----------------------------------------------------------------------------
(* Addresses, suffixes, endpoints.                                         *)

\* Keywords are all upper case or all lower case.
Keyword(w) == CASE w \in {"TCP", "tcp"} -> "TCP"
                [] w \in {"UDP", "udp"} -> "UDP"
                [] w \in {"SSL", "ssl"} -> "SSL"
                [] w \in {"PROXY", "proxy"} -> "proxy"
                [] w \in {"SOCKS", "socks"} -> "socks"
                [] OTHER -> "none"

KeywordOrder == [TCP |-> 0, UDP |-> 1, SSL |-> 2]
ProxyModes == {"proxy", "socks"}

ValidPort(p) == p >= 1 /\ p <= 65535

\* normalizeAddr: only a listen address may lack the host, or the colon.
ValidAddr(a, isTarget) ==
    /\ a.splits
    /\ ValidPort(a.port)
    /\ isTarget => a.colon /\ a.host # Empty

NormalizeAddr(a) == [host |-> IF a.host = Empty THEN "0.0.0.0" ELSE a.host, port |-> a.port]

Words(tok) == {Keyword(tok.suffix[i]) : i \in DOMAIN tok.suffix}

\* parseEndpoint: each suffix once, in the order TCP, UDP, SSL.
ValidEndpoint(tok, isTarget) ==
    /\ tok.opt = "arg"
    /\ ValidAddr(tok.addr, isTarget)
    /\ Words(tok) \subseteq IF isTarget THEN {"SSL"} ELSE {"TCP", "UDP", "SSL"}
    /\ \A i, j \in DOMAIN tok.suffix : i < j =>
          KeywordOrder[Keyword(tok.suffix[i])] < KeywordOrder[Keyword(tok.suffix[j])]

\* classifyProxyTarget: the keyword alone (proxy:7777 is a host named "proxy"),
\* or an address and one keyword.
BareProxy(tok) ==
    /\ tok.opt = "arg"
    /\ tok.suffix = <<>>
    /\ ~tok.addr.colon /\ Keyword(tok.addr.host) \in ProxyModes
ChainedProxy(tok) ==
    /\ tok.opt = "arg"
    /\ Len(tok.suffix) = 1
    /\ Keyword(tok.suffix[1]) \in ProxyModes
TargetKind(tok) == Keyword(IF BareProxy(tok) THEN tok.addr.host ELSE tok.suffix[1])

-----------------------------------------------------------------------------
(* Parse.                                                                  *)

\* Results without a listener.
Nothing(mode) == [mode |-> mode, halves |-> {}]
Error == Nothing("error")

\* validateSSLKeyCert: no key without a certificate, no certificate without a
\* key of its own or in its file.
ValidKeyCert(v) ==
    /\ v["key"] # Empty => v["cert"] # Empty
    /\ v["cert"] # Empty /\ v["key"] = Empty => v["cert"] \in Embedded

\* Mutant of MITMValid: no name is asked for.
MITMValid_NoName(o, sslListenUDP) == TRUE

\* What -M needs.
MITMValid(o, sslListenUDP) ==
    /\ "M" \in o.seen /\ sslListenUDP => o.value["M"]["servername"] # Empty
    /\ o.value["M"]["servername"] # Empty => o.value["M"]["signca"] # Empty

\* Mutant of Exclusive: -Z and -M together.
Exclusive_Both(o) == TRUE

\* -Z and -M exclude each other.
Exclusive(o) == ~ {"Z", "M"} \subseteq o.seen

ValidateSSL(o, sslListen, sslListenUDP, sslTarget) ==
    /\ Exclusive(o)
    /\ "Q" \in o.seen => sslTarget
    /\ "Z" \in o.seen \/ "M" \in o.seen => sslListen
    /\ MITMValid(o, sslListenUDP)
    /\ ValidKeyCert(o.value["Q"])
    /\ ValidKeyCert(o.value["Z"])
    /\ sslListen => o.value["Z"]["cert"] # Empty \/ o.value["M"]["signca"] # Empty

\* The relay described by two endpoints.
ParseRelay(o, target, listen) ==
    LET udp == "UDP" \in Words(listen)
        tcp == "TCP" \in Words(listen) \/ ~udp
        sslListen == "SSL" \in Words(listen)
        sslTarget == "SSL" \in Words(target)
    IN  IF /\ "F" \notin o.seen
           /\ ValidEndpoint(target, TRUE)
           /\ ValidEndpoint(listen, FALSE)
           /\ ValidateSSL(o, sslListen, udp /\ sslListen, sslTarget)
        THEN [mode |-> "forward", addr |-> NormalizeAddr(listen.addr),
              halves |-> (IF tcp THEN {"tcp"} ELSE {}) \cup (IF udp THEN {"udp"} ELSE {}),
              listenSSL |-> sslListen, targetSSL |-> sslTarget, value |-> o.value]
        ELSE Error

\* Mutant of ForwardAuthValid: the bare keyword takes credentials too.
ForwardAuthValid_Bare(o, target) == "F" \in o.seen => o.value["F"]["user"] # Empty

\* -F needs an upstream and a -user=.
ForwardAuthValid(o, target) ==
    "F" \in o.seen => ~BareProxy(target) /\ o.value["F"]["user"] # Empty

\* The proxy: the listen suffix, if any, chooses the frontend; the target the
\* backend.
ParseProxy(o, target, listen) ==
    IF /\ BareProxy(target) \/ ValidAddr(target.addr, TRUE)
       /\ o.seen \subseteq {"F"}
       /\ listen.opt = "arg"
       /\ Len(listen.suffix) <= 1 /\ Words(listen) \subseteq ProxyModes
       /\ ValidAddr(listen.addr, FALSE)
       /\ ForwardAuthValid(o, target)
    THEN [mode |-> IF listen.suffix = <<>> THEN TargetKind(target)
                                            ELSE Keyword(listen.suffix[1]),
          addr |-> NormalizeAddr(listen.addr), halves |-> {"tcp"},
          kind |-> TargetKind(target), chained |-> ~BareProxy(target),
          user |-> o.value["F"]["user"]]
    ELSE Error

\* -help and -version need nothing else.
Parse ==
    CASE rejected -> Error
      [] opts.help /\ ~rejected -> Nothing("help")
      [] opts.version /\ ~opts.help /\ ~rejected -> Nothing("version")
      [] OTHER ->
           IF Len(rest) # 2 THEN Error
           ELSE IF BareProxy(rest[1]) \/ ChainedProxy(rest[1])
                THEN ParseProxy(opts, rest[1], rest[2])
                ELSE ParseRelay(opts, rest[1], rest[2])

-----------------------------------------------------------------------------
(* ParseAll.                                                               *)

Parsed == Append(groups, [args |-> args, cfg |-> Parse])

\* "--": the next group starts from nothing.
Separator ==
    /\ phase = "reading"
    /\ Len(args) <= MaxShort
    /\ Len(groups) + 1 < MaxGroups
    /\ groups' = Parsed
    /\ args' = <<>>
    /\ scope' = "none"
    /\ opts' = NoOptions
    /\ rest' = <<>>
    /\ rejected' = FALSE
    /\ UNCHANGED <<phase, halves, failed>>

\* Mutant of Decision: groups in error are left out.
Decision_Partial(cfgs) ==
    IF \A i \in DOMAIN cfgs : cfgs[i].cfg.mode = "error" THEN "refused" ELSE "running"

\* All or nothing; -help and -version only without "--".
Decision(cfgs) ==
    LET modes == {cfgs[i].cfg.mode : i \in DOMAIN cfgs}
    IN  CASE "error" \in modes -> "refused"
          [] modes \cap {"help", "version"} # {} /\ Len(cfgs) > 1 -> "refused"
          [] modes \cap {"help", "version"} # {} /\ Len(cfgs) = 1 -> "usage"
          [] OTHER -> "running"

End ==
    /\ phase = "reading"
    /\ groups' = Parsed
    /\ phase' = Decision(Parsed)
    /\ UNCHANGED <<args, scope, opts, rest, rejected, halves, failed>>

-----------------------------------------------------------------------------
(* What a half is started with.                                            *)

ClientAuth(v) == CASE v["ca"] = Empty -> "none"
                   [] v["ca"] # Empty /\ v["verify"] = "0" -> "any"
                   [] OTHER -> "verified"

\* serverTLSConfig, serverDTLSConfig: -M's signing CA, else -Z's certificate.
ServerSide(cfg) ==
    LET b == IF cfg.value["M"]["signca"] # Empty THEN "M" ELSE "Z"
        v == cfg.value[b]
    IN  [block |-> b,
         files |-> (IF b = "M" THEN {v["signca"]}
                    ELSE {v["cert"], IF v["key"] = Empty THEN v["cert"] ELSE v["key"]})
                   \cup ({v["ca"]} \ {Empty}),
         hasKey |-> b = "M" \/ v["key"] # Empty \/ v["cert"] \in Embedded,
         name |-> IF b = "M" THEN v["servername"] ELSE Empty,
         ca |-> v["ca"], auth |-> ClientAuth(v)]

Plain == [block |-> "none", files |-> {}, hasKey |-> FALSE, name |-> Empty, ca |-> Empty,
          auth |-> "none"]

\* serverTLSConfig or serverDTLSConfig returns an error: a file cannot be
\* loaded, no private key is in it, or DTLS has no name to sign for.
Broken(s, h) ==
    \/ s.files \cap (Unusable \cup {Empty}) # {}
    \/ s.block # "none" /\ ~s.hasKey
    \/ s.block = "M" /\ h = "udp" /\ s.name = Empty

\* handleTCPConn and handleUDPDTLSConn dial TLS or DTLS if the target has /SSL;
\* the session sockets of a plaintext UDP listener are always plaintext.
DialsTLS(cfg, h) == cfg.targetSSL /\ (h = "tcp" \/ cfg.listenSSL)

\* ClientConfig: a CA of its own or the system's, and whether it is checked.
TargetSide(cfg, h) ==
    [tls |-> DialsTLS(cfg, h), ca |-> cfg.value["Q"]["ca"], verify |-> cfg.value["Q"]["verify"]]

\* One half of group g's relay, or its proxy, starts.
Start(g, h) ==
    LET cfg == groups[g].cfg
        s == IF cfg.mode = "forward" /\ cfg.listenSSL THEN ServerSide(cfg) ELSE Plain
    IN  /\ phase = "running"
        /\ h \in cfg.halves
        /\ <<g, h>> \notin failed \cup {<<x.group, x.half>> : x \in halves}
        /\ IF Broken(s, h)
           THEN failed' = failed \cup {<<g, h>>} /\ UNCHANGED halves
           ELSE /\ halves' = halves \cup
                     {[group |-> g, half |-> h, server |-> s,
                       target |-> IF cfg.mode = "forward" THEN TargetSide(cfg, h)
                                  ELSE [tls |-> FALSE, ca |-> Empty, verify |-> "1"]]}
                /\ UNCHANGED failed
        /\ UNCHANGED <<args, scope, opts, rest, rejected, groups, phase>>

Next ==
    \/ \E t \in Options : ReadGlobal(t)
    \/ \E t \in Options, b \in Blocks : OpenBlock(t, b)
    \/ \E t \in Options, s \in SubOptions : ReadSubOption(t, s)
    \/ \E t \in Positionals \cup Trailing : ReadPositional(t)
    \/ Separator
    \/ End
    \/ \E g \in DOMAIN groups, h \in {"tcp", "udp"} : Start(g, h)

Spec == Init /\ [][Next]_vars

-----------------------------------------------------------------------------
(* Properties.                                                             *)

\* The i-th token of a is governed by block b: b is the last block before it.
Governs(a, b, i) ==
    \E j \in 1 .. i - 1 : /\ a[j].opt = b
                          /\ \A k \in j + 1 .. i - 1 : a[k].opt \notin Blocks

\* The options a begins with, and those that give b a value for s.
Leading(a) == {i \in DOMAIN a : \A k \in 1 .. i : a[k].opt # "arg"}
Given(a, b, s) == {i \in Leading(a) : a[i].opt = s /\ Governs(a, b, i)}

\* The i-th token is an error: a block's second token, a sub-option outside a
\* block that takes it or with a value already, credentials without a user.
Wrong(a, i) ==
    \/ a[i].opt \in Blocks /\ \E j \in 1 .. i - 1 : a[j].opt = a[i].opt
    \/ /\ a[i].opt \in SubOptions
       /\ ~ \E b \in Blocks : a[i].opt \in Allowed[b] /\ Governs(a, b, i)
    \/ /\ a[i].opt \in SubOptions \ {"verify"}
       /\ \E b \in Blocks : Governs(a, b, i) /\
            \E j \in Given(a, b, a[i].opt) : j < i /\ a[j].val # Empty
    \/ a[i].opt = "user" /\ a[i].val \notin UserPass

\* extractOptions' reading is the declarative one: a sub-option belongs to the
\* last -Q, -Z, -M or -F before it, wherever global options stand; no value
\* typed is lost to a later one; exactly the wrong command lines are rejected.
ScanAgrees ==
    phase = "reading" =>
    /\ rejected <=> \E i \in Leading(args) : Wrong(args, i)
    /\ ~rejected =>
       /\ opts.seen = {b \in Blocks : \E i \in Leading(args) : args[i].opt = b}
       /\ \A b \in Blocks, s \in SubOptions : s \in Allowed[b] =>
             LET is == Given(args, b, s)
                 last == CHOOSE i \in is : \A k \in is : k <= i
             IN  IF is = {} THEN opts.value[b][s] = NoOptions.value[b][s]
                 ELSE opts.value[b][s] =
                        IF s = "verify" /\ args[last].val # "0" THEN "1" ELSE args[last].val

\* What was typed last as s under b in group g, if anything.
Typed(g, b, s) ==
    LET is == Given(groups[g].args, b, s)
    IN  IF is = {} THEN Empty ELSE groups[g].args[CHOOSE i \in is : \A k \in is : k <= i].val

\* A half of an accepted command fails to start only because of a file:
\* ParseAll has made sure of everything else serverTLSConfig and
\* serverDTLSConfig need.
ListenerReady ==
    \A f \in failed :
        \E b \in Blocks, s \in SubOptions : Typed(f[1], b, s) \in Unusable

\* Certificate checks are the ones asked for, from the words typed to the
\* configuration a half listens or dials with: a -ca= under -Z or -M makes a
\* client certificate mandatory on every half, verified unless -verify=0; a
\* -ca= under -Q replaces the system's roots, and only -verify=0 under -Q skips
\* the check.
ChecksAsTyped ==
    \A x \in halves :
        /\ \A b \in {"Z", "M"} : Typed(x.group, b, "ca") # Empty =>
              /\ x.server.ca = Typed(x.group, b, "ca")
              /\ x.server.auth # "none"
              /\ Typed(x.group, b, "verify") # "0" => x.server.auth = "verified"
        /\ x.target.tls => /\ x.target.ca = Typed(x.group, "Q", "ca")
                           /\ x.target.verify = "0" <=> Typed(x.group, "Q", "verify") = "0"

\* If anything listens, every group was valid and is a relay or a proxy.
AllOrNothing ==
    halves # {} =>
        \A g \in DOMAIN groups : groups[g].cfg.mode \in {"forward", "proxy", "socks"}

\* What listens has a port that exists; credentials typed are presented, to an
\* upstream that was named, and none are presented that were not typed.
CredentialsAsTyped ==
    \A x \in halves :
        LET cfg == groups[x.group].cfg
            user == Typed(x.group, "F", "user")
        IN  /\ cfg.addr.port >= 1 /\ cfg.addr.port <= 65535
            /\ IF cfg.mode = "forward" THEN user = Empty
               ELSE cfg.user = user /\ (user # Empty => cfg.chained)

\* "/ssl secures whichever of TCP/UDP are active for that relay": a half of a
\* relay whose target has /ssl speaks TLS or DTLS to the target.
TargetSecured ==
    \A x \in halves : groups[x.group].cfg.mode = "forward" =>
        (groups[x.group].cfg.targetSSL => x.target.tls)
=============================================================================
