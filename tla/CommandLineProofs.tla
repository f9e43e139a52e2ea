------------------------- MODULE CommandLineProofs -------------------------
(***************************************************************************)
(* TLAPS proofs about CommandLine, for any tokens, files and bounds: what  *)
(* extractOptions has collected is what the tokens say, and what a half is *)
(* started with is what was typed.                                         *)
(***************************************************************************)
EXTENDS CommandLine, SequenceTheorems, TLAPS

-----------------------------------------------------------------------------
(* Names of options.                                                       *)

LEMMA SubOptionNames ==
    /\ SubOptions = {"key", "cert", "ca", "verify", "signca", "servername", "user"}
    /\ \A b \in Blocks : Allowed[b] \subseteq SubOptions
<1>1. \A s : s \in SubOptions <=> \E b \in Blocks : s \in Allowed[b]
  BY DEF SubOptions
<1> QED BY <1>1 DEF Blocks, Allowed

LEMMA GlobalNames == Globals = {"help", "version", "v", "d", "dd", "ddd"}
BY DEF Globals, LogLevelTokens

\* No token is of two kinds.
LEMMA NamesApart ==
    /\ "arg" \notin Blocks \cup SubOptions \cup Globals
    /\ Blocks \cap SubOptions = {}
    /\ Globals \cap (Blocks \cup SubOptions) = {}
    /\ "none" \notin Blocks
BY SubOptionNames, GlobalNames DEF Blocks

-----------------------------------------------------------------------------
(* Reading one more token.                                                 *)

\* No positional argument is among the tokens.
OptionsOnly(a) == \A i \in 1 .. Len(a) : a[i].opt # "arg"

\* A token's block depends on the tokens before it only.
LEMMA GovernsAppend ==
    ASSUME NEW S, NEW a \in Seq(S), NEW t \in S, NEW b
    PROVE  /\ \A i \in 1 .. Len(a) + 1 : Governs(Append(a, t), b, i) <=> Governs(a, b, i)
           /\ Governs(Append(a, t), b, Len(a) + 2) <=>
                t.opt = b \/ (t.opt \notin Blocks /\ Governs(a, b, Len(a) + 1))
<1> DEFINE n == Len(a)
           c == Append(a, t)
<1>1. n \in Nat /\ c[n + 1] = t /\ \A i \in 1 .. n : c[i] = a[i]
  BY AppendProperties, LenProperties
<1> HIDE DEF n, c
<1>2. ASSUME NEW i \in 1 .. n + 1 PROVE Governs(c, b, i) <=> Governs(a, b, i)
  BY <1>1 DEF Governs
<1>3. ASSUME Governs(c, b, n + 2), t.opt # b
      PROVE  t.opt \notin Blocks /\ Governs(a, b, n + 1)
  <2>1. PICK j \in 1 .. n + 1 : c[j].opt = b /\ \A k \in j + 1 .. n + 1 : c[k].opt \notin Blocks
    BY <1>1, <1>3 DEF Governs
  <2>2. j # n + 1
    BY <1>1, <1>3, <2>1
  <2>3. j \in 1 .. n /\ n + 1 \in j + 1 .. n + 1
    BY <1>1, <2>2
  <2> QED BY <1>1, <2>1, <2>3 DEF Governs
<1>4. ASSUME t.opt = b PROVE Governs(c, b, n + 2)
  BY <1>1, <1>4 DEF Governs
<1>5. ASSUME t.opt \notin Blocks, Governs(a, b, n + 1) PROVE Governs(c, b, n + 2)
  <2>1. PICK j \in 1 .. n : a[j].opt = b /\ \A k \in j + 1 .. n : a[k].opt \notin Blocks
    BY <1>1, <1>5 DEF Governs
  <2>2. j \in 1 .. n + 1 /\ c[j].opt = b /\ \A k \in j + 1 .. n + 1 : c[k].opt \notin Blocks
    BY <1>1, <1>5, <2>1
  <2> QED BY <1>1, <2>2 DEF Governs
<1> QED BY <1>2, <1>3, <1>4, <1>5 DEF n, c

LEMMA LeadingAppend ==
    ASSUME NEW S, NEW a \in Seq(S), NEW t \in S
    PROVE  /\ Leading(a) \subseteq 1 .. Len(a)
           /\ Leading(Append(a, t)) =
                Leading(a) \cup IF OptionsOnly(a) /\ t.opt # "arg" THEN {Len(a) + 1} ELSE {}
<1> DEFINE n == Len(a)
           c == Append(a, t)
<1>1. /\ n \in Nat /\ c[n + 1] = t /\ \A i \in 1 .. n : c[i] = a[i]
      /\ DOMAIN a = 1 .. n /\ DOMAIN c = 1 .. n + 1
  BY AppendProperties, LenProperties
<1> HIDE DEF n, c
<1>2. Leading(a) \subseteq 1 .. n
  BY <1>1 DEF Leading
<1>3. ASSUME NEW i \in 1 .. n PROVE i \in Leading(c) <=> i \in Leading(a)
  BY <1>1 DEF Leading
<1>4. n + 1 \in Leading(c) <=> OptionsOnly(a) /\ t.opt # "arg"
  BY <1>1 DEF Leading, OptionsOnly, n
<1>5. Leading(c) \subseteq 1 .. n + 1
  BY <1>1 DEF Leading
<1>6. \A i \in 1 .. n + 1 : i \in 1 .. n \/ i = n + 1
  BY <1>1
<1>7. n + 1 \notin Leading(a)
  BY <1>1, <1>2
<1> QED BY <1>2, <1>3, <1>4, <1>5, <1>6, <1>7 DEF n, c

\* One more token: the values given for s under b are the ones given before, and
\* the new one if it is in place.
LEMMA GivenAppend ==
    ASSUME NEW S, NEW a \in Seq(S), NEW t \in S, NEW b, NEW s
    PROVE  /\ Given(a, b, s) \subseteq 1 .. Len(a)
           /\ Given(Append(a, t), b, s) =
                IF OptionsOnly(a) /\ t.opt # "arg" /\ t.opt = s /\ Governs(a, b, Len(a) + 1)
                THEN Given(a, b, s) \cup {Len(a) + 1} ELSE Given(a, b, s)
<1> DEFINE n == Len(a)
           c == Append(a, t)
<1>1. n \in Nat /\ c[n + 1] = t /\ \A i \in 1 .. n : c[i] = a[i]
  BY AppendProperties, LenProperties
<1>2. /\ Leading(a) \subseteq 1 .. n
      /\ Leading(c) = Leading(a) \cup IF OptionsOnly(a) /\ t.opt # "arg" THEN {n + 1} ELSE {}
  BY LeadingAppend
<1>3. \A i \in 1 .. n + 1 : Governs(c, b, i) <=> Governs(a, b, i)
  BY GovernsAppend
<1> HIDE DEF n, c
<1>4. Given(a, b, s) \subseteq 1 .. n
  BY <1>2 DEF Given
<1>5. \A i \in 1 .. n : i \in Given(c, b, s) <=> i \in Given(a, b, s)
  <2> SUFFICES ASSUME NEW i \in 1 .. n PROVE i \in Given(c, b, s) <=> i \in Given(a, b, s)
    OBVIOUS
  <2>1. i \in 1 .. n + 1 /\ i # n + 1
    BY <1>1
  <2> QED BY <1>1, <1>2, <1>3, <2>1 DEF Given
<1>6. n + 1 \in Given(c, b, s) <=>
        OptionsOnly(a) /\ t.opt # "arg" /\ t.opt = s /\ Governs(a, b, n + 1)
  <2>1. n + 1 \in 1 .. n + 1 /\ n + 1 \notin 1 .. n
    BY <1>1
  <2> QED BY <1>1, <1>2, <1>3, <2>1 DEF Given
<1>7. Given(c, b, s) \subseteq 1 .. n \cup {n + 1}
  BY <1>2 DEF Given
<1>8. \A i \in Given(c, b, s) : i \in 1 .. n \/ i = n + 1
  BY <1>7
<1>9. CASE n + 1 \in Given(c, b, s)
  <2>1. Given(c, b, s) = Given(a, b, s) \cup {n + 1}
    BY <1>4, <1>5, <1>8, <1>9
  <2> QED BY <1>4, <1>6, <1>9, <2>1 DEF n, c
<1>10. CASE n + 1 \notin Given(c, b, s)
  <2>1. Given(c, b, s) = Given(a, b, s)
    BY <1>4, <1>5, <1>8, <1>10
  <2> QED BY <1>4, <1>6, <1>10, <2>1 DEF n, c
<1> QED BY <1>9, <1>10

\* A token stays right or wrong whatever follows it.
LEMMA WrongAppend ==
    ASSUME NEW S, NEW a \in Seq(S), NEW t \in S, NEW i \in 1 .. Len(a)
    PROVE  Wrong(Append(a, t), i) <=> Wrong(a, i)
<1> DEFINE n == Len(a)
           c == Append(a, t)
<1>1. n \in Nat /\ \A j \in 1 .. n : c[j] = a[j]
  BY AppendProperties, LenProperties
<1>2. \A b : Governs(c, b, i) <=> Governs(a, b, i)
  <2>1. i \in 1 .. n + 1
    BY <1>1
  <2> QED BY <2>1, GovernsAppend
<1>3. \A b, s, j : j < i /\ j \in Given(c, b, s) <=> j < i /\ j \in Given(a, b, s)
  <2> SUFFICES ASSUME NEW b, NEW s, NEW j
               PROVE  j < i /\ j \in Given(c, b, s) <=> j < i /\ j \in Given(a, b, s)
    OBVIOUS
  <2>1. /\ Given(a, b, s) \subseteq Given(c, b, s)
        /\ Given(c, b, s) \subseteq Given(a, b, s) \cup {n + 1}
    BY GivenAppend
  <2>2. ~(n + 1 < i)
    BY <1>1
  <2> QED BY <2>1, <2>2
<1>4. \A b, s : \A j \in Given(a, b, s) : j \in 1 .. n
  BY GivenAppend
<1> HIDE DEF n, c
<1>5. i \in 1 .. n
  BY DEF n
<1>6. c[i] = a[i]
  BY <1>1, <1>5
<1>7. \A j \in 1 .. i - 1 : c[j] = a[j]
  BY <1>1, <1>5
<1>8. ASSUME NEW b, NEW s
      PROVE  (\E j \in Given(c, b, s) : j < i /\ c[j].val # Empty) <=>
             (\E j \in Given(a, b, s) : j < i /\ a[j].val # Empty)
  BY <1>1, <1>3, <1>4
<1>9. Wrong(c, i) <=> Wrong(a, i)
  BY <1>2, <1>6, <1>7, <1>8 DEF Wrong
<1> QED BY <1>9 DEF c

-----------------------------------------------------------------------------
(* The inductive invariant.                                                *)

Tokens == Options \cup Positionals \cup Trailing
After == Positionals \cup Trailing

\* What a sub-option's field holds without it and after it.
Default(s) == IF s = "verify" THEN "1" ELSE Empty
Written(s, val) == IF s = "verify" /\ val # "0" THEN "1" ELSE val

\* The fields in v are what the tokens of a say: the last value given, or the
\* default.
Reads(a, v) ==
    \A b \in Blocks : \A s \in Allowed[b] :
        \/ Given(a, b, s) = {} /\ v[b][s] = Default(s)
        \/ \E l \in Given(a, b, s) : /\ \A k \in Given(a, b, s) : k <= l
                                     /\ v[b][s] = Written(s, a[l].val)

Seen(a) == {b \in Blocks : \E i \in Leading(a) : a[i].opt = b}

\* The fields extractOptions fills.
OptsShape ==
    /\ opts = [seen |-> opts.seen, value |-> opts.value, help |-> opts.help,
               version |-> opts.version, verbose |-> opts.verbose, logLevel |-> opts.logLevel]
    /\ opts.value = [b \in Blocks |-> opts.value[b]]
    /\ \A b \in Blocks : opts.value[b] = [s \in Allowed[b] |-> opts.value[b][s]]
    /\ opts.seen \subseteq Blocks
    /\ opts.logLevel \in 0 .. 3
    /\ opts.help \in BOOLEAN /\ opts.version \in BOOLEAN /\ opts.verbose \in BOOLEAN
    /\ rejected \in BOOLEAN

\* The open block is the one that would govern the next token, and what has been
\* collected is what the tokens say.
ScanInv ==
    /\ args \in Seq(Tokens) /\ rest \in Seq(After)
    /\ scope \in Blocks \cup {"none"}
    /\ rest = <<>> <=> OptionsOnly(args)
    /\ ~rejected /\ rest = <<>> =>
          \A b \in Blocks : scope = b <=> Governs(args, b, Len(args) + 1)
    /\ scope # "none" => scope \in opts.seen
    /\ rejected <=> \E i \in Leading(args) : Wrong(args, i)
    /\ ~rejected => opts.seen = Seen(args) /\ Reads(args, opts.value)

\* What an accepted relay's Config promises serverTLSConfig, serverDTLSConfig and
\* the dialling side, given the group's tokens.
RelayReady(a, cfg) ==
    /\ Reads(a, cfg.value)
    /\ ValidPort(cfg.addr.port)
    /\ Given(a, "F", "user") = {}
    /\ "Z" \notin Seen(a) \/ "M" \notin Seen(a)
    /\ "Z" \in Seen(a) \/ "M" \in Seen(a) => cfg.listenSSL
    /\ cfg.listenSSL => /\ cfg.value["Z"]["cert"] # Empty \/ cfg.value["M"]["signca"] # Empty
                        /\ ValidKeyCert(cfg.value["Z"])
                        /\ "M" \in Seen(a) /\ "udp" \in cfg.halves =>
                              cfg.value["M"]["servername"] # Empty

\* The same for a proxy's.
ProxyReady(a, cfg) ==
    /\ ValidPort(cfg.addr.port)
    /\ Seen(a) \subseteq {"F"}
    /\ \/ Given(a, "F", "user") = {} /\ cfg.user = Empty
       \/ \E l \in Given(a, "F", "user") : /\ \A k \in Given(a, "F", "user") : k <= l
                                           /\ cfg.user = a[l].val
    /\ "F" \in Seen(a) => cfg.chained

\* A group that has been read.
GroupOK(grp) ==
    /\ grp.args \in Seq(Tokens)
    /\ \/ grp.cfg.mode \in {"error", "help", "version"}
       \/ grp.cfg.mode = "forward" /\ RelayReady(grp.args, grp.cfg)
       \/ grp.cfg.mode \in ProxyModes /\ ProxyReady(grp.args, grp.cfg)

GroupsInv ==
    /\ groups = [g \in 1 .. Len(groups) |-> groups[g]] /\ Len(groups) \in Nat
    /\ \A g \in 1 .. Len(groups) : GroupOK(groups[g])
    /\ phase = "reading" => Len(groups) < MaxGroups
    /\ Len(groups) <= MaxGroups
    /\ phase = "running" => \A g \in 1 .. Len(groups) :
                               groups[g].cfg.mode \in {"forward", "proxy", "socks"}

BoundsInv ==
    /\ Len(args) <= MaxArgs
    /\ phase \in {"reading", "usage", "refused", "running"}
    /\ phase # "running" => halves = {} /\ failed = {}

IInv ==
    /\ OptsShape /\ ScanInv /\ GroupsInv /\ BoundsInv
    /\ ListenerReady /\ ChecksAsTyped /\ CredentialsAsTyped

-----------------------------------------------------------------------------
(* extractOptions: one lemma per kind of token.                            *)

\* Whether the token just read is wrong, from the tokens before it.
LEMMA TokenWrong ==
    ASSUME NEW S, NEW a \in Seq(S), NEW t \in S
    PROVE  Wrong(Append(a, t), Len(a) + 1) <=>
             \/ t.opt \in Blocks /\ \E j \in 1 .. Len(a) : a[j].opt = t.opt
             \/ /\ t.opt \in SubOptions
                /\ ~ \E b \in Blocks : t.opt \in Allowed[b] /\ Governs(a, b, Len(a) + 1)
             \/ /\ t.opt \in SubOptions \ {"verify"}
                /\ \E b \in Blocks : Governs(a, b, Len(a) + 1) /\
                     \E j \in Given(a, b, t.opt) : a[j].val # Empty
             \/ t.opt = "user" /\ t.val \notin UserPass
<1> DEFINE n == Len(a)
           c == Append(a, t)
<1>1. n \in Nat /\ c[n + 1] = t /\ \A j \in 1 .. n : c[j] = a[j]
  BY AppendProperties, LenProperties
<1>2. \A b : Governs(c, b, n + 1) <=> Governs(a, b, n + 1)
  <2>1. n + 1 \in 1 .. n + 1
    BY <1>1
  <2> QED BY <2>1, GovernsAppend
<1>3. \A b, s : /\ Given(a, b, s) \subseteq 1 .. n
                /\ Given(a, b, s) \subseteq Given(c, b, s)
                /\ Given(c, b, s) \subseteq Given(a, b, s) \cup {n + 1}
  BY GivenAppend
<1> HIDE DEF n, c
<1>4. (n + 1) - 1 = n
  BY <1>1
<1>5. ASSUME NEW b, NEW s
      PROVE  (\E j \in Given(c, b, s) : j < n + 1 /\ c[j].val # Empty) <=>
             (\E j \in Given(a, b, s) : a[j].val # Empty)
  <2>1. ASSUME NEW j \in Given(c, b, s), j < n + 1, c[j].val # Empty
        PROVE  j \in Given(a, b, s) /\ a[j].val # Empty
    BY <1>1, <1>3, <2>1
  <2>2. ASSUME NEW j \in Given(a, b, s), a[j].val # Empty
        PROVE  j \in Given(c, b, s) /\ j < n + 1 /\ c[j].val # Empty
    BY <1>1, <1>3, <2>2
  <2> QED BY <2>1, <2>2
<1>6. (\E j \in 1 .. (n + 1) - 1 : c[j].opt = t.opt) <=> \E j \in 1 .. n : a[j].opt = t.opt
  BY <1>1, <1>4
<1>7. Wrong(c, n + 1) <=>
        \/ t.opt \in Blocks /\ \E j \in 1 .. n : a[j].opt = t.opt
        \/ /\ t.opt \in SubOptions
           /\ ~ \E b \in Blocks : t.opt \in Allowed[b] /\ Governs(a, b, n + 1)
        \/ /\ t.opt \in SubOptions \ {"verify"}
           /\ \E b \in Blocks : Governs(a, b, n + 1) /\
                \E j \in Given(a, b, t.opt) : a[j].val # Empty
        \/ t.opt = "user" /\ t.val \notin UserPass
  <2>1. t = c[n + 1]
    BY <1>1
  <2>2. (\E b \in Blocks : t.opt \in Allowed[b] /\ Governs(c, b, n + 1)) <=>
        (\E b \in Blocks : t.opt \in Allowed[b] /\ Governs(a, b, n + 1))
    BY <1>2
  <2>3. ASSUME NEW b
        PROVE  (\E j \in Given(c, b, t.opt) : j < n + 1 /\ c[j].val # Empty) <=>
               (\E j \in Given(a, b, t.opt) : a[j].val # Empty)
    BY <1>5
  <2>4. (\E b \in Blocks : Governs(c, b, n + 1) /\
           \E j \in Given(c, b, t.opt) : j < n + 1 /\ c[j].val # Empty) <=>
        (\E b \in Blocks : Governs(a, b, n + 1) /\ \E j \in Given(a, b, t.opt) : a[j].val # Empty)
    BY <1>2, <2>3, Zenon
  <2>5. Wrong(c, n + 1) <=>
          \/ t.opt \in Blocks /\ \E j \in 1 .. (n + 1) - 1 : c[j].opt = t.opt
          \/ /\ t.opt \in SubOptions
             /\ ~ \E b \in Blocks : t.opt \in Allowed[b] /\ Governs(c, b, n + 1)
          \/ /\ t.opt \in SubOptions \ {"verify"}
             /\ \E b \in Blocks : Governs(c, b, n + 1) /\
                  \E j \in Given(c, b, t.opt) : j < n + 1 /\ c[j].val # Empty
          \/ t.opt = "user" /\ t.val \notin UserPass
    BY <2>1, Zenon DEF Wrong
  <2> QED BY <1>6, <2>2, <2>4, <2>5, Zenon
<1> QED BY <1>7 DEF n, c

\* Of a command line that was right, only the token just read can be wrong.
LEMMA FirstWrong ==
    ASSUME NEW S, NEW a \in Seq(S), NEW t \in S, ~ \E i \in Leading(a) : Wrong(a, i)
    PROVE  (\E i \in Leading(Append(a, t)) : Wrong(Append(a, t), i)) <=>
             OptionsOnly(a) /\ t.opt # "arg" /\ Wrong(Append(a, t), Len(a) + 1)
<1>1. Leading(a) \subseteq 1 .. Len(a)
  BY LeadingAppend
<1>2. \A i \in Leading(a) : ~Wrong(Append(a, t), i)
  BY <1>1, WrongAppend
<1> QED BY <1>2, LeadingAppend

\* A token that gives no value changes none.
LEMMA ReadsKept ==
    ASSUME NEW S, NEW a \in Seq(S), NEW t \in S, NEW v, Reads(a, v),
           t.opt \notin SubOptions \/ ~OptionsOnly(a)
    PROVE  Reads(Append(a, t), v)
<1> DEFINE c == Append(a, t)
<1>1. \A i \in 1 .. Len(a) : c[i] = a[i]
  BY AppendProperties
<1>2. ASSUME NEW b \in Blocks, NEW s \in Allowed[b]
      PROVE  Given(c, b, s) = Given(a, b, s) /\ Given(a, b, s) \subseteq 1 .. Len(a)
  <2>1. s \in SubOptions
    BY SubOptionNames
  <2>2. ~(OptionsOnly(a) /\ t.opt # "arg" /\ t.opt = s /\ Governs(a, b, Len(a) + 1))
    BY <2>1
  <2> QED BY <2>2, GivenAppend
<1> HIDE DEF c
<1>3. Reads(c, v)
  BY <1>1, <1>2 DEF Reads
<1> QED BY <1>3 DEF c

LEMMA OptionsOnlyAppend ==
    ASSUME NEW S, NEW a \in Seq(S), NEW t \in S
    PROVE  OptionsOnly(Append(a, t)) <=> OptionsOnly(a) /\ t.opt # "arg"
<1>1. Len(a) \in Nat
  BY LenProperties
<1> QED BY <1>1, AppendProperties DEF OptionsOnly

\* The blocks seen.
LEMMA SeenAppend ==
    ASSUME NEW S, NEW a \in Seq(S), NEW t \in S
    PROVE  /\ OptionsOnly(a) => Seen(a) = {b \in Blocks : \E i \in 1 .. Len(a) : a[i].opt = b}
           /\ Seen(Append(a, t)) =
                IF OptionsOnly(a) /\ t.opt \in Blocks THEN Seen(a) \cup {t.opt} ELSE Seen(a)
<1> DEFINE n == Len(a)
           c == Append(a, t)
<1>1. n \in Nat /\ c[n + 1] = t /\ \A j \in 1 .. n : c[j] = a[j] /\ DOMAIN a = 1 .. n
  BY AppendProperties, LenProperties
<1>2. /\ Leading(a) \subseteq 1 .. n
      /\ Leading(c) = Leading(a) \cup IF OptionsOnly(a) /\ t.opt # "arg" THEN {n + 1} ELSE {}
  BY LeadingAppend
<1>3. OptionsOnly(a) => Leading(a) = 1 .. n
  BY <1>1, LenProperties DEF OptionsOnly, Leading
<1> HIDE DEF n, c
<1>4. OptionsOnly(a) => Seen(a) = {b \in Blocks : \E i \in 1 .. n : a[i].opt = b}
  BY <1>3 DEF Seen
<1>5. \A i \in Leading(a) : c[i] = a[i]
  BY <1>1, <1>2
<1>6. CASE OptionsOnly(a) /\ t.opt \in Blocks
  <2>1. t.opt # "arg"
    BY <1>6, NamesApart
  <2>2. Leading(c) = Leading(a) \cup {n + 1}
    BY <1>2, <1>6, <2>1
  <2>3. Seen(c) = Seen(a) \cup {t.opt}
    BY <1>1, <1>5, <1>6, <2>2 DEF Seen
  <2> QED BY <1>4, <1>6, <2>3 DEF n, c
<1>7. CASE ~(OptionsOnly(a) /\ t.opt \in Blocks)
  <2>1. Seen(c) = Seen(a)
    BY <1>1, <1>2, <1>5, <1>7 DEF Seen
  <2> QED BY <1>4, <1>7, <2>1 DEF n, c
<1> QED BY <1>6, <1>7

\* What every step that reads a token has to start from.
LEMMA ReadFacts ==
    ASSUME ScanInv, NEW t \in Tokens, Read(t)
    PROVE  /\ args' = Append(args, t) /\ args' \in Seq(Tokens) /\ Len(args') = Len(args) + 1
           /\ ~rejected /\ ~ \E i \in Leading(args) : Wrong(args, i)
           /\ opts.seen = Seen(args) /\ Reads(args, opts.value)
           /\ Len(args) \in Nat
<1>1. args' = Append(args, t) /\ ~rejected /\ args \in Seq(Tokens)
  BY DEF Read, ScanInv
<1>2. args' \in Seq(Tokens) /\ Len(args') = Len(args) + 1
  BY <1>1, AppendProperties
<1>3. Len(args) \in Nat
  BY <1>1, LenProperties
<1> QED BY <1>1, <1>2, <1>3 DEF ScanInv

\* -help, -version, -v and -d.
LEMMA ScanGlobal ==
    ASSUME ScanInv, OptsShape, NEW t \in Tokens, ReadGlobal(t)
    PROVE  ScanInv'
<1>0. Read(t) /\ rest = <<>> /\ t.opt \in Globals /\ UNCHANGED <<scope, rest, rejected>>
  BY DEF ReadGlobal
<1>1. /\ args' = Append(args, t) /\ args' \in Seq(Tokens) /\ Len(args') = Len(args) + 1
      /\ ~rejected /\ ~ \E i \in Leading(args) : Wrong(args, i)
      /\ opts.seen = Seen(args) /\ Reads(args, opts.value)
      /\ Len(args) \in Nat
  BY <1>0, ReadFacts
<1>2. opts'.seen = opts.seen /\ opts'.value = opts.value
  BY DEF ReadGlobal, OptsShape
<1>3. t.opt \notin Blocks /\ t.opt \notin SubOptions /\ t.opt # "arg" /\ t.opt # "user"
  BY <1>0, NamesApart, SubOptionNames
<1>4. args \in Seq(Tokens) /\ OptionsOnly(args)
  BY <1>0 DEF ScanInv
<1>5. OptionsOnly(args')
  BY <1>1, <1>3, <1>4, OptionsOnlyAppend
<1>6. ASSUME NEW b \in Blocks PROVE scope = b <=> Governs(args', b, Len(args') + 1)
  <2>1. Governs(args', b, Len(args) + 2) <=> Governs(args, b, Len(args) + 1)
    BY <1>1, <1>3, <1>4, GovernsAppend
  <2>2. Len(args') + 1 = Len(args) + 2
    BY <1>1
  <2> QED BY <1>0, <1>1, <2>1, <2>2 DEF ScanInv
<1>7. ~ \E i \in Leading(args') : Wrong(args', i)
  <2>1. ~Wrong(args', Len(args) + 1)
    BY <1>1, <1>3, <1>4, TokenWrong
  <2> QED BY <1>1, <1>4, <2>1, FirstWrong
<1>8. Seen(args') = Seen(args)
  BY <1>1, <1>3, <1>4, SeenAppend
<1>9. Reads(args', opts.value)
  BY <1>1, <1>3, <1>4, ReadsKept
<1> QED BY <1>0, <1>1, <1>2, <1>5, <1>6, <1>7, <1>8, <1>9 DEF ScanInv

\* -Q, -Z, -M and -F.
LEMMA ScanBlock ==
    ASSUME ScanInv, OptsShape, NEW t \in Tokens, NEW blk \in Blocks, OpenBlock(t, blk)
    PROVE  ScanInv'
<1>0. Read(t) /\ rest = <<>> /\ t.opt = blk
  BY DEF OpenBlock, ReadOption
<1>1. /\ args' = Append(args, t) /\ args' \in Seq(Tokens) /\ Len(args') = Len(args) + 1
      /\ ~rejected /\ ~ \E i \in Leading(args) : Wrong(args, i)
      /\ opts.seen = Seen(args) /\ Reads(args, opts.value)
      /\ Len(args) \in Nat
  BY <1>0, ReadFacts
<1>3. t.opt \in Blocks /\ t.opt \notin SubOptions /\ t.opt # "arg" /\ t.opt # "user"
  BY <1>0, NamesApart, SubOptionNames
<1>4. args \in Seq(Tokens) /\ OptionsOnly(args)
  BY <1>0 DEF ScanInv
<1>5. OptionsOnly(args')
  BY <1>1, <1>3, <1>4, OptionsOnlyAppend
<1>6. blk \in opts.seen <=> \E j \in 1 .. Len(args) : args[j].opt = t.opt
  BY <1>0, <1>1, <1>4, SeenAppend
<1>7. (\E i \in Leading(args') : Wrong(args', i)) <=> blk \in opts.seen
  <2>1. Wrong(args', Len(args) + 1) <=> blk \in opts.seen
    BY <1>1, <1>3, <1>4, <1>6, TokenWrong
  <2> QED BY <1>1, <1>3, <1>4, <2>1, FirstWrong
<1>8. CASE blk \in opts.seen
  <2>1. rejected' = TRUE
    BY <1>8, Zenon DEF OpenBlock, Reject
  <2>2. UNCHANGED <<scope, opts, rest>>
    BY <1>8 DEF OpenBlock, Reject
  <2>3. rejected'
    BY <2>1, Zenon
  <2> QED BY <1>0, <1>1, <1>5, <1>7, <1>8, <2>2, <2>3 DEF ScanInv
<1>9. CASE blk \notin opts.seen
  <2>1. /\ opts' = [opts EXCEPT !.seen = @ \cup {blk}]
        /\ scope' = blk
        /\ UNCHANGED <<rest, rejected>>
    BY <1>9 DEF OpenBlock
  <2>2. opts'.seen = opts.seen \cup {blk} /\ opts'.value = opts.value
    BY <2>1 DEF OptsShape
  <2>3. Seen(args') = Seen(args) \cup {blk}
    BY <1>0, <1>1, <1>3, <1>4, SeenAppend
  <2>4. Reads(args', opts.value)
    BY <1>1, <1>3, <1>4, ReadsKept
  <2>5. ASSUME NEW b \in Blocks PROVE scope' = b <=> Governs(args', b, Len(args') + 1)
    <3>1. Governs(args', b, Len(args) + 2) <=> b = blk
      BY <1>0, <1>1, <1>3, <1>4, GovernsAppend
    <3>2. Len(args') + 1 = Len(args) + 2
      BY <1>1
    <3> QED BY <2>1, <3>1, <3>2
  <2> QED BY <1>0, <1>1, <1>5, <1>7, <1>9, <2>1, <2>2, <2>3, <2>4, <2>5 DEF ScanInv
<1> QED BY <1>8, <1>9

\* In a command line that is right, a sub-option has a value exactly when one of
\* the tokens that give it one is not empty.
LEMMA RepeatedMeans ==
    ASSUME NEW S, NEW a \in Seq(S), NEW v, Reads(a, v), ~ \E i \in Leading(a) : Wrong(a, i),
           NEW b \in Blocks, NEW s \in Allowed[b], s # "verify"
    PROVE  v[b][s] # Empty <=> \E j \in Given(a, b, s) : a[j].val # Empty
<1>1. CASE Given(a, b, s) = {}
  BY <1>1 DEF Reads, Default
<1>2. CASE Given(a, b, s) # {}
  <2>1. PICK l \in Given(a, b, s) : /\ \A k \in Given(a, b, s) : k <= l
                                    /\ v[b][s] = Written(s, a[l].val)
    BY <1>2 DEF Reads
  <2>2. v[b][s] = a[l].val
    BY <2>1 DEF Written
  <2>3. l \in Leading(a) /\ a[l].opt = s /\ Governs(a, b, l) /\ ~Wrong(a, l)
    BY DEF Given
  <2>4. s \in SubOptions \ {"verify"}
    BY SubOptionNames
  <2>5. ASSUME NEW j \in Given(a, b, s), j < l PROVE a[j].val = Empty
    BY <2>3, <2>4, <2>5 DEF Wrong
  <2>6. \A j \in Given(a, b, s) : j \in 1 .. Len(a)
    BY GivenAppend, LeadingAppend DEF Given, Leading
  <2>7. \A j \in Given(a, b, s) : j < l \/ j = l
    BY <2>1, <2>6
  <2> QED BY <2>2, <2>5, <2>7
<1> QED BY <1>1, <1>2

\* The sub-options.
LEMMA ScanSubOption ==
    ASSUME ScanInv, OptsShape, NEW t \in Tokens, NEW s \in SubOptions, ReadSubOption(t, s)
    PROVE  ScanInv'
<1> DEFINE bad == \/ scope = "none"
                  \/ s \notin Allowed[scope]
                  \/ Repeated(s)
                  \/ s = "user" /\ t.val \notin UserPass
<1>0. Read(t) /\ rest = <<>> /\ t.opt = s
  BY DEF ReadSubOption, ReadOption
<1>1. /\ args' = Append(args, t) /\ args' \in Seq(Tokens) /\ Len(args') = Len(args) + 1
      /\ ~rejected /\ ~ \E i \in Leading(args) : Wrong(args, i)
      /\ opts.seen = Seen(args) /\ Reads(args, opts.value)
      /\ Len(args) \in Nat
  BY <1>0, ReadFacts
<1>2. s \notin Blocks /\ s # "arg"
  BY NamesApart
<1>3. args \in Seq(Tokens) /\ OptionsOnly(args) /\ scope \in Blocks \cup {"none"}
  BY <1>0 DEF ScanInv
<1>4. \A b \in Blocks : scope = b <=> Governs(args, b, Len(args) + 1)
  BY <1>0, <1>1 DEF ScanInv
<1>5. OptionsOnly(args')
  BY <1>0, <1>1, <1>2, <1>3, OptionsOnlyAppend
<1>6. Wrong(args', Len(args) + 1) <=> bad
  <2>1. Wrong(args', Len(args) + 1) <=>
          \/ ~ \E b \in Blocks : s \in Allowed[b] /\ Governs(args, b, Len(args) + 1)
          \/ s # "verify" /\ \E b \in Blocks : Governs(args, b, Len(args) + 1) /\
               \E j \in Given(args, b, s) : args[j].val # Empty
          \/ s = "user" /\ t.val \notin UserPass
    BY <1>0, <1>1, <1>2, <1>3, TokenWrong
  <2>2. CASE scope = "none"
    BY <1>4, <2>1, <2>2, NamesApart
  <2>3. CASE scope \in Blocks /\ s \notin Allowed[scope]
    BY <1>4, <2>1, <2>3
  <2>4. CASE scope \in Blocks /\ s \in Allowed[scope]
    <3>1. s # "verify" => (Repeated(s) <=> \E j \in Given(args, scope, s) : args[j].val # Empty)
      BY <1>1, <1>3, <2>4, RepeatedMeans DEF Repeated
    <3>2. scope # "none"
      BY <2>4, NamesApart
    <3> QED BY <1>4, <2>1, <2>4, <3>1, <3>2 DEF Repeated
  <2> QED BY <1>3, <2>2, <2>3, <2>4
<1>7. (\E i \in Leading(args') : Wrong(args', i)) <=> bad
  BY <1>0, <1>1, <1>2, <1>3, <1>6, FirstWrong
<1>8. CASE bad
  <2>1. rejected' = TRUE
    BY <1>8, Zenon DEF ReadSubOption, Reject
  <2>2. UNCHANGED <<scope, opts, rest>>
    BY <1>8 DEF ReadSubOption, Reject
  <2>3. rejected'
    BY <2>1, Zenon
  <2> HIDE DEF bad
  <2> QED BY <1>0, <1>1, <1>5, <1>7, <1>8, <2>2, <2>3 DEF ScanInv
<1>9. CASE ~bad
  <2>1. /\ opts' = [opts EXCEPT !.value[scope][s] = Written(s, t.val)]
        /\ UNCHANGED <<scope, rest, rejected>>
    BY <1>9 DEF ReadSubOption, Written
  <2>2. scope \in Blocks /\ s \in Allowed[scope]
    BY <1>3, <1>9
  <2> HIDE DEF bad
  <2>3. opts'.seen = opts.seen
    BY <2>1 DEF OptsShape
  <2>4. ASSUME NEW b \in Blocks, NEW u \in Allowed[b]
        PROVE  opts'.value[b][u] = IF b = scope /\ u = s THEN Written(s, t.val)
                                   ELSE opts.value[b][u]
    BY <2>1, <2>2 DEF OptsShape
  <2>5. Seen(args') = Seen(args)
    BY <1>0, <1>1, <1>2, <1>3, SeenAppend
  <2>6. ASSUME NEW b \in Blocks PROVE scope = b <=> Governs(args', b, Len(args') + 1)
    <3>1. Governs(args', b, Len(args) + 2) <=> Governs(args, b, Len(args) + 1)
      BY <1>0, <1>1, <1>2, <1>3, GovernsAppend
    <3>2. Len(args') + 1 = Len(args) + 2
      BY <1>1
    <3> QED BY <1>4, <3>1, <3>2
  <2>7. Reads(args', opts'.value)
    <3> SUFFICES ASSUME NEW b \in Blocks, NEW u \in Allowed[b]
                 PROVE  \/ Given(args', b, u) = {} /\ opts'.value[b][u] = Default(u)
                        \/ \E l \in Given(args', b, u) :
                              /\ \A k \in Given(args', b, u) : k <= l
                              /\ opts'.value[b][u] = Written(u, args'[l].val)
      BY DEF Reads
    <3>1. /\ args'[Len(args) + 1] = t
          /\ \A i \in 1 .. Len(args) : args'[i] = args[i]
          /\ Given(args, b, u) \subseteq 1 .. Len(args)
      BY <1>1, <1>3, AppendProperties, GivenAppend
    <3>2. CASE b = scope /\ u = s
      <4>1. Given(args', b, u) = Given(args, b, u) \cup {Len(args) + 1}
        BY <1>0, <1>1, <1>2, <1>3, <1>4, <3>2, GivenAppend
      <4>2. \A k \in Given(args', b, u) : k <= Len(args) + 1
        BY <1>1, <3>1, <4>1
      <4>3. opts'.value[b][u] = Written(u, t.val)
        BY <2>4, <3>2
      <4> QED BY <3>1, <4>1, <4>2, <4>3
    <3>3. CASE ~(b = scope /\ u = s)
      <4>1. Given(args', b, u) = Given(args, b, u)
        BY <1>0, <1>1, <1>3, <1>4, <3>3, GivenAppend
      <4>2. opts'.value[b][u] = opts.value[b][u]
        BY <2>4, <3>3
      <4> QED BY <1>1, <3>1, <4>1, <4>2 DEF Reads
    <3> QED BY <3>2, <3>3
  <2> QED BY <1>0, <1>1, <1>5, <1>7, <1>9, <2>1, <2>2, <2>3, <2>5, <2>6, <2>7 DEF ScanInv
<1> QED BY <1>8, <1>9

\* The positional arguments, and whatever follows the first of them.
LEMMA ScanPositional ==
    ASSUME ScanInv, NEW t \in After, ReadPositional(t)
    PROVE  ScanInv'
<1>0. /\ Read(t) /\ (t.opt = "arg" \/ rest # <<>>)
      /\ rest' = Append(rest, t) /\ UNCHANGED <<scope, opts, rejected>>
      /\ t \in Tokens
  BY DEF ReadPositional, Tokens, After
<1>1. /\ args' = Append(args, t) /\ args' \in Seq(Tokens) /\ Len(args') = Len(args) + 1
      /\ ~rejected /\ ~ \E i \in Leading(args) : Wrong(args, i)
      /\ opts.seen = Seen(args) /\ Reads(args, opts.value)
      /\ Len(args) \in Nat
  BY <1>0, ReadFacts
<1>2. args \in Seq(Tokens) /\ rest \in Seq(After)
  BY DEF ScanInv
<1>3. rest' \in Seq(After) /\ rest' # <<>>
  BY <1>0, <1>2, AppendProperties
<1>4. t.opt = "arg" \/ ~OptionsOnly(args)
  BY <1>0 DEF ScanInv
<1>5. ~OptionsOnly(args')
  BY <1>0, <1>1, <1>2, <1>4, OptionsOnlyAppend
<1>6. ~ \E i \in Leading(args') : Wrong(args', i)
  BY <1>0, <1>1, <1>2, <1>4, FirstWrong
<1>7. t.opt = "arg" => t.opt \notin Blocks /\ t.opt \notin SubOptions
  BY NamesApart
<1>8. Seen(args') = Seen(args)
  <2>1. ~(OptionsOnly(args) /\ t.opt \in Blocks)
    BY <1>4, <1>7
  <2>2. Seen(Append(args, t)) = Seen(args)
    BY <1>0, <1>2, <2>1, SeenAppend
  <2> QED BY <1>1, <2>2
<1>9. Reads(args', opts.value)
  <2>1. t.opt \notin SubOptions \/ ~OptionsOnly(args)
    BY <1>4, <1>7
  <2> QED BY <1>0, <1>1, <1>2, <2>1, ReadsKept
<1> QED BY <1>0, <1>1, <1>3, <1>5, <1>6, <1>8, <1>9 DEF ScanInv

-----------------------------------------------------------------------------
(* The fields of the options, and the bounds.                              *)

LEMMA NoOptionsShape ==
    /\ NoOptions = [seen |-> NoOptions.seen, value |-> NoOptions.value, help |-> NoOptions.help,
                    version |-> NoOptions.version, verbose |-> NoOptions.verbose,
                    logLevel |-> NoOptions.logLevel]
    /\ NoOptions.value = [b \in Blocks |-> NoOptions.value[b]]
    /\ \A b \in Blocks : NoOptions.value[b] = [s \in Allowed[b] |-> NoOptions.value[b][s]]
    /\ \A b \in Blocks : \A s \in Allowed[b] : NoOptions.value[b][s] = Default(s)
    /\ NoOptions.seen = {} /\ NoOptions.logLevel \in 0 .. 3
    /\ NoOptions.help \in BOOLEAN /\ NoOptions.version \in BOOLEAN /\ NoOptions.verbose \in BOOLEAN
<1>1. /\ NoOptions.help = FALSE /\ NoOptions.version = FALSE /\ NoOptions.verbose = FALSE
  BY Zenon DEF NoOptions
<1>2. /\ NoOptions.help \in BOOLEAN /\ NoOptions.version \in BOOLEAN
      /\ NoOptions.verbose \in BOOLEAN
  BY <1>1, Zenon
<1>3. NoOptions.seen = {} /\ NoOptions.logLevel = 0
  BY DEF NoOptions
<1>4. NoOptions.value = [b \in Blocks |-> [s \in Allowed[b] |-> Default(s)]]
  BY DEF NoOptions, Default
<1>5. \A b \in Blocks : NoOptions.value[b] = [s \in Allowed[b] |-> Default(s)]
  BY <1>4
<1>6. NoOptions = [seen |-> NoOptions.seen, value |-> NoOptions.value, help |-> NoOptions.help,
                   version |-> NoOptions.version, verbose |-> NoOptions.verbose,
                   logLevel |-> NoOptions.logLevel]
  BY DEF NoOptions
<1> QED BY <1>2, <1>3, <1>4, <1>5, <1>6

LEMMA ShapeGlobal ==
    ASSUME OptsShape, NEW t, ReadGlobal(t)
    PROVE  OptsShape'
<1> DEFINE level == IF t.opt \in DOMAIN LogLevelTokens THEN LogLevelTokens[t.opt] ELSE 0
           help == opts.help \/ t.opt = "help"
           version == opts.version \/ t.opt = "version"
           verbose == opts.verbose \/ t.opt = "v"
           max == IF level > opts.logLevel THEN level ELSE opts.logLevel
<1>1. level \in 0 .. 3
  BY DEF LogLevelTokens
<1>2. max \in 0 .. 3
  BY <1>1 DEF OptsShape
<1>3. help \in BOOLEAN /\ version \in BOOLEAN /\ verbose \in BOOLEAN
  BY Zenon
<1>4. /\ opts' = [opts EXCEPT !.help = help, !.version = version, !.verbose = verbose,
                              !.logLevel = max]
      /\ UNCHANGED rejected
  BY DEF ReadGlobal
<1> HIDE DEF level, help, version, verbose, max
<1>5. opts' = [seen |-> opts.seen, value |-> opts.value, help |-> help,
               version |-> version, verbose |-> verbose, logLevel |-> max]
  BY <1>4 DEF OptsShape
<1>6. /\ opts'.seen = opts.seen /\ opts'.value = opts.value /\ opts'.logLevel = max
      /\ opts'.help = help /\ opts'.version = version /\ opts'.verbose = verbose
  BY <1>5
<1>7. opts' = [seen |-> opts'.seen, value |-> opts'.value, help |-> opts'.help,
               version |-> opts'.version, verbose |-> opts'.verbose,
               logLevel |-> opts'.logLevel]
  BY <1>5, <1>6
<1>8. opts'.help \in BOOLEAN /\ opts'.version \in BOOLEAN /\ opts'.verbose \in BOOLEAN
  BY <1>3, <1>6
<1> QED BY <1>2, <1>4, <1>6, <1>7, <1>8 DEF OptsShape

LEMMA ShapeRead ==
    ASSUME OptsShape, ScanInv,
           \/ \E t \in Options, b \in Blocks : OpenBlock(t, b)
           \/ \E t \in Options, s \in SubOptions : ReadSubOption(t, s)
           \/ \E t \in After : ReadPositional(t)
    PROVE  OptsShape'
<1>1. CASE UNCHANGED opts /\ (UNCHANGED rejected \/ rejected' = TRUE)
  <2>1. rejected' \in BOOLEAN
    BY <1>1, Zenon DEF OptsShape
  <2>2. UNCHANGED opts
    BY <1>1
  <2> QED BY <2>1, <2>2 DEF OptsShape
<1>2. ASSUME NEW b \in Blocks, opts' = [opts EXCEPT !.seen = @ \cup {b}], UNCHANGED rejected
      PROVE  OptsShape'
  BY <1>2 DEF OptsShape
<1>3. ASSUME NEW s, NEW w, scope \in Blocks, s \in Allowed[scope],
             opts' = [opts EXCEPT !.value[scope][s] = w], UNCHANGED rejected
      PROVE  OptsShape'
  <2>1. /\ opts'.value = [opts.value EXCEPT ![scope][s] = w]
        /\ opts'.seen = opts.seen /\ opts'.logLevel = opts.logLevel
        /\ opts'.help = opts.help /\ opts'.version = opts.version /\ opts'.verbose = opts.verbose
        /\ opts' = [seen |-> opts'.seen, value |-> opts'.value, help |-> opts'.help,
                    version |-> opts'.version, verbose |-> opts'.verbose,
                    logLevel |-> opts'.logLevel]
    BY <1>3 DEF OptsShape
  <2>2. opts'.value = [b \in Blocks |-> opts'.value[b]]
    BY <2>1 DEF OptsShape
  <2>3. ASSUME NEW b \in Blocks
        PROVE  opts'.value[b] = [u \in Allowed[b] |-> opts'.value[b][u]]
    <3>1. /\ opts.value = [c \in Blocks |-> opts.value[c]]
          /\ opts.value[b] = [u \in Allowed[b] |-> opts.value[b][u]]
      BY DEF OptsShape
    <3>2. CASE b = scope
      <4>1. opts'.value[b] = [opts.value[b] EXCEPT ![s] = w]
        BY <1>3, <2>1, <3>1, <3>2
      <4> QED BY <3>1, <4>1
    <3>3. CASE b # scope
      <4>1. opts'.value[b] = opts.value[b]
        BY <1>3, <2>1, <3>1, <3>3
      <4> QED BY <3>1, <4>1
    <3> QED BY <3>2, <3>3
  <2> QED BY <1>3, <2>1, <2>2, <2>3 DEF OptsShape
<1>4. ASSUME NEW t \in Options, NEW b \in Blocks, OpenBlock(t, b) PROVE OptsShape'
  BY <1>1, <1>2, <1>4 DEF OpenBlock, Reject
<1>5. ASSUME NEW t \in Options, NEW s \in SubOptions, ReadSubOption(t, s) PROVE OptsShape'
  <2>1. CASE Reject
    BY <1>1, <2>1 DEF Reject
  <2>2. CASE ~Reject
    <3>1. scope \in Blocks /\ s \in Allowed[scope]
      BY <1>5, <2>2 DEF ReadSubOption, ScanInv
    <3>2. opts' = [opts EXCEPT !.value[scope][s] =
                     IF s = "verify" /\ t.val # "0" THEN "1" ELSE t.val] /\ UNCHANGED rejected
      BY <1>5, <2>2 DEF ReadSubOption
    <3> QED BY <1>3, <3>1, <3>2
  <2> QED BY <2>1, <2>2
<1>6. ASSUME NEW t \in After, ReadPositional(t) PROVE OptsShape'
  BY <1>1, <1>6 DEF ReadPositional
<1> QED BY <1>4, <1>5, <1>6

\* What has been started stays as it is until a group or a half is added.
LEMMA StartedKept ==
    ASSUME ListenerReady, ChecksAsTyped, CredentialsAsTyped, UNCHANGED <<groups, halves, failed>>
    PROVE  ListenerReady' /\ ChecksAsTyped' /\ CredentialsAsTyped'
<1>1. \A g, b, s : Typed(g, b, s)' = Typed(g, b, s)
  BY DEF Typed
<1>2. ListenerReady'
  BY <1>1 DEF ListenerReady
<1>3. ChecksAsTyped'
  BY <1>1 DEF ChecksAsTyped
<1>4. CredentialsAsTyped'
  BY <1>1 DEF CredentialsAsTyped
<1> QED BY <1>2, <1>3, <1>4

\* Tokens, groups and phases.
LEMMA ReadStep ==
    ASSUME IInv,
           \/ \E t \in Options : ReadGlobal(t)
           \/ \E t \in Options, b \in Blocks : OpenBlock(t, b)
           \/ \E t \in Options, s \in SubOptions : ReadSubOption(t, s)
           \/ \E t \in After : ReadPositional(t)
    PROVE  IInv'
<1>1. OptsShape' /\ ScanInv'
  <2>1. Options \subseteq Tokens
    BY DEF Tokens
  <2>2. OptsShape /\ ScanInv
    BY DEF IInv
  <2>3. ASSUME NEW t \in Options, ReadGlobal(t) PROVE OptsShape' /\ ScanInv'
    BY <2>1, <2>2, <2>3, ShapeGlobal, ScanGlobal
  <2>4. ASSUME NEW t \in Options, NEW b \in Blocks, OpenBlock(t, b) PROVE OptsShape' /\ ScanInv'
    BY <2>1, <2>2, <2>4, ShapeRead, ScanBlock
  <2>5. ASSUME NEW t \in Options, NEW s \in SubOptions, ReadSubOption(t, s)
        PROVE  OptsShape' /\ ScanInv'
    BY <2>1, <2>2, <2>5, ShapeRead, ScanSubOption
  <2>6. ASSUME NEW t \in After, ReadPositional(t) PROVE OptsShape' /\ ScanInv'
    BY <2>2, <2>6, ShapeRead, ScanPositional
  <2> QED BY <2>3, <2>4, <2>5, <2>6
<1>2. PICK t \in Tokens : Read(t)
  BY DEF ReadGlobal, OpenBlock, ReadSubOption, ReadOption, ReadPositional, Tokens, After
<1>3. Len(args') <= MaxArgs
  <2>1. Len(args') = Len(args) + 1 /\ Len(args) \in Nat
    BY <1>2, ReadFacts DEF IInv
  <2> QED BY <1>2, <2>1, BoundsAssumption DEF Read
<1>4. UNCHANGED <<groups, phase, halves, failed>>
  BY <1>2 DEF Read
<1>5. GroupsInv' /\ BoundsInv'
  BY <1>3, <1>4 DEF IInv, GroupsInv, BoundsInv
<1>6. ListenerReady' /\ ChecksAsTyped' /\ CredentialsAsTyped'
  BY <1>4, StartedKept DEF IInv
<1> QED BY <1>1, <1>5, <1>6 DEF IInv

-----------------------------------------------------------------------------
(* Parse: what an accepted group's Config promises.                        *)

\* A sub-option with a value is under a block that was typed.
LEMMA GivenSeen ==
    ASSUME NEW S, NEW a \in Seq(S), NEW b \in Blocks, NEW s, Given(a, b, s) # {}
    PROVE  b \in Seen(a)
<1>1. PICK i \in Leading(a) : Governs(a, b, i)
  BY DEF Given
<1>2. PICK j \in 1 .. i - 1 : a[j].opt = b
  BY <1>1 DEF Governs
<1>3. DOMAIN a = 1 .. Len(a) /\ Len(a) \in Nat
  BY LenProperties
<1>4. i \in 1 .. Len(a) /\ \A k \in 1 .. i : a[k].opt # "arg"
  BY <1>3 DEF Leading
<1>5. j \in Leading(a)
  BY <1>2, <1>3, <1>4 DEF Leading
<1> QED BY <1>2, <1>5 DEF Seen

LEMMA ParseCases ==
    \/ Parse = Error
    \/ Parse = Nothing("help")
    \/ Parse = Nothing("version")
    \/ /\ ~rejected /\ Len(rest) = 2 /\ (BareProxy(rest[1]) \/ ChainedProxy(rest[1]))
       /\ Parse = ParseProxy(opts, rest[1], rest[2])
    \/ ~rejected /\ Len(rest) = 2 /\ Parse = ParseRelay(opts, rest[1], rest[2])
BY Zenon DEF Parse

LEMMA NoListener ==
    ASSUME NEW m PROVE Nothing(m).mode = m /\ Error.mode = "error"
BY DEF Nothing, Error

\* The relay.
LEMMA RelayAccepted ==
    ASSUME ScanInv, ~rejected, NEW target, NEW listen,
           NEW cfg, cfg = ParseRelay(opts, target, listen)
    PROVE  cfg.mode = "error" \/ (cfg.mode = "forward" /\ RelayReady(args, cfg))
<1> DEFINE udp == "UDP" \in Words(listen)
           tcp == "TCP" \in Words(listen) \/ ~udp
           sslListen == "SSL" \in Words(listen)
           sslTarget == "SSL" \in Words(target)
           ok == /\ "F" \notin opts.seen
                 /\ ValidEndpoint(target, TRUE)
                 /\ ValidEndpoint(listen, FALSE)
                 /\ ValidateSSL(opts, sslListen, udp /\ sslListen, sslTarget)
           hs == (IF tcp THEN {"tcp"} ELSE {}) \cup (IF udp THEN {"udp"} ELSE {})
<1>1. cfg = IF ok THEN [mode |-> "forward", addr |-> NormalizeAddr(listen.addr), halves |-> hs,
                        listenSSL |-> sslListen, targetSSL |-> sslTarget, value |-> opts.value]
                  ELSE Error
  BY DEF ParseRelay
<1>2. CASE ~ok
  <2> HIDE DEF ok
  <2> QED BY <1>1, <1>2, NoListener
<1>3. CASE ok
  <2>1. /\ "F" \notin opts.seen /\ ValidAddr(listen.addr, FALSE)
        /\ ValidateSSL(opts, sslListen, udp /\ sslListen, sslTarget)
    BY <1>3 DEF ValidEndpoint
  <2>2. /\ ~ {"Z", "M"} \subseteq opts.seen
        /\ "Z" \in opts.seen \/ "M" \in opts.seen => sslListen
        /\ "M" \in opts.seen /\ udp /\ sslListen => opts.value["M"]["servername"] # Empty
        /\ ValidKeyCert(opts.value["Z"])
        /\ sslListen => opts.value["Z"]["cert"] # Empty \/ opts.value["M"]["signca"] # Empty
    <3> HIDE DEF udp, sslListen, sslTarget
    <3> QED BY <2>1 DEF ValidateSSL, Exclusive, MITMValid
  <2>3. "udp" \in hs => udp
    OBVIOUS
  <2> HIDE DEF hs, tcp, udp, sslListen, sslTarget
  <2>4. cfg = [mode |-> "forward", addr |-> NormalizeAddr(listen.addr), halves |-> hs,
               listenSSL |-> sslListen, targetSSL |-> sslTarget, value |-> opts.value]
    BY <1>1, <1>3, Zenon
  <2>5. /\ cfg.mode = "forward" /\ cfg.addr = NormalizeAddr(listen.addr) /\ cfg.halves = hs
        /\ cfg.value = opts.value
    BY <2>4
  <2>6. cfg.listenSSL <=> sslListen
    <3>1. cfg.listenSSL = sslListen
      BY <2>4
    <3> QED BY <3>1
  <2>7. ValidPort(cfg.addr.port)
    BY <2>1, <2>5 DEF ValidAddr, NormalizeAddr
  <2>8. args \in Seq(Tokens) /\ opts.seen = Seen(args) /\ Reads(args, opts.value)
    BY DEF ScanInv
  <2>9. Given(args, "F", "user") = {}
    BY <2>1, <2>8, GivenSeen DEF Blocks
  <2> QED BY <2>2, <2>3, <2>5, <2>6, <2>7, <2>8, <2>9 DEF RelayReady
<1> QED BY <1>2, <1>3

\* The proxy.
LEMMA ProxyAccepted ==
    ASSUME ScanInv, ~rejected, NEW target, NEW listen \in After,
           BareProxy(target) \/ ChainedProxy(target),
           NEW cfg, cfg = ParseProxy(opts, target, listen)
    PROVE  cfg.mode = "error" \/ (cfg.mode \in ProxyModes /\ ProxyReady(args, cfg))
<1> DEFINE ok == /\ BareProxy(target) \/ ValidAddr(target.addr, TRUE)
                 /\ opts.seen \subseteq {"F"}
                 /\ listen.opt = "arg"
                 /\ Len(listen.suffix) <= 1 /\ Words(listen) \subseteq ProxyModes
                 /\ ValidAddr(listen.addr, FALSE)
                 /\ ForwardAuthValid(opts, target)
           mode == IF listen.suffix = <<>> THEN TargetKind(target) ELSE Keyword(listen.suffix[1])
           chained == ~BareProxy(target)
<1>1. cfg = IF ok THEN [mode |-> mode, addr |-> NormalizeAddr(listen.addr), halves |-> {"tcp"},
                        kind |-> TargetKind(target), chained |-> chained,
                        user |-> opts.value["F"]["user"]]
                  ELSE Error
  BY DEF ParseProxy
<1>2. CASE ~ok
  <2> HIDE DEF ok
  <2> QED BY <1>1, <1>2, NoListener
<1>3. CASE ok
  <2>1. TargetKind(target) \in ProxyModes
    BY DEF TargetKind, BareProxy, ChainedProxy
  <2>2. ASSUME listen.suffix # <<>> PROVE Keyword(listen.suffix[1]) \in ProxyModes
    <3>1. listen.suffix \in Seq(STRING) /\ Len(listen.suffix) <= 1
      BY <1>3, SuffixAssumption DEF After
    <3>2. 1 \in DOMAIN listen.suffix
      BY <2>2, <3>1, LenProperties, EmptySeq
    <3> QED BY <1>3, <3>2 DEF Words
  <2>3. mode \in ProxyModes
    BY <2>1, <2>2
  <2>4. opts.seen \subseteq {"F"} /\ ValidPort(listen.addr.port)
    BY <1>3 DEF ValidAddr
  <2>5. "F" \in opts.seen => chained
    BY <1>3 DEF ForwardAuthValid
  <2>6. cfg = [mode |-> mode, addr |-> NormalizeAddr(listen.addr), halves |-> {"tcp"},
               kind |-> TargetKind(target), chained |-> chained,
               user |-> opts.value["F"]["user"]]
    BY <1>1, <1>3
  <2> HIDE DEF ok, mode, chained
  <2>7. /\ cfg.mode = mode /\ cfg.addr = NormalizeAddr(listen.addr)
        /\ cfg.user = opts.value["F"]["user"]
    BY <2>6
  <2>8. cfg.chained <=> chained
    <3>1. cfg.chained = chained
      BY <2>6
    <3> QED BY <3>1
  <2>9. ValidPort(cfg.addr.port)
    BY <2>4, <2>7 DEF NormalizeAddr
  <2>10. opts.seen = Seen(args) /\ Reads(args, opts.value)
    BY DEF ScanInv
  <2>11. \/ Given(args, "F", "user") = {} /\ cfg.user = Empty
         \/ \E l \in Given(args, "F", "user") : /\ \A k \in Given(args, "F", "user") : k <= l
                                                /\ cfg.user = args[l].val
    <3>1. "F" \in Blocks /\ "user" \in Allowed["F"]
      BY DEF Blocks, Allowed
    <3> QED BY <2>7, <2>10, <3>1 DEF Reads, Default, Written
  <2> QED BY <2>3, <2>4, <2>5, <2>7, <2>8, <2>9, <2>10, <2>11 DEF ProxyReady
<1> QED BY <1>2, <1>3

LEMMA ParseOK ==
    ASSUME ScanInv PROVE GroupOK([args |-> args, cfg |-> Parse])
<1> DEFINE cfg == Parse
<1>1. args \in Seq(Tokens) /\ rest \in Seq(After)
  BY DEF ScanInv
<1>2. \/ cfg.mode \in {"error", "help", "version"}
      \/ cfg.mode = "forward" /\ RelayReady(args, cfg)
      \/ cfg.mode \in ProxyModes /\ ProxyReady(args, cfg)
  <2>1. CASE cfg = Error \/ cfg = Nothing("help") \/ cfg = Nothing("version")
    <3> HIDE DEF cfg
    <3> QED BY <2>1, NoListener
  <2>2. CASE /\ ~rejected /\ Len(rest) = 2 /\ (BareProxy(rest[1]) \/ ChainedProxy(rest[1]))
             /\ cfg = ParseProxy(opts, rest[1], rest[2])
    <3>1. rest[2] \in After
      BY <1>1, <2>2, ElementOfSeq
    <3> HIDE DEF cfg
    <3> QED BY <2>2, <3>1, ProxyAccepted
  <2>3. CASE ~rejected /\ Len(rest) = 2 /\ cfg = ParseRelay(opts, rest[1], rest[2])
    <3> HIDE DEF cfg
    <3> QED BY <2>3, RelayAccepted
  <2> QED BY <2>1, <2>2, <2>3, ParseCases
<1> HIDE DEF cfg
<1>3. GroupOK([args |-> args, cfg |-> cfg])
  BY <1>1, <1>2 DEF GroupOK
<1> QED BY <1>3 DEF cfg

-----------------------------------------------------------------------------
(* ParseAll.                                                               *)

LEMMA ParsedFacts ==
    ASSUME GroupsInv, ScanInv
    PROVE  /\ Len(Parsed) = Len(groups) + 1 /\ Len(groups) \in Nat
           /\ DOMAIN Parsed = 1 .. Len(Parsed)
           /\ Parsed = [g \in 1 .. Len(Parsed) |-> Parsed[g]]
           /\ \A g \in 1 .. Len(Parsed) : GroupOK(Parsed[g])
<1> DEFINE grp == [args |-> args, cfg |-> Parse]
           n == Len(groups)
           S == {groups[g] : g \in 1 .. n} \cup {grp}
<1>1. GroupOK(grp)
  BY ParseOK
<1>2. n \in Nat /\ groups = [g \in 1 .. n |-> groups[g]] /\ \A g \in 1 .. n : GroupOK(groups[g])
  BY DEF GroupsInv
<1>3. Parsed = Append(groups, grp)
  BY DEF Parsed
<1> HIDE DEF grp, n
<1>4. groups \in [1 .. n -> S]
  BY <1>2
<1>5. groups \in Seq(S) /\ grp \in S
  BY <1>2, <1>4, SeqDef
<1> HIDE DEF S
<1>6. /\ Parsed \in Seq(S) /\ Len(Parsed) = Len(groups) + 1
      /\ \A g \in 1 .. Len(groups) : Parsed[g] = groups[g]
      /\ Parsed[Len(groups) + 1] = grp
  BY <1>3, <1>5, AppendProperties
<1>7. DOMAIN Parsed = 1 .. Len(Parsed) /\ Parsed = [g \in 1 .. Len(Parsed) |-> Parsed[g]]
  BY <1>6, LenProperties
<1>8. ASSUME NEW g \in 1 .. Len(Parsed) PROVE GroupOK(Parsed[g])
  <2>1. g \in 1 .. n \/ g = n + 1
    BY <1>2, <1>6 DEF n
  <2> QED BY <1>1, <1>2, <1>6, <2>1 DEF n
<1> QED BY <1>2, <1>6, <1>7, <1>8 DEF n

\* All or nothing.
LEMMA DecisionMeans ==
    ASSUME NEW cfgs, NEW l \in Nat, l = Len(cfgs), l > 0
    PROVE  /\ Decision(cfgs) \in {"refused", "usage", "running"}
           /\ Decision(cfgs) = "running" =>
                \A g \in DOMAIN cfgs : cfgs[g].cfg.mode \notin {"error", "help", "version"}
<1> DEFINE modes == {cfgs[i].cfg.mode : i \in DOMAIN cfgs}
           usage == modes \cap {"help", "version"} # {}
<1>1. \A g \in DOMAIN cfgs : cfgs[g].cfg.mode \in modes
  OBVIOUS
<1>2. Decision(cfgs) = CASE "error" \in modes -> "refused"
                         [] usage /\ l > 1 -> "refused"
                         [] usage /\ l = 1 -> "usage"
                         [] OTHER -> "running"
  BY DEF Decision
<1>3. l > 1 \/ l = 1
  OBVIOUS
<1> HIDE DEF modes
<1>4. Decision(cfgs) \in {"refused", "usage", "running"}
  BY <1>2
<1>5. Decision(cfgs) = "running" => "error" \notin modes /\ ~usage
  BY <1>2, <1>3
<1> QED BY <1>1, <1>4, <1>5

\* Nothing listens while groups are read.
Idle == halves = {} /\ failed = {}

LEMMA NothingStarted == Idle => ListenerReady /\ ChecksAsTyped /\ CredentialsAsTyped
BY DEF Idle, ListenerReady, ChecksAsTyped, CredentialsAsTyped

\* A group without tokens.
NoTokens ==
    /\ args = <<>> /\ rest = <<>> /\ scope = "none" /\ opts = NoOptions
    /\ rejected \in BOOLEAN /\ ~rejected

LEMMA ScanNothing == NoTokens => OptsShape /\ ScanInv
<1> SUFFICES ASSUME NoTokens PROVE OptsShape /\ ScanInv
  OBVIOUS
<1> USE DEF NoTokens
<1>1. OptsShape
  BY NoOptionsShape DEF OptsShape
<1>2. /\ args \in Seq(Tokens) /\ rest \in Seq(After) /\ Len(args) = 0 /\ DOMAIN args = {}
  BY EmptySeq, LenProperties
<1>3. Leading(args) = {}
  BY <1>2 DEF Leading
<1>4. \A b, s : Given(args, b, s) = {}
  BY <1>3 DEF Given
<1>5. Seen(args) = {} /\ opts.seen = {}
  BY <1>3, NoOptionsShape DEF Seen
<1>6. Reads(args, opts.value)
  BY <1>4, NoOptionsShape DEF Reads
<1>7. \A b : ~Governs(args, b, Len(args) + 1)
  BY <1>2 DEF Governs
<1>8. OptionsOnly(args)
  BY <1>2 DEF OptionsOnly
<1> QED BY <1>1, <1>2, <1>3, <1>5, <1>6, <1>7, <1>8, NamesApart DEF ScanInv

LEMMA InvInit == Init => IInv
<1> SUFFICES ASSUME Init PROVE IInv
  OBVIOUS
<1>1. rejected \in BOOLEAN /\ ~rejected
  BY Zenon DEF Init
<1>2. OptsShape /\ ScanInv
  BY <1>1, ScanNothing DEF Init, NoTokens
<1>3. GroupsInv
  BY BoundsAssumption DEF Init, GroupsInv
<1>4. BoundsInv
  BY BoundsAssumption DEF Init, BoundsInv
<1> QED BY <1>2, <1>3, <1>4, NothingStarted DEF Init, IInv, Idle

LEMMA SeparatorStep == ASSUME IInv, Separator PROVE IInv'
<1>1. rejected' \in BOOLEAN /\ ~rejected'
  BY Zenon DEF Separator
<1>2. /\ args' = <<>> /\ rest' = <<>> /\ scope' = "none" /\ opts' = NoOptions
      /\ groups' = Parsed /\ phase = "reading" /\ Len(groups) + 1 < MaxGroups
      /\ UNCHANGED <<phase, halves, failed>>
  BY DEF Separator
<1>3. OptsShape' /\ ScanInv'
  <2>1. NoTokens'
    BY <1>1, <1>2 DEF NoTokens
  <2> QED BY <2>1, ScanNothing, PTL
<1>4. Idle'
  BY <1>2 DEF IInv, BoundsInv, Idle
<1>5. ListenerReady' /\ ChecksAsTyped' /\ CredentialsAsTyped'
  BY <1>4, NothingStarted, PTL
<1>6. GroupsInv'
  BY <1>2, ParsedFacts, BoundsAssumption DEF IInv, GroupsInv
<1>7. BoundsInv'
  BY <1>2, <1>4, BoundsAssumption DEF BoundsInv, Idle
<1> QED BY <1>3, <1>5, <1>6, <1>7 DEF IInv

LEMMA EndStep == ASSUME IInv, End PROVE IInv'
<1>1. /\ groups' = Parsed /\ phase = "reading" /\ phase' = Decision(Parsed)
      /\ UNCHANGED <<args, scope, opts, rest, rejected, halves, failed>>
  BY DEF End
<1>2. OptsShape' /\ ScanInv'
  BY <1>1 DEF IInv, OptsShape, ScanInv
<1>3. Idle'
  BY <1>1 DEF IInv, BoundsInv, Idle
<1>4. ListenerReady' /\ ChecksAsTyped' /\ CredentialsAsTyped'
  BY <1>3, NothingStarted, PTL
<1>5. /\ Len(Parsed) = Len(groups) + 1 /\ Len(groups) \in Nat
      /\ DOMAIN Parsed = 1 .. Len(Parsed)
      /\ Parsed = [g \in 1 .. Len(Parsed) |-> Parsed[g]]
      /\ \A g \in 1 .. Len(Parsed) : GroupOK(Parsed[g])
  BY ParsedFacts DEF IInv
<1>6. /\ phase' \in {"refused", "usage", "running"}
      /\ phase' = "running" =>
           \A g \in 1 .. Len(Parsed) : Parsed[g].cfg.mode \notin {"error", "help", "version"}
  <2>1. Len(Parsed) \in Nat /\ Len(Parsed) > 0
    BY <1>5
  <2>2. /\ Decision(Parsed) \in {"refused", "usage", "running"}
        /\ Decision(Parsed) = "running" =>
             \A g \in DOMAIN Parsed : Parsed[g].cfg.mode \notin {"error", "help", "version"}
    BY <2>1, DecisionMeans
  <2> QED BY <1>1, <1>5, <2>2
<1>7. phase' = "running" => \A g \in 1 .. Len(Parsed) :
                               Parsed[g].cfg.mode \in {"forward", "proxy", "socks"}
  BY <1>5, <1>6 DEF GroupOK, ProxyModes
<1>8. GroupsInv'
  BY <1>1, <1>5, <1>6, <1>7, BoundsAssumption DEF IInv, GroupsInv
<1>9. BoundsInv'
  BY <1>1, <1>3, <1>6 DEF IInv, BoundsInv, Idle
<1> QED BY <1>2, <1>4, <1>8, <1>9 DEF IInv

-----------------------------------------------------------------------------
(* What a half is started with.                                            *)

LEMMA EmptyIsNot0 == Empty # "0"
BY Zenon DEF Empty

\* From the tokens typed to the fields read.
LEMMA TypedMeans ==
    ASSUME NEW g, NEW S, groups[g].args \in Seq(S), NEW v, Reads(groups[g].args, v),
           NEW b \in Blocks, NEW s \in Allowed[b]
    PROVE  /\ s # "verify" => Typed(g, b, s) = v[b][s]
           /\ s = "verify" => (v[b][s] = "0" <=> Typed(g, b, s) = "0")
<1> DEFINE a == groups[g].args
           is == Given(a, b, s)
<1>1. CASE is = {}
  <2>1. Typed(g, b, s) = Empty
    BY <1>1 DEF Typed
  <2>2. v[b][s] = Default(s)
    BY <1>1 DEF Reads
  <2> QED BY <2>1, <2>2, EmptyIsNot0 DEF Default
<1>2. CASE is # {}
  <2>1. PICK l \in is : (\A k \in is : k <= l) /\ v[b][s] = Written(s, a[l].val)
    BY <1>2 DEF Reads
  <2>2. is \subseteq 1 .. Len(a) /\ Len(a) \in Nat
    BY GivenAppend, LeadingAppend, LenProperties DEF Given, Leading
  <2>3. Typed(g, b, s) = a[CHOOSE i \in is : \A k \in is : k <= i].val
    BY <1>2 DEF Typed
  <2> HIDE DEF a, is
  <2>4. l = CHOOSE i \in is : \A k \in is : k <= i
    <3>1. \A i \in is : (\A k \in is : k <= i) => i = l
      BY <2>1, <2>2
    <3> QED BY <2>1, <3>1
  <2>5. Typed(g, b, s) = a[l].val
    BY <2>3, <2>4
  <2> QED BY <2>1, <2>5 DEF Written
<1> QED BY <1>1, <1>2

LEMMA TypedSeen ==
    ASSUME NEW g, NEW S, groups[g].args \in Seq(S), NEW b \in Blocks, NEW s,
           Typed(g, b, s) # Empty
    PROVE  b \in Seen(groups[g].args)
<1>1. Given(groups[g].args, b, s) # {}
  BY DEF Typed
<1> QED BY <1>1, GivenSeen

\* -M signs: serverTLSConfig and serverDTLSConfig with a signing CA.
LEMMA ServerMITM ==
    ASSUME NEW cfg, NEW v, v = cfg.value["M"], v["signca"] # Empty,
           NEW s, s = ServerSide(cfg)
    PROVE  /\ s.block = "M" /\ s.files = {v["signca"]} \cup ({v["ca"]} \ {Empty})
           /\ s.hasKey /\ s.name = v["servername"] /\ s.ca = v["ca"] /\ s.auth = ClientAuth(v)
<1> DEFINE key == "M" = "M" \/ v["key"] # Empty \/ v["cert"] \in Embedded
           auth == ClientAuth(v)
<1>1. s = [block |-> "M", files |-> {v["signca"]} \cup ({v["ca"]} \ {Empty}),
           hasKey |-> key, name |-> v["servername"], ca |-> v["ca"], auth |-> auth]
  BY DEF ServerSide
<1>2. key
  OBVIOUS
<1> HIDE DEF key, auth
<1>3. s.hasKey = key
  BY <1>1
<1>4. s.hasKey
  BY <1>2, <1>3
<1> QED BY <1>1, <1>4 DEF auth

\* -Z: with a certificate.
LEMMA ServerCert ==
    ASSUME NEW cfg, NEW v, v = cfg.value["Z"], cfg.value["M"]["signca"] = Empty,
           NEW s, s = ServerSide(cfg)
    PROVE  /\ s.block = "Z"
           /\ s.files = {v["cert"], IF v["key"] = Empty THEN v["cert"] ELSE v["key"]}
                          \cup ({v["ca"]} \ {Empty})
           /\ (v["key"] # Empty \/ v["cert"] \in Embedded => s.hasKey)
           /\ s.ca = v["ca"] /\ s.auth = ClientAuth(v)
<1> DEFINE key == "Z" = "M" \/ v["key"] # Empty \/ v["cert"] \in Embedded
           auth == ClientAuth(v)
           files == {v["cert"], IF v["key"] = Empty THEN v["cert"] ELSE v["key"]}
                      \cup ({v["ca"]} \ {Empty})
<1>1. s = [block |-> "Z", files |-> files, hasKey |-> key, name |-> Empty, ca |-> v["ca"],
           auth |-> auth]
  BY DEF ServerSide
<1>2. v["key"] # Empty \/ v["cert"] \in Embedded => key
  OBVIOUS
<1> HIDE DEF key, auth, files
<1>3. s.hasKey = key
  BY <1>1
<1>4. v["key"] # Empty \/ v["cert"] \in Embedded => s.hasKey
  BY <1>2, <1>3
<1> QED BY <1>1, <1>4 DEF auth, files

\* -ca= asks for a client certificate, -verify=0 does not have it verified.
LEMMA ClientAuthMeans ==
    ASSUME NEW v, v["ca"] # Empty
    PROVE  /\ ClientAuth(v) # "none"
           /\ v["verify"] # "0" => ClientAuth(v) = "verified"
<1>1. ClientAuth(v) = IF v["verify"] = "0" THEN "any" ELSE "verified"
  BY Zenon DEF ClientAuth
<1> QED BY <1>1

\* A group that runs: its tokens are what its Config was read from.
LEMMA RelayTyped ==
    ASSUME NEW g, GroupOK(groups[g]), groups[g].cfg.mode = "forward"
    PROVE  /\ groups[g].args \in Seq(Tokens)
           /\ RelayReady(groups[g].args, groups[g].cfg)
           /\ \A b \in Blocks : \A s \in Allowed[b] :
                /\ s # "verify" => Typed(g, b, s) = groups[g].cfg.value[b][s]
                /\ s = "verify" => (groups[g].cfg.value[b][s] = "0" <=> Typed(g, b, s) = "0")
<1>1. groups[g].args \in Seq(Tokens) /\ RelayReady(groups[g].args, groups[g].cfg)
  BY DEF GroupOK, ProxyModes
<1>2. Reads(groups[g].args, groups[g].cfg.value)
  BY <1>1 DEF RelayReady
<1> QED BY <1>1, <1>2, TypedMeans

\* A TLS or DTLS half that cannot be started has a file that cannot be loaded.
LEMMA BrokenMeans ==
    ASSUME NEW g, GroupOK(groups[g]), groups[g].cfg.mode = "forward", groups[g].cfg.listenSSL,
           NEW h \in groups[g].cfg.halves, Broken(ServerSide(groups[g].cfg), h)
    PROVE  \E b \in Blocks, s \in SubOptions : Typed(g, b, s) \in Unusable
<1> DEFINE cfg == groups[g].cfg
           a == groups[g].args
           srv == ServerSide(cfg)
           m == cfg.value["M"]
           z == cfg.value["Z"]
<1>1. /\ a \in Seq(Tokens) /\ RelayReady(a, cfg)
      /\ \A b \in Blocks : \A s \in Allowed[b] : s # "verify" => Typed(g, b, s) = cfg.value[b][s]
  BY RelayTyped
<1>2. /\ Typed(g, "M", "signca") = m["signca"] /\ Typed(g, "M", "ca") = m["ca"]
      /\ Typed(g, "Z", "cert") = z["cert"] /\ Typed(g, "Z", "key") = z["key"]
      /\ Typed(g, "Z", "ca") = z["ca"]
  BY <1>1 DEF Blocks, Allowed
<1>3. \A x : x \in {"signca", "ca", "cert", "key"} => x \in SubOptions
  BY SubOptionNames
<1>4. "M" \in Blocks /\ "Z" \in Blocks
  BY DEF Blocks
<1>5. \/ srv.files \cap (Unusable \cup {Empty}) # {}
      \/ srv.block # "none" /\ ~srv.hasKey
      \/ srv.block = "M" /\ h = "udp" /\ srv.name = Empty
  BY DEF Broken
<1>6. CASE m["signca"] # Empty
  <2>1. /\ srv.block = "M" /\ srv.files = {m["signca"]} \cup ({m["ca"]} \ {Empty})
        /\ srv.hasKey /\ srv.name = m["servername"]
    BY <1>6, ServerMITM
  <2>2. "M" \in Seen(a)
    BY <1>1, <1>2, <1>4, <1>6, TypedSeen
  <2>3. h = "udp" => m["servername"] # Empty
    BY <1>1, <2>2 DEF RelayReady
  <2> HIDE DEF srv
  <2>4. PICK x \in srv.files : x \in Unusable \cup {Empty}
    BY <1>5, <2>1, <2>3
  <2>5. x \in Unusable /\ x \in {m["signca"], m["ca"]}
    BY <1>6, <2>1, <2>4
  <2> QED BY <1>2, <1>3, <1>4, <2>5
<1>7. CASE m["signca"] = Empty
  <2>1. z["cert"] # Empty /\ ValidKeyCert(z)
    BY <1>1, <1>7 DEF RelayReady
  <2>2. z["key"] # Empty \/ z["cert"] \in Embedded
    BY <2>1 DEF ValidKeyCert
  <2>3. /\ srv.block = "Z" /\ srv.hasKey
        /\ srv.files = {z["cert"], IF z["key"] = Empty THEN z["cert"] ELSE z["key"]}
                         \cup ({z["ca"]} \ {Empty})
    BY <1>7, <2>2, ServerCert
  <2> HIDE DEF srv
  <2>4. PICK x \in srv.files : x \in Unusable \cup {Empty}
    BY <1>5, <2>3
  <2>5. x \in Unusable /\ x \in {z["cert"], z["key"], z["ca"]}
    BY <2>1, <2>3, <2>4
  <2> QED BY <1>2, <1>3, <1>4, <2>5
<1> QED BY <1>6, <1>7

\* The parts of ChecksAsTyped and CredentialsAsTyped about one half.
Checked(x) ==
    /\ \A b \in {"Z", "M"} : Typed(x.group, b, "ca") # Empty =>
          /\ x.server.ca = Typed(x.group, b, "ca")
          /\ x.server.auth # "none"
          /\ Typed(x.group, b, "verify") # "0" => x.server.auth = "verified"
    /\ x.target.tls => /\ x.target.ca = Typed(x.group, "Q", "ca")
                       /\ x.target.verify = "0" <=> Typed(x.group, "Q", "verify") = "0"

Presented(x) ==
    LET cfg == groups[x.group].cfg
        user == Typed(x.group, "F", "user")
    IN  /\ cfg.addr.port >= 1 /\ cfg.addr.port <= 65535
        /\ IF cfg.mode = "forward" THEN user = Empty
           ELSE cfg.user = user /\ (user # Empty => cfg.chained)

\* The server's side of a half checks clients as asked for.
LEMMA ServerChecks ==
    ASSUME NEW g, GroupOK(groups[g]), groups[g].cfg.mode \in {"forward", "proxy", "socks"},
           NEW b \in {"Z", "M"}, Typed(g, b, "ca") # Empty,
           NEW srv, srv = IF groups[g].cfg.mode = "forward" /\ groups[g].cfg.listenSSL
                          THEN ServerSide(groups[g].cfg) ELSE Plain
    PROVE  /\ srv.ca = Typed(g, b, "ca")
           /\ srv.auth # "none"
           /\ Typed(g, b, "verify") # "0" => srv.auth = "verified"
<1> DEFINE cfg == groups[g].cfg
           a == groups[g].args
<1>1. a \in Seq(Tokens) /\ b \in Blocks
  BY DEF GroupOK, Blocks
<1>2. b \in Seen(a)
  BY <1>1, TypedSeen
<1>3. cfg.mode = "forward"
  <2>1. CASE cfg.mode \in {"proxy", "socks"}
    BY <1>2, <2>1 DEF GroupOK, ProxyReady
  <2> QED BY <2>1
<1>4. RelayReady(a, cfg) /\ cfg.listenSSL
  <2>1. RelayReady(a, cfg)
    BY <1>3, RelayTyped
  <2> QED BY <1>2, <2>1 DEF RelayReady
<1>5. srv = ServerSide(cfg)
  BY <1>3, <1>4
<1>6. /\ Typed(g, b, "ca") = cfg.value[b]["ca"]
      /\ cfg.value[b]["verify"] = "0" <=> Typed(g, b, "verify") = "0"
      /\ Typed(g, "M", "signca") = cfg.value["M"]["signca"]
      /\ Typed(g, "Z", "cert") = cfg.value["Z"]["cert"]
  BY <1>3, RelayTyped DEF Blocks, Allowed
<1>7. /\ cfg.value["M"]["signca"] # Empty => "M" \in Seen(a)
      /\ cfg.value["Z"]["cert"] # Empty => "Z" \in Seen(a)
  BY <1>1, <1>6, TypedSeen DEF Blocks
<1>8. srv.ca = cfg.value[b]["ca"] /\ srv.auth = ClientAuth(cfg.value[b])
  <2>1. CASE b = "M"
    <3>1. cfg.value["M"]["signca"] # Empty
      BY <1>2, <1>4, <1>7, <2>1 DEF RelayReady
    <3> QED BY <1>5, <2>1, <3>1, ServerMITM
  <2>2. CASE b = "Z"
    <3>1. cfg.value["M"]["signca"] = Empty
      BY <1>2, <1>4, <1>7, <2>2 DEF RelayReady
    <3> QED BY <1>5, <2>2, <3>1, ServerCert
  <2> QED BY <2>1, <2>2
<1> QED BY <1>6, <1>8, ClientAuthMeans

LEMMA Credentials ==
    ASSUME NEW x, GroupOK(groups[x.group]),
           groups[x.group].cfg.mode \in {"forward", "proxy", "socks"}
    PROVE  Presented(x)
<1> DEFINE g == x.group
           cfg == groups[g].cfg
           a == groups[g].args
           user == Typed(g, "F", "user")
<1>1. a \in Seq(Tokens)
  BY DEF GroupOK
<1>2. CASE cfg.mode = "forward"
  <2>1. RelayReady(a, cfg)
    BY <1>2, RelayTyped
  <2>2. user = Empty
    BY <2>1 DEF RelayReady, Typed
  <2> QED BY <1>2, <2>1, <2>2 DEF Presented, RelayReady, ValidPort
<1>3. CASE cfg.mode \in {"proxy", "socks"}
  <2>1. ProxyReady(a, cfg)
    BY <1>3 DEF GroupOK
  <2>2. cfg.user = user
    <3>1. CASE Given(a, "F", "user") = {}
      <4>1. user = Empty
        BY <3>1 DEF Typed
      <4> QED BY <2>1, <3>1, <4>1 DEF ProxyReady
    <3>2. CASE Given(a, "F", "user") # {}
      <4> DEFINE is == Given(a, "F", "user")
      <4>1. PICK l \in is : (\A k \in is : k <= l) /\ cfg.user = a[l].val
        BY <2>1, <3>2 DEF ProxyReady
      <4>2. is \subseteq 1 .. Len(a) /\ Len(a) \in Nat
        BY <1>1, GivenAppend, LeadingAppend, LenProperties DEF Given, Leading
      <4>3. user = a[CHOOSE i \in is : \A k \in is : k <= i].val
        BY <3>2 DEF Typed
      <4> HIDE DEF is
      <4>4. l = CHOOSE i \in is : \A k \in is : k <= i
        <5>1. \A i \in is : (\A k \in is : k <= i) => i = l
          BY <4>1, <4>2
        <5> QED BY <4>1, <5>1
      <4> QED BY <4>1, <4>3, <4>4
    <3> QED BY <3>1, <3>2
  <2>3. user # Empty => cfg.chained
    <3>1. user # Empty => "F" \in Seen(a)
      BY <1>1, TypedSeen DEF Blocks
    <3> QED BY <2>1, <3>1 DEF ProxyReady
  <2> QED BY <1>3, <2>1, <2>2, <2>3 DEF Presented, ProxyReady, ValidPort
<1> QED BY <1>2, <1>3

\* A half starts or fails to.
LEMMA StartStep ==
    ASSUME IInv, NEW g \in DOMAIN groups, NEW h \in {"tcp", "udp"}, Start(g, h)
    PROVE  IInv'
<1> DEFINE cfg == groups[g].cfg
           srv == IF cfg.mode = "forward" /\ cfg.listenSSL THEN ServerSide(cfg) ELSE Plain
           target == IF cfg.mode = "forward" THEN TargetSide(cfg, h)
                     ELSE [tls |-> FALSE, ca |-> Empty, verify |-> "1"]
           new == [group |-> g, half |-> h, server |-> srv, target |-> target]
<1>1. /\ phase = "running" /\ h \in cfg.halves
      /\ UNCHANGED <<args, scope, opts, rest, rejected, groups, phase>>
      /\ \/ Broken(srv, h) /\ failed' = failed \cup {<<g, h>>} /\ UNCHANGED halves
         \/ halves' = halves \cup {new} /\ UNCHANGED failed
  BY DEF Start
<1>2. g \in 1 .. Len(groups) /\ GroupOK(groups[g]) /\ cfg.mode \in {"forward", "proxy", "socks"}
  BY <1>1 DEF IInv, GroupsInv
<1>3. OptsShape' /\ ScanInv' /\ GroupsInv'
  BY <1>1 DEF IInv, OptsShape, ScanInv, GroupsInv
<1>4. BoundsInv'
  BY <1>1 DEF IInv, BoundsInv
<1>5. \A k, b, s : Typed(k, b, s)' = Typed(k, b, s)
  BY <1>1 DEF Typed
<1>6. ASSUME Broken(srv, h)
      PROVE  \E b \in Blocks, s \in SubOptions : Typed(g, b, s) \in Unusable
  <2>1. cfg.mode = "forward" /\ cfg.listenSSL
    <3>1. ~Broken(Plain, h)
      <4>1. Plain.files = {} /\ Plain.block = "none"
        BY DEF Plain
      <4> QED BY <4>1 DEF Broken
    <3> QED BY <1>6, <3>1
  <2>2. Broken(ServerSide(cfg), h)
    BY <1>6, <2>1
  <2> QED BY <1>1, <1>2, <2>1, <2>2, BrokenMeans
<1>7. Checked(new)
  <2>1. new.group = g /\ new.server = srv /\ new.target = target
    OBVIOUS
  <2>2. ASSUME NEW b \in {"Z", "M"}, Typed(g, b, "ca") # Empty
        PROVE  /\ srv.ca = Typed(g, b, "ca")
               /\ srv.auth # "none"
               /\ Typed(g, b, "verify") # "0" => srv.auth = "verified"
    BY <1>2, <2>2, ServerChecks
  <2>3. ASSUME target.tls
        PROVE  /\ target.ca = Typed(g, "Q", "ca")
               /\ target.verify = "0" <=> Typed(g, "Q", "verify") = "0"
    <3>1. cfg.mode = "forward"
      <4>1. CASE cfg.mode # "forward"
        <5>1. target.tls = FALSE
          BY <4>1, Zenon
        <5> QED BY <2>3, <5>1
      <4> QED BY <4>1
    <3>2. target.ca = cfg.value["Q"]["ca"] /\ target.verify = cfg.value["Q"]["verify"]
      BY <3>1 DEF TargetSide
    <3>3. "Q" \in Blocks /\ "ca" \in Allowed["Q"] /\ "verify" \in Allowed["Q"]
      BY DEF Blocks, Allowed
    <3> QED BY <1>2, <3>1, <3>2, <3>3, RelayTyped
  <2> HIDE DEF new, srv, target
  <2> QED BY <2>1, <2>2, <2>3 DEF Checked
<1>8. Presented(new)
  BY <1>2, Credentials
<1> HIDE DEF new, srv, target
<1>9. ListenerReady'
  <2>1. ASSUME NEW f \in failed'
        PROVE  \E b \in Blocks, s \in SubOptions : Typed(f[1], b, s) \in Unusable
    <3>1. CASE f \in failed
      BY <3>1 DEF IInv, ListenerReady
    <3>2. CASE f = <<g, h>> /\ Broken(srv, h)
      <4>1. f[1] = g
        BY <3>2
      <4> QED BY <1>6, <3>2, <4>1
    <3> QED BY <1>1, <3>1, <3>2
  <2> QED BY <1>5, <2>1 DEF ListenerReady
<1>10. \A x \in halves' : Checked(x) /\ Presented(x)
  <2>1. \A x \in halves : Checked(x) /\ Presented(x)
    BY DEF IInv, ChecksAsTyped, CredentialsAsTyped, Checked, Presented
  <2> QED BY <1>1, <1>7, <1>8, <2>1
<1>11. ChecksAsTyped'
  BY <1>5, <1>10 DEF ChecksAsTyped, Checked
<1>12. CredentialsAsTyped'
  BY <1>1, <1>5, <1>10 DEF CredentialsAsTyped, Presented
<1> QED BY <1>3, <1>4, <1>9, <1>11, <1>12 DEF IInv

LEMMA InvStep == IInv /\ [Next]_vars => IInv'
<1> SUFFICES ASSUME IInv, [Next]_vars PROVE IInv'
  OBVIOUS
<1>1. CASE \/ \E t \in Options : ReadGlobal(t)
           \/ \E t \in Options, b \in Blocks : OpenBlock(t, b)
           \/ \E t \in Options, s \in SubOptions : ReadSubOption(t, s)
           \/ \E t \in After : ReadPositional(t)
  BY <1>1, ReadStep
<1>2. CASE Separator
  BY <1>2, SeparatorStep
<1>3. CASE End
  BY <1>3, EndStep
<1>4. ASSUME NEW g \in DOMAIN groups, NEW h \in {"tcp", "udp"}, Start(g, h) PROVE IInv'
  BY <1>4, StartStep
<1>5. CASE UNCHANGED vars
  <2>1. UNCHANGED <<args, scope, opts, rest, rejected, groups, phase, halves, failed>>
    BY <1>5 DEF vars
  <2>2. OptsShape' /\ ScanInv' /\ GroupsInv' /\ BoundsInv'
    BY <2>1 DEF IInv, OptsShape, ScanInv, GroupsInv, BoundsInv
  <2>3. ListenerReady' /\ ChecksAsTyped' /\ CredentialsAsTyped'
    BY <2>1, StartedKept DEF IInv
  <2> QED BY <2>2, <2>3 DEF IInv
<1> QED BY <1>1, <1>2, <1>3, <1>4, <1>5 DEF Next, After

LEMMA Invariance == Spec => []IInv
BY InvInit, InvStep, PTL DEF Spec

-----------------------------------------------------------------------------
(* The results.                                                            *)

\* Every variable keeps its type, the open block is one that was typed, and
\* nothing listens before ParseAll has decided.
THEOREM TypeCorrect == Spec => []TypeOK
<1>1. IInv => TypeOK
  <2> SUFFICES ASSUME IInv PROVE TypeOK
    OBVIOUS
  <2>1. {rejected, opts.help, opts.version, opts.verbose} \subseteq BOOLEAN
    BY DEF IInv, OptsShape
  <2> QED BY <2>1 DEF IInv, OptsShape, ScanInv, GroupsInv, BoundsInv, TypeOK
<1> QED BY <1>1, Invariance, PTL

\* extractOptions reads any command line, of any length, as its declarative
\* reading says: the last block before a sub-option is the one it belongs to, its
\* last value counts, and exactly the wrong command lines are rejected.
THEOREM ScanAgreesHolds == Spec => []ScanAgrees
<1>1. IInv => ScanAgrees
  <2> SUFFICES ASSUME IInv PROVE ScanAgrees
    OBVIOUS
  <2>1. ScanInv /\ args \in Seq(Tokens)
    BY DEF IInv, ScanInv
  <2>2. rejected <=> \E i \in Leading(args) : Wrong(args, i)
    BY <2>1 DEF ScanInv
  <2>3. ~rejected => opts.seen = {b \in Blocks : \E i \in Leading(args) : args[i].opt = b}
    BY <2>1 DEF ScanInv, Seen
  <2>4. ASSUME ~rejected, NEW b \in Blocks, NEW s \in SubOptions, s \in Allowed[b]
        PROVE  LET is == Given(args, b, s)
                   last == CHOOSE i \in is : \A k \in is : k <= i
               IN  IF is = {} THEN opts.value[b][s] = NoOptions.value[b][s]
                   ELSE opts.value[b][s] =
                          IF s = "verify" /\ args[last].val # "0" THEN "1" ELSE args[last].val
    <3> DEFINE is == Given(args, b, s)
               last == CHOOSE i \in is : \A k \in is : k <= i
    <3>1. \/ is = {} /\ opts.value[b][s] = Default(s)
          \/ \E l \in is : /\ \A k \in is : k <= l
                           /\ opts.value[b][s] = Written(s, args[l].val)
      BY <2>1, <2>4 DEF ScanInv, Reads
    <3>2. NoOptions.value[b][s] = Default(s)
      BY <2>4, NoOptionsShape
    <3>3. is \subseteq 1 .. Len(args) /\ Len(args) \in Nat
      BY <2>1, GivenAppend, LeadingAppend, LenProperties DEF Given, Leading
    <3>4. CASE is = {}
      BY <3>1, <3>2, <3>4
    <3>5. CASE is # {}
      <4>1. PICK l \in is : (\A k \in is : k <= l) /\ opts.value[b][s] = Written(s, args[l].val)
        BY <3>1, <3>5
      <4>2. last = l
        <5> HIDE DEF is
        <5>1. \A i \in is : (\A k \in is : k <= i) => i = l
          BY <3>3, <4>1
        <5> QED BY <4>1, <5>1
      <4> HIDE DEF last
      <4>3. opts.value[b][s] = IF s = "verify" /\ args[last].val # "0" THEN "1" ELSE args[last].val
        BY <4>1, <4>2 DEF Written
      <4> QED BY <3>5, <4>3 DEF last
    <3> QED BY <3>4, <3>5
  <2> QED BY <2>2, <2>3, <2>4 DEF ScanAgrees
<1> QED BY <1>1, Invariance, PTL

\* Whatever the tokens and the files, a half of an accepted command fails to start
\* only because one of the files typed cannot be loaded.
THEOREM ListenerReadyHolds == Spec => []ListenerReady
<1>1. IInv => ListenerReady
  BY DEF IInv
<1> QED BY <1>1, Invariance, PTL

\* serverTLSConfig, serverDTLSConfig and ClientConfig check the certificates the
\* command line asks to be checked.
THEOREM ChecksAsTypedHolds == Spec => []ChecksAsTyped
<1>1. IInv => ChecksAsTyped
  BY DEF IInv
<1> QED BY <1>1, Invariance, PTL

\* ParseAll starts every group or none.
THEOREM AllOrNothingHolds == Spec => []AllOrNothing
<1>1. IInv => AllOrNothing
  BY DEF IInv, GroupsInv, BoundsInv, AllOrNothing
<1> QED BY <1>1, Invariance, PTL

\* -F's credentials reach the upstream proxy's Config as typed, and no other.
THEOREM CredentialsAsTypedHolds == Spec => []CredentialsAsTyped
<1>1. IInv => CredentialsAsTyped
  BY DEF IInv
<1> QED BY <1>1, Invariance, PTL
=============================================================================
