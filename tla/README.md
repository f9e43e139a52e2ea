# TLA+ models of gopr

gopr (`src/`) relays TCP and UDP traffic between a `listen` address and a
`target`, adds or removes TLS/DTLS on either side, and serves as an HTTP or
SOCKS5 proxy, possibly chained to an upstream proxy. This directory holds TLA+
models of its concurrent and protocol parts, TLC configurations that check them
on small instances, and TLAPS proofs of the main safety properties for instances
of any size. `PROJECT.json` maps every definition to the lines it models.

## Inventory

| Part (source) | State | Operations | Interacts with | Hard behaviour | What makes it correct |
|---|---|---|---|---|---|
| Process and groups (`cmd/gopr/main.go`, `relay.Run`) | a context, a WaitGroup and error channel per level | start a goroutine per group and per listener, `select` over error/done/context, join errors, exit | every listener through `ctx`, `errCh`, `done` | several channels ready at once, one half failing, shutdown in any state | a signal ends the process; failures make `Run` return and are reported; no goroutine hangs on a channel |
| Listener loops (`serveTCP`, `serveUDPDTLS`, `RunSOCKS`, `RunHTTP`) | a listening socket | bind, accept, return nil or an error, close on cancellation | `Run`; one goroutine per connection | accept error versus shutdown | cancellation alone is no error |
| Plaintext UDP relay (`relay/udp.go`) | session map, `mu`, per session a socket, `last`, a replier goroutine; a reaper with a ticker | receive, look up or dial, forward, relay replies, reap, shut down | three kinds of goroutine share the map | stale time stamps, late repliers, dial under the lock, two-step teardown | no lost sockets, no closed socket in the map, reaping only what is idle, and all that is |
| TCP/TLS/DTLS relay (`relay/tcp.go`, `handleUDPDTLSConn`) | two connections, two copying goroutines | dial, copy each way, half-close, close both | peers | ends of stream in either order, resets, TLS handshake inside the first Read/Write | no truncated stream, ends are passed on, the handler ends |
| SOCKS5 proxy (`proxy/socks.go`) | client connection with a deadline, upstream connection with another | greeting, request, dial (direct, SOCKS, HTTP), reply, pipe | client, target or upstream | silent peers, timeouts adding up, many error returns | nothing leaks, every request is answered in time, the tunnel starts clean |
| HTTP proxy, CONNECT (`proxy/http.go`) | hijacked connection, upstream connection(s) | dial, Digest retry, 200, pipe | same | retry on a second connection, read-ahead | same, and one retry at most |
| HTTP proxy, plain requests (`proxy/http.go`) | transport, buffered body, response bodies | choose a transport, forward, Digest retry, copy the response | net/http, next hop | replay of the request body, a next hop that breaks off or says nothing, a client that leaves | the body sent twice is the same, every response body is closed, a Digest challenge is answered, credentials reach the upstream only |
| Digest authentication (`proxy/digest.go`) | none | choose and parse a challenge, build a response | the two above | four combinations of qop and MD5-sess, several challenges | the upstream's own computation agrees |
| TLS/DTLS configuration (`tlsutil/`, `relay.go`) | `MITMSigner`'s certificate cache and lock | load files, mint and cache leaf certificates, build server and client configurations | TLS handshakes of all connections | concurrent misses, failures under the lock | one certificate per name and signer, for the right name, nobody left waiting |
| Command line (`config/`) | options collected so far, open block | read tokens, parse groups and endpoints, validate | `main`, the listeners | option scopes, checks made by one part for another | nothing typed is lost; what starts has what it needs; all groups or none |
| Logging and copying (`logx/`) | a lock around the dump | `Copy`, levels | every connection | Read returning data with an error | `Copy` equals `io.Copy` |

## Modules

| Module | Models | State and actions |
|---|---|---|
| `UDPRelay` | `serveUDP` (plaintext), `relayUDPReplies`, `reapUDPSessions` | `pc`, `client`, `sess`, `ret` are the receive loop's control and locals; `sessions` is the map; `owner`, `conn`, `reader`, `idle` describe each session's client address, socket, replier and `time.Now() - last`; `phase`, `tick`, `reaper` the ticker, its one-slot channel and its reader. One action per step between two points where another goroutine can intervene. |
| `Pipe` | `pipeConn`, `pipeSOCKS`, the pipe of `handleConnect`, `logx.Copy` | per direction: chunks `produced` and `delivered`, how the peer `ended`, control state, held error and result of the copy, outcome of the half-close; `kind` selects which ends can half-close |
| `Establish` | `handleSOCKSConn`, `handleConnect`, `handleTCPConn`, `handleUDPDTLSConn` up to the pipe; `socksHandshake`, `socksReadRequest`, `dialUpstreamSOCKS`, `dialUpstreamConnect`, `connectAttempt` | `pc` is the statement the handler is at; connections, deadlines, attempts, credentials, elapsed time, what the client was told |
| `Gopr` | `main.run`, `runOne`, `relay.Run`, the listener loops | per group and listener: goroutine, socket; per group: `errCh`, `done`, `Run`'s position |
| `FlowTable` | what `serveUDP`'s session table promises | abstract: a flow per client, a socket per flow; create, retire, close |
| `Digest` | `digest.go` | no state: operators for choosing a challenge, `HA1`, `HA2` and the response, with MD5 as a symbolic (injective) function, and the upstream's check |
| `Forward` | `handleForward`, `upstreamAuthTransport.RoundTrip`, the transports of `RunHTTP` | control state of the handler, the attempt, the requests sent (who received them, target, credentials, body), the response, the bodies open, what the client was told and sent |
| `MITMSigner` | `CertificateFor`, `MITMServerConfig`, `MITMServerConfigDTLS` | per half: the lock and the cache of its signer; per handshake: name, position in the call, certificate shown; per certificate: the name it was minted for |
| `CommandLine` | `extractOptions`, `Parse`, `validateSSL`, `ParseAll`, and what `serveTCP`, `serveUDP`, `serveUDPDTLS` build from a `Config` | tokens read, open block, options, positionals, groups parsed; at the end the halves that listen, with what, and those that could not |
| `UDPRelayProofs`, `PipeProofs`, `EstablishProofs`, `GoprProofs`, `ForwardProofs`, `MITMSignerProofs`, `CommandLineProofs` | – | TLAPS proofs |
| `MCUDPRelay`, `MCEstablish`, `MCGopr`, `MCForward`, `MCMITMSigner`, `MCCommandLine` | – | constants and symmetry sets for TLC (`Pipe` needs none) |

The modules meet at their edges: `CommandLine` ends where `Gopr` begins, with
every group accepted; `Gopr`'s serving listener is what `UDPRelay` details for UDP
and what starts an `Establish` per TCP, DTLS, SOCKS or CONNECT connection and a
`Forward` per plain request; `Establish`'s state `"tunnel"` is where `Pipe`
begins. `Forward` extends `Digest`. `UDPRelay` instantiates `FlowTable`: a flow is
a map entry, and a session's socket is `"none"` until its dial has returned.

Definitions named `X_Something` next to `X` are mutants: `X` with a plausible
mistake in it. They are used by nothing; exchanging `X` for one of them makes
TLC report the property that `PROJECT.json` names with it.

### Abstractions

* A critical section of `mu` that does not block is one step. The one that may
  block, `net.Dial` with `mu` held, is a control state during which no other
  critical section runs (`MuFree`).
* Times are ages, cut off one above the timeout (`UDPRelay`), or counted in units
  of ten seconds (`Establish`: the client's 30 s, the dials' 10 s, the SOCKS
  upstream's 10 s). `quiet` (`UDPRelay`), `reqAge` (`Establish`) and `failed`
  (`Gopr`) are history variables: they record what happened for the properties
  and no action reads them.
* Command-line tokens are records. Splitting a token at its `=` and slashes, and
  the wording of errors, are left out; an address keeps whether it has a colon,
  whether `net.SplitHostPort` accepts it, its host and its port.
* A file is a name; whether a certificate file has a key in it, and whether a file
  can be loaded, are the constants `Embedded` and `Unusable`.
* Payloads are not modelled: datagrams are events, streams are counted chunks.
  Byte counters and log output, which nothing reads back, are left out.
* `net`, `crypto/tls`, `net/http` and pion are modelled from how the code uses
  them: a read may block, return data, end or fail; `http.Server` returns
  `ErrServerClosed` once `Shutdown` was called; `tls.Conn` refuses `CloseWrite`
  before its handshake; a `select` already blocked is decided by the first
  channel that becomes ready, one that finds several ready picks any.

## Runs

| Run | Instance | Shows |
|---|---|---|
| `udp_safety` | 2 clients, 2 sessions, timeout of 2 units, symmetric | session map, sockets and ages stay consistent (`MappedIsOpen`, `NoLeak`, `ReapOnlyQuiet`), and the relay implements `FlowTable` (`ImplementsTable`) |
| `udp_live` | 2 clients, 1 session (the other client's dials fail) | `IdleReaped`, `RepliersEnd`, `CancelStops`, and `RetiredCloses`: the fairness `FlowTable` promises |
| `udp_replier` | 1 client, 1 session | **violated**: a replier whose write fails leaves its session open and unread |
| `pipe` | all kinds, 2 chunks per direction | `EOFOnlyAtEnd`, `NilMeansComplete`, `EndPropagates`, `HandlerEnds` |
| `establish` | all routes, with and without credentials, ports 80 and 65616 | `NoConnLeak`, `TunnelReady`, `BudgetFits`, `OnlyForward`, `HandshakeEnds` |
| `process` | a TCP+UDP relay next to a SOCKS or HTTP proxy | `CancelIsClean`, `NilMeansStopped`, `CancelExits`, `FailureReturns`, `SendersFinish` |
| `process_fatal` | one TCP relay | **violated**: `Run` may return nil after a failure |
| `forward` | all transports, with and without `HTTP_PROXY`, four forms of URI, bodies of up to 2 parts, 23 lists of challenges | `NoBodyLeak`, `BodyReplayed`, `ChallengeAnswered`, `DigestVerifies`, `LengthKept`, `GoneEnds` |
| `forward_https` | an upstream proxy with credentials | **violated**: the credentials reach the destination of an `https://` request |
| `signer` | 3 handshakes, 2 names; a TLS relay that follows the SNI, a DTLS relay and one with both halves, these with `-servername=` | `OneLeafPerSigner`, `RightName`, `HandshakeAnswered` |
| `cli` | one group of up to 6 tokens out of 21, or two of up to 2 | `ScanAgrees`, `ListenerReady`, `ChecksAsTyped`, `AllOrNothing`, `CredentialsAsTyped` |
| `cli_target` | a relay with a TLS target and a plaintext UDP listener | **violated**: its UDP half does not speak DTLS to the target |

Bounds. Two sessions let a session be replaced while goroutines of its
predecessor still run, which is what the identity check in `relayUDPReplies` is
for; two clients let a second client hold `mu` in a dial meanwhile. A reaping
period of one unit keeps the ticker's two-to-one ratio to the timeout. Two chunks
(`MaxChunks`), and two parts of a body (`MaxBody`, `MaxLen`), give a stream a last
part that is not its first. Two groups are what makes a returned `Run` differ from
an exited process; that they are a relay with both halves and a proxy gives each
kind of listener its place, and the proofs cover every other command line.
`Sessions` bounds the dials (a run that has used them all sees further dials
fail); `Leaves` is never exhausted in `signer`, where two certificates are the most
that can be minted. Three handshakes let two of them wait for `mu`
while a third generates. The four URIs (`Forward`) are one without a host, `http` with
and without a path, and `https`. A `200` to a CONNECT declares no content or one byte of
it (`ContentLengths`). Six tokens (`MaxArgs`) hold a block
with two sub-options, a second block or a global option between, and both
positionals (`MaxRest` = 2, one more than a proxy or equal to what a relay takes);
two groups (`MaxGroups`) of two tokens each (`MaxShort`) hold a valid group next to
a valid, invalid or `-help` one. Connections do not interact before the process
ends, except through the signer, so `Pipe`, `Establish` and `Forward` follow one.

The type invariants of `Pipe`, `Establish`, `Gopr` and `MITMSigner` are proved and
not repeated in the runs; those of `UDPRelay` (proved too), `Forward` and
`CommandLine` are checked there.

Deadlock is not reported in the passing runs: all these systems may stop
(the process exits, a handler returns, a relay whose sockets are closed is at
rest, a command line has been read).

Fairness. A goroutine that can run does run (weak fairness of its steps). Lock
requests get strong fairness (in `UDPRelay` and `MITMSigner`): others take `mu` in
between, but Go's mutex hands itself to a waiter that has starved for a
millisecond. Generating a key ends, with or without one. A `net.Dial` and a write
return; a write in `Pipe` is to a peer that keeps reading. A blocked read is only
assumed to return when its socket is closed or its peer ended, or at its
deadline, or, in `Forward`, when the request's context is cancelled because the
client is gone. Time passes. No peer is assumed to send, answer, or leave; no signal
and no failure is assumed to come.

What the properties leave out on purpose: `HandshakeEnds` allows a handler to wait
for ever in two places, for the response of an HTTP upstream, which is read
without a deadline, and in a relay's dial, which has no timeout; `TunnelReady`
speaks of ports that are port numbers, and of the first byte of a tunnel only where
the reply before it is not an HTTP upstream's; `EOFOnlyAtEnd` lets a DTLS relay end on a
datagram that could not be written to a living peer; `EndPropagates` excludes pipes that cannot
half-close and half-closes refused before a TLS handshake; `LengthKept` speaks of
responses with a declared length; `DigestVerifies` of the first Digest challenge,
the only one the code looks at, and of URIs with a path; `OneLeafPerSigner` of a signer, of which a relay
with two halves has two; `ReapOnlyQuiet` excepts a datagram received and not yet
recorded in `last`, a window the code has twice (before `mu.Lock` in the receive
loop and in the replier).

## Proofs

`UDPRelayProofs` proves, for every set of clients and sessions and every reaping
period (assumptions: `ReapPeriod` is a positive natural number; `NoClient` and
`NoSession` are no client and no session), `TypeOK`, `MappedIsOpen`, `NoLeak`
and `ReapOnlyQuiet`. The inductive invariant `IInv` adds to the first
three:

* `SessionShape`: an unused session has no replier, a used one has an owner; a
  replier past its critical section is out of the map, one that returned after it
  has closed the socket. Without it, `ReplyClose` could close a mapped socket.
* `DialExclusive`: the client being dialled for has no session; `mu` held across
  the dial is what keeps it true, and `DialOk` would otherwise orphan one.
* `AgesAgree`: the recorded age of a mapped session is at most its true age,
  unless a datagram is about to be recorded. `ReapOnlyQuiet` follows from it.

`PipeProofs` proves, for every subset of the kinds and streams of any length,
`TypeOK`, `EOFOnlyAtEnd` and `NilMeansComplete`. Its invariant says why each copy
ended (`CopyOutcome`: success only on a complete stream, a read error only on a
broken source, a write error only on a broken destination or a datagram), what it holds while
it writes (`HeldChunk`), and that only a goroutine past its copy signals an end
(`EndSignalled`). `Terminates` adds that every step lowers `Rank`, so that a pipe
with `n` chunks from each side takes at most `6n + 12` steps: it cannot spin.

`TableImplemented` proves that every behaviour of `UDPRelay` is one of `FlowTable`
under the mapping of the module `UDPRelay`: `DialOk` is a `Create`, for which
`DialExclusive` gives that the client has no flow; `Reap` retires a set of flows
and closes their sockets; `ReplyUnmap` retires one and leaves its socket to
`ReplyClose`, for which `SessionShape` gives that nobody has it in the map; all
other steps change neither map nor sockets.

`EstablishProofs` proves `TypeOK`, `NoConnLeak`, `TunnelReady`, `BudgetFits` and
`OnlyForward` for any set of routes and of ports (assumptions: ports are
natural numbers, `NoPort` is not). The invariant says what is true at each point of
the handler: which protocol it speaks (`RouteShape`), which connection is open
(`ConnShape`; an error return is sound because exactly the current one is), which
deadline is set (`DeadlineShape`), which port was asked for (`PortShape`), who owns
the client's connection (`ClientShape`), and how much of the 30 s is gone
(`TimeShape`: at most ten in the dial, ten more in the upstream's handshake).
`WaitsTimed` adds that no read from a client or a SOCKS upstream is without its
deadline. `OnlyForward`, that a handler never returns to an earlier statement but
for one Digest retry, needs `ConnShape`: a second attempt is one at an HTTP upstream.

`GoprProofs` proves `TypeOK`, `CancelIsClean` and `NilMeansStopped` for any number
of groups and any command line. The invariant: only planned listeners exist
(`PlanShape`), `done` is closed after the last listener has ended (`DoneShape`), a
socket found closed in Accept means a cancellation (`ClosedShape`), and an error is
traced from the listener through `errCh` to `Run` (`ErrShape`). `SenderFree` adds
that a relay's listener with an error always finds `Run` in its select or room in
`errCh`, because every buffered error is that of a listener past its send
(`ErrCount`), and a relay has two.

`ForwardProofs` proves `NoBodyLeak`, `BodyReplayed`, `ChallengeAnswered` and
`DigestVerifies` for any challenges and any sizes of bodies, and `DigestRoundTrip`:
for every answerable challenge, user, password, method and URI the upstream's check
accepts the header built. The invariant relates the requests sent to the control
state (`SentShape`), says that the body is complete before the first attempt
(`BufferFull`), that only the last response is open (`OpenShape`), and that a retry
answers the challenge at hand and goes where the first attempt went (`RetryShape`).
`PassedShape` adds what a 407 on its way to the client has behind it.

It also proves `TypeOK` and `LengthKept`, from a second invariant `AInv`, about the
answer (`AnswerShape`): nothing is said to the client before the headers, and once
something is said, either it is the next hop's status, with the length the next hop
declared, or it is one of `http.Error`'s, 400 and 502, which the next hop's response
never has. `Terminates` bounds the steps of a request: 12, and one for each part of
the two bodies, whatever the next hop answers and whenever the client leaves.

`MITMSignerProofs` proves `TypeOK`, `OneLeafPerSigner` and `RightName` for any
number of connections, names and certificates. What carries it is `LockHeld`:
whoever generates holds `mu`, is alone in its signer, and the name it generates for
is still missing from the cache; `CacheSound`, `CallShape` and `Presented` relate
cache, calls and certificates shown. `LockOwned` is the converse: a locked `mu` is
held by a call that is generating, so that no return of `CertificateFor` leaves it
locked behind it.

`CommandLineProofs` proves `TypeOK`, `ScanAgrees`, `ListenerReady`, `ChecksAsTyped`,
`AllOrNothing` and `CredentialsAsTyped` for any tokens and files and command lines of
any length (assumptions: the bounds are natural numbers and allow one group; what
follows a positional argument is a list of words). The statements are about lists of
tokens, and induction over them is out of the prover's reach; it is the scan that
does it instead. The operators that read a whole list (`Governs`, `Leading`, `Given`,
`Wrong`) each have a lemma on what one more token changes, and the invariant says
that the scan has kept up:

* `ScanInv`: the open block is the one that would govern the next token, what was
  collected is what the tokens read so far say, and the scan has rejected exactly if
  one of them is wrong. `ScanAgrees` is part of it.
* `GroupsInv`: every group was accepted from its own tokens, and what its `Config`
  promises (`RelayReady`, `ProxyReady`) is what `Parse` and `validateSSL` checked:
  a certificate or a signing CA for each TLS half, a name for a generated DTLS
  certificate, a port that exists, credentials only with an upstream.
* `OptsShape` and `BoundsInv`: types and the sizes of the lists.

`Start` then finds in the `Config` what each half needs, and `TypedMeans` leads from
there back to the words typed.

Only model-checked are the liveness properties, as fairness and `ENABLED` are out of
the prover's reach: `IdleReaped`, `RepliersEnd`, `CancelStops` and `RetiredCloses`
(`UDPRelay`), `EndPropagates` and `HandlerEnds` (`Pipe`), `HandshakeEnds`
(`Establish`), `CancelExits`, `FailureReturns` and `SendersFinish` (`Gopr`),
`GoneEnds` (`Forward`), `HandshakeAnswered` (`MITMSigner`). `SenderFree`, `LockOwned`,
`WaitsTimed`, `OnlyForward` and the two `Terminates` are their safety halves: nobody
waits for a thing that cannot come, and nothing goes on for ever. Every invariant and
every action property of the passing runs is proved.

## Findings

With a run each:

1. `udp.go:143`: a replier whose `WriteToUDP` fails returns without closing or
   unmapping its session, against the comment on `relayUDPReplies`.
2. `relay.go:53`: `select` may prefer `done` to a pending error, and the process ends
   with status 0.
3. `http.go:260`: with `-F`, a plain request for an `https://` URI has its
   `Proxy-Authorization` header carried through the upstream's tunnel to the destination,
   while the CONNECT that opens the tunnel has none; against "presented to the upstream
   proxy" (`src/README.md` line 338) and the comment on `upstreamAuthTransport`.
4. `udp.go:85`: a plaintext UDP half ignores `<target>/ssl`, against "`/ssl` secures
   whichever of TCP/UDP are active" (`src/README.md` line 188).

Met while modelling, visible in the actions named, and not kept as runs:

* `http.go:366` (`Pipe`, `SOCKSHalfCloses`): `bufferedConn` hides `CloseWrite`, so HTTP
  and SOCKS backends do not behave identically behind a SOCKS frontend (`src/README.md` line
  420).
* `http.go:351` (`Establish`, `TimedOut`): nor do they when they are silent: only the
  SOCKS one is given up, after 10 s.
* `http.go:356` (`Establish`, `ConnectOk`): closing the body of a `200` that declares a
  Content-Length, which RFC 9110 forbids, reads that many bytes out of the tunnel.
* `http.go:272` (`Forward`, `Digested`): the uri hashed is the client's, and net/http
  writes the request line: for `http://host` the first has no path and the second has one.
* `logx.go:145` (`Pipe`, `WriteError`): a datagram a DTLS relay cannot write, one that is
  too large for instance, ends that direction of the relay.
* `tlsutil.go:146` (`MITMSigner`, `Hit`): a cached certificate is presented whatever its
  age. `src/README.md` says both that it is "valid for 46 days" and that certificates are
  cached "for the life of the process" (lines 228-229), so this is as documented.
* `socks.go:334` (`Establish`, `SendRequest`): the port of a CONNECT is cut to 16 bits
  for a SOCKS upstream; 65616 becomes 80.
* `relay.go:55` with `main.go:67` (`Gopr`, `SendErr`, `Exit`): a failed group goes on
  serving with its other half, unreported, while another group runs (`src/README.md` line
  158).
* `http.go:225` (`Forward`, `CopyEnd`, `Return`): a response without a declared length
  that breaks off is ended properly, and looks complete to the client.
* `digest.go:26` (`Digest`, `FirstDigest`): only the first Digest challenge is looked
  at; SHA-256 before MD5 gets a 502 (`src/README.md` line 442).
* `http.go:55` (`Forward`, `Hop`): without an upstream, plain requests go to the proxy
  of `HTTP_PROXY` if it is set; CONNECT requests do not.
* `relay.go:105` (`MITMSigner`, `Init`): the two halves of a relay have a signer each,
  and mint a certificate each for one name.
* `parse.go:758` (`CommandLine`, `MITMValid`): `-M` with `/udp/ssl` is accepted when
  `-servername=` is given; `src/README.md` line 191 calls it an error.

## Not modelled, and the plan

Left out: the contents of certificates and keys, and their validity in time; the text of headers
(`splitAuthParams`, quoting) and of log lines; the data dump; URIs with
other schemes than `http` and `https`, which `RoundTrip` refuses; hop-by-hop header names; MD5-sess without qop as an
upstream may read it otherwise; what `RunHTTP`'s 5 s of grace (`http.go:83`) does for
requests in flight, of which the repository promises nothing; the end of a DTLS
relay toward a plaintext UDP target (`udp.go:242`), which has no end of stream; the
build files.

Left for later, in this order:

1. A module composing `Establish` and `Pipe` into the whole life of a connection, and
   requests in flight at shutdown in `Gopr`.
2. A bound on the steps of `Gopr` after a cancellation, which needs a sum over the
   groups.
