------------------------------ MODULE UDPRelay ------------------------------
(***************************************************************************)
(* The plaintext UDP relay of internal/relay/udp.go: the receive loop of   *)
(* serveUDP, one relayUDPReplies goroutine per session, the                *)
(* reapUDPSessions goroutine, and the goroutine that closes the listening  *)
(* socket when the context is cancelled.                                   *)
(*                                                                         *)
(* The loop, the repliers and the reaper share the map `sessions', guarded *)
(* by the mutex `mu'.  A critical section that does not block is one step  *)
(* of the model; the only one that may block, net.Dial with mu held, is    *)
(* the control state "dial", during which no other critical section runs.  *)
(*                                                                         *)
(* Time is kept as ages, cut off one above the timeout: the code only ever *)
(* asks whether now - last > udpSessionIdleTimeout.  Datagram contents and *)
(* the byte counters, which nothing reads but the log, are left out.       *)
(***************************************************************************)
EXTENDS Naturals

CONSTANTS
    Clients,     \* client addresses: the keys of the session map
    Sessions,    \* udpSession objects; one is used for each dial, none twice
    NoClient,
    NoSession,
    ReapPeriod   \* period of the reaper's ticker

ASSUME ReapPeriodAssumption == ReapPeriod \in Nat \ {0}
ASSUME NoClientAssumption   == NoClient \notin Clients
ASSUME NoSessionAssumption  == NoSession \notin Sessions

\* The ticker is created with half the idle timeout.
udpSessionIdleTimeout == 2 * ReapPeriod

VARIABLES
    ctxDone,   \* the context has been cancelled
    listen,    \* the listening socket: "open" or "closed"
    pc,        \* control state of the receive loop
    client,    \* clientAddr of the datagram the loop is handling
    sess,      \* the session the loop looked up for it
    ret,       \* what serveUDP returned: "none" yet, "nil" or "err"
    sessions,  \* the map from client address to session
    owner,     \* the clientAddr a session's replier was started with
    conn,      \* a session's socket toward Target: "none", "open", "closed"
    reader,    \* control state of a session's replier
    idle,      \* time.Now() - sess.last, cut off
    quiet,     \* history: time since a datagram of the session was received
    phase,     \* time since the ticker last fired
    tick,      \* the ticker's channel (capacity one) holds a tick
    reaper     \* the reaper goroutine runs

loopVars   == <<pc, client, sess, ret>>
tableVars  == <<sessions, owner, conn>>
reaperVars == <<phase, tick, reaper>>
vars == <<ctxDone, listen, loopVars, tableVars, reader, idle, quiet, reaperVars>>

Ages == 0 .. udpSessionIdleTimeout + 1

LoopStates   == {"read", "lock", "dial", "write", "returned"}
ReaderStates == {"none", "read", "got", "write", "failed", "unmapped",
                 "closed", "gaveUp"}

\* The variables have their types, and a datagram in hand has a client and,
\* once looked up, a session.
TypeOK ==
    /\ ctxDone \in BOOLEAN
    /\ listen \in {"open", "closed"}
    /\ pc \in LoopStates
    /\ client \in Clients \cup {NoClient}
    /\ pc \in {"lock", "dial", "write"} => client \in Clients
    /\ sess \in Sessions \cup {NoSession}
    /\ pc = "write" => sess \in Sessions
    /\ ret \in {"none", "nil", "err"}
    /\ sessions \in [Clients -> Sessions \cup {NoSession}]
    /\ owner \in [Sessions -> Clients \cup {NoClient}]
    /\ conn \in [Sessions -> {"none", "open", "closed"}]
    /\ reader \in [Sessions -> ReaderStates]
    /\ idle \in [Sessions -> Ages]
    /\ quiet \in [Sessions -> Ages]
    /\ phase \in 0 .. ReapPeriod - 1
    /\ tick \in BOOLEAN
    /\ reaper \in BOOLEAN

Init ==
    /\ ctxDone = FALSE
    /\ listen = "open"
    /\ pc = "read"
    /\ client = NoClient
    /\ sess = NoSession
    /\ ret = "none"
    /\ sessions = [c \in Clients |-> NoSession]
    /\ owner = [s \in Sessions |-> NoClient]
    /\ conn = [s \in Sessions |-> "none"]
    /\ reader = [s \in Sessions |-> "none"]
    /\ idle = [s \in Sessions |-> 0]
    /\ quiet = [s \in Sessions |-> 0]
    /\ phase = 0
    /\ tick = FALSE
    /\ reaper = TRUE

\* mu is held across a step boundary only while the loop dials.
MuFree == pc # "dial"

Mapped(s) == \E c \in Clients : sessions[c] = s

-----------------------------------------------------------------------------
(* The receive loop of serveUDP.                                           *)

\* ReadFromUDP returns a datagram of client c.
Receive(c) ==
    /\ pc = "read"
    /\ listen = "open"
    /\ pc' = "lock"
    /\ client' = c
    /\ quiet' = [s \in Sessions |-> IF sessions[c] = s THEN 0 ELSE quiet[s]]
    /\ UNCHANGED <<ctxDone, listen, sess, ret, tableVars, reader, idle, reaperVars>>

\* Mutant of LookupHit: the map's answer is used without looking at ok.
LookupHit_NoCheck ==
    /\ pc = "lock"
    /\ sess' = sessions[client]
    /\ pc' = "write"
    /\ UNCHANGED <<ctxDone, listen, client, ret, tableVars, reader, idle, quiet, reaperVars>>

\* Mutant of LookupHit: a session past its time is redialled in its place.
LookupHit_Redial ==
    /\ pc = "lock"
    /\ sessions[client] # NoSession
    /\ \/ idle[sessions[client]] <= udpSessionIdleTimeout
          /\ sess' = sessions[client] /\ UNCHANGED <<tableVars, reader>>
       \/ \E s \in Sessions :
            /\ idle[sessions[client]] > udpSessionIdleTimeout /\ conn[s] = "none"
            /\ conn' = [conn EXCEPT ![s] = "open", ![sessions[client]] = "closed"]
            /\ owner' = [owner EXCEPT ![s] = client]
            /\ sessions' = [sessions EXCEPT ![client] = s]
            /\ reader' = [reader EXCEPT ![s] = "read"]
            /\ sess' = s
    /\ idle' = [idle EXCEPT ![sess'] = 0]
    /\ pc' = "write"
    /\ UNCHANGED <<ctxDone, listen, client, ret, quiet, reaperVars>>

\* The client has a session: refresh it and leave the critical section.
LookupHit ==
    /\ pc = "lock"
    /\ sessions[client] # NoSession
    /\ sess' = sessions[client]
    /\ idle' = [idle EXCEPT ![sessions[client]] = 0]
    /\ pc' = "write"
    /\ UNCHANGED <<ctxDone, listen, client, ret, tableVars, reader, quiet, reaperVars>>

\* The client has none: dial Target with mu held.
LookupMiss ==
    /\ pc = "lock"
    /\ sessions[client] = NoSession
    /\ pc' = "dial"
    /\ UNCHANGED <<ctxDone, listen, client, sess, ret, tableVars, reader, idle,
                   quiet, reaperVars>>

\* The dial succeeds: a fresh session enters the map and its replier starts.
DialOk(s) ==
    /\ pc = "dial"
    /\ conn[s] = "none"
    /\ conn' = [conn EXCEPT ![s] = "open"]
    /\ owner' = [owner EXCEPT ![s] = client]
    /\ sessions' = [sessions EXCEPT ![client] = s]
    /\ reader' = [reader EXCEPT ![s] = "read"]
    /\ idle' = [idle EXCEPT ![s] = 0]
    /\ quiet' = [quiet EXCEPT ![s] = 0]
    /\ sess' = s
    /\ pc' = "write"
    /\ UNCHANGED <<ctxDone, listen, client, ret, reaperVars>>

\* The dial fails: unlock, log, drop the datagram.
DialError ==
    /\ pc = "dial"
    /\ pc' = "read"
    /\ client' = NoClient
    /\ UNCHANGED <<ctxDone, listen, sess, ret, tableVars, reader, idle, quiet,
                   reaperVars>>

\* Write the datagram to Target.  A failure is logged and the loop goes on.
WriteTarget ==
    /\ pc = "write"
    /\ pc' = "read"
    /\ client' = NoClient
    /\ sess' = NoSession
    /\ UNCHANGED <<ctxDone, listen, ret, tableVars, reader, idle, quiet, reaperVars>>

\* Mutant of ReceiveError: the loop logs the error and goes on.
ReceiveError_Continue ==
    /\ pc = "read"
    /\ pc' = "read"
    /\ UNCHANGED <<ctxDone, listen, client, sess, ret, tableVars, reader, idle, quiet,
                   reaperVars>>

\* ReadFromUDP fails, because the socket was closed or for a reason of its own.
ReceiveError ==
    /\ pc = "read"
    /\ pc' = "returned"
    /\ ret' = IF ctxDone THEN "nil" ELSE "err"
    /\ UNCHANGED <<ctxDone, listen, client, sess, tableVars, reader, idle, quiet,
                   reaperVars>>

-----------------------------------------------------------------------------
(* relayUDPReplies, one goroutine per session s.                           *)

\* sess.conn.Read returns a reply; recording it needs mu, a later step.
ReplyRead(s) ==
    /\ reader[s] = "read"
    /\ conn[s] = "open"
    /\ reader' = [reader EXCEPT ![s] = "got"]
    /\ quiet' = [quiet EXCEPT ![s] = 0]
    /\ UNCHANGED <<ctxDone, listen, loopVars, tableVars, idle, reaperVars>>

\* sess.last = time.Now(), under mu.
ReplyRefresh(s) ==
    /\ reader[s] = "got"
    /\ MuFree
    /\ idle' = [idle EXCEPT ![s] = 0]
    /\ reader' = [reader EXCEPT ![s] = "write"]
    /\ UNCHANGED <<ctxDone, listen, loopVars, tableVars, quiet, reaperVars>>

\* WriteToUDP toward the client succeeds.
ReplyWrite(s) ==
    /\ reader[s] = "write"
    /\ listen = "open"
    /\ reader' = [reader EXCEPT ![s] = "read"]
    /\ UNCHANGED <<ctxDone, listen, loopVars, tableVars, idle, quiet, reaperVars>>

\* WriteToUDP toward the client fails: the replier returns, and nothing else.
ReplyWriteError(s) ==
    /\ reader[s] = "write"
    /\ reader' = [reader EXCEPT ![s] = "gaveUp"]
    /\ UNCHANGED <<ctxDone, listen, loopVars, tableVars, idle, quiet, reaperVars>>

\* Mutant of ReplyReadError: the socket is closed before the map is cleaned.
ReplyReadError_CloseFirst(s) ==
    /\ reader[s] = "read"
    /\ reader' = [reader EXCEPT ![s] = "failed"]
    /\ conn' = [conn EXCEPT ![s] = "closed"]
    /\ UNCHANGED <<ctxDone, listen, loopVars, sessions, owner, idle, quiet, reaperVars>>

\* Mutant of ReplyReadError: "use of closed connection" is taken as transient.
ReplyReadError_IgnoreClosed(s) ==
    /\ reader[s] = "read"
    /\ conn[s] = "open"
    /\ reader' = [reader EXCEPT ![s] = "failed"]
    /\ UNCHANGED <<ctxDone, listen, loopVars, tableVars, idle, quiet, reaperVars>>

\* sess.conn.Read fails: the socket was closed, or Target's host refused.
ReplyReadError(s) ==
    /\ reader[s] = "read"
    /\ reader' = [reader EXCEPT ![s] = "failed"]
    /\ UNCHANGED <<ctxDone, listen, loopVars, tableVars, idle, quiet, reaperVars>>

\* Mutant of ReplyUnmap: the entry is deleted whosever it is by now.
ReplyUnmap_NoIdentity(s) ==
    /\ reader[s] = "failed"
    /\ MuFree
    /\ reader' = [reader EXCEPT ![s] = "unmapped"]
    /\ sessions' = [sessions EXCEPT ![owner[s]] = NoSession]
    /\ UNCHANGED <<ctxDone, listen, loopVars, owner, conn, idle, quiet, reaperVars>>

\* Under mu: drop the map entry if it still is this session.
ReplyUnmap(s) ==
    /\ reader[s] = "failed"
    /\ MuFree
    /\ reader' = [reader EXCEPT ![s] = "unmapped"]
    /\ sessions' = IF sessions[owner[s]] = s
                   THEN [sessions EXCEPT ![owner[s]] = NoSession]
                   ELSE sessions
    /\ UNCHANGED <<ctxDone, listen, loopVars, owner, conn, idle, quiet, reaperVars>>

\* Mutant of ReplyClose: only a socket that the reaper has closed is closed again.
ReplyClose_IfReaped(s) ==
    /\ reader[s] = "unmapped"
    /\ reader' = [reader EXCEPT ![s] = "closed"]
    /\ UNCHANGED <<ctxDone, listen, loopVars, tableVars, idle, quiet, reaperVars>>

\* Then close the socket (a second Close is harmless) and return.  Nothing
\* reads the session's time stamp from here on: its ages are dropped.
ReplyClose(s) ==
    /\ reader[s] = "unmapped"
    /\ reader' = [reader EXCEPT ![s] = "closed"]
    /\ conn' = [conn EXCEPT ![s] = "closed"]
    /\ idle' = [idle EXCEPT ![s] = 0]
    /\ quiet' = [quiet EXCEPT ![s] = 0]
    /\ UNCHANGED <<ctxDone, listen, loopVars, sessions, owner, reaperVars>>

Replier(s) ==
    \/ ReplyRead(s) \/ ReplyRefresh(s) \/ ReplyWrite(s) \/ ReplyWriteError(s)
    \/ ReplyReadError(s) \/ ReplyUnmap(s) \/ ReplyClose(s)

-----------------------------------------------------------------------------
(* reapUDPSessions.                                                        *)

\* Mutant of Expired: >= for >.
Expired_OffByOne(s) == idle[s] >= udpSessionIdleTimeout

Expired(s) == idle[s] > udpSessionIdleTimeout

\* Mutant of Reap: the session is forgotten and its socket not closed.
Reap_NoClose ==
    /\ reaper
    /\ tick
    /\ MuFree
    /\ tick' = FALSE
    /\ sessions' = [c \in Clients |->
                      IF sessions[c] # NoSession /\ Expired(sessions[c])
                      THEN NoSession ELSE sessions[c]]
    /\ UNCHANGED <<ctxDone, listen, loopVars, owner, conn, reader, idle, quiet, phase, reaper>>

\* On a tick, under mu: close and forget every session idle for too long.
Reap ==
    /\ reaper
    /\ tick
    /\ MuFree
    /\ tick' = FALSE
    /\ conn' = [s \in Sessions |->
                  IF Mapped(s) /\ Expired(s) THEN "closed" ELSE conn[s]]
    /\ sessions' = [c \in Clients |->
                      IF sessions[c] # NoSession /\ Expired(sessions[c])
                      THEN NoSession ELSE sessions[c]]
    /\ UNCHANGED <<ctxDone, listen, loopVars, owner, reader, idle, quiet, phase, reaper>>

\* serveUDP's deferred close(stop) ends the reaper and its ticker.
ReaperStop ==
    /\ reaper
    /\ pc = "returned"
    /\ reaper' = FALSE
    /\ tick' = FALSE
    /\ UNCHANGED <<ctxDone, listen, loopVars, tableVars, reader, idle, quiet, phase>>

-----------------------------------------------------------------------------
(* The context, and time.                                                  *)

\* The signal handler cancels the context.
Cancel ==
    /\ ~ctxDone
    /\ ctxDone' = TRUE
    /\ UNCHANGED <<listen, loopVars, tableVars, reader, idle, quiet, reaperVars>>

\* The goroutine waiting for the context closes the listening socket.
CloseListen ==
    /\ ctxDone
    /\ listen = "open"
    /\ listen' = "closed"
    /\ UNCHANGED <<ctxDone, loopVars, tableVars, reader, idle, quiet, reaperVars>>

Older(n) == IF n > udpSessionIdleTimeout THEN n ELSE n + 1

\* One unit of time passes; every ReapPeriod units the ticker fires, and a
\* tick that finds the channel full is dropped.  Only the reaper reads the
\* clock, so time is not followed beyond its end.
Tick ==
    /\ reaper
    /\ idle'  = [s \in Sessions |-> IF conn[s] = "open" THEN Older(idle[s]) ELSE idle[s]]
    /\ quiet' = [s \in Sessions |-> IF conn[s] = "open" THEN Older(quiet[s]) ELSE quiet[s]]
    /\ phase' = IF phase + 1 = ReapPeriod THEN 0 ELSE phase + 1
    /\ tick' = (tick \/ phase + 1 = ReapPeriod)
    /\ UNCHANGED <<ctxDone, listen, loopVars, tableVars, reader, reaper>>

Loop ==
    \/ \E c \in Clients : Receive(c)
    \/ LookupHit \/ LookupMiss
    \/ \E s \in Sessions : DialOk(s)
    \/ DialError \/ WriteTarget \/ ReceiveError

Next ==
    \/ Loop
    \/ \E s \in Sessions : Replier(s)
    \/ Reap \/ ReaperStop
    \/ Cancel \/ CloseListen
    \/ Tick

Spec == Init /\ [][Next]_vars

-----------------------------------------------------------------------------
(* Fairness.  Goroutines that can run do run.  A lock request is granted   *)
(* although others keep taking the lock: Go's mutex hands itself to a      *)
(* waiter that starves, hence strong fairness on the steps mu can block.   *)
(* A dial and a write return; a blocked read is only known to return once  *)
(* its socket is closed.  Nothing is assumed of clients or of Target.      *)

LoopFairness ==
    /\ WF_vars(LookupHit \/ LookupMiss)
    /\ WF_vars(DialError \/ \E s \in Sessions : DialOk(s))
    /\ WF_vars(WriteTarget)
    /\ WF_vars(listen = "closed" /\ ReceiveError)

ReplierFairness(s) ==
    /\ SF_vars(ReplyRefresh(s))
    /\ SF_vars(ReplyUnmap(s))
    /\ WF_vars(ReplyWrite(s) \/ ReplyWriteError(s))
    /\ WF_vars(conn[s] = "closed" /\ ReplyReadError(s))
    /\ WF_vars(ReplyClose(s))

FairSpec ==
    /\ Spec
    /\ LoopFairness
    /\ \A s \in Sessions : ReplierFairness(s)
    /\ SF_vars(Reap)
    /\ WF_vars(ReaperStop)
    /\ WF_vars(CloseListen)
    /\ WF_vars(Tick)

-----------------------------------------------------------------------------
(* Safety.                                                                 *)

\* Every session the receive loop can find has an open socket and belongs to
\* the client it is filed under: whoever closes a socket (replier or reaper)
\* takes the session out of the map first or under the same lock.
MappedIsOpen ==
    \A c \in Clients : sessions[c] # NoSession =>
        /\ conn[sessions[c]] = "open"
        /\ owner[sessions[c]] = c

\* No socket toward Target is lost: an open one is in the map, where the
\* reaper finds it, or its replier is about to close it.  In particular a
\* replier that fails late does not evict the session that replaced its own.
NoLeak ==
    \A s \in Sessions : conn[s] = "open" =>
        \/ sessions[owner[s]] = s
        \/ reader[s] = "unmapped"

\* A datagram of session s has been received, and its receiver has yet to
\* take mu and record it in last.
Unrecorded(s) ==
    \/ reader[s] = "got"
    \/ pc = "lock" /\ client = owner[s]

\* The reaper closes a session only after more than the timeout without a
\* datagram in either direction, except for one received and not yet recorded.
ReapOnlyQuiet ==
    [][\A s \in Sessions :
          (/\ conn[s] = "open" /\ conn'[s] = "closed"
           /\ reader'[s] = reader[s]
           /\ ~Unrecorded(s))
          => quiet[s] > udpSessionIdleTimeout]_vars

\* relayUDPReplies "copies packets [...] until the target connection is closed
\* (idle reap) or errors out": a replier that ended left no open socket.
ReaderUntilClosed ==
    \A s \in Sessions : reader[s] \in {"closed", "gaveUp"} => conn[s] = "closed"

-----------------------------------------------------------------------------
(* The abstract specification.                                             *)

Table == INSTANCE FlowTable WITH flow <- sessions, socket <- conn

\* The goroutines together implement the flow table: whatever the
\* interleaving, a client's flow is created only when it has none, with an
\* unused socket, and a socket is closed only as or after its flow leaves.
ImplementsTable == Table!Spec

\* The table's liveness: the socket of a flow that left the map is closed.
RetiredCloses == Table!Fairness

-----------------------------------------------------------------------------
(* Liveness, under FairSpec.                                               *)

\* A session that stays without traffic is torn down, whatever became of its
\* replier, as long as serveUDP runs.
IdleReaped ==
    \A s \in Sessions :
        <>[](conn[s] # "none" /\ quiet[s] > 0 /\ reaper) => <>(conn[s] = "closed")

\* Closing a session's socket, by the reaper or otherwise, ends its replier.
RepliersEnd ==
    \A s \in Sessions : conn[s] = "closed" ~> reader[s] \in {"closed", "gaveUp"}

\* Cancelling the context makes serveUDP return, from whatever state its loop
\* is in.
CancelStops == ctxDone ~> ret # "none"
=============================================================================
