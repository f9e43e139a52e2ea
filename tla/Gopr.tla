-------------------------------- MODULE Gopr --------------------------------
(***************************************************************************)
(* The process: main.run starts one goroutine per "--" group and waits for *)
(* them all; runOne dispatches to relay.Run (which starts up to two        *)
(* listeners and waits in a select), RunSOCKS or RunHTTP; every listener   *)
(* is closed by a goroutine of its own when the shared context is          *)
(* cancelled.                                                              *)
(*                                                                         *)
(* What a listener does with a connection is elsewhere (UDPRelay,          *)
(* Establish, Pipe); here it binds, serves, and returns nil or an error.   *)
(***************************************************************************)
EXTENDS Naturals

CONSTANTS
    Groups,    \* the "--" groups of the command line
    Plans      \* the command lines considered: the listeners of each group

Kinds == {"tcp", "udp", "socks", "http"}

\* A relay group has a TCP half, a UDP half (plain or DTLS), or both; a proxy
\* group has the one listener of its frontend.
AllPlans == {{"tcp"}, {"udp"}, {"tcp", "udp"}, {"socks"}, {"http"}}
Relay(p) == p \subseteq {"tcp", "udp"}

ASSUME PlansAssumption == Plans \subseteq [Groups -> AllPlans]

\* Mutant of ErrCap: an unbuffered channel.
ErrCap_Unbuffered == 0

\* relay.Run: errCh := make(chan error, 2).
ErrCap == 2

VARIABLES
    plan,      \* the listeners of each group
    ctxDone,   \* SIGINT or SIGTERM has cancelled the context
    serve,     \* the goroutine of each listener
    socket,    \* its listening socket
    errCh,     \* errors buffered in a group's errCh
    done,      \* the group's channel done is closed
    run,       \* runOne of each group
    main,      \* "waiting" in wg.Wait, or "exited"
    failed     \* history: groups that had a listener fail, not just cancelled

vars == <<plan, ctxDone, serve, socket, errCh, done, run, main, failed>>

Returned == {"nil", "err"}

TypeOK ==
    /\ plan \in Plans
    /\ ctxDone \in BOOLEAN
    /\ serve \in [Groups -> [Kinds -> {"off", "binding", "serving", "nil", "err",
                                       "sent", "finished"}]]
    /\ socket \in [Groups -> [Kinds -> {"none", "open", "closed"}]]
    /\ errCh \in [Groups -> 0 .. ErrCap]
    /\ done \in [Groups -> BOOLEAN]
    /\ run \in [Groups -> {"started", "select", "cancelled"} \cup Returned]
    /\ main \in {"waiting", "exited"}
    /\ failed \subseteq Groups

\* ParseAll has accepted every group.
Init ==
    /\ plan \in Plans
    /\ ctxDone = FALSE
    /\ serve = [g \in Groups |-> [k \in Kinds |->
                   IF k \in plan[g] THEN "binding" ELSE "off"]]
    /\ socket = [g \in Groups |-> [k \in Kinds |-> "none"]]
    /\ errCh = [g \in Groups |-> 0]
    /\ done = [g \in Groups |-> FALSE]
    /\ run = [g \in Groups |-> "started"]
    /\ main = "waiting"
    /\ failed = {}

\* When main returns, every goroutine is gone.
Alive == main = "waiting"

-----------------------------------------------------------------------------
(* serveTCP, serveUDP, serveUDPDTLS, RunSOCKS, RunHTTP.                    *)

\* The listener is bound.
Bind(g, k) ==
    /\ Alive
    /\ serve[g][k] = "binding"
    /\ socket[g][k] = "none"
    /\ socket' = [socket EXCEPT ![g][k] = "open"]
    /\ serve' = [serve EXCEPT ![g][k] = "serving"]
    /\ UNCHANGED <<plan, ctxDone, errCh, done, run, main, failed>>

\* RunHTTP: ListenAndServe refuses to start once Shutdown has been called.
BindTooLate(g) ==
    /\ Alive
    /\ serve[g]["http"] = "binding"
    /\ socket[g]["http"] = "closed"
    /\ serve' = [serve EXCEPT ![g]["http"] = "nil"]
    /\ UNCHANGED <<plan, ctxDone, socket, errCh, done, run, main, failed>>

\* The address cannot be resolved or bound, or a certificate cannot be loaded.
BindError(g, k) ==
    /\ Alive
    /\ serve[g][k] = "binding"
    /\ socket[g][k] = "none"
    /\ serve' = [serve EXCEPT ![g][k] = "err"]
    /\ failed' = failed \cup {g}
    /\ UNCHANGED <<plan, ctxDone, socket, errCh, done, run, main>>

\* Accept (ReadFromUDP) fails of its own: nil if the context is done by then,
\* else the error.  The socket stays open: only the goroutine waiting for the
\* context closes it.
AcceptFails(g, k) ==
    /\ Alive
    /\ k # "http"
    /\ serve[g][k] = "serving"
    /\ socket[g][k] = "open"
    /\ serve' = [serve EXCEPT ![g][k] = IF ctxDone THEN "nil" ELSE "err"]
    /\ failed' = IF ctxDone THEN failed ELSE failed \cup {g}
    /\ UNCHANGED <<plan, ctxDone, socket, errCh, done, run, main>>

\* http.Server closes its socket when Accept fails for good; it returns the
\* error unless Shutdown has been called, whatever the context says.
ServeFails(g) ==
    /\ Alive
    /\ serve[g]["http"] = "serving"
    /\ socket[g]["http"] = "open"
    /\ serve' = [serve EXCEPT ![g]["http"] = "err"]
    /\ socket' = [socket EXCEPT ![g]["http"] = "closed"]
    /\ failed' = failed \cup {g}
    /\ UNCHANGED <<plan, ctxDone, errCh, done, run, main>>

\* Mutant of AcceptClosed: the error is returned without asking the context.
AcceptClosed_Err(g, k) ==
    /\ Alive
    /\ serve[g][k] = "serving"
    /\ socket[g][k] = "closed"
    /\ serve' = [serve EXCEPT ![g][k] = "err"]
    /\ UNCHANGED <<plan, ctxDone, socket, errCh, done, run, main, failed>>

\* Accept fails because the socket was closed: the context is done.
AcceptClosed(g, k) ==
    /\ Alive
    /\ serve[g][k] = "serving"
    /\ socket[g][k] = "closed"
    /\ serve' = [serve EXCEPT ![g][k] = IF ctxDone THEN "nil" ELSE "err"]
    /\ UNCHANGED <<plan, ctxDone, socket, errCh, done, run, main, failed>>

\* Mutant of CloseSocket: serveUDP starts no such goroutine.
CloseSocket_NotUDP(g, k) ==
    /\ Alive
    /\ ctxDone
    /\ k \in plan[g] \ {"udp"}
    /\ socket[g][k] = "open" \/ (k = "http" /\ socket[g][k] = "none")
    /\ socket' = [socket EXCEPT ![g][k] = "closed"]
    /\ UNCHANGED <<plan, ctxDone, serve, errCh, done, run, main, failed>>

\* The goroutine behind <-ctx.Done() closes the socket.  RunHTTP starts it
\* before it binds, the others after.
CloseSocket(g, k) ==
    /\ Alive
    /\ ctxDone
    /\ k \in plan[g]
    /\ socket[g][k] = "open" \/ (k = "http" /\ socket[g][k] = "none")
    /\ socket' = [socket EXCEPT ![g][k] = "closed"]
    /\ UNCHANGED <<plan, ctxDone, serve, errCh, done, run, main, failed>>

-----------------------------------------------------------------------------
(* relay.Run.  A select that finds nothing ready blocks, and is then       *)
(* decided by the first channel that becomes ready; one that finds several *)
(* ready picks any of them.                                                *)

\* Mutant of SendErr: a non-blocking send, lost if Run is not yet waiting.
SendErr_NonBlocking(g, k) ==
    /\ Alive
    /\ serve[g][k] = "err"
    /\ Relay(plan[g])
    /\ serve' = [serve EXCEPT ![g][k] = "sent"]
    /\ run' = [run EXCEPT ![g] = IF @ = "select" THEN "err" ELSE @]
    /\ UNCHANGED <<plan, ctxDone, socket, errCh, done, main, failed>>

\* A listener's goroutine sends its error: straight to a blocked select, or
\* into the buffer.
SendErr(g, k) ==
    /\ Alive
    /\ serve[g][k] = "err"
    /\ Relay(plan[g])
    /\ serve' = [serve EXCEPT ![g][k] = "sent"]
    /\ \/ /\ run[g] = "select"
          /\ run' = [run EXCEPT ![g] = "err"]
          /\ UNCHANGED errCh
       \/ /\ run[g] # "select"
          /\ errCh[g] < ErrCap
          /\ errCh' = [errCh EXCEPT ![g] = @ + 1]
          /\ UNCHANGED run
    /\ UNCHANGED <<plan, ctxDone, socket, done, main, failed>>

\* The goroutine ends: wg.Done.
Finish(g, k) ==
    /\ Alive
    /\ serve[g][k] \in {"nil", "sent"}
    /\ Relay(plan[g])
    /\ serve' = [serve EXCEPT ![g][k] = "finished"]
    /\ UNCHANGED <<plan, ctxDone, socket, errCh, done, run, main, failed>>

\* wg.Wait returns and done is closed.
CloseDone(g) ==
    /\ Alive
    /\ Relay(plan[g])
    /\ ~done[g]
    /\ \A k \in plan[g] : serve[g][k] = "finished"
    /\ done' = [done EXCEPT ![g] = TRUE]
    /\ run' = [run EXCEPT ![g] = IF @ = "select" THEN "nil" ELSE @]
    /\ UNCHANGED <<plan, ctxDone, serve, socket, errCh, main, failed>>

Ready(g) ==
    (IF errCh[g] > 0 THEN {"err"} ELSE {})
    \cup (IF done[g] THEN {"nil"} ELSE {})
    \cup (IF ctxDone THEN {"cancelled"} ELSE {})

\* Run reaches its select.
Select(g) ==
    /\ Alive
    /\ Relay(plan[g])
    /\ run[g] = "started"
    /\ \/ Ready(g) = {} /\ run' = [run EXCEPT ![g] = "select"]
       \/ \E r \in Ready(g) : run' = [run EXCEPT ![g] = r]
    /\ UNCHANGED <<plan, ctxDone, serve, socket, errCh, done, main, failed>>

\* Mutant of AwaitDone: Run returns as soon as the context is done.
AwaitDone_NoWait(g) ==
    /\ Alive
    /\ run[g] = "cancelled"
    /\ run' = [run EXCEPT ![g] = "nil"]
    /\ UNCHANGED <<plan, ctxDone, serve, socket, errCh, done, main, failed>>

\* After ctx.Done() it waits for done and returns nil.
AwaitDone(g) ==
    /\ Alive
    /\ run[g] = "cancelled"
    /\ done[g]
    /\ run' = [run EXCEPT ![g] = "nil"]
    /\ UNCHANGED <<plan, ctxDone, serve, socket, errCh, done, main, failed>>

\* RunSOCKS and RunHTTP are their listener: they return what it returns.
ProxyReturn(g, k) ==
    /\ Alive
    /\ ~Relay(plan[g])
    /\ serve[g][k] \in Returned
    /\ run' = [run EXCEPT ![g] = serve[g][k]]
    /\ serve' = [serve EXCEPT ![g][k] = "finished"]
    /\ UNCHANGED <<plan, ctxDone, socket, errCh, done, main, failed>>

-----------------------------------------------------------------------------
(* main.run.                                                               *)

\* A signal cancels the context; every select blocked on it wakes.
Cancel ==
    /\ Alive
    /\ ~ctxDone
    /\ ctxDone' = TRUE
    /\ run' = [g \in Groups |-> IF run[g] = "select" THEN "cancelled" ELSE run[g]]
    /\ UNCHANGED <<plan, serve, socket, errCh, done, main, failed>>

\* Every group has returned: the process ends, with status 1 and the joined
\* errors if any group returned one.
Exit ==
    /\ Alive
    /\ \A g \in Groups : run[g] \in Returned
    /\ main' = "exited"
    /\ UNCHANGED <<plan, ctxDone, serve, socket, errCh, done, run, failed>>

ExitStatus == IF \E g \in Groups : run[g] = "err" THEN 1 ELSE 0

Listener(g, k) ==
    \/ Bind(g, k) \/ BindError(g, k) \/ AcceptFails(g, k) \/ AcceptClosed(g, k)
    \/ CloseSocket(g, k) \/ SendErr(g, k) \/ Finish(g, k) \/ ProxyReturn(g, k)

Next ==
    \/ \E g \in Groups, k \in Kinds : Listener(g, k)
    \/ \E g \in Groups : BindTooLate(g) \/ ServeFails(g)
    \/ \E g \in Groups : CloseDone(g) \/ Select(g) \/ AwaitDone(g)
    \/ Cancel
    \/ Exit

Spec == Init /\ [][Next]_vars

\* Goroutines that can run do run, until the process ends.  No signal and no
\* failure is assumed to come.
ListenerFairness(g, k) ==
    /\ WF_vars(Bind(g, k) \/ BindError(g, k))
    /\ WF_vars(AcceptClosed(g, k))
    /\ WF_vars(CloseSocket(g, k))
    /\ WF_vars(SendErr(g, k))
    /\ WF_vars(Finish(g, k))
    /\ WF_vars(ProxyReturn(g, k))

FairSpec ==
    /\ Spec
    /\ \A g \in Groups, k \in Kinds : ListenerFairness(g, k)
    /\ \A g \in Groups :
          /\ WF_vars(BindTooLate(g)) /\ WF_vars(CloseDone(g))
          /\ WF_vars(Select(g)) /\ WF_vars(AwaitDone(g))
    /\ WF_vars(Exit)

-----------------------------------------------------------------------------
(* Properties.                                                             *)

\* A cancellation alone never makes the process report an error: status 1
\* means that some listener failed of its own.
CancelIsClean ==
    main = "exited" /\ ExitStatus = 1 => failed # {}

\* Run returns nil, also after a cancellation, only when none of the group's
\* listeners is binding or serving any more.
NilMeansStopped ==
    \A g \in Groups : run[g] = "nil" =>
        \A k \in plan[g] : serve[g][k] \notin {"binding", "serving"}

\* A signal ends the process, whatever its groups are doing: binding, serving,
\* failing, or blocked in a select.
CancelExits == ctxDone ~> main = "exited"

\* "Run [...] blocks until ctx is cancelled or a listener fails fatally": after
\* a failure it returns.
FailureReturns ==
    \A g \in Groups : g \in failed ~> (run[g] \in Returned \/ main = "exited")

\* No listener goroutine hangs on errCh, also when Run has returned and nobody
\* receives from it any more.
SendersFinish ==
    \A g \in Groups, k \in Kinds :
        serve[g][k] = "err" ~> (serve[g][k] # "err" \/ main = "exited")

\* "Fatal/error conditions are always visible": when the process ends because
\* its listeners failed, and not for a signal, it reports an error.
FatalVisible ==
    main = "exited" /\ failed # {} /\ ~ctxDone => ExitStatus = 1
=============================================================================
