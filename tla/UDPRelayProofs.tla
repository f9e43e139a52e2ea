--------------------------- MODULE UDPRelayProofs ---------------------------
(***************************************************************************)
(* TLAPS proofs about UDPRelay, for any sets of clients and sessions and   *)
(* any reaping period: its type invariant, MappedIsOpen and NoLeak, the    *)
(* action property ReapOnlyQuiet, and that it implements FlowTable.        *)
(***************************************************************************)
EXTENDS UDPRelay, TLAPS

-----------------------------------------------------------------------------
(* Type correctness.                                                       *)

LEMMA AgesFacts ==
    /\ udpSessionIdleTimeout \in Nat
    /\ Ages \subseteq Nat
    /\ 0 \in Ages
    /\ \A n \in Ages : Older(n) \in Ages
BY ReapPeriodAssumption DEF Ages, Older, udpSessionIdleTimeout

LEMMA TypeInit == Init => TypeOK
<1> SUFFICES ASSUME Init PROVE TypeOK
  OBVIOUS
<1>1. /\ ctxDone \in BOOLEAN /\ tick \in BOOLEAN /\ reaper \in BOOLEAN
  BY DEF Init
<1>2. phase \in 0 .. ReapPeriod - 1
  BY ReapPeriodAssumption DEF Init
<1>3. idle \in [Sessions -> Ages] /\ quiet \in [Sessions -> Ages]
  BY AgesFacts DEF Init
<1> QED
  BY <1>1, <1>2, <1>3 DEF Init, TypeOK, LoopStates, ReaderStates

LEMMA TypeStep == TypeOK /\ [Next]_vars => TypeOK'
<1> SUFFICES ASSUME TypeOK, [Next]_vars PROVE TypeOK'
  OBVIOUS
<1> USE AgesFacts DEF TypeOK
<1>1. ASSUME NEW c \in Clients, Receive(c) PROVE TypeOK'
  BY <1>1 DEF Receive, tableVars, reaperVars, LoopStates
<1>2. CASE LookupHit
  <2>1. sessions[client] \in Sessions
    BY <1>2 DEF LookupHit
  <2> QED BY <1>2, <2>1 DEF LookupHit, tableVars, reaperVars, LoopStates
<1>3. CASE LookupMiss
  BY <1>3 DEF LookupMiss, tableVars, reaperVars, LoopStates
<1>4. ASSUME NEW s \in Sessions, DialOk(s) PROVE TypeOK'
  BY <1>4 DEF DialOk, reaperVars, LoopStates, ReaderStates
<1>5. CASE DialError
  BY <1>5 DEF DialError, tableVars, reaperVars, LoopStates
<1>6. CASE WriteTarget
  BY <1>6 DEF WriteTarget, tableVars, reaperVars, LoopStates
<1>7. CASE ReceiveError
  BY <1>7 DEF ReceiveError, tableVars, reaperVars, LoopStates
<1>8. ASSUME NEW s \in Sessions, Replier(s) PROVE TypeOK'
  BY <1>8 DEF Replier, ReplyRead, ReplyRefresh, ReplyWrite, ReplyWriteError,
              ReplyReadError, ReplyUnmap, ReplyClose, loopVars, tableVars,
              reaperVars, ReaderStates
<1>9. CASE Reap
  BY <1>9 DEF Reap, loopVars, reaperVars
<1>10. CASE ReaperStop
  BY <1>10 DEF ReaperStop, loopVars, tableVars
<1>11. CASE Cancel
  BY <1>11 DEF Cancel, loopVars, tableVars, reaperVars
<1>12. CASE CloseListen
  BY <1>12 DEF CloseListen, loopVars, tableVars, reaperVars
<1>13. CASE Tick
  <2>1. phase' \in 0 .. ReapPeriod - 1
    BY <1>13, ReapPeriodAssumption DEF Tick
  <2> QED BY <1>13, <2>1 DEF Tick, loopVars, tableVars
<1>14. CASE UNCHANGED vars
  BY <1>14 DEF vars, loopVars, tableVars, reaperVars
<1> QED
  BY <1>1, <1>2, <1>3, <1>4, <1>5, <1>6, <1>7, <1>8, <1>9, <1>10, <1>11,
     <1>12, <1>13, <1>14 DEF Next, Loop

\* Every variable of the relay keeps its type, whatever the number of clients
\* and sessions: the ages stay within their cut-off, the ticker's phase within
\* its period.
THEOREM TypeCorrect == Spec => []TypeOK
BY TypeInit, TypeStep, PTL DEF Spec

-----------------------------------------------------------------------------
(* The inductive invariant.                                                *)

\* How a session's replier, its socket and the map agree.  Unused sessions
\* have neither replier nor owner; a replier past its critical section is out
\* of the map, and one that returned after it has closed the socket.
SessionShape ==
    \A s \in Sessions :
        /\ conn[s] = "none" => reader[s] = "none"
        /\ conn[s] # "none" => owner[s] \in Clients /\ reader[s] # "none"
        /\ reader[s] = "unmapped" => sessions[owner[s]] # s
        /\ reader[s] = "closed" => conn[s] = "closed"

\* mu is held from the failed lookup to the end of the dial, so the client
\* being dialled for cannot acquire a session meanwhile.
DialExclusive == pc = "dial" => sessions[client] = NoSession

\* The recorded age of a session in the map is at most its true age, but for
\* a datagram that is about to be recorded.
AgesAgree ==
    \A s \in Sessions :
        sessions[owner[s]] = s /\ conn[s] = "open" /\ ~Unrecorded(s)
            => idle[s] <= quiet[s]

IInv ==
    /\ TypeOK
    /\ SessionShape
    /\ DialExclusive
    /\ MappedIsOpen
    /\ NoLeak
    /\ AgesAgree

LEMMA InvInit == Init => IInv
<1> SUFFICES ASSUME Init PROVE IInv
  OBVIOUS
<1>1. TypeOK
  BY TypeInit
<1> QED
  BY <1>1 DEF Init, IInv, SessionShape, DialExclusive, MappedIsOpen, NoLeak,
     AgesAgree, TypeOK

LEMMA OlderMonotone ==
    ASSUME NEW m \in Ages, NEW n \in Ages, m <= n
    PROVE  Older(m) <= Older(n)
BY AgesFacts DEF Ages, Older

LEMMA InvStep == IInv /\ [Next]_vars => IInv'
<1> SUFFICES ASSUME IInv, [Next]_vars PROVE IInv'
  OBVIOUS
<1>0. TypeOK'
  BY TypeStep DEF IInv
<1> DEFINE Rest == /\ SessionShape
                   /\ DialExclusive
                   /\ MappedIsOpen
                   /\ NoLeak
                   /\ AgesAgree
<1> SUFFICES Rest'
  BY <1>0 DEF IInv
<1> USE <1>0, NoClientAssumption, NoSessionAssumption
    DEF IInv, TypeOK, SessionShape, DialExclusive, MappedIsOpen, NoLeak,
        AgesAgree, Unrecorded
<1>1. ASSUME NEW c \in Clients, Receive(c) PROVE Rest'
  BY <1>1 DEF Receive, tableVars
<1>2. CASE LookupHit
  <2> USE <1>2 DEF LookupHit, tableVars
  <2>1. sessions[client] \in Sessions
    OBVIOUS
  <2>2. AgesAgree'
    BY <2>1, AgesFacts
  <2> QED BY <2>1, <2>2
<1>3. CASE LookupMiss
  BY <1>3 DEF LookupMiss, tableVars
<1>4. ASSUME NEW s \in Sessions, DialOk(s) PROVE Rest'
  <2> USE <1>4 DEF DialOk
  <2>1. /\ client \in Clients
        /\ \A c \in Clients : sessions[c] # s
        /\ reader[s] = "none"
    OBVIOUS
  <2>2. SessionShape'
    BY <2>1
  <2>3. MappedIsOpen'
    BY <2>1
  <2>4. NoLeak'
    BY <2>1
  <2>5. AgesAgree'
    BY <2>1, AgesFacts
  <2> QED BY <2>2, <2>3, <2>4, <2>5
<1>5. CASE DialError
  BY <1>5 DEF DialError, tableVars
<1>6. CASE WriteTarget
  BY <1>6 DEF WriteTarget, tableVars
<1>7. CASE ReceiveError
  BY <1>7 DEF ReceiveError, tableVars
<1>8. ASSUME NEW s \in Sessions, ReplyRead(s) PROVE Rest'
  BY <1>8 DEF ReplyRead, loopVars, tableVars
<1>9. ASSUME NEW s \in Sessions, ReplyRefresh(s) PROVE Rest'
  <2> USE <1>9 DEF ReplyRefresh, loopVars, tableVars
  <2>1. idle'[s] <= quiet'[s]
    <3>1. idle'[s] = 0 /\ quiet'[s] = quiet[s] /\ quiet[s] \in Ages
      OBVIOUS
    <3> HIDE DEF IInv, TypeOK, ReplyRefresh
    <3>2. quiet[s] \in Nat
      BY <3>1, AgesFacts
    <3> QED BY <3>1, <3>2
  <2>2. \A t \in Sessions \ {s} : idle'[t] = idle[t] /\ reader'[t] = reader[t]
    OBVIOUS
  <2>3. AgesAgree'
    BY <2>1, <2>2
  <2> QED BY <2>3
<1>10. ASSUME NEW s \in Sessions, ReplyWrite(s) PROVE Rest'
  BY <1>10 DEF ReplyWrite, loopVars, tableVars
<1>11. ASSUME NEW s \in Sessions, ReplyWriteError(s) PROVE Rest'
  BY <1>11 DEF ReplyWriteError, loopVars, tableVars
<1>12. ASSUME NEW s \in Sessions, ReplyReadError(s) PROVE Rest'
  BY <1>12 DEF ReplyReadError, loopVars, tableVars
<1>13. ASSUME NEW s \in Sessions, ReplyUnmap(s) PROVE Rest'
  BY <1>13 DEF ReplyUnmap, loopVars, MuFree
<1>14. ASSUME NEW s \in Sessions, ReplyClose(s) PROVE Rest'
  BY <1>14 DEF ReplyClose, loopVars
<1>15. CASE Reap
  BY <1>15 DEF Reap, loopVars, Mapped, Expired, MuFree
<1>16. CASE ReaperStop \/ Cancel \/ CloseListen
  BY <1>16 DEF ReaperStop, Cancel, CloseListen, loopVars, tableVars
<1>17. CASE Tick
  <2> USE <1>17 DEF Tick, loopVars, tableVars
  <2>1. ASSUME NEW s \in Sessions, sessions[owner[s]] = s, conn[s] = "open",
               ~Unrecorded(s)
        PROVE  idle'[s] <= quiet'[s]
    <3>1. idle[s] \in Ages /\ quiet[s] \in Ages /\ idle[s] <= quiet[s]
      BY <2>1
    <3>2. Older(idle[s]) <= Older(quiet[s])
      BY <3>1, OlderMonotone
    <3> QED BY <2>1, <3>2
  <2>2. AgesAgree'
    BY <2>1
  <2> QED BY <2>2
<1>18. CASE UNCHANGED vars
  BY <1>18 DEF vars, loopVars, tableVars
<1> QED
  BY <1>1, <1>2, <1>3, <1>4, <1>5, <1>6, <1>7, <1>8, <1>9, <1>10, <1>11,
     <1>12, <1>13, <1>14, <1>15, <1>16, <1>17, <1>18 DEF Next, Loop, Replier

LEMMA Invariance == Spec => []IInv
BY InvInit, InvStep, PTL DEF Spec

-----------------------------------------------------------------------------
(* The results.                                                            *)

\* The receive loop never finds a session whose socket is closed, or another
\* client's: the order of delete and Close in relayUDPReplies and the lock
\* around the reaper's Close see to it.
THEOREM MappedIsOpenHolds == Spec => []MappedIsOpen
BY Invariance, PTL DEF IInv

\* No open socket toward Target escapes both the map and its replier, in any
\* interleaving of the loop, the repliers and the reaper.
THEOREM NoLeakHolds == Spec => []NoLeak
BY Invariance, PTL DEF IInv

\* The reaper never tears down a session with traffic within the timeout,
\* save one whose datagram has been received and not yet recorded.
THEOREM ReapOnlyQuietHolds == Spec => ReapOnlyQuiet
<1> DEFINE Step == \A s \in Sessions :
                      (/\ conn[s] = "open" /\ conn'[s] = "closed"
                       /\ reader'[s] = reader[s]
                       /\ ~Unrecorded(s))
                      => quiet[s] > udpSessionIdleTimeout
<1>1. IInv /\ [Next]_vars => [Step]_vars
  <2> SUFFICES ASSUME IInv, Next PROVE Step
    OBVIOUS
  <2> USE DEF IInv, TypeOK
  <2>1. CASE Loop
    BY <2>1 DEF Loop, Receive, LookupHit, LookupMiss, DialOk, DialError,
                WriteTarget, ReceiveError, tableVars
  <2>2. ASSUME NEW r \in Sessions, Replier(r) PROVE Step
    BY <2>2 DEF Replier, ReplyRead, ReplyRefresh, ReplyWrite, ReplyWriteError,
                ReplyReadError, ReplyUnmap, ReplyClose, tableVars
  <2>3. CASE Reap
    <3> SUFFICES ASSUME NEW s \in Sessions, conn[s] = "open",
                        conn'[s] = "closed", ~Unrecorded(s)
                 PROVE  quiet[s] > udpSessionIdleTimeout
      OBVIOUS
    <3>1. Mapped(s) /\ idle[s] > udpSessionIdleTimeout
      BY <2>3 DEF Reap, Expired
    <3>2. sessions[owner[s]] = s
      BY <3>1, NoSessionAssumption DEF Mapped, MappedIsOpen
    <3>3. idle[s] <= quiet[s]
      BY <3>2 DEF AgesAgree
    <3>4. idle[s] \in Nat /\ quiet[s] \in Nat
      BY AgesFacts
    <3> QED BY <3>1, <3>3, <3>4, AgesFacts
  <2>4. CASE ReaperStop \/ Cancel \/ CloseListen \/ Tick
    BY <2>4 DEF ReaperStop, Cancel, CloseListen, Tick, tableVars
  <2> QED BY <2>1, <2>2, <2>3, <2>4 DEF Next
<1> QED
  BY <1>1, Invariance, PTL DEF Spec, ReapOnlyQuiet

-----------------------------------------------------------------------------
(* The relay implements the flow table.                                    *)

LEMMA RefineInit == Init => Table!Init
BY DEF Init, Table!Init

LEMMA RefineStep == IInv /\ [Next]_vars => [Table!Next]_(Table!vars)
<1> SUFFICES ASSUME IInv, [Next]_vars
             PROVE  Table!Next \/ UNCHANGED <<sessions, conn>>
  BY DEF Table!vars
<1> USE DEF IInv, TypeOK
\* A successful dial creates a flow: mu has kept the client's slot empty since
\* the lookup.
<1>1. ASSUME NEW s \in Sessions, DialOk(s) PROVE Table!Next
  <2>1. client \in Clients /\ sessions[client] = NoSession
    BY <1>1 DEF DialOk, DialExclusive
  <2>2. Table!Create(client, s)
    BY <1>1, <2>1 DEF DialOk, Table!Create
  <2> QED BY <2>1, <2>2 DEF Table!Next
<1>2. CASE \E c \in Clients : Receive(c)
  BY <1>2 DEF Receive, tableVars
<1>3. CASE LookupHit \/ LookupMiss \/ DialError \/ WriteTarget \/ ReceiveError
  BY <1>3 DEF LookupHit, LookupMiss, DialError, WriteTarget, ReceiveError, tableVars
\* A replier that finds its own session in the map retires that flow; one that
\* finds another or none changes nothing.
<1>4. ASSUME NEW s \in Sessions, ReplyUnmap(s)
      PROVE  Table!Next \/ UNCHANGED <<sessions, conn>>
  <2>1. owner[s] \in Clients /\ conn' = conn
    BY <1>4 DEF ReplyUnmap, SessionShape
  <2>2. CASE sessions[owner[s]] = s
    <3>1. sessions' = [c \in Clients |-> IF c \in {owner[s]} THEN NoSession ELSE sessions[c]]
      BY <1>4, <2>1, <2>2 DEF ReplyUnmap
    <3>2. conn' = [t \in Sessions |->
                     IF FALSE /\ \E c \in {owner[s]} : sessions[c] = t
                     THEN "closed" ELSE conn[t]]
      BY <2>1
    <3>3. Table!Retire({owner[s]}, FALSE)
      BY <2>1, <2>2, <3>1, <3>2, NoSessionAssumption DEF Table!Retire
    <3>4. {owner[s]} \in SUBSET Clients /\ FALSE \in BOOLEAN
      BY <2>1
    <3> QED BY <3>3, <3>4 DEF Table!Next
  <2>3. CASE sessions[owner[s]] # s
    BY <1>4, <2>1, <2>3 DEF ReplyUnmap
  <2> QED BY <2>2, <2>3
\* It closes its socket when the flow is gone, if the reaper has not.
<1>5. ASSUME NEW s \in Sessions, ReplyClose(s)
      PROVE  Table!Next \/ UNCHANGED <<sessions, conn>>
  <2>1. \A c \in Clients : sessions[c] # s
    BY <1>5, NoSessionAssumption DEF ReplyClose, SessionShape, MappedIsOpen
  <2>2. sessions' = sessions /\ conn' = [conn EXCEPT ![s] = "closed"]
    BY <1>5 DEF ReplyClose
  <2>3. conn[s] \in {"open", "closed"}
    BY <1>5 DEF ReplyClose, SessionShape
  <2>4. CASE conn[s] = "open"
    BY <2>1, <2>2, <2>4 DEF Table!Close, Table!Next
  <2>5. CASE conn[s] = "closed"
    BY <2>2, <2>5
  <2> QED BY <2>3, <2>4, <2>5
<1>6. ASSUME NEW s \in Sessions,
             ReplyRead(s) \/ ReplyRefresh(s) \/ ReplyWrite(s) \/ ReplyWriteError(s)
               \/ ReplyReadError(s)
      PROVE  UNCHANGED <<sessions, conn>>
  BY <1>6 DEF ReplyRead, ReplyRefresh, ReplyWrite, ReplyWriteError, ReplyReadError, tableVars
\* The reaper retires every expired flow and closes their sockets in one step.
<1>7. CASE Reap
  <2> DEFINE C == {c \in Clients : sessions[c] # NoSession /\ Expired(sessions[c])}
  <2>1. sessions' = [c \in Clients |-> IF c \in C THEN NoSession ELSE sessions[c]]
    BY <1>7 DEF Reap
  <2>2. \A s \in Sessions : (Mapped(s) /\ Expired(s)) <=> \E c \in C : sessions[c] = s
    BY NoSessionAssumption DEF Mapped
  <2>3. conn' = [s \in Sessions |->
                   IF TRUE /\ \E c \in C : sessions[c] = s THEN "closed" ELSE conn[s]]
    BY <1>7, <2>2 DEF Reap
  <2>4. Table!Retire(C, TRUE)
    BY <2>1, <2>3 DEF Table!Retire
  <2>5. C \in SUBSET Clients /\ TRUE \in BOOLEAN
    OBVIOUS
  <2> QED BY <2>4, <2>5 DEF Table!Next
<1>8. CASE ReaperStop \/ Cancel \/ CloseListen \/ Tick
  BY <1>8 DEF ReaperStop, Cancel, CloseListen, Tick, tableVars
<1>9. CASE UNCHANGED vars
  BY <1>9 DEF vars, tableVars
<1> QED
  BY <1>1, <1>2, <1>3, <1>4, <1>5, <1>6, <1>7, <1>8, <1>9 DEF Next, Loop, Replier

\* The receive loop, the repliers and the reaper together are a flow table: a
\* client's flow is created only in an empty slot and with an unused socket,
\* and a socket is closed only as or after its flow leaves the table.
THEOREM TableImplemented == Spec => ImplementsTable
BY RefineInit, RefineStep, Invariance, PTL DEF Spec, ImplementsTable, Table!Spec
=============================================================================
