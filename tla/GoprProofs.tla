----------------------------- MODULE GoprProofs -----------------------------
(***************************************************************************)
(* TLAPS proofs about Gopr, for any number of groups and any command line: *)
(* the type invariant, CancelIsClean and NilMeansStopped; and no listener  *)
(* is ever stuck with its error.                                           *)
(***************************************************************************)
EXTENDS Gopr, TLAPS

-----------------------------------------------------------------------------
(* The inductive invariant.                                                *)

\* Only the listeners of the command line exist.
PlanShape ==
    \A g \in Groups, k \in Kinds : serve[g][k] # "off" => k \in plan[g]

\* done is closed when every listener of the group has ended, for good.
DoneShape ==
    \A g \in Groups : done[g] => \A k \in plan[g] : serve[g][k] = "finished"

\* A socket found closed in Accept was closed for a cancellation.
ClosedShape ==
    \A g \in Groups, k \in Kinds :
        serve[g][k] = "serving" /\ socket[g][k] = "closed" => ctxDone

\* An error, wherever it is on its way to main, comes from a failed listener.
ErrShape ==
    \A g \in Groups :
        /\ errCh[g] > 0 => g \in failed
        /\ run[g] = "err" => g \in failed
        /\ \A k \in Kinds : serve[g][k] = "err" => g \in failed

IInv ==
    /\ TypeOK
    /\ PlanShape
    /\ DoneShape
    /\ ClosedShape
    /\ ErrShape
    /\ NilMeansStopped

LEMMA PlanFacts ==
    ASSUME TypeOK, NEW g \in Groups
    PROVE  /\ plan[g] \in AllPlans /\ plan[g] \subseteq Kinds
           /\ ~Relay(plan[g]) => \A j, k \in plan[g] : j = k
<1>1. plan[g] \in AllPlans
  BY PlansAssumption DEF TypeOK
<1> QED BY <1>1 DEF AllPlans, Kinds, Relay

LEMMA InvInit == Init => IInv
<1> SUFFICES ASSUME Init PROVE IInv
  OBVIOUS
<1>1. TypeOK
  <2>1. ctxDone \in BOOLEAN /\ done \in [Groups -> BOOLEAN]
    BY DEF Init
  <2>2. errCh \in [Groups -> 0 .. ErrCap]
    BY DEF Init, ErrCap
  <2> QED BY <2>1, <2>2 DEF Init, TypeOK, Returned
<1>2. PlanShape /\ DoneShape /\ ClosedShape
  BY DEF Init, PlanShape, DoneShape, ClosedShape
<1>3. ErrShape /\ NilMeansStopped
  BY DEF Init, ErrShape, NilMeansStopped
<1> QED BY <1>1, <1>2, <1>3 DEF IInv

LEMMA InvStep == IInv /\ [Next]_vars => IInv'
<1> SUFFICES ASSUME IInv, [Next]_vars PROVE IInv'
  OBVIOUS
<1> USE DEF IInv, TypeOK, PlanShape, DoneShape, ClosedShape, ErrShape, NilMeansStopped, ErrCap,
            Returned
<1>1. ASSUME NEW g \in Groups, NEW k \in Kinds, Listener(g, k) PROVE IInv'
  <2>0. plan[g] \in AllPlans /\ plan[g] \subseteq Kinds
    BY PlanFacts
  <2>1. CASE Bind(g, k)
    BY <2>1, <2>0 DEF Bind
  <2>2. CASE BindError(g, k)
    BY <2>2, <2>0 DEF BindError
  <2>3. CASE AcceptFails(g, k)
    BY <2>3, <2>0 DEF AcceptFails
  <2>4. CASE AcceptClosed(g, k)
    BY <2>4, <2>0 DEF AcceptClosed
  <2>5. CASE CloseSocket(g, k)
    BY <2>5, <2>0 DEF CloseSocket
  <2>6. CASE SendErr(g, k)
    BY <2>6, <2>0 DEF SendErr
  <2>7. CASE Finish(g, k)
    BY <2>7, <2>0 DEF Finish
  <2>8. CASE ProxyReturn(g, k)
    <3>1. /\ serve[g][k] \in {"nil", "err"} /\ k \in plan[g] /\ ~Relay(plan[g])
          /\ run' = [run EXCEPT ![g] = serve[g][k]]
          /\ serve' = [serve EXCEPT ![g][k] = "finished"]
          /\ UNCHANGED <<plan, ctxDone, socket, errCh, done, main, failed>>
      BY <2>8 DEF ProxyReturn
    <3>2. \A j \in plan[g] : j = k
      <4>1. TypeOK
        OBVIOUS
      <4> HIDE DEF IInv, TypeOK, PlanShape, DoneShape, ClosedShape, ErrShape, NilMeansStopped
      <4> QED BY <3>1, <4>1, PlanFacts
    <3>3. /\ \A h \in Groups, j \in Kinds :
                serve'[h][j] = IF h = g /\ j = k THEN "finished" ELSE serve[h][j]
          /\ \A h \in Groups : run'[h] = IF h = g THEN serve[g][k] ELSE run[h]
      BY <3>1
    <3>4. TypeOK'
      BY <3>1
    <3>5. PlanShape' /\ DoneShape' /\ ClosedShape'
      BY <2>0, <3>1, <3>3
    <3>6. ErrShape'
      BY <3>1, <3>3
    <3>7. NilMeansStopped'
      BY <2>0, <3>1, <3>2, <3>3
    <3> QED BY <3>4, <3>5, <3>6, <3>7
  <2> QED BY <1>1, <2>1, <2>2, <2>3, <2>4, <2>5, <2>6, <2>7, <2>8 DEF Listener
<1>2. ASSUME NEW g \in Groups, BindTooLate(g) PROVE IInv'
  BY <1>2 DEF BindTooLate, Kinds
<1>3. ASSUME NEW g \in Groups, ServeFails(g) PROVE IInv'
  BY <1>3 DEF ServeFails, Kinds
<1>4. ASSUME NEW g \in Groups, CloseDone(g) PROVE IInv'
  <2>1. /\ done' \in [Groups -> BOOLEAN]
        /\ \A h \in Groups : h # g => done'[h] = done[h]
    BY <1>4 DEF CloseDone
  <2>2. /\ \A k \in plan[g] : serve[g][k] = "finished"
        /\ run' = [run EXCEPT ![g] = IF @ = "select" THEN "nil" ELSE @]
        /\ UNCHANGED <<plan, ctxDone, serve, socket, errCh, main, failed>>
    BY <1>4 DEF CloseDone
  <2> QED BY <2>1, <2>2
<1>5. ASSUME NEW g \in Groups, Select(g) PROVE IInv'
  <2>1. PICK r \in {"select", "err", "nil", "cancelled"} :
            /\ run' = [run EXCEPT ![g] = r]
            /\ r = "err" => errCh[g] > 0
            /\ r = "nil" => done[g]
    BY <1>5 DEF Select, Ready
  <2>2. UNCHANGED <<plan, ctxDone, serve, socket, errCh, done, main, failed>>
    BY <1>5 DEF Select
  <2> QED BY <2>1, <2>2
<1>6. ASSUME NEW g \in Groups, AwaitDone(g) PROVE IInv'
  BY <1>6 DEF AwaitDone
<1>7. CASE Cancel
  BY <1>7 DEF Cancel
<1>8. CASE Exit
  BY <1>8 DEF Exit
<1>9. CASE UNCHANGED vars
  BY <1>9 DEF vars
<1> QED
  BY <1>1, <1>2, <1>3, <1>4, <1>5, <1>6, <1>7, <1>8, <1>9 DEF Next

LEMMA Invariance == Spec => []IInv
BY InvInit, InvStep, PTL DEF Spec

-----------------------------------------------------------------------------
(* errCh has room.                                                         *)

\* A buffered error is one of a listener that has sent it.
Spent(g, k) == IF serve[g][k] \in {"sent", "finished"} THEN 1 ELSE 0
ErrCount == \A g \in Groups : errCh[g] <= Spent(g, "tcp") + Spent(g, "udp")

\* A relay's listener that holds an error finds a select waiting for it or room
\* in errCh.
SenderFree ==
    \A g \in Groups, k \in Kinds :
        serve[g][k] = "err" /\ Relay(plan[g]) => run[g] = "select" \/ errCh[g] < ErrCap

-----------------------------------------------------------------------------
(* The theorems.                                                           *)

\* The process's variables keep their types; in particular errCh never holds
\* more than its capacity.
THEOREM TypeCorrect == Spec => []TypeOK
BY Invariance, PTL DEF IInv

\* Status 1 means that a listener failed of its own: a cancellation alone never
\* makes main report an error.
THEOREM CancelIsCleanHolds == Spec => []CancelIsClean
<1>1. IInv => CancelIsClean
  BY DEF IInv, ErrShape, CancelIsClean, ExitStatus
<1> QED BY <1>1, Invariance, PTL

\* relay.Run, RunSOCKS and RunHTTP return nil only when none of the group's
\* listeners is binding or serving.
THEOREM NilMeansStoppedHolds == Spec => []NilMeansStopped
BY Invariance, PTL DEF IInv

\* No listener of a relay is ever stuck with its error, however many fail and
\* whether or not relay.Run still receives: two listeners, and a buffer of two.
THEOREM SenderFreeHolds == Spec => []SenderFree
<1>1. Init => ErrCount
  <2> SUFFICES ASSUME Init, NEW g \in Groups PROVE errCh[g] <= Spent(g, "tcp") + Spent(g, "udp")
    BY DEF ErrCount
  <2>1. errCh[g] = 0
    BY DEF Init
  <2>2. Spent(g, "tcp") \in Nat /\ Spent(g, "udp") \in Nat
    BY DEF Spent
  <2> QED BY <2>1, <2>2
<1>2. IInv /\ ErrCount /\ [Next]_vars => ErrCount'
  <2> SUFFICES ASSUME IInv, ErrCount, [Next]_vars, NEW h \in Groups
               PROVE  errCh'[h] <= (Spent(h, "tcp") + Spent(h, "udp"))'
    BY DEF ErrCount
  <2>1. /\ serve \in [Groups -> [Kinds -> {"off", "binding", "serving", "nil", "err", "sent", "finished"}]]
        /\ errCh \in [Groups -> 0 .. 2] /\ "tcp" \in Kinds /\ "udp" \in Kinds
    BY DEF IInv, TypeOK, ErrCap, Kinds
  <2>2. errCh[h] \in Nat /\ errCh[h] <= Spent(h, "tcp") + Spent(h, "udp")
    BY <2>1 DEF ErrCount
  \* Nobody forgets that it has sent.
  <2>3. \A k \in Kinds : serve[h][k] \in {"sent", "finished"} => serve'[h][k] \in {"sent", "finished"}
    BY <2>1 DEF Next, Listener, vars, Bind, BindError, AcceptFails, AcceptClosed, CloseSocket, SendErr,
       Finish, ProxyReturn, BindTooLate, ServeFails, CloseDone, Select, AwaitDone, Cancel, Exit, Returned
  <2>4. CASE errCh'[h] = errCh[h]
    BY <2>1, <2>2, <2>3, <2>4 DEF Spent
  <2>5. ASSUME NEW g \in Groups, NEW k \in Kinds, SendErr(g, k), errCh'[h] # errCh[h]
        PROVE  errCh'[h] <= (Spent(h, "tcp") + Spent(h, "udp"))'
    <3>1. /\ g = h /\ serve[h][k] = "err" /\ serve'[h][k] = "sent" /\ errCh'[h] = errCh[h] + 1
      BY <2>1, <2>5 DEF SendErr
    <3>2. k \in {"tcp", "udp"}
      BY <2>5, <3>1 DEF SendErr, Relay, IInv, PlanShape
    <3> QED BY <2>1, <2>2, <2>3, <3>1, <3>2 DEF Spent
  <2>6. errCh'[h] = errCh[h] \/ \E g \in Groups, k \in Kinds : SendErr(g, k)
    BY DEF Next, Listener, vars, Bind, BindError, AcceptFails, AcceptClosed, CloseSocket,
       Finish, ProxyReturn, BindTooLate, ServeFails, CloseDone, Select, AwaitDone, Cancel, Exit
  <2> QED BY <2>4, <2>5, <2>6
<1>3. IInv /\ ErrCount => SenderFree
  <2> SUFFICES ASSUME IInv, ErrCount, NEW g \in Groups, NEW k \in Kinds,
                      serve[g][k] = "err", Relay(plan[g])
               PROVE  errCh[g] < 2
    BY DEF SenderFree, ErrCap
  <2>1. k \in {"tcp", "udp"}
    BY DEF Relay, IInv, PlanShape
  <2>2. errCh[g] \in Nat /\ errCh[g] <= Spent(g, "tcp") + Spent(g, "udp")
    BY DEF IInv, TypeOK, ErrCount, ErrCap
  <2> QED BY <2>1, <2>2 DEF Spent
<1> QED BY <1>1, <1>2, <1>3, Invariance, PTL DEF Spec
=============================================================================
