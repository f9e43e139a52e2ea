----------------------------- MODULE PipeProofs -----------------------------
(***************************************************************************)
(* TLAPS proofs about Pipe, for every set of kinds and every length of the *)
(* streams: no pipe truncates a stream, invents its end, or spins.         *)
(***************************************************************************)
EXTENDS Pipe, TLAPS

\* Why a copy ended: the strengthening that ties what Copy returned, and the
\* error it still holds while it writes, to what the peers did.
CopyOutcome ==
    \A d \in Dirs :
        /\ copier[d] \in {"closeWrite", "done"} <=> result[d] # "none"
        /\ result[d] = "nil" => ended[d] # "no" /\ delivered[d] = produced[d]
        /\ result[d] = "rerr" => ended[d] = "reset"
        /\ result[d] = "werr" => ended[Opposite(d)] = "reset" \/ kind = "dtls"

HeldChunk ==
    \A d \in Dirs : copier[d] = "write" =>
        /\ delivered[d] < produced[d]
        /\ rerr[d] = "eof" => ended[d] # "no" /\ produced[d] = delivered[d] + 1
        /\ rerr[d] = "err" => ended[d] = "reset"

\* An end is signalled only by a goroutine past its copy.
EndSignalled ==
    /\ \A d \in Dirs : wclose[d] = "sent" => copier[d] = "done"
    /\ handler = "closed" => \A d \in Dirs : copier[d] = "done"

IInv == TypeOK /\ CopyOutcome /\ HeldChunk /\ EndSignalled

LEMMA OppositeFacts ==
    \A d \in Dirs : Opposite(d) \in Dirs /\ Opposite(d) # d
BY DEF Dirs, Opposite

LEMMA InvInit == Init => IInv
<1> SUFFICES ASSUME Init PROVE IInv
  OBVIOUS
<1>1. shaken \in BOOLEAN
  BY DEF Init
<1>2. TypeOK
  BY <1>1, MaxChunksAssumption DEF Init, TypeOK
<1> QED
  BY <1>2 DEF Init, IInv, CopyOutcome, HeldChunk, EndSignalled

LEMMA InvStep == IInv /\ [Next]_vars => IInv'
<1> SUFFICES ASSUME IInv, [Next]_vars PROVE IInv'
  OBVIOUS
<1> USE OppositeFacts, MaxChunksAssumption
    DEF IInv, TypeOK, CopyOutcome, HeldChunk, EndSignalled
<1>1. ASSUME NEW d \in Dirs, Produce(d) PROVE IInv'
  BY <1>1 DEF Produce
<1>2. ASSUME NEW d \in Dirs, Finish(d) PROVE IInv'
  BY <1>2 DEF Finish
<1>3. ASSUME NEW d \in Dirs, Reset(d) PROVE IInv'
  BY <1>3 DEF Reset
<1>4. ASSUME NEW d \in Dirs, ReadChunk(d) PROVE IInv'
  <2>1. PICK e \in ErrorsWithData(d) : rerr' = [rerr EXCEPT ![d] = e]
    BY <1>4 DEF ReadChunk
  <2>2. /\ e \in {"none", "eof", "err"}
        /\ e = "eof" => ended[d] = "fin" /\ Unread(d) = 1
        /\ e = "err" => ended[d] = "reset"
    BY DEF ErrorsWithData
  <2> QED BY <1>4, <2>1, <2>2 DEF ReadChunk, Unread, peerVars
<1>5. ASSUME NEW d \in Dirs, ReadEnd(d) PROVE IInv'
  BY <1>5 DEF ReadEnd, Unread, peerVars
<1>6. ASSUME NEW d \in Dirs, WriteChunk(d) PROVE IInv'
  BY <1>6 DEF WriteChunk, peerVars
<1>7. ASSUME NEW d \in Dirs, WriteError(d) PROVE IInv'
  BY <1>7 DEF WriteError, peerVars
<1>8. ASSUME NEW d \in Dirs, CloseWrite(d) PROVE IInv'
  BY <1>8 DEF CloseWrite, peerVars
<1>9. CASE Handshake
  BY <1>9 DEF Handshake
<1>10. CASE HandlerClose
  BY <1>10 DEF HandlerClose, peerVars
<1>11. CASE UNCHANGED vars
  BY <1>11 DEF vars, peerVars
<1> QED
  BY <1>1, <1>2, <1>3, <1>4, <1>5, <1>6, <1>7, <1>8, <1>9, <1>10, <1>11
  DEF Next, Peer, Copier

LEMMA Invariance == Spec => []IInv
BY InvInit, InvStep, PTL DEF Spec

\* Types are kept, and no copy delivers more than was sent.
THEOREM TypeCorrect == Spec => []TypeOK
BY Invariance, PTL DEF IInv

\* A peer that is still there sees end-of-stream only after the whole of a
\* stream that ended in order, or when the other side broke: in pipeConn, in
\* pipeSOCKS and in handleConnect alike.
THEOREM EOFOnlyAtEndHolds == Spec => []EOFOnlyAtEnd
<1>1. IInv => EOFOnlyAtEnd
  BY OppositeFacts
  DEF IInv, TypeOK, CopyOutcome, EndSignalled, EOFOnlyAtEnd, Told
<1> QED
  BY <1>1, Invariance, PTL

\* Copy returns nil only for a stream it has delivered completely.
THEOREM NilMeansCompleteHolds == Spec => []NilMeansComplete
<1>1. IInv => NilMeansComplete
  BY DEF IInv, CopyOutcome, NilMeansComplete
<1> QED
  BY <1>1, Invariance, PTL

-----------------------------------------------------------------------------
(* A pipe cannot spin.                                                     *)

\* What is at most left to happen to one direction: chunks to produce and to
\* move, the end of its stream, the steps of its goroutine.
EndLeft(d) == CASE ended[d] = "no" -> 2 [] ended[d] = "fin" -> 1 [] ended[d] = "reset" -> 0
CopierLeft(d) ==
    CASE copier[d] = "read" -> 3 [] copier[d] = "write" -> 2
      [] copier[d] = "closeWrite" -> 1 [] copier[d] = "done" -> 0
Left(d) ==
    (MaxChunks - produced[d]) + EndLeft(d) + 2 * (MaxChunks - delivered[d]) + CopierLeft(d)

Rank ==
    Left("up") + Left("down") + (IF shaken THEN 0 ELSE 1) + (IF handler = "piping" THEN 1 ELSE 0)

Progress == Rank \in Nat /\ Rank' \in 0 .. Rank - 1

\* Every step of a peer, a copy or the handler brings the pipe closer to its end:
\* with n chunks from each side it takes at most 6 n + 12 steps.
THEOREM Terminates == Spec => [][Progress]_vars
<1>1. IInv /\ [Next]_vars => [Progress]_vars
  <2> SUFFICES ASSUME IInv, IInv', Next PROVE Progress
    BY InvStep DEF vars
  <2> USE MaxChunksAssumption
  <2> DEFINE Typed == \A d \in Dirs :
                        /\ EndLeft(d) \in 0 .. 2 /\ CopierLeft(d) \in 0 .. 3
                        /\ produced[d] \in 0 .. MaxChunks /\ delivered[d] \in 0 .. MaxChunks
  <2>1. Typed /\ Typed'
    BY DEF IInv, TypeOK, EndLeft, CopierLeft
  <2>2. \A d \in Dirs : Left(d) \in Nat /\ Left(d)' \in Nat
    BY <2>1 DEF Left
  \* A step of one direction leaves the other's variables alone.
  <2> DEFINE Other(d) ==
        LET o == Opposite(d)
        IN  /\ produced'[o] = produced[o] /\ ended'[o] = ended[o]
            /\ delivered'[o] = delivered[o] /\ copier'[o] = copier[o]
  <2>3. ASSUME NEW d \in Dirs, Other(d), UNCHANGED <<shaken, handler>>, Left(d)' < Left(d)
        PROVE  Progress
    <3>1. Left(Opposite(d))' = Left(Opposite(d))
      BY <2>3, Zenon DEF Left, EndLeft, CopierLeft
    <3> QED BY <2>2, <2>3, <3>1 DEF Progress, Rank, Opposite, Dirs
  <2>4. ASSUME NEW d \in Dirs, Produce(d) PROVE Progress
    <3>1. /\ Other(d) /\ UNCHANGED <<shaken, handler>>
          /\ produced'[d] = produced[d] + 1
          /\ ended'[d] = ended[d] /\ delivered'[d] = delivered[d] /\ copier'[d] = copier[d]
      BY <2>4, OppositeFacts DEF Produce, IInv, TypeOK
    <3>2. EndLeft(d)' = EndLeft(d) /\ CopierLeft(d)' = CopierLeft(d)
      BY <3>1, Zenon DEF EndLeft, CopierLeft
    <3>3. Left(d)' < Left(d)
      BY <2>1, <3>1, <3>2 DEF Left
    <3> HIDE DEF Other
    <3> QED BY <2>3, <3>1, <3>3
  <2>5. ASSUME NEW d \in Dirs, Finish(d) \/ Reset(d) PROVE Progress
    <3>1. /\ Other(d) /\ UNCHANGED <<shaken, handler>>
          /\ produced'[d] = produced[d] /\ delivered'[d] = delivered[d] /\ copier'[d] = copier[d]
          /\ \/ ended[d] = "no" /\ ended'[d] \in {"fin", "reset"}
             \/ ended[d] = "fin" /\ ended'[d] = "reset"
      BY <2>5, OppositeFacts DEF Finish, Reset, IInv, TypeOK
    <3>2. EndLeft(d)' < EndLeft(d)
      BY <3>1 DEF EndLeft
    <3>3. CopierLeft(d)' = CopierLeft(d)
      BY <3>1, Zenon DEF CopierLeft
    <3>4. Left(d)' < Left(d)
      BY <2>1, <3>1, <3>2, <3>3 DEF Left
    <3> HIDE DEF Other
    <3> QED BY <2>3, <3>1, <3>4
  <2>6. ASSUME NEW d \in Dirs, Copier(d) PROVE Progress
    <3>1. /\ Other(d) /\ UNCHANGED <<shaken, handler>>
          /\ produced'[d] = produced[d] /\ ended'[d] = ended[d]
          /\ \/ copier[d] = "read" /\ copier'[d] \in {"write", "closeWrite"} /\ delivered'[d] = delivered[d]
             \/ copier[d] = "write" /\ copier'[d] \in {"read", "closeWrite"} /\ delivered'[d] = delivered[d] + 1
             \/ copier[d] = "write" /\ copier'[d] = "closeWrite" /\ delivered'[d] = delivered[d]
             \/ copier[d] = "closeWrite" /\ copier'[d] = "done" /\ delivered'[d] = delivered[d]
      BY <2>6, OppositeFacts DEF Copier, ReadChunk, ReadEnd, WriteChunk, WriteError, CloseWrite, peerVars,
         IInv, TypeOK
    <3>2. EndLeft(d)' = EndLeft(d)
      BY <3>1, Zenon DEF EndLeft
    <3>3. \/ CopierLeft(d)' < CopierLeft(d) /\ delivered'[d] = delivered[d]
          \/ CopierLeft(d)' <= CopierLeft(d) + 1 /\ delivered'[d] = delivered[d] + 1
      BY <3>1 DEF CopierLeft
    <3>4. Left(d)' < Left(d)
      BY <2>1, <3>1, <3>2, <3>3 DEF Left
    <3> HIDE DEF Other
    <3> QED BY <2>3, <3>1, <3>4
  <2>7. CASE Handshake \/ HandlerClose
    <3>1. /\ UNCHANGED <<produced, ended, delivered, copier>>
          /\ \/ shaken' = TRUE /\ ~shaken /\ handler' = handler
             \/ handler = "piping" /\ handler' = "closed" /\ shaken' = shaken
      BY <2>7 DEF Handshake, HandlerClose, peerVars
    <3>2. Left("up")' = Left("up") /\ Left("down")' = Left("down")
      BY <3>1, Zenon DEF Left, EndLeft, CopierLeft
    <3> QED BY <2>2, <3>1, <3>2 DEF Progress, Rank, Dirs
  <2> QED BY <2>4, <2>5, <2>6, <2>7 DEF Next, Peer
<1> QED BY <1>1, Invariance, PTL DEF Spec
=============================================================================
