-------------------------------- MODULE Pipe --------------------------------
(***************************************************************************)
(* The relaying phase of one connection, from the moment both connections  *)
(* are up until the handler has closed them: pipeConn (TCP, TLS and DTLS   *)
(* relays), pipeSOCKS, and the pipe written out in handleConnect.  They    *)
(* run the same two goroutines, one logx.Copy per direction, and differ in *)
(* whether a goroutine can shut down its destination's write half when its *)
(* copy ends.                                                              *)
(*                                                                         *)
(* Direction "up" is client to target, "down" is target to client.  Data   *)
(* is counted in chunks: streams are FIFO and no copy looks inside them.   *)
(* A "reset" peer is one whose connection is broken, both for reading from *)
(* it and for writing to it.                                               *)
(***************************************************************************)
EXTENDS Naturals

CONSTANTS
    Kinds,      \* the kinds of connection considered, a subset of AllKinds
    MaxChunks   \* bound: chunks a peer sends before it ends its stream

\* tcp          TCP relay, TLS or none toward either side, no TLS to wait for
\* tls          TCP relay with TLS termination: the client's handshake runs
\*              inside the first Read or Write of the accepted connection
\* dtls         DTLS relay (no connection of it has CloseWrite)
\* socks        SOCKS frontend, direct or through a SOCKS upstream
\* socksViaHTTP SOCKS frontend through an HTTP upstream: the target side is a
\*              bufferedConn, which embeds net.Conn and so has no CloseWrite
\* connect      HTTP CONNECT frontend: its pipe never half-closes
AllKinds == {"tcp", "tls", "dtls", "socks", "socksViaHTTP", "connect"}

ASSUME KindsAssumption == Kinds \subseteq AllKinds
ASSUME MaxChunksAssumption == MaxChunks \in Nat

Dirs == {"up", "down"}
Opposite(d) == IF d = "up" THEN "down" ELSE "up"

\* Whether the goroutine of direction d finds a CloseWrite on its destination:
\* in pipeConn a net.TCPConn or tls.Conn has one, a UDP or DTLS one has not;
RelayHalfCloses(k, d) == k \in {"tcp", "tls"}

\* in pipeSOCKS the client has one, the target unless it is a bufferedConn;
SOCKSHalfCloses(k, d) == k = "socks" \/ (k = "socksViaHTTP" /\ d = "down")

\* the pipe of handleConnect does not look for one.
ConnectHalfCloses(k, d) == FALSE

HalfCloses(k, d) ==
    RelayHalfCloses(k, d) \/ SOCKSHalfCloses(k, d) \/ ConnectHalfCloses(k, d)

VARIABLES
    kind,
    produced,   \* chunks sent by the source peer of each direction
    ended,      \* how that peer ended its stream: "no", "fin" or "reset"
    shaken,     \* the client's TLS handshake is complete
    copier,     \* control state of each goroutine
    rerr,       \* the error that came with the chunk being written, if any
    delivered,  \* chunks written to the destination
    result,     \* what Copy returned
    wclose,     \* outcome of the half-close of the destination
    handler     \* "piping", or "closed": wg.Wait and the deferred Closes ran

peerVars == <<produced, ended, shaken>>
vars == <<kind, peerVars, copier, rerr, delivered, result, wclose, handler>>

\* The variables have their types, and no copy writes what was not sent.
TypeOK ==
    /\ kind \in Kinds
    /\ produced \in [Dirs -> 0 .. MaxChunks]
    /\ ended \in [Dirs -> {"no", "fin", "reset"}]
    /\ shaken \in BOOLEAN
    /\ copier \in [Dirs -> {"read", "write", "closeWrite", "done"}]
    /\ rerr \in [Dirs -> {"none", "eof", "err"}]
    /\ delivered \in [Dirs -> 0 .. MaxChunks]
    /\ result \in [Dirs -> {"none", "nil", "rerr", "werr"}]
    /\ wclose \in [Dirs -> {"none", "sent", "unsupported", "failed"}]
    /\ handler \in {"piping", "closed"}
    /\ \A d \in Dirs : delivered[d] <= produced[d]

Init ==
    /\ kind \in Kinds
    /\ produced = [d \in Dirs |-> 0]
    /\ ended = [d \in Dirs |-> "no"]
    /\ shaken = (kind # "tls")
    /\ copier = [d \in Dirs |-> "read"]
    /\ rerr = [d \in Dirs |-> "none"]
    /\ delivered = [d \in Dirs |-> 0]
    /\ result = [d \in Dirs |-> "none"]
    /\ wclose = [d \in Dirs |-> "none"]
    /\ handler = "piping"

-----------------------------------------------------------------------------
(* The peers.                                                              *)

Produce(d) ==
    /\ ended[d] = "no"
    /\ d = "up" => shaken
    /\ produced[d] < MaxChunks
    /\ produced' = [produced EXCEPT ![d] = @ + 1]
    /\ UNCHANGED <<kind, ended, shaken, copier, rerr, delivered, result, wclose, handler>>

\* The peer shuts down its sending side (a TLS or DTLS peer: close_notify).
Finish(d) ==
    /\ ended[d] = "no"
    /\ d = "up" => shaken
    /\ ended' = [ended EXCEPT ![d] = "fin"]
    /\ UNCHANGED <<kind, produced, shaken, copier, rerr, delivered, result, wclose, handler>>

\* The peer's connection breaks, a failed TLS handshake included.
Reset(d) ==
    /\ ended[d] # "reset"
    /\ ended' = [ended EXCEPT ![d] = "reset"]
    /\ UNCHANGED <<kind, produced, shaken, copier, rerr, delivered, result, wclose, handler>>

\* The client completes the handshake; the up copy's first Read runs it.
Handshake ==
    /\ ~shaken
    /\ ended["up"] = "no"
    /\ copier["up"] = "read"
    /\ shaken' = TRUE
    /\ UNCHANGED <<kind, produced, ended, copier, rerr, delivered, result, wclose, handler>>

-----------------------------------------------------------------------------
(* logx.Copy, one per direction.                                           *)

Unread(d) == produced[d] - delivered[d]

\* What src.Read may report along with data: nothing; io.EOF with the last
\* chunk; an error once the connection is broken.
ErrorsWithData(d) ==
    {"none"}
    \cup (IF ended[d] = "fin" /\ Unread(d) = 1 THEN {"eof"} ELSE {})
    \cup (IF ended[d] = "reset" THEN {"err"} ELSE {})

\* Mutant of ReadChunk: the error is looked at before the data.
ReadChunk_ErrorFirst(d) ==
    /\ copier[d] = "read"
    /\ d = "up" => shaken
    /\ Unread(d) > 0
    /\ \E e \in ErrorsWithData(d) :
          /\ copier' = [copier EXCEPT ![d] = IF e = "none" THEN "write" ELSE "closeWrite"]
          /\ result' = [result EXCEPT ![d] =
                          CASE e = "none" -> "none" [] e = "eof" -> "nil" [] e = "err" -> "rerr"]
    /\ UNCHANGED <<kind, peerVars, rerr, delivered, wclose, handler>>

\* Read returns n > 0: the chunk is written before the error is looked at.
ReadChunk(d) ==
    /\ copier[d] = "read"
    /\ d = "up" => shaken
    /\ Unread(d) > 0
    /\ \E e \in ErrorsWithData(d) : rerr' = [rerr EXCEPT ![d] = e]
    /\ copier' = [copier EXCEPT ![d] = "write"]
    /\ UNCHANGED <<kind, peerVars, delivered, result, wclose, handler>>

\* Mutant of ReadEnd: only io.EOF ends the loop, another error is retried.
ReadEnd_OnlyEOF(d) ==
    /\ copier[d] = "read"
    /\ ended[d] = "fin" /\ Unread(d) = 0
    /\ result' = [result EXCEPT ![d] = "nil"]
    /\ copier' = [copier EXCEPT ![d] = "closeWrite"]
    /\ UNCHANGED <<kind, peerVars, rerr, delivered, wclose, handler>>

\* Read returns no data and an error, or io.EOF after the last chunk.
ReadEnd(d) ==
    /\ copier[d] = "read"
    /\ \/ /\ ended[d] = "fin" /\ Unread(d) = 0
          /\ result' = [result EXCEPT ![d] = "nil"]
       \/ /\ ended[d] = "reset"
          /\ result' = [result EXCEPT ![d] = "rerr"]
    /\ copier' = [copier EXCEPT ![d] = "closeWrite"]
    /\ UNCHANGED <<kind, peerVars, rerr, delivered, wclose, handler>>

\* Write succeeds: go on reading, unless the Read had also reported an error.
\* A Write toward a TLS client waits for the handshake.
WriteChunk(d) ==
    /\ copier[d] = "write"
    /\ ended[Opposite(d)] # "reset"
    /\ d = "down" => shaken
    /\ delivered' = [delivered EXCEPT ![d] = @ + 1]
    /\ \/ /\ rerr[d] = "none"
          /\ copier' = [copier EXCEPT ![d] = "read"]
          /\ UNCHANGED result
       \/ /\ rerr[d] # "none"
          /\ copier' = [copier EXCEPT ![d] = "closeWrite"]
          /\ result' = [result EXCEPT ![d] = IF rerr[d] = "eof" THEN "nil" ELSE "rerr"]
    /\ UNCHANGED <<kind, peerVars, rerr, wclose, handler>>

\* Write fails, or is short: the copy ends, whatever the Read had reported.  A
\* stream writes all or is broken; a datagram may be too large for a living peer.
WriteError(d) ==
    /\ copier[d] = "write"
    /\ ended[Opposite(d)] = "reset" \/ kind = "dtls"
    /\ copier' = [copier EXCEPT ![d] = "closeWrite"]
    /\ result' = [result EXCEPT ![d] = "werr"]
    /\ UNCHANGED <<kind, peerVars, rerr, delivered, wclose, handler>>

-----------------------------------------------------------------------------
(* The goroutines around Copy, and the handler.                            *)

\* Mutant of CloseWrite: the half-close is left out when Copy failed.
CloseWrite_OnlyOnNil(d) ==
    /\ copier[d] = "closeWrite"
    /\ copier' = [copier EXCEPT ![d] = "done"]
    /\ wclose' = [wclose EXCEPT ![d] =
                    IF result[d] # "nil" THEN "none"
                    ELSE IF ~HalfCloses(kind, d) THEN "unsupported"
                    ELSE IF ended[Opposite(d)] = "reset" \/ (d = "down" /\ ~shaken)
                         THEN "failed" ELSE "sent"]
    /\ UNCHANGED <<kind, peerVars, rerr, delivered, result, handler>>

\* The goroutine drops Copy's error and half-closes its destination if that
\* has a CloseWrite.  tls.Conn refuses one before its handshake is complete.
CloseWrite(d) ==
    /\ copier[d] = "closeWrite"
    /\ copier' = [copier EXCEPT ![d] = "done"]
    /\ wclose' = [wclose EXCEPT ![d] =
                    IF ~HalfCloses(kind, d) THEN "unsupported"
                    ELSE IF ended[Opposite(d)] = "reset" \/ (d = "down" /\ ~shaken)
                         THEN "failed" ELSE "sent"]
    /\ UNCHANGED <<kind, peerVars, rerr, delivered, result, handler>>

\* Mutant of HandlerClose: the handler waits for one direction only.
HandlerClose_First ==
    /\ handler = "piping"
    /\ \E d \in Dirs : copier[d] = "done"
    /\ handler' = "closed"
    /\ UNCHANGED <<kind, peerVars, copier, rerr, delivered, result, wclose>>

\* wg.Wait returns and the handler's deferred Closes close both connections.
HandlerClose ==
    /\ handler = "piping"
    /\ \A d \in Dirs : copier[d] = "done"
    /\ handler' = "closed"
    /\ UNCHANGED <<kind, peerVars, copier, rerr, delivered, result, wclose>>

Copier(d) ==
    ReadChunk(d) \/ ReadEnd(d) \/ WriteChunk(d) \/ WriteError(d) \/ CloseWrite(d)

Peer(d) == Produce(d) \/ Finish(d) \/ Reset(d)

Next ==
    \/ \E d \in Dirs : Peer(d) \/ Copier(d)
    \/ Handshake
    \/ HandlerClose

Spec == Init /\ [][Next]_vars

\* Goroutines that can run do run, and a peer that is alive takes what is
\* written to it.  Nothing is assumed of when peers send, end or break.
FairSpec ==
    /\ Spec
    /\ \A d \in Dirs : WF_vars(Copier(d))
    /\ WF_vars(HandlerClose)

-----------------------------------------------------------------------------
(* Properties.                                                             *)

\* The destination of direction d has been shown the end of the stream.
Told(d) == wclose[d] = "sent" \/ handler = "closed"

\* A peer that is still there sees end-of-stream only when the other side's
\* stream is over, and, if that side ended it in order, after every chunk of
\* it.  A half-close or the handler's Close never truncates a stream; a DTLS
\* relay may end early on a datagram it could not write.
EOFOnlyAtEnd ==
    \A d \in Dirs : Told(d) /\ ended[Opposite(d)] # "reset" =>
        \/ ended[d] = "reset"
        \/ ended[d] = "fin" /\ delivered[d] = produced[d]
        \/ kind = "dtls" /\ result[d] = "werr"

\* Copy reports success only for a complete stream: everything the source
\* sent before its end was written.  (An error of Read that comes with data
\* does not cost that data.)
NilMeansComplete ==
    \A d \in Dirs : result[d] = "nil" => delivered[d] = produced[d]

\* The end of one side's stream, in order or broken, reaches the other side,
\* unless the kind cannot half-close, the half-close came before the client's
\* TLS handshake, or the other side broke too.
EndPropagates ==
    \A d \in Dirs : ended[d] # "no" ~>
        \/ Told(d)
        \/ wclose[d] = "unsupported" \/ wclose[d] = "failed"
        \/ ended[Opposite(d)] = "reset"
        \/ ~shaken

\* Once both peers are done, the handler closes both connections and returns:
\* no direction waits for the other for ever.
HandlerEnds ==
    (\A d \in Dirs : ended[d] # "no") ~> handler = "closed"
=============================================================================
