-------------------------- MODULE MITMSignerProofs --------------------------
(***************************************************************************)
(* TLAPS proofs about MITMSigner, for any number of connections, names and *)
(* certificates: its type invariant, OneLeafPerSigner and RightName; and   *)
(* the lock is never left behind.                                          *)
(***************************************************************************)
EXTENDS MITMSigner, TLAPS

\* mu is held by whoever generates, so there is one at a time in each signer,
\* and the name it generates for is still missing from the cache.
LockHeld ==
    /\ \A t \in Threads : pc[t] = "mint" =>
          locked[half[t]] /\ cache[half[t]][name[t]] = NoLeaf
    /\ \A t, u \in Threads :
          pc[t] = "mint" /\ pc[u] = "mint" /\ half[t] = half[u] => t = u

\* What the cache holds was minted, for the name it is filed under.
CacheSound ==
    \A h \in {"tcp", "udp"}, n \in Names : cache[h][n] # NoLeaf =>
        Minted(cache[h][n]) /\ subject[cache[h][n]] = n

\* The half and the name of a call: those of an active half, and -servername=
\* where it is given.
CallShape ==
    /\ half[Startup] = "udp" /\ name[Startup] = ServerName
    /\ \A t \in Threads :
          /\ pc[t] \in {"lock", "mint"} => half[t] \in Halves
          /\ t # Startup /\ pc[t] = "idle" => half[t] = "tcp"
          /\ pc[t] # "idle" /\ ServerName # NoName => name[t] = ServerName

\* A certificate presented was minted, for the name of the call.
Presented ==
    \A t \in Threads : pc[t] = "served" => Minted(got[t]) /\ subject[got[t]] = name[t]

IInv ==
    /\ TypeOK
    /\ LockHeld
    /\ CacheSound
    /\ CallShape
    /\ Presented
    /\ OneLeafPerSigner

LEMMA InvInit == Init => IInv
<1> SUFFICES ASSUME Init PROVE IInv
  OBVIOUS
<1> USE SetupsAssumption DEF Init, Threads, ServerName, Halves
<1>1. TypeOK
  BY NoNameAssumption DEF TypeOK
<1> QED
  BY <1>1 DEF IInv, LockHeld, CacheSound, CallShape, Presented, OneLeafPerSigner, Minted

LEMMA TypeStep == TypeOK /\ CallShape /\ [Next]_vars => TypeOK'
<1> SUFFICES ASSUME TypeOK, CallShape, [Next]_vars PROVE TypeOK'
  OBVIOUS
<1> USE DEF TypeOK, Threads, ServerName, Halves
<1>0. setup.name \in Names \cup {NoName}
  BY SetupsAssumption
<1>1. ASSUME NEW c \in Conns, NEW sni \in Names \cup {NoName}, ClientHello(c, sni) PROVE TypeOK'
  BY <1>0, <1>1 DEF ClientHello, HostName
<1>2. ASSUME NEW c \in Conns, ClientHelloDTLS(c) PROVE TypeOK'
  BY <1>0, <1>2 DEF ClientHelloDTLS, Present
<1>3. ASSUME NEW t \in Threads, Hit(t) PROVE TypeOK'
  <2>1. cache[half[t]][name[t]] \in Leaves
    BY <1>3 DEF Hit, Free
  <2> QED BY <1>3, <2>1 DEF Hit, Free, Present
<1>4. ASSUME NEW t \in Threads, Miss(t) PROVE TypeOK'
  BY <1>4 DEF Miss, Free
<1>5. ASSUME NEW t \in Threads, NEW l \in Leaves, Mint(t, l) PROVE TypeOK'
  BY <1>5 DEF Mint, Present
<1>6. ASSUME NEW t \in Threads, MintError(t) PROVE TypeOK'
  BY <1>6 DEF MintError
<1>7. CASE UNCHANGED vars
  BY <1>7 DEF vars
<1> QED
  BY <1>1, <1>2, <1>3, <1>4, <1>5, <1>6, <1>7 DEF Next

LEMMA InvStep == IInv /\ [Next]_vars => IInv'
<1> SUFFICES ASSUME IInv, [Next]_vars PROVE IInv'
  OBVIOUS
<1>0. TypeOK'
  BY TypeStep DEF IInv
<1> DEFINE Rest == /\ LockHeld
                   /\ CacheSound
                   /\ CallShape
                   /\ Presented
                   /\ OneLeafPerSigner
<1> SUFFICES Rest'
  BY <1>0 DEF IInv
<1>a. /\ setup.name \in Names \cup {NoName}
      /\ setup.halves \subseteq {"tcp", "udp"}
      /\ "udp" \in setup.halves => setup.name # NoName
      /\ setup' = setup
  BY SetupsAssumption DEF IInv, TypeOK, Next, vars, ClientHello, ClientHelloDTLS, Hit, Miss, Mint,
     MintError
<1> USE <1>a, NoLeafAssumption, NoNameAssumption, StartupAssumption
    DEF ServerName, Halves, IInv, TypeOK, LockHeld, CacheSound, CallShape, Presented, OneLeafPerSigner, Minted, Threads
<1>1. ASSUME NEW c \in Conns, NEW sni \in Names \cup {NoName}, ClientHello(c, sni) PROVE Rest'
  BY <1>1 DEF ClientHello, HostName
<1>2. ASSUME NEW c \in Conns, ClientHelloDTLS(c) PROVE Rest'
  BY <1>2 DEF ClientHelloDTLS, Present
<1>3. ASSUME NEW t \in Threads, Hit(t) PROVE Rest'
  BY <1>3 DEF Hit, Free, Present
<1>4. ASSUME NEW t \in Threads, Miss(t) PROVE Rest'
  BY <1>4 DEF Miss, Free
<1>5. ASSUME NEW t \in Threads, NEW l \in Leaves, Mint(t, l) PROVE Rest'
  <2> USE <1>5 DEF Mint, Present
  <2>1. /\ half[t] \in Halves /\ name[t] \in Names
        /\ cache[half[t]][name[t]] = NoLeaf
    OBVIOUS
  <2>2. subject'[l] # NoName
    BY <2>1
  \* No cache holds l yet, and nobody was shown it: it was not minted.
  <2>3. /\ \A h \in {"tcp", "udp"}, n \in Names : cache[h][n] # l
        /\ \A u \in Threads : pc[u] = "served" => got[u] # l
    OBVIOUS
  <2>4. LockHeld'
    BY <2>1
  <2>5. CacheSound'
    BY <2>1, <2>2, <2>3
  <2>6. CallShape'
    OBVIOUS
  <2>7. Presented'
    BY <2>1, <2>2, <2>3
  <2>8. OneLeafPerSigner'
    BY <2>1, <2>3
  <2> QED BY <2>4, <2>5, <2>6, <2>7, <2>8
<1>6. ASSUME NEW t \in Threads, MintError(t) PROVE Rest'
  BY <1>6 DEF MintError
<1>7. CASE UNCHANGED vars
  BY <1>7 DEF vars
<1> QED
  BY <1>1, <1>2, <1>3, <1>4, <1>5, <1>6, <1>7 DEF Next

LEMMA Invariance == Spec => []IInv
BY InvInit, InvStep, PTL DEF Spec

\* The variables keep their types, and a handshake that goes on has a leaf.
THEOREM TypeCorrect == Spec => []TypeOK
BY Invariance, PTL DEF IInv

\* However many handshakes miss the cache at once, CertificateFor mints one
\* leaf per name in each signer: mu is held across the generation.
THEOREM OneLeafPerSignerHolds == Spec => []OneLeafPerSigner
BY Invariance, PTL DEF IInv

\* Every client is shown a leaf for the name it should see, in both halves.
THEOREM RightNameHolds == Spec => []RightName
<1>1. IInv => RightName
  BY DEF IInv, Presented, CallShape, RightName, ServerName
<1> QED BY <1>1, Invariance, PTL

\* mu is held by somebody: whoever finds it locked waits for a call that is
\* generating, and every return of CertificateFor, the failed ones too, has
\* unlocked it.
LockOwned ==
    \A h \in {"tcp", "udp"} : locked[h] => \E t \in Threads : pc[t] = "mint" /\ half[t] = h

\* The lock is never left behind, by any number of calls, failed or not.
THEOREM LockOwnedHolds == Spec => []LockOwned
<1>1. Init => LockOwned
  BY DEF Init, LockOwned
<1>2. IInv /\ LockOwned /\ [Next]_vars => LockOwned'
  <2> SUFFICES ASSUME IInv, LockOwned, [Next]_vars, NEW h \in {"tcp", "udp"}, locked'[h]
               PROVE  \E t \in Threads : pc'[t] = "mint" /\ half'[t] = h
    BY DEF LockOwned
  <2> USE DEF LockOwned, IInv, TypeOK, LockHeld, Threads
  <2>1. ASSUME NEW c \in Conns, NEW sni \in Names \cup {NoName}, ClientHello(c, sni)
        PROVE  \E t \in Threads : pc'[t] = "mint" /\ half'[t] = h
    BY <2>1 DEF ClientHello
  <2>2. ASSUME NEW c \in Conns, ClientHelloDTLS(c)
        PROVE  \E t \in Threads : pc'[t] = "mint" /\ half'[t] = h
    BY <2>2 DEF ClientHelloDTLS, Present
  <2>3. ASSUME NEW t \in Threads, Hit(t)
        PROVE  \E u \in Threads : pc'[u] = "mint" /\ half'[u] = h
    BY <2>3 DEF Hit, Free, Present
  <2>4. ASSUME NEW t \in Threads, Miss(t)
        PROVE  \E u \in Threads : pc'[u] = "mint" /\ half'[u] = h
    BY <2>4 DEF Miss, Free
  <2>5. ASSUME NEW t \in Threads, MintError(t) \/ \E l \in Leaves : Mint(t, l)
        PROVE  \E u \in Threads : pc'[u] = "mint" /\ half'[u] = h
    <3>1. /\ half' = half /\ pc[t] = "mint"
          /\ locked' = [locked EXCEPT ![half[t]] = FALSE]
          /\ \A u \in Threads : u # t => pc'[u] = pc[u]
      BY <2>5 DEF MintError, Mint, Present
    <3>2. h # half[t] /\ locked[h]
      BY <3>1
    <3>3. PICK u \in Threads : pc[u] = "mint" /\ half[u] = h
      BY <3>2
    <3> QED BY <3>1, <3>2, <3>3
  <2>6. CASE UNCHANGED vars
    BY <2>6 DEF vars
  <2> QED BY <2>1, <2>2, <2>3, <2>4, <2>5, <2>6 DEF Next
<1> QED BY <1>1, <1>2, Invariance, PTL DEF Spec
=============================================================================
