----------------------------- MODULE MITMSigner -----------------------------
(***************************************************************************)
(* Generated certificates (-M -signca=): MITMSigner.CertificateFor with    *)
(* its mutex and cache, called from the GetCertificate callback of every   *)
(* TLS handshake (MITMServerConfig) and once, before it listens, by the    *)
(* DTLS half (MITMServerConfigDTLS), which keeps the certificate for all   *)
(* its handshakes.  Each half of a relay loads a signer of its own         *)
(* (serverTLSConfig, serverDTLSConfig).                                    *)
(***************************************************************************)
CONSTANTS
    Conns,        \* connections, each of one half
    Startup,      \* the DTLS half's call before it listens
    Names,        \* host names
    NoName,       \* the empty name: no SNI, or no -servername=
    Setups,       \* relays to check: [halves, name]
    Leaves,       \* leaf certificates; each is minted once
    NoLeaf

Threads == Conns \cup {Startup}

ASSUME StartupAssumption == Startup \notin Conns
ASSUME NoNameAssumption == NoName \notin Names
ASSUME NoLeafAssumption == NoLeaf \notin Leaves

\* The halves that terminate TLS, and -servername=.  validateSSL rejects -M on a
\* DTLS listener without a name.
ASSUME SetupsAssumption ==
    /\ Setups \subseteq [halves : SUBSET {"tcp", "udp"}, name : Names \cup {NoName}]
    /\ \A s \in Setups : "udp" \in s.halves => s.name # NoName

VARIABLES
    setup,    \* the relay
    half,     \* the half a handshake belongs to
    name,     \* the host name its certificate is asked for
    pc,       \* control state of the call of CertificateFor
    locked,   \* mu is held, for the signer of each half
    cache,    \* the cache of each half's signer
    subject,  \* the host name a leaf was minted for; NoName: not yet minted
    got       \* the leaf presented in a handshake

vars == <<setup, half, name, pc, locked, cache, subject, got>>

ServerName == setup.name
Halves == setup.halves

Minted(l) == subject[l] # NoName

\* Types; and a handshake that goes on has a certificate, for a name that is
\* not empty.
TypeOK ==
    /\ setup \in Setups
    /\ half \in [Threads -> {"tcp", "udp"}]
    /\ name \in [Threads -> Names \cup {NoName}]
    /\ pc \in [Threads -> {"idle", "lock", "mint", "served", "rejected"}]
    /\ locked \in [{"tcp", "udp"} -> BOOLEAN]
    /\ cache \in [{"tcp", "udp"} -> [Names -> Leaves \cup {NoLeaf}]]
    /\ subject \in [Leaves -> Names \cup {NoName}]
    /\ got \in [Threads -> Leaves \cup {NoLeaf}]
    /\ \A t \in Threads : pc[t] = "served" => got[t] \in Leaves
    /\ \A t \in Threads : pc[t] \in {"lock", "mint"} => name[t] \in Names

\* LoadMITMSigner has succeeded in each half.
Init ==
    /\ setup \in Setups
    /\ half = [t \in Threads |-> IF t = Startup THEN "udp" ELSE "tcp"]
    /\ name = [t \in Threads |-> IF t = Startup THEN ServerName ELSE NoName]
    /\ pc = [t \in Threads |->
               IF t = Startup /\ "udp" \in Halves THEN "lock" ELSE "idle"]
    /\ locked = [h \in {"tcp", "udp"} |-> FALSE]
    /\ cache = [h \in {"tcp", "udp"} |-> [n \in Names |-> NoLeaf]]
    /\ subject = [l \in Leaves |-> NoName]
    /\ got = [t \in Threads |-> NoLeaf]

\* The handshake of t goes on with leaf l.
Present(t, l) ==
    /\ pc' = [pc EXCEPT ![t] = "served"]
    /\ got' = [got EXCEPT ![t] = l]

-----------------------------------------------------------------------------
(* The callbacks.                                                          *)

\* Mutant of HostName: the client's SNI comes first.
HostName_SNIFirst(sni) == IF sni # NoName THEN sni ELSE ServerName

\* -servername= overrides the SNI.
HostName(sni) == IF ServerName # NoName THEN ServerName ELSE sni

\* A TLS client hello: GetCertificate needs a name, and calls CertificateFor.
ClientHello(c, sni) ==
    /\ "tcp" \in Halves
    /\ pc[c] = "idle"
    /\ name' = [name EXCEPT ![c] = HostName(sni)]
    /\ pc' = [pc EXCEPT ![c] = IF HostName(sni) = NoName THEN "rejected" ELSE "lock"]
    /\ UNCHANGED <<setup, half, locked, cache, subject, got>>

\* A DTLS handshake: the certificate minted at startup, whatever the SNI.
ClientHelloDTLS(c) ==
    /\ "udp" \in Halves
    /\ pc[c] = "idle"
    /\ pc[Startup] = "served"
    /\ half' = [half EXCEPT ![c] = "udp"]
    /\ name' = [name EXCEPT ![c] = ServerName]
    /\ Present(c, got[Startup])
    /\ UNCHANGED <<setup, locked, cache, subject>>

-----------------------------------------------------------------------------
(* CertificateFor.                                                         *)

Free(t) == pc[t] = "lock" /\ ~locked[half[t]]

\* The name is in the cache.
Hit(t) ==
    /\ Free(t)
    /\ cache[half[t]][name[t]] # NoLeaf
    /\ Present(t, cache[half[t]][name[t]])
    /\ UNCHANGED <<setup, half, name, locked, cache, subject>>

\* Mutant of Miss: the key is generated without the lock.
Miss_Unlocked(t) ==
    /\ Free(t)
    /\ cache[half[t]][name[t]] = NoLeaf
    /\ pc' = [pc EXCEPT ![t] = "mint"]
    /\ UNCHANGED <<setup, half, name, locked, cache, subject, got>>

\* It is not: a key is generated with mu held.
Miss(t) ==
    /\ Free(t)
    /\ cache[half[t]][name[t]] = NoLeaf
    /\ pc' = [pc EXCEPT ![t] = "mint"]
    /\ locked' = [locked EXCEPT ![half[t]] = TRUE]
    /\ UNCHANGED <<setup, half, name, cache, subject, got>>

\* The certificate is signed, cached and returned.
Mint(t, l) ==
    /\ pc[t] = "mint"
    /\ ~Minted(l)
    /\ subject' = [subject EXCEPT ![l] = name[t]]
    /\ cache' = [cache EXCEPT ![half[t]][name[t]] = l]
    /\ locked' = [locked EXCEPT ![half[t]] = FALSE]
    /\ Present(t, l)
    /\ UNCHANGED <<setup, half, name>>

\* Mutant of MintError: an early return without Unlock.
MintError_KeepLock(t) ==
    /\ pc[t] = "mint"
    /\ pc' = [pc EXCEPT ![t] = "rejected"]
    /\ UNCHANGED <<setup, half, name, locked, cache, subject, got>>

\* Key generation, the serial number or the signature fails: nothing is cached
\* and the handshake (at startup, the DTLS listener) fails.
MintError(t) ==
    /\ pc[t] = "mint"
    /\ pc' = [pc EXCEPT ![t] = "rejected"]
    /\ locked' = [locked EXCEPT ![half[t]] = FALSE]
    /\ UNCHANGED <<setup, half, name, cache, subject, got>>

Next ==
    \/ \E c \in Conns : ClientHelloDTLS(c)
    \/ \E c \in Conns, sni \in Names \cup {NoName} : ClientHello(c, sni)
    \/ \E t \in Threads : Hit(t) \/ Miss(t) \/ MintError(t)
    \/ \E t \in Threads, l \in Leaves : Mint(t, l)

Spec == Init /\ [][Next]_vars

\* Key generation returns; mu reaches a waiter although others keep taking it.
FairSpec ==
    /\ Spec
    /\ \A t \in Threads :
          /\ SF_vars(Hit(t) \/ Miss(t))
          /\ WF_vars(MintError(t) \/ \E l \in Leaves : Mint(t, l))

-----------------------------------------------------------------------------
(* Properties.                                                             *)

\* However many handshakes miss at once, a signer mints one certificate per
\* name, and keeps it: a leaf in existence is the one in the cache.
OneLeafPerSigner ==
    \A l \in Leaves : Minted(l) => \E h \in Halves : cache[h][subject[l]] = l

\* Every client is shown a certificate for the name it should see: -servername=
\* if given, else the SNI it sent; in the DTLS half always -servername=.
RightName ==
    \A t \in Threads : pc[t] = "served" =>
        /\ subject[got[t]] = name[t]
        /\ ServerName # NoName => name[t] = ServerName

\* Nobody is left waiting for mu, also after a failed generation.
HandshakeAnswered ==
    \A t \in Threads : pc[t] = "lock" ~> pc[t] \in {"served", "rejected"}
=============================================================================
