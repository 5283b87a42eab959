-------------------------- MODULE SignalingServer --------------------------
(***************************************************************************)
(* The signaling service of RemoteTab (apps/signaling): the connection      *)
(* registry, device authentication, the pairing and the session             *)
(* repositories, and the router that moves them.                            *)
(*                                                                          *)
(* A frame handler runs to its end before the next one starts, so it is     *)
(* one action; onAuthProof suspends twice and is three.  Bun runs the close *)
(* callback inside ws.close(), so a handler that ends fatally also unwinds  *)
(* its connection, and the entries of sockets (server.ts), of handles       *)
(* (router.ts) and of conns (registry.ts) come and go together: `live'      *)
(* stands for all three.  What a step sends is `out'; a frame to a          *)
(* connection without a handle is dropped.  Silence and expiry clocks are   *)
(* abstracted to the moment they run out (SweepStale, PairingLapses).       *)
(***************************************************************************)
EXTENDS Integers, FiniteSets

CONSTANTS
  Conns,           \* connection ids; newRequestId() never repeats one
  Devices,         \* device ids
  Identities,      \* the [role, dev] pairs that clients say hello with
  Keys,            \* device public keys (the SPKI and its fingerprint)
  PairIds,         \* newPairId() never repeats one
  SessionIds,      \* chosen by the desktop with newSessionId(), never repeated
  AuthMode,        \* DEVICE_AUTH: "open" or "required"
  Durable,         \* TRUE when DATABASE_URL gives a sqlite device registry
  MaxAuthFailures, \* MAX_AUTH_FAILURES
  MaxProofs,       \* bound: auth.proof frames being verified at once
  NoConn, NoKey, NoIdentity

Roles == {"desktop", "phone"}

ASSUME IdentitiesAssumption == Identities \subseteq [role: Roles, dev: Devices]
ASSUME NullsAssumption ==
  NoConn \notin Conns /\ NoKey \notin Keys /\ NoIdentity \notin [role: Roles, dev: Devices]
ASSUME AuthAssumption ==
  /\ AuthMode \in {"open", "required"} /\ Durable \in BOOLEAN
  /\ MaxAuthFailures \in Nat \ {0} /\ MaxProofs \in Nat
ASSUME IdsAssumption == PairIds \cap SessionIds = {} /\ "none" \notin PairIds \cup SessionIds

VARIABLES
  opened,     \* connection ids already given out
  live,       \* registered connections (registry, handles and sockets)
  reg,        \* the identity a connection said hello with
  byDevice,   \* ConnectionRegistry.byDevice
  failures,   \* pendingAuth: -1 without a challenge, else its failures
  proofs,     \* auth.proof frames whose verification is suspended
  provedKey,  \* authenticated: the key proved, NoKey when not in the set
  enrolled,   \* DeviceRegistry: the key of a device
  revoked,    \* DeviceRegistry: devices with revokedAtMs
  pairings,   \* PairingRepo
  lapsed,     \* pairings whose expiresAtMs has passed
  sessions,   \* SessionRepo
  requests,   \* sessionRequests: <<desktop, phone>> to the phone's connection
  out         \* frames sent by the last step

authVars == <<failures, proofs, provedKey, enrolled, revoked>>
connVars == <<opened, live, reg, byDevice>>
pairVars == <<pairings, lapsed>>
sessVars == <<sessions, requests>>
stored == <<connVars, authVars, pairVars, sessVars>>
vars == <<stored, out>>
-----------------------------------------------------------------------------
(* "FREE": an id not given out yet. "GONE": lost in a restart.              *)
PairingStates ==
  {"FREE", "CREATED", "JOINED", "CONSUMED", "EXPIRED", "REJECTED", "CANCELLED", "GONE"}
SessionStates == {"FREE", "SIGNALING", "CLOSED", "GONE"}
Unknown == {"FREE", "GONE"}

Pairing == [state: PairingStates, desktop: Conns \cup {NoConn}, phone: Conns \cup {NoConn}]
Session == [state: SessionStates, desktopDev: Devices \cup {"none"}, phoneDev: Devices \cup {"none"},
            desktop: Conns \cup {NoConn}, phone: Conns \cup {NoConn}]
Proof == [conn: Conns, dev: Devices, key: Keys, step: {"fingerprint", "signature"},
          flaw: {"none", "fingerprint", "signature"}]
FrameTypes ==
  {"error", "hello.ok", "auth.challenge", "auth.ok", "pair.created", "pair.join",
   "pair.accepted", "pair.rejected", "session.request", "session.accepted",
   "session.rejected", "session.close", "signal"}
Frame == [to: Conns, type: FrameTypes, about: PairIds \cup SessionIds \cup {"none"}]

NoPairing == [state |-> "FREE", desktop |-> NoConn, phone |-> NoConn]
NoSession == [state |-> "FREE", desktopDev |-> "none", phoneDev |-> "none",
              desktop |-> NoConn, phone |-> NoConn]

(* The failures of a connection that may still try.                          *)
Failures == -1 .. MaxAuthFailures - 1

TypeOK ==
  /\ opened \subseteq Conns /\ live \subseteq opened
  /\ reg \in [Conns -> Identities \cup {NoIdentity}]
  /\ byDevice \in [Devices -> Conns \cup {NoConn}]
  /\ failures \in [Conns -> Failures]
  /\ proofs \subseteq Proof
  /\ provedKey \in [Conns -> Keys \cup {NoKey}]
  /\ enrolled \in [Devices -> Keys \cup {NoKey}]
  /\ revoked \subseteq Devices
  /\ pairings \in [PairIds -> Pairing] /\ lapsed \subseteq PairIds
  /\ sessions \in [SessionIds -> Session]
  /\ requests \in [Devices \X Devices -> Conns \cup {NoConn}]
  /\ out \subseteq Frame
-----------------------------------------------------------------------------
(* Reading the state *)
Greeted(c) == c \in live /\ reg[c] # NoIdentity
Is(c, role) == reg[c].role = role
(* Mutant: a device that the registry knows passes, as if that were proof.   *)
EnrolledIsEnough(c) == AuthMode = "open" \/ enrolled[reg[c].dev] # NoKey
requireAuthenticated(c) == AuthMode = "open" \/ provedKey[c] # NoKey

PairingOpen(p) == pairings[p].state \in {"CREATED", "JOINED"}
OpenOf(c) == {p \in PairIds : PairingOpen(p) /\ pairings[p].desktop = c}
(* The one found first, if any; mutant: none is looked for.                  *)
findNone(c) == {}
findOpenByDesktopConn(c) == IF OpenOf(c) = {} THEN {} ELSE {CHOOSE p \in OpenOf(c) : TRUE}

SessionOpen(s) == sessions[s].state = "SIGNALING"
findOpenByDevice(d) == {s \in SessionIds : SessionOpen(s) /\ d \in {sessions[s].desktopDev, sessions[s].phoneDev}}
PartyOf(c, s) == c \in {sessions[s].desktop, sessions[s].phone}
PeerOf(c, s) == IF sessions[s].desktop = c THEN sessions[s].phone ELSE sessions[s].desktop

(* Frames to those of the given connections that have a handle.             *)
Send(conns, type, about) ==
  {[to |-> c, type |-> type, about |-> about] : c \in conns \cap live}

(* Answer without a change of state; out is all that moves.                 *)
Reply(c, type) == out' = Send({c}, type, "none") /\ UNCHANGED stored
-----------------------------------------------------------------------------
(* pairingsOf and sessionsOf, with a mutant of each: only what the           *)
(* connection joined, only the sessions it answered.                         *)
pairingsOfPhone(c) == {p \in PairIds : PairingOpen(p) /\ c = pairings[p].phone}
pairingsOf(c) == {p \in PairIds : PairingOpen(p) /\ c \in {pairings[p].desktop, pairings[p].phone}}
sessionsOfDesktop(c) == {s \in SessionIds : SessionOpen(s) /\ c = sessions[s].desktop}
sessionsOf(c) == {s \in SessionIds : SessionOpen(s) /\ PartyOf(c, s)}

(* The loop over sessionRequests in handleConnClosed; mutant: left out.      *)
RequestsKept(c, rq) == rq
RequestsWithout(c, rq) ==
  [k \in Devices \X Devices |-> IF rq[k] = c THEN NoConn ELSE rq[k]]

(* ConnectionRegistry.unregister and bind.  Mutants: the lookup entry stays  *)
(* behind; the lookup entry of another connection is taken over.             *)
Released(c) == [d \in Devices |-> IF byDevice[d] = c THEN NoConn ELSE byDevice[d]]
NeverElsewhere(c, d) == FALSE
BoundElsewhere(c, d) == byDevice[d] \in live \ {c}

(* handleConnClosed(c): the connection leaves the registry, and what         *)
(* depends on it is unwound.  rq is sessionRequests as the caller leaves     *)
(* it, sent what the caller has sent.  The caller says what becomes of the   *)
(* suspended proofs.                                                         *)
CloseConn(c, rq, sent) ==
  LET rest == live \ {c} IN
  /\ live' = rest
  /\ reg' = [reg EXCEPT ![c] = NoIdentity]
  /\ byDevice' = Released(c)
  /\ failures' = [failures EXCEPT ![c] = -1]
  /\ provedKey' = [provedKey EXCEPT ![c] = NoKey]
  /\ pairings' = [p \in PairIds |->
       IF p \in pairingsOf(c) THEN [pairings[p] EXCEPT !.state = "CANCELLED"] ELSE pairings[p]]
  /\ sessions' = [s \in SessionIds |->
       IF s \in sessionsOf(c) THEN [sessions[s] EXCEPT !.state = "CLOSED"] ELSE sessions[s]]
  /\ requests' = RequestsWithout(c, rq)
  /\ out' = sent
       \cup {[to |-> pairings[p].phone, type |-> "pair.rejected", about |-> p] :
               p \in {q \in pairingsOf(c) : pairings[q].phone \in rest}}
       \cup {[to |-> PeerOf(c, s), type |-> "session.close", about |-> s] :
               s \in {t \in sessionsOf(c) : PeerOf(c, t) \in rest}}
  /\ UNCHANGED <<opened, enrolled, revoked, lapsed>>

(* A fatal result: an error frame, then the server closes the socket.       *)
Refuse(c) == CloseConn(c, requests, Send({c}, "error", "none")) /\ UNCHANGED proofs
-----------------------------------------------------------------------------
(* Connections (server.ts, registry.ts)                                      *)
Open(c) ==
  /\ c \notin opened
  /\ opened' = opened \cup {c} /\ live' = live \cup {c}
  /\ out' = {}
  /\ UNCHANGED <<reg, byDevice, authVars, pairVars, sessVars>>

(* The peer closes its socket, or the server does over a frame too many.     *)
SocketCloses(c) == c \in live /\ CloseConn(c, requests, {}) /\ UNCHANGED proofs

(* A connection has been silent for HEARTBEAT_TIMEOUT_SEC.  The callback     *)
(* inside close() unwinds it; the sweeper's own two calls then find nothing. *)
(* Mutant: it unregisters the connection before it closes the socket.        *)
SweepUnregistersFirst(c) ==
  /\ c \in live
  /\ live' = live \ {c} /\ reg' = [reg EXCEPT ![c] = NoIdentity] /\ byDevice' = Released(c)
  /\ failures' = [failures EXCEPT ![c] = -1] /\ provedKey' = [provedKey EXCEPT ![c] = NoKey]
  /\ out' = {}
  /\ UNCHANGED <<opened, proofs, enrolled, revoked, pairVars, sessVars>>
SweepStale(c) == c \in live /\ CloseConn(c, requests, {}) /\ UNCHANGED proofs

(* A frame that cannot be decoded, comes before hello or is one only the     *)
(* server sends.                                                             *)
RefusedFrame(c) == c \in live /\ Refuse(c)

onHello(c, id) ==
  /\ c \in live
  /\ \/ reg[c] # NoIdentity /\ Refuse(c)
     \/ reg[c] = NoIdentity /\ BoundElsewhere(c, id.dev) /\ Refuse(c)
     \/ /\ reg[c] = NoIdentity /\ ~BoundElsewhere(c, id.dev)
        /\ reg' = [reg EXCEPT ![c] = id]
        /\ byDevice' = [byDevice EXCEPT ![id.dev] = c]
        /\ failures' = [failures EXCEPT ![c] = 0]
        /\ out' = Send({c}, "hello.ok", "none") \cup Send({c}, "auth.challenge", "none")
        /\ UNCHANGED <<opened, live, proofs, provedKey, enrolled, revoked, pairVars, sessVars>>
-----------------------------------------------------------------------------
(* Device authentication: onAuthProof suspends for the fingerprint and for   *)
(* the signature; the nonce and the device id are those of its start.        *)
onAuthProof(c, key, flaw) ==
  /\ c \in live
  /\ \/ failures[c] = -1 /\ Refuse(c)
     \/ /\ failures[c] >= 0
        /\ Cardinality(proofs) < MaxProofs
        /\ proofs' = proofs \cup {[conn |-> c, dev |-> reg[c].dev, key |-> key,
                                   step |-> "fingerprint", flaw |-> flaw]}
        /\ out' = {}
        /\ UNCHANGED <<connVars, failures, provedKey, enrolled, revoked, pairVars, sessVars>>

Drop(pr) ==
  /\ proofs' = proofs \ {pr} /\ out' = {}
  /\ UNCHANGED <<connVars, failures, provedKey, enrolled, revoked, pairVars, sessVars>>

(* One failure too many (open mode); mutant: counted one too far.            *)
OneMoreAllowed(counted) == counted > MaxAuthFailures
TooMany(counted) == counted >= MaxAuthFailures

authFailure(pr) ==
  LET c == pr.conn
      counted == (IF failures[c] = -1 THEN 0 ELSE failures[c]) + 1
      fatal == AuthMode = "required" \/ TooMany(counted)
  IN
  \/ c \notin live /\ Drop(pr)
  \/ /\ c \in live /\ fatal
     /\ CloseConn(c, requests, {}) /\ proofs' = proofs \ {pr}
  \/ /\ c \in live /\ ~fatal
     /\ failures' = [failures EXCEPT ![c] = IF @ = -1 THEN -1 ELSE counted]
     /\ proofs' = proofs \ {pr} /\ out' = {}
     /\ UNCHANGED <<connVars, provedKey, enrolled, revoked, pairVars, sessVars>>

FingerprintChecked(pr) ==
  /\ pr.step = "fingerprint"
  /\ \/ pr.flaw = "fingerprint" /\ authFailure(pr)
     \/ /\ pr.flaw # "fingerprint" /\ pr.dev \in revoked
        /\ \/ pr.conn \notin live /\ Drop(pr)
           \/ /\ pr.conn \in live /\ proofs' = proofs \ {pr}
              /\ CloseConn(pr.conn, requests, Send({pr.conn}, "error", "none"))
     \/ /\ pr.flaw # "fingerprint" /\ pr.dev \notin revoked
        /\ proofs' = (proofs \ {pr}) \cup {[pr EXCEPT !.step = "signature"]}
        /\ out' = {}
        /\ UNCHANGED <<connVars, failures, provedKey, enrolled, revoked, pairVars, sessVars>>

(* The identity that a good signature meets in the device registry.          *)
KeyRefused(pr) ==
  \/ enrolled[pr.dev] # NoKey /\ enrolled[pr.dev] # pr.key
  \/ enrolled[pr.dev] = NoKey /\ AuthMode = "required"

(* Mutant: the registered key is not compared, and enroll replaces it.       *)
SignatureReplacesKey(pr) ==
  /\ pr.step = "signature"
  /\ proofs' = proofs \ {pr}
  /\ enrolled' = [enrolled EXCEPT ![pr.dev] = pr.key]
  /\ failures' = [failures EXCEPT ![pr.conn] = -1]
  /\ provedKey' = [provedKey EXCEPT ![pr.conn] = pr.key]
  /\ out' = {}
  /\ UNCHANGED <<connVars, revoked, pairVars, sessVars>>

SignatureChecked(pr) ==
  /\ pr.step = "signature"
  /\ \/ (pr.flaw = "signature" \/ KeyRefused(pr)) /\ authFailure(pr)
     \/ /\ pr.flaw # "signature" /\ ~KeyRefused(pr)
        /\ proofs' = proofs \ {pr}
        /\ enrolled' = [enrolled EXCEPT ![pr.dev] = pr.key]
        /\ failures' = [failures EXCEPT ![pr.conn] = -1]
        /\ provedKey' = [provedKey EXCEPT ![pr.conn] = pr.key]
        /\ out' = Send({pr.conn}, "auth.ok", "none")
        /\ UNCHANGED <<connVars, revoked, pairVars, sessVars>>

(* POST /admin/devices and DeviceRegistry.revoke                             *)
AdminEnroll(d, key) ==
  /\ enrolled[d] = NoKey
  /\ enrolled' = [enrolled EXCEPT ![d] = key] /\ out' = {}
  /\ UNCHANGED <<connVars, failures, proofs, provedKey, revoked, pairVars, sessVars>>

Revoke(d) ==
  /\ enrolled[d] # NoKey /\ d \notin revoked
  /\ revoked' = revoked \cup {d} /\ out' = {}
  /\ UNCHANGED <<connVars, failures, proofs, provedKey, enrolled, pairVars, sessVars>>
-----------------------------------------------------------------------------
(* Pairing.  A frame that the authentication or the role of its sender does  *)
(* not allow is fatal.                                                       *)
onPairCreate(c, p) ==
  /\ Greeted(c)
  /\ \/ ~(requireAuthenticated(c) /\ Is(c, "desktop")) /\ Refuse(c)
     \/ /\ requireAuthenticated(c) /\ Is(c, "desktop")
        /\ pairings[p].state = "FREE"
        /\ pairings' = [q \in PairIds |->
             IF q = p THEN [state |-> "CREATED", desktop |-> c, phone |-> NoConn]
             ELSE IF q \in findOpenByDesktopConn(c) THEN [pairings[q] EXCEPT !.state = "CANCELLED"]
             ELSE pairings[q]]
        /\ out' = Send({c}, "pair.created", p)
        /\ UNCHANGED <<connVars, authVars, lapsed, sessVars>>

PairingLapses(p) ==
  /\ pairings[p].state \notin Unknown /\ p \notin lapsed
  /\ lapsed' = lapsed \cup {p} /\ out' = {}
  /\ UNCHANGED <<connVars, authVars, pairings, sessVars>>

(* A pairing that a phone may (still) join; mutant: a decided one too.       *)
JoinableOnceMore(p) == pairings[p].state \notin Unknown
Joinable(p) == PairingOpen(p)

onPairJoin(c, p) ==
  /\ Greeted(c)
  /\ \/ ~(requireAuthenticated(c) /\ Is(c, "phone")) /\ Refuse(c)
     \/ /\ requireAuthenticated(c) /\ Is(c, "phone")
        /\ reg[c].dev \in revoked \/ ~Joinable(p)
        /\ Reply(c, "error")
     \/ /\ requireAuthenticated(c) /\ Is(c, "phone")
        /\ reg[c].dev \notin revoked /\ Joinable(p)
        /\ IF p \in lapsed
           THEN /\ pairings' = [pairings EXCEPT ![p].state = "EXPIRED"]
                /\ out' = Send({c}, "error", "none")
           ELSE /\ pairings' = [pairings EXCEPT ![p].state = "JOINED", ![p].phone = c]
                /\ out' = Send({pairings[p].desktop}, "pair.join", p)
        /\ UNCHANGED <<connVars, authVars, lapsed, sessVars>>

(* Who hears that a pairing was accepted; mutant: the answer goes to the     *)
(* desktop alone.                                                            *)
DesktopOf(p) == {pairings[p].desktop}
PartiesOf(p) == {pairings[p].desktop, pairings[p].phone}

(* desktopDeviceId needs no field: a connection never changes its device.    *)
decidePairing(c, p, accept) ==
  /\ Greeted(c)
  /\ \/ ~Is(c, "desktop") /\ Refuse(c)
     \/ Is(c, "desktop") /\ pairings[p].state \in Unknown /\ Reply(c, "error")
     \/ /\ Is(c, "desktop") /\ pairings[p].state \notin Unknown
        /\ pairings[p].desktop # c /\ Refuse(c)
     \/ /\ Is(c, "desktop") /\ pairings[p].desktop = c
        /\ pairings[p].state \notin Unknown \cup {"JOINED"}
        /\ Reply(c, "error")
     \/ /\ Is(c, "desktop") /\ pairings[p].desktop = c /\ pairings[p].state = "JOINED"
        /\ pairings' = [pairings EXCEPT ![p].state = IF accept THEN "CONSUMED" ELSE "REJECTED"]
        /\ out' = Send(PartiesOf(p), IF accept THEN "pair.accepted" ELSE "pair.rejected", p)
        /\ UNCHANGED <<connVars, authVars, lapsed, sessVars>>

onPairAccept(c, p) == decidePairing(c, p, TRUE)
onPairReject(c, p) == decidePairing(c, p, FALSE)
-----------------------------------------------------------------------------
(* Sessions                                                                  *)
onSessionRequest(c, d) ==
  /\ Greeted(c)
  /\ \/ ~(requireAuthenticated(c) /\ Is(c, "phone")) /\ Refuse(c)
     \/ /\ requireAuthenticated(c) /\ Is(c, "phone")
        /\ {reg[c].dev, d} \cap revoked # {} \/ byDevice[d] = NoConn
        /\ Reply(c, "error")
     \/ /\ requireAuthenticated(c) /\ Is(c, "phone")
        /\ {reg[c].dev, d} \cap revoked = {} /\ byDevice[d] # NoConn
        /\ requests' = [requests EXCEPT ![<<d, reg[c].dev>>] = c]
        /\ out' = Send({byDevice[d]}, "session.request", "none")
        /\ UNCHANGED <<connVars, authVars, pairVars, sessions>>

(* A device in either role has an open session (ADR-009); mutant: only the   *)
(* phone is looked up.                                                       *)
PhoneBusy(d, ph) == findOpenByDevice(ph) # {}
SessionConflict(d, ph) == findOpenByDevice(d) # {} \/ findOpenByDevice(ph) # {}

(* Who is told of a conflict, besides the error reply; mutant: nobody.       *)
NobodyTold(ph) == {}
ConflictTold(ph) == {ph}

(* claimed is payload.desktopDeviceId, ph payload.phoneDeviceId.             *)
onSessionAccepted(c, claimed, ph, s) ==
  LET d == reg[c].dev
      k == <<d, ph>>
      rest == [requests EXCEPT ![k] = NoConn]
  IN
  /\ Greeted(c)
  /\ \/ ~Is(c, "desktop") /\ Refuse(c)
     \/ Is(c, "desktop") /\ requests[k] = NoConn /\ Reply(c, "error")
     \/ /\ Is(c, "desktop") /\ requests[k] # NoConn /\ claimed # d
        /\ CloseConn(c, rest, Send({c}, "error", "none")) /\ UNCHANGED proofs
     \/ /\ Is(c, "desktop") /\ requests[k] # NoConn /\ claimed = d /\ SessionConflict(d, ph)
        /\ requests' = rest
        /\ out' = Send({c}, "error", "none") \cup Send(ConflictTold(requests[k]), "session.rejected", "none")
        /\ UNCHANGED <<connVars, authVars, pairVars, sessions>>
     \/ /\ Is(c, "desktop") /\ requests[k] # NoConn /\ claimed = d /\ ~SessionConflict(d, ph)
        /\ sessions[s].state = "FREE"
        /\ requests' = rest
        /\ sessions' = [sessions EXCEPT ![s] =
             [state |-> "SIGNALING", desktopDev |-> d, phoneDev |-> ph,
              desktop |-> c, phone |-> requests[k]]]
        /\ out' = Send({requests[k]}, "session.accepted", s)
        /\ UNCHANGED <<connVars, authVars, pairVars>>

onSessionRejected(c) ==
  /\ Greeted(c)
  /\ \/ ~Is(c, "desktop") /\ Refuse(c)
     \/ /\ Is(c, "desktop")
        /\ requests' = [k \in Devices \X Devices |-> IF k[1] = reg[c].dev THEN NoConn ELSE requests[k]]
        /\ out' = Send({requests[<<reg[c].dev, ph>>] : ph \in Devices}, "session.rejected", "none")
        /\ UNCHANGED <<connVars, authVars, pairVars, sessions>>

onSessionClose(c, s) ==
  /\ Greeted(c)
  /\ \/ sessions[s].state \in Unknown /\ Reply(c, "error")
     \/ sessions[s].state \notin Unknown /\ ~PartyOf(c, s) /\ Refuse(c)
     \/ /\ sessions[s].state \notin Unknown /\ PartyOf(c, s)
        /\ sessions' = [sessions EXCEPT ![s].state = "CLOSED"]
        /\ out' = Send({PeerOf(c, s)}, "session.close", s)
        /\ UNCHANGED <<connVars, authVars, pairVars, requests>>

(* Whether a session still carries signal.*; mutant: as long as it is known. *)
KnownSession(s) == sessions[s].state \notin Unknown
Relays(s) == sessions[s].state \notin Unknown \cup {"CLOSED"}

(* signal.offer and signal.answer ask for a role, signal.ice does not.       *)
relaySignal(c, requireRole, s) ==
  /\ Greeted(c)
  /\ \/ requireRole # "none" /\ ~Is(c, requireRole) /\ Refuse(c)
     \/ /\ requireRole = "none" \/ Is(c, requireRole)
        /\ \/ ~Relays(s) /\ Reply(c, "error")
           \/ Relays(s) /\ ~PartyOf(c, s) /\ Refuse(c)
           \/ /\ Relays(s) /\ PartyOf(c, s)
              /\ out' = Send({PeerOf(c, s)}, "signal", s) /\ UNCHANGED stored
-----------------------------------------------------------------------------
(* The process ends and starts again: only a sqlite registry survives.       *)
Restart ==
  /\ live' = {} /\ opened' = opened
  /\ reg' = [c \in Conns |-> NoIdentity] /\ byDevice' = [d \in Devices |-> NoConn]
  /\ failures' = [c \in Conns |-> -1] /\ proofs' = {} /\ provedKey' = [c \in Conns |-> NoKey]
  /\ IF Durable THEN UNCHANGED <<enrolled, revoked>>
     ELSE enrolled' = [d \in Devices |-> NoKey] /\ revoked' = {}
  /\ pairings' = [p \in PairIds |->
       IF pairings[p].state = "FREE" THEN pairings[p] ELSE [NoPairing EXCEPT !.state = "GONE"]]
  /\ sessions' = [s \in SessionIds |->
       IF sessions[s].state = "FREE" THEN sessions[s] ELSE [NoSession EXCEPT !.state = "GONE"]]
  /\ requests' = [k \in Devices \X Devices |-> NoConn]
  /\ lapsed' = {} /\ out' = {}

Init ==
  /\ opened = {} /\ live = {}
  /\ reg = [c \in Conns |-> NoIdentity] /\ byDevice = [d \in Devices |-> NoConn]
  /\ failures = [c \in Conns |-> -1] /\ proofs = {} /\ provedKey = [c \in Conns |-> NoKey]
  /\ enrolled = [d \in Devices |-> NoKey] /\ revoked = {}
  /\ pairings = [p \in PairIds |-> NoPairing] /\ lapsed = {}
  /\ sessions = [s \in SessionIds |-> NoSession]
  /\ requests = [k \in Devices \X Devices |-> NoConn]
  /\ out = {}

ConnStep(c) ==
  \/ Open(c) \/ SocketCloses(c) \/ SweepStale(c) \/ RefusedFrame(c)
  \/ \E id \in Identities : onHello(c, id)
  \/ \E key \in Keys, flaw \in {"none", "fingerprint", "signature"} : onAuthProof(c, key, flaw)
AuthStep ==
  \/ \E pr \in proofs : FingerprintChecked(pr) \/ SignatureChecked(pr)
  \/ \E d \in Devices : Revoke(d) \/ \E key \in Keys : AdminEnroll(d, key)
PairStep(c, p) == onPairCreate(c, p) \/ onPairJoin(c, p) \/ onPairAccept(c, p) \/ onPairReject(c, p)
SessionStep(c) ==
  \/ \E d \in Devices : onSessionRequest(c, d)
  \/ onSessionRejected(c)
  \/ \E s \in SessionIds :
       \/ \E claimed, ph \in Devices : onSessionAccepted(c, claimed, ph, s)
       \/ onSessionClose(c, s)
       \/ \E role \in Roles \cup {"none"} : relaySignal(c, role, s)

Next ==
  \/ \E c \in Conns : ConnStep(c) \/ SessionStep(c) \/ \E p \in PairIds : PairStep(c, p)
  \/ \E p \in PairIds : PairingLapses(p)
  \/ AuthStep
  \/ Restart

Spec == Init /\ [][Next]_vars
-----------------------------------------------------------------------------
(* Safety invariants *)

(* ADR-009: a device is never in two open sessions, in whichever role, even  *)
(* when several of its requests are answered late and out of order           *)
(* (onSessionAccepted).                                                      *)
OneOpenSessionPerDevice ==
  \A s, t \in SessionIds :
    /\ SessionOpen(s) /\ SessionOpen(t)
    /\ {sessions[s].desktopDev, sessions[s].phoneDev} \cap {sessions[t].desktopDev, sessions[t].phoneDev} # {}
    => s = t

(* An open session joins two live connections that said hello as its desktop *)
(* and as its phone: no request or session outlives a connection it names    *)
(* (handleConnClosed, the stale sweep).                                      *)
OpenSessionEndsAreLive ==
  \A s \in SessionIds : SessionOpen(s) =>
    /\ Greeted(sessions[s].desktop) /\ Greeted(sessions[s].phone)
    /\ reg[sessions[s].desktop] = [role |-> "desktop", dev |-> sessions[s].desktopDev]
    /\ reg[sessions[s].phone] = [role |-> "phone", dev |-> sessions[s].phoneDev]

(* A pending request names the live connection of the phone that asks, so an *)
(* answer reaches it (sessionRequests).                                      *)
RequestsAreLive ==
  \A d, ph \in Devices : requests[<<d, ph>>] # NoConn =>
    /\ requests[<<d, ph>>] \in live
    /\ reg[requests[<<d, ph>>]] = [role |-> "phone", dev |-> ph]

(* byDevice names exactly the live connections that said hello, one for each *)
(* device (ConnectionRegistry.bind, unregister): routing by device id never  *)
(* meets a dead connection or the wrong one of two.                          *)
RoutingIsExact ==
  \A d \in Devices, c \in Conns : byDevice[d] = c <=> Greeted(c) /\ reg[c].dev = d

(* An open pairing belongs to a live desktop, a joined one also to a live    *)
(* phone (handleConnClosed cancels it otherwise), and a desktop shows one.   *)
OpenPairingEndsAreLive ==
  \A p \in PairIds : PairingOpen(p) =>
    /\ Greeted(pairings[p].desktop) /\ Is(pairings[p].desktop, "desktop")
    /\ pairings[p].state = "JOINED" => Greeted(pairings[p].phone) /\ Is(pairings[p].phone, "phone")
OneOpenPairingPerDesktop ==
  \A p, q \in PairIds :
    PairingOpen(p) /\ PairingOpen(q) /\ pairings[p].desktop = pairings[q].desktop => p = q

(* Identity continuity (#24): while the connection lives, the key it proved  *)
(* is the one registered for its device, whatever other proofs of the same   *)
(* device were being verified (onAuthProof).                                 *)
ProvedKeyIsRegistered ==
  \A c \in live : provedKey[c] # NoKey => Greeted(c) /\ enrolled[reg[c].dev] = provedKey[c]

(* DEVICE_AUTH=required: whoever owns or joined an open pairing has proved a *)
(* registered key on that very connection (requireAuthenticated), even when  *)
(* its proof was verified late or the device connected again meanwhile.      *)
OpenPairingsAreProved ==
  AuthMode = "required" =>
    \A p \in PairIds : PairingOpen(p) =>
      /\ provedKey[pairings[p].desktop] # NoKey
      /\ pairings[p].state = "JOINED" => provedKey[pairings[p].phone] # NoKey

-----------------------------------------------------------------------------
(* Action properties *)
Told(c, type, about) == [to |-> c, type |-> type, about |-> about] \in out'
Closes(c) == c \in live /\ c \notin live'

(* A session that stops being open, other than by a restart of the server,   *)
(* is announced in the same step to a party that stays connected: to the     *)
(* other end of the one that has gone (handleConnClosed), or of the one that *)
(* has closed it (onSessionClose).                                           *)
CloseIsAnnounced ==
  [][\A s \in SessionIds : SessionOpen(s) /\ sessions'[s].state = "CLOSED" =>
       \E gone \in {sessions[s].desktop, sessions[s].phone} :
         PeerOf(gone, s) \in live' /\ Told(PeerOf(gone, s), "session.close", s)]_vars

(* A phone whose request leaves sessionRequests hears session.accepted or    *)
(* session.rejected, or has gone itself; only a desktop cut off for a        *)
(* malformed answer leaves it waiting.                                       *)
RequestsAreAnswered ==
  [][\A k \in Devices \X Devices :
       requests[k] # NoConn /\ requests'[k] = NoConn =>
         \/ Closes(requests[k])
         \/ Told(requests[k], "session.rejected", "none")
         \/ \E s \in SessionIds : Told(requests[k], "session.accepted", s)
         \/ Closes(byDevice[k[1]])]_vars

(* signal.* travels only inside a session that is open and to the other one  *)
(* of its two live parties (relaySignal).                                    *)
SignalsStayInTheirSession ==
  [][\A f \in out' : f.type = "signal" => SessionOpen(f.about) /\ PartyOf(f.to, f.about)]_vars

(* A decided, superseded or expired pairing is never open again, and both    *)
(* the desktop and the phone of an accepted one are told at once.            *)
PairingIsDecidedOnce ==
  [][\A p \in PairIds :
       /\ pairings[p].state \notin {"FREE", "CREATED", "JOINED"} =>
            pairings'[p].state \in {pairings[p].state, "GONE"}
       /\ pairings[p].state # "CONSUMED" /\ pairings'[p].state = "CONSUMED" =>
            \A c \in PartiesOf(p) : Told(c, "pair.accepted", p)]_vars

(* Enrollment is insert-only: a registered key is never replaced, and with   *)
(* a durable registry it also survives a restart.                            *)
KeysAreNeverReplaced ==
  [][\A d \in Devices : enrolled[d] # NoKey =>
       enrolled'[d] = enrolled[d] \/ (~Durable /\ live' = {})]_vars
=============================================================================
