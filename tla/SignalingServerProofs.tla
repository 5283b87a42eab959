----------------------- MODULE SignalingServerProofs -----------------------
(* Theorems about SignalingServer for every set of connections, devices,     *)
(* keys, pairings and sessions and for both authentication modes.            *)
EXTENDS SignalingServer, TLAPS

USE IdentitiesAssumption, NullsAssumption, AuthAssumption, IdsAssumption
-----------------------------------------------------------------------------
(* A challenge is only ever pending for a connection that said hello; the    *)
(* type of the proofs needs it, because they copy the device of reg.         *)
GreetedWhenChallenged == \A c \in Conns : failures[c] # -1 => Greeted(c)

LEMMA FewFailures == -1 \in Failures /\ 0 \in Failures
BY AuthAssumption DEF Failures

(* Frames are well formed: whatever is sent goes to known connections.       *)
LEMMA SendType ==
  ASSUME TypeOK, NEW conns, NEW type \in FrameTypes, NEW about \in PairIds \cup SessionIds \cup {"none"}
  PROVE  Send(conns, type, about) \subseteq Frame
BY DEF Send, Frame, TypeOK

(* Closing a connection keeps the types: the helper of every fatal step.     *)
LEMMA CloseConnType ==
  ASSUME TypeOK, NEW c \in Conns, NEW sent \in SUBSET Frame,
         NEW rq \in [Devices \X Devices -> Conns \cup {NoConn}],
         CloseConn(c, rq, sent), proofs' \subseteq Proof
  PROVE  TypeOK'
<1>1. live' \subseteq opened' /\ opened' \subseteq Conns
  BY DEF CloseConn, TypeOK
<1>2. reg' \in [Conns -> Identities \cup {NoIdentity}]
  BY DEF CloseConn, TypeOK
<1>3. byDevice' \in [Devices -> Conns \cup {NoConn}]
  BY DEF CloseConn, TypeOK, Released
<1>4. failures' \in [Conns -> Failures] /\ provedKey' \in [Conns -> Keys \cup {NoKey}]
  BY FewFailures DEF CloseConn, TypeOK
<1>5. pairings' \in [PairIds -> Pairing]
  <2>1. ASSUME NEW p \in PairIds
        PROVE  [pairings[p] EXCEPT !.state = "CANCELLED"] \in Pairing
    BY DEF TypeOK, Pairing, PairingStates
  <2>2. QED BY <2>1 DEF CloseConn, TypeOK
<1>6. sessions' \in [SessionIds -> Session]
  <2>1. ASSUME NEW s \in SessionIds
        PROVE  [sessions[s] EXCEPT !.state = "CLOSED"] \in Session
    <3>1. sessions[s] \in Session
      BY DEF TypeOK
    <3>2. QED BY <3>1, SMTT(30) DEF Session, SessionStates
  <2>2. QED BY <2>1 DEF CloseConn, TypeOK
<1>7. requests' \in [Devices \X Devices -> Conns \cup {NoConn}]
  BY DEF CloseConn, RequestsWithout
<1>8. out' \subseteq Frame
  <2> SUFFICES ASSUME NEW f \in out'
               PROVE  f \in Frame
    OBVIOUS
  <2>1. \/ f \in sent
        \/ \E p \in PairIds : f = [to |-> pairings[p].phone, type |-> "pair.rejected", about |-> p]
                           /\ pairings[p].phone \in live \ {c}
        \/ \E s \in SessionIds : f = [to |-> PeerOf(c, s), type |-> "session.close", about |-> s]
                              /\ PeerOf(c, s) \in live \ {c}
    BY DEF CloseConn, pairingsOf, sessionsOf
  <2>2. QED BY <2>1 DEF TypeOK, Frame, FrameTypes
<1>9. enrolled' \in [Devices -> Keys \cup {NoKey}] /\ revoked' \subseteq Devices /\ lapsed' \subseteq PairIds
  BY DEF CloseConn, TypeOK
<1>10. QED BY <1>1, <1>2, <1>3, <1>4, <1>5, <1>6, <1>7, <1>8, <1>9 DEF TypeOK

LEMMA RefuseType ==
  ASSUME TypeOK, NEW c \in Conns, Refuse(c)
  PROVE  TypeOK'
<1>1. Send({c}, "error", "none") \subseteq Frame
  BY SendType DEF FrameTypes
<1>2. requests \in [Devices \X Devices -> Conns \cup {NoConn}] /\ proofs' \subseteq Proof
  BY DEF Refuse, TypeOK
<1>3. QED BY <1>1, <1>2, CloseConnType DEF Refuse

LEMMA ReplyType ==
  ASSUME TypeOK, NEW c \in Conns, NEW type \in FrameTypes, Reply(c, type)
  PROVE  TypeOK'
<1>1. out' \subseteq Frame
  BY SendType DEF Reply
<1>2. QED BY <1>1 DEF Reply, TypeOK, stored, connVars, authVars, pairVars, sessVars

LEMMA AuthFailureType ==
  ASSUME TypeOK, NEW pr \in proofs, authFailure(pr)
  PROVE  TypeOK'
<1>1. pr \in Proof /\ pr.conn \in Conns
  BY DEF TypeOK, Proof
<1>2. CASE Drop(pr)
  BY <1>2 DEF Drop, TypeOK, connVars, pairVars, sessVars
<1>3. CASE CloseConn(pr.conn, requests, {}) /\ proofs' = proofs \ {pr}
  BY <1>1, <1>3, CloseConnType DEF TypeOK
<1>4. ASSUME NEW n \in Failures,
             failures' = [failures EXCEPT ![pr.conn] = n], proofs' = proofs \ {pr}, out' = {},
             UNCHANGED <<connVars, provedKey, enrolled, revoked, pairVars, sessVars>>
      PROVE  TypeOK'
  BY <1>1, <1>4 DEF TypeOK, connVars, pairVars, sessVars
<1> DEFINE counted == (IF failures[pr.conn] = -1 THEN 0 ELSE failures[pr.conn]) + 1
<1>5. ~TooMany(counted) => (IF failures[pr.conn] = -1 THEN -1 ELSE counted) \in Failures
  <2>1. failures[pr.conn] \in Failures
    BY <1>1 DEF TypeOK
  <2>2. QED BY <2>1, AuthAssumption DEF Failures, TooMany
<1>6. ASSUME ~Drop(pr), ~(CloseConn(pr.conn, requests, {}) /\ proofs' = proofs \ {pr})
      PROVE  TypeOK'
  <2>1. /\ ~TooMany(counted)
        /\ failures' = [failures EXCEPT ![pr.conn] = IF failures[pr.conn] = -1 THEN -1 ELSE counted]
        /\ proofs' = proofs \ {pr} /\ out' = {}
        /\ UNCHANGED <<connVars, provedKey, enrolled, revoked, pairVars, sessVars>>
    BY <1>6, <1>1 DEF authFailure, TypeOK
  <2>2. QED BY <1>4, <1>5, <2>1
<1>7. QED BY <1>2, <1>3, <1>6
-----------------------------------------------------------------------------
LEMMA ConnStepType ==
  ASSUME TypeOK, GreetedWhenChallenged, NEW c \in Conns, ConnStep(c)
  PROVE  TypeOK'
<1> USE DEF stored, connVars, authVars, pairVars, sessVars
<1>1. CASE Open(c)
  BY <1>1 DEF Open, TypeOK
<1>2. CASE SocketCloses(c) \/ SweepStale(c)
  BY <1>2, CloseConnType DEF SocketCloses, SweepStale, TypeOK
<1>3. CASE RefusedFrame(c)
  BY <1>3, RefuseType DEF RefusedFrame
<1>4. ASSUME NEW id \in Identities, onHello(c, id)
      PROVE  TypeOK'
  <2>1. id.dev \in Devices
    OBVIOUS
  <2>2. Send({c}, "hello.ok", "none") \cup Send({c}, "auth.challenge", "none") \subseteq Frame
    BY SendType DEF FrameTypes
  <2>3. CASE Refuse(c)
    BY <2>3, RefuseType
  <2>4. CASE ~Refuse(c)
    <3>1. /\ reg' = [reg EXCEPT ![c] = id] /\ byDevice' = [byDevice EXCEPT ![id.dev] = c]
          /\ failures' = [failures EXCEPT ![c] = 0]
          /\ out' = Send({c}, "hello.ok", "none") \cup Send({c}, "auth.challenge", "none")
          /\ UNCHANGED <<opened, live, proofs, provedKey, enrolled, revoked, pairVars, sessVars>>
      BY <1>4, <2>4 DEF onHello
    <3>2. out' \subseteq Frame
      BY <2>2, <3>1
    <3>3. /\ reg' \in [Conns -> Identities \cup {NoIdentity}]
          /\ byDevice' \in [Devices -> Conns \cup {NoConn}]
          /\ failures' \in [Conns -> Failures]
      BY <2>1, <3>1, FewFailures DEF TypeOK
    <3>4. QED BY <3>1, <3>2, <3>3 DEF TypeOK
  <2>5. QED BY <2>3, <2>4
<1>5. ASSUME NEW key \in Keys, NEW flaw \in {"none", "fingerprint", "signature"},
             onAuthProof(c, key, flaw)
      PROVE  TypeOK'
  <2>1. CASE Refuse(c)
    BY <2>1, RefuseType
  <2>2. CASE ~Refuse(c)
    <3> DEFINE pr == [conn |-> c, dev |-> reg[c].dev, key |-> key,
                      step |-> "fingerprint", flaw |-> flaw]
    <3>1. /\ failures[c] >= 0 /\ proofs' = proofs \cup {pr} /\ out' = {}
          /\ UNCHANGED <<connVars, failures, provedKey, enrolled, revoked, pairVars, sessVars>>
      BY <1>5, <2>2 DEF onAuthProof
    <3>2. reg[c] \in Identities
      BY <3>1 DEF GreetedWhenChallenged, Greeted, TypeOK
    <3>3. pr \in Proof
      BY <3>2 DEF Proof
    <3> HIDE DEF pr
    <3>4. QED BY <3>1, <3>3 DEF TypeOK
  <2>3. QED BY <2>1, <2>2
<1>6. QED BY <1>1, <1>2, <1>3, <1>4, <1>5 DEF ConnStep

LEMMA AuthStepType ==
  ASSUME TypeOK, AuthStep
  PROVE  TypeOK'
<1> USE DEF connVars, authVars, pairVars, sessVars
<1>1. ASSUME NEW pr \in proofs, FingerprintChecked(pr)
      PROVE  TypeOK'
  <2>1. pr \in Proof /\ pr.conn \in Conns /\ [pr EXCEPT !.step = "signature"] \in Proof
    BY DEF TypeOK, Proof
  <2>2. CASE authFailure(pr)
    BY <2>2, AuthFailureType
  <2>3. CASE Drop(pr)
    BY <2>3 DEF Drop, TypeOK
  <2>4. CASE /\ proofs' = proofs \ {pr}
             /\ CloseConn(pr.conn, requests, Send({pr.conn}, "error", "none"))
    <3>1. Send({pr.conn}, "error", "none") \subseteq Frame
      BY SendType DEF FrameTypes
    <3>2. QED BY <2>1, <2>4, <3>1, CloseConnType DEF TypeOK
  <2>5. CASE /\ proofs' = (proofs \ {pr}) \cup {[pr EXCEPT !.step = "signature"]}
             /\ out' = {}
             /\ UNCHANGED <<connVars, failures, provedKey, enrolled, revoked, pairVars, sessVars>>
    BY <2>1, <2>5 DEF TypeOK
  <2>6. QED BY <1>1, <2>2, <2>3, <2>4, <2>5 DEF FingerprintChecked
<1>2. ASSUME NEW pr \in proofs, SignatureChecked(pr)
      PROVE  TypeOK'
  <2>1. pr \in Proof /\ pr.conn \in Conns /\ pr.dev \in Devices /\ pr.key \in Keys
    BY DEF TypeOK, Proof
  <2>2. Send({pr.conn}, "auth.ok", "none") \subseteq Frame
    BY SendType DEF FrameTypes
  <2>3. CASE authFailure(pr)
    BY <2>3, AuthFailureType
  <2>4. CASE ~authFailure(pr)
    <3>1. /\ proofs' = proofs \ {pr}
          /\ enrolled' = [enrolled EXCEPT ![pr.dev] = pr.key]
          /\ failures' = [failures EXCEPT ![pr.conn] = -1]
          /\ provedKey' = [provedKey EXCEPT ![pr.conn] = pr.key]
          /\ out' = Send({pr.conn}, "auth.ok", "none")
          /\ UNCHANGED <<connVars, revoked, pairVars, sessVars>>
      BY <1>2, <2>4 DEF SignatureChecked
    <3>2. enrolled' \in [Devices -> Keys \cup {NoKey}]
      BY <2>1, <3>1 DEF TypeOK
    <3>3. failures' \in [Conns -> Failures]
      BY <2>1, <3>1, FewFailures DEF TypeOK
    <3>4. provedKey' \in [Conns -> Keys \cup {NoKey}]
      BY <2>1, <3>1 DEF TypeOK
    <3>5. out' \subseteq Frame
      BY <2>2, <3>1
    <3>6. QED BY <3>1, <3>2, <3>3, <3>4, <3>5 DEF TypeOK
  <2>5. QED BY <2>3, <2>4
<1>3. ASSUME NEW d \in Devices, Revoke(d)
      PROVE  TypeOK'
  BY <1>3 DEF Revoke, TypeOK
<1>4. ASSUME NEW d \in Devices, NEW key \in Keys, AdminEnroll(d, key)
      PROVE  TypeOK'
  BY <1>4 DEF AdminEnroll, TypeOK
<1>5. QED BY <1>1, <1>2, <1>3, <1>4 DEF AuthStep

LEMMA PairStepType ==
  ASSUME TypeOK, NEW c \in Conns, NEW p \in PairIds, PairStep(c, p)
  PROVE  TypeOK'
<1> USE DEF connVars, authVars, pairVars, sessVars
<1>1. CASE Refuse(c)
  BY <1>1, RefuseType
<1>2. CASE Reply(c, "error")
  BY <1>2, ReplyType DEF FrameTypes
<1>3. ASSUME pairings' \in [PairIds -> Pairing], out' \subseteq Frame,
             UNCHANGED <<connVars, authVars, lapsed, sessVars>>
      PROVE  TypeOK'
  BY <1>3 DEF TypeOK
<1>4. ASSUME NEW q \in PairIds, NEW state \in PairingStates
      PROVE  [pairings[q] EXCEPT !.state = state] \in Pairing
  BY DEF TypeOK, Pairing
<1>5. CASE onPairCreate(c, p) /\ ~Refuse(c)
  <2>1. [state |-> "CREATED", desktop |-> c, phone |-> NoConn] \in Pairing
    BY DEF Pairing, PairingStates
  <2>2. \A q \in PairIds : pairings[q] \in Pairing /\ [pairings[q] EXCEPT !.state = "CANCELLED"] \in Pairing
    BY <1>4 DEF TypeOK, PairingStates
  <2>3. pairings' \in [PairIds -> Pairing]
    BY <1>5, <2>1, <2>2 DEF onPairCreate
  <2>4. Send({c}, "pair.created", p) \subseteq Frame
    BY SendType DEF FrameTypes
  <2>5. QED BY <1>3, <1>5, <2>3, <2>4 DEF onPairCreate
<1>6. CASE onPairJoin(c, p) /\ ~Refuse(c) /\ ~Reply(c, "error")
  <2>1. Send({c}, "error", "none") \subseteq Frame /\ Send({pairings[p].desktop}, "pair.join", p) \subseteq Frame
    BY SendType DEF FrameTypes
  <2>2. pairings' \in [PairIds -> Pairing]
    <3>1. CASE pairings' = [pairings EXCEPT ![p].state = "EXPIRED"]
      BY <1>4, <3>1 DEF TypeOK, PairingStates
    <3>2. CASE pairings' = [pairings EXCEPT ![p].state = "JOINED", ![p].phone = c]
      <4>1. pairings' = [pairings EXCEPT ![p] = [pairings[p] EXCEPT !.state = "JOINED", !.phone = c]]
        BY <3>2 DEF TypeOK, Pairing
      <4>2. [pairings[p] EXCEPT !.state = "JOINED", !.phone = c] \in Pairing
        <5>1. pairings[p] \in Pairing /\ c \in Conns \cup {NoConn} /\ "JOINED" \in PairingStates
          BY DEF TypeOK, PairingStates
        <5>2. QED BY <5>1 DEF Pairing
      <4>3. QED BY <4>1, <4>2 DEF TypeOK
    <3>3. QED BY <1>6, <3>1, <3>2 DEF onPairJoin
  <2>3. QED BY <1>3, <1>6, <2>1, <2>2 DEF onPairJoin
<1>7. ASSUME NEW accept \in BOOLEAN, decidePairing(c, p, accept), ~Refuse(c), ~Reply(c, "error")
      PROVE  TypeOK'
  <2>1. Send(PartiesOf(p), IF accept THEN "pair.accepted" ELSE "pair.rejected", p) \subseteq Frame
    BY SendType DEF FrameTypes
  <2>2. [pairings[p] EXCEPT !.state = IF accept THEN "CONSUMED" ELSE "REJECTED"] \in Pairing
    BY <1>4 DEF PairingStates
  <2>3. pairings' \in [PairIds -> Pairing]
    BY <1>7, <2>2 DEF decidePairing, TypeOK
  <2>4. QED BY <1>3, <1>7, <2>1, <2>3 DEF decidePairing
<1>8. QED BY <1>1, <1>2, <1>5, <1>6, <1>7 DEF PairStep, onPairAccept, onPairReject

LEMMA SessionStepType ==
  ASSUME TypeOK, NEW c \in Conns, SessionStep(c)
  PROVE  TypeOK'
<1> USE DEF connVars, authVars, pairVars, sessVars
<1>1. CASE Refuse(c)
  BY <1>1, RefuseType
<1>2. CASE Reply(c, "error")
  BY <1>2, ReplyType DEF FrameTypes
<1>3. ASSUME requests' \in [Devices \X Devices -> Conns \cup {NoConn}],
             sessions' \in [SessionIds -> Session], out' \subseteq Frame,
             UNCHANGED <<connVars, authVars, pairVars>>
      PROVE  TypeOK'
  BY <1>3 DEF TypeOK
<1>4. Send({c}, "error", "none") \subseteq Frame
  BY SendType DEF FrameTypes
<1>5. ASSUME Greeted(c)
      PROVE  reg[c].dev \in Devices
  BY <1>5 DEF Greeted, TypeOK
<1>6. ASSUME NEW d \in Devices, onSessionRequest(c, d), ~Refuse(c), ~Reply(c, "error")
      PROVE  TypeOK'
  <2>1. reg[c].dev \in Devices
    BY <1>5, <1>6 DEF onSessionRequest
  <2>2. /\ requests' = [requests EXCEPT ![<<d, reg[c].dev>>] = c]
        /\ out' = Send({byDevice[d]}, "session.request", "none")
        /\ UNCHANGED <<connVars, authVars, pairVars, sessions>>
    BY <1>6 DEF onSessionRequest
  <2>3. out' \subseteq Frame
    BY <2>2, SendType DEF FrameTypes
  <2>4. requests' \in [Devices \X Devices -> Conns \cup {NoConn}]
    BY <2>1, <2>2 DEF TypeOK
  <2>5. QED BY <1>3, <2>2, <2>3, <2>4 DEF TypeOK
<1>7. CASE onSessionRejected(c) /\ ~Refuse(c)
  <2>1. /\ requests' = [k \in Devices \X Devices |-> IF k[1] = reg[c].dev THEN NoConn ELSE requests[k]]
        /\ out' = Send({requests[<<reg[c].dev, ph>>] : ph \in Devices}, "session.rejected", "none")
        /\ UNCHANGED <<connVars, authVars, pairVars, sessions>>
    BY <1>7 DEF onSessionRejected
  <2>2. out' \subseteq Frame
    BY <2>1, SendType DEF FrameTypes
  <2>3. requests' \in [Devices \X Devices -> Conns \cup {NoConn}]
    BY <2>1 DEF TypeOK
  <2>4. QED BY <1>3, <2>1, <2>2, <2>3 DEF TypeOK
<1>8. ASSUME NEW claimed \in Devices, NEW ph \in Devices, NEW s \in SessionIds,
             onSessionAccepted(c, claimed, ph, s), ~Refuse(c), ~Reply(c, "error")
      PROVE  TypeOK'
  <2> DEFINE k == <<reg[c].dev, ph>>
             rest == [requests EXCEPT ![k] = NoConn]
  <2>1. reg[c].dev \in Devices
    BY <1>5, <1>8 DEF onSessionAccepted
  <2>2. rest \in [Devices \X Devices -> Conns \cup {NoConn}]
    BY <2>1 DEF TypeOK
  <2>3. CASE CloseConn(c, rest, Send({c}, "error", "none")) /\ UNCHANGED proofs
    BY <1>4, <2>2, <2>3, CloseConnType DEF TypeOK
  <2>4. CASE /\ requests' = rest
             /\ out' = Send({c}, "error", "none") \cup Send(ConflictTold(requests[k]), "session.rejected", "none")
             /\ UNCHANGED <<connVars, authVars, pairVars, sessions>>
    <3>1. Send(ConflictTold(requests[k]), "session.rejected", "none") \subseteq Frame
      BY SendType DEF FrameTypes
    <3>2. out' \subseteq Frame
      BY <1>4, <2>4, <3>1
    <3>3. QED BY <1>3, <2>2, <2>4, <3>2 DEF TypeOK
  <2>5. CASE /\ requests' = rest /\ requests[k] # NoConn
             /\ sessions' = [sessions EXCEPT ![s] =
                  [state |-> "SIGNALING", desktopDev |-> reg[c].dev, phoneDev |-> ph,
                   desktop |-> c, phone |-> requests[k]]]
             /\ out' = Send({requests[k]}, "session.accepted", s)
             /\ UNCHANGED <<connVars, authVars, pairVars>>
    <3>1. out' \subseteq Frame
      BY <2>5, SendType DEF FrameTypes
    <3>2. requests[k] \in Conns
      BY <2>1, <2>5 DEF TypeOK
    <3>3. [state |-> "SIGNALING", desktopDev |-> reg[c].dev, phoneDev |-> ph,
           desktop |-> c, phone |-> requests[k]] \in Session
      BY <2>1, <3>2 DEF Session, SessionStates
    <3>4. sessions' \in [SessionIds -> Session]
      BY <2>5, <3>3 DEF TypeOK
    <3>5. QED BY <1>3, <2>2, <2>5, <3>1, <3>4
  <2>6. QED BY <1>8, <2>3, <2>4, <2>5 DEF onSessionAccepted
<1>9. ASSUME NEW s \in SessionIds, onSessionClose(c, s), ~Refuse(c), ~Reply(c, "error")
      PROVE  TypeOK'
  <2>1. /\ sessions' = [sessions EXCEPT ![s].state = "CLOSED"]
        /\ out' = Send({PeerOf(c, s)}, "session.close", s)
        /\ UNCHANGED <<connVars, authVars, pairVars, requests>>
    BY <1>9 DEF onSessionClose
  <2>2. [sessions[s] EXCEPT !.state = "CLOSED"] \in Session
    <3>1. sessions[s] \in Session
      BY DEF TypeOK
    <3>2. QED BY <3>1, SMTT(30) DEF Session, SessionStates
  <2>3. sessions' \in [SessionIds -> Session]
    BY <2>1, <2>2 DEF TypeOK
  <2>4. out' \subseteq Frame
    BY <2>1, SendType DEF FrameTypes
  <2>5. QED BY <1>3, <2>1, <2>3, <2>4 DEF TypeOK
<1>10. ASSUME NEW role \in Roles \cup {"none"}, NEW s \in SessionIds,
              relaySignal(c, role, s), ~Refuse(c), ~Reply(c, "error")
       PROVE  TypeOK'
  <2>1. out' = Send({PeerOf(c, s)}, "signal", s) /\ UNCHANGED stored
    BY <1>10 DEF relaySignal
  <2>2. out' \subseteq Frame
    BY <2>1, SendType DEF FrameTypes
  <2>3. QED BY <2>1, <2>2 DEF TypeOK, stored
<1>11. QED BY <1>1, <1>2, <1>6, <1>7, <1>8, <1>9, <1>10 DEF SessionStep

LEMMA RestartType ==
  ASSUME TypeOK, Restart
  PROVE  TypeOK'
<1>1. \A p \in PairIds : pairings'[p] \in Pairing
  BY DEF Restart, TypeOK, Pairing, PairingStates, NoPairing
<1>2. pairings' \in [PairIds -> Pairing]
  BY <1>1 DEF Restart
<1>3. [NoSession EXCEPT !.state = "GONE"] \in Session
  BY DEF NoSession, Session, SessionStates
<1>4. sessions' \in [SessionIds -> Session]
  BY <1>3 DEF Restart, TypeOK
<1>5. enrolled' \in [Devices -> Keys \cup {NoKey}] /\ revoked' \subseteq Devices
  BY DEF Restart, TypeOK
<1>6. /\ reg' \in [Conns -> Identities \cup {NoIdentity}]
      /\ byDevice' \in [Devices -> Conns \cup {NoConn}]
      /\ requests' \in [Devices \X Devices -> Conns \cup {NoConn}]
  BY DEF Restart
<1>7. failures' \in [Conns -> Failures] /\ provedKey' \in [Conns -> Keys \cup {NoKey}]
  BY FewFailures DEF Restart
<1>8. /\ opened' \subseteq Conns /\ live' \subseteq opened'
      /\ proofs' \subseteq Proof /\ lapsed' \subseteq PairIds /\ out' \subseteq Frame
  BY DEF Restart, TypeOK
<1>9. QED BY <1>2, <1>4, <1>5, <1>6, <1>7, <1>8 DEF TypeOK

LEMMA NextType ==
  ASSUME TypeOK, GreetedWhenChallenged, [Next]_vars
  PROVE  TypeOK'
<1>1. ASSUME NEW p \in PairIds, PairingLapses(p)
      PROVE  TypeOK'
  BY <1>1 DEF PairingLapses, TypeOK, connVars, authVars, sessVars
<1>2. CASE UNCHANGED vars
  BY <1>2 DEF vars, stored, connVars, authVars, pairVars, sessVars, TypeOK
<1>3. QED BY <1>1, <1>2, ConnStepType, AuthStepType, PairStepType, SessionStepType, RestartType DEF Next
-----------------------------------------------------------------------------
(* What a step does to the connections: it opens one, greets one, closes     *)
(* one, closes all or leaves them alone.  Every invariant below that relates *)
(* a table to the connections is proved along these five cases.              *)
Opens(c) == c \notin opened /\ opened' = opened \cup {c} /\ live' = live \cup {c}
            /\ UNCHANGED <<reg, byDevice, failures>>
Greets(c, id) ==
  /\ c \in live /\ reg[c] = NoIdentity /\ ~BoundElsewhere(c, id.dev)
  /\ reg' = [reg EXCEPT ![c] = id] /\ byDevice' = [byDevice EXCEPT ![id.dev] = c]
  /\ failures' = [failures EXCEPT ![c] = 0]
  /\ UNCHANGED <<opened, live>>
Leaves(c) ==
  /\ live' = live \ {c} /\ reg' = [reg EXCEPT ![c] = NoIdentity]
  /\ byDevice' = Released(c) /\ opened' = opened
  /\ failures' = [failures EXCEPT ![c] = -1]
ClosesAll ==
  /\ live' = {} /\ opened' = opened
  /\ reg' = [c \in Conns |-> NoIdentity] /\ byDevice' = [d \in Devices |-> NoConn]
  /\ failures' = [c \in Conns |-> -1]
Stay == UNCHANGED connVars /\ \A c \in Conns : failures'[c] # -1 => failures[c] # -1

LEMMA ConnectionCases ==
  ASSUME TypeOK, [Next]_vars
  PROVE  \/ \E c \in Conns : Opens(c)
         \/ \E c \in Conns, id \in Identities : Greets(c, id)
         \/ \E c \in Conns : Leaves(c)
         \/ ClosesAll
         \/ Stay
<1> DEFINE Goal == \/ \E c \in Conns : Opens(c)
                   \/ \E c \in Conns, id \in Identities : Greets(c, id)
                   \/ \E c \in Conns : Leaves(c)
                   \/ ClosesAll
                   \/ Stay
<1>1. ASSUME NEW c \in Conns, NEW rq, NEW sent, CloseConn(c, rq, sent)
      PROVE  Goal
  BY <1>1 DEF CloseConn, Leaves
<1>2. ASSUME NEW c \in Conns, Refuse(c)
      PROVE  Goal
  BY <1>1, <1>2 DEF Refuse
<1>3. ASSUME NEW c \in Conns, Reply(c, "error")
      PROVE  Goal
  BY <1>3 DEF Reply, stored, authVars, Stay
<1>4. ASSUME NEW pr \in proofs, authFailure(pr)
      PROVE  Goal
  <2>1. pr.conn \in Conns
    BY DEF TypeOK, Proof
  <2>2. QED BY <1>1, <1>4, <2>1 DEF authFailure, Drop, Stay, TypeOK
<1>5. ASSUME NEW c \in Conns, ConnStep(c)
      PROVE  Goal
  <2>1. CASE Open(c)
    BY <2>1 DEF Open, Opens, authVars
  <2>2. CASE SocketCloses(c) \/ SweepStale(c) \/ RefusedFrame(c)
    BY <1>1, <1>2, <2>2 DEF SocketCloses, SweepStale, RefusedFrame
  <2>3. ASSUME NEW id \in Identities, onHello(c, id)
        PROVE  Goal
    BY <1>2, <2>3 DEF onHello, Greets
  <2>4. ASSUME NEW key \in Keys, NEW flaw \in {"none", "fingerprint", "signature"}, onAuthProof(c, key, flaw)
        PROVE  Goal
    BY <1>2, <2>4 DEF onAuthProof, Stay
  <2>5. QED BY <1>5, <2>1, <2>2, <2>3, <2>4 DEF ConnStep
<1>6. ASSUME AuthStep
      PROVE  Goal
  <2>1. \A pr \in proofs : pr.conn \in Conns
    BY DEF TypeOK, Proof
  <2>2. ASSUME NEW pr \in proofs, FingerprintChecked(pr)
        PROVE  Goal
    BY <1>1, <1>4, <2>1, <2>2 DEF FingerprintChecked, Drop, Stay
  <2>3. ASSUME NEW pr \in proofs, SignatureChecked(pr)
        PROVE  Goal
    BY <1>4, <2>3 DEF SignatureChecked, Stay, TypeOK
  <2>4. QED BY <1>6, <2>2, <2>3 DEF AuthStep, Revoke, AdminEnroll, Stay
<1>7. ASSUME NEW c \in Conns, NEW p \in PairIds, PairStep(c, p)
      PROVE  Goal
  BY <1>2, <1>3, <1>7 DEF PairStep, onPairCreate, onPairJoin, onPairAccept, onPairReject, decidePairing, authVars, Stay
<1>8. ASSUME NEW c \in Conns, SessionStep(c)
      PROVE  Goal
  <2>1. ASSUME NEW d \in Devices, onSessionRequest(c, d)
        PROVE  Goal
    BY <1>2, <1>3, <2>1 DEF onSessionRequest, authVars, Stay
  <2>2. CASE onSessionRejected(c)
    BY <1>2, <2>2 DEF onSessionRejected, connVars, authVars, Stay
  <2>3. ASSUME NEW claimed \in Devices, NEW ph \in Devices, NEW s \in SessionIds,
               onSessionAccepted(c, claimed, ph, s)
        PROVE  Goal
    BY <1>1, <1>2, <1>3, <2>3 DEF onSessionAccepted, authVars, Stay
  <2>4. ASSUME NEW s \in SessionIds, onSessionClose(c, s)
        PROVE  Goal
    BY <1>2, <1>3, <2>4 DEF onSessionClose, authVars, Stay
  <2>5. ASSUME NEW role \in Roles \cup {"none"}, NEW s \in SessionIds, relaySignal(c, role, s)
        PROVE  Goal
    BY <1>2, <1>3, <2>5 DEF relaySignal, stored, authVars, Stay
  <2>6. QED BY <1>8, <2>1, <2>2, <2>3, <2>4, <2>5 DEF SessionStep
<1>9. QED BY <1>5, <1>6, <1>7, <1>8 DEF Next, PairingLapses, Restart, ClosesAll, vars, stored, authVars, Stay
-----------------------------------------------------------------------------
(* What reg, byDevice and pendingAuth say about each other.                  *)
RegisteredIsLive == \A c \in Conns : reg[c] # NoIdentity => c \in live
ConnInv == TypeOK /\ RegisteredIsLive /\ RoutingIsExact /\ GreetedWhenChallenged

LEMMA ConnInvStep ==
  ASSUME ConnInv, [Next]_vars
  PROVE  ConnInv'
<1> USE DEF ConnInv, RegisteredIsLive, RoutingIsExact, GreetedWhenChallenged, Greeted
<1>1. TypeOK'
  BY NextType
<1>2. ASSUME NEW c \in Conns, Opens(c)
      PROVE  ConnInv'
  BY <1>1, <1>2 DEF Opens, TypeOK
<1>3. ASSUME NEW c \in Conns, NEW id \in Identities, Greets(c, id)
      PROVE  ConnInv'
  <2>1. id.dev \in Devices /\ id # NoIdentity
    OBVIOUS
  <2>2. byDevice[id.dev] = NoConn
    BY <1>3, <2>1 DEF Greets, BoundElsewhere, TypeOK
  <2>3. RegisteredIsLive' /\ GreetedWhenChallenged'
    BY <1>3, <2>1 DEF Greets, TypeOK
  <2>4. RoutingIsExact'
    BY <1>3, <2>1, <2>2 DEF Greets, TypeOK
  <2>5. QED BY <1>1, <2>3, <2>4
<1>4. ASSUME NEW c \in Conns, Leaves(c)
      PROVE  ConnInv'
  <2>1. RegisteredIsLive' /\ GreetedWhenChallenged'
    BY <1>4 DEF Leaves, TypeOK
  <2>2. RoutingIsExact'
    BY <1>4 DEF Leaves, Released, TypeOK
  <2>3. QED BY <1>1, <2>1, <2>2
<1>5. CASE ClosesAll
  BY <1>1, <1>5 DEF ClosesAll
<1>6. CASE Stay
  BY <1>1, <1>6 DEF Stay, connVars
<1>7. QED BY <1>2, <1>3, <1>4, <1>5, <1>6, ConnectionCases

LEMMA ConnInvInit == Init => ConnInv
BY FewFailures DEF Init, ConnInv, TypeOK, RegisteredIsLive, RoutingIsExact, GreetedWhenChallenged, Greeted,
       NoPairing, NoSession, Pairing, Session, PairingStates, SessionStates

LEMMA ConnInvAlways == Spec => []ConnInv
<1>1. QED BY ConnInvInit, ConnInvStep, PTL DEF Spec

(* Every reachable state has the types of TypeOK (router.ts, registry.ts).   *)
THEOREM TypeCorrect == Spec => []TypeOK
<1>1. ConnInv => TypeOK
  BY DEF ConnInv
<1>2. QED BY <1>1, ConnInvAlways, PTL

(* byDevice names exactly the greeted live connections, one per device, so a *)
(* device id never routes to a dead connection (registry.ts bind and         *)
(* unregister).                                                              *)
THEOREM RoutingAlwaysExact == Spec => []RoutingIsExact
<1>1. ConnInv => RoutingIsExact
  BY DEF ConnInv
<1>2. QED BY <1>1, ConnInvAlways, PTL
-----------------------------------------------------------------------------
(* Sessions.  A step closes some of the open sessions, takes requests away,  *)
(* adds a request of the phone that asks, or opens one session from a        *)
(* request; no other change of the two tables exists.                        *)
SessionsClose(S) ==
  sessions' = [s \in SessionIds |-> IF s \in S THEN [sessions[s] EXCEPT !.state = "CLOSED"] ELSE sessions[s]]
RequestsShrink == \A k \in Devices \X Devices : requests'[k] \in {requests[k], NoConn}
SessionsOfConnClose(c) ==
  /\ Leaves(c) /\ SessionsClose(sessionsOf(c)) /\ RequestsShrink
  /\ \A k \in Devices \X Devices : requests'[k] # c
AllForgotten ==
  /\ ClosesAll /\ requests' = [k \in Devices \X Devices |-> NoConn]
  /\ \A s \in SessionIds : ~(SessionOpen(s))'
SomeClose == UNCHANGED <<live, reg>> /\ RequestsShrink /\ \E S \in SUBSET SessionIds : SessionsClose(S)
Asked(c, d) ==
  /\ Greeted(c) /\ Is(c, "phone") /\ requests' = [requests EXCEPT ![<<d, reg[c].dev>>] = c]
  /\ UNCHANGED <<live, reg, sessions>>
Accepted(c, ph, s) ==
  LET k == <<reg[c].dev, ph>> IN
  /\ Greeted(c) /\ Is(c, "desktop") /\ requests[k] # NoConn /\ ~SessionConflict(reg[c].dev, ph)
  /\ requests' = [requests EXCEPT ![k] = NoConn]
  /\ sessions' = [sessions EXCEPT ![s] =
       [state |-> "SIGNALING", desktopDev |-> reg[c].dev, phoneDev |-> ph, desktop |-> c, phone |-> requests[k]]]
  /\ UNCHANGED <<live, reg>>
Unaffected == UNCHANGED sessVars /\ \A c \in Conns : c \in live => c \in live' /\ (reg[c] # NoIdentity => reg'[c] = reg[c])

LEMMA SessionCases ==
  ASSUME ConnInv, [Next]_vars
  PROVE  \/ \E c \in Conns : SessionsOfConnClose(c)
         \/ AllForgotten \/ SomeClose \/ Unaffected
         \/ \E c \in Conns, d \in Devices : Asked(c, d)
         \/ \E c \in Conns, ph \in Devices, s \in SessionIds : Accepted(c, ph, s)
<1> DEFINE Goal == \/ \E c \in Conns : SessionsOfConnClose(c)
                   \/ AllForgotten \/ SomeClose \/ Unaffected
                   \/ \E c \in Conns, d \in Devices : Asked(c, d)
                   \/ \E c \in Conns, ph \in Devices, s \in SessionIds : Accepted(c, ph, s)
<1> USE DEF ConnInv
<1>1. ASSUME NEW c \in Conns, NEW rq \in [Devices \X Devices -> Conns \cup {NoConn}],
             NEW sent, CloseConn(c, rq, sent),
             \A k \in Devices \X Devices : rq[k] \in {requests[k], NoConn}
      PROVE  Goal
  <2>1. Leaves(c) /\ SessionsClose(sessionsOf(c))
    BY <1>1 DEF CloseConn, Leaves, SessionsClose
  <2>2. RequestsShrink /\ \A k \in Devices \X Devices : requests'[k] # c
    BY <1>1 DEF CloseConn, RequestsWithout, RequestsShrink
  <2>3. QED BY <2>1, <2>2 DEF SessionsOfConnClose
<1>2. requests \in [Devices \X Devices -> Conns \cup {NoConn}]
  BY DEF TypeOK
<1>3. ASSUME NEW c \in Conns, NEW sent, CloseConn(c, requests, sent)
      PROVE  Goal
  BY <1>1, <1>2, <1>3
<1>4. ASSUME NEW c \in Conns, Refuse(c)
      PROVE  Goal
  BY <1>3, <1>4 DEF Refuse
<1>5. ASSUME UNCHANGED <<live, reg, sessVars>>
      PROVE  Goal
  BY <1>5 DEF Unaffected
<1>6. ASSUME NEW c \in Conns, Reply(c, "error")
      PROVE  Goal
  BY <1>5, <1>6 DEF Reply, stored, connVars
<1>7. ASSUME NEW pr \in proofs, authFailure(pr)
      PROVE  Goal
  <2>1. pr.conn \in Conns
    BY DEF TypeOK, Proof
  <2>2. QED BY <1>3, <1>5, <1>7, <2>1 DEF authFailure, Drop, connVars
<1>8. ASSUME NEW c \in Conns, ConnStep(c)
      PROVE  Goal
  <2>1. CASE Open(c)
    BY <2>1 DEF Open, Unaffected
  <2>2. CASE SocketCloses(c) \/ SweepStale(c) \/ RefusedFrame(c)
    BY <1>3, <1>4, <2>2 DEF SocketCloses, SweepStale, RefusedFrame
  <2>3. ASSUME NEW id \in Identities, onHello(c, id)
        PROVE  Goal
    <3>1. CASE Refuse(c)
      BY <1>4, <3>1
    <3>2. CASE ~Refuse(c)
      BY <2>3, <3>2 DEF onHello, Unaffected, TypeOK
    <3>3. QED BY <3>1, <3>2
  <2>4. ASSUME NEW key \in Keys, NEW flaw \in {"none", "fingerprint", "signature"}, onAuthProof(c, key, flaw)
        PROVE  Goal
    BY <1>4, <1>5, <2>4 DEF onAuthProof, connVars
  <2>5. QED BY <1>8, <2>1, <2>2, <2>3, <2>4 DEF ConnStep
<1>9. ASSUME AuthStep
      PROVE  Goal
  <2>1. \A pr \in proofs : pr.conn \in Conns
    BY DEF TypeOK, Proof
  <2>2. ASSUME NEW pr \in proofs, FingerprintChecked(pr)
        PROVE  Goal
    BY <1>3, <1>5, <1>7, <2>1, <2>2 DEF FingerprintChecked, Drop, connVars
  <2>3. ASSUME NEW pr \in proofs, SignatureChecked(pr)
        PROVE  Goal
    BY <1>5, <1>7, <2>3 DEF SignatureChecked, connVars
  <2>4. QED BY <1>5, <1>9, <2>2, <2>3 DEF AuthStep, Revoke, AdminEnroll, connVars
<1>10. ASSUME NEW c \in Conns, NEW p \in PairIds, PairStep(c, p)
       PROVE  Goal
  BY <1>4, <1>5, <1>6, <1>10
     DEF PairStep, onPairCreate, onPairJoin, onPairAccept, onPairReject, decidePairing, connVars
<1>11. ASSUME NEW c \in Conns, SessionStep(c)
       PROVE  Goal
  <2>1. ASSUME NEW d \in Devices, onSessionRequest(c, d)
        PROVE  Goal
    BY <1>4, <1>6, <2>1 DEF onSessionRequest, Asked, connVars
  <2>2. ASSUME UNCHANGED <<live, reg, sessions>>, RequestsShrink
        PROVE  Goal
    <3>1. SessionsClose({})
      BY <2>2 DEF SessionsClose, TypeOK
    <3>2. QED BY <2>2, <3>1 DEF SomeClose
  <2>3. CASE onSessionRejected(c)
    BY <1>4, <2>2, <2>3 DEF onSessionRejected, RequestsShrink, connVars
  <2>4. ASSUME NEW claimed \in Devices, NEW ph \in Devices, NEW s \in SessionIds,
               onSessionAccepted(c, claimed, ph, s)
        PROVE  Goal
    <3> DEFINE rest == [requests EXCEPT ![<<reg[c].dev, ph>>] = NoConn]
    <3>1. /\ rest \in [Devices \X Devices -> Conns \cup {NoConn}]
          /\ \A k \in Devices \X Devices : rest[k] \in {requests[k], NoConn}
      BY <1>2
    <3>2. CASE CloseConn(c, rest, Send({c}, "error", "none"))
      BY <1>1, <3>1, <3>2
    <3>3. CASE requests' = rest /\ UNCHANGED <<connVars, authVars, pairVars, sessions>>
      BY <2>2, <3>1, <3>3 DEF RequestsShrink, connVars
    <3>4. CASE Refuse(c) \/ Reply(c, "error")
      BY <1>4, <1>6, <3>4
    <3>5. CASE Accepted(c, ph, s)
      BY <3>5
    <3>6. QED BY <2>4, <3>2, <3>3, <3>4, <3>5 DEF onSessionAccepted, Accepted, connVars
  <2>5. ASSUME NEW s \in SessionIds, onSessionClose(c, s)
        PROVE  Goal
    <3>1. CASE Refuse(c) \/ Reply(c, "error")
      BY <1>4, <1>6, <3>1
    <3>2. CASE /\ sessions' = [sessions EXCEPT ![s].state = "CLOSED"]
               /\ UNCHANGED <<connVars, authVars, pairVars, requests>>
      <4>1. SessionsClose({s})
        BY <3>2 DEF SessionsClose, TypeOK
      <4>2. QED BY <3>2, <4>1 DEF SomeClose, RequestsShrink, connVars
    <3>3. QED BY <2>5, <3>1, <3>2 DEF onSessionClose
  <2>6. ASSUME NEW role \in Roles \cup {"none"}, NEW s \in SessionIds, relaySignal(c, role, s)
        PROVE  Goal
    BY <1>4, <1>5, <1>6, <2>6 DEF relaySignal, stored, connVars
  <2>7. QED BY <1>11, <2>1, <2>3, <2>4, <2>5, <2>6 DEF SessionStep
<1>12. CASE Restart
  BY <1>12 DEF Restart, AllForgotten, ClosesAll, SessionOpen, NoSession
<1>13. QED BY <1>5, <1>8, <1>9, <1>10, <1>11, <1>12 DEF Next, PairingLapses, vars, stored, connVars

(* The inductive invariant of the session tables.                            *)
SessionInv == ConnInv /\ RequestsAreLive /\ OpenSessionEndsAreLive /\ OneOpenSessionPerDevice

LEMMA SessionInvStep ==
  ASSUME SessionInv, [Next]_vars
  PROVE  SessionInv'
<1> USE DEF SessionInv, Greeted
<1>1. ConnInv'
  BY ConnInvStep
<1>2. ASSUME NEW S \in SUBSET SessionIds, SessionsClose(S)
      PROVE  /\ \A s \in SessionIds : (SessionOpen(s))' => SessionOpen(s) /\ s \notin S /\ sessions'[s] = sessions[s]
             /\ OneOpenSessionPerDevice'
  <2>1. \A s \in SessionIds : (SessionOpen(s))' => SessionOpen(s) /\ s \notin S /\ sessions'[s] = sessions[s]
    <3>1. \A s \in SessionIds : sessions[s] \in Session
      BY DEF ConnInv, TypeOK
    <3>2. QED BY <1>2, <3>1 DEF SessionsClose, SessionOpen, Session
  <2>2. QED BY <2>1 DEF OneOpenSessionPerDevice
<1>3. ASSUME NEW c \in Conns, SessionsOfConnClose(c)
      PROVE  SessionInv'
  <2>1. sessionsOf(c) \in SUBSET SessionIds
    BY DEF sessionsOf
  <2>2. \A s \in SessionIds : (SessionOpen(s))' => SessionOpen(s) /\ ~PartyOf(c, s) /\ sessions'[s] = sessions[s]
    BY <1>2, <1>3, <2>1 DEF SessionsOfConnClose, sessionsOf
  <2>3. OpenSessionEndsAreLive'
    BY <1>3, <2>2 DEF OpenSessionEndsAreLive, SessionsOfConnClose, Leaves, PartyOf, ConnInv, TypeOK
  <2>4. RequestsAreLive'
    BY <1>3 DEF RequestsAreLive, SessionsOfConnClose, Leaves, RequestsShrink, ConnInv, TypeOK
  <2>5. QED BY <1>1, <1>2, <1>3, <2>1, <2>3, <2>4 DEF SessionsOfConnClose
<1>4. CASE AllForgotten
  BY <1>1, <1>4 DEF AllForgotten, RequestsAreLive, OpenSessionEndsAreLive, OneOpenSessionPerDevice
<1>5. CASE SomeClose
  <2>1. PICK S \in SUBSET SessionIds : SessionsClose(S)
    BY <1>5 DEF SomeClose
  <2>2. OpenSessionEndsAreLive'
    BY <1>2, <1>5, <2>1 DEF OpenSessionEndsAreLive, SomeClose
  <2>3. RequestsAreLive'
    BY <1>5 DEF RequestsAreLive, SomeClose, RequestsShrink
  <2>4. QED BY <1>1, <1>2, <2>1, <2>2, <2>3
<1>6. CASE Unaffected
  <2>1. OneOpenSessionPerDevice'
    BY <1>6 DEF Unaffected, sessVars, OneOpenSessionPerDevice, SessionOpen
  <2>2. \A c \in Conns : c \in live /\ reg[c] # NoIdentity => c \in live' /\ reg'[c] = reg[c]
    BY <1>6 DEF Unaffected
  <2>3. \A d \in Devices : [role |-> "desktop", dev |-> d] # NoIdentity /\ [role |-> "phone", dev |-> d] # NoIdentity
    BY NullsAssumption DEF Roles
  <2>4. /\ \A s \in SessionIds : sessions[s] \in Session
        /\ requests \in [Devices \X Devices -> Conns \cup {NoConn}]
        /\ live \subseteq Conns
    BY DEF ConnInv, TypeOK
  <2>5. OpenSessionEndsAreLive'
    <3>1. SUFFICES ASSUME NEW s \in SessionIds, SessionOpen(s)
                   PROVE  /\ Greeted(sessions[s].desktop)' /\ Greeted(sessions[s].phone)'
                          /\ reg'[sessions[s].desktop] = [role |-> "desktop", dev |-> sessions[s].desktopDev]
                          /\ reg'[sessions[s].phone] = [role |-> "phone", dev |-> sessions[s].phoneDev]
      BY <1>6 DEF Unaffected, sessVars, OpenSessionEndsAreLive, SessionOpen, Greeted
    <3>2. /\ sessions[s].desktop \in Conns /\ sessions[s].phone \in Conns
          /\ Greeted(sessions[s].desktop) /\ Greeted(sessions[s].phone)
          /\ reg[sessions[s].desktop] = [role |-> "desktop", dev |-> sessions[s].desktopDev]
          /\ reg[sessions[s].phone] = [role |-> "phone", dev |-> sessions[s].phoneDev]
      BY <2>4, <3>1 DEF OpenSessionEndsAreLive
    <3>3. QED BY <1>6, <2>2, <3>2 DEF Unaffected, sessVars
  <2>6. RequestsAreLive'
    BY <1>6, <2>2, <2>3, <2>4 DEF Unaffected, sessVars, RequestsAreLive
  <2>7. QED BY <1>1, <2>1, <2>5, <2>6
<1>7. ASSUME NEW c \in Conns, NEW d \in Devices, Asked(c, d)
      PROVE  SessionInv'
  <2>1. reg[c] \in Identities /\ reg[c] = [role |-> "phone", dev |-> reg[c].dev] /\ reg[c].dev \in Devices
    BY <1>7 DEF Asked, Greeted, Is, ConnInv, TypeOK
  <2>2. RequestsAreLive'
    BY <1>7, <2>1 DEF Asked, Greeted, RequestsAreLive, ConnInv, TypeOK
  <2>3. OpenSessionEndsAreLive' /\ OneOpenSessionPerDevice'
    BY <1>7 DEF Asked, OpenSessionEndsAreLive, OneOpenSessionPerDevice, SessionOpen
  <2>4. QED BY <1>1, <2>2, <2>3
<1>8. ASSUME NEW c \in Conns, NEW ph \in Devices, NEW s \in SessionIds, Accepted(c, ph, s)
      PROVE  SessionInv'
  <2> DEFINE d == reg[c].dev
             phone == requests[<<d, ph>>]
             opened_ == [state |-> "SIGNALING", desktopDev |-> d, phoneDev |-> ph, desktop |-> c, phone |-> phone]
  <2>1. /\ c \in live /\ d \in Devices /\ reg[c] = [role |-> "desktop", dev |-> d]
    BY <1>8 DEF Accepted, Greeted, Is, ConnInv, TypeOK
  <2>2. /\ phone \in live /\ reg[phone] = [role |-> "phone", dev |-> ph]
    BY <1>8, <2>1 DEF Accepted, RequestsAreLive
  <2>3. /\ sessions' = [sessions EXCEPT ![s] = opened_]
        /\ requests' = [requests EXCEPT ![<<d, ph>>] = NoConn]
        /\ UNCHANGED <<live, reg>>
    BY <1>8 DEF Accepted
  <2>4. RequestsAreLive'
    BY <2>1, <2>3 DEF RequestsAreLive, ConnInv, TypeOK
  <2>5. /\ sessions'[s] = opened_
        /\ \A t \in SessionIds \ {s} : sessions'[t] = sessions[t]
    BY <2>3 DEF ConnInv, TypeOK
  <2>6. OpenSessionEndsAreLive'
    <3>1. \A t \in SessionIds \ {s} : (SessionOpen(t))' => SessionOpen(t)
      BY <2>5 DEF SessionOpen
    <3>2. c # NoConn /\ phone \in Conns /\ phone # NoConn
      BY <2>1, <2>2, NullsAssumption DEF ConnInv, TypeOK
    <3>3. Greeted(c) /\ Greeted(phone)
      BY <1>8, <2>2, NullsAssumption DEF Accepted, Roles
    <3>4. QED BY <2>1, <2>2, <2>3, <2>5, <3>1, <3>2, <3>3 DEF OpenSessionEndsAreLive
  <2>7. \A t \in SessionIds : SessionOpen(t) => {d, ph} \cap {sessions[t].desktopDev, sessions[t].phoneDev} = {}
    BY <1>8 DEF Accepted, SessionConflict, findOpenByDevice
  <2>8. OneOpenSessionPerDevice'
    BY <2>5, <2>7 DEF OneOpenSessionPerDevice, SessionOpen
  <2>9. QED BY <1>1, <2>4, <2>6, <2>8
<1>9. QED BY <1>3, <1>4, <1>5, <1>6, <1>7, <1>8, SessionCases

LEMMA SessionInvAlways == Spec => []SessionInv
<1>1. Init => SessionInv
  <2>1. Init => RequestsAreLive /\ OpenSessionEndsAreLive /\ OneOpenSessionPerDevice
    BY DEF Init, RequestsAreLive, OpenSessionEndsAreLive, OneOpenSessionPerDevice, SessionOpen, NoSession
  <2>2. QED BY <2>1, ConnInvInit DEF SessionInv
<1>2. QED BY <1>1, SessionInvStep, PTL DEF Spec

(* ADR-009, for any number of devices, connections and pending requests.     *)
THEOREM OneOpenSession == Spec => []OneOpenSessionPerDevice
<1>1. SessionInv => OneOpenSessionPerDevice
  BY DEF SessionInv
<1>2. QED BY <1>1, SessionInvAlways, PTL

(* An open session always joins two live connections of its own two devices, *)
(* so handleConnClosed leaves no half-dead session behind.                   *)
THEOREM OpenSessionsJoinLiveEnds == Spec => []OpenSessionEndsAreLive
<1>1. SessionInv => OpenSessionEndsAreLive
  BY DEF SessionInv
<1>2. QED BY <1>1, SessionInvAlways, PTL

(* A request that can still be answered names a live phone connection.       *)
THEOREM RequestsNameLivePhones == Spec => []RequestsAreLive
<1>1. SessionInv => RequestsAreLive
  BY DEF SessionInv
<1>2. QED BY <1>1, SessionInvAlways, PTL
=============================================================================
