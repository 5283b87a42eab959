---------------------- MODULE SignalingPairingProofs ----------------------
(***************************************************************************)
(* Theorems about the pairings and the device keys of SignalingServer, over *)
(* the connection facts of SignalingServerProofs; and, at the end, about    *)
(* what it sends: the action properties, over the invariants of the         *)
(* sessions and of the pairings.                                            *)
(***************************************************************************)
EXTENDS SignalingServerProofs

(* A step keeps every greeted connection, and as what it was greeted.        *)
KeepsGreeted == \A c \in Conns : Greeted(c) => Greeted(c)' /\ reg'[c] = reg[c]

(* What a step does to the pairings: it cancels those of a connection that   *)
(* leaves, forgets all, ends some of the open ones, creates one in place of  *)
(* the desktop's open one, or joins a phone to an open one.                  *)
PairingsOfConnClose(c) ==
  /\ Leaves(c)
  /\ \A p \in PairIds : (PairingOpen(p))' => PairingOpen(p) /\ p \notin pairingsOf(c) /\ pairings'[p] = pairings[p]
NoneOpen == \A p \in PairIds : ~(PairingOpen(p))'
SomeEnd ==
  /\ KeepsGreeted
  /\ \A p \in PairIds : (PairingOpen(p))' => PairingOpen(p) /\ pairings'[p] = pairings[p]
Created(c, p) ==
  /\ requireAuthenticated(c) /\ Greeted(c) /\ Is(c, "desktop") /\ KeepsGreeted
  /\ pairings'[p] = [state |-> "CREATED", desktop |-> c, phone |-> NoConn]
  /\ \A q \in PairIds \ {p} :
       (PairingOpen(q))' => PairingOpen(q) /\ q \notin findOpenByDesktopConn(c) /\ pairings'[q] = pairings[q]
Joined(c, p) ==
  /\ requireAuthenticated(c) /\ Greeted(c) /\ Is(c, "phone") /\ KeepsGreeted /\ PairingOpen(p)
  /\ pairings' = [pairings EXCEPT ![p].state = "JOINED", ![p].phone = c]

LEMMA PairingCases ==
  ASSUME ConnInv, [Next]_vars
  PROVE  \/ \E c \in Conns : PairingsOfConnClose(c)
         \/ NoneOpen \/ SomeEnd
         \/ \E c \in Conns, p \in PairIds : Created(c, p) \/ Joined(c, p)
<1> DEFINE Goal == \/ \E c \in Conns : PairingsOfConnClose(c)
                   \/ NoneOpen \/ SomeEnd
                   \/ \E c \in Conns, p \in PairIds : Created(c, p) \/ Joined(c, p)
<1>1. \A p \in PairIds : pairings[p] \in Pairing
  BY DEF ConnInv, TypeOK
<1>2. ASSUME NEW c \in Conns, NEW rq, NEW sent, CloseConn(c, rq, sent)
      PROVE  Goal
  <2>1. Leaves(c)
    BY <1>2 DEF CloseConn, Leaves
  <2>2. \A p \in PairIds : (PairingOpen(p))' => PairingOpen(p) /\ p \notin pairingsOf(c) /\ pairings'[p] = pairings[p]
    BY <1>1, <1>2 DEF CloseConn, PairingOpen, Pairing
  <2>3. QED BY <2>1, <2>2 DEF PairingsOfConnClose
<1>3. ASSUME NEW c \in Conns, Refuse(c)
      PROVE  Goal
  BY <1>2, <1>3 DEF Refuse
<1>4. ASSUME UNCHANGED <<live, reg, pairings>>
      PROVE  Goal
  BY <1>4 DEF SomeEnd, KeepsGreeted, Greeted, PairingOpen
<1>5. ASSUME NEW c \in Conns, Reply(c, "error")
      PROVE  Goal
  BY <1>4, <1>5 DEF Reply, stored, connVars, pairVars
<1>6. ASSUME NEW pr \in proofs, authFailure(pr)
      PROVE  Goal
  <2>1. pr.conn \in Conns
    BY DEF ConnInv, TypeOK, Proof
  <2>2. QED BY <1>2, <1>4, <1>6, <2>1 DEF authFailure, Drop, connVars, pairVars
<1>7. ASSUME NEW c \in Conns, ConnStep(c)
      PROVE  Goal
  <2>1. CASE Open(c)
    BY <2>1 DEF Open, SomeEnd, KeepsGreeted, Greeted, PairingOpen, pairVars
  <2>2. CASE SocketCloses(c) \/ SweepStale(c) \/ RefusedFrame(c)
    BY <1>2, <1>3, <2>2 DEF SocketCloses, SweepStale, RefusedFrame
  <2>3. ASSUME NEW id \in Identities, onHello(c, id)
        PROVE  Goal
    <3>1. CASE Refuse(c)
      BY <1>3, <3>1
    <3>2. CASE ~Refuse(c)
      BY <2>3, <3>2 DEF onHello, SomeEnd, KeepsGreeted, Greeted, PairingOpen, pairVars, ConnInv, TypeOK
    <3>3. QED BY <3>1, <3>2
  <2>4. ASSUME NEW key \in Keys, NEW flaw \in {"none", "fingerprint", "signature"}, onAuthProof(c, key, flaw)
        PROVE  Goal
    BY <1>3, <1>4, <2>4 DEF onAuthProof, connVars, pairVars
  <2>5. QED BY <1>7, <2>1, <2>2, <2>3, <2>4 DEF ConnStep
<1>8. ASSUME AuthStep
      PROVE  Goal
  <2>1. \A pr \in proofs : pr.conn \in Conns
    BY DEF ConnInv, TypeOK, Proof
  <2>2. ASSUME NEW pr \in proofs, FingerprintChecked(pr)
        PROVE  Goal
    BY <1>2, <1>4, <1>6, <2>1, <2>2 DEF FingerprintChecked, Drop, connVars, pairVars
  <2>3. ASSUME NEW pr \in proofs, SignatureChecked(pr)
        PROVE  Goal
    BY <1>4, <1>6, <2>3 DEF SignatureChecked, connVars, pairVars
  <2>4. QED BY <1>4, <1>8, <2>2, <2>3 DEF AuthStep, Revoke, AdminEnroll, connVars, pairVars
<1>9. ASSUME NEW c \in Conns, NEW p \in PairIds, PairStep(c, p)
      PROVE  Goal
  <2>1. CASE Refuse(c) \/ Reply(c, "error")
    BY <1>3, <1>5, <2>1
  <2>2. CASE onPairCreate(c, p) /\ ~Refuse(c)
    <3>1. Created(c, p)
      BY <1>1, <2>2 DEF onPairCreate, Created, KeepsGreeted, Greeted, PairingOpen, Pairing, connVars
    <3>2. QED BY <3>1
  <2>3. CASE onPairJoin(c, p) /\ ~Refuse(c) /\ ~Reply(c, "error")
    <3>1. UNCHANGED <<live, reg>> /\ KeepsGreeted
      BY <2>3 DEF onPairJoin, KeepsGreeted, Greeted, connVars
    <3>2. CASE p \in lapsed
      <4>1. pairings' = [pairings EXCEPT ![p].state = "EXPIRED"]
        BY <2>3, <3>2 DEF onPairJoin
      <4>2. SomeEnd
        BY <1>1, <3>1, <4>1 DEF SomeEnd, PairingOpen, Pairing, ConnInv, TypeOK
      <4>3. QED BY <4>2
    <3>3. CASE p \notin lapsed
      <4>1. Joined(c, p)
        BY <2>3, <3>1, <3>3 DEF onPairJoin, Joined, Joinable
      <4>2. QED BY <4>1
    <3>4. QED BY <3>2, <3>3
  <2>4. ASSUME NEW accept \in BOOLEAN, decidePairing(c, p, accept), ~Refuse(c), ~Reply(c, "error")
        PROVE  Goal
    <3>1. UNCHANGED <<live, reg>> /\ KeepsGreeted
      BY <2>4 DEF decidePairing, KeepsGreeted, Greeted, connVars
    <3>2. pairings' = [pairings EXCEPT ![p].state = IF accept THEN "CONSUMED" ELSE "REJECTED"]
      BY <2>4 DEF decidePairing
    <3>3. SomeEnd
      BY <1>1, <3>1, <3>2 DEF SomeEnd, PairingOpen, Pairing, ConnInv, TypeOK
    <3>4. QED BY <3>3
  <2>5. QED BY <1>9, <2>1, <2>2, <2>3, <2>4 DEF PairStep, onPairAccept, onPairReject
<1>10. ASSUME NEW c \in Conns, SessionStep(c)
       PROVE  Goal
  BY <1>2, <1>3, <1>4, <1>5, <1>10
     DEF SessionStep, onSessionRequest, onSessionRejected, onSessionAccepted, onSessionClose, relaySignal,
         stored, connVars, pairVars
<1>11. CASE Restart
  BY <1>11 DEF Restart, NoneOpen, PairingOpen, NoPairing
<1>12. QED BY <1>4, <1>7, <1>8, <1>9, <1>10, <1>11 DEF Next, PairingLapses, vars, stored, connVars, pairVars
-----------------------------------------------------------------------------
(* The inductive invariant of the pairing table.                             *)
PairInv == ConnInv /\ OpenPairingEndsAreLive /\ OneOpenPairingPerDesktop

LEMMA PairInvStep ==
  ASSUME PairInv, [Next]_vars
  PROVE  PairInv'
<1> USE DEF PairInv
<1>1. ConnInv'
  BY ConnInvStep
<1>2. \A p \in PairIds : pairings[p] \in Pairing
  BY DEF ConnInv, TypeOK
<1>3. ASSUME NEW c \in Conns, PairingsOfConnClose(c)
      PROVE  PairInv'
  <2>1. OneOpenPairingPerDesktop'
    BY <1>3 DEF PairingsOfConnClose, OneOpenPairingPerDesktop
  <2>2. OpenPairingEndsAreLive'
    BY <1>2, <1>3 DEF PairingsOfConnClose, pairingsOf, OpenPairingEndsAreLive, Leaves, Greeted, Is, Pairing, ConnInv, TypeOK
  <2>3. QED BY <1>1, <2>1, <2>2
<1>4. CASE NoneOpen
  BY <1>1, <1>4 DEF NoneOpen, OpenPairingEndsAreLive, OneOpenPairingPerDesktop
<1>5. CASE SomeEnd
  <2>1. OneOpenPairingPerDesktop'
    BY <1>5 DEF SomeEnd, OneOpenPairingPerDesktop
  <2>2. OpenPairingEndsAreLive'
    BY <1>2, <1>5 DEF SomeEnd, KeepsGreeted, OpenPairingEndsAreLive, Is, Greeted, ConnInv, TypeOK
  <2>3. QED BY <1>1, <2>1, <2>2
<1>6. ASSUME NEW c \in Conns, NEW p \in PairIds, Created(c, p)
      PROVE  PairInv'
  <2>1. \A q \in PairIds \ {p} : (PairingOpen(q))' => pairings'[q].desktop # c
    BY <1>6 DEF Created, findOpenByDesktopConn, OpenOf, OneOpenPairingPerDesktop
  <2>2. OneOpenPairingPerDesktop'
    BY <1>6, <2>1 DEF Created, OneOpenPairingPerDesktop
  <2>3. OpenPairingEndsAreLive'
    BY <1>2, <1>6 DEF Created, KeepsGreeted, OpenPairingEndsAreLive, Is, Greeted, ConnInv, TypeOK
  <2>4. QED BY <1>1, <2>2, <2>3
<1>7. ASSUME NEW c \in Conns, NEW p \in PairIds, Joined(c, p)
      PROVE  PairInv'
  <2>1. /\ pairings'[p].state = "JOINED" /\ pairings'[p].phone = c
        /\ pairings'[p].desktop = pairings[p].desktop
        /\ \A q \in PairIds \ {p} : pairings'[q] = pairings[q]
    BY <1>2, <1>7 DEF Joined, Pairing, ConnInv, TypeOK
  <2>2. \A q \in PairIds : (PairingOpen(q))' => PairingOpen(q)
    BY <1>7, <2>1 DEF Joined, PairingOpen
  <2>3. OneOpenPairingPerDesktop'
    BY <2>1, <2>2 DEF OneOpenPairingPerDesktop
  <2>4. OpenPairingEndsAreLive'
    BY <1>2, <1>7, <2>1, <2>2 DEF Joined, KeepsGreeted, OpenPairingEndsAreLive, Is, Greeted, ConnInv, TypeOK
  <2>5. QED BY <1>1, <2>3, <2>4
<1>8. QED BY <1>3, <1>4, <1>5, <1>6, <1>7, PairingCases

LEMMA PairInvInit == Init => PairInv
<1>1. Init => OpenPairingEndsAreLive /\ OneOpenPairingPerDesktop
  BY DEF Init, OpenPairingEndsAreLive, OneOpenPairingPerDesktop, PairingOpen, NoPairing
<1>2. QED BY <1>1, ConnInvInit DEF PairInv

LEMMA PairInvAlways == Spec => []PairInv
  BY PairInvInit, PairInvStep, PTL DEF Spec

(* A desktop never shows two open pairings, so a decision of its user is     *)
(* about the phone it sees (onPairCreate supersedes the previous one).       *)
THEOREM OneOpenPairing == Spec => []OneOpenPairingPerDesktop
<1>1. PairInv => OneOpenPairingPerDesktop
  BY DEF PairInv
<1>2. QED BY <1>1, PairInvAlways, PTL

(* An open pairing always has its desktop, and a joined one its phone, still *)
(* connected (handleConnClosed).                                             *)
THEOREM OpenPairingsHaveLiveEnds == Spec => []OpenPairingEndsAreLive
<1>1. PairInv => OpenPairingEndsAreLive
  BY DEF PairInv
<1>2. QED BY <1>1, PairInvAlways, PTL
-----------------------------------------------------------------------------
(* Device keys.  A suspended proof is about the device its connection said   *)
(* hello as, and only a connection once opened holds a proved key.           *)
ProofsMatch ==
  \A pr \in proofs : pr.conn \in opened /\ (pr.conn \in live => Greeted(pr.conn) /\ reg[pr.conn].dev = pr.dev)
ProvedWasOpened == \A c \in Conns : provedKey[c] # NoKey => c \in opened
KeyInv == ConnInv /\ ProofsMatch /\ ProvedWasOpened /\ ProvedKeyIsRegistered

(* What a step does to the keys: nothing while a connection opens, greets or *)
(* idles, forgetting with a connection that leaves, forgetting all, starting *)
(* or carrying on a proof, enrolling a device, or ending a good proof.       *)
KeysKept == UNCHANGED <<provedKey, enrolled>> /\ proofs' \subseteq proofs
LeavesWithKey(c) ==
  /\ Leaves(c) /\ proofs' \subseteq proofs /\ enrolled' = enrolled
  /\ provedKey' = [provedKey EXCEPT ![c] = NoKey]
AllKeysForgotten ==
  /\ ClosesAll /\ proofs' = {} /\ provedKey' = [c \in Conns |-> NoKey]
  /\ Durable => enrolled' = enrolled
Verifies(pr) ==
  /\ \/ pr.conn \in live /\ Greeted(pr.conn) /\ pr.dev = reg[pr.conn].dev
     \/ \E q \in proofs : q.conn = pr.conn /\ q.dev = pr.dev
  /\ proofs' \subseteq proofs \cup {pr}
  /\ UNCHANGED <<connVars, provedKey, enrolled>>
Enrolls(d, key) ==
  /\ enrolled[d] = NoKey /\ enrolled' = [enrolled EXCEPT ![d] = key]
  /\ UNCHANGED <<connVars, provedKey, proofs>>
Proves(pr) ==
  /\ enrolled[pr.dev] \in {NoKey, pr.key}
  /\ enrolled' = [enrolled EXCEPT ![pr.dev] = pr.key]
  /\ provedKey' = [provedKey EXCEPT ![pr.conn] = pr.key]
  /\ proofs' \subseteq proofs
  /\ UNCHANGED connVars

LEMMA KeyCases ==
  ASSUME ConnInv, [Next]_vars
  PROVE  \/ KeysKept /\ \E c \in Conns : Opens(c) \/ \E id \in Identities : Greets(c, id)
         \/ KeysKept /\ UNCHANGED connVars
         \/ \E c \in Conns : LeavesWithKey(c)
         \/ AllKeysForgotten
         \/ \E pr \in Proof : Verifies(pr)
         \/ \E d \in Devices, key \in Keys : Enrolls(d, key)
         \/ \E pr \in proofs : Proves(pr)
<1> DEFINE Goal == \/ KeysKept /\ \E c \in Conns : Opens(c) \/ \E id \in Identities : Greets(c, id)
                   \/ KeysKept /\ UNCHANGED connVars
                   \/ \E c \in Conns : LeavesWithKey(c)
                   \/ AllKeysForgotten
                   \/ \E pr \in Proof : Verifies(pr)
                   \/ \E d \in Devices, key \in Keys : Enrolls(d, key)
                   \/ \E pr \in proofs : Proves(pr)
<1>1. \A pr \in proofs : pr \in Proof /\ pr.conn \in Conns
  BY DEF ConnInv, TypeOK, Proof
<1>2. ASSUME NEW c \in Conns, NEW rq, NEW sent, CloseConn(c, rq, sent), proofs' \subseteq proofs
      PROVE  Goal
  BY <1>2 DEF CloseConn, Leaves, LeavesWithKey
<1>3. ASSUME NEW c \in Conns, Refuse(c)
      PROVE  Goal
  BY <1>2, <1>3 DEF Refuse
<1>4. ASSUME UNCHANGED <<connVars, provedKey, enrolled>>, proofs' \subseteq proofs
      PROVE  Goal
  BY <1>4 DEF KeysKept
<1>5. ASSUME NEW c \in Conns, Reply(c, "error")
      PROVE  Goal
  BY <1>4, <1>5 DEF Reply, stored, authVars
<1>6. ASSUME NEW pr \in proofs, authFailure(pr)
      PROVE  Goal
  BY <1>1, <1>2, <1>4, <1>6 DEF authFailure, Drop
<1>7. ASSUME NEW c \in Conns, ConnStep(c)
      PROVE  Goal
  <2>1. CASE Open(c)
    BY <2>1 DEF Open, Opens, KeysKept, authVars
  <2>2. CASE SocketCloses(c) \/ SweepStale(c)
    BY <1>2, <2>2 DEF SocketCloses, SweepStale
  <2>3. CASE RefusedFrame(c)
    BY <1>3, <2>3 DEF RefusedFrame
  <2>4. ASSUME NEW id \in Identities, onHello(c, id)
        PROVE  Goal
    BY <1>3, <2>4 DEF onHello, Greets, KeysKept
  <2>5. ASSUME NEW key \in Keys, NEW flaw \in {"none", "fingerprint", "signature"}, onAuthProof(c, key, flaw)
        PROVE  Goal
    <3>1. CASE ~Refuse(c)
      <4> DEFINE pr == [conn |-> c, dev |-> reg[c].dev, key |-> key, step |-> "fingerprint", flaw |-> flaw]
      <4>1. /\ failures[c] >= 0 /\ c \in live /\ proofs' = proofs \cup {pr}
            /\ UNCHANGED <<connVars, provedKey, enrolled>>
        BY <2>5, <3>1 DEF onAuthProof
      <4>2. Greeted(c)
        BY <4>1 DEF ConnInv, GreetedWhenChallenged
      <4>3. reg[c].dev \in Devices
        BY <4>2, IdentitiesAssumption DEF Greeted, ConnInv, TypeOK
      <4>4. pr \in Proof
        BY <4>3 DEF Proof
      <4>5. Verifies(pr)
        BY <4>1, <4>2 DEF Verifies
      <4>6. QED BY <4>4, <4>5
    <3>2. QED BY <1>3, <3>1
  <2>6. QED BY <1>7, <2>1, <2>2, <2>3, <2>4, <2>5 DEF ConnStep
<1>8. ASSUME AuthStep
      PROVE  Goal
  <2>1. ASSUME NEW pr \in proofs, FingerprintChecked(pr)
        PROVE  Goal
    <3>1. CASE authFailure(pr) \/ Drop(pr)
      BY <1>4, <1>6, <3>1 DEF Drop
    <3>2. CASE proofs' = proofs \ {pr} /\ CloseConn(pr.conn, requests, Send({pr.conn}, "error", "none"))
      BY <1>1, <1>2, <3>2
    <3>3. CASE /\ proofs' = (proofs \ {pr}) \cup {[pr EXCEPT !.step = "signature"]}
               /\ UNCHANGED <<connVars, failures, provedKey, enrolled, revoked, pairVars, sessVars>>
      <4> DEFINE q == [pr EXCEPT !.step = "signature"]
      <4>1. q \in Proof /\ q.conn = pr.conn /\ q.dev = pr.dev
        BY <1>1 DEF Proof
      <4>2. Verifies(q)
        BY <3>3, <4>1 DEF Verifies
      <4>3. QED BY <4>1, <4>2
    <3>4. QED BY <2>1, <3>1, <3>2, <3>3 DEF FingerprintChecked
  <2>2. ASSUME NEW pr \in proofs, SignatureChecked(pr)
        PROVE  Goal
    BY <1>6, <2>2 DEF SignatureChecked, KeyRefused, Proves
  <2>3. ASSUME NEW d \in Devices, NEW key \in Keys, AdminEnroll(d, key)
        PROVE  Goal
    BY <2>3 DEF AdminEnroll, Enrolls
  <2>4. ASSUME NEW d \in Devices, Revoke(d)
        PROVE  Goal
    BY <1>4, <2>4 DEF Revoke
  <2>5. QED BY <1>8, <2>1, <2>2, <2>3, <2>4 DEF AuthStep
<1>9. ASSUME NEW c \in Conns, NEW p \in PairIds, PairStep(c, p)
      PROVE  Goal
  BY <1>3, <1>4, <1>5, <1>9
     DEF PairStep, onPairCreate, onPairJoin, onPairAccept, onPairReject, decidePairing, authVars
<1>10. ASSUME NEW c \in Conns, SessionStep(c)
       PROVE  Goal
  BY <1>2, <1>3, <1>4, <1>5, <1>10
     DEF SessionStep, onSessionRequest, onSessionRejected, onSessionAccepted, onSessionClose, relaySignal,
         stored, authVars
<1>11. CASE Restart
  BY <1>11 DEF Restart, AllKeysForgotten, ClosesAll
<1>12. QED BY <1>4, <1>7, <1>8, <1>9, <1>10, <1>11 DEF Next, PairingLapses, vars, stored, authVars

LEMMA KeyInvStep ==
  ASSUME KeyInv, [Next]_vars
  PROVE  KeyInv'
<1> USE DEF KeyInv, ProofsMatch, ProvedWasOpened, ProvedKeyIsRegistered, Greeted
<1>1. ConnInv'
  BY ConnInvStep
<1>2. /\ reg \in [Conns -> Identities \cup {NoIdentity}] /\ live \subseteq opened /\ opened \subseteq Conns
      /\ provedKey \in [Conns -> Keys \cup {NoKey}] /\ enrolled \in [Devices -> Keys \cup {NoKey}]
      /\ \A pr \in proofs : pr.conn \in Conns /\ pr.dev \in Devices /\ pr.key \in Keys
  BY DEF ConnInv, TypeOK, Proof
<1>3. ASSUME NEW c \in Conns, KeysKept, Opens(c)
      PROVE  KeyInv'
  BY <1>1, <1>2, <1>3 DEF KeysKept, Opens
<1>4. ASSUME NEW c \in Conns, NEW id \in Identities, KeysKept, Greets(c, id)
      PROVE  KeyInv'
  BY <1>1, <1>2, <1>4 DEF KeysKept, Greets
<1>5. CASE KeysKept /\ UNCHANGED connVars
  BY <1>1, <1>5 DEF KeysKept, connVars
<1>6. ASSUME NEW c \in Conns, LeavesWithKey(c)
      PROVE  KeyInv'
  BY <1>1, <1>2, <1>6 DEF LeavesWithKey, Leaves
<1>7. CASE AllKeysForgotten
  BY <1>1, <1>7 DEF AllKeysForgotten, ClosesAll
<1>8. ASSUME NEW pr \in Proof, Verifies(pr)
      PROVE  KeyInv'
  BY <1>1, <1>2, <1>8 DEF Verifies, connVars
<1>9. ASSUME NEW d \in Devices, NEW key \in Keys, Enrolls(d, key)
      PROVE  KeyInv'
  BY <1>1, <1>2, <1>9, NullsAssumption DEF Enrolls, connVars
<1>10. ASSUME NEW pr \in proofs, Proves(pr)
       PROVE  KeyInv'
  <2>1. pr.conn \in opened /\ ProofsMatch' /\ ProvedWasOpened'
    BY <1>2, <1>10 DEF Proves, connVars
  <2>2. ASSUME NEW c \in live, provedKey'[c] # NoKey
        PROVE  Greeted(c) /\ enrolled'[reg[c].dev] = provedKey'[c]
    <3>1. CASE c = pr.conn
      BY <1>2, <1>10, <2>2, <3>1 DEF Proves
    <3>2. CASE c # pr.conn
      BY <1>2, <1>10, <2>2, <3>2 DEF Proves
    <3>3. QED BY <3>1, <3>2
  <2>3. QED BY <1>1, <1>10, <2>1, <2>2 DEF Proves, connVars
<1>11. QED BY <1>3, <1>4, <1>5, <1>6, <1>7, <1>8, <1>9, <1>10, KeyCases

(* Identity continuity (#24): while a connection lives, the key it proved is *)
(* the one registered for its device, however many proofs of that device     *)
(* were suspended at once (onAuthProof).                                     *)
THEOREM ProvedKeysAreRegistered == Spec => []ProvedKeyIsRegistered
<1>1. Init => KeyInv
  <2>1. Init => ProofsMatch /\ ProvedWasOpened /\ ProvedKeyIsRegistered
    BY DEF Init, ProofsMatch, ProvedWasOpened, ProvedKeyIsRegistered
  <2>2. QED BY <2>1, ConnInvInit DEF KeyInv
<1>2. KeyInv => ProvedKeyIsRegistered
  BY DEF KeyInv
<1>3. QED BY <1>1, <1>2, KeyInvStep, PTL DEF Spec

(* Enrollment is insert-only (DeviceRegistry.enroll): no step replaces the   *)
(* key of a device; only a restart of a server without a durable registry    *)
(* forgets it.                                                               *)
THEOREM KeysNeverReplaced == Spec => KeysAreNeverReplaced
<1> DEFINE Kept == \A d \in Devices : enrolled[d] # NoKey =>
                     enrolled'[d] = enrolled[d] \/ (~Durable /\ live' = {})
<1>1. ASSUME ConnInv, [Next]_vars
      PROVE  [Kept]_vars
  <2>1. enrolled \in [Devices -> Keys \cup {NoKey}] /\ \A pr \in proofs : pr.dev \in Devices
    BY <1>1 DEF ConnInv, TypeOK, Proof
  <2>2. CASE AllKeysForgotten
    BY <2>2, AuthAssumption DEF AllKeysForgotten, ClosesAll
  <2>3. CASE \/ UNCHANGED enrolled
             \/ \E d \in Devices, key \in Keys : Enrolls(d, key)
             \/ \E pr \in proofs : Proves(pr)
    BY <2>1, <2>3 DEF Enrolls, Proves
  <2>4. QED BY <1>1, <2>2, <2>3, KeyCases DEF KeysKept, LeavesWithKey, Verifies
<1>2. QED BY <1>1, ConnInvAlways, PTL DEF Spec, KeysAreNeverReplaced, Kept
-----------------------------------------------------------------------------
(* Proved ends of pairings.  A connection loses its proof only by leaving,   *)
(* and then no open pairing names it; so only new ends are left to check.    *)
LEMMA ProofsLeaveWithConns ==
  ASSUME ConnInv, [Next]_vars, NEW c \in Conns, provedKey[c] # NoKey, c \in live'
  PROVE  provedKey'[c] # NoKey
<1>1. /\ provedKey \in [Conns -> Keys \cup {NoKey}]
      /\ \A pr \in proofs : pr.conn \in Conns /\ pr.key \in Keys
  BY DEF ConnInv, TypeOK, Proof
<1>2. CASE provedKey' = provedKey
  BY <1>2
<1>3. ASSUME NEW d \in Conns, LeavesWithKey(d)
      PROVE  provedKey'[c] # NoKey
  BY <1>1, <1>3 DEF LeavesWithKey, Leaves
<1>4. CASE AllKeysForgotten
  BY <1>4 DEF AllKeysForgotten, ClosesAll
<1>5. ASSUME NEW pr \in proofs, Proves(pr)
      PROVE  provedKey'[c] # NoKey
  BY <1>1, <1>5, NullsAssumption DEF Proves
<1>6. QED BY <1>2, <1>3, <1>4, <1>5, KeyCases DEF KeysKept, Verifies, Enrolls

(* An end of an open pairing was an end of it before, or was authenticated   *)
(* when it became one.                                                       *)
LEMMA NewEndsAreProved ==
  ASSUME ConnInv, [Next]_vars, NEW p \in PairIds, (PairingOpen(p))'
  PROVE  /\ \/ PairingOpen(p) /\ pairings'[p].desktop = pairings[p].desktop
            \/ requireAuthenticated(pairings'[p].desktop)
         /\ pairings'[p].state = "JOINED" =>
              \/ PairingOpen(p) /\ pairings[p].state = "JOINED" /\ pairings'[p].phone = pairings[p].phone
              \/ requireAuthenticated(pairings'[p].phone)
<1>1. \A q \in PairIds : pairings[q] \in Pairing
  BY DEF ConnInv, TypeOK
<1>2. CASE PairingOpen(p) /\ pairings'[p] = pairings[p]
  BY <1>2
<1>3. ASSUME NEW c \in Conns, NEW q \in PairIds, Created(c, q), p = q
      PROVE  pairings'[p].state # "JOINED" /\ requireAuthenticated(pairings'[p].desktop)
  BY <1>3 DEF Created
<1>4. ASSUME NEW c \in Conns, NEW q \in PairIds, Joined(c, q), p = q
      PROVE  /\ PairingOpen(p) /\ pairings'[p].desktop = pairings[p].desktop
             /\ requireAuthenticated(pairings'[p].phone)
  BY <1>1, <1>4 DEF Joined, Pairing, ConnInv, TypeOK
<1>5. ASSUME NEW c \in Conns, NEW q \in PairIds, Created(c, q) \/ Joined(c, q), p # q
      PROVE  PairingOpen(p) /\ pairings'[p] = pairings[p]
  BY <1>1, <1>5 DEF Created, Joined, PairingOpen, ConnInv, TypeOK
<1>6. QED BY <1>2, <1>3, <1>4, <1>5, PairingCases DEF PairingsOfConnClose, NoneOpen, SomeEnd

(* With DEVICE_AUTH=required whoever owns or joined an open pairing has      *)
(* proved a registered key on that very connection, however late its proof   *)
(* was verified and whoever has left meanwhile (requireAuthenticated).       *)
THEOREM OpenPairingsAlwaysProved == Spec => []OpenPairingsAreProved
<1> DEFINE ProvedInv == PairInv /\ OpenPairingsAreProved
<1>1. Init => ProvedInv
  BY PairInvInit DEF Init, OpenPairingsAreProved, PairingOpen, NoPairing
<1>2. ASSUME ProvedInv, [Next]_vars
      PROVE  ProvedInv'
  <2>1. PairInv' /\ ConnInv /\ OpenPairingEndsAreLive'
    BY <1>2, PairInvStep DEF PairInv
  <2>2. SUFFICES ASSUME AuthMode = "required", NEW p \in PairIds, (PairingOpen(p))'
                 PROVE  /\ provedKey'[pairings'[p].desktop] # NoKey
                        /\ pairings'[p].state = "JOINED" => provedKey'[pairings'[p].phone] # NoKey
    BY <2>1 DEF OpenPairingsAreProved
  <2>3. pairings'[p] \in Pairing
    BY <2>1 DEF PairInv, ConnInv, TypeOK
  <2>4. /\ pairings'[p].desktop \in live' /\ pairings'[p].desktop \in Conns
        /\ pairings'[p].state = "JOINED" => pairings'[p].phone \in live' /\ pairings'[p].phone \in Conns
    <3>1. live' \subseteq Conns
      BY <2>1 DEF PairInv, ConnInv, TypeOK
    <3>2. QED BY <2>1, <2>2, <3>1 DEF OpenPairingEndsAreLive, Greeted
  <2>5. /\ provedKey[pairings'[p].desktop] # NoKey
        /\ pairings'[p].state = "JOINED" => provedKey[pairings'[p].phone] # NoKey
    BY <1>2, <2>1, <2>2, NewEndsAreProved DEF requireAuthenticated, OpenPairingsAreProved
  <2>6. QED BY <1>2, <2>1, <2>4, <2>5, ProofsLeaveWithConns
<1>3. QED BY <1>1, <1>2, PTL DEF Spec
-----------------------------------------------------------------------------
(* What is sent                                                              *)

(* Many steps do nothing to sessions, requests and pairings but what the end *)
(* of one connection does to them.                                           *)
NoSignal(frames) == \A f \in frames : f.type # "signal"
Cut(c) ==
  /\ c \in live
  /\ \E sent \in SUBSET Frame : CloseConn(c, requests, sent) /\ NoSignal(sent)
Aside == UNCHANGED <<pairings, sessions, requests>> /\ NoSignal(out')

LEMMA NoSignalSent ==
  ASSUME NEW conns, NEW type, NEW about, type # "signal"
  PROVE  NoSignal(Send(conns, type, about))
BY DEF NoSignal, Send

LEMMA RefuseCuts ==
  ASSUME TypeOK, NEW c \in live, Refuse(c)
  PROVE  Cut(c)
<1>1. Send({c}, "error", "none") \in SUBSET Frame
  BY SendType DEF FrameTypes
<1>2. NoSignal(Send({c}, "error", "none"))
  BY NoSignalSent
<1>3. QED BY <1>1, <1>2 DEF Refuse, Cut

LEMMA ReplyAside ==
  ASSUME NEW c, Reply(c, "error")
  PROVE  Aside
BY NoSignalSent DEF Reply, Aside, stored, pairVars, sessVars

LEMMA AuthFailureCases ==
  ASSUME TypeOK, NEW pr \in proofs, authFailure(pr)
  PROVE  Cut(pr.conn) \/ Aside
<1>1. CASE pr.conn \in live /\ CloseConn(pr.conn, requests, {})
  BY <1>1 DEF Cut, NoSignal
<1>2. QED BY <1>1 DEF authFailure, Drop, Aside, NoSignal, pairVars, sessVars

(* Connections, authentication and clocks.                                   *)
LEMMA ConnStepCases ==
  ASSUME TypeOK, NEW c \in Conns, ConnStep(c)
  PROVE  Cut(c) \/ Aside
<1>1. CASE Open(c)
  BY <1>1 DEF Open, Aside, NoSignal, pairVars, sessVars
<1>2. CASE SocketCloses(c) \/ SweepStale(c)
  BY <1>2 DEF SocketCloses, SweepStale, Cut, NoSignal
<1>3. CASE RefusedFrame(c)
  BY <1>3, RefuseCuts DEF RefusedFrame
<1>4. ASSUME NEW id \in Identities, onHello(c, id), ~Refuse(c)
      PROVE  Aside
  <2>1. UNCHANGED <<pairVars, sessVars>>
        /\ out' = Send({c}, "hello.ok", "none") \cup Send({c}, "auth.challenge", "none")
    BY <1>4 DEF onHello
  <2>2. QED BY <2>1, NoSignalSent DEF Aside, NoSignal, pairVars, sessVars
<1>5. ASSUME NEW key \in Keys, NEW flaw \in {"none", "fingerprint", "signature"},
             onAuthProof(c, key, flaw), ~Refuse(c)
      PROVE  Aside
  BY <1>5 DEF onAuthProof, Aside, NoSignal, pairVars, sessVars
<1>6. Refuse(c) /\ c \in live => Cut(c)
  BY RefuseCuts
<1>7. QED BY <1>1, <1>2, <1>3, <1>4, <1>5, <1>6 DEF ConnStep, onHello, onAuthProof

LEMMA AuthStepCases ==
  ASSUME TypeOK, AuthStep
  PROVE  (\E c \in Conns : Cut(c)) \/ Aside
<1>1. ASSUME NEW pr \in proofs
      PROVE  pr.conn \in Conns
  BY DEF TypeOK, Proof
<1>2. ASSUME NEW pr \in proofs, FingerprintChecked(pr)
      PROVE  Cut(pr.conn) \/ Aside
  <2>1. CASE pr.conn \in live /\ CloseConn(pr.conn, requests, Send({pr.conn}, "error", "none"))
    <3>1. Send({pr.conn}, "error", "none") \in SUBSET Frame
      BY SendType DEF FrameTypes
    <3>2. QED BY <2>1, <3>1, NoSignalSent DEF Cut
  <2>2. CASE authFailure(pr)
    BY <2>2, AuthFailureCases
  <2>3. CASE UNCHANGED <<pairVars, sessVars>> /\ out' = {}
    BY <2>3 DEF Aside, NoSignal, pairVars, sessVars
  <2>4. QED BY <1>2, <2>1, <2>2, <2>3 DEF FingerprintChecked, Drop
<1>3. ASSUME NEW pr \in proofs, SignatureChecked(pr)
      PROVE  Cut(pr.conn) \/ Aside
  <2>1. CASE authFailure(pr)
    BY <2>1, AuthFailureCases
  <2>2. CASE UNCHANGED <<pairVars, sessVars>> /\ out' = Send({pr.conn}, "auth.ok", "none")
    BY <2>2, NoSignalSent DEF Aside, pairVars, sessVars
  <2>3. QED BY <1>3, <2>1, <2>2 DEF SignatureChecked
<1>4. ASSUME NEW d \in Devices, Revoke(d) \/ \E key \in Keys : AdminEnroll(d, key)
      PROVE  Aside
  BY <1>4 DEF Revoke, AdminEnroll, Aside, NoSignal, pairVars, sessVars
<1>5. QED BY <1>1, <1>2, <1>3, <1>4 DEF AuthStep
-----------------------------------------------------------------------------
(* What pairing and session frames do besides.                               *)
PairMove(p) ==
  /\ UNCHANGED <<sessions, requests>> /\ NoSignal(out')
  /\ \/ /\ pairings[p].state = "FREE"
        /\ \A q \in PairIds \ {p} :
             \/ pairings'[q] = pairings[q]
             \/ PairingOpen(q) /\ pairings'[q].state = "CANCELLED"
        /\ pairings'[p].state = "CREATED"
     \/ /\ PairingOpen(p) /\ pairings'[p].state \in {"EXPIRED", "JOINED"}
        /\ \A q \in PairIds \ {p} : pairings'[q] = pairings[q]
     \/ /\ pairings[p].state = "JOINED" /\ pairings'[p].state \in {"CONSUMED", "REJECTED"}
        /\ \A q \in PairIds \ {p} : pairings'[q] = pairings[q]
        /\ pairings'[p].state = "CONSUMED" => out' = Send(PartiesOf(p), "pair.accepted", p)

LEMMA PairStepCases ==
  ASSUME TypeOK, NEW c \in Conns, NEW p \in PairIds, PairStep(c, p)
  PROVE  Cut(c) \/ Aside \/ PairMove(p)
<1>1. \A q \in PairIds : pairings[q] \in Pairing
  BY DEF TypeOK
<1>2. CASE Refuse(c)
  BY <1>2, RefuseCuts DEF PairStep, onPairCreate, onPairJoin, onPairAccept, onPairReject,
     decidePairing, Greeted
<1>3. CASE Reply(c, "error")
  BY <1>3, ReplyAside
<1>4. CASE onPairCreate(c, p) /\ ~Refuse(c)
  <2>1. /\ UNCHANGED sessVars /\ out' = Send({c}, "pair.created", p) /\ pairings[p].state = "FREE"
        /\ pairings' = [q \in PairIds |->
             IF q = p THEN [state |-> "CREATED", desktop |-> c, phone |-> NoConn]
             ELSE IF q \in findOpenByDesktopConn(c) THEN [pairings[q] EXCEPT !.state = "CANCELLED"]
             ELSE pairings[q]]
    BY <1>4 DEF onPairCreate
  <2>2. findOpenByDesktopConn(c) \subseteq {q \in PairIds : PairingOpen(q)}
    BY DEF findOpenByDesktopConn, OpenOf
  <2>3. \A q \in PairIds \ {p} :
          pairings'[q] = pairings[q] \/ (PairingOpen(q) /\ pairings'[q].state = "CANCELLED")
    BY <1>1, <2>1, <2>2 DEF Pairing
  <2>4. pairings'[p].state = "CREATED"
    BY <2>1
  <2>5. QED BY <2>1, <2>3, <2>4, NoSignalSent DEF PairMove, sessVars
<1>5. CASE onPairJoin(c, p) /\ ~Refuse(c) /\ ~Reply(c, "error")
  <2>1. PairingOpen(p) /\ UNCHANGED sessVars
    BY <1>5 DEF onPairJoin, Joinable
  <2>2. CASE p \in lapsed
    <3>1. /\ pairings' = [pairings EXCEPT ![p].state = "EXPIRED"]
          /\ out' = Send({c}, "error", "none")
      BY <1>5, <2>2 DEF onPairJoin
    <3>2. pairings'[p].state = "EXPIRED" /\ \A q \in PairIds \ {p} : pairings'[q] = pairings[q]
      BY <1>1, <3>1 DEF Pairing, TypeOK
    <3>3. QED BY <2>1, <3>1, <3>2, NoSignalSent DEF PairMove, sessVars
  <2>3. CASE p \notin lapsed
    <3>1. /\ pairings' = [pairings EXCEPT ![p].state = "JOINED", ![p].phone = c]
          /\ out' = Send({pairings[p].desktop}, "pair.join", p)
      BY <1>5, <2>3 DEF onPairJoin
    <3>2. pairings'[p].state = "JOINED" /\ \A q \in PairIds \ {p} : pairings'[q] = pairings[q]
      BY <1>1, <3>1 DEF Pairing, TypeOK
    <3>3. QED BY <2>1, <3>1, <3>2, NoSignalSent DEF PairMove, sessVars
  <2>4. QED BY <2>2, <2>3
<1>6. ASSUME NEW accept \in BOOLEAN, decidePairing(c, p, accept), ~Refuse(c), ~Reply(c, "error")
      PROVE  PairMove(p)
  <2>1. /\ UNCHANGED sessVars /\ pairings[p].state = "JOINED"
        /\ pairings' = [pairings EXCEPT ![p].state = IF accept THEN "CONSUMED" ELSE "REJECTED"]
        /\ out' = Send(PartiesOf(p), IF accept THEN "pair.accepted" ELSE "pair.rejected", p)
    BY <1>6 DEF decidePairing
  <2>2. /\ pairings'[p].state = IF accept THEN "CONSUMED" ELSE "REJECTED"
        /\ \A q \in PairIds \ {p} : pairings'[q] = pairings[q]
    BY <1>1, <2>1 DEF Pairing, TypeOK
  <2>3. NoSignal(out')
    BY <2>1, NoSignalSent
  <2>4. QED BY <2>1, <2>2, <2>3 DEF PairMove, sessVars
<1>7. QED BY <1>2, <1>3, <1>4, <1>5, <1>6 DEF PairStep, onPairAccept, onPairReject

(* A request is made; a desktop is cut off for a malformed answer; requests  *)
(* are refused; one is accepted; a session is closed; a signal is relayed.   *)
Requested(c) ==
  /\ UNCHANGED <<pairings, sessions>> /\ NoSignal(out')
  /\ c \in live /\ \A k \in Devices \X Devices : requests'[k] \in {requests[k], c}
Malformed(c) ==
  /\ Greeted(c)
  /\ \E ph \in Devices :
       CloseConn(c, [requests EXCEPT ![<<reg[c].dev, ph>>] = NoConn], Send({c}, "error", "none"))
Rejected ==
  /\ UNCHANGED <<pairings, sessions>> /\ NoSignal(out')
  /\ \A k \in Devices \X Devices :
       requests'[k] = requests[k] \/ Send({requests[k]}, "session.rejected", "none") \subseteq out'
SessionAccepted(s) ==
  /\ UNCHANGED pairings /\ NoSignal(out')
  /\ sessions'[s].state = "SIGNALING" /\ \A t \in SessionIds \ {s} : sessions'[t] = sessions[t]
  /\ \A k \in Devices \X Devices :
       requests'[k] = requests[k] \/ Send({requests[k]}, "session.accepted", s) \subseteq out'
Closed(c, s) ==
  /\ UNCHANGED <<pairings, requests, live>> /\ NoSignal(out')
  /\ PartyOf(c, s) /\ \A t \in SessionIds \ {s} : sessions'[t] = sessions[t]
  /\ out' = Send({PeerOf(c, s)}, "session.close", s)
Relayed(c, s) ==
  /\ UNCHANGED <<pairings, sessions, requests>>
  /\ SessionOpen(s) /\ PartyOf(c, s) /\ out' = Send({PeerOf(c, s)}, "signal", s)

SessionMove(c) ==
  \/ Requested(c) \/ Malformed(c) \/ Rejected
  \/ \E s \in SessionIds : SessionAccepted(s) \/ Closed(c, s) \/ Relayed(c, s)

LEMMA AcceptedCases ==
  ASSUME TypeOK, NEW c \in Conns, NEW claimed \in Devices, NEW ph \in Devices, NEW s \in SessionIds,
         onSessionAccepted(c, claimed, ph, s), ~Refuse(c), ~Reply(c, "error")
  PROVE  SessionMove(c)
<1> DEFINE k == <<reg[c].dev, ph>>
           rest == [requests EXCEPT ![k] = NoConn]
<1>1. Greeted(c)
  BY DEF onSessionAccepted
<1>2. \A j \in Devices \X Devices : rest[j] = requests[j] \/ j = k
  BY DEF TypeOK
<1>3. CASE CloseConn(c, rest, Send({c}, "error", "none"))
  BY <1>1, <1>3 DEF SessionMove, Malformed
<1>4. CASE /\ requests' = rest
           /\ out' = Send({c}, "error", "none") \cup Send(ConflictTold(requests[k]), "session.rejected", "none")
           /\ UNCHANGED <<connVars, authVars, pairVars, sessions>>
  <2>1. NoSignal(out')
    BY <1>4, NoSignalSent DEF NoSignal
  <2>2. Rejected
    BY <1>2, <1>4, <2>1 DEF Rejected, ConflictTold, pairVars
  <2>3. QED BY <2>2 DEF SessionMove
<1>5. CASE /\ requests' = rest
           /\ sessions' = [sessions EXCEPT ![s] =
                [state |-> "SIGNALING", desktopDev |-> reg[c].dev, phoneDev |-> ph,
                 desktop |-> c, phone |-> requests[k]]]
           /\ out' = Send({requests[k]}, "session.accepted", s)
           /\ UNCHANGED <<connVars, authVars, pairVars>>
  <2>1. NoSignal(out')
    BY <1>5, NoSignalSent
  <2>2. sessions'[s].state = "SIGNALING" /\ \A t \in SessionIds \ {s} : sessions'[t] = sessions[t]
    BY <1>5 DEF TypeOK
  <2>3. SessionAccepted(s)
    BY <1>2, <1>5, <2>1, <2>2 DEF SessionAccepted, pairVars
  <2>4. QED BY <2>3 DEF SessionMove
<1>6. QED BY <1>3, <1>4, <1>5 DEF onSessionAccepted

LEMMA SessionStepCases ==
  ASSUME TypeOK, NEW c \in Conns, SessionStep(c)
  PROVE  Cut(c) \/ Aside \/ SessionMove(c)
<1>1. CASE Refuse(c)
  <2>1. c \in live
    BY DEF SessionStep, onSessionRequest, onSessionRejected, onSessionAccepted, onSessionClose,
           relaySignal, Greeted
  <2>2. QED BY <1>1, <2>1, RefuseCuts
<1>2. CASE Reply(c, "error")
  BY <1>2, ReplyAside
<1>3. ASSUME NEW d \in Devices, onSessionRequest(c, d), ~Refuse(c), ~Reply(c, "error")
      PROVE  Requested(c)
  <2>1. /\ Greeted(c) /\ requests' = [requests EXCEPT ![<<d, reg[c].dev>>] = c]
        /\ out' = Send({byDevice[d]}, "session.request", "none")
        /\ UNCHANGED <<pairVars, sessions>>
    BY <1>3 DEF onSessionRequest
  <2>2. QED BY <2>1, NoSignalSent DEF Requested, Greeted, TypeOK, pairVars
<1>4. ASSUME onSessionRejected(c), ~Refuse(c)
      PROVE  Rejected
  <2>1. /\ requests' = [k \in Devices \X Devices |-> IF k[1] = reg[c].dev THEN NoConn ELSE requests[k]]
        /\ out' = Send({requests[<<reg[c].dev, ph>>] : ph \in Devices}, "session.rejected", "none")
        /\ UNCHANGED <<pairVars, sessions>>
    BY <1>4 DEF onSessionRejected
  <2>2. ASSUME NEW k \in Devices \X Devices, requests'[k] # requests[k]
        PROVE  Send({requests[k]}, "session.rejected", "none") \subseteq out'
    <3>1. k = <<reg[c].dev, k[2]>> /\ k[2] \in Devices
      BY <2>1, <2>2
    <3>2. QED BY <2>1, <3>1 DEF Send
  <2>3. NoSignal(out')
    BY <2>1, NoSignalSent
  <2>4. QED BY <2>1, <2>2, <2>3 DEF Rejected, pairVars
<1>5. ASSUME NEW s \in SessionIds, onSessionClose(c, s), ~Refuse(c), ~Reply(c, "error")
      PROVE  Closed(c, s)
  <2>1. /\ PartyOf(c, s) /\ sessions' = [sessions EXCEPT ![s].state = "CLOSED"]
        /\ out' = Send({PeerOf(c, s)}, "session.close", s)
        /\ UNCHANGED <<pairVars, requests, live>>
    BY <1>5 DEF onSessionClose, connVars
  <2>2. QED BY <2>1, NoSignalSent DEF Closed, TypeOK, pairVars
<1>6. ASSUME NEW role \in Roles \cup {"none"}, NEW s \in SessionIds, relaySignal(c, role, s),
             ~Refuse(c), ~Reply(c, "error")
      PROVE  Relayed(c, s)
  <2>1. /\ Relays(s) /\ PartyOf(c, s) /\ out' = Send({PeerOf(c, s)}, "signal", s)
        /\ UNCHANGED stored
    BY <1>6 DEF relaySignal
  <2>2. SessionOpen(s)
    BY <2>1 DEF Relays, Unknown, SessionOpen, TypeOK, Session, SessionStates
  <2>3. QED BY <2>1, <2>2 DEF Relayed, stored, pairVars, sessVars
<1>7. QED BY <1>1, <1>2, <1>3, <1>4, <1>5, <1>6, AcceptedCases DEF SessionStep, SessionMove

LEMMA StepCases ==
  ASSUME TypeOK, Next
  PROVE  \/ Aside \/ Restart
         \/ \E c \in Conns : Cut(c) \/ SessionMove(c)
         \/ \E p \in PairIds : PairMove(p)
<1>1. ASSUME NEW p \in PairIds, PairingLapses(p)
      PROVE  Aside
  BY <1>1 DEF PairingLapses, Aside, NoSignal, sessVars
<1>2. QED BY <1>1, ConnStepCases, AuthStepCases, PairStepCases, SessionStepCases DEF Next
-----------------------------------------------------------------------------
(* signal.* travels only inside an open session and to the other of its two  *)
(* parties, whatever else happens to either of them (relaySignal).           *)
THEOREM SignalsAlwaysStay == Spec => SignalsStayInTheirSession
<1> DEFINE Stay1 == \A f \in out' : f.type = "signal" => SessionOpen(f.about) /\ PartyOf(f.to, f.about)
<1>1. ASSUME TypeOK, Next
      PROVE  Stay1
  <2>1. ASSUME NEW c \in Conns, NEW s \in SessionIds, Relayed(c, s)
        PROVE  Stay1
    BY <2>1 DEF Relayed, Send, PartyOf, PeerOf
  <2>2. ASSUME NEW c \in Conns, NEW rq, NEW sent, CloseConn(c, rq, sent), NoSignal(sent)
        PROVE  Stay1
    BY <2>2 DEF CloseConn, NoSignal
  <2>3. NoSignal(out') => Stay1
    BY DEF NoSignal
  <2>4. ASSUME NEW c \in Conns, Malformed(c)
        PROVE  Stay1
    BY <2>2, <2>4, NoSignalSent DEF Malformed
  <2>5. Restart => Stay1
    BY DEF Restart
  <2>6. QED BY <1>1, <2>1, <2>2, <2>3, <2>4, <2>5, StepCases
            DEF Aside, Cut, SessionMove, Requested, Rejected, SessionAccepted, Closed, PairMove
<1>2. QED BY <1>1, TypeCorrect, PTL DEF Spec, SignalsStayInTheirSession, Stay1

(* A session that stops being open, other than by a restart, is announced in *)
(* the same step to a party that stays connected: to the other end of the    *)
(* one that has gone or has closed it (handleConnClosed, onSessionClose).    *)
THEOREM ClosesAlwaysAnnounced == Spec => CloseIsAnnounced
<1> DEFINE Ends(s) == {sessions[s].desktop, sessions[s].phone}
           Announced(s) ==
             \E gone \in Ends(s) : PeerOf(gone, s) \in live' /\ Told(PeerOf(gone, s), "session.close", s)
           Closing(s) == SessionOpen(s) /\ sessions'[s].state = "CLOSED"
           Announces == \A s \in SessionIds : Closing(s) => Announced(s)
<1>1. ASSUME SessionInv, Next
      PROVE  Announces
  <2>1. SUFFICES ASSUME NEW s \in SessionIds, Closing(s)
                 PROVE  Announced(s)
    OBVIOUS
  <2>2. /\ TypeOK /\ sessions'[s] # sessions[s]
    BY <1>1, <2>1 DEF SessionInv, ConnInv, SessionOpen
  <2>3. \A c \in Ends(s) : PeerOf(c, s) \in live \ {c}
    <3>1. /\ sessions[s].desktop \in live /\ sessions[s].phone \in live
          /\ reg[sessions[s].desktop].role = "desktop" /\ reg[sessions[s].phone].role = "phone"
      <4>1. SessionOpen(s)
        BY <2>1
      <4>2. /\ Greeted(sessions[s].desktop) /\ Greeted(sessions[s].phone)
            /\ reg[sessions[s].desktop] = [role |-> "desktop", dev |-> sessions[s].desktopDev]
            /\ reg[sessions[s].phone] = [role |-> "phone", dev |-> sessions[s].phoneDev]
        BY <1>1, <4>1 DEF SessionInv, OpenSessionEndsAreLive
      <4>3. QED BY <4>2 DEF Greeted
    <3>2. sessions[s].desktop # sessions[s].phone
      BY <3>1
    <3>3. QED BY <3>1, <3>2 DEF PeerOf
  <2>4. ASSUME NEW c \in Conns, NEW rq, NEW sent, CloseConn(c, rq, sent)
        PROVE  Announced(s)
    <3>1. s \in sessionsOf(c)
      BY <2>2, <2>4 DEF CloseConn, TypeOK
    <3>2. c \in Ends(s)
      BY <3>1 DEF sessionsOf, PartyOf
    <3>3. PeerOf(c, s) \in live' /\ Told(PeerOf(c, s), "session.close", s)
      BY <2>3, <2>4, <3>1, <3>2 DEF CloseConn, Told
    <3>4. QED BY <3>2, <3>3
  <2>5. ASSUME NEW c \in Conns, NEW t \in SessionIds, Closed(c, t)
        PROVE  Announced(s)
    <3>1. t = s /\ c \in Ends(s)
      BY <2>2, <2>5 DEF Closed, PartyOf
    <3>2. PeerOf(c, s) \in live' /\ Told(PeerOf(c, s), "session.close", s)
      BY <2>3, <2>5, <3>1 DEF Closed, Send, Told
    <3>3. QED BY <3>1, <3>2
  <2>6. ASSUME NEW t \in SessionIds, SessionAccepted(t)
        PROVE  Announced(s)
    BY <2>1, <2>2, <2>6 DEF SessionAccepted
  <2>7. Restart => Announced(s)
    BY <2>1, <2>2 DEF Restart, NoSession
  <2>8. QED BY <1>1, <2>2, <2>4, <2>5, <2>6, <2>7, StepCases
            DEF Aside, Cut, SessionMove, Requested, Malformed, Rejected, Relayed, PairMove
<1>2. QED BY <1>1, SessionInvAlways, PTL DEF Spec, CloseIsAnnounced, Announces, Closing, Announced, Ends

(* A phone whose request leaves sessionRequests has been answered or is gone; *)
(* only a desktop cut off for a malformed answer leaves it waiting           *)
(* (onSessionAccepted, onSessionRejected, handleConnClosed).                 *)
THEOREM RequestsAlwaysAnswered == Spec => RequestsAreAnswered
<1> DEFINE Reply1(k) == \/ Closes(requests[k])
                        \/ Told(requests[k], "session.rejected", "none")
                        \/ \E s \in SessionIds : Told(requests[k], "session.accepted", s)
                        \/ Closes(byDevice[k[1]])
           Gone(k) == requests[k] # NoConn /\ requests'[k] = NoConn
           Answers == \A k \in Devices \X Devices : Gone(k) => Reply1(k)
<1>1. ASSUME SessionInv, Next
      PROVE  Answers
  <2>1. SUFFICES ASSUME NEW k \in Devices \X Devices, Gone(k)
                 PROVE  Reply1(k)
    OBVIOUS
  <2>2. TypeOK /\ requests'[k] # requests[k]
    BY <1>1, <2>1 DEF SessionInv, ConnInv
  <2>3. requests[k] \in live
    <3>1. PICK d \in Devices, ph \in Devices : k = <<d, ph>>
      OBVIOUS
    <3>2. requests[<<d, ph>>] # NoConn
      BY <2>1, <3>1
    <3>3. requests[<<d, ph>>] \in live
      BY <1>1, <3>2 DEF SessionInv, RequestsAreLive
    <3>4. QED BY <3>1, <3>3
  <2>4. ASSUME NEW c \in Conns, Cut(c)
        PROVE  Reply1(k)
    <3>1. live' = live \ {c} /\ requests' = RequestsWithout(c, requests)
      BY <2>4 DEF Cut, CloseConn
    <3>2. requests[k] = c
      BY <2>2, <3>1 DEF RequestsWithout
    <3>3. QED BY <2>3, <3>1, <3>2 DEF Closes
  <2>5. ASSUME NEW c \in Conns, Malformed(c)
        PROVE  Reply1(k)
    <3>1. PICK ph \in Devices :
            CloseConn(c, [requests EXCEPT ![<<reg[c].dev, ph>>] = NoConn], Send({c}, "error", "none"))
      BY <2>5 DEF Malformed
    <3>2. live' = live \ {c} /\ Greeted(c)
      BY <2>5, <3>1 DEF Malformed, CloseConn
    <3>3. requests' = RequestsWithout(c, [requests EXCEPT ![<<reg[c].dev, ph>>] = NoConn])
      BY <3>1 DEF CloseConn
    <3>4. requests[k] = c \/ k = <<reg[c].dev, ph>>
      BY <2>2, <3>3 DEF RequestsWithout, TypeOK
    <3>5. CASE requests[k] = c
      BY <2>3, <3>2, <3>5 DEF Closes
    <3>6. CASE k = <<reg[c].dev, ph>>
      <4>1. byDevice[k[1]] = c
        BY <1>1, <3>2, <3>6 DEF SessionInv, ConnInv, RoutingIsExact
      <4>2. QED BY <3>2, <4>1 DEF Closes, Greeted
    <3>7. QED BY <3>4, <3>5, <3>6
  <2>6. ASSUME NEW c \in Conns, Requested(c)
        PROVE  Reply1(k)
    BY <2>1, <2>2, <2>6, NullsAssumption DEF Requested
  <2>7. Rejected => Reply1(k)
    BY <2>2, <2>3 DEF Rejected, Send, Told
  <2>8. ASSUME NEW s \in SessionIds, SessionAccepted(s)
        PROVE  Reply1(k)
    BY <2>2, <2>3, <2>8 DEF SessionAccepted, Send, Told
  <2>9. Restart => Reply1(k)
    BY <2>3 DEF Restart, Closes
  <2>10. QED BY <1>1, <2>2, <2>4, <2>5, <2>6, <2>7, <2>8, <2>9, StepCases
             DEF Aside, SessionMove, Closed, Relayed, PairMove
<1>2. QED BY <1>1, SessionInvAlways, PTL DEF Spec, RequestsAreAnswered, Answers, Gone, Reply1

(* A decided, superseded or expired pairing is never open again, and both    *)
(* ends of an accepted one hear of it at once (decidePairing).               *)
THEOREM PairingsDecidedOnce == Spec => PairingIsDecidedOnce
<1> DEFINE Final(p) == pairings[p].state \notin {"FREE", "CREATED", "JOINED"} =>
                         pairings'[p].state \in {pairings[p].state, "GONE"}
           AllTold(p) == pairings[p].state # "CONSUMED" /\ pairings'[p].state = "CONSUMED" =>
                           \A c \in PartiesOf(p) : Told(c, "pair.accepted", p)
           Once == \A p \in PairIds :
             /\ pairings[p].state \notin {"FREE", "CREATED", "JOINED"} =>
                  pairings'[p].state \in {pairings[p].state, "GONE"}
             /\ pairings[p].state # "CONSUMED" /\ pairings'[p].state = "CONSUMED" =>
                  \A c \in PartiesOf(p) : Told(c, "pair.accepted", p)
<1>1. ASSUME PairInv, Next
      PROVE  Once
  <2>1. SUFFICES ASSUME NEW p \in PairIds
                 PROVE  Final(p) /\ AllTold(p)
    OBVIOUS
  <2>2. TypeOK /\ pairings[p] \in Pairing
    BY <1>1 DEF PairInv, ConnInv, TypeOK
  <2>3. ASSUME NEW c \in Conns, NEW rq, NEW sent, CloseConn(c, rq, sent)
        PROVE  Final(p) /\ AllTold(p)
    <3>1. \/ pairings'[p] = pairings[p]
          \/ PairingOpen(p) /\ pairings'[p].state = "CANCELLED"
      BY <2>2, <2>3 DEF CloseConn, pairingsOf, Pairing
    <3>2. QED BY <3>1 DEF PairingOpen
  <2>4. ASSUME NEW q \in PairIds, PairMove(q)
        PROVE  Final(p) /\ AllTold(p)
    <3>1. CASE p # q
      BY <2>4, <3>1 DEF PairMove, PairingOpen
    <3>2. CASE p = q
      <4>1. Final(p)
        BY <2>4, <3>2 DEF PairMove, PairingOpen
      <4>2. ASSUME pairings[p].state # "CONSUMED", pairings'[p].state = "CONSUMED"
            PROVE  \A c \in PartiesOf(p) : Told(c, "pair.accepted", p)
        <5>1. pairings[p].state = "JOINED" /\ out' = Send(PartiesOf(p), "pair.accepted", p)
          BY <2>4, <3>2, <4>2 DEF PairMove
        <5>2. PartiesOf(p) \subseteq live
          BY <1>1, <5>1 DEF PairInv, OpenPairingEndsAreLive, PairingOpen, PartiesOf, Greeted
        <5>3. QED BY <5>1, <5>2 DEF Send, Told
      <4>3. QED BY <4>1, <4>2
    <3>3. QED BY <3>1, <3>2
  <2>5. Restart => Final(p) /\ AllTold(p)
    BY <2>2 DEF Restart, NoPairing
  <2>6. UNCHANGED pairings => Final(p) /\ AllTold(p)
    OBVIOUS
  <2>7. QED BY <1>1, <2>2, <2>3, <2>4, <2>5, <2>6, StepCases
            DEF Aside, Cut, SessionMove, Requested, Malformed, Rejected, SessionAccepted, Closed, Relayed
<1>2. QED BY <1>1, PairInvAlways, PTL DEF Spec, PairingIsDecidedOnce, Once
=============================================================================
