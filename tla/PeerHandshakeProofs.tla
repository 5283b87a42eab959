------------------------ MODULE PeerHandshakeProofs ------------------------
(***************************************************************************)
(* What is proved of PeerHandshake, for any number of sessions and any       *)
(* stored keys: its types, that it implements MutualAuth, that an active end *)
(* has verified its peer in the session there is, and that two ends that     *)
(* know each other's keys never wait for a timer.                            *)
(*                                                                           *)
(* The refinement rests on Genuine: every proof that is under way to an end, *)
(* kept by it or being verified by it was signed by its peer, in the session *)
(* and for the nonce that it names.  The last rests on HonestInv: while      *)
(* nothing disturbs a session, what an end has not heard of its peer's       *)
(* challenge and proof is on the wire as soon as the peer has sent it.       *)
(***************************************************************************)
EXTENDS PeerHandshake, TLAPS

(* What the steps do to a handshake keeps its type.                          *)
LEMMA StateTypes ==
  ASSUME NEW h \in Handshakes, NEW st \in States
  PROVE  [h EXCEPT !.st = st] \in Handshakes
  BY DEF Handshakes

LEMMA ChallengeTypes ==
  ASSUME NEW h \in Handshakes, NEW n \in Sessions
  PROVE  [h EXCEPT !.peerNonce = n, !.signing = TRUE] \in Handshakes
  BY DEF Handshakes

LEMMA ProofTypes ==
  ASSUME NEW h \in Handshakes, NEW p \in Proofs, NEW c \in SUBSET Checks
  PROVE  [h EXCEPT !.peerProofSig = p, !.checks = c] \in Handshakes
  BY DEF Handshakes

LEMMA SignedTypes ==
  ASSUME NEW h \in Handshakes, NEW c \in SUBSET Checks
  PROVE  [h EXCEPT !.signing = FALSE, !.checks = c] \in Handshakes
  BY DEF Handshakes

LEMMA CheckedTypes ==
  ASSUME NEW h \in Handshakes, NEW c \in SUBSET Checks, NEW st \in States
  PROVE  /\ [h EXCEPT !.checks = c, !.st = st] \in Handshakes
         /\ [h EXCEPT !.checks = c, !.peerProofVerified = TRUE, !.st = st] \in Handshakes
  BY DEF Handshakes

(* A handshake that is replaced by a handshake keeps the type.               *)
LEMMA UpdateTypes ==
  ASSUME hs \in [Ends -> [Sessions -> Handshakes]],
         NEW e \in Ends, NEW s \in Sessions, NEW h \in Handshakes, Updates(e, s, h)
  PROVE  /\ hs' \in [Ends -> [Sessions -> Handshakes]]
         /\ hs'[e][s] = h
         /\ \A d \in Ends, t \in Sessions : <<d, t>> # <<e, s>> => hs'[d][t] = hs[d][t]
  BY DEF Updates

(* A frame sent keeps the type of the wires.                                 *)
LEMMA SendTypes ==
  ASSUME wire \in [Ends -> Seq(Frames)], NEW e \in Ends, NEW type \in {"challenge", "proof"},
         NEW s \in Sessions, NEW n \in Sessions, Sends(e, type, s, n)
  PROVE  wire' \in [Ends -> Seq(Frames)]
  <1> DEFINE f == [type |-> type, proof |-> [session |-> s, nonce |-> n]]
  <1>1. f \in Frames
    BY DEF Frames, Proofs
  <1>2. Peer[e] \in Ends
    BY DEF Peer, Ends
  <1>3. Append(wire[Peer[e]], f) \in Seq(Frames)
    BY <1>1, <1>2
  <1> QED
    BY <1>2, <1>3 DEF Sends

LEMMA PhaseTypes ==
  ASSUME phase \in [Ends -> Phases], NEW e \in Ends, NEW p \in Phases, Shows(e, p)
  PROVE  phase' \in [Ends -> Phases]
  BY DEF Shows

LEMMA HangUpTypes ==
  ASSUME TypeOK, NEW forgets, HangsUp(forgets)
  PROVE  /\ now' \in Sessions \cup {0} /\ link' \in BOOLEAN
         /\ wire' \in [Ends -> Seq(Frames)]
         /\ current' \in [Ends -> Sessions \cup {0}]
         /\ phase' \in [Ends -> Phases]
         /\ knows' \in [Ends -> Keys] /\ missed' \in BOOLEAN
  <1>1. wire' \in [Ends -> Seq(Frames)]
    BY DEF HangsUp
  <1>2. current' \in [Ends -> Sessions \cup {0}]
    BY DEF TypeOK, HangsUp
  <1>3. phase' \in [Ends -> Phases]
    BY DEF HangsUp, PhaseWithout, Phases
  <1> QED
    BY <1>1, <1>2, <1>3 DEF TypeOK, HangsUp

LEMMA ActTypes ==
  ASSUME TypeOK, NEW s, Acts(s)
  PROVE  crossed' \in BOOLEAN
  BY DEF TypeOK, Acts

LEMMA NoHandshakeTypes == NoHandshake \in Handshakes
  <1>1. {} \in SUBSET Checks /\ "none" \in States /\ NoProof \in Proofs \cup {NoProof}
    BY DEF States
  <1> QED
    BY <1>1 DEF NoHandshake, Handshakes

LEMMA InitTypes == Init => TypeOK
  <1> SUFFICES ASSUME Init PROVE TypeOK
    OBVIOUS
  <1>1. hs \in [Ends -> [Sessions -> Handshakes]]
    BY NoHandshakeTypes DEF Init
  <1>2. wire \in [Ends -> Seq(Frames)] /\ phase \in [Ends -> Phases]
    BY DEF Init, Phases
  <1>3. knows \in [Ends -> Keys]
    BY StoredAssumption DEF Init
  <1> QED
    BY <1>1, <1>2, <1>3 DEF Init, TypeOK

(* The session there is has a number while it joins the ends.                *)
LinkHasNumber == link => now \in Sessions

LEMMA ControlOpenTypes ==
  ASSUME TypeOK, LinkHasNumber, NEW e \in Ends, ControlOpen(e)
  PROVE  TypeOK'
  <1>1. [NoHandshake EXCEPT !.st = "making"] \in Handshakes
    BY NoHandshakeTypes, StateTypes DEF States
  <1>2. now \in Sessions
    BY DEF ControlOpen, LinkHasNumber
  <1>3. hs' \in [Ends -> [Sessions -> Handshakes]]
    BY <1>1, <1>2, UpdateTypes DEF ControlOpen, TypeOK
  <1>4. phase' \in [Ends -> Phases]
    BY DEF ControlOpen, TypeOK, Shows, Phases
  <1> QED
    BY <1>3, <1>4 DEF ControlOpen, TypeOK

LEMMA startTypes ==
  ASSUME TypeOK, NEW e \in Ends, NEW s \in Sessions, start(e, s)
  PROVE  TypeOK'
  <1> hs[e][s] \in Handshakes /\ "open" \in States
    BY DEF TypeOK, States
  <1>1. [hs[e][s] EXCEPT !.st = "open"] \in Handshakes
    BY StateTypes
  <1>2. hs' \in [Ends -> [Sessions -> Handshakes]]
    BY <1>1, UpdateTypes DEF start, TypeOK
  <1>3. wire' \in [Ends -> Seq(Frames)]
    BY SendTypes DEF start, TypeOK
  <1>4. phase' \in [Ends -> Phases]
    BY DEF start, TypeOK, Shows, Phases
  <1>5. current' \in [Ends -> Sessions \cup {0}] /\ crossed' \in BOOLEAN
    BY ActTypes DEF start, TypeOK
  <1> QED
    BY <1>2, <1>3, <1>4, <1>5 DEF start, TypeOK

LEMMA NotPairedTypes ==
  ASSUME TypeOK, NEW e \in Ends, NEW s \in Sessions, NotPaired(e, s)
  PROVE  TypeOK'
  <1> hs[e][s] \in Handshakes /\ "failed" \in States
    BY DEF TypeOK, States
  <1>1. [hs[e][s] EXCEPT !.st = "failed"] \in Handshakes
    BY StateTypes
  <1>2. hs' \in [Ends -> [Sessions -> Handshakes]]
    BY <1>1, UpdateTypes DEF NotPaired, TypeOK
  <1>3. crossed' \in BOOLEAN
    BY ActTypes DEF NotPaired
  <1> QED
    BY <1>2, <1>3, HangUpTypes DEF NotPaired, TypeOK

LEMMA onChallengeTypes ==
  ASSUME TypeOK, NEW e \in Ends, NEW s \in Sessions \cup {0}, NEW p \in Proofs, onChallenge(e, s, p)
  PROVE  /\ hs' \in [Ends -> [Sessions -> Handshakes]] /\ phase' \in [Ends -> Phases]
         /\ missed' \in BOOLEAN /\ crossed' \in BOOLEAN
  <1>1. missed' \in BOOLEAN /\ phase' \in [Ends -> Phases]
    BY DEF onChallenge, TypeOK
  <1>2. CASE s # 0 /\ hs[e][s].st = "open" /\ hs[e][s].peerNonce = 0
    <2>1. s \in Sessions /\ hs[e][s] \in Handshakes /\ NonceIn(p) \in Sessions
      BY <1>2 DEF TypeOK, NonceIn, Proofs
    <2>2. [hs[e][s] EXCEPT !.peerNonce = NonceIn(p), !.signing = TRUE] \in Handshakes
      BY <2>1, ChallengeTypes
    <2>3. hs' \in [Ends -> [Sessions -> Handshakes]]
      BY <1>2, <2>1, <2>2, UpdateTypes DEF onChallenge, TypeOK
    <2> QED
      BY <1>1, <1>2, <2>3, ActTypes DEF onChallenge
  <1>3. CASE ~(s # 0 /\ hs[e][s].st = "open" /\ hs[e][s].peerNonce = 0)
    BY <1>1, <1>3 DEF onChallenge, TypeOK
  <1> QED
    BY <1>2, <1>3

LEMMA onProofTypes ==
  ASSUME TypeOK, NEW e \in Ends, NEW s \in Sessions \cup {0}, NEW p \in Proofs, onProof(e, s, p)
  PROVE  /\ hs' \in [Ends -> [Sessions -> Handshakes]] /\ phase' \in [Ends -> Phases]
         /\ missed' \in BOOLEAN /\ crossed' \in BOOLEAN
  <1>1. missed' \in BOOLEAN
    BY DEF onProof, TypeOK
  <1>2. CASE s = 0
    BY <1>1, <1>2 DEF onProof, TypeOK
  <1>3. CASE s # 0
    <2>1. s \in Sessions /\ hs[e][s] \in Handshakes
      BY <1>3 DEF TypeOK
    <2>2. CASE ProofRefused(e, s)
      <3>1. [hs[e][s] EXCEPT !.st = "failed"] \in Handshakes
        BY <2>1, StateTypes DEF States
      <3>2. PICK h \in Handshakes : Updates(e, s, h)
        BY <2>1, <2>2, <3>1 DEF ProofRefused
      <3>3. phase' \in [Ends -> Phases]
        BY <2>2 DEF ProofRefused, Shows, TypeOK, Phases
      <3> QED
        BY <1>1, <1>3, <2>1, <3>2, <3>3, UpdateTypes, ActTypes DEF onProof, TypeOK
    <2>3. CASE ProofChecked(e, s, p)
      <3> DEFINE cs == hs[e][s].checks \cup {[sig |-> p, by |-> "frame"]}
      <3>1. cs \in SUBSET Checks
        BY <2>1 DEF Handshakes, Checks
      <3>2. [hs[e][s] EXCEPT !.peerProofSig = p, !.checks = cs] \in Handshakes
        <4> HIDE DEF cs
        <4> QED
          BY <2>1, <3>1, ProofTypes
      <3>3. Updates(e, s, [hs[e][s] EXCEPT !.peerProofSig = p, !.checks = cs])
        BY <2>3 DEF ProofChecked
      <3>4. hs' \in [Ends -> [Sessions -> Handshakes]]
        <4> HIDE DEF cs
        <4> QED
          BY <2>1, <3>2, <3>3, UpdateTypes DEF TypeOK
      <3>5. phase' \in [Ends -> Phases]
        BY <2>3 DEF ProofChecked, TypeOK
      <3> QED
        BY <1>1, <1>3, <3>4, <3>5, ActTypes DEF onProof
    <2> QED
      BY <1>3, <2>2, <2>3 DEF onProof
  <1> QED
    BY <1>2, <1>3

LEMMA DeliverTypes ==
  ASSUME TypeOK, NEW e \in Ends, Deliver(e)
  PROVE  TypeOK'
  <1> DEFINE f == Head(wire[e])
  <1>1. f \in Frames /\ Tail(wire[e]) \in Seq(Frames)
    BY DEF Deliver, TypeOK
  <1>2. wire' \in [Ends -> Seq(Frames)]
    BY <1>1 DEF Deliver, TypeOK
  <1>3. f.proof \in Proofs /\ current[e] \in Sessions \cup {0}
    BY <1>1 DEF Frames, TypeOK
  <1>4. onChallenge(e, current[e], f.proof) \/ onProof(e, current[e], f.proof)
    BY DEF Deliver
  <1>5. /\ hs' \in [Ends -> [Sessions -> Handshakes]] /\ phase' \in [Ends -> Phases]
        /\ missed' \in BOOLEAN /\ crossed' \in BOOLEAN
    <2> HIDE DEF f
    <2> QED
      BY <1>3, <1>4, onChallengeTypes, onProofTypes
  <1> QED
    BY <1>2, <1>5 DEF Deliver, TypeOK

LEMMA maybeProveTypes ==
  ASSUME TypeOK, NEW e \in Ends, NEW s \in Sessions, maybeProve(e, s), hs[e][s].peerNonce # 0
  PROVE  TypeOK'
  <1> DEFINE h == hs[e][s]
             again == h.peerProofSig # NoProof /\ ~h.peerProofVerified /\ h.st = "open"
             cs == IF again
                   THEN h.checks \cup {[sig |-> h.peerProofSig, by |-> "maybeProve"]}
                   ELSE h.checks
  <1>1. h \in Handshakes /\ h.peerNonce \in Sessions
    BY DEF TypeOK, Handshakes
  <1>2. cs \in SUBSET Checks
    BY <1>1 DEF Handshakes, Checks
  <1>3. Updates(e, s, [h EXCEPT !.signing = FALSE, !.checks = cs])
    BY DEF maybeProve
  <1>4. Sends(e, "proof", s, h.peerNonce)
    BY DEF maybeProve
  <1> HIDE DEF cs
  <1>5. [h EXCEPT !.signing = FALSE, !.checks = cs] \in Handshakes
    BY <1>1, <1>2, SignedTypes
  <1>6. hs' \in [Ends -> [Sessions -> Handshakes]]
    BY <1>3, <1>5, UpdateTypes DEF TypeOK
  <1>7. wire' \in [Ends -> Seq(Frames)]
    BY <1>1, <1>4, SendTypes DEF TypeOK
  <1> QED
    BY <1>6, <1>7, ActTypes DEF maybeProve, TypeOK

LEMMA verifyPeerTypes ==
  ASSUME TypeOK, NEW e \in Ends, NEW s \in Sessions, verifyPeer(e, s)
  PROVE  TypeOK'
  <1>1. PICK c \in hs[e][s].checks : ProofFails(e, s, c) \/ ProofVerifies(e, s, c)
    BY DEF verifyPeer
  <1>2. hs[e][s] \in Handshakes
    BY DEF TypeOK
  <1>3. hs[e][s].checks \ {c} \in SUBSET Checks /\ hs[e][s].st \in States
    BY <1>2 DEF Handshakes
  <1>4. CASE ProofFails(e, s, c)
    <2> DEFINE st == IF hs[e][s].st = "open" THEN "failed" ELSE hs[e][s].st
    <2>1. st \in States
      BY <1>3 DEF States
    <2>2. Updates(e, s, [hs[e][s] EXCEPT !.checks = hs[e][s].checks \ {c}, !.st = st])
      BY <1>4 DEF ProofFails
    <2>3. phase' \in [Ends -> Phases] /\ current' \in [Ends -> Sessions \cup {0}]
      BY <1>4 DEF ProofFails, Shows, Phases, TypeOK
    <2> HIDE DEF st
    <2>4. [hs[e][s] EXCEPT !.checks = hs[e][s].checks \ {c}, !.st = st] \in Handshakes
      BY <1>2, <1>3, <2>1, CheckedTypes
    <2>5. hs' \in [Ends -> [Sessions -> Handshakes]]
      BY <2>2, <2>4, UpdateTypes DEF TypeOK
    <2> QED
      BY <2>3, <2>5, ActTypes DEF verifyPeer, TypeOK
  <1>5. CASE ProofVerifies(e, s, c)
    <2> DEFINE h == hs[e][s]
               st == IF h.st = "open" /\ myProofSent(h) THEN "verified" ELSE h.st
               g == [h EXCEPT !.checks = h.checks \ {c}, !.peerProofVerified = TRUE, !.st = st]
    <2>1. st \in States
      BY <1>3 DEF States
    <2>2. Updates(e, s, g)
      BY <1>5 DEF ProofVerifies
    <2>3. phase' \in [Ends -> Phases]
      BY <1>5 DEF ProofVerifies, Shows, PhaseVerified, Phases, TypeOK
    <2>4. current' \in [Ends -> Sessions \cup {0}]
      BY <1>5 DEF ProofVerifies, TypeOK
    <2> HIDE DEF st
    <2>5. g \in Handshakes
      BY <1>2, <1>3, <2>1, CheckedTypes
    <2>6. hs' \in [Ends -> [Sessions -> Handshakes]]
      BY <2>2, <2>5, UpdateTypes DEF TypeOK
    <2> QED
      BY <2>3, <2>4, <2>6, ActTypes DEF verifyPeer, TypeOK
  <1> QED
    BY <1>1, <1>4, <1>5

LEMMA onTimeoutTypes ==
  ASSUME TypeOK, NEW e \in Ends, NEW s \in Sessions, onTimeout(e, s)
  PROVE  TypeOK'
  <1> hs[e][s] \in Handshakes /\ "timedOut" \in States
    BY DEF TypeOK, States
  <1>1. [hs[e][s] EXCEPT !.st = "timedOut"] \in Handshakes
    BY StateTypes
  <1>2. hs' \in [Ends -> [Sessions -> Handshakes]]
    BY <1>1, UpdateTypes DEF onTimeout, TypeOK
  <1>3. CASE e = "desktop"
    BY <1>2, <1>3, ActTypes, HangUpTypes DEF onTimeout, TypeOK
  <1>4. CASE e # "desktop"
    <2>1. phase' \in [Ends -> Phases]
      BY <1>4 DEF onTimeout, Shows, Phases, TypeOK
    <2> QED
      BY <1>2, <1>4, <2>1, ActTypes DEF onTimeout, TypeOK
  <1> QED
    BY <1>3, <1>4
-----------------------------------------------------------------------------
(* Genuine proofs                                                            *)

Signed(e, p) == hs[Peer[e]][p.session].peerNonce = p.nonce

HandshakeGenuine(e, h) ==
  /\ h.st = "none" => h = NoHandshake
  /\ h.signing => h.peerNonce # 0
  /\ h.peerProofSig # NoProof => Signed(e, h.peerProofSig)
  /\ \A c \in h.checks : Signed(e, c.sig)

WireGenuine ==
  \A e \in Ends : \A i \in 1..Len(wire[e]) :
    wire[e][i].type = "proof" => Signed(e, wire[e][i].proof)

Genuine == \A e \in Ends, s \in Sessions : HandshakeGenuine(e, hs[e][s])

IInv == TypeOK /\ LinkHasNumber /\ WireGenuine /\ Genuine

(* No nonce is forgotten or replaced, so what was signed stays signed.       *)
SignedStays == \A e \in Ends, p \in Proofs : Signed(e, p) => Signed(e, p)'

LEMMA NoncesStay ==
  ASSUME TypeOK, NEW e \in Ends, NEW s \in Sessions, NEW h \in Handshakes, Updates(e, s, h),
         hs[e][s].peerNonce # 0 => h.peerNonce = hs[e][s].peerNonce
  PROVE  SignedStays
  <1> SUFFICES ASSUME NEW d \in Ends, NEW p \in Proofs, Signed(d, p)
               PROVE  hs'[Peer[d]][p.session].peerNonce = p.nonce
    BY DEF SignedStays, Signed
  <1>1. p.session \in Sessions /\ p.nonce \in Sessions /\ p.nonce # 0 /\ Peer[d] \in Ends
    BY SessionsAssumption DEF Proofs, Sessions, Peer, Ends
  <1>2. hs[Peer[d]][p.session].peerNonce = p.nonce
    BY DEF Signed
  <1>3. CASE <<Peer[d], p.session>> = <<e, s>>
    BY <1>1, <1>2, <1>3, UpdateTypes DEF TypeOK
  <1>4. CASE <<Peer[d], p.session>> # <<e, s>>
    BY <1>1, <1>2, <1>4, UpdateTypes DEF TypeOK
  <1> QED
    BY <1>3, <1>4

(* If nothing signed is lost, one handshake is replaced by a genuine one and *)
(* the frames are genuine, everything is.                                    *)
LEMMA OneReplaced ==
  ASSUME IInv, NEW e \in Ends, NEW s \in Sessions, NEW h \in Handshakes, Updates(e, s, h),
         SignedStays, HandshakeGenuine(e, h)
  PROVE  Genuine'
  <1> SUFFICES ASSUME NEW d \in Ends, NEW t \in Sessions
               PROVE  HandshakeGenuine(d, hs[d][t])'
    BY DEF Genuine
  <1>1. PICK g \in Handshakes : hs'[d][t] = g /\ HandshakeGenuine(d, g)
    <2>1. CASE <<d, t>> = <<e, s>>
      BY <2>1, UpdateTypes DEF IInv, TypeOK
    <2>2. CASE <<d, t>> # <<e, s>>
      BY <2>2, UpdateTypes DEF IInv, TypeOK, Genuine
    <2> QED
      BY <2>1, <2>2
  <1>2. g.peerProofSig \in Proofs \cup {NoProof} /\ \A c \in g.checks : c.sig \in Proofs
    BY DEF Handshakes, Checks
  <1>3. \A p \in Proofs : Signed(d, p) => hs'[Peer[d]][p.session].peerNonce = p.nonce
    BY DEF SignedStays, Signed
  <1>4. g.peerProofSig # NoProof =>
          hs'[Peer[d]][g.peerProofSig.session].peerNonce = g.peerProofSig.nonce
    BY <1>1, <1>2, <1>3 DEF HandshakeGenuine
  <1>5. \A c \in g.checks : hs'[Peer[d]][c.sig.session].peerNonce = c.sig.nonce
    BY <1>1, <1>2, <1>3 DEF HandshakeGenuine
  <1> QED
    BY <1>1, <1>4, <1>5 DEF HandshakeGenuine, Signed

LEMMA FrameTypes ==
  ASSUME IInv, NEW e \in Ends, NEW i \in 1..Len(wire[e])
  PROVE  wire[e][i] \in Frames /\ wire[e][i].proof \in Proofs
  <1>1. wire[e] \in Seq(Frames)
    BY DEF IInv, TypeOK
  <1>2. wire[e][i] \in Frames
    BY <1>1
  <1> QED
    BY <1>2 DEF Frames

LEMMA WiresStay ==
  ASSUME IInv, SignedStays, UNCHANGED wire
  PROVE  WireGenuine'
  <1> SUFFICES ASSUME NEW e \in Ends, NEW i \in 1..Len(wire[e]), wire[e][i].type = "proof"
               PROVE  hs'[Peer[e]][wire[e][i].proof.session].peerNonce = wire[e][i].proof.nonce
    BY DEF WireGenuine, Signed
  <1>1. PICK p \in Proofs : p = wire[e][i].proof
    BY FrameTypes
  <1> QED
    BY <1>1 DEF IInv, WireGenuine, SignedStays, Signed

LEMMA WireHeadTaken ==
  ASSUME IInv, SignedStays, NEW e \in Ends, wire[e] # <<>>, wire' = [wire EXCEPT ![e] = Tail(@)]
  PROVE  WireGenuine'
  <1> SUFFICES ASSUME NEW d \in Ends, NEW i \in 1..Len(wire'[d]), wire'[d][i].type = "proof"
               PROVE  hs'[Peer[d]][wire'[d][i].proof.session].peerNonce = wire'[d][i].proof.nonce
    BY DEF WireGenuine, Signed
  <1>1. PICK j \in 1..Len(wire[d]) : wire'[d][i] = wire[d][j]
    <2>1. wire[e] \in Seq(Frames) /\ wire \in [Ends -> Seq(Frames)]
      BY DEF IInv, TypeOK
    <2>2. CASE d = e
      <3>1. wire'[d] = Tail(wire[e])
        BY <2>1, <2>2
      <3>2. i + 1 \in 1..Len(wire[e]) /\ Tail(wire[e])[i] = wire[e][i + 1]
        BY <2>1, <3>1
      <3> QED
        BY <2>2, <3>1, <3>2
    <2>3. CASE d # e
      BY <2>1, <2>3
    <2> QED
      BY <2>2, <2>3
  <1>2. PICK p \in Proofs : p = wire[d][j].proof
    BY FrameTypes
  <1> QED
    BY <1>1, <1>2 DEF IInv, WireGenuine, SignedStays, Signed

LEMMA FrameSent ==
  ASSUME IInv, SignedStays, NEW e \in Ends, NEW type \in {"challenge", "proof"},
         NEW s \in Sessions, NEW n \in Sessions, Sends(e, type, s, n),
         type = "proof" => hs'[e][s].peerNonce = n
  PROVE  WireGenuine'
  <1> SUFFICES ASSUME NEW d \in Ends, NEW i \in 1..Len(wire'[d]), wire'[d][i].type = "proof"
               PROVE  hs'[Peer[d]][wire'[d][i].proof.session].peerNonce = wire'[d][i].proof.nonce
    BY DEF WireGenuine, Signed
  <1>1. wire \in [Ends -> Seq(Frames)] /\ Peer[e] \in Ends /\ Peer[Peer[e]] = e
    BY DEF IInv, TypeOK, Peer, Ends
  <1>2. CASE i \in 1..Len(wire[d]) /\ wire'[d][i] = wire[d][i]
    <2>1. PICK p \in Proofs : p = wire[d][i].proof
      BY <1>2, FrameTypes
    <2> QED
      BY <1>2, <2>1 DEF IInv, WireGenuine, SignedStays, Signed
  <1>3. CASE ~(i \in 1..Len(wire[d]) /\ wire'[d][i] = wire[d][i])
    <2> DEFINE f == [type |-> type, proof |-> [session |-> s, nonce |-> n]]
    <2>1. link /\ d = Peer[e]
      BY <1>1, <1>3 DEF Sends
    <2>2. wire'[d] = Append(wire[d], f)
      BY <1>1, <2>1 DEF Sends
    <2>3. wire'[d][i] = f
      <3> HIDE DEF f
      <3> QED
        BY <1>1, <1>3, <2>2
    <2> QED
      BY <1>1, <2>1, <2>3
  <1> QED
    BY <1>2, <1>3

(* Steps that leave the handshakes alone.                                    *)
LEMMA HandshakesStay ==
  ASSUME IInv, UNCHANGED hs
  PROVE  Genuine' /\ SignedStays
  BY DEF IInv, Genuine, HandshakeGenuine, SignedStays, Signed

LEMMA HangUpGenuine ==
  ASSUME IInv, NEW forgets, HangsUp(forgets)
  PROVE  WireGenuine' /\ LinkHasNumber'
  BY DEF HangsUp, WireGenuine, LinkHasNumber

(* Steps that keep the nonce, the signature and the checks of a handshake.   *)
LEMMA OnlyStateChanges ==
  ASSUME IInv, NEW e \in Ends, NEW s \in Sessions, NEW st \in States \ {"none"},
         Updates(e, s, [hs[e][s] EXCEPT !.st = st])
  PROVE  Genuine' /\ SignedStays
  <1> DEFINE h == [hs[e][s] EXCEPT !.st = st]
  <1>1. hs[e][s] \in Handshakes /\ HandshakeGenuine(e, hs[e][s])
    BY DEF IInv, TypeOK, Genuine
  <1>2. h \in Handshakes
    BY <1>1, StateTypes
  <1>3. /\ h.st = st /\ h.peerNonce = hs[e][s].peerNonce /\ h.signing = hs[e][s].signing
        /\ h.peerProofSig = hs[e][s].peerProofSig /\ h.checks = hs[e][s].checks
    BY <1>1 DEF Handshakes
  <1>4. HandshakeGenuine(e, h)
    BY <1>1, <1>3 DEF HandshakeGenuine
  <1>5. Updates(e, s, h)
    OBVIOUS
  <1> HIDE DEF h
  <1>6. SignedStays
    BY <1>2, <1>3, <1>5, NoncesStay DEF IInv
  <1> QED
    BY <1>2, <1>4, <1>5, <1>6, OneReplaced

LEMMA ControlOpenGenuine ==
  ASSUME IInv, NEW e \in Ends, ControlOpen(e)
  PROVE  Genuine' /\ WireGenuine'
  <1>1. now \in Sessions /\ hs[e][now] = NoHandshake
    BY DEF IInv, LinkHasNumber, ControlOpen, Genuine, HandshakeGenuine
  <1>2. Updates(e, now, [hs[e][now] EXCEPT !.st = "making"])
    BY <1>1 DEF ControlOpen
  <1>3. Genuine' /\ SignedStays
    BY <1>1, <1>2, OnlyStateChanges DEF States
  <1> QED
    BY <1>3, WiresStay DEF ControlOpen

LEMMA startGenuine ==
  ASSUME IInv, NEW e \in Ends, NEW s \in Sessions, start(e, s)
  PROVE  Genuine' /\ WireGenuine'
  <1>1. Genuine' /\ SignedStays
    BY OnlyStateChanges DEF start, States
  <1> QED
    BY <1>1, FrameSent DEF start

LEMMA onChallengeGenuine ==
  ASSUME IInv, NEW e \in Ends, NEW s \in Sessions \cup {0}, NEW p \in Proofs, onChallenge(e, s, p)
  PROVE  Genuine' /\ SignedStays
  <1>1. CASE s # 0 /\ hs[e][s].st = "open" /\ hs[e][s].peerNonce = 0
    <2> DEFINE n == NonceIn(p)
               h == [hs[e][s] EXCEPT !.peerNonce = n, !.signing = TRUE]
    <2>1. /\ s \in Sessions /\ n \in Sessions /\ n # 0
          /\ hs[e][s] \in Handshakes /\ HandshakeGenuine(e, hs[e][s])
      BY <1>1, SessionsAssumption DEF IInv, TypeOK, Genuine, NonceIn, Proofs, Sessions
    <2>2. Updates(e, s, h)
      BY <1>1 DEF onChallenge
    <2> HIDE DEF n
    <2>3. h \in Handshakes
      BY <2>1, ChallengeTypes
    <2>4. /\ h.st = hs[e][s].st /\ h.peerNonce = n
          /\ h.peerProofSig = hs[e][s].peerProofSig /\ h.checks = hs[e][s].checks
      BY <2>1 DEF Handshakes
    <2>5. HandshakeGenuine(e, h)
      BY <1>1, <2>1, <2>4 DEF HandshakeGenuine
    <2> HIDE DEF h
    <2>6. SignedStays
      BY <1>1, <2>1, <2>2, <2>3, NoncesStay DEF IInv
    <2> QED
      BY <2>1, <2>2, <2>3, <2>5, <2>6, OneReplaced
  <1>2. CASE ~(s # 0 /\ hs[e][s].st = "open" /\ hs[e][s].peerNonce = 0)
    BY <1>2, HandshakesStay DEF onChallenge
  <1> QED
    BY <1>1, <1>2

LEMMA onProofGenuine ==
  ASSUME IInv, NEW e \in Ends, NEW s \in Sessions \cup {0}, NEW p \in Proofs, onProof(e, s, p),
         Signed(e, p)
  PROVE  Genuine' /\ SignedStays
  <1>1. CASE s = 0
    BY <1>1, HandshakesStay DEF onProof
  <1>2. CASE s # 0 /\ ProofRefused(e, s)
    <2>1. s \in Sessions /\ hs[e][s] \in Handshakes
      BY <1>2 DEF IInv, TypeOK
    <2>2. CASE hs[e][s].st = "open"
      BY <1>2, <2>1, <2>2, OnlyStateChanges DEF ProofRefused, States
    <2>3. CASE hs[e][s].st # "open"
      <3>1. UNCHANGED hs
        BY <1>2, <2>1, <2>3 DEF ProofRefused, Updates, IInv, TypeOK
      <3> QED
        BY <3>1, HandshakesStay
    <2> QED
      BY <2>2, <2>3
  <1>3. CASE s # 0 /\ ProofChecked(e, s, p)
    <2> DEFINE c == [sig |-> p, by |-> "frame"]
               cs == hs[e][s].checks \cup {c}
               h == [hs[e][s] EXCEPT !.peerProofSig = p, !.checks = cs]
    <2>1. s \in Sessions /\ hs[e][s] \in Handshakes /\ HandshakeGenuine(e, hs[e][s])
      BY <1>3 DEF IInv, TypeOK, Genuine
    <2>2. Updates(e, s, h) /\ hs[e][s].st = "open"
      BY <1>3 DEF ProofChecked
    <2>3. cs \in SUBSET Checks /\ \A k \in cs : k \in hs[e][s].checks \/ k.sig = p
      BY <2>1 DEF Handshakes, Checks
    <2> HIDE DEF cs
    <2>4. h \in Handshakes
      BY <2>1, <2>3, ProofTypes
    <2>5. /\ h.st = hs[e][s].st /\ h.peerNonce = hs[e][s].peerNonce
          /\ h.signing = hs[e][s].signing /\ h.peerProofSig = p /\ h.checks = cs
      BY <2>1 DEF Handshakes
    <2>6. HandshakeGenuine(e, h)
      BY <2>1, <2>2, <2>3, <2>5 DEF HandshakeGenuine
    <2> HIDE DEF h
    <2>7. SignedStays
      BY <2>1, <2>2, <2>4, <2>5, NoncesStay DEF IInv
    <2> QED
      BY <2>1, <2>2, <2>4, <2>6, <2>7, OneReplaced
  <1> QED
    BY <1>1, <1>2, <1>3 DEF onProof

LEMMA DeliverGenuine ==
  ASSUME IInv, NEW e \in Ends, Deliver(e)
  PROVE  Genuine' /\ WireGenuine'
  <1>1. /\ wire[e] \in Seq(Frames) /\ wire[e] # <<>> /\ current[e] \in Sessions \cup {0}
        /\ wire' = [wire EXCEPT ![e] = Tail(@)]
    BY DEF Deliver, IInv, TypeOK
  <1>2. 1 \in 1..Len(wire[e]) /\ Head(wire[e]) = wire[e][1]
    BY <1>1
  <1>3. PICK f \in Frames : f = Head(wire[e]) /\ f.proof \in Proofs
    BY <1>2, FrameTypes
  <1>4. f.type = "proof" => Signed(e, f.proof)
    BY <1>2, <1>3 DEF IInv, WireGenuine
  <1>5. \/ onChallenge(e, current[e], f.proof)
        \/ f.type = "proof" /\ onProof(e, current[e], f.proof)
    BY <1>3 DEF Deliver, Frames
  <1>6. Genuine' /\ SignedStays
    BY <1>1, <1>3, <1>4, <1>5, onChallengeGenuine, onProofGenuine
  <1> QED
    BY <1>1, <1>6, WireHeadTaken

LEMMA maybeProveGenuine ==
  ASSUME IInv, NEW e \in Ends, NEW s \in Sessions, maybeProve(e, s)
  PROVE  Genuine' /\ WireGenuine'
  <1> DEFINE g == hs[e][s]
             again == g.peerProofSig # NoProof /\ ~g.peerProofVerified /\ g.st = "open"
             cs == IF again
                   THEN g.checks \cup {[sig |-> g.peerProofSig, by |-> "maybeProve"]}
                   ELSE g.checks
             h == [g EXCEPT !.signing = FALSE, !.checks = cs]
  <1>1. g \in Handshakes /\ HandshakeGenuine(e, g) /\ g.signing
    BY DEF IInv, TypeOK, Genuine, maybeProve
  <1>2. g.peerNonce \in Sessions /\ g.st # "none"
    BY <1>1 DEF HandshakeGenuine, Handshakes, NoHandshake
  <1>3. /\ cs \in SUBSET Checks
        /\ \A c \in cs : c \in g.checks \/ (g.peerProofSig # NoProof /\ c.sig = g.peerProofSig)
    BY <1>1 DEF Handshakes, Checks
  <1>4. Updates(e, s, h) /\ Sends(e, "proof", s, g.peerNonce)
    BY DEF maybeProve
  <1> HIDE DEF cs
  <1>5. h \in Handshakes
    BY <1>1, <1>3, SignedTypes
  <1>6. /\ h.st = g.st /\ h.peerNonce = g.peerNonce /\ h.signing = FALSE
        /\ h.peerProofSig = g.peerProofSig /\ h.checks = cs
    BY <1>1 DEF Handshakes
  <1>7. HandshakeGenuine(e, h)
    BY <1>1, <1>2, <1>3, <1>6 DEF HandshakeGenuine
  <1> HIDE DEF h
  <1>8. SignedStays
    BY <1>4, <1>5, <1>6, NoncesStay DEF IInv
  <1>9. hs'[e][s].peerNonce = g.peerNonce
    BY <1>4, <1>5, <1>6, UpdateTypes DEF IInv, TypeOK
  <1>10. WireGenuine'
    BY <1>2, <1>4, <1>8, <1>9, FrameSent
  <1> QED
    BY <1>4, <1>5, <1>7, <1>8, <1>10, OneReplaced

LEMMA verifyPeerGenuine ==
  ASSUME IInv, NEW e \in Ends, NEW s \in Sessions, verifyPeer(e, s)
  PROVE  Genuine' /\ WireGenuine'
  <1>1. PICK c \in hs[e][s].checks : ProofFails(e, s, c) \/ ProofVerifies(e, s, c)
    BY DEF verifyPeer
  <1>2. /\ hs[e][s] \in Handshakes /\ HandshakeGenuine(e, hs[e][s])
        /\ hs[e][s].st \in States \ {"none"}
    BY <1>1 DEF IInv, TypeOK, Genuine, HandshakeGenuine, NoHandshake, Handshakes
  <1>3. PICK h \in Handshakes :
          /\ Updates(e, s, h)
          /\ h.st # "none" /\ h.peerNonce = hs[e][s].peerNonce /\ h.signing = hs[e][s].signing
          /\ h.peerProofSig = hs[e][s].peerProofSig /\ h.checks \subseteq hs[e][s].checks
    <2> DEFINE g == hs[e][s]
               cs == g.checks \ {c}
    <2>1. cs \in SUBSET Checks /\ cs \subseteq g.checks
      BY <1>2 DEF Handshakes
    <2>2. CASE ProofFails(e, s, c)
      <3> DEFINE st == IF g.st = "open" THEN "failed" ELSE g.st
                 h == [g EXCEPT !.checks = cs, !.st = st]
      <3>1. st \in States \ {"none"}
        BY <1>2 DEF States
      <3>2. Updates(e, s, h)
        BY <2>2 DEF ProofFails
      <3> HIDE DEF st, cs
      <3>3. h \in Handshakes
        BY <1>2, <2>1, <3>1, CheckedTypes
      <3>4. /\ h.st = st /\ h.peerNonce = g.peerNonce /\ h.signing = g.signing
            /\ h.peerProofSig = g.peerProofSig /\ h.checks = cs
        BY <1>2 DEF Handshakes
      <3> HIDE DEF h
      <3> QED
        BY <2>1, <3>1, <3>2, <3>3, <3>4
    <2>3. CASE ProofVerifies(e, s, c)
      <3> DEFINE st == IF g.st = "open" /\ myProofSent(g) THEN "verified" ELSE g.st
                 h == [g EXCEPT !.checks = cs, !.peerProofVerified = TRUE, !.st = st]
      <3>1. st \in States \ {"none"}
        BY <1>2 DEF States
      <3>2. Updates(e, s, h)
        BY <2>3 DEF ProofVerifies
      <3> HIDE DEF st, cs
      <3>3. h \in Handshakes
        BY <1>2, <2>1, <3>1, CheckedTypes
      <3>4. /\ h.st = st /\ h.peerNonce = g.peerNonce /\ h.signing = g.signing
            /\ h.peerProofSig = g.peerProofSig /\ h.checks = cs
        BY <1>2 DEF Handshakes
      <3> HIDE DEF h
      <3> QED
        BY <2>1, <3>1, <3>2, <3>3, <3>4
    <2> QED
      BY <1>1, <2>2, <2>3
  <1>4. HandshakeGenuine(e, h)
    BY <1>2, <1>3 DEF HandshakeGenuine
  <1>5. SignedStays
    BY <1>3, NoncesStay DEF IInv
  <1>6. WireGenuine'
    BY <1>5, WiresStay DEF verifyPeer
  <1> QED
    BY <1>3, <1>4, <1>5, <1>6, OneReplaced

LEMMA onTimeoutGenuine ==
  ASSUME IInv, NEW e \in Ends, NEW s \in Sessions, onTimeout(e, s)
  PROVE  Genuine' /\ WireGenuine' /\ LinkHasNumber'
  <1>1. Genuine' /\ SignedStays
    BY OnlyStateChanges DEF onTimeout, States
  <1>2. CASE e = "desktop"
    BY <1>1, <1>2, HangUpGenuine DEF onTimeout
  <1>3. CASE e # "desktop"
    BY <1>1, <1>3, WiresStay DEF onTimeout, IInv, LinkHasNumber
  <1> QED
    BY <1>2, <1>3

LEMMA NotPairedGenuine ==
  ASSUME IInv, NEW e \in Ends, NEW s \in Sessions, NotPaired(e, s)
  PROVE  Genuine' /\ WireGenuine' /\ LinkHasNumber'
  <1>1. Genuine'
    BY OnlyStateChanges DEF NotPaired, States
  <1> QED
    BY <1>1, HangUpGenuine DEF NotPaired

(* Connected, Lost and Reconnected: the transport's own steps.               *)
LEMMA TransportKeeps ==
  ASSUME IInv, Connected \/ Lost \/ Reconnected
  PROVE  IInv'
  <1>1. Genuine' /\ SignedStays
    BY HandshakesStay DEF Connected, Lost, Reconnected
  <1>2. CASE Connected
    <2>1. now' \in Sessions
      BY <1>2, SessionsAssumption DEF Connected, IInv, TypeOK, Sessions
    <2>2. TypeOK'
      BY <1>2, <2>1 DEF Connected, IInv, TypeOK, Phases
    <2> QED
      BY <1>1, <1>2, <2>1, <2>2, WiresStay DEF Connected, IInv, LinkHasNumber
  <1>3. CASE Lost
    <2>1. TypeOK'
      BY <1>3, HangUpTypes DEF Lost, IInv, TypeOK
    <2> QED
      BY <1>1, <1>3, <2>1, HangUpGenuine DEF Lost, IInv
  <1>4. CASE Reconnected
    <2>1. TypeOK'
      BY <1>4 DEF Reconnected, Shows, IInv, TypeOK, Phases
    <2> QED
      BY <1>1, <1>4, <2>1, WiresStay DEF Reconnected, IInv, LinkHasNumber
  <1> QED
    BY <1>2, <1>3, <1>4

(* The steps of an end's own program.                                        *)
LEMMA StepsKeep ==
  ASSUME IInv, NEW e \in Ends, NEW s \in Sessions, Steps(e, s)
  PROVE  IInv'
  <1>1. CASE start(e, s)
    BY <1>1, startTypes, startGenuine DEF start, IInv, LinkHasNumber
  <1>2. CASE NotPaired(e, s)
    BY <1>2, NotPairedTypes, NotPairedGenuine DEF IInv
  <1>3. CASE maybeProve(e, s)
    <2>1. hs[e][s].peerNonce # 0
      BY <1>3 DEF maybeProve, IInv, Genuine, HandshakeGenuine
    <2> QED
      BY <1>3, <2>1, maybeProveTypes, maybeProveGenuine DEF maybeProve, IInv, LinkHasNumber
  <1>4. CASE verifyPeer(e, s)
    BY <1>4, verifyPeerTypes, verifyPeerGenuine DEF verifyPeer, IInv, LinkHasNumber
  <1>5. CASE onTimeout(e, s)
    BY <1>5, onTimeoutTypes, onTimeoutGenuine DEF IInv
  <1> QED
    BY <1>1, <1>2, <1>3, <1>4, <1>5 DEF Steps

LEMMA InitGenuine == Init => IInv
  <1> SUFFICES ASSUME Init PROVE IInv
    OBVIOUS
  <1>1. TypeOK
    BY InitTypes
  <1>2. WireGenuine /\ LinkHasNumber
    BY DEF Init, WireGenuine, LinkHasNumber
  <1>3. Genuine
    BY DEF Init, Genuine, HandshakeGenuine, NoHandshake
  <1> QED
    BY <1>1, <1>2, <1>3 DEF IInv

LEMMA NextKeeps == IInv /\ [Next]_vars => IInv'
  <1> SUFFICES ASSUME IInv, [Next]_vars PROVE IInv'
    OBVIOUS
  <1>1. CASE Connected \/ Lost \/ Reconnected
    BY <1>1, TransportKeeps
  <1>2. ASSUME NEW e \in Ends, ControlOpen(e) PROVE IInv'
    BY <1>2, ControlOpenTypes, ControlOpenGenuine DEF ControlOpen, IInv, LinkHasNumber
  <1>3. ASSUME NEW e \in Ends, Deliver(e) PROVE IInv'
    BY <1>3, DeliverTypes, DeliverGenuine DEF Deliver, IInv, LinkHasNumber
  <1>4. ASSUME NEW e \in Ends, NEW s \in Sessions, Steps(e, s) PROVE IInv'
    BY <1>4, StepsKeep
  <1>5. CASE UNCHANGED vars
    BY <1>5, HandshakesStay, WiresStay DEF vars, IInv, TypeOK, LinkHasNumber
  <1> QED
    BY <1>1, <1>2, <1>3, <1>4, <1>5 DEF Next

LEMMA AlwaysGenuine == Spec => []IInv
  BY InitGenuine, NextKeeps, PTL DEF Spec

(* The variables of both programs keep their types.                          *)
THEOREM HandshakeTypeCorrect == Spec => []TypeOK
  <1>1. IInv => TypeOK
    BY DEF IInv
  <1> QED
    BY <1>1, AlwaysGenuine, PTL
-----------------------------------------------------------------------------
(* What a step does to the nonces that are signed and the peers believed.    *)

Same(e, s) ==
  /\ hs'[e][s].peerNonce = hs[e][s].peerNonce
  /\ hs'[e][s].peerProofVerified = hs[e][s].peerProofVerified
OthersSame(e, s) == \A d \in Ends, t \in Sessions : <<d, t>> # <<e, s>> => Same(d, t)

AllSame == \A d \in Ends, t \in Sessions : Same(d, t)
Answers(e, s) ==
  /\ hs[e][s].peerNonce = 0 /\ hs'[e][s].peerNonce \in Sessions
  /\ hs'[e][s].peerProofVerified = hs[e][s].peerProofVerified
  /\ OthersSame(e, s)
Accepts(e, s) ==
  /\ knows[e] = "right" /\ hs[Peer[e]][s].peerNonce = s
  /\ hs'[e][s].peerNonce = hs[e][s].peerNonce
  /\ hs'[e][s].peerProofVerified = TRUE
  /\ OthersSame(e, s)
Effect ==
  AllSame \/ \E e \in Ends, s \in Sessions : Answers(e, s) \/ Accepts(e, s)

LEMMA StateEffect ==
  ASSUME IInv, NEW e \in Ends, NEW s \in Sessions, NEW st,
         Updates(e, s, [hs[e][s] EXCEPT !.st = st])
  PROVE  AllSame
  <1>1. hs \in [Ends -> [Sessions -> Handshakes]] /\ hs[e][s] \in Handshakes
    BY DEF IInv, TypeOK
  <1> SUFFICES ASSUME NEW d \in Ends, NEW t \in Sessions PROVE Same(d, t)
    BY DEF AllSame
  <1>2. CASE d = e /\ t = s
    BY <1>1, <1>2 DEF Updates, Same, Handshakes
  <1>3. CASE ~(d = e /\ t = s)
    BY <1>1, <1>3 DEF Updates, Same
  <1> QED
    BY <1>2, <1>3

LEMMA onChallengeEffect ==
  ASSUME IInv, NEW e \in Ends, NEW s \in Sessions \cup {0}, NEW p \in Proofs, onChallenge(e, s, p)
  PROVE  Effect
  <1>1. CASE s # 0 /\ hs[e][s].st = "open" /\ hs[e][s].peerNonce = 0
    <2> DEFINE n == NonceIn(p)
               h == [hs[e][s] EXCEPT !.peerNonce = n, !.signing = TRUE]
    <2>1. s \in Sessions /\ n \in Sessions /\ hs[e][s] \in Handshakes
      BY <1>1 DEF IInv, TypeOK, NonceIn, Proofs
    <2>2. Updates(e, s, h)
      BY <1>1 DEF onChallenge
    <2> HIDE DEF n
    <2>3. h \in Handshakes
      BY <2>1, ChallengeTypes
    <2>4. h.peerNonce = n /\ h.peerProofVerified = hs[e][s].peerProofVerified
      BY <2>1 DEF Handshakes
    <2> HIDE DEF h
    <2>5. Answers(e, s)
      BY <1>1, <2>1, <2>2, <2>3, <2>4, UpdateTypes DEF IInv, TypeOK, Answers, OthersSame, Same
    <2> QED
      BY <2>1, <2>5 DEF Effect
  <1>2. CASE ~(s # 0 /\ hs[e][s].st = "open" /\ hs[e][s].peerNonce = 0)
    BY <1>2 DEF onChallenge, Effect, AllSame, Same
  <1> QED
    BY <1>1, <1>2

LEMMA onProofEffect ==
  ASSUME IInv, NEW e \in Ends, NEW s \in Sessions \cup {0}, NEW p \in Proofs, onProof(e, s, p)
  PROVE  AllSame
  <1>1. CASE s = 0
    BY <1>1 DEF onProof, AllSame, Same
  <1>2. CASE s # 0 /\ ProofRefused(e, s)
    <2>1. s \in Sessions /\ hs \in [Ends -> [Sessions -> Handshakes]]
      BY <1>2 DEF IInv, TypeOK
    <2>2. CASE hs[e][s].st = "open"
      BY <1>2, <2>1, <2>2, StateEffect DEF ProofRefused
    <2>3. CASE hs[e][s].st # "open"
      <3>1. UNCHANGED hs
        BY <1>2, <2>1, <2>3 DEF ProofRefused, Updates
      <3> QED
        BY <3>1 DEF AllSame, Same
    <2> QED
      BY <2>2, <2>3
  <1>3. CASE s # 0 /\ ProofChecked(e, s, p)
    <2> DEFINE cs == hs[e][s].checks \cup {[sig |-> p, by |-> "frame"]}
               h == [hs[e][s] EXCEPT !.peerProofSig = p, !.checks = cs]
    <2>1. s \in Sessions /\ hs[e][s] \in Handshakes /\ hs \in [Ends -> [Sessions -> Handshakes]]
      BY <1>3 DEF IInv, TypeOK
    <2>2. Updates(e, s, h)
      BY <1>3 DEF ProofChecked
    <2> HIDE DEF cs
    <2>3. /\ h.peerNonce = hs[e][s].peerNonce
          /\ h.peerProofVerified = hs[e][s].peerProofVerified
      BY <2>1 DEF Handshakes
    <2> HIDE DEF h
    <2> QED
      BY <2>1, <2>2, <2>3 DEF Updates, AllSame, Same
  <1> QED
    BY <1>1, <1>2, <1>3 DEF onProof

LEMMA DeliverEffect ==
  ASSUME IInv, NEW e \in Ends, Deliver(e)
  PROVE  Effect
  <1>1. wire[e] \in Seq(Frames) /\ wire[e] # <<>> /\ current[e] \in Sessions \cup {0}
    BY DEF Deliver, IInv, TypeOK
  <1>2. Head(wire[e]).proof \in Proofs
    BY <1>1, FrameTypes
  <1>3. onChallenge(e, current[e], Head(wire[e]).proof) \/ onProof(e, current[e], Head(wire[e]).proof)
    BY DEF Deliver
  <1> QED
    BY <1>1, <1>2, <1>3, onChallengeEffect, onProofEffect DEF Effect

LEMMA maybeProveEffect ==
  ASSUME IInv, NEW e \in Ends, NEW s \in Sessions, maybeProve(e, s)
  PROVE  AllSame
  <1>1. PICK cs : Updates(e, s, [hs[e][s] EXCEPT !.signing = FALSE, !.checks = cs])
    BY DEF maybeProve
  <1> DEFINE h == [hs[e][s] EXCEPT !.signing = FALSE, !.checks = cs]
  <1>2. hs[e][s] \in Handshakes /\ hs \in [Ends -> [Sessions -> Handshakes]]
    BY DEF IInv, TypeOK
  <1>3. h.peerNonce = hs[e][s].peerNonce /\ h.peerProofVerified = hs[e][s].peerProofVerified
    BY <1>2 DEF Handshakes
  <1>4. Updates(e, s, h)
    BY <1>1
  <1> HIDE DEF h
  <1> QED
    BY <1>2, <1>3, <1>4 DEF Updates, AllSame, Same

LEMMA verifyPeerEffect ==
  ASSUME IInv, NEW e \in Ends, NEW s \in Sessions, verifyPeer(e, s)
  PROVE  Effect
  <1>1. PICK c \in hs[e][s].checks : ProofFails(e, s, c) \/ ProofVerifies(e, s, c)
    BY DEF verifyPeer
  <1>2. hs[e][s] \in Handshakes /\ hs \in [Ends -> [Sessions -> Handshakes]]
    BY DEF IInv, TypeOK
  <1>3. CASE ProofFails(e, s, c)
    <2>1. PICK cs, st : Updates(e, s, [hs[e][s] EXCEPT !.checks = cs, !.st = st])
      BY <1>3 DEF ProofFails
    <2> DEFINE h == [hs[e][s] EXCEPT !.checks = cs, !.st = st]
    <2>2. h.peerNonce = hs[e][s].peerNonce /\ h.peerProofVerified = hs[e][s].peerProofVerified
      BY <1>2 DEF Handshakes
    <2>3. Updates(e, s, h)
      BY <2>1
    <2> HIDE DEF h
    <2> QED
      BY <1>2, <2>2, <2>3 DEF Updates, Effect, AllSame, Same
  <1>4. CASE ProofVerifies(e, s, c)
    <2>1. PICK cs, st :
            Updates(e, s, [hs[e][s] EXCEPT !.checks = cs, !.peerProofVerified = TRUE, !.st = st])
      BY <1>4 DEF ProofVerifies
    <2> DEFINE h == [hs[e][s] EXCEPT !.checks = cs, !.peerProofVerified = TRUE, !.st = st]
    <2>2. h.peerNonce = hs[e][s].peerNonce /\ h.peerProofVerified = TRUE
      BY <1>2 DEF Handshakes
    <2>3. Updates(e, s, h)
      BY <2>1
    <2> HIDE DEF h
    <2>4. /\ hs'[e][s].peerNonce = hs[e][s].peerNonce /\ hs'[e][s].peerProofVerified = TRUE
          /\ OthersSame(e, s)
      BY <1>2, <2>2, <2>3 DEF Updates, OthersSame, Same
    <2>5. knows[e] = "right" /\ hs[Peer[e]][s].peerNonce = s
      BY <1>4 DEF ProofVerifies, Verifies, IInv, Genuine, HandshakeGenuine, Signed
    <2> QED
      BY <2>4, <2>5 DEF Effect, Accepts
  <1> QED
    BY <1>1, <1>3, <1>4

LEMMA Effects == IInv /\ [Next]_vars => Effect /\ knows' = knows
  <1> SUFFICES ASSUME IInv, [Next]_vars PROVE Effect /\ knows' = knows
    OBVIOUS
  <1>1. CASE Connected \/ Lost \/ Reconnected \/ UNCHANGED vars
    BY <1>1 DEF Connected, Lost, Reconnected, HangsUp, vars, Effect, AllSame, Same
  <1>2. ASSUME NEW e \in Ends, ControlOpen(e) PROVE Effect /\ knows' = knows
    <2>1. now \in Sessions /\ hs[e][now] = NoHandshake
      BY <1>2 DEF IInv, LinkHasNumber, ControlOpen, Genuine, HandshakeGenuine
    <2>2. Updates(e, now, [hs[e][now] EXCEPT !.st = "making"])
      BY <1>2, <2>1 DEF ControlOpen
    <2> QED
      BY <1>2, <2>1, <2>2, StateEffect DEF ControlOpen, Effect
  <1>3. ASSUME NEW e \in Ends, Deliver(e) PROVE Effect /\ knows' = knows
    BY <1>3, DeliverEffect DEF Deliver
  <1>4. ASSUME NEW e \in Ends, NEW s \in Sessions, Steps(e, s) PROVE Effect /\ knows' = knows
    <2>1. CASE start(e, s)
      BY <2>1, StateEffect DEF start, Effect
    <2>2. CASE NotPaired(e, s)
      BY <2>2, StateEffect DEF NotPaired, HangsUp, Effect
    <2>3. CASE maybeProve(e, s)
      BY <2>3, maybeProveEffect DEF maybeProve, Effect
    <2>4. CASE verifyPeer(e, s)
      BY <2>4, verifyPeerEffect DEF verifyPeer
    <2>5. CASE onTimeout(e, s)
      BY <2>5, StateEffect DEF onTimeout, HangsUp, Effect
    <2> QED
      BY <1>4, <2>1, <2>2, <2>3, <2>4, <2>5 DEF Steps
  <1> QED
    BY <1>1, <1>2, <1>3, <1>4 DEF Next
-----------------------------------------------------------------------------
(* The handshake implements MutualAuth.                                      *)

(* Functions of an end and a session that differ in one place.               *)
IsGrid(f) == f = [d \in Ends |-> [t \in Sessions |-> f[d][t]]]

LEMMA GridUpdate ==
  ASSUME NEW f, NEW g, IsGrid(f), IsGrid(g), NEW e \in Ends, NEW s \in Sessions, NEW v,
         \A d \in Ends, t \in Sessions : g[d][t] = IF d = e /\ t = s THEN v ELSE f[d][t]
  PROVE  g = [f EXCEPT ![e][s] = v]
  <1> DEFINE row == [t \in Sessions |-> IF t = s THEN v ELSE f[e][t]]
             h == [d \in Ends |-> IF d = e THEN row ELSE [t \in Sessions |-> f[d][t]]]
  <1>1. g = h
    <2>1. \A d \in Ends : [t \in Sessions |-> g[d][t]] = h[d]
      <3> SUFFICES ASSUME NEW d \in Ends PROVE [t \in Sessions |-> g[d][t]] = h[d]
        OBVIOUS
      <3>1. CASE d = e
        BY <3>1
      <3>2. CASE d # e
        BY <3>2
      <3> QED
        BY <3>1, <3>2
    <2> QED
      BY <2>1 DEF IsGrid
  <1>2. f[e] = [t \in Sessions |-> f[e][t]]
    BY DEF IsGrid
  <1>3. [f[e] EXCEPT ![s] = v] = row
    BY <1>2
  <1>4. f = [d \in Ends |-> f[d]] /\ \A d \in Ends : f[d] = [t \in Sessions |-> f[d][t]]
    BY DEF IsGrid
  <1>5. [f EXCEPT ![e] = row] = h
    <2> HIDE DEF row
    <2> QED
      BY <1>4
  <1> HIDE DEF h, row
  <1>6. [f EXCEPT ![e][s] = v] = [f EXCEPT ![e] = [f[e] EXCEPT ![s] = v]]
    OBVIOUS
  <1> QED
    BY <1>1, <1>3, <1>5, <1>6

LEMMA AbstractStep == IInv /\ [Next]_vars => [Abstract!ANext]_Abstract!avars
  <1> SUFFICES ASSUME IInv, [Next]_vars PROVE [Abstract!ANext]_Abstract!avars
    OBVIOUS
  <1> DEFINE trusts == [e \in Ends |-> knows[e] = "right"]
             answered == [e \in Ends |-> [s \in Sessions |-> hs[e][s].peerNonce]]
             accepted == [e \in Ends |-> [s \in Sessions |-> hs[e][s].peerProofVerified]]
  <1>f. /\ IsGrid(answered) /\ IsGrid(answered') /\ IsGrid(accepted) /\ IsGrid(accepted')
    BY DEF IsGrid
  <1>1. trusts' = trusts
    BY Effects
  <1>2. CASE AllSame
    <2>1. answered' = answered /\ accepted' = accepted
      BY <1>2 DEF AllSame, Same
    <2> QED
      BY <1>1, <2>1 DEF Abstract!avars
  <1>3. ASSUME NEW e \in Ends, NEW s \in Sessions, Answers(e, s) PROVE Abstract!ANext
    <2>1. accepted' = accepted
      <3> SUFFICES ASSUME NEW d \in Ends, NEW t \in Sessions
                   PROVE  hs'[d][t].peerProofVerified = hs[d][t].peerProofVerified
        OBVIOUS
      <3> QED
        BY <1>3 DEF Answers, OthersSame, Same
    <2>2. PICK n \in Sessions : hs'[e][s].peerNonce = n
      BY <1>3 DEF Answers
    <2>3. answered' = [answered EXCEPT ![e][s] = n]
      <3>1. \A d \in Ends, t \in Sessions :
              hs'[d][t].peerNonce = IF d = e /\ t = s THEN n ELSE hs[d][t].peerNonce
        BY <1>3, <2>2 DEF Answers, OthersSame, Same
      <3>2. \A d \in Ends, t \in Sessions :
              answered'[d][t] = IF d = e /\ t = s THEN n ELSE answered[d][t]
        BY <3>1
      <3>3. PICK f, g : f = answered /\ g = answered'
        OBVIOUS
      <3>4. IsGrid(f) /\ IsGrid(g)
        BY <1>f, <3>3
      <3> HIDE DEF answered
      <3>5. g = [f EXCEPT ![e][s] = n]
        BY <3>2, <3>3, <3>4, GridUpdate
      <3> QED
        BY <3>3, <3>5
    <2>4. answered[e][s] = 0
      BY <1>3 DEF Answers
    <2>5. Abstract!Answer(e, s)
      BY <1>1, <2>1, <2>2, <2>3, <2>4 DEF Abstract!Answer
    <2> QED
      BY <2>5 DEF Abstract!ANext
  <1>4. ASSUME NEW e \in Ends, NEW s \in Sessions, Accepts(e, s) PROVE Abstract!ANext
    <2>1. answered' = answered
      <3> SUFFICES ASSUME NEW d \in Ends, NEW t \in Sessions
                   PROVE  hs'[d][t].peerNonce = hs[d][t].peerNonce
        OBVIOUS
      <3> QED
        BY <1>4 DEF Accepts, OthersSame, Same
    <2>2. accepted' = [accepted EXCEPT ![e][s] = TRUE]
      <3>1. \A d \in Ends, t \in Sessions :
              hs'[d][t].peerProofVerified
                = IF d = e /\ t = s THEN TRUE ELSE hs[d][t].peerProofVerified
        BY <1>4 DEF Accepts, OthersSame, Same
      <3>2. \A d \in Ends, t \in Sessions :
              accepted'[d][t] = IF d = e /\ t = s THEN TRUE ELSE accepted[d][t]
        BY <3>1
      <3>3. PICK f, g : f = accepted /\ g = accepted'
        OBVIOUS
      <3>4. IsGrid(f) /\ IsGrid(g)
        BY <1>f, <3>3
      <3> HIDE DEF accepted
      <3>5. PICK v : v = TRUE
        OBVIOUS
      <3>6. \A d \in Ends, t \in Sessions : g[d][t] = IF d = e /\ t = s THEN v ELSE f[d][t]
        BY <3>2, <3>3, <3>5, Zenon
      <3>7. g = [f EXCEPT ![e][s] = v]
        <4> HIDE <3>5
        <4> QED
          BY <3>4, <3>6, GridUpdate
      <3> QED
        BY <3>3, <3>5, <3>7
    <2>3. Peer[e] \in Ends
      BY DEF Peer, Ends
    <2>4. trusts[e] /\ answered[Peer[e]][s] = s
      BY <1>4, <2>3 DEF Accepts
    <2>5. Abstract!Accept(e, s)
      BY <1>1, <2>1, <2>2, <2>4 DEF Abstract!Accept
    <2> QED
      BY <2>5 DEF Abstract!ANext
  <1> QED
    BY <1>2, <1>3, <1>4, Effects DEF Effect

(* Whatever sessions come and go, whatever is dropped and whichever          *)
(* handshakes outlive their session, an end believes its peer only if the    *)
(* peer has signed the nonce of this end in this session, by the stored key. *)
THEOREM HandshakeIsMutual == Spec => AuthIsMutual
  <1>1. Init => Abstract!AInit
    BY DEF Init, Abstract!AInit, NoHandshake
  <1> QED
    BY <1>1, AbstractStep, AlwaysGenuine, PTL DEF Spec, AuthIsMutual, Abstract!ASpec

-----------------------------------------------------------------------------
(* Fresh control                                                             *)

(* A step within a session makes no end active but by its proof.             *)
LEMMA WithinSession ==
  ASSUME IInv, ControlIsFresh, Effect, UNCHANGED <<now, link>>, crossed => crossed',
         \A d \in Ends : phase'[d] = "active" =>
           phase[d] = "active" \/ crossed' \/ (link /\ hs'[d][now].peerProofVerified)
  PROVE  ControlIsFresh'
  <1> SUFFICES ASSUME NEW d \in Ends, phase'[d] = "active", ~crossed'
               PROVE  link /\ hs'[d][now].peerProofVerified
    BY DEF ControlIsFresh
  <1>1. CASE ~(link /\ hs'[d][now].peerProofVerified)
    <2>1. link /\ hs[d][now].peerProofVerified /\ now \in Sessions
      BY <1>1 DEF ControlIsFresh, IInv, LinkHasNumber
    <2>2. hs'[d][now].peerProofVerified
      BY <2>1 DEF Effect, AllSame, Same, Answers, Accepts, OthersSame
    <2> QED
      BY <2>1, <2>2
  <1> QED
    BY <1>1

LEMMA HangUpFresh ==
  ASSUME NEW forgets, HangsUp(forgets)
  PROVE  ControlIsFresh'
  BY DEF HangsUp, PhaseWithout, ControlIsFresh

LEMMA FreshNext == IInv /\ ControlIsFresh /\ [Next]_vars => ControlIsFresh'
  <1> SUFFICES ASSUME IInv, ControlIsFresh, [Next]_vars PROVE ControlIsFresh'
    OBVIOUS
  <1>e. Effect
    BY Effects
  <1>t. phase \in [Ends -> Phases]
    BY DEF IInv, TypeOK
  <1>1. CASE Connected
    BY <1>1 DEF Connected, ControlIsFresh
  <1>2. CASE Lost
    BY <1>2, HangUpFresh DEF Lost
  <1>3. CASE Reconnected
    BY <1>3, <1>e, <1>t, WithinSession DEF Reconnected, Shows
  <1>4. ASSUME NEW e \in Ends, ControlOpen(e) PROVE ControlIsFresh'
    BY <1>4, <1>e, <1>t, WithinSession DEF ControlOpen, Shows
  <1>5. ASSUME NEW e \in Ends, Deliver(e) PROVE ControlIsFresh'
    <2>1. CASE onChallenge(e, current[e], Head(wire[e]).proof)
      BY <1>5, <1>e, <2>1, WithinSession DEF Deliver, onChallenge, Acts
    <2>2. CASE onProof(e, current[e], Head(wire[e]).proof)
      BY <1>5, <1>e, <1>t, <2>2, WithinSession
         DEF Deliver, onProof, ProofRefused, ProofChecked, Shows, Acts
    <2> QED
      BY <1>5, <2>1, <2>2 DEF Deliver
  <1>6. ASSUME NEW e \in Ends, NEW s \in Sessions, Steps(e, s) PROVE ControlIsFresh'
    <2>1. CASE start(e, s)
      BY <1>e, <1>t, <2>1, WithinSession DEF start, Shows, Acts
    <2>2. CASE NotPaired(e, s)
      BY <2>2, HangUpFresh DEF NotPaired
    <2>3. CASE maybeProve(e, s)
      BY <1>e, <2>3, WithinSession DEF maybeProve, Acts
    <2>4. CASE verifyPeer(e, s)
      <3>1. PICK c \in hs[e][s].checks : ProofFails(e, s, c) \/ ProofVerifies(e, s, c)
        BY <2>4 DEF verifyPeer
      <3>2. CASE ProofFails(e, s, c)
        BY <1>e, <1>t, <2>4, <3>2, WithinSession DEF verifyPeer, ProofFails, Shows, Acts
      <3>3. CASE ProofVerifies(e, s, c)
        <4>1. hs'[e][s].peerProofVerified
          <5>1. hs \in [Ends -> [Sessions -> Handshakes]] /\ hs[e][s] \in Handshakes
            BY DEF IInv, TypeOK
          <5>2. PICK cs, st :
                  hs' = [hs EXCEPT ![e][s] = [hs[e][s] EXCEPT
                           !.checks = cs, !.peerProofVerified = TRUE, !.st = st]]
            BY <3>3 DEF ProofVerifies, Updates
          <5> QED
            BY <5>1, <5>2 DEF Handshakes
        <4>2. crossed' \/ (link /\ s = now)
          BY <2>4 DEF verifyPeer, Acts
        <4>3. \A d \in Ends : d # e => phase'[d] = phase[d]
          BY <1>t, <3>3 DEF ProofVerifies, Shows
        <4> QED
          BY <1>e, <2>4, <4>1, <4>2, <4>3, WithinSession DEF verifyPeer, Acts
      <3> QED
        BY <3>1, <3>2, <3>3
    <2>5. CASE onTimeout(e, s)
      <3>1. CASE e = "desktop"
        BY <2>5, <3>1, HangUpFresh DEF onTimeout
      <3>2. CASE e # "desktop"
        BY <1>e, <1>t, <2>5, <3>2, WithinSession DEF onTimeout, Shows, Acts
      <3> QED
        BY <3>1, <3>2
    <2> QED
      BY <1>6, <2>1, <2>2, <2>3, <2>4, <2>5 DEF Steps
  <1>7. CASE UNCHANGED vars
    BY <1>7 DEF vars, ControlIsFresh
  <1> QED
    BY <1>1, <1>2, <1>3, <1>4, <1>5, <1>6, <1>7 DEF Next

(* No end is active in a session in which it has not verified its peer,      *)
(* unless a handshake of an earlier session has acted in it.                 *)
THEOREM ControlAlwaysFresh == Spec => []ControlIsFresh
  <1>1. Init => ControlIsFresh
    BY DEF Init, ControlIsFresh
  <1> QED
    BY <1>1, FreshNext, AlwaysGenuine, PTL DEF Spec

-----------------------------------------------------------------------------
(* Two ends that know each other                                             *)

(* The handshake h of session n, when `handshake' is that of session c: it   *)
(* does not fail, all it has heard is of this session, and a proof it has    *)
(* heard is being verified or has been.                                      *)
Begun(h) == h.st \notin {"none", "making"}
Mine(n) == [session |-> n, nonce |-> n]
Good(h, c, n) ==
  /\ h.st \notin {"failed", "timedOut"}
  /\ h.st = "open" => c = n
  /\ ~Begun(h) => c # n /\ h.peerNonce = 0
  /\ h.peerNonce \in {0, n}
  /\ h.peerNonce = 0 => h.peerProofSig = NoProof /\ ~h.signing
  /\ h.peerProofSig = NoProof => h.checks = {} /\ ~h.peerProofVerified
  /\ h.peerProofSig # NoProof => h.peerProofSig = Mine(n) /\ (h.checks # {} \/ h.peerProofVerified)
  /\ \A c2 \in h.checks : c2.sig = Mine(n)
  /\ h.st = "verified" <=> h.peerProofVerified

(* The wire w to the handshake h whose peer is p: the challenge goes before  *)
(* the proof, and what h has not heard of either is there as soon as p has   *)
(* sent it.                                                                  *)
Coming(w, type) == \E i \in 1..Len(w) : w[i].type = type
Before(w, i) == \E k \in 1..Len(w) : k < i /\ w[k].type = "challenge"
Wired(w, h, p, n) ==
  /\ \A i \in 1..Len(w) : w[i].proof = Mine(n)
  /\ \A i \in 1..Len(w) : w[i].type = "proof" => h.peerNonce # 0 \/ Before(w, i)
  /\ Begun(p) /\ h.peerNonce = 0 => Coming(w, "challenge")
  /\ p.peerNonce # 0 /\ ~p.signing /\ h.peerProofSig = NoProof => Coming(w, "proof")

(* Of the session there is, undisturbed; nothing is there of those to come.  *)
Own(e) == hs[e][now]
Fair ==
  link /\ ~missed /\ ~crossed /\ \A e \in Ends : knows[e] = "right" /\ Own(e).st # "timedOut"
Honest(e) == Good(Own(e), current[e], now) /\ Wired(wire[e], Own(e), Own(Peer[e]), now)
Ahead ==
  /\ ~link => \A e \in Ends : wire[e] = <<>>
  /\ \A e \in Ends : current[e] <= now
  /\ \A e \in Ends, s \in Sessions : s > now => hs[e][s] = NoHandshake
HonestInv == Ahead /\ (Fair => \A e \in Ends : Honest(e))

(* What a frame that is sent, a frame that is taken and a change of either   *)
(* end leave of a wire.                                                      *)
LEMMA FrameAppended ==
  ASSUME NEW w \in Seq(Frames), NEW f \in Frames, NEW h, NEW p, NEW q, NEW n,
         Wired(w, h, p, n), f.proof = Mine(n), f.type = "proof" => Begun(p),
         Begun(q) => Begun(p) \/ f.type = "challenge",
         f.type # "proof" => q.peerNonce = 0
  PROVE  Wired(Append(w, f), h, q, n)
  <1>1. /\ Len(Append(w, f)) = Len(w) + 1 /\ Len(w) \in Nat /\ Append(w, f)[Len(w) + 1] = f
        /\ \A i \in 1..Len(w) : Append(w, f)[i] = w[i] /\ i \in 1..Len(Append(w, f))
        /\ \A i \in 1..Len(Append(w, f)) : i \in 1..Len(w) \/ i = Len(w) + 1
        /\ Len(w) + 1 \in 1..Len(Append(w, f))
    OBVIOUS
  <1> DEFINE v == Append(w, f)
  <1> HIDE DEF v
  <1>2. \A i \in 1..Len(v) : v[i].proof = Mine(n)
    BY <1>1 DEF Wired, v
  <1>3. \A i \in 1..Len(w) : Before(w, i) => Before(v, i)
    BY <1>1 DEF Before, v
  <1>4. Coming(w, "challenge") => Coming(v, "challenge") /\ Before(v, Len(w) + 1)
    BY <1>1 DEF Coming, Before, v
  <1>5. /\ f.type = "challenge" => Coming(v, "challenge")
        /\ f.type = "proof" => Coming(v, "proof")
        /\ Coming(w, "proof") => Coming(v, "proof")
    BY <1>1 DEF Coming, v
  <1>6. ASSUME NEW i \in 1..Len(v), v[i].type = "proof"
        PROVE  h.peerNonce # 0 \/ Before(v, i)
    <2>1. CASE i \in 1..Len(w)
      BY <1>1, <1>3, <1>6, <2>1 DEF Wired, v
    <2>2. CASE i = Len(w) + 1
      BY <1>1, <1>4, <1>6, <2>2 DEF Wired, v
    <2> QED
      BY <1>1, <2>1, <2>2 DEF v
  <1> QED
    BY <1>2, <1>4, <1>5, <1>6 DEF Wired, v

LEMMA HeadHeard ==
  ASSUME NEW w \in Seq(Frames), w # <<>>, NEW h, NEW p, NEW n, Wired(w, h, p, n)
  PROVE  /\ Head(w).proof = Mine(n) /\ Head(w) \in Frames
         /\ Head(w).type = "proof" => h.peerNonce # 0
  <1>1. Head(w) = w[1] /\ 1 \in 1..Len(w) /\ w[1] \in Frames
    OBVIOUS
  <1>2. ~Before(w, 1)
    BY DEF Before
  <1> QED
    BY <1>1, <1>2 DEF Wired

LEMMA HeadTaken ==
  ASSUME NEW w \in Seq(Frames), w # <<>>, NEW h, NEW g, NEW p, NEW n, Wired(w, h, p, n),
         g.peerNonce # 0, Head(w).type = "proof" => g.peerProofSig # NoProof,
         g.peerProofSig = NoProof => h.peerProofSig = NoProof
  PROVE  Wired(Tail(w), g, p, n)
  <1>1. /\ Len(Tail(w)) = Len(w) - 1 /\ Len(w) \in Nat /\ Head(w) = w[1]
        /\ \A i \in 1..Len(Tail(w)) : Tail(w)[i] = w[i + 1] /\ i + 1 \in 1..Len(w)
    OBVIOUS
  <1>2. \A i \in 1..Len(Tail(w)) : Tail(w)[i].proof = Mine(n)
    BY <1>1 DEF Wired
  <1>3. ASSUME g.peerProofSig = NoProof, Coming(w, "proof")
        PROVE  Coming(Tail(w), "proof")
    <2>1. PICK i \in 1..Len(w) : w[i].type = "proof"
      BY <1>3 DEF Coming
    <2>2. i # 1
      BY <1>1, <1>3, <2>1
    <2>3. i - 1 \in 1..Len(Tail(w)) /\ Tail(w)[i - 1] = w[i]
      BY <1>1, <2>2
    <2> QED
      BY <2>1, <2>3 DEF Coming
  <1> QED
    BY <1>2, <1>3 DEF Wired

LEMMA EndsChange ==
  ASSUME NEW w, NEW h, NEW g, NEW p, NEW q, NEW n, Wired(w, h, p, n),
         h.peerNonce # 0 => g.peerNonce # 0, g.peerProofSig = NoProof => h.peerProofSig = NoProof,
         Begun(q) => Begun(p),
         q.peerNonce # 0 /\ ~q.signing => p.peerNonce # 0 /\ ~p.signing
  PROVE  Wired(w, g, q, n)
  BY DEF Wired

(* What is ahead stays ahead.                                                *)
LEMMA NumbersOrdered ==
  /\ Sessions \subseteq Nat /\ 0 \notin Sessions /\ Ends # {}
  /\ \A e \in Ends : Peer[e] \in Ends /\ Peer[e] # e /\ Peer[Peer[e]] = e
  /\ \A d, e \in Ends : d = e \/ d = Peer[e]
  BY SessionsAssumption DEF Sessions, Ends, Peer

LEMMA AheadUpdate ==
  ASSUME IInv, Ahead, NEW e \in Ends, NEW s \in Sessions, s <= now, NEW h, Updates(e, s, h),
         now' = now,
         \A d \in Ends : current'[d] \in {current[d], 0, s},
         ~link' => \A d \in Ends : wire'[d] = <<>>
  PROVE  Ahead'
  <1>1. hs \in [Ends -> [Sessions -> Handshakes]] /\ now \in Nat /\ s \in Nat
    BY NumbersOrdered DEF IInv, TypeOK
  <1>2. \A d \in Ends, t \in Sessions : t > now => hs'[d][t] = NoHandshake
    BY <1>1, NumbersOrdered DEF Ahead, Updates
  <1>3. \A d \in Ends : current'[d] <= now
    BY <1>1 DEF Ahead
  <1> QED
    BY <1>2, <1>3 DEF Ahead

LEMMA StepsAhead ==
  ASSUME IInv, Ahead, NEW e \in Ends, NEW s \in Sessions, Steps(e, s)
  PROVE  Ahead'
  <1>1. now \in Nat /\ s \in Nat /\ (s > now \/ s <= now) /\ wire \in [Ends -> Seq(Frames)]
        /\ current \in [Ends -> Sessions \cup {0}]
    BY NumbersOrdered DEF IInv, TypeOK
  <1>2. now' = now
    BY DEF Steps, start, NotPaired, maybeProve, verifyPeer, onTimeout, HangsUp
  <1>3. hs[e][s] # NoHandshake
    BY DEF Steps, start, NotPaired, maybeProve, verifyPeer, onTimeout, NoHandshake
  <1>4. s <= now
    BY <1>1, <1>3 DEF Ahead
  <1>5. \E h : Updates(e, s, h)
    BY DEF Steps, start, NotPaired, maybeProve, verifyPeer, ProofFails, ProofVerifies, onTimeout
  <1>6. \A d \in Ends : current'[d] \in {current[d], 0, s}
    <2>1. CASE \E forgets : HangsUp(forgets)
      BY <1>1, <2>1 DEF HangsUp
    <2>2. CASE current' = current
      BY <2>2
    <2>3. CASE start(e, s)
      BY <1>1, <2>3 DEF start
    <2>4. CASE verifyPeer(e, s)
      BY <1>1, <2>4 DEF verifyPeer, ProofFails, ProofVerifies
    <2> QED
      BY <2>1, <2>2, <2>3, <2>4 DEF Steps, NotPaired, maybeProve, onTimeout
  <1>7. ~link' => \A d \in Ends : wire'[d] = <<>>
    BY DEF Steps, start, NotPaired, maybeProve, verifyPeer, onTimeout, HangsUp, Sends, Ahead
  <1> QED
    BY <1>2, <1>4, <1>5, <1>6, <1>7, AheadUpdate

LEMMA AheadNext ==
  ASSUME IInv, Ahead, [Next]_vars
  PROVE  Ahead'
  <1>1. /\ now \in Nat /\ wire \in [Ends -> Seq(Frames)] /\ current \in [Ends -> Sessions \cup {0}]
        /\ hs \in [Ends -> [Sessions -> Handshakes]]
    BY NumbersOrdered DEF IInv, TypeOK
  <1>2. CASE Connected
    <2>1. now' = now + 1 /\ link' /\ UNCHANGED <<hs, current>>
      BY <1>2 DEF Connected
    <2>2. ASSUME NEW e \in Ends
          PROVE  current[e] <= now + 1
      <3>1. current[e] \in Nat
        <4>1. current[e] \in Sessions \cup {0}
          BY <1>1
        <4> QED
          BY <4>1 DEF Sessions
      <3>2. current[e] <= now
        BY DEF Ahead
      <3> QED
        BY <1>1, <3>1, <3>2
    <2>3. \A s \in Sessions : s > now + 1 => s > now
      BY <1>1, NumbersOrdered
    <2> QED
      BY <2>1, <2>2, <2>3 DEF Ahead
  <1>3. CASE Lost
    BY <1>1, <1>3 DEF Lost, HangsUp, Ahead
  <1>4. CASE Reconnected
    BY <1>4 DEF Reconnected, Ahead
  <1>5. ASSUME NEW e \in Ends, ControlOpen(e)
        PROVE  Ahead'
    <2>1. now \in Sessions /\ now <= now
      BY <1>1, <1>5 DEF ControlOpen, IInv, LinkHasNumber
    <2>2. \E h : Updates(e, now, h)
      BY <1>5 DEF ControlOpen
    <2> QED
      BY <1>5, <2>1, <2>2, AheadUpdate DEF ControlOpen, Ahead
  <1>6. ASSUME NEW e \in Ends, Deliver(e)
        PROVE  Ahead'
    <2>1. link /\ link' = link /\ now' = now /\ current' = current
      BY <1>6 DEF Deliver, Ahead
    <2>2. CASE hs' = hs
      BY <2>1, <2>2 DEF Ahead
    <2>3. CASE \E h : current[e] # 0 /\ Updates(e, current[e], h)
      <3>1. current[e] \in Sessions /\ current[e] <= now
        BY <1>1, <2>3 DEF Ahead
      <3> QED
        BY <2>1, <2>3, <3>1, AheadUpdate
    <2> QED
      BY <1>6, <2>2, <2>3 DEF Deliver, onChallenge, onProof, ProofRefused, ProofChecked
  <1>7. CASE UNCHANGED vars
    BY <1>7 DEF vars, Ahead
  <1> QED
    BY <1>2, <1>3, <1>4, <1>5, <1>6, <1>7, StepsAhead DEF Next

(* A handshake that has run out of time stays so.                            *)
LEMMA TimedOutStays ==
  ASSUME IInv, [Next]_vars, now' = now, now \in Sessions, NEW d \in Ends, Own(d).st = "timedOut"
  PROVE  Own(d)'.st = "timedOut"
  <1>1. hs \in [Ends -> [Sessions -> Handshakes]] /\ hs[d][now] \in Handshakes
    BY DEF IInv, TypeOK
  <1>2. CASE hs' = hs
    BY <1>2 DEF Own
  <1>3. ASSUME NEW e \in Ends, NEW s \in Sessions, NEW h, Updates(e, s, h),
               <<e, s>> = <<d, now>> => h.st = "timedOut"
        PROVE  Own(d)'.st = "timedOut"
    BY <1>1, <1>3 DEF Updates, Own
  <1>4. ASSUME NEW e \in Ends, ControlOpen(e)
        PROVE  Own(d)'.st = "timedOut"
    BY <1>3, <1>4 DEF ControlOpen, Own
  <1>5. ASSUME NEW e \in Ends, Deliver(e)
        PROVE  Own(d)'.st = "timedOut"
    <2>1. current[e] # 0 => current[e] \in Sessions
      BY DEF IInv, TypeOK
    <2>2. CASE onChallenge(e, current[e], Head(wire[e]).proof)
      BY <1>2, <1>3, <2>1, <2>2 DEF onChallenge, Own
    <2>3. CASE onProof(e, current[e], Head(wire[e]).proof)
      BY <1>2, <1>3, <2>1, <2>3 DEF onProof, ProofRefused, ProofChecked, Own
    <2> QED
      BY <1>5, <2>2, <2>3 DEF Deliver
  <1>6. ASSUME NEW e \in Ends, NEW s \in Sessions, Steps(e, s)
        PROVE  Own(d)'.st = "timedOut"
    <2>1. CASE <<e, s>> # <<d, now>>
      BY <1>3, <1>6, <2>1
         DEF Steps, start, NotPaired, maybeProve, verifyPeer, ProofFails, ProofVerifies, onTimeout
    <2>2. CASE <<e, s>> = <<d, now>>
      <3>1. CASE maybeProve(d, now)
        <4>1. PICK cs : hs' = [hs EXCEPT ![d][now] = [hs[d][now] EXCEPT !.signing = FALSE, !.checks = cs]]
          BY <3>1 DEF maybeProve, Updates
        <4> QED
          BY <1>1, <4>1 DEF Own, Handshakes
      <3>2. CASE verifyPeer(d, now)
        <4>1. PICK c \in hs[d][now].checks : ProofFails(d, now, c) \/ ProofVerifies(d, now, c)
          BY <3>2 DEF verifyPeer
        <4>2. CASE ProofFails(d, now, c)
          <5>1. PICK cs, st : /\ Updates(d, now, [hs[d][now] EXCEPT !.checks = cs, !.st = st])
                              /\ st = IF hs[d][now].st = "open" THEN "failed" ELSE hs[d][now].st
            BY <1>1, <4>2 DEF ProofFails, Handshakes
          <5>2. [hs[d][now] EXCEPT !.checks = cs, !.st = st].st = "timedOut"
            BY <1>1, <5>1 DEF Own, Handshakes
          <5> QED
            BY <1>3, <5>1, <5>2
        <4>3. CASE ProofVerifies(d, now, c)
          <5>1. PICK cs, st :
                  /\ Updates(d, now, [hs[d][now] EXCEPT
                                        !.checks = cs, !.peerProofVerified = TRUE, !.st = st])
                  /\ st = IF hs[d][now].st = "open" /\ myProofSent(hs[d][now]) THEN "verified"
                                                                               ELSE hs[d][now].st
            BY <1>1, <4>3 DEF ProofVerifies, Handshakes
          <5>2. [hs[d][now] EXCEPT !.checks = cs, !.peerProofVerified = TRUE, !.st = st].st = "timedOut"
            BY <1>1, <5>1 DEF Own, Handshakes
          <5> QED
            BY <1>3, <5>1, <5>2
        <4> QED
          BY <4>1, <4>2, <4>3
      <3> QED
        BY <1>6, <2>2, <3>1, <3>2 DEF Steps, start, NotPaired, onTimeout, Own
    <2> QED
      BY <2>1, <2>2
  <1> QED
    BY <1>2, <1>4, <1>5, <1>6 DEF Next, Connected, Lost, Reconnected, vars

LEMMA FairBefore ==
  ASSUME IInv, [Next]_vars, Fair', ~Connected
  PROVE  Fair /\ now' = now /\ now \in Sessions
  <1>1. /\ link' /\ ~missed' /\ ~crossed'
        /\ \A e \in Ends : knows'[e] = "right" /\ Own(e)'.st # "timedOut"
        /\ link \in BOOLEAN /\ missed \in BOOLEAN /\ crossed \in BOOLEAN
    BY DEF Fair, IInv, TypeOK
  <1>2. now' = now /\ link /\ ~missed /\ ~crossed
    <2>1. ASSUME NEW e \in Ends, NEW s \in Sessions, Steps(e, s)
          PROVE  now' = now /\ link /\ ~missed /\ ~crossed
      <3>1. ~HangsUp({"desktop"}) /\ ~HangsUp({"desktop", e})
        BY <1>1 DEF HangsUp
      <3> QED
        BY <1>1, <2>1, <3>1 DEF Steps, start, NotPaired, maybeProve, verifyPeer, onTimeout, Acts
    <2>2. ASSUME NEW e \in Ends, Deliver(e)
          PROVE  now' = now /\ link /\ ~missed /\ ~crossed
      BY <1>1, <2>2 DEF Deliver, onChallenge, onProof, Acts
    <2>3. ASSUME NEW e \in Ends, ControlOpen(e)
          PROVE  now' = now /\ link /\ ~missed /\ ~crossed
      BY <1>1, <2>3 DEF ControlOpen
    <2>4. ~Lost
      BY <1>1 DEF Lost, HangsUp
    <2>5. CASE Reconnected \/ UNCHANGED vars
      <3>1. now' = now /\ link' = link /\ missed' = missed /\ crossed' = crossed
        BY <2>5 DEF Reconnected, vars
      <3> QED
        BY <1>1, <3>1
    <2> QED
      BY <2>1, <2>2, <2>3, <2>4, <2>5 DEF Next
  <1>3. knows' = knows
    BY Effects
  <1>4. now \in Sessions
    BY <1>2 DEF IInv, LinkHasNumber
  <1> QED
    BY <1>1, <1>2, <1>3, <1>4, TimedOutStays DEF Fair

(* One end and the wires change.                                             *)
LEMMA OneEnd ==
  ASSUME IInv, now \in Sessions, now' = now, NEW e \in Ends, NEW h, Updates(e, now, h),
         Honest(Peer[e]), current'[Peer[e]] = current[Peer[e]], Good(h, current'[e], now),
         Wired(wire'[e], h, Own(Peer[e]), now), Wired(wire'[Peer[e]], Own(Peer[e]), h, now)
  PROVE  \A d \in Ends : Honest(d)'
  <1>1. hs'[e][now] = h /\ hs'[Peer[e]][now] = hs[Peer[e]][now]
    BY NumbersOrdered DEF IInv, TypeOK, Updates
  <1>2. Honest(e)'
    BY <1>1 DEF Honest, Own
  <1>3. Honest(Peer[e])'
    BY <1>1, NumbersOrdered DEF Honest, Own
  <1> QED
    BY <1>2, <1>3, NumbersOrdered

LEMMA EndChanged ==
  ASSUME IInv, now \in Sessions, now' = now, NEW e \in Ends, NEW h, Updates(e, now, h),
         Honest(e), Honest(Peer[e]), UNCHANGED wire,
         current'[Peer[e]] = current[Peer[e]], Good(h, current'[e], now),
         Own(e).peerNonce # 0 => h.peerNonce # 0,
         h.peerProofSig = NoProof => Own(e).peerProofSig = NoProof,
         Begun(h) => Begun(Own(e)),
         h.peerNonce # 0 /\ ~h.signing => Own(e).peerNonce # 0 /\ ~Own(e).signing
  PROVE  \A d \in Ends : Honest(d)'
  <1>1. /\ Wired(wire[e], Own(e), Own(Peer[e]), now)
        /\ Wired(wire[Peer[e]], Own(Peer[e]), Own(e), now)
    BY NumbersOrdered DEF Honest
  <1>2. Wired(wire[e], h, Own(Peer[e]), now)
    BY <1>1, EndsChange
  <1>3. Wired(wire[Peer[e]], Own(Peer[e]), h, now)
    BY <1>1, EndsChange
  <1> QED
    BY <1>2, <1>3, OneEnd

LEMMA ControlOpenHonest ==
  ASSUME IInv, Fair, now \in Sessions, NEW e \in Ends, Honest(e), Honest(Peer[e]), ControlOpen(e)
  PROVE  \A d \in Ends : Honest(d)'
  <1> DEFINE h == [NoHandshake EXCEPT !.st = "making"]
  <1>1. /\ h.st = "making" /\ h.peerNonce = 0 /\ ~h.signing /\ h.peerProofSig = NoProof
        /\ h.checks = {} /\ ~h.peerProofVerified
    BY DEF NoHandshake
  <1>2. Updates(e, now, h) /\ Own(e).st = "none" /\ UNCHANGED <<now, wire, current>>
    BY DEF ControlOpen, Own
  <1> HIDE DEF h
  <1>3. Own(e).peerNonce = 0 /\ Own(e).peerProofSig = NoProof /\ current[e] # now
    BY <1>2 DEF Honest, Good, Begun
  <1>4. Good(h, current'[e], now) /\ ~Begun(h)
    BY <1>1, <1>2, <1>3 DEF Good, Begun
  <1> QED
    BY <1>1, <1>2, <1>3, <1>4, EndChanged

(* A frame is sent by e, whose handshake becomes h.                          *)
LEMMA SendHonest ==
  ASSUME IInv, Fair, now \in Sessions, now' = now, NEW e \in Ends, NEW h, Updates(e, now, h),
         Honest(e), Honest(Peer[e]), current'[Peer[e]] = current[Peer[e]], Good(h, current'[e], now),
         NEW type \in {"challenge", "proof"}, Sends(e, type, now, now),
         type = "proof" => Begun(Own(e)), type = "challenge" => h.peerNonce = 0,
         Begun(h) => Begun(Own(e)) \/ type = "challenge",
         Own(e).peerNonce # 0 => h.peerNonce # 0,
         h.peerProofSig = NoProof => Own(e).peerProofSig = NoProof
  PROVE  \A d \in Ends : Honest(d)'
  <1> DEFINE f == [type |-> type, proof |-> [session |-> now, nonce |-> now]]
  <1>1. f \in Frames /\ f.type = type /\ f.proof = Mine(now)
    BY DEF Frames, Proofs, Mine
  <1>2. /\ wire \in [Ends -> Seq(Frames)] /\ wire[Peer[e]] \in Seq(Frames)
        /\ Peer[e] \in Ends /\ Peer[e] # e /\ Peer[Peer[e]] = e
    BY NumbersOrdered DEF IInv, TypeOK
  <1>3. wire'[Peer[e]] = Append(wire[Peer[e]], f) /\ wire'[e] = wire[e]
    BY <1>2 DEF Sends, Fair
  <1> HIDE DEF f
  <1>4. /\ Wired(wire[e], Own(e), Own(Peer[e]), now)
        /\ Wired(wire[Peer[e]], Own(Peer[e]), Own(e), now)
    BY <1>2 DEF Honest
  <1>5. Wired(wire'[Peer[e]], Own(Peer[e]), h, now)
    BY <1>1, <1>2, <1>3, <1>4, FrameAppended
  <1>6. Wired(wire'[e], h, Own(Peer[e]), now)
    BY <1>3, <1>4, EndsChange
  <1> QED
    BY <1>5, <1>6, OneEnd

LEMMA startHonest ==
  ASSUME IInv, Fair, now \in Sessions, NEW e \in Ends, Honest(e), Honest(Peer[e]), start(e, now)
  PROVE  \A d \in Ends : Honest(d)'
  <1> DEFINE h == [Own(e) EXCEPT !.st = "open"]
  <1>1. Own(e) \in Handshakes /\ current \in [Ends -> Sessions \cup {0}]
    BY DEF IInv, TypeOK, Own
  <1>2. /\ h.st = "open" /\ h.peerNonce = Own(e).peerNonce /\ h.signing = Own(e).signing
        /\ h.peerProofSig = Own(e).peerProofSig /\ h.checks = Own(e).checks
        /\ h.peerProofVerified = Own(e).peerProofVerified
    BY <1>1 DEF Handshakes
  <1>3. /\ Updates(e, now, h) /\ Own(e).st = "making" /\ now' = now
        /\ current'[e] = now /\ current'[Peer[e]] = current[Peer[e]]
        /\ Sends(e, "challenge", now, now)
    BY <1>1, NumbersOrdered DEF start, Own
  <1> HIDE DEF h
  <1>4. Own(e).peerNonce = 0 /\ Good(h, current'[e], now)
    BY <1>2, <1>3 DEF Honest, Good, Begun
  <1> QED
    BY <1>2, <1>3, <1>4, SendHonest

LEMMA maybeProveHonest ==
  ASSUME IInv, Fair, now \in Sessions, NEW e \in Ends, Honest(e), Honest(Peer[e]), maybeProve(e, now)
  PROVE  \A d \in Ends : Honest(d)'
  <1>1. Own(e) \in Handshakes /\ current \in [Ends -> Sessions \cup {0}]
    BY DEF IInv, TypeOK, Own
  <1>2. Own(e).signing /\ Own(e).peerNonce = now /\ Begun(Own(e)) /\ now # 0
    BY NumbersOrdered DEF maybeProve, Own, Honest, Good
  <1>3. PICK cs :
          /\ Updates(e, now, [Own(e) EXCEPT !.signing = FALSE, !.checks = cs])
          /\ \/ cs = Own(e).checks
             \/ /\ Own(e).peerProofSig # NoProof
                /\ cs = Own(e).checks \cup {[sig |-> Own(e).peerProofSig, by |-> "maybeProve"]}
    BY DEF maybeProve, Own
  <1> DEFINE h == [Own(e) EXCEPT !.signing = FALSE, !.checks = cs]
  <1>4. /\ h.st = Own(e).st /\ h.peerNonce = Own(e).peerNonce /\ ~h.signing
        /\ h.peerProofSig = Own(e).peerProofSig /\ h.checks = cs
        /\ h.peerProofVerified = Own(e).peerProofVerified
    BY <1>1 DEF Handshakes
  <1>5. Updates(e, now, h)
    BY <1>3
  <1> HIDE DEF h
  <1>6. now' = now /\ current' = current /\ Sends(e, "proof", now, now)
    BY <1>2 DEF maybeProve, Own
  <1>7. Good(Own(e), current[e], now)
    BY DEF Honest
  <1>8. \A c \in cs : c.sig = Mine(now)
    BY <1>3, <1>7 DEF Good
  <1>9. Good(h, current[e], now)
    BY <1>2, <1>3, <1>4, <1>7, <1>8 DEF Good, Begun
  <1> QED
    BY <1>2, <1>4, <1>5, <1>6, <1>9, SendHonest DEF Begun

LEMMA verifyPeerHonest ==
  ASSUME IInv, Fair, now \in Sessions, NEW e \in Ends, Honest(e), Honest(Peer[e]), verifyPeer(e, now)
  PROVE  \A d \in Ends : Honest(d)'
  <1>1. Own(e) \in Handshakes /\ current \in [Ends -> Sessions \cup {0}]
        /\ Good(Own(e), current[e], now)
    BY DEF IInv, TypeOK, Own, Honest
  <1>2. PICK c \in Own(e).checks : ProofFails(e, now, c) \/ ProofVerifies(e, now, c)
    BY DEF verifyPeer, Own
  <1>3. c.sig = Mine(now) /\ Verifies(e, now, c.sig)
    BY <1>1, <1>2 DEF Good, Verifies, Mine, Fair
  <1>4. /\ Own(e).peerProofSig # NoProof /\ Own(e).peerNonce # 0
        /\ Begun(Own(e)) /\ Own(e).st \in {"open", "verified"}
    BY <1>1, <1>2 DEF Good, Begun, Handshakes, States
  <1> DEFINE h == [Own(e) EXCEPT !.checks = Own(e).checks \ {c}, !.peerProofVerified = TRUE,
                                 !.st = "verified"]
  <1>5. /\ h.st = "verified" /\ h.peerNonce = Own(e).peerNonce /\ h.signing = Own(e).signing
        /\ h.peerProofSig = Own(e).peerProofSig /\ h.checks = Own(e).checks \ {c}
        /\ h.peerProofVerified
    BY <1>1 DEF Handshakes
  <1>6. /\ Updates(e, now, h) /\ UNCHANGED <<now, wire>>
        /\ current'[Peer[e]] = current[Peer[e]]
    <2>1. PICK st :
            /\ Updates(e, now, [Own(e) EXCEPT !.checks = Own(e).checks \ {c}, !.peerProofVerified = TRUE,
                                              !.st = st])
            /\ st = IF Own(e).st = "open" /\ myProofSent(Own(e)) THEN "verified" ELSE Own(e).st
      BY <1>1, <1>2, <1>3 DEF ProofFails, ProofVerifies, Own, Handshakes
    <2>2. st = "verified"
      BY <1>4, <2>1 DEF myProofSent
    <2>3. current'[Peer[e]] = current[Peer[e]]
      BY <1>1, <1>2, NumbersOrdered DEF ProofFails, ProofVerifies
    <2> QED
      BY <2>1, <2>2, <2>3 DEF verifyPeer
  <1> HIDE DEF h
  <1>7. Good(h, current'[e], now)
    BY <1>1, <1>4, <1>5 DEF Good, Begun
  <1> QED
    BY <1>4, <1>5, <1>6, <1>7, EndChanged DEF Begun

(* The frame that is given to an end, whose handshake becomes h.             *)
LEMMA FrameGiven ==
  ASSUME IInv, now \in Sessions, NEW e \in Ends, NEW h, Updates(e, now, h), Deliver(e),
         Honest(e), Honest(Peer[e]), Good(h, current[e], now),
         h.peerNonce # 0, Head(wire[e]).type = "proof" => h.peerProofSig # NoProof,
         h.peerProofSig = NoProof => Own(e).peerProofSig = NoProof,
         Begun(h) => Begun(Own(e)), ~h.signing => Own(e).peerNonce # 0 /\ ~Own(e).signing
  PROVE  \A d \in Ends : Honest(d)'
  <1>1. /\ wire \in [Ends -> Seq(Frames)] /\ wire[e] \in Seq(Frames)
        /\ Peer[e] \in Ends /\ Peer[e] # e /\ Peer[Peer[e]] = e
    BY NumbersOrdered DEF IInv, TypeOK
  <1>2. /\ wire[e] # <<>> /\ now' = now /\ current' = current
        /\ wire'[e] = Tail(wire[e]) /\ wire'[Peer[e]] = wire[Peer[e]]
    BY <1>1 DEF Deliver
  <1>3. /\ Wired(wire[e], Own(e), Own(Peer[e]), now)
        /\ Wired(wire[Peer[e]], Own(Peer[e]), Own(e), now)
    BY <1>1 DEF Honest
  <1>4. Wired(wire'[e], h, Own(Peer[e]), now)
    BY <1>1, <1>2, <1>3, HeadTaken
  <1>5. Wired(wire'[Peer[e]], Own(Peer[e]), h, now)
    BY <1>2, <1>3, EndsChange
  <1> QED
    BY <1>2, <1>4, <1>5, OneEnd

LEMMA DeliverHonest ==
  ASSUME IInv, Fair, now \in Sessions, ~missed', ~crossed', NEW e \in Ends,
         Honest(e), Honest(Peer[e]), Deliver(e)
  PROVE  \A d \in Ends : Honest(d)'
  <1> DEFINE f == Head(wire[e])
  <1>1. /\ Own(e) \in Handshakes /\ current[e] \in Sessions \cup {0} /\ now # 0
        /\ hs \in [Ends -> [Sessions -> Handshakes]] /\ wire[e] \in Seq(Frames) /\ wire[e] # <<>>
    BY NumbersOrdered DEF IInv, TypeOK, Own, Deliver
  <1>2. Good(Own(e), current[e], now)
    BY DEF Honest
  <1>3. /\ f \in Frames /\ f.proof = Mine(now)
        /\ f.type = "proof" => Own(e).peerNonce # 0
    BY <1>1, HeadHeard DEF Honest
  <1> HIDE DEF f
  <1>4. Own(e).st = "verified" => Own(e).peerProofSig # NoProof /\ Own(e).peerNonce # 0
    BY <1>2 DEF Good
  <1>5. Own(e).st \in {"none", "making", "open", "verified"}
    BY <1>1, <1>2 DEF Good, Handshakes, States
  <1>6. ASSUME hs' = hs, Own(e).peerNonce # 0, f.type = "proof" => Own(e).peerProofSig # NoProof
        PROVE  \A d \in Ends : Honest(d)'
    <2>1. Updates(e, now, Own(e))
      BY <1>1, <1>6 DEF Updates, Own
    <2>2. ASSUME Own(e).signing
          PROVE  \A d \in Ends : Honest(d)'
      BY <1>2, <1>6, <2>1, <2>2, FrameGiven DEF f
    <2>3. ASSUME ~Own(e).signing
          PROVE  \A d \in Ends : Honest(d)'
      BY <1>2, <1>6, <2>1, <2>3, FrameGiven DEF f
    <2> QED
      BY <2>2, <2>3
  <1>7. ASSUME f.type = "challenge", onChallenge(e, current[e], f.proof)
        PROVE  \A d \in Ends : Honest(d)'
    <2>1. current[e] = now
      BY <1>7 DEF onChallenge
    <2>2. Own(e).st \in {"open", "verified"}
      BY <1>2, <1>5, <2>1 DEF Good, Begun
    <2>3. CASE Own(e).st = "open" /\ Own(e).peerNonce = 0
      <3> DEFINE h == [Own(e) EXCEPT !.peerNonce = now, !.signing = TRUE]
      <3>1. /\ h.st = Own(e).st /\ h.peerNonce = now /\ h.signing
            /\ h.peerProofSig = Own(e).peerProofSig /\ h.checks = Own(e).checks
            /\ h.peerProofVerified = Own(e).peerProofVerified
        BY <1>1 DEF Handshakes
      <3>2. Updates(e, now, h)
        BY <1>1, <1>3, <1>7, <2>1, <2>3 DEF onChallenge, NonceIn, Mine, Own
      <3> HIDE DEF h
      <3>3. Good(h, current[e], now) /\ Begun(Own(e))
        BY <1>1, <1>2, <2>1, <2>3, <3>1 DEF Good, Begun
      <3>4. h.peerNonce # 0 /\ ~(Head(wire[e]).type = "proof")
        BY <1>1, <1>7, <3>1 DEF f
      <3> QED
        BY <3>1, <3>2, <3>3, <3>4, FrameGiven
    <2>4. CASE ~(Own(e).st = "open" /\ Own(e).peerNonce = 0)
      <3>1. hs' = hs
        BY <1>7, <2>1, <2>4 DEF onChallenge, Own
      <3>2. Own(e).peerNonce # 0
        BY <1>4, <2>2, <2>4
      <3> QED
        BY <1>6, <1>7, <3>1, <3>2
    <2> QED
      BY <2>3, <2>4
  <1>8. ASSUME f.type = "proof", onProof(e, current[e], f.proof)
        PROVE  \A d \in Ends : Honest(d)'
    <2>1. Own(e).st \in {"open", "verified"}
      BY <1>2, <1>3, <1>5, <1>8 DEF Good, Begun
    <2>2. CASE current[e] = 0
      <3>1. hs' = hs
        BY <1>8, <2>2 DEF onProof
      <3>2. Own(e).st = "verified"
        BY <1>1, <1>2, <2>1, <2>2 DEF Good
      <3> QED
        BY <1>4, <1>6, <3>1, <3>2
    <2>3. CASE current[e] # 0
      <3>1. current[e] = now
        BY <1>8, <2>3 DEF onProof, Acts
      <3>2. CASE ProofRefused(e, current[e])
        <4>1. Own(e).st = "verified"
          BY <1>3, <1>8, <2>1, <3>1, <3>2 DEF ProofRefused, Own
        <4>2. Updates(e, now, Own(e))
          BY <3>1, <3>2, <4>1 DEF ProofRefused, Own
        <4>3. hs' = hs
          BY <1>1, <4>2 DEF Updates, Own
        <4> QED
          BY <1>4, <1>6, <4>1, <4>3
      <3>3. CASE ProofChecked(e, current[e], f.proof)
        <4> DEFINE c == [sig |-> f.proof, by |-> "frame"]
        <4> DEFINE h == [Own(e) EXCEPT !.peerProofSig = f.proof, !.checks = Own(e).checks \cup {c}]
        <4>1. /\ h.st = Own(e).st /\ h.peerNonce = Own(e).peerNonce /\ h.signing = Own(e).signing
              /\ h.peerProofSig = Mine(now) /\ h.checks = Own(e).checks \cup {c}
              /\ h.peerProofVerified = Own(e).peerProofVerified
          BY <1>1, <1>3 DEF Handshakes
        <4>2. Updates(e, now, h) /\ Own(e).st = "open"
          BY <3>1, <3>3 DEF ProofChecked, Own
        <4>3. c.sig = Mine(now)
          BY <1>3
        <4> HIDE DEF h, c
        <4>4. Mine(now) # NoProof
          BY <1>1 DEF Mine, NoProof
        <4>5. \A c2 \in h.checks : c2.sig = Mine(now)
          BY <1>2, <4>1, <4>3 DEF Good
        <4>6. Good(h, current[e], now) /\ Begun(Own(e))
          BY <1>2, <1>3, <1>8, <4>1, <4>2, <4>4, <4>5 DEF Good, Begun
        <4>7. h.peerNonce # 0 /\ h.peerProofSig # NoProof
          BY <1>3, <1>8, <4>1, <4>4
        <4>8. ASSUME h.signing
              PROVE  \A d \in Ends : Honest(d)'
          BY <4>2, <4>6, <4>7, <4>8, FrameGiven
        <4>9. ASSUME ~h.signing
              PROVE  \A d \in Ends : Honest(d)'
          BY <4>1, <4>2, <4>6, <4>7, <4>9, FrameGiven
        <4> QED
          BY <4>8, <4>9
      <3> QED
        BY <1>8, <2>3, <3>2, <3>3 DEF onProof
    <2> QED
      BY <2>2, <2>3
  <1>9. f.type \in {"challenge", "proof"}
    BY <1>3 DEF Frames
  <1> QED
    BY <1>7, <1>8, <1>9 DEF Deliver, f

(* A session that begins.                                                    *)
LEMMA ConnectedHonest ==
  ASSUME IInv, Ahead, Connected
  PROVE  \A d \in Ends : Honest(d)'
  <1>1. /\ now \in Nat /\ now' = now + 1 /\ now + 1 \in Sessions /\ now + 1 > now /\ now + 1 # 0
        /\ UNCHANGED <<wire, hs, current>>
    BY SessionsAssumption DEF IInv, TypeOK, Connected, Sessions
  <1>2. ASSUME NEW d \in Ends
        PROVE  hs[d][now + 1] = NoHandshake /\ wire[d] = <<>> /\ current[d] # now + 1
    <2>1. current[d] \in Nat /\ current[d] <= now
      <3>1. current[d] \in Sessions \cup {0}
        BY DEF IInv, TypeOK
      <3> QED
        BY <3>1 DEF Ahead, Sessions
    <2> QED
      BY <1>1, <2>1 DEF Ahead, Connected
  <1>3. \A c : c # now + 1 => Good(NoHandshake, c, now + 1)
    BY DEF Good, Begun, NoHandshake, Mine
  <1>4. Wired(<<>>, NoHandshake, NoHandshake, now + 1)
    BY DEF Wired, Begun, NoHandshake
  <1> QED
    BY <1>1, <1>2, <1>3, <1>4, NumbersOrdered DEF Honest, Own

LEMMA StepsHonest ==
  ASSUME IInv, Fair, Fair', now' = now, now \in Sessions,
         NEW e \in Ends, NEW s \in Sessions, Steps(e, s),
         \A d \in Ends : Honest(d)
  PROVE  \A d \in Ends : Honest(d)'
  <1>1. link' /\ ~crossed' /\ Own(e)'.st # "timedOut" /\ knows[e] = "right"
    BY DEF Fair
  <1>2. Honest(e) /\ Honest(Peer[e])
    BY NumbersOrdered
  <1>3. s = now
    BY <1>1 DEF Steps, start, NotPaired, maybeProve, verifyPeer, onTimeout, Acts
  <1>4. ~NotPaired(e, s)
    BY <1>1 DEF NotPaired
  <1>5. ~onTimeout(e, s)
    <2>1. onTimeout(e, now) => Own(e)'.st = "timedOut"
      <3>1. hs \in [Ends -> [Sessions -> Handshakes]] /\ hs[e][now] \in Handshakes
        BY DEF IInv, TypeOK
      <3>2. [hs[e][now] EXCEPT !.st = "timedOut"].st = "timedOut"
        BY <3>1 DEF Handshakes
      <3> QED
        BY <3>1, <3>2 DEF onTimeout, Updates, Own
    <2> QED
      BY <1>1, <1>3, <2>1
  <1> QED
    BY <1>2, <1>3, <1>4, <1>5, startHonest, maybeProveHonest, verifyPeerHonest DEF Steps

LEMMA HonestNext ==
  ASSUME IInv, HonestInv, [Next]_vars
  PROVE  HonestInv'
  <1>1. Ahead'
    BY AheadNext DEF HonestInv
  <1>2. ASSUME Fair'
        PROVE  \A d \in Ends : Honest(d)'
    <2>1. CASE Connected
      BY <2>1, ConnectedHonest DEF HonestInv
    <2>2. CASE ~Connected
      <3>1. Fair /\ now' = now /\ now \in Sessions
        BY <1>2, <2>2, FairBefore
      <3>2. \A d \in Ends : Honest(d)
        BY <3>1 DEF HonestInv
      <3>3. link' /\ ~missed' /\ ~crossed'
        BY <1>2 DEF Fair
      <3>4. ASSUME NEW e \in Ends
            PROVE  Honest(e) /\ Honest(Peer[e])
        BY <3>2, NumbersOrdered
      <3>5. CASE Reconnected \/ UNCHANGED vars
        <4>1. UNCHANGED <<now, wire, hs, current>>
          BY <3>5 DEF Reconnected, vars
        <4> QED
          BY <3>2, <4>1 DEF Honest, Own
      <3>6. ~Lost
        BY <3>3 DEF Lost, HangsUp
      <3>7. ASSUME NEW e \in Ends, ControlOpen(e)
            PROVE  \A d \in Ends : Honest(d)'
        BY <3>1, <3>4, <3>7, ControlOpenHonest
      <3>8. ASSUME NEW e \in Ends, Deliver(e)
            PROVE  \A d \in Ends : Honest(d)'
        BY <3>1, <3>3, <3>4, <3>8, DeliverHonest
      <3>9. ASSUME NEW e \in Ends, NEW s \in Sessions, Steps(e, s)
            PROVE  \A d \in Ends : Honest(d)'
        BY <1>2, <3>1, <3>2, <3>9, StepsHonest
      <3> QED
        BY <2>2, <3>5, <3>6, <3>7, <3>8, <3>9 DEF Next
    <2> QED
      BY <2>1, <2>2
  <1> QED
    BY <1>1, <1>2 DEF HonestInv

LEMMA HonestVerify ==
  ASSUME IInv, HonestInv
  PROVE  HonestEndsVerify
  <1> SUFFICES ASSUME Undisturbed, Quiet
               PROVE  \A e \in Ends : Own(e).st = "verified"
    BY DEF HonestEndsVerify, Own
  <1>1. Fair /\ \A e \in Ends : Own(e).st # "none"
    BY DEF Undisturbed, Fair, Own
  <1>2. now \in Sessions
    BY <1>1 DEF Fair, IInv, LinkHasNumber
  <1>3. ASSUME NEW e \in Ends
        PROVE  /\ Good(Own(e), current[e], now) /\ Wired(<<>>, Own(e), Own(Peer[e]), now)
               /\ Own(e).st \in {"open", "verified"} /\ ~Own(e).signing /\ Own(e).checks = {}
    <2>1. Honest(e) /\ Own(e) \in Handshakes /\ wire[e] = <<>>
      BY <1>1, <1>2 DEF HonestInv, Own, Quiet, IInv, TypeOK
    <2>2. Own(e).st # "making" /\ ~Own(e).signing /\ Own(e).checks = {}
      BY <1>2 DEF Quiet, Own
    <2> QED
      BY <1>1, <2>1, <2>2 DEF Honest, Good, Handshakes, States
  <1>4. \A type : ~Coming(<<>>, type)
    BY DEF Coming
  <1>5. \A e \in Ends : Own(e).peerNonce # 0
    BY <1>3, <1>4, NumbersOrdered DEF Wired, Begun
  <1>6. \A e \in Ends : Own(e).peerProofSig # NoProof
    BY <1>3, <1>4, <1>5, NumbersOrdered DEF Wired
  <1> QED
    BY <1>3, <1>6 DEF Good

(* HonestEndsVerify: two ends that have stored each other's keys always get  *)
(* through the handshake of a session that nothing disturbs: no lost channel, *)
(* dropped challenge, handshake of an earlier session, or timeout.  Whatever *)
(* the order of channels, keys, frames and signatures, once none is under    *)
(* way both ends have verified (peer-handshake.ts).                          *)
THEOREM HonestEndsAlwaysVerify == Spec => []HonestEndsVerify
  <1>1. Init => HonestInv
    BY NumbersOrdered DEF Init, HonestInv, Ahead, Fair
  <1>2. IInv /\ HonestInv /\ [Next]_vars => HonestInv'
    BY HonestNext
  <1>3. IInv /\ HonestInv => HonestEndsVerify
    BY HonestVerify
  <1> QED
    BY <1>1, <1>2, <1>3, AlwaysGenuine, PTL DEF Spec
=============================================================================
