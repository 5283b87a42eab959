---------------------------- MODULE PeerHandshake ----------------------------
(***************************************************************************)
(* The mutual proof of the two ends over the control channel: the class      *)
(* PeerAuthHandshake at each end, and around it the desktop's channelState   *)
(* handler and peerAuthDelegate (background.ts) and the phone's              *)
(* beginPeerAuth and onControlFrame (receiver-session.ts).                   *)
(*                                                                           *)
(* Signing, verifying and the reading of keys are awaited, so an action is   *)
(* what runs between two awaits, and a handshake outlives its session: its   *)
(* timer and its awaits go on after the session has been replaced, and what  *)
(* it sends goes to the session that is there then.  `crossed' records that  *)
(* this has happened in the session there is.                                *)
(*                                                                           *)
(* A session joins both ends and is over at both ends at once; the channel   *)
(* keeps its order and loses frames only with the session.  Each handshake   *)
(* draws one nonce, which is written as the number of its session; a         *)
(* signature is the session and the nonce it binds (the identities and the   *)
(* role that it binds too are the same on every frame of one direction).     *)
(***************************************************************************)
EXTENDS Naturals, Sequences

CONSTANTS
  MaxSessions,  \* bound: sessions the two ends go through
  Stored        \* the keys that the ends may have stored for each other

Ends == {"desktop", "phone"}
Keys == {"right", "wrong", "none"}

ASSUME SessionsAssumption == MaxSessions \in Nat
ASSUME StoredAssumption == Stored \subseteq [Ends -> Keys]

Peer == [desktop |-> "phone", phone |-> "desktop"]
Sessions == 1..MaxSessions

VARIABLES
  now,      \* the number of the last session
  link,     \* it joins the two ends
  wire,     \* the frames under way to each end
  hs,       \* the handshake that each end has made for each session
  current,  \* each program's variable `handshake': a session, 0 for null
  phase,    \* each program's phase
  knows,    \* the key each end has stored for its peer
  missed,   \* an end has dropped the challenge of this session
  crossed   \* a handshake of an earlier session has acted since this one began

vars == <<now, link, wire, hs, current, phase, knows, missed, crossed>>

Phases == {"signaling", "peer-connected", "authenticating", "active", "reconnecting"}
Proofs == [session : Sessions, nonce : Sessions]
NoProof == [session |-> 0, nonce |-> 0]
Frames == [type : {"challenge", "proof"}, proof : Proofs]

(* `making' until its keys are read, `open' while it has not settled.  A     *)
(* handshake signs as soon as it knows the peer's nonce (myProofSent).  A    *)
(* check is a verification under way: of a proof as its frame arrived, or    *)
(* once more by maybeProve, which throws the answer away.                    *)
States == {"none", "making", "open", "verified", "failed", "timedOut"}
Checks == [sig : Proofs, by : {"frame", "maybeProve"}]
Handshakes ==
  [st : States,
   peerNonce : Sessions \cup {0},
   signing : BOOLEAN,
   peerProofSig : Proofs \cup {NoProof},
   checks : SUBSET Checks,
   peerProofVerified : BOOLEAN]
NoHandshake ==
  [st |-> "none", peerNonce |-> 0, signing |-> FALSE, peerProofSig |-> NoProof,
   checks |-> {}, peerProofVerified |-> FALSE]

Init ==
  /\ now = 0 /\ link = FALSE
  /\ wire = [e \in Ends |-> <<>>]
  /\ hs = [e \in Ends |-> [s \in Sessions |-> NoHandshake]]
  /\ current = [e \in Ends |-> 0]
  /\ phase = [e \in Ends |-> "signaling"]
  /\ knows \in Stored
  /\ missed = FALSE /\ crossed = FALSE
-----------------------------------------------------------------------------
(* sendLaptopFrame, sendControlFrame: to the session there is, if any.       *)
Sends(e, type, s, n) ==
  wire' = IF link
          THEN [wire EXCEPT ![Peer[e]] =
                  Append(@, [type |-> type, proof |-> [session |-> s, nonce |-> n]])]
          ELSE wire

Shows(e, p) == phase' = [phase EXCEPT ![e] = p]
Acts(s) == crossed' = (crossed \/ s # now \/ ~link)
Updates(e, s, h) == hs' = [hs EXCEPT ![e][s] = h]

(* The session ends.  teardownSession forgets the handshake, as does the     *)
(* phone's cleanup; handleSocketLost does not.                               *)
(* mutant: a session torn down while it is active keeps its phase *)
PhaseWithoutLate(e) == IF phase[e] = "active" THEN "active" ELSE "reconnecting"
PhaseWithout(e) == IF e = "desktop" THEN "signaling" ELSE "reconnecting"
HangsUp(forgets) ==
  /\ link' = FALSE
  /\ wire' = [e \in Ends |-> <<>>]
  /\ current' = [e \in Ends |-> IF e \in forgets THEN 0 ELSE current[e]]
  /\ phase' = [e \in Ends |-> PhaseWithout(e)]
  /\ UNCHANGED <<now, knows, missed>>
-----------------------------------------------------------------------------
Connected ==
  /\ ~link /\ now < MaxSessions
  /\ now' = now + 1 /\ link' = TRUE /\ missed' = FALSE
  /\ phase' = [e \in Ends |-> "peer-connected"]
  /\ crossed' = FALSE
  /\ UNCHANGED <<wire, hs, current, knows>>

Lost == link /\ HangsUp({"desktop"}) /\ UNCHANGED <<hs, crossed>>

(* The desktop's transport reports `connected' again after a disturbance.    *)
Reconnected ==
  /\ link /\ phase["desktop"] \in {"authenticating", "active"}
  /\ Shows("desktop", "peer-connected")
  /\ UNCHANGED <<now, link, wire, hs, current, knows, missed, crossed>>

(* The control channel opens: the keys are read.                             *)
ControlOpen(e) ==
  /\ link /\ hs[e][now].st = "none"
  /\ e = "desktop" => phase[e] = "peer-connected"
  /\ Updates(e, now, [NoHandshake EXCEPT !.st = "making"])
  /\ IF e = "desktop" THEN Shows(e, "authenticating") ELSE UNCHANGED phase
  /\ UNCHANGED <<now, link, wire, current, knows, missed, crossed>>

(* The keys are there: new PeerAuthHandshake, start.                         *)
start(e, s) ==
  /\ hs[e][s].st = "making" /\ knows[e] # "none"
  /\ Updates(e, s, [hs[e][s] EXCEPT !.st = "open"])
  /\ current' = [current EXCEPT ![e] = s]
  /\ Sends(e, "challenge", s, s)
  /\ IF e = "phone" THEN Shows(e, "authenticating") ELSE UNCHANGED phase
  /\ Acts(s)
  /\ UNCHANGED <<now, link, knows, missed>>

(* The peer is not paired (any more): the session is over.                   *)
NotPaired(e, s) ==
  /\ hs[e][s].st = "making" /\ knows[e] = "none"
  /\ Updates(e, s, [hs[e][s] EXCEPT !.st = "failed"])
  /\ HangsUp({"desktop", e}) /\ Acts(s)
-----------------------------------------------------------------------------
(* Frames, given to whatever `handshake' is.                                 *)

(* mutant: the nonce is cut out of the payload one place too far *)
NonceOffByOne(p) == p.nonce + 1
NonceIn(p) == p.nonce

onChallenge(e, s, p) ==
  /\ IF s # 0 /\ hs[e][s].st = "open" /\ hs[e][s].peerNonce = 0
     THEN /\ Updates(e, s, [hs[e][s] EXCEPT !.peerNonce = NonceIn(p), !.signing = TRUE])
          /\ Acts(s)
     ELSE UNCHANGED <<hs, crossed>>
  /\ missed' = (missed \/ s # now)
  /\ UNCHANGED phase

(* A proof that comes before the peer's challenge fails the handshake; one   *)
(* for a settled handshake is reported as failed.                            *)
ProofRefused(e, s) ==
  /\ hs[e][s].st # "open" \/ hs[e][s].peerNonce = 0
  /\ Updates(e, s, IF hs[e][s].st = "open" THEN [hs[e][s] EXCEPT !.st = "failed"] ELSE hs[e][s])
  /\ IF e = "phone" THEN Shows(e, "reconnecting") ELSE UNCHANGED phase

ProofChecked(e, s, p) ==
  /\ hs[e][s].st = "open" /\ hs[e][s].peerNonce # 0
  /\ Updates(e, s, [hs[e][s] EXCEPT !.peerProofSig = p,
                                    !.checks = @ \cup {[sig |-> p, by |-> "frame"]}])
  /\ UNCHANGED phase

onProof(e, s, p) ==
  /\ IF s = 0
     THEN UNCHANGED <<hs, phase, crossed>>
     ELSE (ProofRefused(e, s) \/ ProofChecked(e, s, p)) /\ Acts(s)
  /\ UNCHANGED missed

Deliver(e) ==
  /\ wire[e] # <<>>
  /\ wire' = [wire EXCEPT ![e] = Tail(@)]
  /\ LET f == Head(wire[e])
     IN IF f.type = "challenge" THEN onChallenge(e, current[e], f.proof)
                                ELSE onProof(e, current[e], f.proof)
  /\ UNCHANGED <<now, link, current, knows>>
-----------------------------------------------------------------------------
(* What the handshake has awaited.                                           *)

(* myProofSent is set before the signature is made.                          *)
(* mutant: it is set once the proof has been sent *)
myProofSentLate(h) == h.peerNonce # 0 /\ ~h.signing
myProofSent(h) == h.peerNonce # 0

(* maybeProve goes on: the proof is sent, whatever has happened meanwhile; a *)
(* proof of the peer that is still unverified is verified once more.         *)
maybeProve(e, s) ==
  /\ hs[e][s].signing
  /\ Sends(e, "proof", s, hs[e][s].peerNonce)
  /\ LET h == hs[e][s]
         again == h.peerProofSig # NoProof /\ ~h.peerProofVerified /\ h.st = "open"
     IN Updates(e, s, [h EXCEPT !.signing = FALSE,
                                !.checks = IF again
                                           THEN @ \cup {[sig |-> h.peerProofSig, by |-> "maybeProve"]}
                                           ELSE @])
  /\ Acts(s)
  /\ UNCHANGED <<now, link, current, phase, knows, missed>>

(* mutant: the transcript leaves the session out *)
SessionlessVerifies(e, s, p) == knows[e] = "right" /\ p.nonce = s
Verifies(e, s, p) == knows[e] = "right" /\ p.session = s /\ p.nonce = s

ProofFails(e, s, c) ==
  /\ ~Verifies(e, s, c.sig)
  /\ Updates(e, s, [hs[e][s] EXCEPT !.checks = @ \ {c}, !.st = IF @ = "open" THEN "failed" ELSE @])
  /\ IF e = "phone" /\ c.by = "frame" THEN Shows(e, "reconnecting") ELSE UNCHANGED phase
  /\ UNCHANGED current

(* maybeSettle.  onPeerVerified asks for the phase, not for the session.     *)
PhaseVerified(e) ==
  IF e = "desktop" /\ phase[e] # "authenticating" THEN phase[e] ELSE "active"

ProofVerifies(e, s, c) ==
  /\ Verifies(e, s, c.sig)
  /\ LET h == hs[e][s]
     IN Updates(e, s, [h EXCEPT
          !.checks = @ \ {c}, !.peerProofVerified = TRUE,
          !.st = IF @ = "open" /\ myProofSent(h) THEN "verified" ELSE @])
  /\ IF c.by = "frame" /\ myProofSent(hs[e][s])
     THEN /\ Shows(e, PhaseVerified(e))
          /\ current' = IF e = "desktop" THEN [current EXCEPT ![e] = 0] ELSE current
     ELSE UNCHANGED <<phase, current>>

verifyPeer(e, s) ==
  /\ \E c \in hs[e][s].checks : ProofFails(e, s, c) \/ ProofVerifies(e, s, c)
  /\ Acts(s)
  /\ UNCHANGED <<now, link, wire, knows, missed>>

(* The ten seconds are over.  The desktop tears down the session it has now; *)
(* the phone only says that it reconnects.                                   *)
onTimeout(e, s) ==
  /\ hs[e][s].st = "open"
  /\ Updates(e, s, [hs[e][s] EXCEPT !.st = "timedOut"])
  /\ IF e = "desktop"
     THEN HangsUp({"desktop"})
     ELSE /\ Shows(e, "reconnecting")
          /\ UNCHANGED <<now, link, wire, current, knows, missed>>
  /\ Acts(s)
-----------------------------------------------------------------------------
Steps(e, s) == start(e, s) \/ NotPaired(e, s) \/ maybeProve(e, s) \/ verifyPeer(e, s) \/ onTimeout(e, s)

Next ==
  \/ Connected \/ Lost \/ Reconnected
  \/ \E e \in Ends :
       \/ ControlOpen(e) \/ Deliver(e)
       \/ \E s \in Sessions : Steps(e, s)

Spec == Init /\ [][Next]_vars
-----------------------------------------------------------------------------
(* Properties                                                                *)

TypeOK ==
  /\ now \in Sessions \cup {0} /\ link \in BOOLEAN
  /\ wire \in [Ends -> Seq(Frames)]
  /\ hs \in [Ends -> [Sessions -> Handshakes]]
  /\ current \in [Ends -> Sessions \cup {0}]
  /\ phase \in [Ends -> Phases]
  /\ knows \in [Ends -> Keys]
  /\ missed \in BOOLEAN /\ crossed \in BOOLEAN

(* An end that counts as active is in a session, and has verified its peer   *)
(* in this very session.  The only way around it is a handshake of an earlier *)
(* session (a verification that ends late makes the new session active, or   *)
(* the phone active in none).                                                *)
ControlIsFresh ==
  \A e \in Ends : phase[e] = "active" => crossed \/ (link /\ hs[e][now].peerProofVerified)

(* Two ends that know each other's keys are never left waiting for a timer:  *)
(* once nothing is under way in a session, both have verified, whatever the  *)
(* order in which channels open, keys are read, frames arrive and signatures *)
(* are made.  Undisturbed names what is asked of the session: its channel is *)
(* there, no challenge came before the handshake existed and was dropped     *)
(* (missed), no handshake of an earlier session has acted in it (crossed),   *)
(* and each end has made its handshake, which has not timed out.             *)
Quiet ==
  \A e \in Ends :
    /\ wire[e] = <<>>
    /\ \A s \in Sessions : hs[e][s].st # "making" /\ ~hs[e][s].signing /\ hs[e][s].checks = {}
Undisturbed ==
  /\ link /\ ~missed /\ ~crossed
  /\ \A e \in Ends : knows[e] = "right" /\ hs[e][now].st \notin {"none", "timedOut"}
HonestEndsVerify ==
  Undisturbed /\ Quiet => \A e \in Ends : hs[e][now].st = "verified"

(* The detailed handshake keeps the promise of MutualAuth: an end has signed *)
(* once it knows the peer's nonce.                                           *)
Abstract == INSTANCE MutualAuth WITH
  NoNonce <- 0,
  trusts <- [e \in Ends |-> knows[e] = "right"],
  answered <- [e \in Ends |-> [s \in Sessions |-> hs[e][s].peerNonce]],
  accepted <- [e \in Ends |-> [s \in Sessions |-> hs[e][s].peerProofVerified]]
AuthIsMutual == Abstract!ASpec
=============================================================================
