----------------------------- MODULE MutualAuth -----------------------------
(***************************************************************************)
(* What peer authentication promises (docs/CONTROL_PROTOCOL.md, "Peer        *)
(* authentication", and the head of peer-handshake.ts): an end accepts a     *)
(* session only once its peer has, in that very session, signed the nonce    *)
(* that this end drew for it, and only by the key it has stored for that     *)
(* peer.  An end signs one nonce in a session and takes nothing back.        *)
(***************************************************************************)
CONSTANTS Ends, Peer, Sessions, NoNonce

VARIABLES
  trusts,    \* whether the key that an end has stored is its peer's key
  answered,  \* the nonce that an end has signed in each session
  accepted   \* the sessions in which an end believes its peer

avars == <<trusts, answered, accepted>>

AInit ==
  /\ trusts \in [Ends -> BOOLEAN]
  /\ answered = [e \in Ends |-> [s \in Sessions |-> NoNonce]]
  /\ accepted = [e \in Ends |-> [s \in Sessions |-> FALSE]]

(* The nonce an end draws in a session carries the number of that session.   *)
Answer(e, s) ==
  /\ answered[e][s] = NoNonce
  /\ \E n \in Sessions : answered' = [answered EXCEPT ![e][s] = n]
  /\ UNCHANGED <<trusts, accepted>>

Accept(e, s) ==
  /\ trusts[e] /\ answered[Peer[e]][s] = s
  /\ accepted' = [accepted EXCEPT ![e][s] = TRUE]
  /\ UNCHANGED <<trusts, answered>>

ANext == \E e \in Ends, s \in Sessions : Answer(e, s) \/ Accept(e, s)

ASpec == AInit /\ [][ANext]_avars
=============================================================================
