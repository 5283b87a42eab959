------------------------- MODULE MCSignalingServer -------------------------
(* Small instances of SignalingServer: one desktop and two phones that        *)
(* connect a few times each.                                                  *)
EXTENDS SignalingServer, TLC

CONSTANTS desk, phoneA, phoneB

Hello(role, devs) == {[role |-> role, dev |-> d] : d \in devs}
OneDesktopTwoPhones == Hello("desktop", {desk}) \cup Hello("phone", {phoneA, phoneB})
OneDesktopOnePhone == Hello("desktop", {desk}) \cup Hello("phone", {phoneA})
OneDesktop == Hello("desktop", {desk})

(* Connection, pairing and session ids and keys are interchangeable.          *)
Symmetry ==
  Permutations(Conns) \cup Permutations(PairIds) \cup Permutations(SessionIds) \cup Permutations(Keys)

(* No step reads what the step before it sent.                                *)
WithoutOut == stored
=============================================================================
