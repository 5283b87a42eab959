-------------------------- MODULE MCPeerHandshake --------------------------
(* Instances of PeerHandshake for TLC: two ends that know each other, a phone *)
(* with a wrong key, and each end without a key of the other.                 *)
EXTENDS PeerHandshake

BothRight == [e \in Ends |-> "right"]
StoredKeys ==
  {BothRight, [BothRight EXCEPT !["phone"] = "wrong"]}
    \cup {[BothRight EXCEPT ![e] = "none"] : e \in Ends}
=============================================================================
