------------------------- MODULE MCInputPipeline -------------------------
(* Instances of InputPipeline for TLC. *)
EXTENDS InputPipeline, TLC

CONSTANTS t1, t2

TouchSymmetry == Permutations({t1, t2})
=============================================================================
