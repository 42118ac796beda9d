---------------------------- MODULE MCCoordinator ----------------------------
(* Coordinator with three control connections of two keys: a node, another     *)
(* node, and the first one again (a reconnection, or a second copy).          *)
EXTENDS Coordinator, TLC

CONSTANTS s1, s2, s3, k1, k2
MCKeyOf == [s \in Sessions |-> IF s = s2 THEN k2 ELSE k1]
Twins == Permutations({s1, s3})
=============================================================================
