------------------------------ MODULE MCApply -------------------------------
(***************************************************************************)
(* Instances of ApplyArtifacts: an image of three layers, and one that     *)
(* ends with the second of them.                                           *)
(***************************************************************************)
EXTENDS ApplyArtifacts

CONSTANTS l1, l2, l3, long, short

LayersDeep == [i \in Image |-> IF i = long THEN <<l1, l2, l3>> ELSE <<l1, l2>>]

ConfigOwn == [i \in Image |-> i]

\* The first client applies the long image, the others the short one.
OneLong == [p \in Client |-> IF p = CHOOSE q \in Client : TRUE THEN long ELSE short]
=============================================================================
