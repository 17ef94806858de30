------------------------------ MODULE MCUnpack ------------------------------
(***************************************************************************)
(* Instances of Unpack.  Two images share their base layer; a third one    *)
(* has a single layer.                                                     *)
(***************************************************************************)
EXTENDS Unpack

CONSTANTS base, app, tool, imgApp, imgTool, imgBase

\* Two images on a common base layer.
LayersShared == [i \in Image |-> IF i = imgTool THEN <<base, tool>> ELSE <<base, app>>]

\* An image and its lower part.
LayersPart == [i \in Image |-> IF i = imgBase THEN <<base>> ELSE <<base, app>>]

\* Every image has a config blob of its own.
ConfigOwn == [i \in Image |-> i]

\* All the artifacts name the same config blob, the empty one.
ConfigShared == [i \in Image |-> CHOOSE g \in Config : TRUE]
=============================================================================
