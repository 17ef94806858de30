--------------------------- MODULE MCFetchProgress ---------------------------
(***************************************************************************)
(* Instances of FetchProgress: a manifest with a config and a layer.       *)
(***************************************************************************)
EXTENDS FetchProgress

CONSTANTS manifest, config, layer

Lists == [b \in Blob |-> IF b = manifest THEN {config, layer} ELSE {}]

\* The empty config of artifacts is often there, sometimes everything.
Before == {{}, {config}, Blob}
=============================================================================
