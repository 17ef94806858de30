---------------------------- MODULE MCLifecycle -----------------------------
(* Instances of Lifecycle; the .cfg files give the sets of commands.       *)
EXTENDS Lifecycle
=============================================================================
