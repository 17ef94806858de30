----------------------------- MODULE ChainStore -----------------------------
(***************************************************************************)
(* What unpacking promises to whoever runs containers.  An unpacked chain  *)
(* of layers is there as a whole or not at all, it appears on top of its   *)
(* lower layers, a container can only be created on an unpacked image, and *)
(* what a container stands on is not reclaimed.  Extraction, its failures  *)
(* and the clients that race for it are not visible.                       *)
(***************************************************************************)
EXTENDS Naturals, SequencesExt

CONSTANTS Chains, ContainerID

VARIABLES
    content, \* unpacked chain -> the layers found in its snapshot
    root     \* container ID -> the chain its root file system stands on

With(f, x, v) == [y \in DOMAIN f \cup {x} |-> IF y = x THEN v ELSE f[y]]

Ready(c) == c \in DOMAIN content

Init == content = <<>> /\ root = <<>>

\* A chain becomes visible, complete.
Publish(c) ==
    /\ ~ Ready(c)
    /\ Front(c) = <<>> \/ Ready(Front(c))
    /\ content' = With(content, c, c)
    /\ UNCHANGED root

Create(id, c) ==
    /\ id \notin DOMAIN root
    /\ Ready(c)
    /\ root' = With(root, id, c)
    /\ UNCHANGED content

\* Any set of chains may go that no container and no other chain stands on.
Reclaim(keep) ==
    /\ \A c \in keep : Front(c) = <<>> \/ Front(c) \in keep
    /\ \A id \in DOMAIN root : root[id] \in keep
    /\ content' = Restrict(content, keep)
    /\ UNCHANGED root

Next ==
    \/ \E c \in Chains : Publish(c) \/ \E id \in ContainerID : Create(id, c)
    \/ \E keep \in SUBSET DOMAIN content : Reclaim(keep)

Spec == Init /\ [][Next]_<<content, root>>
=============================================================================
