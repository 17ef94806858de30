--------------------------- MODULE SnapshotStore ---------------------------
(***************************************************************************)
(* The containerd daemon as the client code of this repository uses it:    *)
(* the snapshotter (Stat, Prepare, Commit, Remove), the leases, the        *)
(* container records, the labels of the content store that the garbage     *)
(* collector follows, and the collector itself.  The daemon is not part    *)
(* of the repository; its operations are modelled from the calls in        *)
(* aritfact/ and cmd/rcl/ and from the vendored client library.            *)
(*                                                                         *)
(* A chain ID is a digest of a list of layer digests.  It is modelled by   *)
(* the list itself: two snapshots have the same name exactly when they are *)
(* meant to hold the same layers in the same order.                        *)
(***************************************************************************)
EXTENDS Naturals, SequencesExt

CONSTANTS
    Client,      \* the invocations of the client program
    Image,       \* the references that can be run
    Digest,      \* the layer digests
    Layers,      \* the layers of the manifest of each image, base first
    Config,      \* the digests of the config blobs
    ConfigOf,    \* the config blob each manifest names
    Unique,      \* the values uniquePart can return
    ContainerID, \* the container IDs given on the command line
    Torn         \* stands for the files of a layer that was applied in part

ASSUME StoreAssumption ==
    /\ Layers \in [Image -> Seq(Digest) \ {<<>>}]
    /\ ConfigOf \in [Image -> Config]
    /\ Torn \notin Digest
    /\ Unique # {}

VARIABLES
    committed,    \* chain ID -> the layers its committed snapshot holds
    active,       \* extraction key -> its active snapshot
    rw,           \* container ID -> the writable snapshot prepared for it
    records,      \* container ID -> the image its container was created for
    gcref,        \* config digest -> the chain its gc.ref.snapshot label names
    uncompressed, \* the layers whose blob has the uncompressed label
    leases,       \* the clients whose lease exists
    leased        \* client -> the chains its lease names

store == <<committed, active, rw, records, gcref, uncompressed, leases, leased>>

-----------------------------------------------------------------------------
(* Chains and partial functions.                                           *)

Parent(c) == Front(c)

\* The chain IDs that the images can have, those of the lower layers included.
Chain == UNION {{SubSeq(Layers[i], 1, n) : n \in 1..Len(Layers[i])} : i \in Image}

Key == [unique : Unique, chain : Chain]

IsPartial(f, S, T) == DOMAIN f \subseteq S /\ f \in [DOMAIN f -> T]

Put(f, x, v) == [y \in DOMAIN f \cup {x} |-> IF y = x THEN v ELSE f[y]]

Without(f, x) == Restrict(f, DOMAIN f \ {x})

StoreTypeOK ==
    /\ IsPartial(committed, Chain, Seq(Digest \cup {Torn}))
    /\ IsPartial(active, Key, [tree : Seq(Digest \cup {Torn}), lessee : Client])
    /\ IsPartial(rw, ContainerID, [parent : Chain, lessee : Client])
    /\ IsPartial(records, ContainerID, Image)
    /\ IsPartial(gcref, Config, Chain)
    /\ uncompressed \subseteq Digest
    /\ leases \subseteq Client
    /\ leased \in [Client -> SUBSET Chain]

StoreInit ==
    /\ committed = <<>>
    /\ active = <<>>
    /\ rw = <<>>
    /\ records = <<>>
    /\ gcref = <<>>
    /\ uncompressed = {}
    /\ leases = {}
    /\ leased = [p \in Client |-> {}]

-----------------------------------------------------------------------------
(* The snapshotter.                                                        *)

\* Stat of a chain ID; the empty name stands for "no parent" in Prepare.
Present(c) == c = <<>> \/ c \in DOMAIN committed

\* Prepare an extraction snapshot on the committed snapshot of the lower
\* layers.  The key is added to the lease the caller's context carries.
PrepareKey(k, p) ==
    LET lower == Parent(k.chain)
    IN  /\ active' = Put(active, k, [tree   |-> IF lower = <<>> THEN <<>> ELSE committed[lower],
                                     lessee |-> p])
        /\ UNCHANGED <<committed, rw, records, gcref, uncompressed, leases, leased>>

\* The files of an active snapshot change through its mounts.
WriteKey(k, t) ==
    /\ active' = [active EXCEPT ![k].tree = t]
    /\ UNCHANGED <<committed, rw, records, gcref, uncompressed, leases, leased>>

\* Commit renames an active snapshot: the key is gone, the chain ID is there
\* with the files of the key, and the lease names the chain ID instead.
CommitKey(k, p) ==
    /\ committed' = Put(committed, k.chain, active[k].tree)
    /\ active' = Without(active, k)
    /\ leased' = [leased EXCEPT ![p] = @ \cup {k.chain}]
    /\ UNCHANGED <<rw, records, gcref, uncompressed, leases>>

\* Remove by name: whoever prepared the snapshot.
RemoveActive(k) ==
    /\ active' = Without(active, k)
    /\ UNCHANGED <<committed, rw, records, gcref, uncompressed, leases, leased>>

\* Prepare of the writable snapshot of a container.
PrepareRootfs(id, c, p) ==
    /\ rw' = Put(rw, id, [parent |-> c, lessee |-> p])
    /\ UNCHANGED <<committed, active, records, gcref, uncompressed, leases, leased>>

-----------------------------------------------------------------------------
(* Container records, labels and leases.                                   *)

AddRecord(id, i) ==
    /\ records' = Put(records, id, i)
    /\ UNCHANGED <<committed, active, rw, gcref, uncompressed, leases, leased>>

\* The label replaces the one the config blob had.
SetGCRef(g, c) ==
    /\ gcref' = Put(gcref, g, c)
    /\ UNCHANGED <<committed, active, rw, records, uncompressed, leases, leased>>

\* Mutated: the label is not written.
SetUncompressed_Dropped(d) == UNCHANGED store

SetUncompressed(d) ==
    /\ uncompressed' = uncompressed \cup {d}
    /\ UNCHANGED <<committed, active, rw, records, gcref, leases, leased>>

\* Mutated: the context carries no lease.
AcquireLease_Lost(p) == UNCHANGED store

AcquireLease(p) ==
    /\ leases' = leases \cup {p}
    /\ UNCHANGED <<committed, active, rw, records, gcref, uncompressed, leased>>

DropLease(p) ==
    /\ leases' = leases \ {p}
    /\ leased' = [leased EXCEPT ![p] = {}]
    /\ UNCHANGED <<committed, active, rw, records, gcref, uncompressed>>

-----------------------------------------------------------------------------
(* The garbage collector.  It marks from the leases, the container records *)
(* and the labels of the content store, follows each snapshot to its       *)
(* parents, and removes what it did not mark in one transaction.           *)

\* Mutated: extraction snapshots are roots of the collector themselves.
KeptKeys_Rooted == DOMAIN active

KeptKeys == {k \in DOMAIN active : active[k].lessee \in leases}

KeptRootfs == {id \in DOMAIN rw : id \in DOMAIN records \/ rw[id].lessee \in leases}

KeyBases == {Parent(k.chain) : k \in KeptKeys}

RootfsBases == {rw[id].parent : id \in KeptRootfs}

LeasedChains == UNION {leased[p] : p \in leases}

Pins == {gcref[g] : g \in DOMAIN gcref} \cup LeasedChains \cup KeyBases \cup RootfsBases

\* Mutated: parents are not followed.
KeptChains_Flat == DOMAIN committed \cap Pins

KeptChains == {c \in DOMAIN committed : \E d \in Pins \cap DOMAIN committed : IsPrefix(c, d)}

Garbage ==
    \/ DOMAIN committed # KeptChains
    \/ DOMAIN active # KeptKeys
    \/ DOMAIN rw # KeptRootfs

Collect ==
    /\ Garbage
    /\ committed' = Restrict(committed, KeptChains)
    /\ active' = Restrict(active, KeptKeys)
    /\ rw' = Restrict(rw, KeptRootfs)
    /\ UNCHANGED <<records, gcref, uncompressed, leases, leased>>
=============================================================================
