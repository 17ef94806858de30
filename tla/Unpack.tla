------------------------------- MODULE Unpack -------------------------------
(***************************************************************************)
(* Concurrent invocations of `rcl run`, from the lease to the container    *)
(* record: RunOptions.Run (cmd/rcl/commands/run.go), NewContainer          *)
(* (run_unix.go), image.IsUnpacked and image.Unpack (aritfact/image.go)    *)
(* and ApplyArtifactWithOpts with applyArtifacts for one layer             *)
(* (aritfact/artifact.go), against the daemon of SnapshotStore.            *)
(*                                                                         *)
(* An invocation runs once.  It may die between any two steps, a call may  *)
(* fail, and a call may take effect while its caller sees an error.        *)
(***************************************************************************)
EXTENDS SnapshotStore

CONSTANTS
    FaultKinds,  \* which of the kinds below may happen
    MaxFaults    \* bound: how many faults a behaviour has

ASSUME FaultAssumption ==
    /\ FaultKinds \subseteq {"crash", "fail", "lost_reply", "lost_commit"}
    /\ MaxFaults \in Nat

VARIABLES
    opts,   \* client -> its RunOptions: the reference and the container ID
    pc,     \* client -> the step it takes next
    chain,  \* client -> `chain` of Unpack, the layers that are in place
    unique, \* client -> the unique part of `key` in applyArtifacts
    err,    \* client -> why it stopped
    faults  \* the faults so far

client == <<opts, pc, chain, unique, err>>
vars == <<store, client, faults>>

InUnpack == {"stat", "prepare", "apply", "applying", "commit", "cleanup",
             "label_layer", "label_config"}
HoldsKey == {"apply", "applying", "commit", "cleanup"}
Running == InUnpack \cup {"is_unpacked", "new_snapshot", "create", "release"}
Ended == {"done", "crashed"}

UnpackTypeOK ==
    /\ StoreTypeOK
    /\ opts \in [Client -> [image : Image, id : ContainerID]]
    /\ pc \in [Client -> {"start"} \cup Running \cup Ended]
    /\ chain \in [Client -> Chain \cup {<<>>}]
    /\ unique \in [Client -> Unique]
    /\ err \in [Client -> {"none", "missing", "exists", "failed"}]
    /\ faults \in 0..MaxFaults

Init ==
    /\ StoreInit
    /\ opts \in [Client -> [image : Image, id : ContainerID]]
    /\ pc = [p \in Client |-> "start"]
    /\ chain = [p \in Client |-> <<>>]
    /\ unique = [p \in Client |-> CHOOSE u \in Unique : TRUE]
    /\ err = [p \in Client |-> "none"]
    /\ faults = 0

-----------------------------------------------------------------------------
(* What the client is working on.                                          *)

\* RootFS: the layer digests of the manifest stand for the diff IDs.
RootFS(p) == Layers[opts[p].image]

Layer(p) == RootFS(p)[Len(chain[p]) + 1]

ChainID(p) == Append(chain[p], Layer(p))

KeyOf(p) == [unique |-> unique[p], chain |-> ChainID(p)]

-----------------------------------------------------------------------------
(* How a step ends.                                                        *)

Goto(p, step) == pc' = [pc EXCEPT ![p] = step]

Fault(kind) ==
    /\ kind \in FaultKinds
    /\ faults < MaxFaults
    /\ faults' = faults + 1

Succeed(p, step) == Goto(p, step) /\ UNCHANGED <<err, faults>>

Fail(p, e, step) ==
    /\ Goto(p, step)
    /\ err' = [err EXCEPT ![p] = e]
    /\ UNCHANGED faults

\* The call took effect: the client goes on, or the reply is an error.
Return(p, step, kind, onError) ==
    \/ Succeed(p, step)
    \/ /\ Fault(kind)
       /\ Goto(p, onError)
       /\ err' = [err EXCEPT ![p] = "failed"]

\* The end of an iteration of the loop over the layers (image.go:236).
NextLayer(p) ==
    /\ chain' = [chain EXCEPT ![p] = ChainID(p)]
    /\ pc' = [pc EXCEPT ![p] = IF ChainID(p) = RootFS(p) THEN "label_config" ELSE "stat"]

-----------------------------------------------------------------------------
(* The steps.                                                              *)

\* run.go:104: the lease is in the context of every later call, so neither
\* Unpack nor client.NewContainer takes another one.
Start(p) ==
    /\ pc[p] = "start"
    /\ AcquireLease(p)
    /\ Succeed(p, "is_unpacked")
    /\ UNCHANGED <<opts, chain, unique>>

IsUnpacked(p) ==
    /\ pc[p] = "is_unpacked"
    /\ Succeed(p, IF Present(RootFS(p)) THEN "new_snapshot" ELSE "stat")
    /\ UNCHANGED <<store, opts, chain, unique>>

\* ApplyArtifactWithOpts: a layer that is there is not applied.
StatLayer(p) ==
    /\ pc[p] = "stat"
    /\ \/ /\ Present(ChainID(p))
          /\ NextLayer(p)
       \/ /\ ~ Present(ChainID(p))
          /\ Goto(p, "prepare")
          /\ UNCHANGED chain
    /\ UNCHANGED <<store, opts, unique, err, faults>>

\* applyArtifacts with one artifact.  A key that exists makes the loop draw
\* another one; a parent that is gone ends the run, before the deferred
\* Remove is in place.
PrepareLayer(p) ==
    /\ pc[p] = "prepare"
    /\ \E u \in Unique :
          LET k == [unique |-> u, chain |-> ChainID(p)]
          IN  /\ k \notin DOMAIN active
              /\ \/ /\ ~ Present(Parent(k.chain))
                    /\ Fail(p, "missing", "release")
                    /\ UNCHANGED <<store, unique>>
                 \/ /\ Present(Parent(k.chain))
                    /\ PrepareKey(k, p)
                    /\ unique' = [unique EXCEPT ![p] = u]
                    /\ Return(p, "apply", "lost_reply", "release")
    /\ UNCHANGED <<opts, chain>>

\* a.Apply writes the layer through the mounts of the extraction snapshot.
\* Should the snapshot have been removed, the files go nowhere.
ApplyBegin(p) ==
    /\ pc[p] = "apply"
    /\ \/ /\ KeyOf(p) \in DOMAIN active
          /\ WriteKey(KeyOf(p), Append(active[KeyOf(p)].tree, Torn))
       \/ /\ KeyOf(p) \notin DOMAIN active
          /\ UNCHANGED store
    /\ Succeed(p, "applying")
    /\ UNCHANGED <<opts, chain, unique>>

\* Apply returns the digest it was asked to apply, so the comparison at
\* artifact.go:133 always holds.
ApplyEnd(p) ==
    /\ pc[p] = "applying"
    /\ \/ /\ KeyOf(p) \in DOMAIN active
          /\ WriteKey(KeyOf(p), Append(Front(active[KeyOf(p)].tree), Layer(p)))
       \/ /\ KeyOf(p) \notin DOMAIN active
          /\ UNCHANGED store
    /\ Succeed(p, "commit")
    /\ UNCHANGED <<opts, chain, unique>>

\* Mutated: the caller reports the lost race as an error.
LoseCommit_Reported(p) ==
    /\ KeyOf(p) \in DOMAIN active
    /\ Present(ChainID(p))
    /\ Fail(p, "exists", "cleanup")
    /\ UNCHANGED store

\* Mutated: the lost race is answered with another attempt.
LoseCommit_Retried(p) ==
    /\ KeyOf(p) \in DOMAIN active
    /\ Present(ChainID(p))
    /\ Succeed(p, "prepare")
    /\ RemoveActive(KeyOf(p))

\* Another client has committed the chain in the meantime: the deferred
\* function removes the key, and the caller takes the layer as applied.
LoseCommit(p) ==
    /\ KeyOf(p) \in DOMAIN active
    /\ Present(ChainID(p))
    /\ Succeed(p, "cleanup")
    /\ UNCHANGED store

CommitLayer(p) ==
    /\ pc[p] = "commit"
    /\ \/ /\ KeyOf(p) \notin DOMAIN active
          /\ Fail(p, "failed", "cleanup")
          /\ UNCHANGED store
       \/ LoseCommit(p)
       \/ /\ KeyOf(p) \in DOMAIN active
          /\ ~ Present(ChainID(p))
          /\ CommitKey(KeyOf(p), p)
          /\ Return(p, "label_layer", "lost_commit", "cleanup")
    /\ UNCHANGED <<opts, chain, unique>>

\* The deferred Remove.  A Remove that fails is logged and nothing more.
RemoveKey(p) ==
    /\ pc[p] = "cleanup"
    /\ \/ /\ RemoveActive(KeyOf(p))
          /\ UNCHANGED faults
       \/ /\ Fault("fail")
          /\ UNCHANGED store
    /\ \/ /\ err[p] = "none"
          /\ NextLayer(p)
       \/ /\ err[p] # "none"
          /\ Goto(p, "release")
          /\ UNCHANGED chain
    /\ UNCHANGED <<opts, unique, err>>

LabelLayer(p) ==
    /\ pc[p] = "label_layer"
    /\ SetUncompressed(Layer(p))
    /\ \/ /\ NextLayer(p)
          /\ UNCHANGED <<err, faults>>
       \/ /\ Fault("lost_reply")
          /\ Goto(p, "release")
          /\ err' = [err EXCEPT ![p] = "failed"]
          /\ UNCHANGED chain
    /\ UNCHANGED <<opts, unique>>

LabelConfig(p) ==
    /\ pc[p] = "label_config"
    /\ SetGCRef(ConfigOf[opts[p].image], chain[p])
    /\ Return(p, "new_snapshot", "lost_reply", "release")
    /\ UNCHANGED <<opts, chain, unique>>

\* WithNewSnapshot(runOpts.ID, image).
NewSnapshot(p) ==
    /\ pc[p] = "new_snapshot"
    /\ LET id == opts[p].id
       IN  \/ /\ id \in DOMAIN rw
              /\ Fail(p, "exists", "release")
              /\ UNCHANGED store
           \/ /\ id \notin DOMAIN rw
              /\ ~ Present(RootFS(p))
              /\ Fail(p, "missing", "release")
              /\ UNCHANGED store
           \/ /\ id \notin DOMAIN rw
              /\ Present(RootFS(p))
              /\ PrepareRootfs(id, RootFS(p), p)
              /\ Return(p, "create", "lost_reply", "release")
    /\ UNCHANGED <<opts, chain, unique>>

\* ContainerService().Create at the end of client.NewContainer.
CreateRecord(p) ==
    /\ pc[p] = "create"
    /\ \/ /\ opts[p].id \in DOMAIN records
          /\ Fail(p, "exists", "release")
          /\ UNCHANGED store
       \/ /\ opts[p].id \notin DOMAIN records
          /\ AddRecord(opts[p].id, opts[p].image)
          /\ Return(p, "release", "lost_reply", "release")
    /\ UNCHANGED <<opts, chain, unique>>

\* The deferred done(ctx) of Run.
Release(p) ==
    /\ pc[p] = "release"
    /\ \/ /\ DropLease(p)
          /\ UNCHANGED faults
       \/ /\ Fault("fail")
          /\ UNCHANGED store
    /\ Goto(p, "done")
    /\ UNCHANGED <<opts, chain, unique, err>>

-----------------------------------------------------------------------------
(* Faults and the daemon.                                                  *)

\* Mutated: the error of a call is lost in a shadowed `err`.
GiveUp_Shadowed(p) ==
    /\ Goto(p, IF pc[p] = "applying" THEN "commit" ELSE "release")
    /\ UNCHANGED err

\* The return statement runs the defers that are in place.
GiveUp(p) ==
    /\ Goto(p, IF pc[p] \in HoldsKey THEN "cleanup" ELSE "release")
    /\ err' = [err EXCEPT ![p] = "failed"]

\* A call fails without effect, or Apply fails with a layer in part.
CallFails(p) ==
    /\ pc[p] \in Running \ {"cleanup", "release"}
    /\ Fault("fail")
    /\ GiveUp(p)
    /\ UNCHANGED <<store, opts, chain, unique>>

Crash(p) ==
    /\ pc[p] \in Running
    /\ Fault("crash")
    /\ Goto(p, "crashed")
    /\ UNCHANGED <<store, opts, chain, unique, err>>

\* A lease expires 24 hours after it was taken: a client that still runs is
\* assumed to be quicker.
Expire(p) ==
    /\ pc[p] \in Ended
    /\ p \in leases
    /\ DropLease(p)
    /\ UNCHANGED <<client, faults>>

CollectGarbage == Collect /\ UNCHANGED <<client, faults>>

\* Every client has ended and nothing is left to collect.
Quiet ==
    /\ \A p \in Client : pc[p] \in Ended
    /\ UNCHANGED vars

Step(p) ==
    \/ IsUnpacked(p) \/ StatLayer(p) \/ PrepareLayer(p)
    \/ ApplyBegin(p) \/ ApplyEnd(p) \/ CommitLayer(p) \/ RemoveKey(p)
    \/ LabelLayer(p) \/ LabelConfig(p) \/ NewSnapshot(p) \/ CreateRecord(p)
    \/ Release(p)

Next ==
    \/ \E p \in Client : Start(p) \/ Step(p) \/ CallFails(p) \/ Crash(p) \/ Expire(p)
    \/ CollectGarbage
    \/ Quiet

Spec == Init /\ [][Next]_vars

\* A client that runs takes its next step, a lease expires, and the daemon
\* collects.  Nobody has to start a client, and nothing has to fail.
Fairness ==
    /\ \A p \in Client : WF_vars(Step(p)) /\ WF_vars(Expire(p))
    /\ WF_vars(CollectGarbage)

FairSpec == Spec /\ Fairness

-----------------------------------------------------------------------------
(* Safety.                                                                 *)

\* A snapshot that Stat finds under a chain ID holds all the layers of that
\* chain, each whole and in order: no peer, error or crash publishes a layer
\* that was applied in part (artifact.go:116-141).
CommittedComplete == \A c \in DOMAIN committed : committed[c] = c

\* The lower layers of a committed chain, of an extraction snapshot and of a
\* container's root file system are there: the collector never takes a layer
\* from under the snapshots that are built on it.
ParentsPresent ==
    /\ \A c \in DOMAIN committed : Present(Parent(c))
    /\ \A k \in DOMAIN active : Present(Parent(k.chain))
    /\ \A id \in DOMAIN rw : Present(rw[id].parent)

\* A container that was created has a writable snapshot, its parent is the
\* image its run named, and that image is unpacked: whatever the other runs
\* do, under the same ID or with layers in common.
RootfsIntact ==
    \A id \in DOMAIN records :
        /\ id \in DOMAIN rw
        /\ rw[id].parent = Layers[records[id]]
        /\ rw[id].parent \in DOMAIN committed

\* Between Prepare and the end of applyArtifacts nobody else removes the
\* extraction snapshot or takes its key.
KeyKept ==
    \A p \in Client : pc[p] \in HoldsKey =>
        KeyOf(p) \in DOMAIN active /\ active[KeyOf(p)].lessee = p

Troubled(p) == pc[p] = "crashed" \/ err[p] \in {"failed", "missing"}

\* A manifest with other layers names the same config blob, and so the label
\* of the one replaces the label of the other.
Relabels(q, p) ==
    /\ ConfigOf[opts[q].image] = ConfigOf[opts[p].image]
    /\ RootFS(q) # RootFS(p)

\* A layer that Stat has found, or that a peer committed first, is not in
\* the lease of the client that relies on it.  It is nevertheless there when
\* the client prepares on it, unless a peer failed or overwrote the label: a
\* peer that succeeds has set the gc.ref label before it releases its lease.
MissingOnlyAfterTrouble ==
    \A p \in Client : err[p] = "missing" =>
        \E q \in Client \ {p} : Troubled(q) \/ \E r \in Client : Relabels(q, r)

\* A chain was committed by a client that has set, or is about to set, the
\* uncompressed label of its top layer, or that failed: who finds the layer
\* present never sets it (image.go:222).
LayersLabelled ==
    \A c \in DOMAIN committed :
        \/ Last(c) \in uncompressed
        \/ \E p \in Client : pc[p] = "label_layer" /\ ChainID(p) = c
        \/ \E p \in Client : Troubled(p)

\* The condition under which the proofs of UnpackProofs say what is published:
\* Prepare hands out no key under which another client still writes
\* (uniquePart, and the retry on AlreadyExists at artifact.go:98).  It follows
\* when no Commit takes effect under an error.  With such a Commit, a Remove by
\* name can free a key that a third client then draws: two clients are too few
\* to break it, so no run states it.
Writing == {"apply", "applying", "commit"}

DrawsFresh ==
    \A k \in DOMAIN active' \ DOMAIN active :
        \A p \in Client : pc[p] \in Writing => KeyOf(p) # k

FreshKeys == [][DrawsFresh]_vars

-----------------------------------------------------------------------------
(* The inductive invariant behind the properties above (UnpackProofs).     *)

\* A client that runs has its lease.
LeaseHeld == \A p \in Client : pc[p] \in Running => p \in leases

\* `chain` holds the layers of the image from the base up, short of the one
\* that is being worked on.
ChainGrows ==
    \A p \in Client :
        /\ chain[p] = SubSeq(RootFS(p), 1, Len(chain[p]))
        /\ Len(chain[p]) <= Len(RootFS(p))
        /\ pc[p] \in InUnpack \ {"label_config"} => Len(chain[p]) < Len(RootFS(p))
        /\ pc[p] \in {"start", "is_unpacked"} => chain[p] = <<>>
        /\ pc[p] = "label_config" => chain[p] = RootFS(p)

\* The writable snapshot is there when the record is created.
RootfsPrepared ==
    \A p \in Client : pc[p] = "create" =>
        /\ opts[p].id \in DOMAIN rw
        /\ rw[opts[p].id] = [parent |-> RootFS(p), lessee |-> p]

\* What stands on what, whatever the snapshots hold.
Structure ==
    /\ UnpackTypeOK
    /\ LeaseHeld
    /\ ChainGrows
    /\ ParentsPresent
    /\ RootfsPrepared
    /\ RootfsIntact

\* What the extraction snapshot of a client holds at each step, unless
\* somebody has removed it.
KeyHolds ==
    \A p \in Client : pc[p] \in Writing /\ KeyOf(p) \in DOMAIN active =>
        /\ active[KeyOf(p)].lessee = p
        /\ pc[p] = "apply" => active[KeyOf(p)].tree = chain[p]
        /\ pc[p] = "applying" => active[KeyOf(p)].tree = Append(chain[p], Torn)
        /\ pc[p] = "commit" => active[KeyOf(p)].tree = ChainID(p)

\* The whole invariant.
Inv == Structure /\ KeyHolds /\ CommittedComplete

-----------------------------------------------------------------------------
(* Liveness.                                                               *)

\* Every invocation ends.
Terminates == \A p \in Client : pc[p] \in Running ~> pc[p] \in Ended

\* When no call fails, every run ends with a container of its ID, even when
\* its layers are unpacked by a peer at the same time: the loser of the race
\* for a commit is not an error, and does not wait for ever.
RunSucceeds ==
    \A p \in Client :
        pc[p] = "is_unpacked" ~>
            \/ opts[p].id \in DOMAIN records
            \/ \E q \in Client : Troubled(q)

\* What dead or failed clients leave behind goes away: in the end there are
\* no extraction snapshots, no leases, and no writable snapshots without a
\* container.
LeftoversCollected ==
    (\A p \in Client : pc[p] # "start") ~>
        []( /\ DOMAIN active = {}
            /\ leases = {}
            /\ DOMAIN rw = DOMAIN records )

-----------------------------------------------------------------------------
(* Refinement.                                                             *)

Root == [id \in DOMAIN records |-> rw[id].parent]

Store == INSTANCE ChainStore WITH Chains <- Chain, content <- committed, root <- Root

\* The races, failures and collections of unpacking are invisible to those
\* who create containers: each step publishes one complete chain, creates one
\* container on a chain that is there, reclaims chains nobody stands on, or
\* changes nothing they see.
ImplementsChainStore == Store!Spec
=============================================================================
