--------------------------- MODULE ApplyArtifacts ---------------------------
(***************************************************************************)
(* ApplyArtifactsWithOpts and applyArtifacts of aritfact/artifact.go with  *)
(* all the layers of an image in one call.  Only the top layer is looked   *)
(* up; the lower ones are found missing when Prepare says so, and are      *)
(* applied by a recursive call, top down.                                  *)
(*                                                                         *)
(* `depth` is the frame that runs: the recursive call for the layers 1 to  *)
(* depth.  The frames above it wait in their loop.  A caller holds a lease *)
(* during the call.                                                        *)
(***************************************************************************)
EXTENDS SnapshotStore

CONSTANTS
    ImageOf,     \* client -> the image it applies
    MaxFaults    \* bound: how many calls fail and how many clients die

ASSUME ApplyAssumption ==
    /\ ImageOf \in [Client -> Image]
    /\ MaxFaults \in Nat

VARIABLES
    pc,      \* client -> the step it takes next
    depth,   \* client -> the frame that runs
    retried, \* client -> the frames whose `artifacts` is nil
    unique,  \* client -> the unique part of `key` in each frame
    err,     \* client -> `err` of the frame, then of the call
    faults   \* the faults so far

caller == <<pc, depth, retried, unique, err>>
vars == <<store, caller, faults>>

-----------------------------------------------------------------------------

Top(p) == Len(Layers[ImageOf[p]])

ChainAt(p, n) == SubSeq(Layers[ImageOf[p]], 1, n)

ChainID(p) == ChainAt(p, depth[p])

KeyOf(p) == [unique |-> unique[p], chain |-> ChainID(p)]

Frames == {"prepare", "apply", "applying", "commit", "cleanup", "return"}
HoldsKey == {"apply", "applying", "commit", "cleanup"}
InCall == {"stat", "returned"} \cup Frames
Ended == {"done", "crashed"}

ApplyTypeOK ==
    /\ StoreTypeOK
    /\ pc \in [Client -> {"start"} \cup InCall \cup Ended]
    /\ depth \in [Client -> Nat] /\ retried \in [Client -> SUBSET Nat]
    /\ \A p \in Client : depth[p] \in 0..Top(p) /\ retried[p] \subseteq 1..Top(p)
    /\ unique \in [Client -> Unique]
    /\ err \in [Client -> {"nil", "AlreadyExists", "NotFound", "failed"}]
    /\ faults \in 0..MaxFaults

Init ==
    /\ StoreInit
    /\ pc = [p \in Client |-> "start"]
    /\ depth = [p \in Client |-> 0]
    /\ retried = [p \in Client |-> {}]
    /\ unique = [p \in Client |-> CHOOSE u \in Unique : TRUE]
    /\ err = [p \in Client |-> "nil"]
    /\ faults = 0

-----------------------------------------------------------------------------

Goto(p, step) == pc' = [pc EXCEPT ![p] = step]

Fail(p, e, step) == err' = [err EXCEPT ![p] = e] /\ Goto(p, step)

Fault == faults < MaxFaults /\ faults' = faults + 1

Start(p) ==
    /\ pc[p] = "start"
    /\ AcquireLease(p)
    /\ Goto(p, "stat")
    /\ UNCHANGED <<depth, retried, unique, err, faults>>

\* Just the top layer.
StatTop(p) ==
    /\ pc[p] = "stat"
    /\ \/ /\ Present(ChainAt(p, Top(p)))
          /\ Goto(p, "return")
          /\ UNCHANGED depth
       \/ /\ ~ Present(ChainAt(p, Top(p)))
          /\ depth' = [depth EXCEPT ![p] = Top(p)]
          /\ Goto(p, "prepare")
    /\ UNCHANGED <<store, retried, unique, err, faults>>

PrepareFrame(p) ==
    /\ pc[p] = "prepare"
    /\ Present(Parent(ChainID(p)))
    /\ \E u \in Unique :
          /\ [unique |-> u, chain |-> ChainID(p)] \notin DOMAIN active
          /\ PrepareKey([unique |-> u, chain |-> ChainID(p)], p)
          /\ unique' = [unique EXCEPT ![p] = u]
    /\ Goto(p, "apply")
    /\ UNCHANGED <<depth, retried, err, faults>>

\* Mutated: only the layer that was asked for is applied.
MayRecurse_Never(p) == FALSE

\* `len(artifacts) > 1`, which a second failure does not satisfy: the frame
\* has set `artifacts` to nil.
MayRecurse(p) == depth[p] > 1 /\ depth[p] \notin retried[p]

\* The parent is not there: the call for the lower layers, once per frame.
Recurse(p) ==
    /\ pc[p] = "prepare"
    /\ ~ Present(Parent(ChainID(p)))
    /\ \/ /\ MayRecurse(p)
          /\ depth' = [depth EXCEPT ![p] = @ - 1]
          /\ UNCHANGED <<pc, err>>
       \/ /\ ~ MayRecurse(p)
          /\ Fail(p, "NotFound", "return")
          /\ UNCHANGED depth
    /\ UNCHANGED <<store, retried, unique, faults>>

ApplyBegin(p) ==
    /\ pc[p] = "apply"
    /\ WriteKey(KeyOf(p), Append(active[KeyOf(p)].tree, Torn))
    /\ Goto(p, "applying")
    /\ UNCHANGED <<depth, retried, unique, err, faults>>

\* Mutated: the layer is the one of the outer frame.
Layer_OffByOne(p) == Layers[ImageOf[p]][IF depth[p] < Top(p) THEN depth[p] + 1 ELSE depth[p]]

\* The last of the artifacts the frame was called with.
Layer(p) == Layers[ImageOf[p]][depth[p]]

ApplyEnd(p) ==
    /\ pc[p] = "applying"
    /\ WriteKey(KeyOf(p), Append(Front(active[KeyOf(p)].tree), Layer(p)))
    /\ Goto(p, "commit")
    /\ UNCHANGED <<depth, retried, unique, err, faults>>

CommitFrame(p) ==
    /\ pc[p] = "commit"
    /\ \/ /\ Present(ChainID(p))
          /\ Fail(p, "AlreadyExists", "cleanup")
          /\ UNCHANGED store
       \/ /\ ~ Present(ChainID(p))
          /\ CommitKey(KeyOf(p), p)
          /\ Goto(p, "return")
          /\ UNCHANGED err
    /\ UNCHANGED <<depth, retried, unique, faults>>

RemoveKey(p) ==
    /\ pc[p] = "cleanup"
    /\ \/ RemoveActive(KeyOf(p)) /\ UNCHANGED faults
       \/ UNCHANGED store /\ Fault
    /\ Goto(p, "return")
    /\ UNCHANGED <<depth, retried, unique, err>>

\* Mutated: the error of the lower layers is not looked at.
Survives_Any(p) == TRUE

\* A frame, and the call itself, takes AlreadyExists for success.
Survives(p) == err[p] \in {"nil", "AlreadyExists"}

\* Mutated: the frame goes on where it should return.
Caller_Same(p) == depth[p]

\* The frame that made the recursive call.
Caller(p) == depth[p] + 1

\* The frame returns to the one that called it, which tries Prepare again
\* and will not recurse another time, or returns the error in its turn.
ReturnFrame(p) ==
    /\ pc[p] = "return"
    /\ 0 < depth[p] /\ depth[p] < Top(p)
    /\ Survives(p)
    /\ depth' = [depth EXCEPT ![p] = Caller(p)]
    /\ retried' = [retried EXCEPT ![p] = @ \cup {Caller(p)}]
    /\ Fail(p, "nil", "prepare")
    /\ UNCHANGED <<store, unique, faults>>

\* The end of the call.
ReturnCall(p) ==
    /\ pc[p] = "return"
    /\ depth[p] \in {0, Top(p)} \/ ~ Survives(p)
    /\ err' = [err EXCEPT ![p] = IF Survives(p) THEN "nil" ELSE @]
    /\ Goto(p, "returned")
    /\ UNCHANGED <<store, depth, retried, unique, faults>>

\* The caller is done with the chain and releases its lease.
Finish(p) ==
    /\ pc[p] = "returned"
    /\ Goto(p, "done")
    /\ DropLease(p)
    /\ UNCHANGED <<depth, retried, unique, err, faults>>

CallFails(p) ==
    /\ pc[p] \in {"stat", "prepare", "apply", "applying", "commit"}
    /\ Fault
    /\ Fail(p, "failed", IF pc[p] \in HoldsKey THEN "cleanup" ELSE "return")
    /\ UNCHANGED <<store, depth, retried, unique>>

Crash(p) ==
    /\ pc[p] \in InCall
    /\ Fault
    /\ Goto(p, "crashed")
    /\ UNCHANGED <<store, depth, retried, unique, err>>

Expire(p) ==
    /\ pc[p] = "crashed"
    /\ p \in leases
    /\ DropLease(p)
    /\ UNCHANGED <<caller, faults>>

CollectGarbage == Collect /\ UNCHANGED <<caller, faults>>

Quiet ==
    /\ \A p \in Client : pc[p] \in Ended
    /\ UNCHANGED vars

Step(p) ==
    \/ StatTop(p) \/ PrepareFrame(p) \/ Recurse(p) \/ ApplyBegin(p) \/ ApplyEnd(p)
    \/ CommitFrame(p) \/ RemoveKey(p) \/ ReturnFrame(p) \/ ReturnCall(p)
    \/ Finish(p)

Next ==
    \/ \E p \in Client : Start(p) \/ Step(p) \/ CallFails(p) \/ Crash(p) \/ Expire(p)
    \/ CollectGarbage
    \/ Quiet

Spec == Init /\ [][Next]_vars

\* A caller that runs takes its next step, and the daemon collects now and
\* then: it may do so between any two steps.
FairSpec ==
    /\ Spec
    /\ \A p \in Client : WF_vars(Step(p)) /\ WF_vars(Expire(p))
    /\ WF_vars(CollectGarbage)

-----------------------------------------------------------------------------
(* Safety.                                                                 *)

\* "Calling prepare on upper layers first guarantees that upper layers are
\* not removed" (artifact.go:36): what a snapshot stands on stays while it
\* is extracted and after.
ParentsPresent ==
    /\ \A c \in DOMAIN committed : Present(Parent(c))
    /\ \A k \in DOMAIN active : Present(Parent(k.chain))

\* The frame that runs has the extraction snapshot it prepared.
KeyKept ==
    \A p \in Client : pc[p] \in HoldsKey =>
        KeyOf(p) \in DOMAIN active /\ active[KeyOf(p)].lessee = p

\* A call is under its lease, and a frame runs for at least one layer.
InFrame ==
    \A p \in Client :
        /\ pc[p] \in InCall => p \in leases
        /\ pc[p] \in {"start", "stat"} => depth[p] = 0
        /\ pc[p] \in HoldsKey \cup {"prepare"} => depth[p] \in 1..Top(p)

\* What the extraction snapshot of a frame holds at each of its steps.
KeyHolds ==
    \A p \in Client :
        /\ pc[p] = "apply" => active[KeyOf(p)].tree = Parent(ChainID(p))
        /\ pc[p] = "applying" => active[KeyOf(p)].tree = Append(Parent(ChainID(p)), Torn)
        /\ pc[p] = "commit" => active[KeyOf(p)].tree = ChainID(p)

\* Every chain that was committed holds its own layers, and somebody who lives
\* has it in its lease, until a caller ends.
SomeoneEnded == \E q \in Client : pc[q] \in Ended

CommittedHeld ==
    /\ \A c \in DOMAIN committed : committed[c] = c
    /\ \/ SomeoneEnded
       \/ \A c \in DOMAIN committed : \E q \in leases : c \in leased[q]

\* What a frame or a call has found or committed is there, until a caller ends.
FoundHere(p) ==
    /\ \A n \in retried[p] : Present(ChainAt(p, n - 1))
    /\ pc[p] = "return" /\ Survives(p) =>
          Present(ChainAt(p, IF depth[p] = 0 THEN Top(p) ELSE depth[p]))
    /\ pc[p] = "cleanup" /\ Survives(p) => Present(ChainID(p))
    /\ pc[p] = "returned" /\ err[p] = "nil" => Present(ChainAt(p, Top(p)))

\* While the callers hold their leases they exclude each other by the keys they
\* draw: what a frame extracts, and what that stands on, is there (artifact.go:91,
\* the key with its random part), the frame commits it complete on its own
\* chain, and what it found stays found.
ApplyInv ==
    /\ ApplyTypeOK
    /\ ParentsPresent
    /\ KeyKept
    /\ InFrame
    /\ KeyHolds
    /\ CommittedHeld
    /\ SomeoneEnded \/ \A p \in Client : FoundHere(p)
    /\ records = <<>>

\* A lower layer can be gone when a frame tries Prepare for the second time
\* only if a client that had committed it is out of the way.
NotFoundOnlyAfterEnd ==
    \A p \in Client : err[p] = "NotFound" =>
        \E q \in Client \ {p} : pc[q] \in Ended

\* A call that returns success leaves the whole chain behind, whoever applied
\* its layers, as long as they are still there to hold their leases.
SuccessMeansPresent ==
    \A p \in Client : pc[p] = "returned" /\ err[p] = "nil" =>
        \/ Present(ChainAt(p, Top(p)))
        \/ \E q \in Client \ {p} : pc[q] \in Ended

-----------------------------------------------------------------------------
(* Liveness and refinement.                                                *)

\* Every call ends: the recursion reaches the base and comes back, and a
\* frame whose lower layers are collected again gives up.
Terminates == \A p \in Client : pc[p] \in InCall ~> pc[p] \in Ended

\* Nothing that was extracted stays behind when the callers are gone: no
\* extraction snapshot of any frame, and no chain nobody labelled.
LeftoversCollected ==
    (\A p \in Client : pc[p] # "start") ~>
        [](DOMAIN active = {} /\ DOMAIN committed = {} /\ leases = {})

Store == INSTANCE ChainStore WITH Chains <- Chain, content <- committed, root <- records

\* Top down or bottom up, layers are published one whole chain at a time: each
\* is committed on its own chain, the recursion and its return never mix up the
\* frames, and nothing partial is published.
ImplementsChainStore == Store!Spec
=============================================================================
