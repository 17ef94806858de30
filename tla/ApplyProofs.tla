----------------------------- MODULE ApplyProofs ----------------------------
(***************************************************************************)
(* Proofs about ApplyArtifacts for any number of clients, images and       *)
(* layers, and any number of faults.                                       *)
(***************************************************************************)
EXTENDS ApplyArtifacts, StoreProofs, TLAPS

-----------------------------------------------------------------------------
(* The frame that runs.                                                    *)

LEMMA FrameChains ==
    ASSUME ApplyTypeOK, NEW p \in Client
    PROVE  /\ Top(p) \in Nat \ {0}
           /\ Layers[ImageOf[p]] \in Seq(Digest)
           /\ ChainAt(p, 0) = <<>>
           /\ \A n \in 1..Top(p) :
                 /\ ChainAt(p, n) \in Chain
                 /\ ChainAt(p, n) \in Seq(Digest)
                 /\ ChainAt(p, n) # <<>>
                 /\ Parent(ChainAt(p, n)) = ChainAt(p, n - 1)
                 /\ ChainAt(p, n) = Append(ChainAt(p, n - 1), Layers[ImageOf[p]][n])
                 /\ Layers[ImageOf[p]][n] \in Digest
  <1> DEFINE L == Layers[ImageOf[p]]
  <1>1. ImageOf[p] \in Image
    BY ApplyAssumption
  <1>2. L \in Seq(Digest) /\ L # <<>>
    BY <1>1, StoreAssumption
  <1>3. Top(p) \in Nat \ {0} /\ ChainAt(p, 0) = <<>>
    BY <1>2 DEF Top, ChainAt
  <1>4. ASSUME NEW n \in 1..Top(p)
        PROVE  /\ ChainAt(p, n) \in Chain
               /\ ChainAt(p, n) \in Seq(Digest)
               /\ ChainAt(p, n) # <<>>
               /\ Parent(ChainAt(p, n)) = ChainAt(p, n - 1)
               /\ ChainAt(p, n) = Append(ChainAt(p, n - 1), L[n])
               /\ L[n] \in Digest
    <2>1. /\ ChainAt(p, n) \in Chain
          /\ ChainAt(p, n) \in Seq(Digest)
          /\ ChainAt(p, n) = Append(ChainAt(p, n - 1), L[n])
          /\ L[n] \in Digest
      BY <1>1, <1>4, ImageChains DEF ChainAt, Top
    <2>2. ChainAt(p, n - 1) \in Seq(Digest)
      BY <1>2 DEF ChainAt, Top
    <2> QED
      BY <2>1, <2>2, FrontAppend DEF Parent
  <1> QED
    BY <1>2, <1>3, <1>4

\* The frame that holds a key.
LEMMA KeyOfFrame ==
    ASSUME ApplyTypeOK, KeyKept, InFrame, NEW p \in Client, pc[p] \in HoldsKey
    PROVE  /\ KeyOf(p) \in DOMAIN active
           /\ KeyOf(p) \in Key
           /\ active[KeyOf(p)] \in [tree : Seq(Digest \cup {Torn}), lessee : Client]
           /\ active[KeyOf(p)].lessee = p
           /\ \A q \in Client \ {p} : pc[q] \in HoldsKey => KeyOf(q) # KeyOf(p)
           /\ depth[p] \in 1..Top(p)
           /\ KeyOf(p).chain = ChainID(p)
           /\ ChainID(p) \in Chain
  <1>1. depth[p] \in 1..Top(p) /\ ChainID(p) \in Chain
    BY FrameChains DEF InFrame, ChainID
  <1>2. KeyOf(p) \in Key /\ KeyOf(p).chain = ChainID(p)
    BY <1>1 DEF KeyOf, Key, ApplyTypeOK
  <1>3. KeyOf(p) \in DOMAIN active /\ active[KeyOf(p)].lessee = p
    BY DEF KeyKept
  <1>4. active[KeyOf(p)] \in [tree : Seq(Digest \cup {Torn}), lessee : Client]
    BY <1>3 DEF ApplyTypeOK, StoreTypeOK, IsPartial
  <1>5. \A q \in Client \ {p} : pc[q] \in HoldsKey => KeyOf(q) # KeyOf(p)
    BY <1>3 DEF KeyKept
  <1> QED
    BY <1>1, <1>2, <1>3, <1>4, <1>5

\* The step of a client leaves the variables of the other callers alone.
OnlyStep(p) ==
    \A q \in Client \ {p} :
        /\ pc'[q] = pc[q] /\ depth'[q] = depth[q] /\ retried'[q] = retried[q]
        /\ unique'[q] = unique[q] /\ err'[q] = err[q]

\* A step that leaves the keys of the other frames alone keeps what they hold.
LEMMA KeysFrame ==
    ASSUME ApplyTypeOK, KeyKept, KeyHolds, NEW p \in Client, OnlyStep(p),
           \A q \in Client \ {p} : pc[q] \in HoldsKey =>
              KeyOf(q) \in DOMAIN active' /\ active'[KeyOf(q)] = active[KeyOf(q)],
           pc'[p] \in HoldsKey =>
              /\ KeyOf(p)' \in DOMAIN active'
              /\ active'[KeyOf(p)'].lessee = p,
           pc'[p] = "apply" => active'[KeyOf(p)'].tree = Parent(ChainID(p)'),
           pc'[p] = "applying" =>
              active'[KeyOf(p)'].tree = Append(Parent(ChainID(p)'), Torn),
           pc'[p] = "commit" => active'[KeyOf(p)'].tree = ChainID(p)'
    PROVE  KeyKept' /\ KeyHolds'
  <1>1. \A q \in Client \ {p} : KeyOf(q)' = KeyOf(q) /\ ChainID(q)' = ChainID(q) /\ pc'[q] = pc[q]
    BY DEF OnlyStep, KeyOf, ChainID
  <1>2. KeyKept'
    <2> SUFFICES ASSUME NEW q \in Client, pc'[q] \in HoldsKey
                 PROVE  KeyOf(q)' \in DOMAIN active' /\ active'[KeyOf(q)'].lessee = q
      BY DEF KeyKept
    <2> QED
      BY <1>1 DEF KeyKept
  <1>3. KeyHolds'
    <2> SUFFICES ASSUME NEW q \in Client
                 PROVE  /\ pc'[q] = "apply" => active'[KeyOf(q)'].tree = Parent(ChainID(q)')
                        /\ pc'[q] = "applying" =>
                              active'[KeyOf(q)'].tree = Append(Parent(ChainID(q)'), Torn)
                        /\ pc'[q] = "commit" => active'[KeyOf(q)'].tree = ChainID(q)'
      BY DEF KeyHolds, Parent
    <2>1. CASE q = p
      BY <2>1
    <2>2. CASE q # p
      BY <1>1, <2>2 DEF KeyHolds, HoldsKey
    <2> QED
      BY <2>1, <2>2
  <1> QED
    BY <1>2, <1>3

\* A step of a caller that has not ended loses none of what the callers rely on.
LEMMA FoundFrame ==
    ASSUME NEW p \in Client, OnlyStep(p), pc[p] \notin Ended,
           SomeoneEnded \/ \A q \in Client : FoundHere(q),
           DOMAIN committed \subseteq DOMAIN committed',
           pc'[p] \in Ended \/ (FoundHere(p) => FoundHere(p)')
    PROVE  /\ SomeoneEnded => SomeoneEnded'
           /\ SomeoneEnded' \/ \A q \in Client : FoundHere(q)'
  <1>1. SomeoneEnded => SomeoneEnded'
    BY DEF SomeoneEnded, OnlyStep
  <1>2. pc'[p] \in Ended => SomeoneEnded'
    BY DEF SomeoneEnded
  <1>3. ASSUME NEW q \in Client \ {p}, FoundHere(q)
        PROVE  FoundHere(q)'
    <2>1. \A c : Present(c) => Present(c)'
      BY DEF Present
    <2>2. \A n : ChainAt(q, n)' = ChainAt(q, n)
      BY DEF ChainAt
    <2>3. /\ pc'[q] = pc[q] /\ depth'[q] = depth[q] /\ retried'[q] = retried[q]
          /\ err'[q] = err[q] /\ Top(q)' = Top(q)
      BY DEF OnlyStep, Top
    <2> QED
      BY <1>3, <2>1, <2>2, <2>3 DEF FoundHere, ChainID, Survives
  <1> QED
    BY <1>1, <1>2, <1>3

LEMMA StoreTypeSame ==
    ASSUME ApplyTypeOK, UNCHANGED store
    PROVE  StoreTypeOK'
  BY DEF ApplyTypeOK, StoreTypeOK, IsPartial, store

\* What a step that leaves the daemon alone has still to show.
LEMMA StoreSame ==
    ASSUME ApplyInv, NEW p \in Client, OnlyStep(p), pc[p] \notin Ended, UNCHANGED store,
           ApplyTypeOK', InFrame',
           pc'[p] \in Ended \/ (FoundHere(p) => FoundHere(p)'),
           pc'[p] \notin HoldsKey
    PROVE  ApplyInv'
  <1> USE DEF store
  <1>1. ParentsPresent' /\ records' = <<>>
    BY DEF ApplyInv, ParentsPresent, Present
  <1>2. KeyKept' /\ KeyHolds'
    <2>1. pc'[p] \notin {"apply", "applying", "commit"}
      BY DEF HoldsKey
    <2> QED
      BY <2>1, KeysFrame DEF ApplyInv, KeyKept
  <1>3. (SomeoneEnded => SomeoneEnded') /\ (SomeoneEnded' \/ \A q \in Client : FoundHere(q)')
    BY FoundFrame DEF ApplyInv
  <1>4. CommittedHeld'
    BY <1>3 DEF ApplyInv, CommittedHeld
  <1> QED
    BY <1>1, <1>2, <1>3, <1>4 DEF ApplyInv

-----------------------------------------------------------------------------
(* Each action preserves the invariant.                                    *)

LEMMA StartInv == ASSUME ApplyInv, NEW p \in Client, Start(p) PROVE ApplyInv'
  <1> USE DEF Start, AcquireLease, Goto
  <1>0. OnlyStep(p) /\ pc[p] \notin Ended /\ pc'[p] = "stat"
    BY DEF OnlyStep, Ended, ApplyInv, ApplyTypeOK
  <1>1. ApplyTypeOK'
    BY DEF ApplyInv, ApplyTypeOK, StoreTypeOK, IsPartial, Top, InCall
  <1>2. ParentsPresent' /\ records' = <<>>
    BY DEF ApplyInv, ParentsPresent, Present
  <1>3. KeyKept' /\ KeyHolds'
    <2>1. pc'[p] \notin HoldsKey
      BY <1>0 DEF HoldsKey
    <2> QED
      BY <1>0, <2>1, KeysFrame DEF ApplyInv, KeyKept
  <1>4. InFrame'
    BY <1>0 DEF ApplyInv, ApplyTypeOK, InFrame, InCall, HoldsKey, Top
  <1>5. (SomeoneEnded => SomeoneEnded') /\ (SomeoneEnded' \/ \A q \in Client : FoundHere(q)')
    <2>1. FoundHere(p) => FoundHere(p)'
      BY <1>0 DEF FoundHere, Present, ChainAt
    <2> QED
      BY <1>0, <2>1, FoundFrame DEF ApplyInv
  <1>6. CommittedHeld'
    BY <1>5 DEF ApplyInv, CommittedHeld
  <1> QED
    BY <1>1, <1>2, <1>3, <1>4, <1>5, <1>6 DEF ApplyInv

LEMMA StatTopInv == ASSUME ApplyInv, NEW p \in Client, StatTop(p) PROVE ApplyInv'
  <1> USE DEF StatTop, Goto
  <1>0. OnlyStep(p) /\ pc[p] \notin Ended /\ pc'[p] \notin HoldsKey
    BY DEF OnlyStep, Ended, HoldsKey, ApplyInv, ApplyTypeOK
  <1>1. Top(p) \in Nat \ {0}
    BY FrameChains DEF ApplyInv
  <1>2. ApplyTypeOK'
    <2>1. pc' \in [Client -> {"start"} \cup InCall \cup Ended]
      BY DEF ApplyInv, ApplyTypeOK, InCall, Frames
    <2>2. depth' = depth \/ depth' = [depth EXCEPT ![p] = Top(p)]
      OBVIOUS
    <2>3. depth' \in [Client -> Nat] /\ \A q \in Client : depth'[q] \in 0..Top(q)
      <3>1. depth \in [Client -> Nat] /\ \A q \in Client : depth[q] \in 0..Top(q)
        BY DEF ApplyInv, ApplyTypeOK
      <3>2. CASE depth' = depth
        BY <3>1, <3>2
      <3>3. CASE depth' = [depth EXCEPT ![p] = Top(p)]
        BY <1>1, <3>1, <3>3
      <3> QED
        BY <2>2, <3>2, <3>3
    <2> QED
      BY <2>1, <2>3, StoreTypeSame DEF ApplyInv, ApplyTypeOK, Top
  <1>3. InFrame'
    <2>1. \A q \in Client \ {p} : pc'[q] = pc[q] /\ depth'[q] = depth[q] /\ Top(q)' = Top(q)
      BY <1>0 DEF OnlyStep, Top
    <2>2. p \in leases
      BY DEF ApplyInv, InFrame, InCall
    <2>3. \/ pc'[p] = "return"
          \/ pc'[p] = "prepare" /\ depth'[p] = Top(p)
      BY DEF ApplyInv, ApplyTypeOK
    <2> QED
      BY <1>1, <2>1, <2>2, <2>3 DEF ApplyInv, InFrame, HoldsKey, store, Top
  <1>4. FoundHere(p) => FoundHere(p)'
    <2>1. /\ err' = err /\ retried' = retried /\ committed' = committed
          /\ \A n : ChainAt(p, n)' = ChainAt(p, n)
      BY DEF ChainAt, store
    <2>2. CASE Present(ChainAt(p, Top(p)))
      <3>1. pc'[p] = "return" /\ depth'[p] = 0
        BY <2>2 DEF ApplyInv, ApplyTypeOK, InFrame
      <3> QED
        BY <2>1, <2>2, <3>1 DEF FoundHere, Present, Top
    <2>3. CASE ~ Present(ChainAt(p, Top(p)))
      <3>1. pc'[p] = "prepare"
        BY <2>3 DEF ApplyInv, ApplyTypeOK
      <3> QED
        BY <2>1, <3>1 DEF FoundHere, Present
    <2> QED
      BY <2>2, <2>3
  <1> QED
    BY <1>0, <1>2, <1>3, <1>4, StoreSame

LEMMA PrepareFrameInv == ASSUME ApplyInv, NEW p \in Client, PrepareFrame(p) PROVE ApplyInv'
  <1> USE DEF Goto
  <1>0. PICK u \in Unique :
          /\ [unique |-> u, chain |-> ChainID(p)] \notin DOMAIN active
          /\ PrepareKey([unique |-> u, chain |-> ChainID(p)], p)
          /\ unique' = [unique EXCEPT ![p] = u]
    BY DEF PrepareFrame
  <1>1. /\ pc[p] = "prepare" /\ Present(Parent(ChainID(p)))
        /\ pc' = [pc EXCEPT ![p] = "apply"]
        /\ UNCHANGED <<depth, retried, err, faults>>
    BY DEF PrepareFrame
  <1> DEFINE k == [unique |-> u, chain |-> ChainID(p)]
  <1> DEFINE lower == Parent(ChainID(p))
  <1> DEFINE new == [tree |-> lower, lessee |-> p]
  <1>2. OnlyStep(p) /\ pc[p] \notin Ended /\ pc'[p] = "apply"
    BY <1>0, <1>1 DEF OnlyStep, Ended, ApplyInv, ApplyTypeOK
  <1>3. depth[p] \in 1..Top(p) /\ ChainID(p) \in Chain /\ lower \in Seq(Digest)
    <2>1. depth[p] \in 1..Top(p)
      BY <1>1 DEF ApplyInv, InFrame
    <2>2. <<>> \in Seq(Digest)
      OBVIOUS
    <2> QED
      BY <2>1, <2>2, FrameChains, ChainType DEF ApplyInv, ChainID
  <1>4. k \in Key /\ new \in [tree : Seq(Digest \cup {Torn}), lessee : Client]
    BY <1>3 DEF Key
  <1>5. active' = Put(active, k, new)
    <2>1. lower # <<>> => committed[lower] = lower
      BY <1>1 DEF Present, ApplyInv, CommittedHeld
    <2> QED
      BY <1>0, <2>1 DEF PrepareKey
  <1>6. /\ DOMAIN active' = DOMAIN active \cup {k}
        /\ active'[k] = new
        /\ \A l \in DOMAIN active : active'[l] = active[l]
    BY <1>0, <1>5 DEF Put
  <1>7. UNCHANGED <<committed, rw, records, gcref, uncompressed, leases, leased>>
    BY <1>0 DEF PrepareKey
  <1>8. ApplyTypeOK'
    <2>1. IsPartial(active, Key, [tree : Seq(Digest \cup {Torn}), lessee : Client])'
      BY <1>4, <1>5, PartialPut DEF ApplyInv, ApplyTypeOK, StoreTypeOK
    <2>2. StoreTypeOK'
      BY <1>7, <2>1 DEF ApplyInv, ApplyTypeOK, StoreTypeOK, IsPartial
    <2> QED
      BY <1>0, <1>1, <2>2 DEF ApplyInv, ApplyTypeOK, InCall, Frames, Top
  <1>9. ParentsPresent' /\ records' = <<>>
    BY <1>1, <1>6, <1>7 DEF ApplyInv, ParentsPresent, Present
  <1>10. KeyKept' /\ KeyHolds'
    <2>1. KeyOf(p)' = k /\ ChainID(p)' = ChainID(p)
      BY <1>0, <1>1 DEF KeyOf, ChainID, ChainAt, ApplyInv, ApplyTypeOK
    <2>2. \A q \in Client \ {p} : pc[q] \in HoldsKey =>
             KeyOf(q) \in DOMAIN active' /\ active'[KeyOf(q)] = active[KeyOf(q)]
      BY <1>6 DEF ApplyInv, KeyKept
    <2>3. Parent(ChainID(p)') = lower
      BY <2>1
    <2> QED
      BY <1>2, <1>6, <2>1, <2>2, <2>3, KeysFrame DEF ApplyInv
  <1>11. InFrame'
    BY <1>1, <1>2, <1>3, <1>7 DEF ApplyInv, InFrame, InCall, Frames, Top, HoldsKey, OnlyStep
  <1>12. (SomeoneEnded => SomeoneEnded') /\ (SomeoneEnded' \/ \A q \in Client : FoundHere(q)')
    <2>1. FoundHere(p) => FoundHere(p)'
      BY <1>1, <1>2, <1>7 DEF FoundHere, Present, ChainAt
    <2> QED
      BY <1>2, <1>7, <2>1, FoundFrame DEF ApplyInv
  <1>13. CommittedHeld'
    BY <1>7, <1>12 DEF ApplyInv, CommittedHeld
  <1> QED
    BY <1>8, <1>9, <1>10, <1>11, <1>12, <1>13 DEF ApplyInv

LEMMA RecurseInv == ASSUME ApplyInv, NEW p \in Client, Recurse(p) PROVE ApplyInv'
  <1> USE DEF Recurse, Goto, Fail
  <1>0. OnlyStep(p) /\ pc[p] \notin Ended
    BY DEF OnlyStep, Ended, ApplyInv, ApplyTypeOK
  <1>1. depth[p] \in 1..Top(p) /\ Top(p) \in Nat
    BY FrameChains DEF ApplyInv, InFrame
  <1>2. CASE MayRecurse(p)
    <2>1. /\ pc' = pc /\ err' = err /\ pc[p] = "prepare"
          /\ depth' = [depth EXCEPT ![p] = @ - 1] /\ depth[p] > 1
      BY <1>2 DEF MayRecurse
    <2>2. depth' \in [Client -> Nat] /\ \A q \in Client : depth'[q] \in 0..Top(q)
      BY <1>1, <2>1 DEF ApplyInv, ApplyTypeOK
    <2>3. depth'[p] \in 1..Top(p)
      BY <1>1, <2>1 DEF ApplyInv, ApplyTypeOK
    <2>4. ApplyTypeOK'
      BY <2>1, <2>2, StoreTypeSame DEF ApplyInv, ApplyTypeOK, Top
    <2>5. InFrame'
      BY <1>0, <2>1, <2>3 DEF ApplyInv, InFrame, OnlyStep, store, Top
    <2>6. FoundHere(p) => FoundHere(p)'
      BY <2>1 DEF FoundHere, Present, ChainAt, store
    <2> QED
      BY <1>0, <2>1, <2>4, <2>5, <2>6, StoreSame DEF HoldsKey
  <1>3. CASE ~ MayRecurse(p)
    <2>1. /\ pc' = [pc EXCEPT ![p] = "return"] /\ err' = [err EXCEPT ![p] = "NotFound"]
          /\ depth' = depth /\ pc[p] = "prepare"
      BY <1>3
    <2>2. pc'[p] = "return" /\ err'[p] = "NotFound"
      BY <2>1 DEF ApplyInv, ApplyTypeOK
    <2>4. ApplyTypeOK'
      BY <2>1, StoreTypeSame DEF ApplyInv, ApplyTypeOK, Top, InCall, Frames
    <2>5. InFrame'
      BY <1>0, <2>1, <2>2 DEF ApplyInv, InFrame, OnlyStep, store, Top, HoldsKey, InCall, Frames
    <2>6. FoundHere(p) => FoundHere(p)'
      BY <2>1, <2>2 DEF FoundHere, Present, ChainAt, store, Survives
    <2> QED
      BY <1>0, <2>2, <2>4, <2>5, <2>6, StoreSame DEF HoldsKey
  <1> QED
    BY <1>2, <1>3

\* The files of the extraction snapshot of p change.
LEMMA WriteInv ==
    ASSUME ApplyInv, NEW p \in Client, NEW t \in Seq(Digest \cup {Torn}), NEW step,
           pc[p] \in {"apply", "applying"}, step \in {"applying", "commit"},
           WriteKey(KeyOf(p), t), Goto(p, step),
           UNCHANGED <<depth, retried, unique, err, faults>>,
           step = "applying" => t = Append(Parent(ChainID(p)), Torn),
           step = "commit" => t = ChainID(p)
    PROVE  ApplyInv'
  <1> USE DEF Goto
  <1>0. OnlyStep(p) /\ pc[p] \notin Ended /\ pc[p] \in HoldsKey /\ pc'[p] = step
    BY DEF OnlyStep, Ended, HoldsKey, ApplyInv, ApplyTypeOK
  <1> DEFINE k == KeyOf(p)
  <1>1. /\ k \in DOMAIN active /\ k \in Key
        /\ active[k] \in [tree : Seq(Digest \cup {Torn}), lessee : Client]
        /\ active[k].lessee = p
        /\ \A q \in Client \ {p} : pc[q] \in HoldsKey => KeyOf(q) # k
        /\ depth[p] \in 1..Top(p)
    BY <1>0, KeyOfFrame DEF ApplyInv
  <1>2. /\ active' = [active EXCEPT ![k].tree = t]
        /\ UNCHANGED <<committed, rw, records, gcref, uncompressed, leases, leased>>
    BY DEF WriteKey
  <1>3. active \in [DOMAIN active -> [tree : Seq(Digest \cup {Torn}), lessee : Client]]
    BY DEF ApplyInv, ApplyTypeOK, StoreTypeOK, IsPartial
  <1>4. /\ DOMAIN active' = DOMAIN active
        /\ active'[k].tree = t
        /\ active'[k].lessee = p
        /\ active'[k] \in [tree : Seq(Digest \cup {Torn}), lessee : Client]
        /\ \A l \in DOMAIN active \ {k} : active'[l] = active[l]
    BY <1>1, <1>2, <1>3
  <1>5. ApplyTypeOK'
    <2>1. active' \in [DOMAIN active -> [tree : Seq(Digest \cup {Torn}), lessee : Client]]
      BY <1>2, <1>3, <1>4
    <2>2. IsPartial(active, Key, [tree : Seq(Digest \cup {Torn}), lessee : Client])'
      BY <1>4, <2>1 DEF ApplyInv, ApplyTypeOK, StoreTypeOK, IsPartial
    <2>3. StoreTypeOK'
      BY <1>2, <2>2 DEF ApplyInv, ApplyTypeOK, StoreTypeOK, IsPartial
    <2> QED
      BY <2>3 DEF ApplyInv, ApplyTypeOK, InCall, Frames, Top
  <1>6. ParentsPresent' /\ records' = <<>>
    BY <1>2, <1>4 DEF ApplyInv, ParentsPresent, Present
  <1>7. KeyKept' /\ KeyHolds'
    <2>1. KeyOf(p)' = k /\ ChainID(p)' = ChainID(p)
      BY DEF KeyOf, ChainID, ChainAt
    <2>2. \A q \in Client \ {p} : pc[q] \in HoldsKey =>
             KeyOf(q) \in DOMAIN active' /\ active'[KeyOf(q)] = active[KeyOf(q)]
      BY <1>1, <1>4 DEF ApplyInv, KeyKept
    <2>3. Parent(ChainID(p)') = Parent(ChainID(p))
      BY <2>1
    <2> QED
      BY <1>0, <1>1, <1>4, <2>1, <2>2, <2>3, KeysFrame DEF ApplyInv
  <1>8. InFrame'
    BY <1>0, <1>1, <1>2 DEF ApplyInv, InFrame, InCall, Frames, Top, HoldsKey, OnlyStep
  <1>9. (SomeoneEnded => SomeoneEnded') /\ (SomeoneEnded' \/ \A q \in Client : FoundHere(q)')
    <2>1. FoundHere(p) => FoundHere(p)'
      BY <1>0, <1>2 DEF FoundHere, Present, ChainAt
    <2> QED
      BY <1>0, <1>2, <2>1, FoundFrame DEF ApplyInv
  <1>10. CommittedHeld'
    BY <1>2, <1>9 DEF ApplyInv, CommittedHeld
  <1> QED
    BY <1>5, <1>6, <1>7, <1>8, <1>9, <1>10 DEF ApplyInv

LEMMA ApplyBeginInv == ASSUME ApplyInv, NEW p \in Client, ApplyBegin(p) PROVE ApplyInv'
  <1> DEFINE t == Append(active[KeyOf(p)].tree, Torn)
  <1>1. pc[p] = "apply" /\ WriteKey(KeyOf(p), t) /\ Goto(p, "applying")
    BY DEF ApplyBegin
  <1>2. t = Append(Parent(ChainID(p)), Torn)
    BY <1>1 DEF ApplyInv, KeyHolds
  <1>3. t \in Seq(Digest \cup {Torn})
    <2>1. active[KeyOf(p)].tree \in Seq(Digest \cup {Torn})
      BY <1>1, KeyOfFrame DEF ApplyInv, HoldsKey
    <2> QED
      BY <2>1
  <1> QED
    BY <1>1, <1>2, <1>3, WriteInv DEF ApplyBegin

LEMMA ApplyEndInv == ASSUME ApplyInv, NEW p \in Client, ApplyEnd(p) PROVE ApplyInv'
  <1> DEFINE t == Append(Front(active[KeyOf(p)].tree), Layer(p))
  <1>1. pc[p] = "applying" /\ WriteKey(KeyOf(p), t) /\ Goto(p, "commit")
    BY DEF ApplyEnd
  <1>2. depth[p] \in 1..Top(p)
    BY <1>1 DEF ApplyInv, InFrame, HoldsKey
  <1>3. /\ Parent(ChainID(p)) = ChainAt(p, depth[p] - 1)
        /\ ChainID(p) = Append(Parent(ChainID(p)), Layer(p))
        /\ ChainID(p) \in Seq(Digest)
        /\ Layer(p) \in Digest
    BY <1>2, FrameChains DEF ApplyInv, ChainID, Layer
  <1>4. Parent(ChainID(p)) \in Seq(Digest \cup {Torn})
    BY <1>3 DEF Parent, Front
  <1>5. Front(active[KeyOf(p)].tree) = Parent(ChainID(p))
    <2>1. active[KeyOf(p)].tree = Append(Parent(ChainID(p)), Torn)
      BY <1>1 DEF ApplyInv, KeyHolds
    <2> HIDE DEF t
    <2> QED
      BY <1>4, <2>1, FrontAppend
  <1>6. t = ChainID(p)
    BY <1>3, <1>5
  <1>7. t \in Seq(Digest \cup {Torn})
    BY <1>3, <1>6
  <1>8. UNCHANGED <<depth, retried, unique, err, faults>>
    BY DEF ApplyEnd
  <1> HIDE DEF t
  <1> QED
    BY <1>1, <1>6, <1>7, <1>8, WriteInv

LEMMA CommitFrameInv == ASSUME ApplyInv, NEW p \in Client, CommitFrame(p) PROVE ApplyInv'
  <1> USE DEF Goto, Fail
  <1>0. pc[p] = "commit" /\ OnlyStep(p) /\ pc[p] \notin Ended /\ pc[p] \in HoldsKey
    BY DEF CommitFrame, OnlyStep, Ended, HoldsKey, ApplyInv, ApplyTypeOK
  <1> DEFINE k == KeyOf(p)
  <1> DEFINE c == ChainID(p)
  <1>1. /\ k \in DOMAIN active /\ k \in Key /\ k.chain = c /\ c \in Chain
        /\ \A q \in Client \ {p} : pc[q] \in HoldsKey => KeyOf(q) # k
        /\ depth[p] \in 1..Top(p)
        /\ active[k].tree = c
        /\ p \in leases
        /\ active[k].lessee = p
    BY <1>0, KeyOfFrame DEF ApplyInv, KeyHolds, InFrame, InCall, Frames
  <1>2. CASE Present(c)
    <2>1. /\ pc' = [pc EXCEPT ![p] = "cleanup"] /\ err' = [err EXCEPT ![p] = "AlreadyExists"]
          /\ UNCHANGED <<store, depth, retried, unique, faults>>
      BY <1>2 DEF CommitFrame
    <2>2. pc'[p] = "cleanup" /\ err'[p] = "AlreadyExists"
      BY <2>1 DEF ApplyInv, ApplyTypeOK
    <2>3. ApplyTypeOK'
      BY <2>1, StoreTypeSame DEF ApplyInv, ApplyTypeOK, Top, InCall, Frames
    <2>4. InFrame'
      BY <1>0, <1>1, <2>1, <2>2 DEF ApplyInv, InFrame, OnlyStep, store, Top, HoldsKey, InCall, Frames
    <2>5. ParentsPresent' /\ records' = <<>>
      BY <2>1 DEF ApplyInv, ParentsPresent, Present, store
    <2>6. KeyKept' /\ KeyHolds'
      <3>1. KeyOf(p)' = k
        BY <2>1 DEF KeyOf, ChainID, ChainAt
      <3> QED
        BY <1>0, <1>1, <2>1, <2>2, <3>1, KeysFrame DEF ApplyInv, store, KeyKept
    <2>7. (SomeoneEnded => SomeoneEnded') /\ (SomeoneEnded' \/ \A q \in Client : FoundHere(q)')
      <3>1. FoundHere(p) => FoundHere(p)'
        BY <1>2, <2>1, <2>2 DEF FoundHere, Present, ChainID, ChainAt, store
      <3> QED
        BY <1>0, <2>1, <3>1, FoundFrame DEF ApplyInv, store
    <2>8. CommittedHeld'
      BY <2>1, <2>7 DEF ApplyInv, CommittedHeld, store
    <2> QED
      BY <2>3, <2>4, <2>5, <2>6, <2>7, <2>8 DEF ApplyInv
  <1>3. CASE ~ Present(c)
    <2>1. /\ CommitKey(k, p)
          /\ pc' = [pc EXCEPT ![p] = "return"] /\ err' = err
          /\ UNCHANGED <<depth, retried, unique, faults>>
      BY <1>3 DEF CommitFrame
    <2>2. pc'[p] = "return"
      BY <2>1 DEF ApplyInv, ApplyTypeOK
    <2>3. /\ committed' = Put(committed, c, c)
          /\ active' = Without(active, k)
          /\ leased' = [leased EXCEPT ![p] = @ \cup {c}]
          /\ UNCHANGED <<rw, records, gcref, uncompressed, leases>>
      BY <1>1, <2>1 DEF CommitKey
    <2>4. /\ DOMAIN committed' = DOMAIN committed \cup {c}
          /\ committed'[c] = c
          /\ \A d \in DOMAIN committed \ {c} : committed'[d] = committed[d]
          /\ DOMAIN active' = DOMAIN active \ {k}
          /\ \A l \in DOMAIN active \ {k} : active'[l] = active[l]
      BY <2>3 DEF Put, Without, Restrict
    <2>5. c \in leased'[p] /\ \A q \in Client : leased[q] \subseteq leased'[q]
      BY <2>3 DEF ApplyInv, ApplyTypeOK, StoreTypeOK
    <2>6. ApplyTypeOK'
      <3>1. c \in Seq(Digest \cup {Torn})
        BY <1>1, ChainType
      <3>2. IsPartial(committed, Chain, Seq(Digest \cup {Torn}))'
        BY <1>1, <2>3, <3>1, PartialPut DEF ApplyInv, ApplyTypeOK, StoreTypeOK
      <3>3. IsPartial(active, Key, [tree : Seq(Digest \cup {Torn}), lessee : Client])'
        BY <2>3, PartialRestrict DEF ApplyInv, ApplyTypeOK, StoreTypeOK, Without
      <3>4. leased' \in [Client -> SUBSET Chain]
        BY <1>1, <2>3 DEF ApplyInv, ApplyTypeOK, StoreTypeOK
      <3>5. StoreTypeOK'
        BY <2>3, <3>2, <3>3, <3>4 DEF ApplyInv, ApplyTypeOK, StoreTypeOK, IsPartial
      <3> QED
        BY <2>1, <3>5 DEF ApplyInv, ApplyTypeOK, InCall, Frames, Top
    <2>7. ParentsPresent' /\ records' = <<>>
      <3>1. Present(Parent(c))
        BY <1>1 DEF ApplyInv, ParentsPresent
      <3> QED
        BY <2>3, <2>4, <3>1 DEF ApplyInv, ParentsPresent, Present
    <2>8. KeyKept' /\ KeyHolds'
      <3>1. pc'[p] \notin HoldsKey
        BY <2>2 DEF HoldsKey
      <3>2. \A q \in Client \ {p} : pc[q] \in HoldsKey =>
               KeyOf(q) \in DOMAIN active' /\ active'[KeyOf(q)] = active[KeyOf(q)]
        BY <1>1, <2>4 DEF ApplyInv, KeyKept
      <3> QED
        BY <1>0, <2>2, <3>1, <3>2, KeysFrame DEF ApplyInv
    <2>9. InFrame'
      BY <1>0, <1>1, <2>1, <2>2, <2>3 DEF ApplyInv, InFrame, OnlyStep, Top, HoldsKey, InCall, Frames
    <2>10. (SomeoneEnded => SomeoneEnded') /\ (SomeoneEnded' \/ \A q \in Client : FoundHere(q)')
      <3>1. FoundHere(p) => FoundHere(p)'
        BY <1>1, <2>1, <2>2, <2>4 DEF FoundHere, Present, ChainID, ChainAt
      <3> QED
        BY <1>0, <2>4, <3>1, FoundFrame DEF ApplyInv
    <2>11. CommittedHeld'
      <3>1. \A d \in DOMAIN committed' : committed'[d] = d
        BY <2>4 DEF ApplyInv, CommittedHeld
      <3>2. SomeoneEnded' \/ \A d \in DOMAIN committed' : \E q \in leases' : d \in leased'[q]
        <4>1. leases \subseteq Client
          BY DEF ApplyInv, ApplyTypeOK, StoreTypeOK
        <4> QED
          BY <1>1, <2>3, <2>4, <2>5, <2>10, <4>1 DEF ApplyInv, CommittedHeld
      <3> QED
        BY <3>1, <3>2 DEF CommittedHeld
    <2> QED
      BY <2>6, <2>7, <2>8, <2>9, <2>10, <2>11 DEF ApplyInv
  <1> QED
    BY <1>2, <1>3

LEMMA RemoveKeyInv == ASSUME ApplyInv, NEW p \in Client, RemoveKey(p) PROVE ApplyInv'
  <1> USE DEF Goto
  <1>0. pc[p] = "cleanup" /\ OnlyStep(p) /\ pc[p] \notin Ended /\ pc[p] \in HoldsKey
    BY DEF RemoveKey, OnlyStep, Ended, HoldsKey, ApplyInv, ApplyTypeOK
  <1> DEFINE k == KeyOf(p)
  <1>1. /\ \A q \in Client \ {p} : pc[q] \in HoldsKey => KeyOf(q) # k
        /\ depth[p] \in 1..Top(p)
        /\ p \in leases
    BY <1>0, KeyOfFrame DEF ApplyInv, InFrame, InCall, Frames
  <1>2. /\ pc'[p] = "return" /\ pc' = [pc EXCEPT ![p] = "return"]
        /\ UNCHANGED <<depth, retried, unique, err>>
        /\ faults' \in 0..MaxFaults
    BY ApplyAssumption DEF RemoveKey, Fault, ApplyInv, ApplyTypeOK
  <1>3. /\ UNCHANGED <<committed, rw, records, gcref, uncompressed, leases, leased>>
        /\ active' = Without(active, k) \/ active' = active
    BY DEF RemoveKey, RemoveActive, store
  <1>4. /\ DOMAIN active' \subseteq DOMAIN active
        /\ DOMAIN active \ {k} \subseteq DOMAIN active'
        /\ \A l \in DOMAIN active' : active'[l] = active[l]
    BY <1>3 DEF Without, Restrict
  <1>5. ApplyTypeOK'
    <2>1. IsPartial(active, Key, [tree : Seq(Digest \cup {Torn}), lessee : Client])'
      BY <1>3, PartialRestrict DEF ApplyInv, ApplyTypeOK, StoreTypeOK, Without
    <2>2. StoreTypeOK'
      BY <1>3, <2>1 DEF ApplyInv, ApplyTypeOK, StoreTypeOK, IsPartial
    <2> QED
      BY <1>2, <2>2 DEF ApplyInv, ApplyTypeOK, InCall, Frames, Top
  <1>6. ParentsPresent' /\ records' = <<>>
    BY <1>3, <1>4 DEF ApplyInv, ParentsPresent, Present
  <1>7. KeyKept' /\ KeyHolds'
    <2>1. pc'[p] \notin HoldsKey
      BY <1>2 DEF HoldsKey
    <2>2. \A q \in Client \ {p} : pc[q] \in HoldsKey =>
             KeyOf(q) \in DOMAIN active' /\ active'[KeyOf(q)] = active[KeyOf(q)]
      BY <1>1, <1>4 DEF ApplyInv, KeyKept
    <2> QED
      BY <1>0, <1>2, <2>1, <2>2, KeysFrame DEF ApplyInv
  <1>8. InFrame'
    BY <1>0, <1>1, <1>2, <1>3 DEF ApplyInv, InFrame, OnlyStep, Top, HoldsKey, InCall, Frames
  <1>9. (SomeoneEnded => SomeoneEnded') /\ (SomeoneEnded' \/ \A q \in Client : FoundHere(q)')
    <2>1. FoundHere(p) => FoundHere(p)'
      BY <1>0, <1>1, <1>2, <1>3 DEF FoundHere, Present, ChainID, ChainAt, Survives
    <2> QED
      BY <1>0, <1>3, <2>1, FoundFrame DEF ApplyInv
  <1>10. CommittedHeld'
    BY <1>3, <1>9 DEF ApplyInv, CommittedHeld
  <1> QED
    BY <1>5, <1>6, <1>7, <1>8, <1>9, <1>10 DEF ApplyInv

LEMMA ReturnFrameInv == ASSUME ApplyInv, NEW p \in Client, ReturnFrame(p) PROVE ApplyInv'
  <1> USE DEF Goto, Fail, Caller
  <1>0. OnlyStep(p) /\ pc[p] \notin Ended
    BY DEF ReturnFrame, OnlyStep, Ended, ApplyInv, ApplyTypeOK
  <1>1. /\ pc[p] = "return" /\ Survives(p)
        /\ depth[p] \in Nat /\ 0 < depth[p] /\ depth[p] < Top(p)
        /\ Top(p) \in Nat
    BY FrameChains DEF ReturnFrame, ApplyInv, ApplyTypeOK
  <1>2. /\ depth' = [depth EXCEPT ![p] = depth[p] + 1]
        /\ retried' = [retried EXCEPT ![p] = @ \cup {depth[p] + 1}]
        /\ err' = [err EXCEPT ![p] = "nil"]
        /\ pc' = [pc EXCEPT ![p] = "prepare"]
        /\ UNCHANGED <<store, unique, faults>>
    BY DEF ReturnFrame
  <1>3. /\ pc'[p] = "prepare" /\ depth'[p] = depth[p] + 1
        /\ retried'[p] = retried[p] \cup {depth[p] + 1}
    BY <1>2 DEF ApplyInv, ApplyTypeOK
  <1>4. ApplyTypeOK'
    <2>1. depth' \in [Client -> Nat] /\ \A q \in Client : depth'[q] \in 0..Top(q)
      <3>1. depth \in [Client -> Nat] /\ \A q \in Client : depth[q] \in 0..Top(q)
        BY DEF ApplyInv, ApplyTypeOK
      <3> QED
        BY <1>1, <1>2, <3>1
    <2>2. /\ retried' \in [Client -> SUBSET Nat]
          /\ \A q \in Client : retried'[q] \subseteq 1..Top(q)
      <3>1. /\ retried \in [Client -> SUBSET Nat]
            /\ \A q \in Client : retried[q] \subseteq 1..Top(q)
        BY DEF ApplyInv, ApplyTypeOK
      <3>2. depth[p] + 1 \in 1..Top(p) /\ depth[p] + 1 \in Nat
        BY <1>1
      <3> QED
        BY <1>2, <3>1, <3>2
    <2> QED
      BY <1>2, <2>1, <2>2, StoreTypeSame DEF ApplyInv, ApplyTypeOK, Top, InCall, Frames
  <1>5. InFrame'
    <2>1. depth[p] + 1 \in 1..Top(p)
      BY <1>1
    <2> QED
      BY <1>0, <1>1, <1>2, <1>3, <2>1
         DEF ApplyInv, InFrame, OnlyStep, store, Top, HoldsKey, InCall, Frames
  <1>6. FoundHere(p) => FoundHere(p)'
    <2> SUFFICES ASSUME FoundHere(p)
                 PROVE  FoundHere(p)'
      OBVIOUS
    <2>1. Present(ChainAt(p, depth[p])) /\ depth[p] = (depth[p] + 1) - 1
      BY <1>1 DEF FoundHere
    <2>2. \A n \in retried'[p] : Present(ChainAt(p, n - 1))
      BY <1>3, <2>1 DEF FoundHere
    <2> QED
      BY <1>2, <1>3, <2>2 DEF FoundHere, Present, ChainAt, store
  <1> QED
    BY <1>0, <1>2, <1>3, <1>4, <1>5, <1>6, StoreSame DEF HoldsKey

LEMMA ReturnCallInv == ASSUME ApplyInv, NEW p \in Client, ReturnCall(p) PROVE ApplyInv'
  <1> USE DEF Goto
  <1>0. OnlyStep(p) /\ pc[p] \notin Ended
    BY DEF ReturnCall, OnlyStep, Ended, ApplyInv, ApplyTypeOK
  <1>1. /\ pc[p] = "return" /\ (depth[p] \in {0, Top(p)} \/ ~ Survives(p))
        /\ pc' = [pc EXCEPT ![p] = "returned"]
        /\ err' = [err EXCEPT ![p] = IF Survives(p) THEN "nil" ELSE err[p]]
        /\ UNCHANGED <<store, depth, retried, unique, faults>>
    BY DEF ReturnCall
  <1>2. pc'[p] = "returned" /\ err'[p] = IF Survives(p) THEN "nil" ELSE err[p]
    BY <1>1 DEF ApplyInv, ApplyTypeOK
  <1>3. ApplyTypeOK'
    BY <1>1, StoreTypeSame DEF ApplyInv, ApplyTypeOK, Top, InCall, Frames
  <1>4. InFrame'
    BY <1>0, <1>1, <1>2 DEF ApplyInv, InFrame, OnlyStep, store, Top, HoldsKey, InCall, Frames
  <1>5. FoundHere(p) => FoundHere(p)'
    <2> SUFFICES ASSUME FoundHere(p)
                 PROVE  FoundHere(p)'
      OBVIOUS
    <2>1. Survives(p) => Present(ChainAt(p, Top(p)))
      BY <1>1 DEF FoundHere
    <2>2. err'[p] = "nil" => Survives(p)
      BY <1>2 DEF Survives
    <2> QED
      BY <1>1, <1>2, <2>1, <2>2 DEF FoundHere, Present, ChainAt, store, Top
  <1> QED
    BY <1>0, <1>1, <1>2, <1>3, <1>4, <1>5, StoreSame DEF HoldsKey

LEMMA CallFailsInv == ASSUME ApplyInv, NEW p \in Client, CallFails(p) PROVE ApplyInv'
  <1> USE DEF Goto, Fail
  <1>0. OnlyStep(p) /\ pc[p] \notin Ended
    BY DEF CallFails, OnlyStep, Ended, ApplyInv, ApplyTypeOK
  <1> DEFINE step == IF pc[p] \in HoldsKey THEN "cleanup" ELSE "return"
  <1>1. /\ pc[p] \in {"stat", "prepare", "apply", "applying", "commit"}
        /\ err' = [err EXCEPT ![p] = "failed"]
        /\ pc' = [pc EXCEPT ![p] = step]
        /\ UNCHANGED <<store, depth, retried, unique>>
        /\ faults' \in 0..MaxFaults
    BY ApplyAssumption DEF CallFails, Fault, ApplyInv, ApplyTypeOK
  <1>2. pc'[p] = step /\ err'[p] = "failed" /\ step \in {"cleanup", "return"}
    BY <1>1 DEF ApplyInv, ApplyTypeOK
  <1>3. ApplyTypeOK'
    BY <1>1, StoreTypeSame DEF ApplyInv, ApplyTypeOK, Top, InCall, Frames
  <1>4. InFrame'
    BY <1>0, <1>1, <1>2 DEF ApplyInv, InFrame, OnlyStep, store, Top, HoldsKey, InCall, Frames
  <1>5. FoundHere(p) => FoundHere(p)'
    BY <1>1, <1>2 DEF FoundHere, Present, ChainAt, store, Survives
  <1>6. CASE pc[p] \notin HoldsKey
    BY <1>0, <1>1, <1>2, <1>3, <1>4, <1>5, <1>6, StoreSame DEF HoldsKey
  <1>7. CASE pc[p] \in HoldsKey
    <2>1. ParentsPresent' /\ records' = <<>>
      BY <1>1 DEF ApplyInv, ParentsPresent, Present, store
    <2>2. KeyKept' /\ KeyHolds'
      <3>1. KeyOf(p)' = KeyOf(p)
        BY <1>1 DEF KeyOf, ChainID, ChainAt
      <3>2. KeyOf(p) \in DOMAIN active /\ active[KeyOf(p)].lessee = p
        BY <1>7 DEF ApplyInv, KeyKept
      <3> QED
        BY <1>0, <1>1, <1>2, <1>7, <3>1, <3>2, KeysFrame DEF ApplyInv, store, KeyKept
    <2>3. (SomeoneEnded => SomeoneEnded') /\ (SomeoneEnded' \/ \A q \in Client : FoundHere(q)')
      BY <1>0, <1>1, <1>5, FoundFrame DEF ApplyInv, store
    <2>4. CommittedHeld'
      BY <1>1, <2>3 DEF ApplyInv, CommittedHeld, store
    <2> QED
      BY <1>3, <1>4, <2>1, <2>2, <2>3, <2>4 DEF ApplyInv
  <1> QED
    BY <1>6, <1>7

LEMMA CrashInv == ASSUME ApplyInv, NEW p \in Client, Crash(p) PROVE ApplyInv'
  <1> USE DEF Goto
  <1>0. OnlyStep(p) /\ pc[p] \notin Ended
    BY DEF Crash, OnlyStep, Ended, InCall, Frames, ApplyInv, ApplyTypeOK
  <1>1. /\ pc' = [pc EXCEPT ![p] = "crashed"] /\ pc'[p] = "crashed"
        /\ UNCHANGED <<store, depth, retried, unique, err>>
        /\ faults' \in 0..MaxFaults
    BY ApplyAssumption DEF Crash, Fault, ApplyInv, ApplyTypeOK
  <1>2. ApplyTypeOK'
    BY <1>1, StoreTypeSame DEF ApplyInv, ApplyTypeOK, Top, Ended
  <1>3. InFrame'
    BY <1>0, <1>1 DEF ApplyInv, InFrame, OnlyStep, store, Top, HoldsKey, InCall, Frames
  <1> QED
    BY <1>0, <1>1, <1>2, <1>3, StoreSame DEF HoldsKey, Ended

\* The lease of a caller goes that has ended, or ends with this step.
LEMMA DropLeaseInv ==
    ASSUME ApplyInv, NEW p \in Client, DropLease(p), OnlyStep(p),
           UNCHANGED <<depth, retried, unique, err, faults>>,
           pc' \in [Client -> {"start"} \cup InCall \cup Ended], pc'[p] \in Ended
    PROVE  ApplyInv'
  <1>1. /\ leases' = leases \ {p}
        /\ leased' = [leased EXCEPT ![p] = {}]
        /\ UNCHANGED <<committed, active, rw, records, gcref, uncompressed>>
    BY DEF DropLease
  <1>2. pc'[p] \notin InCall \cup HoldsKey \cup {"start", "stat", "prepare"}
    BY DEF Ended, InCall, Frames, HoldsKey
  <1>3. ApplyTypeOK'
    <2>1. leases' \subseteq Client /\ leased' \in [Client -> SUBSET Chain]
      BY <1>1 DEF ApplyInv, ApplyTypeOK, StoreTypeOK
    <2>2. StoreTypeOK'
      BY <1>1, <2>1 DEF ApplyInv, ApplyTypeOK, StoreTypeOK, IsPartial
    <2> QED
      BY <2>2 DEF ApplyInv, ApplyTypeOK, Top
  <1>4. ParentsPresent' /\ records' = <<>>
    BY <1>1 DEF ApplyInv, ParentsPresent, Present
  <1>5. KeyKept' /\ KeyHolds'
    <2>1. pc'[p] \notin {"apply", "applying", "commit"}
      BY <1>2 DEF HoldsKey
    <2> QED
      BY <1>1, <1>2, <2>1, KeysFrame DEF ApplyInv, KeyKept
  <1>6. InFrame'
    BY <1>1, <1>2 DEF ApplyInv, InFrame, OnlyStep, Top
  <1>7. SomeoneEnded'
    BY DEF SomeoneEnded
  <1>8. CommittedHeld'
    BY <1>1, <1>7 DEF ApplyInv, CommittedHeld
  <1> QED
    BY <1>3, <1>4, <1>5, <1>6, <1>7, <1>8 DEF ApplyInv

LEMMA FinishInv == ASSUME ApplyInv, NEW p \in Client, Finish(p) PROVE ApplyInv'
  <1>1. /\ pc' = [pc EXCEPT ![p] = "done"] /\ DropLease(p)
        /\ UNCHANGED <<depth, retried, unique, err, faults>>
    BY DEF Finish, Goto
  <1>2. OnlyStep(p) /\ pc'[p] \in Ended
    BY <1>1 DEF OnlyStep, Ended, ApplyInv, ApplyTypeOK
  <1>3. pc' \in [Client -> {"start"} \cup InCall \cup Ended]
    BY <1>1 DEF Ended, ApplyInv, ApplyTypeOK
  <1> QED
    BY <1>1, <1>2, <1>3, DropLeaseInv

LEMMA ExpireInv == ASSUME ApplyInv, NEW p \in Client, Expire(p) PROVE ApplyInv'
  <1>1. /\ pc[p] = "crashed" /\ pc' = pc /\ DropLease(p)
        /\ UNCHANGED <<depth, retried, unique, err, faults>>
    BY DEF Expire, caller
  <1>2. OnlyStep(p) /\ pc'[p] \in Ended
    BY <1>1 DEF OnlyStep, Ended
  <1>3. pc' \in [Client -> {"start"} \cup InCall \cup Ended]
    BY <1>1 DEF ApplyInv, ApplyTypeOK
  <1> QED
    BY <1>1, <1>2, <1>3, DropLeaseInv

LEMMA CollectInv == ASSUME ApplyInv, CollectGarbage PROVE ApplyInv'
  <1>1. /\ committed' = Restrict(committed, KeptChains)
        /\ active' = Restrict(active, KeptKeys)
        /\ rw' = Restrict(rw, KeptRootfs)
        /\ UNCHANGED <<records, gcref, uncompressed, leases, leased, caller, faults>>
    BY DEF CollectGarbage, Collect
  <1>2. UNCHANGED <<pc, depth, retried, unique, err>>
    BY <1>1 DEF caller
  <1>3. /\ KeptChains \subseteq DOMAIN committed
        /\ KeptKeys \subseteq DOMAIN active
        /\ KeptRootfs \subseteq DOMAIN rw
    BY DEF KeptChains, KeptKeys, KeptRootfs
  <1>4. /\ DOMAIN committed' = KeptChains /\ DOMAIN active' = KeptKeys
        /\ \A c \in KeptChains : committed'[c] = committed[c]
        /\ \A k \in KeptKeys : active'[k] = active[k]
    BY <1>1, <1>3 DEF Restrict
  <1>5. StoreTypeOK /\ \A c \in DOMAIN committed : Present(Parent(c))
    BY DEF ApplyInv, ApplyTypeOK, ParentsPresent
  <1>6. ApplyTypeOK'
    <2>1. /\ IsPartial(committed, Chain, Seq(Digest \cup {Torn}))'
          /\ IsPartial(active, Key, [tree : Seq(Digest \cup {Torn}), lessee : Client])'
          /\ IsPartial(rw, ContainerID, [parent : Chain, lessee : Client])'
      BY <1>1, <1>3, <1>5, PartialRestrict DEF StoreTypeOK
    <2>2. StoreTypeOK'
      BY <1>1, <1>5, <2>1 DEF StoreTypeOK, IsPartial
    <2> QED
      BY <1>1, <1>2, <2>2 DEF ApplyInv, ApplyTypeOK, Top
  <1>7. ParentsPresent'
    <2>1. \A c \in KeptChains : Parent(c) = <<>> \/ Parent(c) \in KeptChains
      BY <1>5, KeptClosed
    <2>2. ASSUME NEW k \in KeptKeys
          PROVE  Parent(k.chain) = <<>> \/ Parent(k.chain) \in KeptChains
      <3>1. Parent(k.chain) \in Pins
        BY PinsOf
      <3>2. Present(Parent(k.chain))
        BY <1>3 DEF ApplyInv, ParentsPresent
      <3> QED
        BY <1>5, <3>1, <3>2, PinnedKept DEF Present
    <2> QED
      BY <1>4, <2>1, <2>2 DEF ParentsPresent, Present
  <1>8. KeyKept' /\ KeyHolds'
    <2>1. ASSUME NEW p \in Client, pc[p] \in HoldsKey
          PROVE  KeyOf(p) \in KeptKeys
      <3>1. p \in leases
        BY <2>1 DEF ApplyInv, InFrame, HoldsKey, InCall, Frames
      <3> QED
        BY <2>1, <3>1 DEF ApplyInv, KeyKept, KeptKeys
    <2>2. \A p \in Client : KeyOf(p)' = KeyOf(p) /\ ChainID(p)' = ChainID(p)
      BY <1>2 DEF KeyOf, ChainID, ChainAt
    <2>3. KeyKept'
      BY <1>2, <1>4, <2>1, <2>2 DEF ApplyInv, KeyKept
    <2>4. KeyHolds'
      <3> SUFFICES ASSUME NEW p \in Client
                   PROVE  /\ pc'[p] = "apply" => active'[KeyOf(p)'].tree = Parent(ChainID(p)')
                          /\ pc'[p] = "applying" =>
                                active'[KeyOf(p)'].tree = Append(Parent(ChainID(p)'), Torn)
                          /\ pc'[p] = "commit" => active'[KeyOf(p)'].tree = ChainID(p)'
        BY DEF KeyHolds, Parent
      <3>1. pc[p] \in HoldsKey => active'[KeyOf(p)] = active[KeyOf(p)]
        BY <1>4, <2>1
      <3> QED
        BY <1>2, <2>2, <3>1 DEF ApplyInv, KeyHolds, HoldsKey
    <2> QED
      BY <2>3, <2>4
  <1>9. InFrame' /\ records' = <<>>
    BY <1>1, <1>2 DEF ApplyInv, InFrame, Top
  <1>10. SomeoneEnded' <=> SomeoneEnded
    BY <1>2 DEF SomeoneEnded
  <1>11. CommittedHeld'
    BY <1>1, <1>3, <1>4, <1>10 DEF ApplyInv, CommittedHeld
  <1>12. SomeoneEnded' \/ \A p \in Client : FoundHere(p)'
    <2> SUFFICES ASSUME ~ SomeoneEnded, NEW p \in Client
                 PROVE  FoundHere(p)'
      BY <1>10
    <2>1. \A c \in DOMAIN committed : c \in KeptChains
      <3> SUFFICES ASSUME NEW c \in DOMAIN committed
                   PROVE  c \in KeptChains
        OBVIOUS
      <3>1. c \in LeasedChains
        BY DEF ApplyInv, CommittedHeld, LeasedChains
      <3>2. c \in Pins
        BY <3>1 DEF Pins
      <3> QED
        BY <1>5, <3>2, PinnedKept
    <2>2. \A c : Present(c) => Present(c)'
      BY <1>4, <2>1 DEF Present
    <2>3. FoundHere(p)
      BY DEF ApplyInv
    <2>4. \A n : ChainAt(p, n)' = ChainAt(p, n)
      BY DEF ChainAt
    <2> QED
      BY <1>2, <2>2, <2>3, <2>4 DEF FoundHere, ChainID, Survives, Top
  <1> QED
    BY <1>6, <1>7, <1>8, <1>9, <1>11, <1>12 DEF ApplyInv

-----------------------------------------------------------------------------
(* The invariant.                                                          *)

LEMMA InitInv == Init => ApplyInv
  <1> SUFFICES ASSUME Init PROVE ApplyInv
    OBVIOUS
  <1> USE DEF Init, StoreInit
  <1>1. ApplyTypeOK
    <2>1. (CHOOSE u \in Unique : TRUE) \in Unique
      BY StoreAssumption
    <2>2. StoreTypeOK
      BY DEF StoreTypeOK, IsPartial
    <2>3. \A p \in Client : Top(p) \in Nat
      BY ApplyAssumption, StoreAssumption DEF Top
    <2> QED
      BY <2>1, <2>2, <2>3, ApplyAssumption DEF ApplyTypeOK
  <1>2. ParentsPresent /\ CommittedHeld
    BY DEF ParentsPresent, CommittedHeld
  <1>3. KeyKept /\ KeyHolds /\ InFrame
    BY DEF KeyKept, KeyHolds, InFrame, HoldsKey, InCall, Frames
  <1>4. \A p \in Client : FoundHere(p)
    BY DEF FoundHere
  <1> QED
    BY <1>1, <1>2, <1>3, <1>4 DEF ApplyInv

LEMMA StutterInv == ASSUME ApplyInv, UNCHANGED vars PROVE ApplyInv'
  <1> USE DEF vars, caller, store
  <1>1. ApplyTypeOK' /\ ParentsPresent' /\ InFrame' /\ records' = <<>>
    BY StoreTypeSame DEF ApplyInv, ApplyTypeOK, ParentsPresent, Present, InFrame, Top
  <1>2. KeyKept' /\ KeyHolds'
    BY DEF ApplyInv, KeyKept, KeyHolds, KeyOf, ChainID, ChainAt, Parent
  <1>3. SomeoneEnded' <=> SomeoneEnded
    BY DEF SomeoneEnded
  <1>4. CommittedHeld'
    BY <1>3 DEF ApplyInv, CommittedHeld
  <1>5. SomeoneEnded' \/ \A p \in Client : FoundHere(p)'
    BY <1>3 DEF ApplyInv, FoundHere, ChainID, ChainAt, Survives, Top, Present
  <1> QED
    BY <1>1, <1>2, <1>4, <1>5 DEF ApplyInv

LEMMA NextInv == ApplyInv /\ [Next]_vars => ApplyInv'
  <1> SUFFICES ASSUME ApplyInv, [Next]_vars PROVE ApplyInv'
    OBVIOUS
  <1>1. ASSUME NEW p \in Client, Start(p) \/ Step(p) \/ CallFails(p) \/ Crash(p) \/ Expire(p)
        PROVE  ApplyInv'
    BY <1>1, StartInv, StatTopInv, PrepareFrameInv, RecurseInv, ApplyBeginInv, ApplyEndInv,
       CommitFrameInv, RemoveKeyInv, ReturnFrameInv, ReturnCallInv, FinishInv, CallFailsInv,
       CrashInv, ExpireInv
       DEF Step
  <1>2. CASE CollectGarbage
    BY <1>2, CollectInv
  <1>3. CASE Quiet \/ UNCHANGED vars
    BY <1>3, StutterInv DEF Quiet
  <1> QED
    BY <1>1, <1>2, <1>3 DEF Next

\* Whatever fails and whoever dies, the frame that runs has its own extraction
\* snapshot with the files its step expects, every chain stands on its lower
\* layers, and what a call found is there until a caller ends (applyArtifacts,
\* artifact.go:79-144).
THEOREM FramesKeepTheirKeys == Spec => []ApplyInv
  BY InitInv, NextInv, PTL DEF Spec

-----------------------------------------------------------------------------
(* What a call can rely on.                                                *)

\* A call that returns success leaves the whole chain behind, whoever applied
\* its layers, as long as they hold their leases (artifact.go:28-50).
THEOREM SuccessIsPresent == Spec => []SuccessMeansPresent
  <1>1. ApplyInv => SuccessMeansPresent
    <2> SUFFICES ASSUME ApplyInv, NEW p \in Client, pc[p] = "returned", err[p] = "nil",
                        ~ Present(ChainAt(p, Top(p)))
                 PROVE  \E q \in Client \ {p} : pc[q] \in Ended
      BY DEF SuccessMeansPresent
    <2>1. SomeoneEnded
      BY DEF ApplyInv, FoundHere
    <2> QED
      BY <2>1 DEF SomeoneEnded, Ended
  <1> QED
    BY <1>1, FramesKeepTheirKeys, PTL

\* What was found missing was dropped by a caller that has ended.
LEMMA NotFoundStep ==
    ASSUME ApplyInv, NotFoundOnlyAfterEnd, [Next]_vars
    PROVE  NotFoundOnlyAfterEnd'
  <1> SUFFICES ASSUME NEW p \in Client, err'[p] = "NotFound"
               PROVE  \E q \in Client \ {p} : pc'[q] \in Ended
    BY DEF NotFoundOnlyAfterEnd
  <1>1. \A q \in Client : pc[q] \in Ended => pc'[q] \in Ended
    <2>1. ASSUME NEW q \in Client, Start(q) \/ Step(q) \/ CallFails(q) \/ Crash(q) \/ Expire(q)
          PROVE  \/ pc' = pc
                 \/ pc[q] \notin Ended /\ \A r \in Client \ {q} : pc'[r] = pc[r]
      BY <2>1 DEF Start, Step, StatTop, PrepareFrame, Recurse, ApplyBegin, ApplyEnd, CommitFrame,
         RemoveKey, ReturnFrame, ReturnCall, Finish, CallFails, Crash, Expire, Goto, Fail, Ended,
         InCall, Frames, ApplyInv, ApplyTypeOK, caller
    <2> QED
      BY <2>1 DEF Next, Quiet, CollectGarbage, caller, vars
  <1>2. CASE err[p] = "NotFound"
    BY <1>1, <1>2 DEF NotFoundOnlyAfterEnd
  <1>3. CASE err[p] # "NotFound"
    <2>1. pc[p] = "prepare" /\ ~ Present(Parent(ChainID(p))) /\ ~ MayRecurse(p)
      <3>1. ASSUME NEW q \in Client,
                   \/ Start(q) \/ StatTop(q) \/ PrepareFrame(q) \/ ApplyBegin(q) \/ ApplyEnd(q)
                   \/ CommitFrame(q) \/ RemoveKey(q) \/ ReturnFrame(q) \/ ReturnCall(q)
                   \/ Finish(q) \/ CallFails(q) \/ Crash(q) \/ Expire(q)
            PROVE  FALSE
        BY <1>3, <3>1 DEF Start, StatTop, PrepareFrame, ApplyBegin, ApplyEnd, CommitFrame,
           RemoveKey, ReturnFrame, ReturnCall, Finish, CallFails, Crash, Expire, Fail,
           ApplyInv, ApplyTypeOK, caller
      <3>2. PICK q \in Client : Recurse(q)
        BY <1>3, <3>1 DEF Next, Step, CollectGarbage, Quiet, caller, vars
      <3> QED
        BY <1>3, <3>2 DEF Recurse, Fail, ApplyInv, ApplyTypeOK
    <2>2. depth[p] \in 1..Top(p) /\ Top(p) \in Nat
      BY <2>1, FrameChains DEF ApplyInv, InFrame
    <2>3. Parent(ChainID(p)) = ChainAt(p, depth[p] - 1)
      BY <2>2, FrameChains DEF ApplyInv, ChainID
    <2>4. depth[p] # 1
      BY <2>1, <2>3, FrameChains DEF ApplyInv, Present
    <2>5. depth[p] \in retried[p]
      BY <2>1, <2>2, <2>4 DEF MayRecurse
    <2>6. SomeoneEnded
      BY <2>1, <2>3, <2>5 DEF ApplyInv, FoundHere
    <2>7. PICK q \in Client \ {p} : pc[q] \in Ended
      BY <2>1, <2>6 DEF SomeoneEnded, Ended
    <2> QED
      BY <1>1, <2>7
  <1> QED
    BY <1>2, <1>3

\* The second Prepare of a frame fails with NotFound only if a caller that had
\* committed the lower layer is out of the way (artifact.go:94-104).
THEOREM NotFoundMeansEnded == Spec => []NotFoundOnlyAfterEnd
  <1>1. Init => NotFoundOnlyAfterEnd
    BY DEF Init, NotFoundOnlyAfterEnd
  <1>2. ApplyInv /\ NotFoundOnlyAfterEnd /\ [Next]_vars => NotFoundOnlyAfterEnd'
    BY NotFoundStep
  <1> QED
    BY <1>1, <1>2, FramesKeepTheirKeys, PTL DEF Spec

-----------------------------------------------------------------------------
(* Refinement.                                                             *)

LEMMA StepPublishes ==
    ASSUME ApplyInv, NEW p \in Client, CommitFrame(p), ~ Present(ChainID(p))
    PROVE  \E c \in Chain : Store!Publish(c)
  <1> DEFINE c == ChainID(p)
  <1>1. pc[p] = "commit" /\ CommitKey(KeyOf(p), p)
    BY DEF CommitFrame
  <1>2. /\ KeyOf(p) \in DOMAIN active /\ KeyOf(p).chain = c /\ c \in Chain
        /\ active[KeyOf(p)].tree = c
    BY <1>1, KeyOfFrame DEF ApplyInv, KeyHolds, HoldsKey
  <1>3. committed' = Put(committed, c, c) /\ records' = records
    BY <1>1, <1>2 DEF CommitKey
  <1>4. Present(Parent(c))
    BY <1>2 DEF ApplyInv, ParentsPresent
  <1>5. Store!Publish(c)
    BY <1>3, <1>4 DEF Store!Publish, Store!Ready, Store!With, Store!Front, Put, Present,
       Parent, Front
  <1> QED
    BY <1>2, <1>5

LEMMA CollectReclaims ==
    ASSUME ApplyInv, CollectGarbage
    PROVE  \E keep \in SUBSET DOMAIN committed : Store!Reclaim(keep)
  <1>1. KeptChains \in SUBSET DOMAIN committed
    BY DEF KeptChains
  <1>2. \A c \in KeptChains : Parent(c) = <<>> \/ Parent(c) \in KeptChains
    BY KeptClosed DEF ApplyInv, ApplyTypeOK, ParentsPresent
  <1>3. DOMAIN records = {}
    BY DEF ApplyInv
  <1>4. committed' = Restrict(committed, KeptChains) /\ records' = records
    BY DEF CollectGarbage, Collect
  <1>5. Store!Reclaim(KeptChains)
    BY <1>2, <1>3, <1>4 DEF Store!Reclaim, Store!Front, Store!Restrict, Parent, Front, Restrict
  <1> QED
    BY <1>1, <1>5

\* Top down or bottom up, a call publishes each chain complete, on top of its
\* lower layers, and the collector takes none that another stands on: the
\* recursion implements ChainStore (artifact.go:79-144).
THEOREM RecursionRefines == Spec => ImplementsChainStore
  <1>1. Init => Store!Init
    BY DEF Init, StoreInit, Store!Init
  <1>2. ApplyInv /\ [Next]_vars => [Store!Next]_<<committed, records>>
    <2> SUFFICES ASSUME ApplyInv, [Next]_vars
                 PROVE  Store!Next \/ UNCHANGED <<committed, records>>
      OBVIOUS
    <2>1. ASSUME NEW p \in Client,
                 \/ Start(p) \/ StatTop(p) \/ PrepareFrame(p) \/ Recurse(p) \/ ApplyBegin(p)
                 \/ ApplyEnd(p) \/ RemoveKey(p) \/ ReturnFrame(p) \/ ReturnCall(p) \/ Finish(p)
                 \/ CallFails(p) \/ Crash(p) \/ Expire(p)
          PROVE  UNCHANGED <<committed, records>>
      BY <2>1 DEF Start, StatTop, PrepareFrame, Recurse, ApplyBegin, ApplyEnd, RemoveKey,
         ReturnFrame, ReturnCall, Finish, CallFails, Crash, Expire, AcquireLease, PrepareKey,
         WriteKey, RemoveActive, DropLease, store
    <2>2. ASSUME NEW p \in Client, CommitFrame(p)
          PROVE  Store!Next \/ UNCHANGED <<committed, records>>
      <3>1. CASE Present(ChainID(p))
        BY <2>2, <3>1 DEF CommitFrame, store
      <3>2. CASE ~ Present(ChainID(p))
        BY <2>2, <3>2, StepPublishes DEF Store!Next
      <3> QED
        BY <3>1, <3>2
    <2>3. CASE CollectGarbage
      BY <2>3, CollectReclaims DEF Store!Next
    <2>4. CASE Quiet \/ UNCHANGED vars
      BY <2>4 DEF Quiet, vars, store
    <2> QED
      BY <2>1, <2>2, <2>3, <2>4 DEF Next, Step
  <1> QED
    BY <1>1, <1>2, FramesKeepTheirKeys, PTL DEF Spec, ImplementsChainStore, Store!Spec
=============================================================================
