---------------------------- MODULE UnpackProofs ----------------------------
(***************************************************************************)
(* Proofs about Unpack for any number of clients, images, layers and       *)
(* container IDs: what is published, the keys, the refinement of           *)
(* ChainStore, and at the end the labels and the layers that were found by *)
(* Stat.                                                                   *)
(***************************************************************************)
EXTENDS Unpack, StoreProofs, TLAPS

-----------------------------------------------------------------------------
(* The layer a client works on.                                            *)

LEMMA WorkTypes ==
    ASSUME UnpackTypeOK, ChainGrows, NEW p \in Client,
           pc[p] \in InUnpack \ {"label_config"}
    PROVE  /\ ChainID(p) \in Chain
           /\ ChainID(p) = SubSeq(RootFS(p), 1, Len(chain[p]) + 1)
           /\ Parent(ChainID(p)) = chain[p]
           /\ Layer(p) \in Digest
           /\ chain[p] \in Seq(Digest)
           /\ KeyOf(p) \in Key
  <1> DEFINE i == opts[p].image
  <1> DEFINE n == Len(chain[p]) + 1
  <1>1. i \in Image /\ RootFS(p) = Layers[i]
    BY DEF UnpackTypeOK, RootFS
  <1>2. chain[p] \in Seq(Digest)
    <2>1. chain[p] \in Chain \cup {<<>>}
      BY DEF UnpackTypeOK
    <2>2. <<>> \in Seq(Digest)
      OBVIOUS
    <2> QED
      BY <2>1, <2>2, ChainType
  <1>3. n \in 1..Len(Layers[i]) /\ chain[p] = SubSeq(Layers[i], 1, n - 1)
    BY <1>1, <1>2, StoreAssumption DEF ChainGrows
  <1>4. ChainID(p) = SubSeq(Layers[i], 1, n)
    BY <1>1, <1>3, ImageChains DEF ChainID, Layer
  <1>5. ChainID(p) \in Chain /\ Layer(p) \in Digest
    BY <1>1, <1>3, <1>4, ImageChains DEF Layer
  <1>6. Parent(ChainID(p)) = chain[p]
    BY <1>2, <1>5, FrontAppend DEF ChainID, Parent
  <1> QED
    BY <1>1, <1>2, <1>4, <1>5, <1>6 DEF KeyOf, Key, UnpackTypeOK

LEMMA RootFSType ==
    ASSUME UnpackTypeOK, NEW p \in Client
    PROVE  /\ RootFS(p) \in Chain
           /\ RootFS(p) \in Seq(Digest)
           /\ Len(RootFS(p)) \in Nat \ {0}
           /\ SubSeq(RootFS(p), 1, Len(RootFS(p))) = RootFS(p)
           /\ SubSeq(RootFS(p), 1, 0) = <<>>
  <1>1. PICK i \in Image : RootFS(p) = Layers[i]
    BY DEF UnpackTypeOK, RootFS
  <1>2. RootFS(p) \in Seq(Digest) /\ RootFS(p) # <<>>
    BY <1>1, StoreAssumption
  <1>3. SubSeq(RootFS(p), 1, Len(RootFS(p))) = RootFS(p) /\ SubSeq(RootFS(p), 1, 0) = <<>>
    BY <1>2
  <1>4. Len(RootFS(p)) \in 1..Len(Layers[i])
    BY <1>1, <1>2
  <1>5. RootFS(p) \in Chain
    BY <1>1, <1>3, <1>4, ImageChains
  <1> QED
    BY <1>2, <1>3, <1>5

\* A fault stays within the bound.
LEMMA FaultType ==
    ASSUME UnpackTypeOK, NEW kind, Fault(kind)
    PROVE  faults' \in 0..MaxFaults
  BY FaultAssumption DEF Fault, UnpackTypeOK

\* The end of an iteration keeps `chain` on the layers of the image.
LEMMA NextLayerGrows ==
    ASSUME UnpackTypeOK, ChainGrows, NEW p \in Client,
           pc[p] \in InUnpack \ {"label_config"}, NextLayer(p), UNCHANGED opts
    PROVE  /\ ChainGrows'
           /\ chain' \in [Client -> Chain \cup {<<>>}]
           /\ pc' \in [Client -> {"start"} \cup Running \cup Ended]
           /\ pc'[p] \in {"stat", "label_config"}
           /\ \A q \in Client \ {p} : pc'[q] = pc[q] /\ chain'[q] = chain[q]
  <1> USE DEF UnpackTypeOK, NextLayer
  <1>1. /\ chain' \in [Client -> Chain \cup {<<>>}]
        /\ pc' \in [Client -> {"start"} \cup Running \cup Ended]
        /\ pc'[p] \in {"stat", "label_config"}
    BY WorkTypes DEF Running, InUnpack
  <1>2. \A q \in Client \ {p} : pc'[q] = pc[q] /\ chain'[q] = chain[q]
    OBVIOUS
  <1>3. \A q \in Client : RootFS(q)' = RootFS(q)
    BY DEF RootFS
  <1>4. /\ chain'[p] = SubSeq(RootFS(p), 1, Len(chain[p]) + 1)
        /\ Len(chain'[p]) = Len(chain[p]) + 1
        /\ chain'[p] = ChainID(p)
        /\ pc'[p] = IF ChainID(p) = RootFS(p) THEN "label_config" ELSE "stat"
    BY WorkTypes DEF ChainID
  <1>5. Len(chain[p]) + 1 <= Len(RootFS(p)) /\ Len(chain[p]) \in Nat
    BY WorkTypes, RootFSType DEF ChainGrows
  <1>6. pc'[p] = "stat" => Len(chain'[p]) < Len(RootFS(p))
    BY <1>4, <1>5, RootFSType
  <1> QED
    BY <1>1, <1>2, <1>3, <1>4, <1>5, <1>6 DEF ChainGrows

\* A step that leaves the snapshots, the records and the labels of layers and
\* configs alone, and takes p somewhere in its run.
LEMMA QuietStructure ==
    ASSUME Structure, NEW p \in Client, UNCHANGED opts, ChainGrows',
           chain' \in [Client -> Chain \cup {<<>>}],
           unique' \in [Client -> Unique],
           err' \in [Client -> {"none", "missing", "exists", "failed"}],
           faults' \in 0..MaxFaults,
           UNCHANGED <<committed, rw, records>>,
           IsPartial(active', Key, [tree : Seq(Digest \cup {Torn}), lessee : Client]),
           \A k \in DOMAIN active' : Present(Parent(k.chain)),
           IsPartial(gcref', Config, Chain), uncompressed' \subseteq Digest,
           leases' \subseteq Client, leased' \in [Client -> SUBSET Chain],
           pc' \in [Client -> {"start"} \cup Running \cup Ended],
           \A q \in Client \ {p} : pc'[q] = pc[q] /\ (q \in leases => q \in leases'),
           pc'[p] \in Running => p \in leases',
           pc'[p] # "create"
    PROVE  Structure'
  <1> USE DEF Structure
  <1>1. UnpackTypeOK'
    BY DEF UnpackTypeOK, StoreTypeOK, IsPartial
  <1>2. LeaseHeld'
    BY DEF LeaseHeld
  <1>3. RootfsPrepared'
    BY DEF RootfsPrepared, RootFS
  <1>4. ParentsPresent'
    BY DEF ParentsPresent, Present
  <1>5. RootfsIntact'
    BY DEF RootfsIntact
  <1> QED
    BY <1>1, <1>2, <1>3, <1>4, <1>5

\* The same when only the client moves.
LEMMA MoveStructure ==
    ASSUME Structure, NEW p \in Client, UNCHANGED <<store, opts, unique>>, ChainGrows',
           chain' \in [Client -> Chain \cup {<<>>}],
           err' \in [Client -> {"none", "missing", "exists", "failed"}],
           faults' \in 0..MaxFaults,
           pc' \in [Client -> {"start"} \cup Running \cup Ended],
           \A q \in Client \ {p} : pc'[q] = pc[q],
           pc[p] \in Running \/ pc'[p] \notin Running, pc'[p] # "create"
    PROVE  Structure'
  <1>1. UNCHANGED <<committed, active, rw, records, gcref, uncompressed, leases, leased>>
    BY DEF store
  <1>2. /\ IsPartial(active', Key, [tree : Seq(Digest \cup {Torn}), lessee : Client])
        /\ IsPartial(gcref', Config, Chain) /\ uncompressed' \subseteq Digest
        /\ leases' \subseteq Client /\ leased' \in [Client -> SUBSET Chain]
        /\ unique' \in [Client -> Unique]
    BY <1>1 DEF Structure, UnpackTypeOK, StoreTypeOK
  <1>3. \A k \in DOMAIN active' : Present(Parent(k.chain))
    BY <1>1 DEF Structure, ParentsPresent
  <1>4. pc'[p] \in Running => p \in leases'
    BY <1>1 DEF Structure, LeaseHeld
  <1> QED
    BY <1>1, <1>2, <1>3, <1>4, QuietStructure

-----------------------------------------------------------------------------
(* Each action preserves the structure.                                    *)

LEMMA StartStructure == ASSUME Structure, NEW p \in Client, Start(p) PROVE Structure'
  <1> USE DEF Start, AcquireLease, Succeed, Goto
  <1>1. /\ pc' \in [Client -> {"start"} \cup Running \cup Ended]
        /\ pc'[p] = "is_unpacked" /\ \A q \in Client \ {p} : pc'[q] = pc[q]
    BY DEF Structure, UnpackTypeOK, Running
  <1>2. ChainGrows'
    BY <1>1 DEF Structure, ChainGrows, UnpackTypeOK, RootFS, InUnpack
  <1>3. /\ IsPartial(active', Key, [tree : Seq(Digest \cup {Torn}), lessee : Client])
        /\ IsPartial(gcref', Config, Chain) /\ uncompressed' \subseteq Digest
        /\ leases' \subseteq Client /\ leased' \in [Client -> SUBSET Chain]
        /\ chain' \in [Client -> Chain \cup {<<>>}] /\ unique' \in [Client -> Unique]
        /\ err' \in [Client -> {"none", "missing", "exists", "failed"}]
        /\ faults' \in 0..MaxFaults
    BY DEF Structure, UnpackTypeOK, StoreTypeOK
  <1>4. \A k \in DOMAIN active' : Present(Parent(k.chain))
    BY DEF Structure, ParentsPresent
  <1> QED
    BY <1>1, <1>2, <1>3, <1>4, QuietStructure

\* The steps of a client that change nothing in the daemon.
LEMMA LocalStructure ==
    ASSUME Structure, NEW p \in Client,
           IsUnpacked(p) \/ StatLayer(p) \/ CallFails(p) \/ Crash(p)
    PROVE  Structure'
  <1> USE DEF Structure
  <1>1. UNCHANGED <<store, opts, unique>> /\ pc[p] \in Running
    BY DEF IsUnpacked, StatLayer, CallFails, Crash, Running, InUnpack
  <1>2. /\ err' \in [Client -> {"none", "missing", "exists", "failed"}]
        /\ faults' \in 0..MaxFaults
    BY FaultType DEF IsUnpacked, StatLayer, CallFails, Crash, Succeed, GiveUp, UnpackTypeOK
  <1>3. CASE StatLayer(p) /\ NextLayer(p)
    <2>1. pc[p] \in InUnpack \ {"label_config"}
      BY <1>3 DEF StatLayer, InUnpack
    <2> QED
      BY <1>1, <1>2, <1>3, <2>1, NextLayerGrows, MoveStructure
  <1>4. CASE ~ (StatLayer(p) /\ NextLayer(p))
    <2>1. /\ UNCHANGED chain
          /\ \/ IsUnpacked(p) /\ \/ pc' = [pc EXCEPT ![p] = "new_snapshot"]
                                 \/ pc' = [pc EXCEPT ![p] = "stat"]
             \/ pc[p] = "stat" /\ pc' = [pc EXCEPT ![p] = "prepare"]
             \/ pc[p] \in HoldsKey /\ pc' = [pc EXCEPT ![p] = "cleanup"]
             \/ pc' = [pc EXCEPT ![p] = "release"]
             \/ pc' = [pc EXCEPT ![p] = "crashed"]
      BY <1>4 DEF IsUnpacked, StatLayer, CallFails, Crash, Succeed, GiveUp, Goto
    <2>2. /\ pc' \in [Client -> {"start"} \cup Running \cup Ended] /\ pc'[p] # "create"
          /\ \A q \in Client \ {p} : pc'[q] = pc[q]
          /\ \/ pc[p] = "is_unpacked" /\ pc'[p] \in {"new_snapshot", "stat"}
             \/ pc[p] \in InUnpack \ {"label_config"} /\ pc'[p] \in {"prepare", "cleanup"}
             \/ pc'[p] \in {"release", "crashed"}
      BY <2>1 DEF UnpackTypeOK, IsUnpacked, Running, InUnpack, Ended, HoldsKey
    <2>3. Len(RootFS(p)) > Len(<<>>)
      BY RootFSType
    <2>4. ChainGrows'
      BY <1>1, <2>1, <2>2, <2>3 DEF ChainGrows, RootFS, InUnpack
    <2> QED
      BY <1>1, <1>2, <2>1, <2>2, <2>4, MoveStructure DEF UnpackTypeOK
  <1> QED
    BY <1>3, <1>4

LEMMA PrepareLayerStructure == ASSUME Structure, NEW p \in Client, PrepareLayer(p) PROVE Structure'
  <1> USE DEF Structure, Goto
  <1>1. PICK u \in Unique :
            LET k == [unique |-> u, chain |-> ChainID(p)]
            IN  \/ /\ Fail(p, "missing", "release")
                   /\ UNCHANGED <<store, unique>>
                \/ /\ Present(Parent(k.chain))
                   /\ PrepareKey(k, p)
                   /\ unique' = [unique EXCEPT ![p] = u]
                   /\ Return(p, "apply", "lost_reply", "release")
    BY DEF PrepareLayer
  <1>2. /\ pc[p] = "prepare" /\ pc[p] \in InUnpack \ {"label_config"} /\ pc[p] \in Running
        /\ UNCHANGED <<opts, chain>>
    BY DEF PrepareLayer, InUnpack, Running
  <1> DEFINE k == [unique |-> u, chain |-> ChainID(p)]
  <1>3. k \in Key /\ k.chain = ChainID(p) /\ Parent(ChainID(p)) = chain[p] /\ chain[p] \in Seq(Digest)
    BY <1>2, WorkTypes DEF Key
  <1>4. pc' = [pc EXCEPT ![p] = "apply"] \/ pc' = [pc EXCEPT ![p] = "release"]
    BY <1>1 DEF Fail, Return, Succeed
  <1>5. /\ err' \in [Client -> {"none", "missing", "exists", "failed"}]
        /\ faults' \in 0..MaxFaults
    BY <1>1, FaultType DEF Fail, Return, Succeed, UnpackTypeOK
  <1>6. /\ pc' \in [Client -> {"start"} \cup Running \cup Ended]
        /\ pc'[p] \in {"apply", "release"} /\ \A q \in Client \ {p} : pc'[q] = pc[q]
    BY <1>4 DEF UnpackTypeOK, Running, InUnpack
  <1>7. ChainGrows'
    BY <1>2, <1>6 DEF ChainGrows, RootFS, InUnpack
  <1>8. CASE UNCHANGED <<store, unique>>
    BY <1>2, <1>5, <1>6, <1>7, <1>8, MoveStructure DEF UnpackTypeOK
  <1>9. CASE /\ Present(chain[p])
             /\ PrepareKey(k, p)
             /\ unique' = [unique EXCEPT ![p] = u]
    <2> DEFINE snap == [tree |-> IF chain[p] = <<>> THEN <<>> ELSE committed[chain[p]],
                        lessee |-> p]
    <2>1. /\ active' = Put(active, k, snap)
          /\ UNCHANGED <<committed, rw, records, gcref, uncompressed, leases, leased>>
      BY <1>9, <1>3 DEF PrepareKey
    <2>2. snap \in [tree : Seq(Digest \cup {Torn}), lessee : Client]
      BY <1>9 DEF Present, UnpackTypeOK, StoreTypeOK, IsPartial
    <2>3. IsPartial(active', Key, [tree : Seq(Digest \cup {Torn}), lessee : Client])
      BY <2>1, <2>2, <1>3, PartialPut DEF UnpackTypeOK, StoreTypeOK
    <2>4. \A l \in DOMAIN active' : Present(Parent(l.chain))
      BY <1>3, <1>9, <2>1 DEF Put, ParentsPresent
    <2>5. unique' \in [Client -> Unique] /\ chain' \in [Client -> Chain \cup {<<>>}]
      BY <1>2, <1>9 DEF UnpackTypeOK
    <2>6. p \in leases' /\ leases' = leases
      BY <1>2, <2>1 DEF LeaseHeld
    <2>7. /\ IsPartial(gcref', Config, Chain) /\ uncompressed' \subseteq Digest
          /\ leases' \subseteq Client /\ leased' \in [Client -> SUBSET Chain]
      BY <2>1 DEF UnpackTypeOK, StoreTypeOK
    <2> QED
      BY <1>2, <1>5, <1>6, <1>7, <2>1, <2>3, <2>4, <2>5, <2>6, <2>7, QuietStructure
  <1> QED
    BY <1>1, <1>3, <1>8, <1>9

\* Apply writes to a snapshot that may by then be somebody else's, or to none.
LEMMA ApplyStructure ==
    ASSUME Structure, NEW p \in Client, ApplyBegin(p) \/ ApplyEnd(p)
    PROVE  Structure'
  <1> USE DEF Structure
  <1> DEFINE k == KeyOf(p)
  <1>1. /\ pc[p] \in {"apply", "applying"} /\ pc[p] \in InUnpack \ {"label_config"} /\ pc[p] \in Running
        /\ pc' = [pc EXCEPT ![p] = "applying"] \/ pc' = [pc EXCEPT ![p] = "commit"]
        /\ UNCHANGED <<opts, chain, unique, err, faults>>
    BY DEF ApplyBegin, ApplyEnd, Succeed, Goto, InUnpack, Running
  <1>2. /\ pc' \in [Client -> {"start"} \cup Running \cup Ended]
        /\ pc'[p] \in {"applying", "commit"} /\ \A q \in Client \ {p} : pc'[q] = pc[q]
    BY <1>1 DEF UnpackTypeOK, Running, InUnpack
  <1>3. ChainGrows'
    BY <1>1, <1>2 DEF ChainGrows, RootFS, InUnpack
  <1>4. /\ err' \in [Client -> {"none", "missing", "exists", "failed"}]
        /\ faults' \in 0..MaxFaults
        /\ chain' \in [Client -> Chain \cup {<<>>}] /\ unique' \in [Client -> Unique]
    BY <1>1 DEF UnpackTypeOK
  <1>5. CASE UNCHANGED store
    BY <1>1, <1>2, <1>3, <1>4, <1>5, MoveStructure
  <1>6. CASE ~ UNCHANGED store
    <2>1. k \in DOMAIN active /\ active[k].tree \in Seq(Digest \cup {Torn}) /\ Layer(p) \in Digest
      BY <1>1, <1>6, WorkTypes DEF ApplyBegin, ApplyEnd, UnpackTypeOK, StoreTypeOK, IsPartial
    <2>2. Front(active[k].tree) \in Seq(Digest \cup {Torn})
      BY <2>1 DEF Front
    <2>3. PICK t \in Seq(Digest \cup {Torn}) : WriteKey(k, t)
      <3>1. Append(active[k].tree, Torn) \in Seq(Digest \cup {Torn})
        BY <2>1
      <3>2. Append(Front(active[k].tree), Layer(p)) \in Seq(Digest \cup {Torn})
        BY <2>1, <2>2
      <3> QED
        BY <1>6, <3>1, <3>2 DEF ApplyBegin, ApplyEnd
    <2>4. /\ active' = [active EXCEPT ![k].tree = t]
          /\ UNCHANGED <<committed, rw, records, gcref, uncompressed, leases, leased>>
      BY <2>3 DEF WriteKey
    <2>5. /\ IsPartial(active', Key, [tree : Seq(Digest \cup {Torn}), lessee : Client])
          /\ DOMAIN active' = DOMAIN active
      <3>1. active \in [DOMAIN active -> [tree : Seq(Digest \cup {Torn}), lessee : Client]]
        BY DEF UnpackTypeOK, StoreTypeOK, IsPartial
      <3>2. DOMAIN active' = DOMAIN active /\ DOMAIN active \subseteq Key
        BY <2>4 DEF UnpackTypeOK, StoreTypeOK, IsPartial
      <3>3. active' \in [DOMAIN active' -> [tree : Seq(Digest \cup {Torn}), lessee : Client]]
        BY <2>1, <2>3, <2>4, <3>1, <3>2
      <3> QED
        BY <3>2, <3>3 DEF IsPartial
    <2>6. \A l \in DOMAIN active' : Present(Parent(l.chain))
      BY <2>5 DEF ParentsPresent
    <2>7. p \in leases' /\ leases' = leases
      BY <1>1, <2>4 DEF LeaseHeld
    <2>8. /\ IsPartial(gcref', Config, Chain) /\ uncompressed' \subseteq Digest
          /\ leases' \subseteq Client /\ leased' \in [Client -> SUBSET Chain]
      BY <2>4 DEF UnpackTypeOK, StoreTypeOK
    <2> QED
      BY <1>1, <1>2, <1>3, <1>4, <2>4, <2>5, <2>6, <2>7, <2>8, QuietStructure
  <1> QED
    BY <1>5, <1>6

\* A commit is made on lower layers that are there, whether the client learns
\* of it or not.
LEMMA CommitLayerStructure == ASSUME Structure, NEW p \in Client, CommitLayer(p) PROVE Structure'
  <1> USE DEF Structure
  <1> DEFINE k == KeyOf(p)
  <1>1. /\ pc[p] = "commit" /\ pc[p] \in InUnpack \ {"label_config"} /\ pc[p] \in Running
        /\ UNCHANGED <<opts, chain, unique>>
    BY DEF CommitLayer, InUnpack, Running
  <1>2. pc' = [pc EXCEPT ![p] = "cleanup"] \/ pc' = [pc EXCEPT ![p] = "label_layer"]
    BY DEF CommitLayer, LoseCommit, Fail, Succeed, Return, Goto
  <1>3. /\ err' \in [Client -> {"none", "missing", "exists", "failed"}]
        /\ faults' \in 0..MaxFaults
    BY FaultType DEF CommitLayer, LoseCommit, Fail, Succeed, Return, UnpackTypeOK
  <1>4. /\ pc' \in [Client -> {"start"} \cup Running \cup Ended]
        /\ pc'[p] \in {"cleanup", "label_layer"} /\ \A q \in Client \ {p} : pc'[q] = pc[q]
    BY <1>2 DEF UnpackTypeOK, Running, InUnpack
  <1>5. ChainGrows'
    BY <1>1, <1>4 DEF ChainGrows, RootFS, InUnpack
  <1>6. CASE UNCHANGED store
    BY <1>1, <1>3, <1>4, <1>5, <1>6, MoveStructure DEF UnpackTypeOK
  <1>7. CASE k \in DOMAIN active /\ CommitKey(k, p)
    <2>1. k.chain = ChainID(p) /\ ChainID(p) \in Chain
      BY <1>1, WorkTypes DEF KeyOf
    <2>2. /\ committed' = Put(committed, ChainID(p), active[k].tree)
          /\ active' = Restrict(active, DOMAIN active \ {k})
          /\ leased' = [leased EXCEPT ![p] = @ \cup {ChainID(p)}]
          /\ UNCHANGED <<rw, records, gcref, uncompressed, leases>>
      BY <1>7, <2>1 DEF CommitKey, Without
    <2>3. active[k].tree \in Seq(Digest \cup {Torn})
      BY <1>7 DEF UnpackTypeOK, StoreTypeOK, IsPartial
    <2>4. /\ IsPartial(committed', Chain, Seq(Digest \cup {Torn}))
          /\ IsPartial(active', Key, [tree : Seq(Digest \cup {Torn}), lessee : Client])
      BY <2>1, <2>2, <2>3, PartialPut, PartialRestrict DEF UnpackTypeOK, StoreTypeOK
    <2>5. leased' \in [Client -> SUBSET Chain]
      BY <2>1, <2>2 DEF UnpackTypeOK, StoreTypeOK
    <2>6. UnpackTypeOK'
      BY <1>1, <1>3, <1>4, <2>2, <2>4, <2>5 DEF UnpackTypeOK, StoreTypeOK
    <2>7. LeaseHeld' /\ RootfsPrepared'
      BY <1>1, <1>4, <2>2 DEF LeaseHeld, RootfsPrepared, RootFS
    <2>8. DOMAIN committed' = DOMAIN committed \cup {ChainID(p)}
      BY <2>2 DEF Put
    <2>9. Present(Parent(ChainID(p)))
      BY <1>7, <2>1 DEF ParentsPresent
    <2>10. ParentsPresent'
      BY <2>2, <2>8, <2>9 DEF ParentsPresent, Present, Restrict
    <2>11. RootfsIntact'
      BY <2>2, <2>8 DEF RootfsIntact
    <2> QED
      BY <1>5, <2>6, <2>7, <2>10, <2>11
  <1> QED
    BY <1>6, <1>7 DEF CommitLayer, LoseCommit

\* Remove goes by name: it may take the snapshot of another client.
LEMMA RemoveKeyStructure == ASSUME Structure, NEW p \in Client, RemoveKey(p) PROVE Structure'
  <1> USE DEF Structure
  <1> DEFINE k == KeyOf(p)
  <1>1. /\ pc[p] = "cleanup" /\ pc[p] \in InUnpack \ {"label_config"} /\ pc[p] \in Running
        /\ UNCHANGED <<opts, unique, err>>
    BY DEF RemoveKey, InUnpack, Running
  <1>2. /\ active' = active \/ active' = Restrict(active, DOMAIN active \ {k})
        /\ UNCHANGED <<committed, rw, records, gcref, uncompressed, leases, leased>>
    BY DEF RemoveKey, RemoveActive, Without, store
  <1>3. /\ ChainGrows'
        /\ chain' \in [Client -> Chain \cup {<<>>}]
        /\ pc' \in [Client -> {"start"} \cup Running \cup Ended]
        /\ pc'[p] \in {"stat", "label_config", "release"}
        /\ \A q \in Client \ {p} : pc'[q] = pc[q] /\ chain'[q] = chain[q]
    <2>1. CASE NextLayer(p)
      BY <1>1, <2>1, NextLayerGrows
    <2>2. CASE Goto(p, "release") /\ UNCHANGED chain
      BY <1>1, <2>2 DEF Goto, ChainGrows, RootFS, UnpackTypeOK, Running, InUnpack
    <2> QED
      BY <2>1, <2>2 DEF RemoveKey
  <1>4. IsPartial(active', Key, [tree : Seq(Digest \cup {Torn}), lessee : Client])
    BY <1>2, PartialRestrict DEF UnpackTypeOK, StoreTypeOK
  <1>5. faults' \in 0..MaxFaults
    BY FaultType DEF RemoveKey, UnpackTypeOK
  <1>6. \A l \in DOMAIN active' : Present(Parent(l.chain))
    BY <1>2 DEF Restrict, ParentsPresent
  <1>7. p \in leases' /\ leases' = leases
    BY <1>1, <1>2 DEF LeaseHeld
  <1>8. /\ IsPartial(gcref', Config, Chain) /\ uncompressed' \subseteq Digest
        /\ leases' \subseteq Client /\ leased' \in [Client -> SUBSET Chain]
        /\ unique' \in [Client -> Unique]
        /\ err' \in [Client -> {"none", "missing", "exists", "failed"}]
    BY <1>1, <1>2 DEF UnpackTypeOK, StoreTypeOK
  <1> QED
    BY <1>1, <1>2, <1>3, <1>4, <1>5, <1>6, <1>7, <1>8, QuietStructure

LEMMA LabelLayerStructure == ASSUME Structure, NEW p \in Client, LabelLayer(p) PROVE Structure'
  <1> USE DEF Structure
  <1>1. /\ pc[p] = "label_layer" /\ pc[p] \in InUnpack \ {"label_config"} /\ pc[p] \in Running
        /\ UNCHANGED <<opts, unique>>
    BY DEF LabelLayer, InUnpack, Running
  <1>2. /\ uncompressed' \subseteq Digest
        /\ UNCHANGED <<committed, active, rw, records, gcref, leases, leased>>
    BY <1>1, WorkTypes DEF LabelLayer, SetUncompressed, UnpackTypeOK, StoreTypeOK
  <1>3. /\ ChainGrows'
        /\ chain' \in [Client -> Chain \cup {<<>>}]
        /\ pc' \in [Client -> {"start"} \cup Running \cup Ended]
        /\ pc'[p] \in {"stat", "label_config", "release"}
        /\ \A q \in Client \ {p} : pc'[q] = pc[q] /\ chain'[q] = chain[q]
    <2>1. CASE NextLayer(p)
      BY <1>1, <2>1, NextLayerGrows
    <2>2. CASE Goto(p, "release") /\ UNCHANGED chain
      BY <1>1, <2>2 DEF Goto, ChainGrows, RootFS, UnpackTypeOK, Running, InUnpack
    <2> QED
      BY <2>1, <2>2 DEF LabelLayer
  <1>4. /\ err' \in [Client -> {"none", "missing", "exists", "failed"}]
        /\ faults' \in 0..MaxFaults
    BY FaultType DEF LabelLayer, UnpackTypeOK
  <1>5. /\ p \in leases' /\ leases' = leases
        /\ \A l \in DOMAIN active' : Present(Parent(l.chain))
    BY <1>1, <1>2 DEF LeaseHeld, ParentsPresent
  <1>6. /\ IsPartial(active', Key, [tree : Seq(Digest \cup {Torn}), lessee : Client])
        /\ IsPartial(gcref', Config, Chain) /\ unique' \in [Client -> Unique]
        /\ leases' \subseteq Client /\ leased' \in [Client -> SUBSET Chain]
    BY <1>1, <1>2 DEF UnpackTypeOK, StoreTypeOK
  <1> QED
    BY <1>1, <1>2, <1>3, <1>4, <1>5, <1>6, QuietStructure

\* The steps that leave the loop behind.
LEMMA LateStep ==
    ASSUME Structure, NEW p \in Client, NEW next \in {"new_snapshot", "create", "release", "done"},
           pc[p] \in {"label_config", "new_snapshot", "create", "release"},
           pc' = [pc EXCEPT ![p] = next], UNCHANGED <<opts, chain>>
    PROVE  /\ ChainGrows'
           /\ pc' \in [Client -> {"start"} \cup Running \cup Ended]
           /\ pc[p] \in Running /\ pc'[p] = next /\ \A q \in Client \ {p} : pc'[q] = pc[q]
  <1> USE DEF Structure
  <1>1. /\ pc' \in [Client -> {"start"} \cup Running \cup Ended] /\ pc[p] \in Running
        /\ pc'[p] = next /\ \A q \in Client \ {p} : pc'[q] = pc[q]
    BY DEF UnpackTypeOK, Running, InUnpack, Ended
  <1>2. ChainGrows'
    BY <1>1 DEF ChainGrows, RootFS, InUnpack
  <1> QED
    BY <1>1, <1>2

\* The two outcomes of a call.
LEMMA ReturnCases ==
    ASSUME UnpackTypeOK, NEW p \in Client, NEW next, NEW kind, NEW onError,
           Return(p, next, kind, onError)
    PROVE  /\ pc' = [pc EXCEPT ![p] = next] \/ pc' = [pc EXCEPT ![p] = onError]
           /\ err' \in [Client -> {"none", "missing", "exists", "failed"}]
           /\ faults' \in 0..MaxFaults
  BY FaultType DEF Return, Succeed, Goto, UnpackTypeOK

LEMMA LabelConfigStructure == ASSUME Structure, NEW p \in Client, LabelConfig(p) PROVE Structure'
  <1> USE DEF Structure
  <1>1. pc[p] = "label_config" /\ UNCHANGED <<opts, chain, unique>>
    BY DEF LabelConfig
  <1>2. /\ gcref' = Put(gcref, ConfigOf[opts[p].image], chain[p])
        /\ UNCHANGED <<committed, active, rw, records, uncompressed, leases, leased>>
    BY DEF LabelConfig, SetGCRef
  <1>3. /\ pc' = [pc EXCEPT ![p] = "new_snapshot"] \/ pc' = [pc EXCEPT ![p] = "release"]
        /\ err' \in [Client -> {"none", "missing", "exists", "failed"}]
        /\ faults' \in 0..MaxFaults
    BY ReturnCases DEF LabelConfig
  <1>4. chain[p] \in Chain /\ ConfigOf[opts[p].image] \in Config
    BY <1>1, RootFSType, StoreAssumption DEF ChainGrows, UnpackTypeOK
  <1>5. IsPartial(gcref', Config, Chain)
    BY <1>2, <1>4, PartialPut DEF UnpackTypeOK, StoreTypeOK
  <1>6. /\ ChainGrows'
        /\ pc' \in [Client -> {"start"} \cup Running \cup Ended] /\ pc[p] \in Running
        /\ pc'[p] # "create" /\ \A q \in Client \ {p} : pc'[q] = pc[q]
    BY <1>1, <1>3, LateStep
  <1>7. /\ p \in leases' /\ leases' = leases
        /\ \A l \in DOMAIN active' : Present(Parent(l.chain))
    BY <1>2, <1>6 DEF LeaseHeld, ParentsPresent
  <1>8. /\ IsPartial(active', Key, [tree : Seq(Digest \cup {Torn}), lessee : Client])
        /\ uncompressed' \subseteq Digest
        /\ leases' \subseteq Client /\ leased' \in [Client -> SUBSET Chain]
        /\ chain' \in [Client -> Chain \cup {<<>>}] /\ unique' \in [Client -> Unique]
    BY <1>1, <1>2 DEF UnpackTypeOK, StoreTypeOK
  <1> QED
    BY <1>1, <1>2, <1>3, <1>5, <1>6, <1>7, <1>8, QuietStructure

LEMMA NewSnapshotStructure == ASSUME Structure, NEW p \in Client, NewSnapshot(p) PROVE Structure'
  <1> USE DEF Structure
  <1> DEFINE id == opts[p].id
  <1> DEFINE snap == [parent |-> RootFS(p), lessee |-> p]
  <1>1. pc[p] = "new_snapshot" /\ UNCHANGED <<opts, chain, unique>>
    BY DEF NewSnapshot
  <1>2. CASE UNCHANGED store /\ \E e \in {"exists", "missing"} : Fail(p, e, "release")
    <2>1. /\ pc' = [pc EXCEPT ![p] = "release"]
          /\ err' \in [Client -> {"none", "missing", "exists", "failed"}]
          /\ faults' \in 0..MaxFaults
      BY <1>2 DEF Fail, Goto, UnpackTypeOK
    <2>2. /\ ChainGrows'
          /\ pc' \in [Client -> {"start"} \cup Running \cup Ended] /\ pc[p] \in Running
          /\ pc'[p] = "release" /\ \A q \in Client \ {p} : pc'[q] = pc[q]
      BY <1>1, <2>1, LateStep
    <2> QED
      BY <1>1, <1>2, <2>1, <2>2, MoveStructure DEF UnpackTypeOK
  <1>3. CASE /\ id \notin DOMAIN rw
             /\ Present(RootFS(p))
             /\ PrepareRootfs(id, RootFS(p), p)
             /\ Return(p, "create", "lost_reply", "release")
    <2>1. /\ pc' = [pc EXCEPT ![p] = "create"] \/ pc' = [pc EXCEPT ![p] = "release"]
          /\ err' \in [Client -> {"none", "missing", "exists", "failed"}]
          /\ faults' \in 0..MaxFaults
      BY <1>3, ReturnCases
    <2>2. /\ rw' = Put(rw, id, snap)
          /\ UNCHANGED <<committed, active, records, gcref, uncompressed, leases, leased>>
      BY <1>3 DEF PrepareRootfs
    <2>3. id \in ContainerID /\ snap \in [parent : Chain, lessee : Client]
      BY RootFSType DEF UnpackTypeOK
    <2>4. IsPartial(rw', ContainerID, [parent : Chain, lessee : Client])
      BY <2>2, <2>3, PartialPut DEF UnpackTypeOK, StoreTypeOK
    <2>5. /\ ChainGrows'
          /\ pc' \in [Client -> {"start"} \cup Running \cup Ended]
          /\ \A q \in Client \ {p} : pc'[q] = pc[q]
      BY <1>1, <2>1, LateStep
    <2>6. UnpackTypeOK'
      BY <1>1, <2>1, <2>2, <2>4, <2>5 DEF UnpackTypeOK, StoreTypeOK
    <2>7. LeaseHeld'
      BY <1>1, <2>5, <2>2 DEF LeaseHeld, Running
    <2>8. /\ id \in DOMAIN rw' /\ rw'[id] = snap /\ DOMAIN rw' = DOMAIN rw \cup {id}
          /\ \A j \in DOMAIN rw : rw'[j] = rw[j]
      BY <1>3, <2>2 DEF Put
    <2>9. RootfsPrepared'
      BY <1>1, <2>5, <2>8 DEF RootfsPrepared, RootFS
    <2>10. ParentsPresent'
      BY <1>3, <2>2, <2>8 DEF ParentsPresent, Present
    <2>11. RootfsIntact'
      BY <2>2, <2>8 DEF RootfsIntact
    <2> QED
      BY <2>5, <2>6, <2>7, <2>9, <2>10, <2>11
  <1> QED
    BY <1>2, <1>3 DEF NewSnapshot

LEMMA CreateRecordStructure == ASSUME Structure, NEW p \in Client, CreateRecord(p) PROVE Structure'
  <1> USE DEF Structure
  <1> DEFINE id == opts[p].id
  <1>1. pc[p] = "create" /\ UNCHANGED <<opts, chain, unique>>
    BY DEF CreateRecord
  <1>2. /\ pc' = [pc EXCEPT ![p] = "release"]
        /\ err' \in [Client -> {"none", "missing", "exists", "failed"}]
        /\ faults' \in 0..MaxFaults
    BY ReturnCases DEF CreateRecord, Fail, Goto, UnpackTypeOK
  <1>3. /\ records' = records \/ records' = Put(records, id, opts[p].image)
        /\ UNCHANGED <<committed, active, rw, gcref, uncompressed, leases, leased>>
    BY DEF CreateRecord, AddRecord, store
  <1>4. id \in ContainerID /\ opts[p].image \in Image
    BY DEF UnpackTypeOK
  <1>5. IsPartial(records', ContainerID, Image)
    BY <1>3, <1>4, PartialPut DEF UnpackTypeOK, StoreTypeOK
  <1>6. /\ ChainGrows'
        /\ pc' \in [Client -> {"start"} \cup Running \cup Ended]
        /\ pc'[p] = "release" /\ \A q \in Client \ {p} : pc'[q] = pc[q]
    BY <1>1, <1>2, LateStep
  <1>7. UnpackTypeOK'
    BY <1>1, <1>2, <1>3, <1>5, <1>6 DEF UnpackTypeOK, StoreTypeOK
  <1>8. LeaseHeld' /\ RootfsPrepared'
    BY <1>1, <1>6, <1>3 DEF LeaseHeld, RootfsPrepared, RootFS, Running
  <1>9. ParentsPresent'
    BY <1>3 DEF ParentsPresent, Present
  <1>10. /\ id \in DOMAIN rw
         /\ rw[id].parent = Layers[opts[p].image]
         /\ rw[id].parent \in DOMAIN committed
    <2>1. id \in DOMAIN rw /\ rw[id].parent = RootFS(p) /\ Present(RootFS(p))
      <3>1. id \in DOMAIN rw /\ rw[id] = [parent |-> RootFS(p), lessee |-> p]
        BY <1>1 DEF RootfsPrepared
      <3>2. Present(rw[id].parent)
        BY <3>1 DEF ParentsPresent
      <3> QED
        BY <3>1, <3>2
    <2>2. RootFS(p) # <<>>
      BY RootFSType, ChainType
    <2> QED
      BY <2>1, <2>2 DEF Present, RootFS
  <1>11. RootfsIntact'
    BY <1>3, <1>10 DEF RootfsIntact, Put
  <1> QED
    BY <1>6, <1>7, <1>8, <1>9, <1>11

\* A lease goes when its client is at its end.
LEMMA ReleaseStructure ==
    ASSUME Structure, NEW p \in Client, Release(p) \/ Expire(p)
    PROVE  Structure'
  <1> USE DEF Structure
  <1>1. /\ UNCHANGED <<opts, chain, unique, err>>
        /\ \/ pc[p] = "release" /\ pc' = [pc EXCEPT ![p] = "done"]
           \/ pc[p] \in Ended /\ UNCHANGED pc
    BY DEF Release, Expire, Goto, client
  <1>2. /\ leases \ {p} \subseteq leases' /\ leases' \subseteq leases
        /\ leased' \in [Client -> SUBSET Chain]
        /\ UNCHANGED <<committed, active, rw, records, gcref, uncompressed>>
    BY DEF Release, Expire, DropLease, store, UnpackTypeOK, StoreTypeOK
  <1>3. faults' \in 0..MaxFaults
    BY FaultType DEF Release, Expire, UnpackTypeOK
  <1>4. /\ ChainGrows'
        /\ pc' \in [Client -> {"start"} \cup Running \cup Ended]
        /\ pc'[p] \in Ended /\ \A q \in Client \ {p} : pc'[q] = pc[q]
    <2>1. CASE pc[p] = "release" /\ pc' = [pc EXCEPT ![p] = "done"]
      BY <1>1, <2>1, LateStep DEF Ended
    <2>2. CASE pc[p] \in Ended /\ UNCHANGED pc
      BY <1>1, <2>2 DEF ChainGrows, RootFS, UnpackTypeOK
    <2> QED
      BY <1>1, <2>1, <2>2
  <1>5. \A l \in DOMAIN active' : Present(Parent(l.chain))
    BY <1>2 DEF ParentsPresent
  <1>6. pc'[p] \notin Running /\ pc'[p] # "create"
    BY <1>4 DEF Running, InUnpack, Ended
  <1>7. /\ IsPartial(active', Key, [tree : Seq(Digest \cup {Torn}), lessee : Client])
        /\ IsPartial(gcref', Config, Chain) /\ uncompressed' \subseteq Digest
        /\ leases' \subseteq Client
        /\ chain' \in [Client -> Chain \cup {<<>>}] /\ unique' \in [Client -> Unique]
        /\ err' \in [Client -> {"none", "missing", "exists", "failed"}]
    BY <1>1, <1>2 DEF UnpackTypeOK, StoreTypeOK
  <1> QED
    BY <1>1, <1>2, <1>3, <1>4, <1>5, <1>6, <1>7, QuietStructure

\* What the collector leaves of the snapshots.
LEMMA Collected ==
    ASSUME CollectGarbage
    PROVE  /\ DOMAIN committed' = KeptChains /\ \A c \in KeptChains : committed'[c] = committed[c]
           /\ DOMAIN active' = KeptKeys /\ \A k \in KeptKeys : active'[k] = active[k]
           /\ DOMAIN rw' = KeptRootfs /\ \A id \in KeptRootfs : rw'[id] = rw[id]
           /\ KeptChains \subseteq DOMAIN committed
           /\ KeptKeys \subseteq DOMAIN active
           /\ KeptRootfs \subseteq DOMAIN rw
           /\ UNCHANGED <<records, gcref, uncompressed, leases, leased>>
           /\ UNCHANGED <<opts, pc, chain, unique, err, faults>>
  <1>1. /\ committed' = Restrict(committed, KeptChains)
        /\ active' = Restrict(active, KeptKeys)
        /\ rw' = Restrict(rw, KeptRootfs)
        /\ UNCHANGED <<records, gcref, uncompressed, leases, leased>>
        /\ UNCHANGED <<opts, pc, chain, unique, err, faults>>
    BY DEF CollectGarbage, Collect, client
  <1>2. /\ KeptChains \subseteq DOMAIN committed
        /\ KeptKeys \subseteq DOMAIN active
        /\ KeptRootfs \subseteq DOMAIN rw
    BY DEF KeptChains, KeptKeys, KeptRootfs
  <1> QED
    BY <1>1, <1>2 DEF Restrict

LEMMA CollectStructure == ASSUME Structure, CollectGarbage PROVE Structure'
  <1> USE DEF Structure
  <1>1. /\ committed' = Restrict(committed, KeptChains)
        /\ active' = Restrict(active, KeptKeys)
        /\ rw' = Restrict(rw, KeptRootfs)
    BY DEF CollectGarbage, Collect
  <1>2. /\ IsPartial(committed', Chain, Seq(Digest \cup {Torn}))
        /\ IsPartial(active', Key, [tree : Seq(Digest \cup {Torn}), lessee : Client])
        /\ IsPartial(rw', ContainerID, [parent : Chain, lessee : Client])
    BY <1>1, Collected, PartialRestrict DEF UnpackTypeOK, StoreTypeOK
  <1>3. UnpackTypeOK'
    BY <1>2, Collected DEF UnpackTypeOK, StoreTypeOK
  <1>4. LeaseHeld' /\ ChainGrows'
    BY Collected DEF LeaseHeld, ChainGrows, RootFS
  <1>5. \A c \in Pins : Present(c) => c = <<>> \/ c \in KeptChains
    BY PinnedKept DEF Present, UnpackTypeOK
  <1>6. ParentsPresent'
    <2>1. \A c \in DOMAIN committed' : Present(Parent(c))'
      BY Collected, KeptClosed DEF Present, UnpackTypeOK, ParentsPresent
    <2>2. \A k \in KeptKeys : Parent(k.chain) \in Pins /\ Present(Parent(k.chain))
      BY Collected, PinsOf DEF ParentsPresent
    <2>3. \A k \in DOMAIN active' : Present(Parent(k.chain))'
      BY <1>5, <2>2, Collected DEF Present
    <2>4. \A id \in KeptRootfs : rw[id].parent \in Pins /\ Present(rw[id].parent)
      BY Collected, PinsOf DEF ParentsPresent
    <2>5. \A id \in DOMAIN rw' : Present(rw[id].parent)'
      BY <1>5, <2>4, Collected DEF Present
    <2> QED
      BY <2>1, <2>3, <2>5 DEF ParentsPresent
  <1>7. RootfsPrepared'
    BY Collected DEF RootfsPrepared, RootFS, KeptRootfs, LeaseHeld, Running
  <1>8. RootfsIntact'
    <2>1. \A id \in DOMAIN records : id \in KeptRootfs
      BY DEF RootfsIntact, KeptRootfs
    <2>2. \A id \in DOMAIN records : rw[id].parent \in KeptChains
      <3>1. \A id \in KeptRootfs : rw[id].parent \in Pins
        BY PinsOf
      <3> QED
        BY <2>1, <3>1, PinnedKept DEF RootfsIntact, UnpackTypeOK
    <2> QED
      BY Collected, <2>1, <2>2 DEF RootfsIntact
  <1> QED
    BY <1>3, <1>4, <1>6, <1>7, <1>8

LEMMA InitStructure == Init => Structure
  <1> SUFFICES ASSUME Init PROVE Structure
    OBVIOUS
  <1> USE DEF Init, StoreInit
  <1>1. UnpackTypeOK
    BY StoreAssumption, FaultAssumption DEF UnpackTypeOK, StoreTypeOK, IsPartial
  <1>2. LeaseHeld /\ RootfsPrepared
    BY DEF LeaseHeld, RootfsPrepared, Running, InUnpack
  <1>3. ChainGrows
    BY <1>1, RootFSType DEF ChainGrows, InUnpack
  <1>4. ParentsPresent /\ RootfsIntact
    BY DEF ParentsPresent, RootfsIntact
  <1> QED
    BY <1>1, <1>2, <1>3, <1>4 DEF Structure

LEMMA StepStructure == ASSUME Structure, [Next]_vars PROVE Structure'
  <1>1. CASE \E p \in Client : Start(p) \/ Step(p) \/ CallFails(p) \/ Crash(p) \/ Expire(p)
    <2> PICK p \in Client : Start(p) \/ Step(p) \/ CallFails(p) \/ Crash(p) \/ Expire(p)
      BY <1>1
    <2>1. CASE Step(p)
      BY <2>1, LocalStructure, PrepareLayerStructure, ApplyStructure, CommitLayerStructure,
         RemoveKeyStructure, LabelLayerStructure, LabelConfigStructure, NewSnapshotStructure,
         CreateRecordStructure, ReleaseStructure DEF Step
    <2> QED
      BY <2>1, StartStructure, LocalStructure, ReleaseStructure
  <1>2. CASE CollectGarbage
    BY <1>2, CollectStructure
  <1>3. CASE UNCHANGED vars
    <2>1. UNCHANGED <<committed, active, rw, records, gcref, uncompressed, leases, leased,
                      opts, pc, chain, unique, err, faults>>
      BY <1>3 DEF vars, store, client
    <2>2. UnpackTypeOK' /\ LeaseHeld' /\ ChainGrows'
      BY <2>1 DEF Structure, UnpackTypeOK, StoreTypeOK, IsPartial, LeaseHeld, ChainGrows, RootFS
    <2>3. ParentsPresent' /\ RootfsPrepared' /\ RootfsIntact'
      BY <2>1 DEF Structure, ParentsPresent, RootfsPrepared, RootfsIntact, Present, RootFS
    <2> QED
      BY <2>2, <2>3 DEF Structure
  <1> QED
    BY <1>1, <1>2, <1>3 DEF Next, Quiet

-----------------------------------------------------------------------------
(* Whose key it is and what is in it.                                      *)

\* A step of a client leaves the others where they are.
LEMMA OthersStay ==
    ASSUME UnpackTypeOK, NEW p \in Client,
           Start(p) \/ Step(p) \/ CallFails(p) \/ Crash(p) \/ Expire(p)
    PROVE  /\ UNCHANGED opts
           /\ \A q \in Client \ {p} :
                 /\ pc'[q] = pc[q]
                 /\ ChainID(q)' = ChainID(q) /\ chain'[q] = chain[q]
                 /\ KeyOf(q)' = KeyOf(q)
  <1> USE DEF UnpackTypeOK, Goto
  <1>1. UNCHANGED opts /\ \A q \in Client \ {p} : pc'[q] = pc[q]
    <2>1. CASE Start(p) \/ CallFails(p) \/ Crash(p) \/ Expire(p) \/ Release(p)
      BY <2>1 DEF Start, Succeed, CallFails, GiveUp, Crash, Expire, Release, client
    <2>2. CASE IsUnpacked(p) \/ StatLayer(p) \/ PrepareLayer(p) \/ ApplyBegin(p) \/ ApplyEnd(p)
      BY <2>2 DEF IsUnpacked, StatLayer, NextLayer, PrepareLayer, ApplyBegin, ApplyEnd, Succeed,
         Fail, Return
    <2>3. CASE CommitLayer(p) \/ RemoveKey(p) \/ LabelLayer(p)
      BY <2>3 DEF CommitLayer, LoseCommit, RemoveKey, LabelLayer, NextLayer, Succeed, Fail, Return
    <2>4. CASE LabelConfig(p) \/ NewSnapshot(p) \/ CreateRecord(p)
      BY <2>4 DEF LabelConfig, NewSnapshot, CreateRecord, Succeed, Fail, Return
    <2> QED
      BY <2>1, <2>2, <2>3, <2>4 DEF Step
  <1>2. \A q \in Client \ {p} : chain'[q] = chain[q] /\ unique'[q] = unique[q]
    <2>1. UNCHANGED unique \/ \E u \in Unique : unique' = [unique EXCEPT ![p] = u]
      BY DEF Start, CallFails, Crash, Expire, Step, Release, IsUnpacked, StatLayer, PrepareLayer,
         ApplyBegin, ApplyEnd, CommitLayer, RemoveKey, LabelLayer, LabelConfig, NewSnapshot,
         CreateRecord, client
    <2>2. UNCHANGED chain \/ chain' = [chain EXCEPT ![p] = ChainID(p)]
      BY DEF Start, CallFails, Crash, Expire, Step, Release, IsUnpacked, StatLayer, PrepareLayer,
         ApplyBegin, ApplyEnd, CommitLayer, RemoveKey, LabelLayer, LabelConfig, NewSnapshot,
         CreateRecord, client, NextLayer
    <2> QED
      BY <2>1, <2>2
  <1> QED
    BY <1>1, <1>2 DEF KeyOf, ChainID, Layer, RootFS

\* The steps that neither prepare a key, nor write under one, nor commit it.
Bystanding(p) ==
    \/ Start(p) \/ IsUnpacked(p) \/ StatLayer(p) \/ RemoveKey(p) \/ LabelLayer(p)
    \/ LabelConfig(p) \/ NewSnapshot(p) \/ CreateRecord(p) \/ Release(p)
    \/ CallFails(p) \/ Crash(p) \/ Expire(p)

LEMMA BystandingKeys ==
    ASSUME UnpackTypeOK, NEW p \in Client, Bystanding(p)
    PROVE  /\ UNCHANGED committed
           /\ pc'[p] \notin Writing
           /\ \/ UNCHANGED active
              \/ RemoveKey(p) /\ active' = Restrict(active, DOMAIN active \ {KeyOf(p)})
           /\ RemoveKey(p) => pc'[p] \notin HoldsKey
           /\ pc'[p] \in HoldsKey =>
                 pc[p] \in HoldsKey /\ chain'[p] = chain[p] /\ unique'[p] = unique[p]
  <1> USE DEF UnpackTypeOK, Goto, store, Writing, HoldsKey
  <1>1. CASE Start(p) \/ Crash(p) \/ Expire(p) \/ Release(p)
    BY <1>1 DEF Start, AcquireLease, Succeed, Crash, Expire, DropLease, Release, client, Ended
  <1>2. CASE CallFails(p)
    BY <1>2 DEF CallFails, GiveUp, RemoveKey
  <1>3. CASE IsUnpacked(p) \/ StatLayer(p) \/ LabelLayer(p)
    BY <1>3 DEF IsUnpacked, StatLayer, LabelLayer, SetUncompressed, NextLayer, Succeed
  <1>4. CASE RemoveKey(p)
    BY <1>4 DEF RemoveKey, RemoveActive, Without, NextLayer
  <1>5. CASE LabelConfig(p) \/ NewSnapshot(p) \/ CreateRecord(p)
    <2>1. pc'[p] \in {"new_snapshot", "create", "release"}
      BY <1>5 DEF LabelConfig, NewSnapshot, CreateRecord, Succeed, Fail, Return
    <2>2. UNCHANGED <<committed, active>>
      BY <1>5 DEF LabelConfig, SetGCRef, NewSnapshot, PrepareRootfs, CreateRecord, AddRecord
    <2>3. ~ RemoveKey(p)
      BY <1>5 DEF LabelConfig, NewSnapshot, CreateRecord, RemoveKey
    <2> QED
      BY <2>1, <2>2, <2>3
  <1> QED
    BY <1>1, <1>2, <1>3, <1>4, <1>5 DEF Bystanding

Trees == KeyHolds /\ CommittedComplete

LEMMA BystandingTrees ==
    ASSUME UnpackTypeOK, Trees, NEW p \in Client, Bystanding(p)
    PROVE  Trees'
  <1>1. /\ UNCHANGED <<committed, opts>>
        /\ pc'[p] \notin Writing
        /\ \A k \in DOMAIN active' : k \in DOMAIN active /\ active'[k] = active[k]
    BY BystandingKeys, OthersStay DEF Restrict, Bystanding, Step
  <1>2. \A q \in Client \ {p} : /\ pc'[q] = pc[q] /\ ChainID(q)' = ChainID(q)
                                /\ chain'[q] = chain[q] /\ KeyOf(q)' = KeyOf(q)
    BY OthersStay DEF Bystanding, Step
  <1>3. KeyHolds'
    BY <1>1, <1>2 DEF Trees, KeyHolds
  <1>4. CommittedComplete'
    BY <1>1 DEF Trees, CommittedComplete
  <1> QED
    BY <1>3, <1>4 DEF Trees

\* Here it matters that the key is fresh: were it that of another client that
\* writes, both would write to one snapshot.
LEMMA PrepareLayerTrees ==
    ASSUME Structure, Trees, NEW p \in Client, PrepareLayer(p), DrawsFresh
    PROVE  Trees'
  <1>1. PICK u \in Unique :
            LET k == [unique |-> u, chain |-> ChainID(p)]
            IN  /\ k \notin DOMAIN active
                /\ \/ /\ Fail(p, "missing", "release")
                      /\ UNCHANGED <<store, unique>>
                   \/ /\ Present(Parent(k.chain))
                      /\ PrepareKey(k, p)
                      /\ unique' = [unique EXCEPT ![p] = u]
                      /\ Return(p, "apply", "lost_reply", "release")
    BY DEF PrepareLayer
  <1> DEFINE k == [unique |-> u, chain |-> ChainID(p)]
  <1>2. /\ pc[p] \in InUnpack \ {"label_config"} /\ UNCHANGED <<opts, chain>>
        /\ UnpackTypeOK /\ ChainGrows
    BY DEF PrepareLayer, InUnpack, Structure
  <1>3. k.chain = ChainID(p) /\ Parent(ChainID(p)) = chain[p]
    BY <1>2, WorkTypes
  <1>4. \A q \in Client \ {p} : /\ pc'[q] = pc[q] /\ ChainID(q)' = ChainID(q)
                                /\ chain'[q] = chain[q] /\ KeyOf(q)' = KeyOf(q)
    BY <1>2, OthersStay DEF Step
  <1>5. CASE Fail(p, "missing", "release") /\ UNCHANGED <<store, unique>>
    <2>1. pc'[p] = "release" /\ UNCHANGED <<committed, active>>
      BY <1>2, <1>5 DEF Fail, Goto, store, UnpackTypeOK
    <2> QED
      BY <1>4, <2>1 DEF Trees, KeyHolds, CommittedComplete, Writing
  <1>6. CASE /\ Present(chain[p])
             /\ PrepareKey(k, p)
             /\ unique' = [unique EXCEPT ![p] = u]
             /\ Return(p, "apply", "lost_reply", "release")
    <2> DEFINE snap == [tree |-> IF chain[p] = <<>> THEN <<>> ELSE committed[chain[p]],
                        lessee |-> p]
    <2>1. active' = Put(active, k, snap) /\ UNCHANGED committed
      BY <1>6, <1>3 DEF PrepareKey
    <2>2. snap.tree = chain[p]
      BY <1>6 DEF Present, Trees, CommittedComplete
    <2>3. /\ k \in DOMAIN active' \ DOMAIN active /\ active'[k] = snap
          /\ \A l \in DOMAIN active' \ {k} : l \in DOMAIN active /\ active'[l] = active[l]
      BY <1>1, <2>1 DEF Put
    <2>4. \A q \in Client : pc[q] \in Writing => KeyOf(q) # k
      BY <2>3 DEF DrawsFresh
    <2>5. \A q \in Client \ {p} : pc'[q] \in Writing =>
             KeyOf(q)' # k
      BY <1>4, <2>4
    <2>6. pc'[p] \in {"apply", "release"} /\ KeyOf(p)' = k /\ chain'[p] = chain[p]
      <3>1. pc' = [pc EXCEPT ![p] = "apply"] \/ pc' = [pc EXCEPT ![p] = "release"]
        BY <1>6 DEF Return, Succeed, Goto
      <3>2. ChainID(p)' = ChainID(p)
        BY <1>2 DEF ChainID, Layer, RootFS
      <3> QED
        BY <1>2, <1>6, <3>1, <3>2 DEF KeyOf, UnpackTypeOK
    <2>7. KeyHolds'
      <3> SUFFICES ASSUME NEW q \in Client, pc'[q] \in Writing, KeyOf(q)' \in DOMAIN active'
                   PROVE  /\ active'[KeyOf(q)'].lessee = q
                          /\ pc'[q] = "apply" => active'[KeyOf(q)'].tree = chain'[q]
                          /\ pc'[q] = "applying" => active'[KeyOf(q)'].tree = Append(chain'[q], Torn)
                          /\ pc'[q] = "commit" => active'[KeyOf(q)'].tree = ChainID(q)'
        BY DEF KeyHolds
      <3>1. CASE q = p
        BY <2>2, <2>3, <2>6, <3>1 DEF Writing
      <3>2. CASE q # p
        <4>1. KeyOf(q) \in DOMAIN active /\ active'[KeyOf(q)] = active[KeyOf(q)]
          BY <1>4, <2>3, <2>5, <3>2
        <4> QED
          BY <1>4, <3>2, <4>1 DEF Trees, KeyHolds
      <3> QED
        BY <3>1, <3>2
    <2> QED
      BY <2>1, <2>7 DEF Trees, CommittedComplete
  <1> QED
    BY <1>1, <1>3, <1>5, <1>6

\* A snapshot that is still there is written by its own client only.
LEMMA ApplyTrees ==
    ASSUME Structure, Trees, NEW p \in Client, ApplyBegin(p) \/ ApplyEnd(p)
    PROVE  Trees'
  <1> DEFINE k == KeyOf(p)
  <1>1. /\ pc[p] \in {"apply", "applying"} /\ pc[p] \in InUnpack \ {"label_config"}
        /\ UNCHANGED <<opts, chain, unique>> /\ UnpackTypeOK /\ ChainGrows
        /\ ApplyBegin(p) => pc[p] = "apply" /\ pc'[p] = "applying"
        /\ ApplyEnd(p) => pc[p] = "applying" /\ pc'[p] = "commit"
    BY DEF ApplyBegin, ApplyEnd, Succeed, Goto, InUnpack, Structure, UnpackTypeOK
  <1>2. \A q \in Client : /\ ChainID(q)' = ChainID(q) /\ KeyOf(q)' = KeyOf(q)
                          /\ chain'[q] = chain[q] /\ (q # p => pc'[q] = pc[q])
    BY <1>1, OthersStay DEF Step, KeyOf, ChainID, Layer, RootFS
  <1>3. CASE k \notin DOMAIN active
    <2>1. UNCHANGED <<committed, active>>
      BY <1>3 DEF ApplyBegin, ApplyEnd, store
    <2> QED
      BY <1>2, <1>3, <2>1 DEF Trees, KeyHolds, CommittedComplete
  <1>4. CASE k \in DOMAIN active
    <2>1. /\ active[k].lessee = p
          /\ pc[p] = "apply" => active[k].tree = chain[p]
          /\ pc[p] = "applying" => active[k].tree = Append(chain[p], Torn)
      BY <1>1, <1>4 DEF Trees, KeyHolds, Writing
    <2>2. chain[p] \in Seq(Digest \cup {Torn})
      <3>1. chain[p] \in Seq(Digest)
        BY <1>1, WorkTypes
      <3> QED
        BY <3>1
    <2>3. Front(Append(chain[p], Torn)) = chain[p]
      BY <2>2, FrontAppend
    <2> DEFINE t == IF pc[p] = "apply" THEN Append(chain[p], Torn) ELSE ChainID(p)
    <2>4. WriteKey(k, t)
      BY <1>1, <1>4, <2>1, <2>3 DEF ApplyBegin, ApplyEnd, ChainID
    <2>5. active' = [active EXCEPT ![k].tree = t] /\ UNCHANGED committed
      BY <2>4 DEF WriteKey
    <2>6. active[k] \in [tree : Seq(Digest \cup {Torn}), lessee : Client]
      BY <1>1, <1>4 DEF UnpackTypeOK, StoreTypeOK, IsPartial
    <2>7. /\ DOMAIN active' = DOMAIN active
          /\ active'[k].tree = t /\ active'[k].lessee = p
          /\ \A l \in DOMAIN active \ {k} : active'[l] = active[l]
      BY <1>4, <2>1, <2>5, <2>6
    <2>8. \A q \in Client \ {p} : pc[q] \in Writing /\ KeyOf(q) \in DOMAIN active => KeyOf(q) # k
      BY <2>1 DEF Trees, KeyHolds
    <2>9. KeyHolds'
      <3>1. \A q \in Client \ {p} : pc'[q] \in Writing /\ KeyOf(q)' \in DOMAIN active' =>
               active'[KeyOf(q)'] = active[KeyOf(q)]
        BY <1>2, <2>7, <2>8
      <3>2. active'[KeyOf(p)'].lessee = p /\ active'[KeyOf(p)'].tree = t
        BY <1>2, <2>7
      <3>3. /\ pc'[p] = "applying" => t = Append(chain'[p], Torn)
            /\ pc'[p] = "commit" => t = ChainID(p)'
            /\ pc'[p] \in {"applying", "commit"}
        BY <1>1, <1>2
      <3> SUFFICES ASSUME NEW q \in Client, pc'[q] \in Writing, KeyOf(q)' \in DOMAIN active'
                   PROVE  /\ active'[KeyOf(q)'].lessee = q
                          /\ pc'[q] = "apply" => active'[KeyOf(q)'].tree = chain'[q]
                          /\ pc'[q] = "applying" => active'[KeyOf(q)'].tree = Append(chain'[q], Torn)
                          /\ pc'[q] = "commit" => active'[KeyOf(q)'].tree = ChainID(q)'
        BY DEF KeyHolds
      <3>4. CASE q = p
        BY <3>2, <3>3, <3>4
      <3>5. CASE q # p
        BY <1>2, <2>7, <3>1, <3>5 DEF Trees, KeyHolds
      <3> QED
        BY <3>4, <3>5
    <2> QED
      BY <2>5, <2>9 DEF Trees, CommittedComplete
  <1> QED
    BY <1>3, <1>4

LEMMA CommitLayerTrees ==
    ASSUME Structure, Trees, NEW p \in Client, CommitLayer(p)
    PROVE  Trees'
  <1> DEFINE k == KeyOf(p)
  <1>1. pc[p] = "commit" /\ UnpackTypeOK /\ k.chain = ChainID(p)
    BY DEF CommitLayer, Structure, KeyOf
  <1>2. \A q \in Client \ {p} : /\ pc'[q] = pc[q] /\ ChainID(q)' = ChainID(q)
                                /\ chain'[q] = chain[q] /\ KeyOf(q)' = KeyOf(q)
    BY <1>1, OthersStay DEF Step
  <1>3. pc'[p] \notin Writing
    BY <1>1 DEF CommitLayer, LoseCommit, Fail, Succeed, Return, Goto, Writing, UnpackTypeOK
  <1>4. CASE UNCHANGED store
    BY <1>2, <1>3, <1>4 DEF Trees, KeyHolds, CommittedComplete, store
  <1>5. CASE k \in DOMAIN active /\ CommitKey(k, p)
    <2>1. active[k].tree = ChainID(p)
      BY <1>1, <1>5 DEF Trees, KeyHolds, Writing
    <2>2. /\ committed' = Put(committed, ChainID(p), ChainID(p))
          /\ active' = Restrict(active, DOMAIN active \ {k})
      BY <1>1, <1>5, <2>1 DEF CommitKey, Without
    <2>3. CommittedComplete'
      BY <2>2 DEF Trees, CommittedComplete, Put
    <2>4. \A l \in DOMAIN active' : l \in DOMAIN active /\ active'[l] = active[l]
      BY <2>2 DEF Restrict
    <2>5. KeyHolds'
      BY <1>2, <1>3, <2>4 DEF Trees, KeyHolds
    <2> QED
      BY <2>3, <2>5 DEF Trees
  <1> QED
    BY <1>4, <1>5 DEF CommitLayer, LoseCommit

LEMMA StepTrees ==
    ASSUME Structure, Trees, [Next]_vars, [DrawsFresh]_vars
    PROVE  Trees'
  <1>1. UnpackTypeOK
    BY DEF Structure
  <1>2. CASE UNCHANGED vars
    <2>1. \A q \in Client : ChainID(q)' = ChainID(q) /\ KeyOf(q)' = KeyOf(q)
      BY <1>2 DEF vars, client, KeyOf, ChainID, Layer, RootFS
    <2>2. UNCHANGED <<committed, active, pc, chain>>
      BY <1>2 DEF vars, store, client
    <2>3. KeyHolds'
      BY <2>1, <2>2 DEF Trees, KeyHolds
    <2> QED
      BY <2>2, <2>3 DEF Trees, CommittedComplete
  <1>3. CASE CollectGarbage
    <2>1. \A q \in Client : ChainID(q)' = ChainID(q) /\ KeyOf(q)' = KeyOf(q)
      BY <1>3, Collected DEF KeyOf, ChainID, Layer, RootFS
    <2>2. \A k \in DOMAIN active' : k \in DOMAIN active /\ active'[k] = active[k]
      BY <1>3, Collected
    <2>3. KeyHolds'
      BY <1>3, <2>1, <2>2, Collected DEF Trees, KeyHolds
    <2>4. CommittedComplete'
      BY <1>3, Collected DEF Trees, CommittedComplete
    <2> QED
      BY <2>3, <2>4 DEF Trees
  <1>4. CASE DrawsFresh /\ \E p \in Client : Start(p) \/ Step(p) \/ CallFails(p) \/ Crash(p) \/ Expire(p)
    <2> PICK p \in Client : Start(p) \/ Step(p) \/ CallFails(p) \/ Crash(p) \/ Expire(p)
      BY <1>4
    <2>1. \/ Bystanding(p) \/ PrepareLayer(p) \/ ApplyBegin(p) \/ ApplyEnd(p) \/ CommitLayer(p)
      BY DEF Step, Bystanding
    <2> QED
      BY <1>1, <1>4, <2>1, BystandingTrees, PrepareLayerTrees, ApplyTrees, CommitLayerTrees
  <1> QED
    BY <1>2, <1>3, <1>4 DEF Next, Quiet

\* A step that leaves the keys of the others to them.
LEMMA KeptFrame ==
    ASSUME UnpackTypeOK, KeyKept, NEW p \in Client,
           Start(p) \/ Step(p) \/ CallFails(p) \/ Crash(p) \/ Expire(p),
           pc'[p] \in HoldsKey =>
              KeyOf(p)' \in DOMAIN active' /\ active'[KeyOf(p)'].lessee = p,
           \A k \in DOMAIN active : active[k].lessee # p =>
              k \in DOMAIN active' /\ active'[k].lessee = active[k].lessee
    PROVE  KeyKept'
  <1>1. \A q \in Client \ {p} : pc'[q] = pc[q] /\ KeyOf(q)' = KeyOf(q)
    BY OthersStay
  <1> QED
    BY <1>1 DEF KeyKept

\* The kinds of faults matter for the Commit: one that took effect under an
\* error would send the client to remove a key that is not its own.
LEMMA StepKept ==
    ASSUME "lost_commit" \notin FaultKinds, Structure, KeyKept, [Next]_vars
    PROVE  KeyKept'
  <1>1. UnpackTypeOK /\ LeaseHeld /\ ChainGrows
    BY DEF Structure
  <1>2. CASE UNCHANGED vars
    BY <1>2 DEF vars, store, client, KeyKept, KeyOf, ChainID, Layer, RootFS
  <1>3. CASE CollectGarbage
    <2>1. \A q \in Client : pc[q] \in HoldsKey => KeyOf(q) \in KeptKeys
      BY <1>1 DEF KeptKeys, KeyKept, LeaseHeld, HoldsKey, Running, InUnpack
    <2>2. \A q \in Client : KeyOf(q)' = KeyOf(q)
      BY <1>3, Collected DEF KeyOf, ChainID, Layer, RootFS
    <2> QED
      BY <1>3, <2>1, <2>2, Collected DEF KeyKept
  <1>4. CASE \E p \in Client : Start(p) \/ Step(p) \/ CallFails(p) \/ Crash(p) \/ Expire(p)
    <2> PICK p \in Client : Start(p) \/ Step(p) \/ CallFails(p) \/ Crash(p) \/ Expire(p)
      BY <1>4
    <2> DEFINE k == KeyOf(p)
    <2>1. UNCHANGED opts
      BY <1>1, OthersStay
    <2>2. CASE Bystanding(p)
      <3>1. pc'[p] \in HoldsKey => KeyOf(p)' = k /\ k \in DOMAIN active /\ active[k].lessee = p
                                   /\ UNCHANGED active
        BY <1>1, <2>1, <2>2, BystandingKeys DEF KeyKept, KeyOf, ChainID, Layer, RootFS
      <3>2. RemoveKey(p) => k \in DOMAIN active /\ active[k].lessee = p
        BY DEF RemoveKey, KeyKept, HoldsKey
      <3>3. \A l \in DOMAIN active : active[l].lessee # p =>
               l \in DOMAIN active' /\ active'[l].lessee = active[l].lessee
        BY <1>1, <2>2, <3>2, BystandingKeys DEF Restrict
      <3> QED
        BY <1>1, <3>1, <3>3, KeptFrame
    <2>3. CASE PrepareLayer(p)
      <3>1. PICK u \in Unique :
                LET l == [unique |-> u, chain |-> ChainID(p)]
                IN  /\ l \notin DOMAIN active
                    /\ \/ /\ Fail(p, "missing", "release")
                          /\ UNCHANGED <<store, unique>>
                       \/ /\ PrepareKey(l, p)
                          /\ unique' = [unique EXCEPT ![p] = u]
        BY <2>3 DEF PrepareLayer
      <3> DEFINE l == [unique |-> u, chain |-> ChainID(p)]
      <3>2. ChainID(p)' = ChainID(p)
        BY <2>3 DEF PrepareLayer, ChainID, Layer, RootFS
      <3>3. CASE Fail(p, "missing", "release") /\ UNCHANGED <<store, unique>>
        <4>1. pc'[p] \notin HoldsKey /\ UNCHANGED active
          BY <1>1, <3>3 DEF Fail, Goto, HoldsKey, store, UnpackTypeOK
        <4> QED
          BY <1>1, <4>1, KeptFrame
      <3>4. CASE PrepareKey(l, p) /\ unique' = [unique EXCEPT ![p] = u]
        <4>1. KeyOf(p)' = l
          BY <1>1, <3>2, <3>4 DEF KeyOf, UnpackTypeOK
        <4>2. /\ l \in DOMAIN active' /\ active'[l].lessee = p
              /\ \A j \in DOMAIN active : j \in DOMAIN active' /\ active'[j] = active[j]
          BY <3>1, <3>4 DEF PrepareKey, Put
        <4> QED
          BY <1>1, <4>1, <4>2, KeptFrame
      <3> QED
        BY <3>1, <3>3, <3>4
    <2>4. CASE ApplyBegin(p) \/ ApplyEnd(p)
      <3>1. k \in DOMAIN active /\ active[k].lessee = p
        BY <2>4 DEF ApplyBegin, ApplyEnd, KeyKept, HoldsKey
      <3>2. KeyOf(p)' = k
        BY <2>4 DEF ApplyBegin, ApplyEnd, KeyOf, ChainID, Layer, RootFS
      <3>3. \E t : active' = [active EXCEPT ![k].tree = t]
        BY <2>4, <3>1 DEF ApplyBegin, ApplyEnd, WriteKey
      <3>4. active \in [DOMAIN active -> [tree : Seq(Digest \cup {Torn}), lessee : Client]]
        BY <1>1 DEF UnpackTypeOK, StoreTypeOK, IsPartial
      <3>5. \A l \in DOMAIN active : l \in DOMAIN active' /\ active'[l].lessee = active[l].lessee
        BY <3>3, <3>4
      <3> QED
        BY <1>1, <3>1, <3>2, <3>5, KeptFrame
    <2>5. CASE CommitLayer(p)
      <3>1. k \in DOMAIN active /\ active[k].lessee = p
        BY <2>5 DEF CommitLayer, KeyKept, HoldsKey
      <3>2. KeyOf(p)' = k
        BY <2>5 DEF CommitLayer, KeyOf, ChainID, Layer, RootFS
      <3>3. CASE LoseCommit(p)
        BY <1>1, <3>1, <3>2, <3>3, KeptFrame DEF LoseCommit, store
      <3>4. CASE CommitKey(k, p) /\ Return(p, "label_layer", "lost_commit", "cleanup")
        <4>1. pc'[p] = "label_layer"
          BY <1>1, <3>4 DEF Return, Succeed, Fault, Goto, UnpackTypeOK
        <4>2. active' = Restrict(active, DOMAIN active \ {k})
          BY <3>4 DEF CommitKey, Without
        <4> QED
          BY <1>1, <3>1, <4>1, <4>2, KeptFrame DEF HoldsKey, Restrict
      <3> QED
        BY <2>5, <3>1, <3>3, <3>4 DEF CommitLayer
    <2>6. Bystanding(p) \/ PrepareLayer(p) \/ ApplyBegin(p) \/ ApplyEnd(p) \/ CommitLayer(p)
      BY DEF Step, Bystanding
    <2> QED
      BY <2>2, <2>3, <2>4, <2>5, <2>6
  <1> QED
    BY <1>2, <1>3, <1>4 DEF Next, Quiet

-----------------------------------------------------------------------------
(* The theorems.                                                           *)

\* What stands on what, with any faults.
THEOREM StructureHolds == Spec => []Structure
  <1>1. Init => Structure
    BY InitStructure
  <1>2. Structure /\ [Next]_vars => Structure'
    BY StepStructure
  <1> QED
    BY <1>1, <1>2, PTL DEF Spec

\* The variables keep their types.
THEOREM TypeCorrect == Spec => []UnpackTypeOK
  <1>1. Structure => UnpackTypeOK
    BY DEF Structure
  <1> QED
    BY <1>1, StructureHolds, PTL

\* No collection takes a layer from under a snapshot.
THEOREM NoMissingParent == Spec => []ParentsPresent
  <1>1. Structure => ParentsPresent
    BY DEF Structure
  <1> QED
    BY <1>1, StructureHolds, PTL

\* Every created container has its root file system on its unpacked image.
THEOREM ContainersIntact == Spec => []RootfsIntact
  <1>1. Structure => RootfsIntact
    BY DEF Structure
  <1> QED
    BY <1>1, StructureHolds, PTL

\* The inductive invariant of what snapshots hold, as long as no key is drawn
\* under which another client still writes.
THEOREM Invariance == Spec /\ FreshKeys => []Inv
  <1>1. Init => Inv
    BY InitStructure DEF Init, StoreInit, Inv, KeyHolds, CommittedComplete, Writing
  <1>2. Inv /\ [Next]_vars /\ [DrawsFresh]_vars => Inv'
    BY StepStructure, StepTrees DEF Inv, Trees
  <1> QED
    BY <1>1, <1>2, PTL DEF Spec, FreshKeys

\* No snapshot is ever found under a chain ID with anything but the layers of
\* that chain, whole and in order.
THEOREM NoPartialSnapshot == Spec /\ FreshKeys => []CommittedComplete
  <1>1. Inv => CommittedComplete
    BY DEF Inv
  <1> QED
    BY <1>1, Invariance, PTL

\* Nobody takes the extraction snapshot of a client that still works on it,
\* when a Commit never takes effect under an error.
THEOREM KeysAreExclusive ==
    ASSUME "lost_commit" \notin FaultKinds
    PROVE  Spec => []KeyKept
  <1>1. Init => KeyKept
    BY DEF Init, KeyKept, HoldsKey
  <1>2. Structure /\ KeyKept /\ [Next]_vars => KeyKept'
    BY StepKept
  <1> QED
    BY <1>1, <1>2, StructureHolds, PTL DEF Spec

\* Then a key that is drawn is never one that another client writes under,
THEOREM KeysAreFresh ==
    ASSUME "lost_commit" \notin FaultKinds
    PROVE  Spec => FreshKeys
  <1>1. KeyKept => [DrawsFresh]_vars
    BY DEF KeyKept, DrawsFresh, Writing, HoldsKey
  <1> QED
    BY <1>1, KeysAreExclusive, PTL DEF FreshKeys

\* and no partial snapshot is published, without a condition on the keys.
THEOREM NothingPartialWithoutLostCommits ==
    ASSUME "lost_commit" \notin FaultKinds
    PROVE  Spec => []CommittedComplete
  BY KeysAreFresh, NoPartialSnapshot, PTL

-----------------------------------------------------------------------------
(* Unpack implements ChainStore.                                           *)

\* A step that changes neither the committed chains, nor the records, nor a
\* writable snapshot that has a record, is invisible.
LEMMA Invisible ==
    ASSUME RootfsIntact, UNCHANGED <<committed, records>>,
           \A id \in DOMAIN records : rw'[id] = rw[id]
    PROVE  UNCHANGED <<committed, Root>>
  BY DEF Root

LEMMA PublishStep ==
    ASSUME Inv, NEW p \in Client, CommitLayer(p)
    PROVE  [Store!Next]_<<committed, Root>>
  <1>1. CASE UNCHANGED store
    BY <1>1, Invisible DEF store, Inv, Structure
  <1>2. CASE /\ KeyOf(p) \in DOMAIN active /\ ~ Present(ChainID(p)) /\ CommitKey(KeyOf(p), p)
    <2> DEFINE c == ChainID(p)
    <2>1. /\ committed' = Put(committed, KeyOf(p).chain, active[KeyOf(p)].tree)
          /\ UNCHANGED <<rw, records>>
      BY <1>2 DEF CommitKey
    <2>2. pc[p] = "commit" /\ pc[p] \in InUnpack \ {"label_config"}
      BY DEF CommitLayer, InUnpack
    <2>3. KeyOf(p).chain = c /\ active[KeyOf(p)].tree = c
      BY <1>2, <2>2 DEF KeyOf, KeyHolds, Writing, Inv
    <2>4. c \in Chain
      BY <2>2, WorkTypes DEF Inv, Structure
    <2>5. c \notin DOMAIN committed
      BY <1>2 DEF Present
    <2>6. Front(c) = <<>> \/ Front(c) \in DOMAIN committed
      BY <1>2, <2>3 DEF Inv, Structure, ParentsPresent, Present, Parent
    <2>7. UNCHANGED Root
      BY <2>1 DEF Root
    <2>8. Store!Publish(c)
      BY <2>1, <2>3, <2>5, <2>6, <2>7 DEF Store!Publish, Store!Ready, Store!With, Put, Store!Front, Front
    <2> QED
      BY <2>4, <2>8 DEF Store!Next
  <1> QED
    BY <1>1, <1>2 DEF CommitLayer, LoseCommit

LEMMA CreateStep ==
    ASSUME Inv, NEW p \in Client, CreateRecord(p)
    PROVE  [Store!Next]_<<committed, Root>>
  <1> DEFINE id == opts[p].id
  <1> DEFINE c == rw[id].parent
  <1>1. CASE UNCHANGED store
    BY <1>1, Invisible DEF store, Inv, Structure
  <1>2. CASE id \notin DOMAIN records /\ AddRecord(id, opts[p].image)
    <2>1. /\ records' = Put(records, id, opts[p].image)
          /\ UNCHANGED <<committed, rw>>
      BY <1>2 DEF AddRecord
    <2>2. id \in DOMAIN rw /\ rw[id] = [parent |-> RootFS(p), lessee |-> p]
      BY DEF Inv, Structure, RootfsPrepared, CreateRecord
    <2>3. c = RootFS(p) /\ c \in Chain /\ c # <<>> /\ id \in ContainerID
      BY <2>2, RootFSType, ChainType DEF Inv, Structure, UnpackTypeOK
    <2>4. c \in DOMAIN committed
      BY <2>2, <2>3 DEF Inv, Structure, ParentsPresent, Present
    <2>5. DOMAIN Root = DOMAIN records /\ id \notin DOMAIN Root
      BY <1>2 DEF Root
    <2>6. Root' = [y \in DOMAIN Root \cup {id} |-> IF y = id THEN c ELSE Root[y]]
      BY <1>2, <2>1 DEF Root, Put
    <2>7. Store!Create(id, c)
      BY <2>1, <2>4, <2>5, <2>6 DEF Store!Create, Store!Ready, Store!With
    <2> QED
      BY <2>3, <2>7 DEF Store!Next
  <1> QED
    BY <1>1, <1>2 DEF CreateRecord

LEMMA ReclaimStep ==
    ASSUME Inv, CollectGarbage
    PROVE  [Store!Next]_<<committed, Root>>
  <1>1. /\ committed' = Restrict(committed, KeptChains)
        /\ rw' = Restrict(rw, KeptRootfs)
        /\ UNCHANGED records
    BY DEF CollectGarbage, Collect
  <1>2. KeptChains \in SUBSET DOMAIN committed
    BY DEF KeptChains
  <1>3. \A c \in KeptChains : Front(c) = <<>> \/ Front(c) \in KeptChains
    BY KeptClosed DEF Inv, Structure, Parent, UnpackTypeOK, ParentsPresent
  <1>4. \A id \in DOMAIN records : id \in KeptRootfs /\ rw[id].parent \in KeptChains
    BY PinsOf, PinnedKept DEF Inv, Structure, RootfsIntact, KeptRootfs, UnpackTypeOK
  <1>5. UNCHANGED Root
    BY <1>1, <1>4 DEF Root, Restrict
  <1>6. \A id \in DOMAIN Root : Root[id] \in KeptChains
    BY <1>4 DEF Root
  <1>7. Store!Reclaim(KeptChains)
    BY <1>1, <1>3, <1>5, <1>6 DEF Store!Reclaim, Store!Front, Front, Store!Restrict, Restrict
  <1> QED
    BY <1>2, <1>7 DEF Store!Next

LEMMA RefinementStep ==
    ASSUME Inv, [Next]_vars
    PROVE  [Store!Next]_<<committed, Root>>
  <1>1. CASE \E p \in Client : Start(p) \/ Step(p) \/ CallFails(p) \/ Crash(p) \/ Expire(p)
    <2> PICK p \in Client : Start(p) \/ Step(p) \/ CallFails(p) \/ Crash(p) \/ Expire(p)
      BY <1>1
    <2>1. CASE CommitLayer(p)
      BY <2>1, PublishStep
    <2>2. CASE CreateRecord(p)
      BY <2>2, CreateStep
    <2>3. CASE NewSnapshot(p)
      <3>1. /\ UNCHANGED <<committed, records>>
            /\ rw' = rw \/ (opts[p].id \notin DOMAIN rw
                            /\ rw' = Put(rw, opts[p].id, [parent |-> RootFS(p), lessee |-> p]))
        BY <2>3 DEF NewSnapshot, PrepareRootfs, store
      <3>2. \A id \in DOMAIN records : rw'[id] = rw[id]
        BY <3>1 DEF Inv, Structure, RootfsIntact, Put
      <3> QED
        BY <3>1, <3>2, Invisible DEF Inv, Structure
    <2>4. CASE \/ Start(p) \/ CallFails(p) \/ Crash(p) \/ Expire(p) \/ Release(p)
               \/ IsUnpacked(p) \/ StatLayer(p) \/ PrepareLayer(p) \/ ApplyBegin(p)
               \/ ApplyEnd(p) \/ RemoveKey(p) \/ LabelLayer(p) \/ LabelConfig(p)
      <3>1. UNCHANGED <<committed, records, rw>>
        BY <2>4 DEF Start, AcquireLease, CallFails, Crash, Expire, DropLease, Release,
           IsUnpacked, StatLayer, PrepareLayer, PrepareKey, ApplyBegin, ApplyEnd, WriteKey,
           RemoveKey, RemoveActive, LabelLayer, SetUncompressed, LabelConfig, SetGCRef, store
      <3> QED
        BY <3>1, Invisible DEF Inv, Structure
    <2> QED
      BY <2>1, <2>2, <2>3, <2>4 DEF Step
  <1>2. CASE CollectGarbage
    BY <1>2, ReclaimStep
  <1>3. CASE UNCHANGED vars
    BY <1>3, Invisible DEF vars, store, Inv, Structure
  <1> QED
    BY <1>1, <1>2, <1>3 DEF Next, Quiet

\* Unpacking with its races, failures and collections is an implementation of
\* the store that publishes whole chains and never reclaims a used one.
THEOREM Refinement == Spec /\ FreshKeys => ImplementsChainStore
  <1>1. Init => Store!Init
    BY DEF Init, StoreInit, Store!Init, Root
  <1>2. Inv /\ [Next]_vars => [Store!Next]_<<committed, Root>>
    BY RefinementStep
  <1> QED
    BY <1>1, <1>2, Invariance, PTL DEF Spec, Store!Spec, ImplementsChainStore

-----------------------------------------------------------------------------
(* The inductive invariant behind MissingOnlyAfterTrouble.                 *)

\* A client stops soon after an error.
ErrorsEnd ==
    \A p \in Client :
        /\ err[p] # "none" => pc[p] \in {"cleanup", "release"} \cup Ended
        /\ err[p] \in {"missing", "exists"} => pc[p] # "cleanup"

\* A lease names chains of the image of its client only, and none before the
\* client unpacks.
LeaseOfOwn ==
    \A p \in Client :
        /\ \A c \in leased[p] : IsPrefix(c, RootFS(p))
        /\ pc[p] \in {"start", "is_unpacked"} => leased[p] = {}

\* A label was set by a client for its image.
LabelOfClient ==
    \A g \in DOMAIN gcref :
        \E q \in Client : g = ConfigOf[opts[q].image] /\ gcref[g] = RootFS(q)

\* Nothing has happened that may cost a client a layer it relies on.
Clean ==
    /\ \A q \in Client : ~ Troubled(q)
    /\ \A q, r \in Client : ~ Relabels(q, r)

Labelled == {gcref[g] : g \in DOMAIN gcref}

\* Then every chain is part of one that a lease or a label names,
Rooted ==
    \A c \in DOMAIN committed :
        \E d \in (LeasedChains \cup Labelled) \cap DOMAIN committed : IsPrefix(c, d)

\* a client that has unpacked its image has set the label,
HasLabel(p) ==
    pc[p] \in {"new_snapshot", "create", "release", "done"} /\ leased[p] # {} =>
        /\ ConfigOf[opts[p].image] \in DOMAIN gcref
        /\ gcref[ConfigOf[opts[p].image]] = RootFS(p)
        /\ RootFS(p) \in DOMAIN committed

\* and what a client has found, waited for or committed is there.
Relies(p) ==
    /\ pc[p] \in InUnpack => Present(chain[p])
    /\ pc[p] \in {"cleanup", "label_layer"} => Present(ChainID(p))
    /\ pc[p] = "new_snapshot" => Present(RootFS(p))

CleanInv == Clean => Rooted /\ \A p \in Client : HasLabel(p) /\ Relies(p)

LabelInv ==
    /\ ErrorsEnd
    /\ LeaseOfOwn
    /\ LabelOfClient
    /\ CleanInv
    /\ MissingOnlyAfterTrouble
    /\ LayersLabelled

-----------------------------------------------------------------------------
(* Prefixes.                                                               *)

LEMMA PrefixTransitive ==
    ASSUME NEW a \in Seq(Digest), NEW b \in Seq(Digest), NEW c \in Seq(Digest),
           IsPrefix(a, b), IsPrefix(b, c)
    PROVE  IsPrefix(a, c)
  BY DEF IsPrefix

LEMMA SelfPrefix == ASSUME NEW a \in Seq(Digest) PROVE IsPrefix(a, a)
  BY DEF IsPrefix

\* The chain a client works on is part of its image.
LEMMA WorkPrefix ==
    ASSUME UnpackTypeOK, ChainGrows, NEW p \in Client, pc[p] \in InUnpack \ {"label_config"}
    PROVE  IsPrefix(ChainID(p), RootFS(p)) /\ Last(ChainID(p)) = Layer(p)
  <1>1. /\ ChainID(p) = SubSeq(RootFS(p), 1, Len(chain[p]) + 1)
        /\ chain[p] \in Seq(Digest) /\ Layer(p) \in Digest
    BY WorkTypes
  <1>2. Len(chain[p]) + 1 <= Len(RootFS(p)) /\ Len(chain[p]) \in Nat /\ RootFS(p) \in Seq(Digest)
    BY <1>1, RootFSType DEF ChainGrows
  <1>3. IsPrefix(ChainID(p), RootFS(p))
    BY <1>1, <1>2 DEF IsPrefix
  <1>4. Last(ChainID(p)) = Layer(p)
    BY <1>1 DEF ChainID, Last
  <1> QED
    BY <1>3, <1>4

-----------------------------------------------------------------------------
(* Each step preserves it.                                                 *)

\* Everything about the other clients follows from what a step of p leaves
\* alone: it removes no chain, changes no label but that of its own image, and
\* does not get out of trouble.
LEMMA LabelFrame ==
    ASSUME Structure, LabelInv, NEW p \in Client, UNCHANGED opts,
           \A q \in Client \ {p} : /\ pc'[q] = pc[q] /\ chain'[q] = chain[q]
                                   /\ err'[q] = err[q] /\ leased'[q] = leased[q],
           DOMAIN committed \subseteq DOMAIN committed',
           uncompressed \subseteq uncompressed',
           Troubled(p) => Troubled(p)',
           DOMAIN gcref \subseteq DOMAIN gcref',
           \A g \in DOMAIN gcref' :
              \/ g \in DOMAIN gcref /\ gcref'[g] = gcref[g]
              \/ g = ConfigOf[opts[p].image] /\ gcref'[g] = RootFS(p),
           err'[p] # "none" => pc'[p] \in {"cleanup", "release"} \cup Ended,
           err'[p] \in {"missing", "exists"} => pc'[p] # "cleanup",
           \A c \in leased'[p] : IsPrefix(c, RootFS(p)),
           pc'[p] \in {"start", "is_unpacked"} => leased'[p] = {},
           Clean /\ Clean' /\ Rooted /\ HasLabel(p) /\ Relies(p) =>
              Rooted' /\ HasLabel(p)' /\ Relies(p)',
           err'[p] = "missing" => err[p] = "missing" \/ (~ Troubled(p) /\ ~ Clean),
           \A c \in DOMAIN committed' \ DOMAIN committed :
              Troubled(p)' \/ (pc'[p] = "label_layer" /\ ChainID(p)' = c),
           pc[p] = "label_layer" => Troubled(p)' \/ Last(ChainID(p)) \in uncompressed'
    PROVE  LabelInv'
  <1> USE DEF LabelInv
  <1>1. \A q \in Client : RootFS(q)' = RootFS(q)
    BY DEF RootFS
  <1>2. \A q, r \in Client : Relabels(q, r)' = Relabels(q, r)
    BY <1>1 DEF Relabels
  <1>3. \A q \in Client : Troubled(q) => Troubled(q)'
    BY DEF Troubled
  <1>4. Clean' => Clean
    BY <1>2, <1>3 DEF Clean
  <1>5. ErrorsEnd'
    BY DEF ErrorsEnd
  <1>6. LeaseOfOwn'
    BY <1>1 DEF LeaseOfOwn
  <1>7. LabelOfClient'
    <2> SUFFICES ASSUME NEW g \in DOMAIN gcref'
                 PROVE  \E q \in Client : g = ConfigOf[opts[q].image] /\ gcref'[g] = RootFS(q)
      BY <1>1 DEF LabelOfClient
    <2>1. CASE g \in DOMAIN gcref /\ gcref'[g] = gcref[g]
      BY <2>1 DEF LabelOfClient
    <2>2. CASE g = ConfigOf[opts[p].image] /\ gcref'[g] = RootFS(p)
      BY <2>2
    <2> QED
      BY <2>1, <2>2
  <1>8. CleanInv'
    <2> SUFFICES ASSUME Clean' PROVE Rooted' /\ \A q \in Client : HasLabel(q)' /\ Relies(q)'
      BY DEF CleanInv
    <2>1. Clean /\ Rooted /\ \A q \in Client : HasLabel(q) /\ Relies(q)
      BY <1>4 DEF CleanInv
    <2>2. Rooted' /\ HasLabel(p)' /\ Relies(p)'
      BY <2>1
    <2> SUFFICES ASSUME NEW q \in Client \ {p} PROVE HasLabel(q)' /\ Relies(q)'
      BY <2>2
    <2>3. ChainID(q)' = ChainID(q)
      BY DEF ChainID, Layer, RootFS
    <2>4. Relies(q)'
      BY <1>1, <2>1, <2>3 DEF Relies, Present
    <2>5. HasLabel(q)'
      <3> DEFINE g == ConfigOf[opts[q].image]
      <3> SUFFICES ASSUME pc[q] \in {"new_snapshot", "create", "release", "done"}, leased[q] # {}
                   PROVE  g \in DOMAIN gcref' /\ gcref'[g] = RootFS(q) /\ RootFS(q) \in DOMAIN committed'
        BY <1>1 DEF HasLabel
      <3>1. g \in DOMAIN gcref /\ gcref[g] = RootFS(q) /\ RootFS(q) \in DOMAIN committed
        BY <2>1 DEF HasLabel
      <3>2. g = ConfigOf[opts[p].image] => RootFS(p) = RootFS(q)
        BY <2>1 DEF Clean, Relabels
      <3> QED
        BY <3>1, <3>2
    <2> QED
      BY <2>4, <2>5
  <1>9. MissingOnlyAfterTrouble'
    <2> SUFFICES ASSUME NEW s \in Client, err'[s] = "missing"
                 PROVE  \E q \in Client \ {s} : Troubled(q)' \/ \E r \in Client : Relabels(q, r)'
      BY DEF MissingOnlyAfterTrouble
    <2>1. CASE err[s] = "missing"
      BY <1>2, <1>3, <2>1 DEF MissingOnlyAfterTrouble
    <2>2. CASE s = p /\ ~ Troubled(p) /\ ~ Clean
      <3>1. CASE \E q \in Client : Troubled(q)
        BY <1>3, <2>2, <3>1
      <3>2. CASE \E q, r \in Client : Relabels(q, r)
        <4> PICK q \in Client, r \in Client : Relabels(q, r)
          BY <3>2
        <4>1. Relabels(r, q) /\ q # r
          BY DEF Relabels
        <4> QED
          BY <1>2, <4>1
      <3> QED
        BY <2>2, <3>1, <3>2 DEF Clean
    <2> QED
      BY <2>1, <2>2
  <1>10. LayersLabelled'
    <2> SUFFICES ASSUME NEW c \in DOMAIN committed'
                 PROVE  \/ Last(c) \in uncompressed'
                        \/ \E q \in Client : pc'[q] = "label_layer" /\ ChainID(q)' = c
                        \/ \E q \in Client : Troubled(q)'
      BY DEF LayersLabelled
    <2>1. \A q \in Client \ {p} : ChainID(q)' = ChainID(q)
      BY DEF ChainID, Layer, RootFS
    <2>2. CASE c \notin DOMAIN committed
      BY <2>2
    <2>3. CASE c \in DOMAIN committed
      <3>1. CASE Last(c) \in uncompressed
        BY <3>1
      <3>2. CASE \E q \in Client : pc[q] = "label_layer" /\ ChainID(q) = c
        BY <2>1, <3>2
      <3>3. CASE \E q \in Client : Troubled(q)
        BY <1>3, <3>3
      <3> QED
        BY <2>3, <3>1, <3>2, <3>3 DEF LayersLabelled
    <2> QED
      BY <2>2, <2>3
  <1> QED
    BY <1>5, <1>6, <1>7, <1>8, <1>9, <1>10

\* A step that leaves snapshots, labels and the chains of leases as they are.
LEMMA QuietFrame ==
    ASSUME Structure, LabelInv, NEW p \in Client,
           UNCHANGED <<opts, committed, gcref, leased>>, leases \subseteq leases',
           \A q \in Client \ {p} : pc'[q] = pc[q] /\ chain'[q] = chain[q] /\ err'[q] = err[q],
           uncompressed \subseteq uncompressed',
           Troubled(p) => Troubled(p)',
           err'[p] # "none" => pc'[p] \in {"cleanup", "release"} \cup Ended,
           err'[p] \in {"missing", "exists"} => pc'[p] # "cleanup",
           pc'[p] \in {"start", "is_unpacked"} => leased[p] = {},
           Clean /\ Clean' /\ Relies(p) => Relies(p)',
           Clean /\ Clean' /\ pc'[p] \in {"new_snapshot", "create", "release", "done"} =>
              pc[p] \in {"new_snapshot", "create", "release", "done"} \/ leased[p] = {},
           err'[p] = "missing" => err[p] = "missing" \/ (~ Troubled(p) /\ ~ Clean),
           pc[p] = "label_layer" => Troubled(p)' \/ Last(ChainID(p)) \in uncompressed'
    PROVE  LabelInv'
  <1>1. RootFS(p)' = RootFS(p)
    BY DEF RootFS
  <1>2. Rooted => Rooted'
    <2>1. LeasedChains \subseteq LeasedChains'
      BY DEF LeasedChains
    <2>2. Labelled' = Labelled
      BY DEF Labelled
    <2> QED
      BY <2>1, <2>2 DEF Rooted
  <1>3. Clean /\ Clean' /\ HasLabel(p) => HasLabel(p)'
    BY <1>1 DEF HasLabel
  <1>4. \A c \in leased'[p] : IsPrefix(c, RootFS(p))
    BY DEF LabelInv, LeaseOfOwn
  <1> QED
    BY <1>1, <1>2, <1>3, <1>4, LabelFrame

LEMMA StartLabel == ASSUME Structure, LabelInv, NEW p \in Client, Start(p) PROVE LabelInv'
  <1> USE DEF Start, AcquireLease, Succeed, Goto, Structure, UnpackTypeOK
  <1>1. /\ pc[p] = "start" /\ pc'[p] = "is_unpacked" /\ leases \subseteq leases'
        /\ UNCHANGED <<opts, chain, err, committed, gcref, leased, uncompressed>>
        /\ \A q \in Client \ {p} : pc'[q] = pc[q]
    OBVIOUS
  <1>2. leased[p] = {} /\ err[p] = "none"
    BY <1>1 DEF LabelInv, LeaseOfOwn, ErrorsEnd, Ended
  <1>3. Relies(p)'
    BY <1>1 DEF Relies, InUnpack
  <1> QED
    BY <1>1, <1>2, <1>3, QuietFrame DEF Troubled

LEMMA IsUnpackedLabel == ASSUME Structure, LabelInv, NEW p \in Client, IsUnpacked(p) PROVE LabelInv'
  <1> USE DEF IsUnpacked, Succeed, Goto, store, Structure, UnpackTypeOK
  <1>1. /\ pc[p] = "is_unpacked"
        /\ pc'[p] = IF Present(RootFS(p)) THEN "new_snapshot" ELSE "stat"
        /\ UNCHANGED <<opts, chain, err, committed, gcref, leased, leases, uncompressed>>
        /\ \A q \in Client \ {p} : pc'[q] = pc[q]
    OBVIOUS
  <1>2. leased[p] = {} /\ err[p] = "none" /\ chain[p] = <<>>
    BY <1>1 DEF LabelInv, LeaseOfOwn, ErrorsEnd, Ended, ChainGrows
  <1>3. Relies(p)'
    BY <1>1, <1>2 DEF Relies, InUnpack, Present, RootFS
  <1> QED
    BY <1>1, <1>2, <1>3, QuietFrame DEF Troubled

\* The next layer is taken when the one worked on is there.
LEMMA NextLayerRelies ==
    ASSUME Structure, NEW p \in Client, pc[p] \in InUnpack \ {"label_config"},
           NextLayer(p), UNCHANGED opts, DOMAIN committed' = DOMAIN committed
    PROVE  /\ pc'[p] \in {"stat", "label_config"}
           /\ \A q \in Client \ {p} : pc'[q] = pc[q] /\ chain'[q] = chain[q]
           /\ Present(ChainID(p)) => Relies(p)'
  <1>1. /\ pc'[p] \in {"stat", "label_config"}
        /\ \A q \in Client \ {p} : pc'[q] = pc[q] /\ chain'[q] = chain[q]
    BY NextLayerGrows DEF Structure
  <1>2. chain'[p] = ChainID(p)
    BY DEF NextLayer, Structure, UnpackTypeOK
  <1> QED
    BY <1>1, <1>2 DEF Relies, Present

LEMMA StatLayerLabel == ASSUME Structure, LabelInv, NEW p \in Client, StatLayer(p) PROVE LabelInv'
  <1>1. /\ pc[p] = "stat" /\ pc[p] \in InUnpack \ {"label_config"}
        /\ UNCHANGED <<opts, err, committed, gcref, leased, leases, uncompressed>>
    BY DEF StatLayer, InUnpack, store
  <1>2. err[p] = "none"
    BY <1>1 DEF LabelInv, ErrorsEnd, Ended
  <1>3. /\ pc'[p] \in {"stat", "label_config", "prepare"}
        /\ \A q \in Client \ {p} : pc'[q] = pc[q] /\ chain'[q] = chain[q]
        /\ Relies(p) => Relies(p)'
    <2>1. CASE Present(ChainID(p)) /\ NextLayer(p)
      BY <1>1, <2>1, NextLayerRelies
    <2>2. CASE Goto(p, "prepare") /\ UNCHANGED chain
      BY <1>1, <2>2 DEF Goto, Structure, UnpackTypeOK, Relies, InUnpack, Present
    <2> QED
      BY <2>1, <2>2 DEF StatLayer
  <1> QED
    BY <1>1, <1>2, <1>3, QuietFrame DEF Troubled

LEMMA PrepareLayerLabel == ASSUME Structure, LabelInv, NEW p \in Client, PrepareLayer(p) PROVE LabelInv'
  <1>1. /\ pc[p] = "prepare" /\ pc[p] \in InUnpack \ {"label_config"}
        /\ UNCHANGED <<opts, chain, committed, gcref, leased, leases, uncompressed>>
    BY DEF PrepareLayer, PrepareKey, InUnpack, store
  <1>2. err[p] = "none" /\ ~ Troubled(p)
    BY <1>1 DEF LabelInv, ErrorsEnd, Ended, Troubled
  <1>3. Parent(ChainID(p)) = chain[p]
    BY <1>1, WorkTypes DEF Structure
  <1>4. /\ \/ pc' = [pc EXCEPT ![p] = "apply"] /\ err' = err
           \/ pc' = [pc EXCEPT ![p] = "release"] /\ err' = [err EXCEPT ![p] = "failed"]
           \/ /\ pc' = [pc EXCEPT ![p] = "release"] /\ err' = [err EXCEPT ![p] = "missing"]
              /\ ~ Present(chain[p])
    BY <1>3 DEF PrepareLayer, Return, Succeed, Fail, Goto
  <1>5. /\ \A q \in Client \ {p} : pc'[q] = pc[q] /\ err'[q] = err[q]
        /\ \/ pc'[p] = "apply" /\ err'[p] = "none"
           \/ pc'[p] = "release" /\ err'[p] = "failed"
           \/ pc'[p] = "release" /\ err'[p] = "missing" /\ ~ Present(chain[p])
    BY <1>2, <1>4 DEF Structure, UnpackTypeOK
  <1>6. ~ Present(chain[p]) => ~ Clean
    BY <1>1 DEF LabelInv, CleanInv, Relies
  <1>7. Clean /\ Clean' => pc'[p] = "apply"
    BY <1>5, <1>6 DEF Clean, Troubled
  <1>8. pc'[p] = "apply" /\ Relies(p) => Relies(p)'
    BY <1>1 DEF Relies, InUnpack, Present
  <1> QED
    BY <1>1, <1>2, <1>5, <1>6, <1>7, <1>8, QuietFrame

LEMMA ApplyLabel ==
    ASSUME Structure, LabelInv, NEW p \in Client, ApplyBegin(p) \/ ApplyEnd(p)
    PROVE  LabelInv'
  <1>1. /\ pc[p] \in {"apply", "applying"}
        /\ pc' = [pc EXCEPT ![p] = "applying"] \/ pc' = [pc EXCEPT ![p] = "commit"]
        /\ UNCHANGED <<opts, chain, err, committed, gcref, leased, leases, uncompressed>>
    BY DEF ApplyBegin, ApplyEnd, WriteKey, Succeed, Goto, store
  <1>2. /\ pc'[p] \in {"applying", "commit"} /\ err[p] = "none"
        /\ \A q \in Client \ {p} : pc'[q] = pc[q]
    BY <1>1 DEF LabelInv, ErrorsEnd, Ended, Structure, UnpackTypeOK
  <1>3. Relies(p) => Relies(p)'
    BY <1>1, <1>2 DEF Relies, InUnpack, Present
  <1> QED
    BY <1>1, <1>2, <1>3, QuietFrame DEF Troubled

LEMMA CommitLayerLabel ==
    ASSUME Structure, LabelInv, NEW p \in Client, CommitLayer(p)
    PROVE  LabelInv'
  <1> DEFINE c == ChainID(p)
  <1>1. /\ pc[p] = "commit" /\ pc[p] \in InUnpack \ {"label_config"}
        /\ UNCHANGED <<opts, chain, gcref, leases, uncompressed>>
    BY DEF CommitLayer, LoseCommit, CommitKey, InUnpack, store
  <1>2. /\ err[p] = "none" /\ ~ Troubled(p) /\ p \in leases
    BY <1>1 DEF LabelInv, ErrorsEnd, Ended, Troubled, Structure, LeaseHeld, Running, InUnpack
  <1>3. RootFS(p)' = RootFS(p) /\ ChainID(p)' = c
    BY <1>1 DEF ChainID, Layer, RootFS
  <1>4. CASE LoseCommit(p)
    <2>1. /\ pc' = [pc EXCEPT ![p] = "cleanup"] /\ Present(c)
          /\ UNCHANGED <<err, committed, leased>>
      BY <1>4 DEF LoseCommit, Succeed, Goto, store
    <2>2. pc'[p] = "cleanup" /\ \A q \in Client \ {p} : pc'[q] = pc[q]
      BY <2>1 DEF Structure, UnpackTypeOK
    <2>3. Relies(p) => Relies(p)'
      BY <1>1, <1>3, <2>1, <2>2 DEF Relies, Present
    <2> QED
      BY <1>1, <1>2, <2>1, <2>2, <2>3, QuietFrame DEF Troubled
  <1>5. CASE CommitKey(KeyOf(p), p) /\ Return(p, "label_layer", "lost_commit", "cleanup")
    <2>1. /\ committed' = Put(committed, c, active[KeyOf(p)].tree)
          /\ leased' = [leased EXCEPT ![p] = @ \cup {c}]
      BY <1>5 DEF CommitKey, KeyOf
    <2>2. /\ \/ pc'[p] = "label_layer" /\ err'[p] = "none"
             \/ pc'[p] = "cleanup" /\ err'[p] = "failed"
          /\ \A q \in Client \ {p} : pc'[q] = pc[q] /\ err'[q] = err[q]
      BY <1>2, <1>5 DEF Return, Succeed, Goto, Structure, UnpackTypeOK
    <2>3. /\ leased'[p] = leased[p] \cup {c}
          /\ \A q \in Client \ {p} : leased'[q] = leased[q]
          /\ DOMAIN committed' = DOMAIN committed \cup {c}
      BY <2>1 DEF Structure, UnpackTypeOK, StoreTypeOK, Put
    <2>4. c \in Chain /\ c \in Seq(Digest) /\ IsPrefix(c, RootFS(p)) /\ IsPrefix(c, c)
      BY <1>1, WorkTypes, WorkPrefix, ChainType, SelfPrefix DEF Structure
    <2>5. \A d \in leased'[p] : IsPrefix(d, RootFS(p))
      BY <2>3, <2>4 DEF LabelInv, LeaseOfOwn
    <2>6. Rooted => Rooted'
      <3>1. LeasedChains \subseteq LeasedChains' /\ c \in LeasedChains'
        BY <1>1, <1>2, <2>3 DEF LeasedChains, Structure, UnpackTypeOK, StoreTypeOK
      <3>2. Labelled' = Labelled
        BY <1>1 DEF Labelled
      <3> QED
        BY <2>3, <2>4, <3>1, <3>2 DEF Rooted
    <2>7. Clean' /\ Relies(p) => Relies(p)' /\ HasLabel(p)'
      BY <1>1, <1>3, <2>2, <2>3 DEF Clean, Troubled, Relies, HasLabel, Present
    <2>8. \A d \in DOMAIN committed' \ DOMAIN committed :
             Troubled(p)' \/ (pc'[p] = "label_layer" /\ ChainID(p)' = d)
      BY <1>3, <2>2, <2>3 DEF Troubled
    <2> QED
      BY <1>1, <1>2, <2>2, <2>3, <2>5, <2>6, <2>7, <2>8, LabelFrame DEF Ended
  <1>6. CASE Fail(p, "failed", "cleanup") /\ UNCHANGED store
    <2>1. /\ pc'[p] = "cleanup" /\ err'[p] = "failed"
          /\ \A q \in Client \ {p} : pc'[q] = pc[q] /\ err'[q] = err[q]
          /\ UNCHANGED <<committed, leased>>
      BY <1>6 DEF Fail, Goto, store, Structure, UnpackTypeOK
    <2>2. Troubled(p)' /\ ~ Clean'
      BY <2>1 DEF Troubled, Clean
    <2> QED
      BY <1>1, <1>2, <2>1, <2>2, QuietFrame
  <1> QED
    BY <1>4, <1>5, <1>6 DEF CommitLayer

LEMMA RemoveKeyLabel == ASSUME Structure, LabelInv, NEW p \in Client, RemoveKey(p) PROVE LabelInv'
  <1>1. /\ pc[p] = "cleanup" /\ pc[p] \in InUnpack \ {"label_config"}
        /\ UNCHANGED <<opts, err, committed, gcref, leased, leases, uncompressed>>
    BY DEF RemoveKey, RemoveActive, InUnpack, store
  <1>2. err[p] \in {"none", "failed"}
    BY <1>1 DEF LabelInv, ErrorsEnd, Structure, UnpackTypeOK
  <1>3. /\ \A q \in Client \ {p} : pc'[q] = pc[q] /\ chain'[q] = chain[q]
        /\ \/ err[p] = "none" /\ pc'[p] \in {"stat", "label_config"} /\ (Relies(p) => Relies(p)')
           \/ err[p] = "failed" /\ pc'[p] = "release"
    <2>1. CASE err[p] = "none" /\ NextLayer(p)
      BY <1>1, <2>1, NextLayerRelies DEF Relies
    <2>2. CASE err[p] # "none" /\ Goto(p, "release") /\ UNCHANGED chain
      BY <1>1, <1>2, <2>2 DEF Goto, Structure, UnpackTypeOK
    <2> QED
      BY <2>1, <2>2 DEF RemoveKey
  <1>4. Clean => err[p] = "none"
    BY <1>2 DEF Clean, Troubled
  <1>5. Troubled(p) => Troubled(p)'
    BY <1>1, <1>2, <1>3 DEF Troubled
  <1> QED
    BY <1>1, <1>2, <1>3, <1>4, <1>5, QuietFrame

LEMMA LabelLayerLabel == ASSUME Structure, LabelInv, NEW p \in Client, LabelLayer(p) PROVE LabelInv'
  <1>1. /\ pc[p] = "label_layer" /\ pc[p] \in InUnpack \ {"label_config"}
        /\ uncompressed' = uncompressed \cup {Layer(p)}
        /\ UNCHANGED <<opts, committed, gcref, leased, leases>>
    BY DEF LabelLayer, SetUncompressed, InUnpack
  <1>2. err[p] = "none" /\ ~ Troubled(p) /\ Last(ChainID(p)) \in uncompressed'
    BY <1>1, WorkPrefix DEF LabelInv, ErrorsEnd, Ended, Troubled, Structure
  <1>3. /\ \A q \in Client \ {p} : pc'[q] = pc[q] /\ chain'[q] = chain[q] /\ err'[q] = err[q]
        /\ \/ err'[p] = "none" /\ pc'[p] \in {"stat", "label_config"} /\ (Relies(p) => Relies(p)')
           \/ err'[p] = "failed" /\ pc'[p] = "release"
    <2>1. CASE NextLayer(p) /\ UNCHANGED err
      BY <1>1, <1>2, <2>1, NextLayerRelies DEF Relies
    <2>2. CASE Goto(p, "release") /\ err' = [err EXCEPT ![p] = "failed"] /\ UNCHANGED chain
      BY <1>1, <2>2 DEF Goto, Structure, UnpackTypeOK
    <2> QED
      BY <2>1, <2>2 DEF LabelLayer
  <1>4. Clean' => err'[p] = "none"
    BY <1>3 DEF Clean, Troubled
  <1> QED
    BY <1>1, <1>2, <1>3, <1>4, QuietFrame

LEMMA LabelConfigLabel == ASSUME Structure, LabelInv, NEW p \in Client, LabelConfig(p) PROVE LabelInv'
  <1> DEFINE g == ConfigOf[opts[p].image]
  <1>1. /\ pc[p] = "label_config" /\ chain[p] = RootFS(p) /\ gcref' = Put(gcref, g, RootFS(p))
        /\ UNCHANGED <<opts, chain, committed, leased, leases, uncompressed>>
    BY DEF LabelConfig, SetGCRef, Structure, ChainGrows
  <1>2. err[p] = "none" /\ ~ Troubled(p)
    BY <1>1 DEF LabelInv, ErrorsEnd, Ended, Troubled
  <1>3. /\ \A q \in Client \ {p} : pc'[q] = pc[q] /\ err'[q] = err[q]
        /\ \/ err'[p] = "none" /\ pc'[p] = "new_snapshot"
           \/ err'[p] = "failed" /\ pc'[p] = "release"
    BY <1>2 DEF LabelConfig, Return, Succeed, Goto, Structure, UnpackTypeOK
  <1>4. /\ g \in DOMAIN gcref' /\ gcref'[g] = RootFS(p)
        /\ DOMAIN gcref' = DOMAIN gcref \cup {g}
        /\ \A h \in DOMAIN gcref \ {g} : gcref'[h] = gcref[h]
    BY <1>1 DEF Put
  <1>5. RootFS(p)' = RootFS(p) /\ RootFS(p) # <<>>
    BY <1>1, RootFSType DEF RootFS, Structure
  <1>6. Relies(p) => RootFS(p) \in DOMAIN committed
    BY <1>1, <1>5 DEF Relies, InUnpack, Present
  <1>7. Clean' => pc'[p] = "new_snapshot" /\ err'[p] = "none"
    BY <1>3 DEF Clean, Troubled
  <1>8. Clean' /\ Relies(p) => Relies(p)' /\ HasLabel(p)'
    BY <1>1, <1>4, <1>5, <1>6, <1>7 DEF Relies, HasLabel, InUnpack, Present
  <1>9. Clean /\ Rooted => Rooted'
    <2> SUFFICES ASSUME Clean, Rooted PROVE Rooted'
      OBVIOUS
    <2>1. g \in DOMAIN gcref => gcref[g] = RootFS(p)
      BY DEF LabelInv, LabelOfClient, Clean, Relabels
    <2>2. Labelled \subseteq Labelled'
      BY <1>4, <2>1 DEF Labelled
    <2>3. LeasedChains' = LeasedChains
      BY <1>1 DEF LeasedChains
    <2> QED
      BY <1>1, <2>2, <2>3 DEF Rooted
  <1>10. \A c \in leased'[p] : IsPrefix(c, RootFS(p))
    BY <1>1 DEF LabelInv, LeaseOfOwn
  <1> QED
    BY <1>1, <1>2, <1>3, <1>4, <1>8, <1>9, <1>10, LabelFrame

LEMMA ContainerLabel ==
    ASSUME Structure, LabelInv, NEW p \in Client, NewSnapshot(p) \/ CreateRecord(p)
    PROVE  LabelInv'
  <1>1. /\ pc[p] \in {"new_snapshot", "create"}
        /\ UNCHANGED <<opts, chain, committed, gcref, leased, leases, uncompressed>>
    BY DEF NewSnapshot, CreateRecord, PrepareRootfs, AddRecord, store
  <1>2. err[p] = "none" /\ ~ Troubled(p)
    BY <1>1 DEF LabelInv, ErrorsEnd, Ended, Troubled
  <1>3. /\ \/ pc' = [pc EXCEPT ![p] = "create"] /\ err' = err
           \/ pc' = [pc EXCEPT ![p] = "release"]
              /\ \/ err' = err
                 \/ err' = [err EXCEPT ![p] = "exists"] \/ err' = [err EXCEPT ![p] = "failed"]
                 \/ /\ err' = [err EXCEPT ![p] = "missing"]
                    /\ pc[p] = "new_snapshot" /\ ~ Present(RootFS(p))
    BY DEF NewSnapshot, CreateRecord, Return, Succeed, Fail, Goto
  <1>4. /\ \A q \in Client \ {p} : pc'[q] = pc[q] /\ err'[q] = err[q]
        /\ pc'[p] \in {"create", "release"}
        /\ err'[p] # "none" => pc'[p] = "release"
        /\ err'[p] = "missing" => pc[p] = "new_snapshot" /\ ~ Present(RootFS(p))
    BY <1>2, <1>3 DEF Structure, UnpackTypeOK
  <1>5. err'[p] = "missing" => ~ Clean
    BY <1>4 DEF LabelInv, CleanInv, Relies
  <1>6. Relies(p)'
    BY <1>4 DEF Relies, InUnpack
  <1> QED
    BY <1>1, <1>2, <1>4, <1>5, <1>6, QuietFrame

\* A client that fails or dies is in trouble from then on.
LEMMA TroubleLabel ==
    ASSUME Structure, LabelInv, NEW p \in Client, CallFails(p) \/ Crash(p)
    PROVE  LabelInv'
  <1>1. UNCHANGED <<opts, chain, committed, gcref, leased, leases, uncompressed>>
    BY DEF CallFails, Crash, store
  <1>2. /\ \A q \in Client \ {p} : pc'[q] = pc[q] /\ err'[q] = err[q]
        /\ \/ pc'[p] = "crashed" /\ err'[p] = err[p]
           \/ pc'[p] \in {"cleanup", "release"} /\ err'[p] = "failed"
    BY DEF CallFails, GiveUp, Crash, Goto, Structure, UnpackTypeOK
  <1>3. Troubled(p)' /\ ~ Clean'
    BY <1>2 DEF Troubled, Clean
  <1>4. pc'[p] \notin {"start", "is_unpacked"}
    BY <1>2
  <1> QED
    BY <1>1, <1>2, <1>3, <1>4, QuietFrame DEF Ended

\* What a lease held is part of the image that has the label by then.
LEMMA DropLabel ==
    ASSUME Structure, LabelInv, NEW p \in Client, pc[p] \in {"release", "done", "crashed"},
           DropLease(p), UNCHANGED <<opts, chain, err>>,
           \/ UNCHANGED pc
           \/ pc[p] = "release" /\ pc' = [pc EXCEPT ![p] = "done"]
    PROVE  LabelInv'
  <1>1. /\ leases' = leases \ {p} /\ leased' = [leased EXCEPT ![p] = {}]
        /\ UNCHANGED <<committed, gcref, uncompressed>>
    BY DEF DropLease
  <1>2. /\ leased'[p] = {} /\ \A q \in Client \ {p} : leased'[q] = leased[q] /\ pc'[q] = pc[q]
        /\ pc'[p] = pc[p] \/ (pc[p] = "release" /\ pc'[p] = "done")
    BY <1>1 DEF Structure, UnpackTypeOK, StoreTypeOK
  <1>3. Troubled(p) => Troubled(p)'
    BY <1>2 DEF Troubled
  <1>4. HasLabel(p)' /\ Relies(p)'
    BY <1>2 DEF HasLabel, Relies, InUnpack
  <1>5. Clean /\ Rooted /\ HasLabel(p) => Rooted'
    <2> SUFFICES ASSUME Clean, Rooted, HasLabel(p), NEW c \in DOMAIN committed
                 PROVE  \E d \in (LeasedChains' \cup Labelled) \cap DOMAIN committed : IsPrefix(c, d)
      BY <1>1 DEF Rooted, Labelled
    <2>1. PICK d \in (LeasedChains \cup Labelled) \cap DOMAIN committed : IsPrefix(c, d)
      BY DEF Rooted
    <2>2. CASE d \in leased[p]
      <3>1. pc[p] # "crashed"
        BY DEF Clean, Troubled
      <3>2. RootFS(p) \in Labelled /\ RootFS(p) \in DOMAIN committed
        BY <2>2, <3>1 DEF HasLabel, Labelled
      <3>3. IsPrefix(d, RootFS(p))
        BY <2>2 DEF LabelInv, LeaseOfOwn
      <3>4. c \in Seq(Digest) /\ d \in Seq(Digest) /\ RootFS(p) \in Seq(Digest)
        BY ChainType, RootFSType DEF Structure, UnpackTypeOK, StoreTypeOK, IsPartial
      <3> QED
        BY <2>1, <3>2, <3>3, <3>4, PrefixTransitive
    <2>3. CASE d \notin leased[p]
      <3>1. d \in LeasedChains => d \in LeasedChains'
        BY <1>1, <1>2, <2>3 DEF LeasedChains
      <3> QED
        BY <2>1, <3>1
    <2> QED
      BY <2>2, <2>3
  <1>6. pc'[p] \notin {"start", "is_unpacked", "cleanup"}
    BY <1>2
  <1>7. err'[p] # "none" => pc'[p] \in {"cleanup", "release"} \cup Ended
    BY <1>2 DEF Ended
  <1> QED
    BY <1>1, <1>2, <1>3, <1>4, <1>5, <1>6, <1>7, LabelFrame

LEMMA ReleaseLabel ==
    ASSUME Structure, LabelInv, NEW p \in Client, Release(p) \/ Expire(p)
    PROVE  LabelInv'
  <1>1. CASE DropLease(p)
    BY <1>1, DropLabel DEF Release, Expire, Goto, client, Ended
  <1>2. CASE Release(p) /\ UNCHANGED store
    <2>1. /\ pc[p] = "release" /\ pc'[p] = "done"
          /\ \A q \in Client \ {p} : pc'[q] = pc[q]
          /\ UNCHANGED <<opts, chain, err, committed, gcref, leased, leases, uncompressed>>
      BY <1>2 DEF Release, Goto, store, Structure, UnpackTypeOK
    <2>2. Relies(p)'
      BY <2>1 DEF Relies, InUnpack
    <2> QED
      BY <2>1, <2>2, QuietFrame DEF Troubled, Ended
  <1> QED
    BY <1>1, <1>2 DEF Release, Expire

\* While nothing has gone wrong, the collector takes no chain at all.
LEMMA CollectLabel == ASSUME Structure, LabelInv, CollectGarbage PROVE LabelInv'
  <1> USE DEF LabelInv
  <1>1. /\ committed' = Restrict(committed, KeptChains)
        /\ UNCHANGED <<opts, pc, chain, err, gcref, leased, leases, uncompressed>>
    BY DEF CollectGarbage, Collect, client
  <1>2. DOMAIN committed' = KeptChains /\ KeptChains \subseteq DOMAIN committed
    BY <1>1 DEF Restrict, KeptChains
  <1>3. \A q \in Client : RootFS(q)' = RootFS(q) /\ ChainID(q)' = ChainID(q)
                          /\ Troubled(q)' = Troubled(q)
    BY <1>1 DEF RootFS, ChainID, Layer, Troubled
  <1>4. \A q, r \in Client : Relabels(q, r)' = Relabels(q, r)
    BY <1>1, <1>3 DEF Relabels
  <1>5. ErrorsEnd' /\ LeaseOfOwn' /\ LabelOfClient'
    BY <1>1, <1>3 DEF ErrorsEnd, LeaseOfOwn, LabelOfClient
  <1>6. MissingOnlyAfterTrouble'
    BY <1>1, <1>3, <1>4 DEF MissingOnlyAfterTrouble
  <1>7. LayersLabelled'
    BY <1>1, <1>2, <1>3 DEF LayersLabelled
  <1>8. CleanInv'
    <2> SUFFICES ASSUME Clean' PROVE Rooted' /\ \A q \in Client : HasLabel(q)' /\ Relies(q)'
      BY DEF CleanInv
    <2>1. Clean
      BY <1>3, <1>4 DEF Clean
    <2>2. Rooted /\ \A q \in Client : HasLabel(q) /\ Relies(q)
      BY <2>1 DEF CleanInv
    <2>3. LeasedChains \cup Labelled \subseteq Pins
      BY DEF Pins, Labelled
    <2>4. DOMAIN committed' = DOMAIN committed
      BY <1>2, <2>2, <2>3 DEF Rooted, KeptChains
    <2>5. LeasedChains' = LeasedChains /\ Labelled' = Labelled
      BY <1>1 DEF LeasedChains, Labelled
    <2>6. Rooted'
      BY <2>2, <2>4, <2>5 DEF Rooted
    <2>7. \A q \in Client : HasLabel(q)'
      BY <1>1, <1>3, <2>2, <2>4 DEF HasLabel
    <2>8. \A q \in Client : Relies(q)'
      BY <1>1, <1>3, <2>2, <2>4 DEF Relies, Present
    <2> QED
      BY <2>6, <2>7, <2>8
  <1> QED
    BY <1>5, <1>6, <1>7, <1>8

-----------------------------------------------------------------------------
(* The theorems.                                                           *)

LEMMA InitLabel == Init => LabelInv
  <1> SUFFICES ASSUME Init PROVE LabelInv
    OBVIOUS
  <1> USE DEF Init, StoreInit
  <1>1. ErrorsEnd /\ LeaseOfOwn /\ LabelOfClient
    BY DEF ErrorsEnd, LeaseOfOwn, LabelOfClient
  <1>2. Rooted /\ \A p \in Client : HasLabel(p) /\ Relies(p)
    BY DEF Rooted, HasLabel, Relies, InUnpack
  <1>3. MissingOnlyAfterTrouble /\ LayersLabelled
    BY DEF MissingOnlyAfterTrouble, LayersLabelled
  <1> QED
    BY <1>1, <1>2, <1>3 DEF LabelInv, CleanInv

LEMMA StepLabel == ASSUME Structure, LabelInv, [Next]_vars PROVE LabelInv'
  <1>1. CASE \E p \in Client : Start(p) \/ Step(p) \/ CallFails(p) \/ Crash(p) \/ Expire(p)
    <2> PICK p \in Client : Start(p) \/ Step(p) \/ CallFails(p) \/ Crash(p) \/ Expire(p)
      BY <1>1
    <2>1. CASE Step(p)
      BY <2>1, IsUnpackedLabel, StatLayerLabel, PrepareLayerLabel, ApplyLabel,
         CommitLayerLabel, RemoveKeyLabel, LabelLayerLabel, LabelConfigLabel,
         ContainerLabel, ReleaseLabel DEF Step
    <2> QED
      BY <2>1, StartLabel, TroubleLabel, ReleaseLabel
  <1>2. CASE CollectGarbage
    BY <1>2, CollectLabel
  <1>3. CASE UNCHANGED vars
    <2>1. UNCHANGED <<committed, gcref, uncompressed, leases, leased, opts, pc, chain, err>>
      BY <1>3 DEF vars, store, client
    <2>2. ErrorsEnd' /\ LeaseOfOwn' /\ LabelOfClient'
      BY <2>1 DEF LabelInv, ErrorsEnd, LeaseOfOwn, LabelOfClient, RootFS
    <2>3. CleanInv'
      BY <2>1 DEF LabelInv, CleanInv, Clean, Rooted, HasLabel, Relies, LeasedChains, Labelled,
                  Troubled, Relabels, RootFS, ChainID, Layer, Present
    <2>4. MissingOnlyAfterTrouble' /\ LayersLabelled'
      BY <2>1 DEF LabelInv, MissingOnlyAfterTrouble, LayersLabelled, Troubled, Relabels,
                  RootFS, ChainID, Layer
    <2> QED
      BY <2>2, <2>3, <2>4 DEF LabelInv
  <1> QED
    BY <1>1, <1>2, <1>3 DEF Next, Quiet

LEMMA LabelInvariance == Spec => []LabelInv
  <1>1. Init => LabelInv
    BY InitLabel
  <1>2. Structure /\ LabelInv /\ [Next]_vars => LabelInv'
    BY StepLabel
  <1> QED
    BY <1>1, <1>2, StructureHolds, PTL DEF Spec

\* A run finds a layer gone that it took for applied only when another client
\* failed, died or moved the label of a config: the leases and labels of peers
\* that succeed keep it from the first of them to the last.
THEOREM LayersStayForOthers == Spec => []MissingOnlyAfterTrouble
  <1>1. LabelInv => MissingOnlyAfterTrouble
    BY DEF LabelInv
  <1> QED
    BY <1>1, LabelInvariance, PTL

\* A committed layer lacks its label only while the client that committed it
\* is about to set it, or after a failure.
THEOREM LabelsAreSet == Spec => []LayersLabelled
  <1>1. LabelInv => LayersLabelled
    BY DEF LabelInv
  <1> QED
    BY <1>1, LabelInvariance, PTL

=============================================================================
