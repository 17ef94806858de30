---------------------------- MODULE StoreProofs -----------------------------
(***************************************************************************)
(* Lemmas about the daemon of SnapshotStore that the proofs of its clients *)
(* share: chains and partial functions, and what the collector keeps.      *)
(***************************************************************************)
EXTENDS SnapshotStore, TLAPS

-----------------------------------------------------------------------------
(* Sequences and partial functions.                                        *)

\* The parent of a chain that was extended is the chain, and a chain is its
\* parent with its last layer on top.
LEMMA FrontAppend ==
    ASSUME NEW S, NEW s \in Seq(S), NEW x \in S
    PROVE  /\ Front(Append(s, x)) = s
           /\ Append(s, x) # <<>>
           /\ Append(s, x) \in Seq(S)
  BY DEF Front

\* Restriction and extension keep a partial function one.
LEMMA PartialPut ==
    ASSUME NEW f, NEW S, NEW T, IsPartial(f, S, T), NEW x \in S, NEW v \in T
    PROVE  IsPartial(Put(f, x, v), S, T)
  BY DEF IsPartial, Put

LEMMA PartialRestrict ==
    ASSUME NEW f, NEW S, NEW T, IsPartial(f, S, T), NEW R \in SUBSET DOMAIN f
    PROVE  IsPartial(Restrict(f, R), S, T)
  BY DEF IsPartial, Restrict

\* A prefix of the layers of an image is a chain, and so is what it becomes
\* with the next layer of the image.
LEMMA ImageChains ==
    ASSUME NEW i \in Image, NEW n \in 1..Len(Layers[i])
    PROVE  /\ SubSeq(Layers[i], 1, n) \in Chain
           /\ SubSeq(Layers[i], 1, n) \in Seq(Digest)
           /\ SubSeq(Layers[i], 1, n) = Append(SubSeq(Layers[i], 1, n-1), Layers[i][n])
           /\ Layers[i][n] \in Digest
  <1>1. Layers[i] \in Seq(Digest)
    BY StoreAssumption
  <1>2. SubSeq(Layers[i], 1, n) \in Chain
    BY DEF Chain
  <1> QED
    BY <1>1, <1>2

LEMMA ChainType ==
    ASSUME NEW c \in Chain
    PROVE  c \in Seq(Digest) /\ c # <<>> /\ (Parent(c) = <<>> \/ Parent(c) \in Chain)
  <1>0. PICK i \in Image : c \in {SubSeq(Layers[i], 1, n) : n \in 1..Len(Layers[i])}
    BY DEF Chain
  <1>1. PICK n \in 1..Len(Layers[i]) : c = SubSeq(Layers[i], 1, n)
    BY <1>0
  <1>2. Layers[i] \in Seq(Digest)
    BY StoreAssumption
  <1>3. Parent(c) = SubSeq(Layers[i], 1, n-1) /\ c # <<>> /\ c \in Seq(Digest)
    BY <1>1, <1>2 DEF Parent, Front
  <1>4. n = 1 => SubSeq(Layers[i], 1, n-1) = <<>>
    BY <1>2
  <1>5. n # 1 => n - 1 \in 1..Len(Layers[i])
    BY <1>2
  <1> QED
    BY <1>3, <1>4, <1>5 DEF Chain

-----------------------------------------------------------------------------
(* The collector.                                                          *)

\* The parent of a prefix is a prefix.
LEMMA PrefixParent ==
    ASSUME NEW c \in Seq(Digest), c # <<>>, NEW d \in Seq(Digest), IsPrefix(c, d)
    PROVE  Front(c) \in Seq(Digest) /\ IsPrefix(Front(c), d)
  BY DEF IsPrefix, Front

\* What the collector keeps: each chain that something kept stands on, and
\* with a chain its lower layers.
LEMMA PinsOf ==
    /\ \A k \in KeptKeys : Parent(k.chain) \in Pins
    /\ \A id \in KeptRootfs : rw[id].parent \in Pins
  <1>1. KeyBases \subseteq Pins /\ RootfsBases \subseteq Pins
    BY DEF Pins
  <1>2. \A k \in KeptKeys : Parent(k.chain) \in KeyBases
    BY DEF KeyBases
  <1>3. \A id \in KeptRootfs : rw[id].parent \in RootfsBases
    BY DEF RootfsBases
  <1> QED
    BY <1>1, <1>2, <1>3

LEMMA PinnedKept ==
    ASSUME StoreTypeOK, NEW c \in Pins \cap DOMAIN committed
    PROVE  c \in KeptChains
  <1>1. c \in Seq(Digest)
    BY ChainType DEF StoreTypeOK, IsPartial
  <1>2. IsPrefix(c, c)
    BY <1>1 DEF IsPrefix
  <1> QED
    BY <1>2 DEF KeptChains

LEMMA KeptClosed ==
    ASSUME StoreTypeOK, \A c \in DOMAIN committed : Present(Parent(c)),
           NEW c \in KeptChains
    PROVE  Parent(c) = <<>> \/ Parent(c) \in KeptChains
  <1>1. c \in DOMAIN committed /\ c \in Chain /\ c \in Seq(Digest) /\ c # <<>>
    BY ChainType DEF KeptChains, StoreTypeOK, IsPartial
  <1>2. PICK d \in Pins \cap DOMAIN committed : IsPrefix(c, d)
    BY DEF KeptChains
  <1>3. d \in Seq(Digest)
    BY ChainType DEF StoreTypeOK, IsPartial
  <1>4. IsPrefix(Parent(c), d)
    BY <1>1, <1>2, <1>3, PrefixParent DEF Parent
  <1>5. Present(Parent(c))
    BY <1>1
  <1> QED
    BY <1>2, <1>4, <1>5 DEF Present, KeptChains
=============================================================================
