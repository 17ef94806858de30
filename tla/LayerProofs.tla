----------------------------- MODULE LayerProofs -----------------------------
(***************************************************************************)
(* What is proved about LayerWrite, for any mounts, trees and layers: that *)
(* nothing is written below a snapshot, that a successful apply leaves what *)
(* the layer is meant to hold, and that what was packed can be extracted.  *)
(***************************************************************************)
EXTENDS LayerWrite, SequenceTheorems, WellFoundedInduction, FiniteSetTheorems, TLAPS

-----------------------------------------------------------------------------
(* Paths.                                                                  *)

Path == Seq(Nat)

\* A prefix is a path that is not longer and has the same elements.
LEMMA PrefixIs ==
    ASSUME NEW p \in Path
    PROVE  \A q : q \in Prefixes(p) <=>
               q \in Path /\ Len(q) <= Len(p) /\ \A i \in 1..Len(q) : q[i] = p[i]
  <1> SUFFICES ASSUME NEW q
               PROVE  q \in Prefixes(p) <=>
                          q \in Path /\ Len(q) <= Len(p) /\ \A i \in 1..Len(q) : q[i] = p[i]
    OBVIOUS
  <1>0. Len(p) \in Nat /\ \A i \in 1..Len(p) : p[i] \in Nat
    BY LenProperties, ElementOfSeq DEF Path
  <1>1. ASSUME NEW l \in 0..Len(p)
        PROVE  /\ SubSeq(p, 1, l) \in Path /\ Len(SubSeq(p, 1, l)) = l
               /\ \A i \in 1..l : SubSeq(p, 1, l)[i] = p[i]
    <2>1. 1 \in Int /\ l \in Int /\ \A i \in 1..l : p[i] \in Nat
      BY <1>0
    <2>2. /\ SubSeq(p, 1, l) \in Path
          /\ Len(SubSeq(p, 1, l)) = IF 1 <= l THEN l - 1 + 1 ELSE 0
          /\ \A i \in 1..(l - 1 + 1) : SubSeq(p, 1, l)[i] = p[1 + i - 1]
      BY <2>1, SubSeqProperties DEF Path
    <2> QED BY <2>2, <1>0
  <1>2. ASSUME q \in Prefixes(p)
        PROVE  q \in Path /\ Len(q) <= Len(p) /\ \A i \in 1..Len(q) : q[i] = p[i]
    <2>1. PICK l \in 0..Len(p) : q = SubSeq(p, 1, l)
      BY <1>2 DEF Prefixes
    <2> DEFINE r == SubSeq(p, 1, l)
    <2>2. r \in Path /\ Len(r) = l /\ \A i \in 1..l : r[i] = p[i]
      BY <1>1, Zenon
    <2> HIDE DEF r
    <2>3. r \in Path /\ Len(r) <= Len(p) /\ \A i \in 1..Len(r) : r[i] = p[i]
      BY <1>0, <2>2
    <2>4. q = r
      BY <2>1, Zenon DEF r
    <2> QED BY <2>3, <2>4, Zenon
  <1>3. ASSUME q \in Path, Len(q) <= Len(p), \A i \in 1..Len(q) : q[i] = p[i]
        PROVE  q \in Prefixes(p)
    <2>1. Len(q) \in 0..Len(p)
      BY <1>0, <1>3, LenProperties DEF Path
    <2>2. /\ SubSeq(p, 1, Len(q)) \in Path /\ Len(SubSeq(p, 1, Len(q))) = Len(q)
          /\ \A i \in 1..Len(q) : SubSeq(p, 1, Len(q))[i] = p[i]
      BY <1>1, <2>1, Zenon
    <2>3. \A i \in 1..Len(q) : q[i] = SubSeq(p, 1, Len(q))[i]
      BY <1>3, <2>2
    <2>4. q = SubSeq(p, 1, Len(q))
      BY <1>3, <2>2, <2>3, SeqEqual, Zenon DEF Path
    <2> QED BY <2>1, <2>4 DEF Prefixes
  <1> QED BY <1>2, <1>3

\* Prefixes are ordered.
LEMMA PrefixOrder ==
    ASSUME NEW p \in Path
    PROVE  /\ p \in Prefixes(p) /\ <<>> \in Prefixes(p)
           /\ \A q \in Prefixes(p) :
                 q \in Path /\ Prefixes(q) \subseteq Prefixes(p) /\ (p \in Prefixes(q) => p = q)
  <1>0. Len(p) \in Nat
    BY LenProperties DEF Path
  <1>1. p \in Prefixes(p)
    BY <1>0, PrefixIs
  <1>2. <<>> \in Prefixes(p)
    <2>1. <<>> \in Path /\ Len(<<>>) = 0
      BY EmptySeq DEF Path
    <2>2. Len(<<>>) <= Len(p) /\ \A i \in 1..Len(<<>>) : <<>>[i] = p[i]
      BY <1>0, <2>1
    <2> QED BY <2>1, <2>2, PrefixIs, Zenon
  <1>3. ASSUME NEW q \in Prefixes(p)
        PROVE  q \in Path /\ Prefixes(q) \subseteq Prefixes(p) /\ (p \in Prefixes(q) => p = q)
    <2>1. q \in Path /\ Len(q) \in Nat /\ Len(q) <= Len(p) /\ \A i \in 1..Len(q) : q[i] = p[i]
      BY PrefixIs, LenProperties DEF Path
    <2>2. ASSUME NEW r \in Prefixes(q) PROVE r \in Prefixes(p)
      <3>1. r \in Path /\ Len(r) \in Nat /\ Len(r) <= Len(q) /\ \A i \in 1..Len(r) : r[i] = q[i]
        BY <2>1, PrefixIs, LenProperties DEF Path
      <3> QED BY <1>0, <2>1, <3>1, PrefixIs
    <2>3. ASSUME p \in Prefixes(q) PROVE p = q
      <3>1. Len(p) <= Len(q)
        BY <2>1, <2>3, PrefixIs
      <3> QED BY <1>0, <2>1, <3>1, SeqEqual DEF Path
    <2> QED BY <2>1, <2>2, <2>3
  <1> QED BY <1>1, <1>2, <1>3

\* The prefixes of a path are the path and those of its directory.
LEMMA FrontPrefixes ==
    ASSUME NEW p \in Path, p # <<>>
    PROVE  /\ Front(p) \in Path /\ Len(Front(p)) = Len(p) - 1
           /\ \A i \in 1..(Len(p) - 1) : Front(p)[i] = p[i]
           /\ Prefixes(p) = Prefixes(Front(p)) \cup {p}
           /\ p \notin Prefixes(Front(p))
           /\ Front(p) \in Prefixes(p) \ {p}
  <1>0. Len(p) \in Nat \ {0} /\ \A i \in 1..Len(p) : p[i] \in Nat
    BY EmptySeq, ElementOfSeq DEF Path
  <1>1. /\ Front(p) \in Path /\ Len(Front(p)) = Len(p) - 1
        /\ \A i \in 1..(Len(p) - 1) : Front(p)[i] = p[i]
    <2>1. 1 \in Int /\ Len(p) - 1 \in Int /\ \A i \in 1..(Len(p) - 1) : p[i] \in Nat
      BY <1>0
    <2>2. /\ SubSeq(p, 1, Len(p) - 1) \in Path
          /\ Len(SubSeq(p, 1, Len(p) - 1)) = IF 1 <= Len(p) - 1 THEN (Len(p) - 1) - 1 + 1 ELSE 0
          /\ \A i \in 1..((Len(p) - 1) - 1 + 1) : SubSeq(p, 1, Len(p) - 1)[i] = p[1 + i - 1]
      BY <2>1, SubSeqProperties DEF Path
    <2>3. \A i \in 1..(Len(p) - 1) : i \in 1..((Len(p) - 1) - 1 + 1) /\ 1 + i - 1 = i
      BY <1>0
    <2>4. Len(SubSeq(p, 1, Len(p) - 1)) = Len(p) - 1
      <3>1. Len(SubSeq(p, 1, Len(p) - 1)) = IF 1 <= Len(p) - 1 THEN (Len(p) - 1) - 1 + 1 ELSE 0
        BY <2>2
      <3>2. CASE 1 <= Len(p) - 1
        BY <1>0, <3>1, <3>2
      <3>3. CASE ~ (1 <= Len(p) - 1)
        <4>1. \A l \in Nat \ {0} : ~ (1 <= l - 1) => l - 1 = 0
          OBVIOUS
        <4>2. Len(p) - 1 = 0
          BY <1>0, <3>3, <4>1
        <4> QED BY <3>1, <3>3, <4>2
      <3> QED BY <3>2, <3>3
    <2>5. \A i \in 1..(Len(p) - 1) : SubSeq(p, 1, Len(p) - 1)[i] = p[i]
      BY <2>2, <2>3
    <2> QED BY <2>2, <2>4, <2>5, Zenon DEF Front
  <1>2. p \notin Prefixes(Front(p))
    BY <1>0, <1>1, PrefixIs
  <1>3. Front(p) \in Prefixes(p)
    BY <1>0, <1>1, PrefixIs
  <1>4. ASSUME NEW q \in Prefixes(p), q # p PROVE q \in Prefixes(Front(p))
    <2>1. q \in Path /\ Len(q) \in Nat /\ Len(q) <= Len(p) /\ \A i \in 1..Len(q) : q[i] = p[i]
      BY PrefixIs, LenProperties DEF Path
    <2>2. Len(q) # Len(p)
      BY <1>4, <2>1, SeqEqual DEF Path
    <2> QED BY <1>0, <1>1, <2>1, <2>2, PrefixIs
  <1>5. p \in Prefixes(p) /\ Prefixes(Front(p)) \subseteq Prefixes(p)
    BY <1>3, PrefixOrder
  <1>6. Front(p) # p
    BY <1>0, <1>1
  <1> QED BY <1>1, <1>2, <1>3, <1>4, <1>5, <1>6

\* A path under a name can be taken apart again.
LEMMA Under ==
    ASSUME NEW n \in Path, NEW p \in Path
    PROVE  /\ n \o p \in Path /\ Len(n \o p) = Len(n) + Len(p)
           /\ IsPrefix(n, n \o p) /\ n \in Prefixes(n \o p)
           /\ SubSeq(n \o p, Len(n) + 1, Len(n \o p)) = p
           /\ n \o p = n <=> p = <<>>
           /\ n \o <<>> = n
           /\ \A r \in Path : n \o p = n \o r => p = r
  <1>0. /\ Len(n) \in Nat /\ Len(p) \in Nat
        /\ \A i \in 1..Len(n) : n[i] \in Nat
        /\ \A i \in 1..Len(p) : p[i] \in Nat
    BY LenProperties, ElementOfSeq DEF Path
  <1>1. /\ n \o p \in Path /\ Len(n \o p) = Len(n) + Len(p)
        /\ \A i \in 1..(Len(n) + Len(p)) : (n \o p)[i] = IF i <= Len(n) THEN n[i] ELSE p[i - Len(n)]
    BY ConcatProperties DEF Path
  <1>2. n \in Prefixes(n \o p)
    <2>1. \A i \in 1..Len(n) : n[i] = (n \o p)[i]
      BY <1>0, <1>1
    <2>2. Len(n) <= Len(n \o p)
      BY <1>0, <1>1
    <2> QED BY <1>1, <2>1, <2>2, PrefixIs, Zenon
  <1>3. IsPrefix(n, n \o p)
    <2>1. SubSeq(n, 1, Len(n)) = n
      BY SubSeqFull DEF Path
    <2>2. PICK l \in 0..Len(n \o p) : n = SubSeq(n \o p, 1, l)
      BY <1>2 DEF Prefixes
    <2>3. Len(SubSeq(n \o p, 1, l)) = l
      <3>1. \A i \in 1..l : (n \o p)[i] \in Nat
        BY <1>0, <1>1
      <3>2. Len(SubSeq(n \o p, 1, l)) = IF 1 <= l THEN l - 1 + 1 ELSE 0
        BY <1>0, <1>1, <3>1, SubSeqProperties
      <3> QED BY <1>0, <1>1, <3>2
    <2> QED BY <1>0, <1>1, <2>1, <2>2, <2>3 DEF IsPrefix
  <1>4. SubSeq(n \o p, Len(n) + 1, Len(n \o p)) = p
    <2> DEFINE s == SubSeq(n \o p, Len(n) + 1, Len(n \o p))
    <2>1. \A i \in (Len(n) + 1)..Len(n \o p) : (n \o p)[i] \in Nat
      BY <1>0, <1>1
    <2>2. /\ s \in Path
          /\ Len(s) = IF Len(n) + 1 <= Len(n \o p) THEN Len(n \o p) - (Len(n) + 1) + 1 ELSE 0
          /\ \A i \in 1..(Len(n \o p) - (Len(n) + 1) + 1) : s[i] = (n \o p)[Len(n) + 1 + i - 1]
      BY <1>0, <1>1, <2>1, SubSeqProperties DEF Path
    <2> HIDE DEF s
    <2>3. Len(s) = Len(p)
      BY <1>0, <1>1, <2>2
    <2>4. \A i \in 1..Len(s) : s[i] = p[i]
      <3> TAKE i \in 1..Len(s)
      <3>1. /\ i \in 1..(Len(n \o p) - (Len(n) + 1) + 1)
            /\ Len(n) + 1 + i - 1 \in 1..(Len(n) + Len(p))
            /\ ~ (Len(n) + 1 + i - 1 <= Len(n)) /\ (Len(n) + 1 + i - 1) - Len(n) = i
        BY <1>0, <1>1, <2>3
      <3>2. s[i] = (n \o p)[Len(n) + 1 + i - 1]
        BY <2>2, <3>1
      <3>3. (n \o p)[Len(n) + 1 + i - 1] = p[(Len(n) + 1 + i - 1) - Len(n)]
        BY <1>1, <3>1
      <3> QED BY <3>1, <3>2, <3>3
    <2>5. s = p
      BY <2>2, <2>3, <2>4, SeqEqual DEF Path
    <2> QED BY <2>5 DEF s
  <1>5. n \o p = n <=> p = <<>>
    BY ConcatEqualIffEmpty DEF Path
  <1>6. n \o <<>> = n
    BY ConcatEmptySeq DEF Path
  <1>7. \A r \in Path : n \o p = n \o r => p = r
    BY ConcatSimplifications DEF Path
  <1> QED BY <1>1, <1>2, <1>3, <1>4, <1>5, <1>6, <1>7

\* What is above a path under a name is above the name or under it.
LEMMA UnderPrefixes ==
    ASSUME NEW n \in Path, NEW p \in Path
    PROVE  /\ Prefixes(n \o p) = Prefixes(n) \cup {n \o r : r \in Prefixes(p)}
           /\ \A q \in Prefixes(n \o p) \ {n \o p} :
                 q \in Prefixes(n) \/ \E r \in Prefixes(p) \ {p} : q = n \o r
           /\ p # <<>> => n \o p # <<>> /\ Front(n \o p) = n \o Front(p)
  <1>0. Len(n) \in Nat /\ Len(p) \in Nat
    BY LenProperties DEF Path
  <1>1. /\ n \o p \in Path /\ Len(n \o p) = Len(n) + Len(p)
        /\ \A i \in 1..(Len(n) + Len(p)) : (n \o p)[i] = IF i <= Len(n) THEN n[i] ELSE p[i - Len(n)]
    BY ConcatProperties DEF Path
  <1>2. ASSUME NEW r \in Prefixes(p)
        PROVE  n \o r \in Prefixes(n \o p)
    <2>1. r \in Path /\ Len(r) \in Nat /\ Len(r) <= Len(p) /\ \A i \in 1..Len(r) : r[i] = p[i]
      BY PrefixIs, LenProperties DEF Path
    <2>2. /\ n \o r \in Path /\ Len(n \o r) = Len(n) + Len(r)
          /\ \A i \in 1..(Len(n) + Len(r)) : (n \o r)[i] = IF i <= Len(n) THEN n[i] ELSE r[i - Len(n)]
      BY <2>1, ConcatProperties DEF Path
    <2>3. \A i \in 1..Len(n \o r) : (n \o r)[i] = (n \o p)[i]
      <3> TAKE i \in 1..Len(n \o r)
      <3>1. i \in 1..(Len(n) + Len(r)) /\ i \in 1..(Len(n) + Len(p))
        BY <1>0, <2>1, <2>2
      <3>2. CASE i <= Len(n)
        BY <1>1, <2>2, <3>1, <3>2
      <3>3. CASE ~ (i <= Len(n))
        <4>1. i - Len(n) \in 1..Len(r)
          BY <1>0, <2>1, <3>1, <3>3
        <4> QED BY <1>1, <2>1, <2>2, <3>1, <3>3, <4>1
      <3> QED BY <3>2, <3>3
    <2>4. Len(n \o r) <= Len(n \o p)
      BY <1>0, <1>1, <2>1, <2>2
    <2> QED BY <1>1, <2>2, <2>3, <2>4, PrefixIs, Zenon
  <1>3. Prefixes(n) \subseteq Prefixes(n \o p)
    BY <1>1, Under, PrefixOrder
  <1>4. ASSUME NEW q \in Prefixes(n \o p), q \notin Prefixes(n)
        PROVE  \E r \in Prefixes(p) : q = n \o r
    <2>1. q \in Path /\ Len(q) \in Nat /\ Len(q) <= Len(n) + Len(p) /\ \A i \in 1..Len(q) : q[i] = (n \o p)[i]
      BY <1>1, PrefixIs, LenProperties DEF Path
    <2>2. Len(q) > Len(n)
      <3> SUFFICES ASSUME Len(q) <= Len(n) PROVE FALSE
        BY <1>0, <2>1
      <3>1. \A i \in 1..Len(q) : q[i] = n[i]
        BY <1>0, <1>1, <2>1
      <3> QED BY <1>4, <2>1, <3>1, PrefixIs
    <2> DEFINE r == SubSeq(p, 1, Len(q) - Len(n))
    <2>3. Len(q) - Len(n) \in 0..Len(p)
      BY <1>0, <2>1, <2>2
    <2>4. r \in Prefixes(p)
      BY <2>3 DEF Prefixes
    <2>5. r \in Path /\ Len(r) = Len(q) - Len(n) /\ \A i \in 1..Len(r) : r[i] = p[i]
      <3>1. \A i \in 1..(Len(q) - Len(n)) : p[i] \in Nat
        BY <1>0, <2>3, ElementOfSeq DEF Path
      <3>2. Len(r) = IF 1 <= Len(q) - Len(n) THEN (Len(q) - Len(n)) - 1 + 1 ELSE 0
        BY <1>0, <2>1, <3>1, SubSeqProperties
      <3>3. Len(r) = Len(q) - Len(n)
        BY <1>0, <2>1, <2>2, <3>2
      <3> QED BY <2>4, <3>3, PrefixIs
    <2> HIDE DEF r
    <2>6. /\ n \o r \in Path /\ Len(n \o r) = Len(n) + Len(r)
          /\ \A i \in 1..(Len(n) + Len(r)) : (n \o r)[i] = IF i <= Len(n) THEN n[i] ELSE r[i - Len(n)]
      BY <2>5, ConcatProperties DEF Path
    <2>7. Len(n \o r) = Len(q)
      BY <1>0, <2>1, <2>5, <2>6
    <2>8. \A i \in 1..Len(q) : q[i] = (n \o r)[i]
      <3> TAKE i \in 1..Len(q)
      <3>1. i \in 1..(Len(n) + Len(r)) /\ i \in 1..(Len(n) + Len(p))
        BY <1>0, <2>1, <2>6, <2>7
      <3>2. CASE i <= Len(n)
        BY <1>1, <2>1, <2>6, <3>1, <3>2
      <3>3. CASE ~ (i <= Len(n))
        <4>1. i - Len(n) \in 1..Len(r)
          BY <1>0, <2>1, <2>5, <3>1, <3>3
        <4> QED BY <1>1, <2>1, <2>5, <2>6, <3>1, <3>3, <4>1
      <3> QED BY <3>2, <3>3
    <2>9. q = n \o r
      BY <2>1, <2>6, <2>7, <2>8, SeqEqual DEF Path
    <2> QED BY <2>4, <2>9
  <1>5. Prefixes(n \o p) = Prefixes(n) \cup {n \o r : r \in Prefixes(p)}
    BY <1>2, <1>3, <1>4
  <1>6. \A q \in Prefixes(n \o p) \ {n \o p} :
           q \in Prefixes(n) \/ \E r \in Prefixes(p) \ {p} : q = n \o r
    BY <1>4
  <1>7. ASSUME p # <<>> PROVE n \o p # <<>> /\ Front(n \o p) = n \o Front(p)
    <2>1. Len(p) \in Nat \ {0}
      BY <1>7, EmptySeq DEF Path
    <2>2. n \o p # <<>>
      BY <1>0, <1>1, <2>1, EmptySeq
    <2>3. /\ Front(p) \in Path /\ Len(Front(p)) = Len(p) - 1
          /\ \A i \in 1..(Len(p) - 1) : Front(p)[i] = p[i]
      BY <1>7, FrontPrefixes
    <2>4. /\ Front(n \o p) \in Path /\ Len(Front(n \o p)) = Len(n \o p) - 1
          /\ \A i \in 1..(Len(n \o p) - 1) : Front(n \o p)[i] = (n \o p)[i]
      BY <1>1, <2>2, FrontPrefixes
    <2>5. /\ n \o Front(p) \in Path /\ Len(n \o Front(p)) = Len(n) + Len(Front(p))
          /\ \A i \in 1..(Len(n) + Len(Front(p))) :
                (n \o Front(p))[i] = IF i <= Len(n) THEN n[i] ELSE Front(p)[i - Len(n)]
      BY <2>3, ConcatProperties DEF Path
    <2>6. Len(Front(n \o p)) = Len(n \o Front(p))
      BY <1>0, <1>1, <2>1, <2>3, <2>4, <2>5
    <2>7. \A i \in 1..Len(Front(n \o p)) : Front(n \o p)[i] = (n \o Front(p))[i]
      <3> TAKE i \in 1..Len(Front(n \o p))
      <3>1. i \in 1..(Len(n) + Len(p)) /\ i \in 1..(Len(n \o p) - 1) /\ i \in 1..(Len(n) + Len(Front(p)))
        BY <1>0, <1>1, <2>1, <2>3, <2>4
      <3>2. CASE i <= Len(n)
        BY <1>1, <2>4, <2>5, <3>1, <3>2
      <3>3. CASE ~ (i <= Len(n))
        <4>1. i - Len(n) \in 1..(Len(p) - 1)
          BY <1>0, <1>1, <2>1, <3>1, <3>3
        <4> QED BY <1>1, <2>3, <2>4, <2>5, <3>1, <3>3, <4>1
      <3> QED BY <3>2, <3>3
    <2> QED BY <2>2, <2>4, <2>5, <2>6, <2>7, SeqEqual DEF Path
  <1> QED BY <1>5, <1>6, <1>7

\* What is above a path does not come after it.
LEMMA AboveFirst ==
    ASSUME NEW p \in Path, NEW q \in Prefixes(p)
    PROVE  ~ Before(p, q)
  <1>1. q \in Path /\ Len(q) \in Nat /\ Len(p) \in Nat /\ Len(q) <= Len(p) /\ \A i \in 1..Len(q) : q[i] = p[i]
    BY PrefixIs, LenProperties DEF Path
  <1>2. DOMAIN p = 1..Len(p) /\ DOMAIN q = 1..Len(q) /\ \A i \in 1..Len(p) : p[i] \in Nat
    BY <1>1, LenProperties, ElementOfSeq DEF Path
  <1>3. ~ IsStrictPrefix(p, q)
    <2> SUFFICES ASSUME IsStrictPrefix(p, q) PROVE FALSE
      OBVIOUS
    <2>1. Len(p) <= Len(q) /\ p # q
      BY DEF IsStrictPrefix, IsPrefix
    <2>2. p = q
      BY <1>1, <2>1, SeqEqual DEF Path
    <2> QED BY <2>1, <2>2
  <1>4. \A n \in DOMAIN p \cap DOMAIN q : ~ (p[n] < q[n])
    BY <1>1, <1>2
  <1> QED BY <1>3, <1>4 DEF Before

-----------------------------------------------------------------------------
(* Trees.                                                                  *)

\* A tree that may lack its root, as what is below a mount does when there is
\* nothing below.
Closed(t) ==
    \A p \in DOMAIN t :
        p \in Path /\ t[p] \in Node /\ \A q \in Prefixes(p) \ {p} : IsDir(t, q)

\* Nothing is taken away, and nothing else becomes a directory.
Grows(t, u) == DOMAIN t \subseteq DOMAIN u /\ \A p \in DOMAIN t : IsDir(u, p) => IsDir(t, p)

\* WithDirs makes a tree of a tree.
LEMMA DirsAdded ==
    ASSUME NEW t, IsTree(t), NEW p \in Path, CanMkdir(t, p)
    PROVE  /\ IsTree(WithDirs(t, p)) /\ Grows(t, WithDirs(t, p))
           /\ \A q \in Prefixes(p) : IsDir(WithDirs(t, p), q)
           /\ \A q \in DOMAIN t : WithDirs(t, p)[q] = t[q]
  <1> DEFINE u == WithDirs(t, p)
  <1>1. /\ DOMAIN u = DOMAIN t \cup Prefixes(p)
        /\ \A q \in DOMAIN u : u[q] = IF q \in Prefixes(p) THEN DirNode ELSE t[q]
    BY DEF WithDirs
  <1> HIDE DEF u
  <1>2. \A q \in Prefixes(p) : IsDir(u, q)
    BY <1>1 DEF IsDir
  <1>3. \A q \in DOMAIN t : u[q] = t[q]
    BY <1>1 DEF CanMkdir, IsDir
  <1>4. Grows(t, u)
    BY <1>1, <1>3 DEF Grows, IsDir
  <1>5. ASSUME NEW q \in DOMAIN u
        PROVE  q \in Path /\ u[q] \in Node /\ \A r \in Prefixes(q) \ {q} : IsDir(u, r)
    <2>1. CASE q \in Prefixes(p)
      BY <1>1, <1>2, <2>1, PrefixOrder DEF Node
    <2>2. CASE q \in DOMAIN t
      <3>1. q \in Path /\ t[q] \in Node /\ \A r \in Prefixes(q) \ {q} : IsDir(t, r)
        BY <2>2 DEF IsTree, Path
      <3> QED BY <1>1, <1>3, <2>2, <3>1 DEF IsDir
    <2> QED BY <1>1, <2>1, <2>2
  <1>6. IsTree(u)
    BY <1>1, <1>3, <1>5 DEF IsTree, Path, IsDir
  <1> QED BY <1>2, <1>3, <1>4, <1>6 DEF u

\* So does WithNode, for what may be written.
LEMMA NodePut ==
    ASSUME NEW t, IsTree(t), NEW p \in Path, CanWrite(t, p), NEW node \in Node, node # DirNode
    PROVE  IsTree(WithNode(t, p, node)) /\ Grows(t, WithNode(t, p, node))
  <1> DEFINE u == WithNode(t, p, node)
  <1>1. /\ DOMAIN u = DOMAIN t \cup {p}
        /\ \A q \in DOMAIN u : u[q] = IF q = p THEN node ELSE t[q]
    BY DEF WithNode
  <1> HIDE DEF u
  <1>2. p # <<>> /\ IsDir(t, Front(p)) /\ ~ IsDir(t, p)
    BY DEF CanWrite
  <1>3. Prefixes(p) = Prefixes(Front(p)) \cup {p} /\ Front(p) \in Path
    BY <1>2, FrontPrefixes
  <1>4. ASSUME NEW q, IsDir(t, q) PROVE IsDir(u, q)
    BY <1>1, <1>2, <1>4 DEF IsDir
  <1>5. Grows(t, u)
    BY <1>1 DEF Grows, IsDir
  <1>6. ASSUME NEW q \in DOMAIN u
        PROVE  q \in Path /\ u[q] \in Node /\ \A r \in Prefixes(q) \ {q} : IsDir(u, r)
    <2>1. CASE q = p
      <3>1. \A r \in Prefixes(Front(p)) \ {Front(p)} : IsDir(t, r)
        BY <1>2 DEF IsTree, IsDir
      <3>2. \A r \in Prefixes(p) \ {p} : IsDir(t, r)
        BY <1>2, <1>3, <3>1
      <3> QED BY <1>1, <1>4, <2>1, <3>2
    <2>2. CASE q # p
      <3>1. q \in DOMAIN t /\ u[q] = t[q]
        BY <1>1, <2>2
      <3>2. q \in Path /\ t[q] \in Node /\ \A r \in Prefixes(q) \ {q} : IsDir(t, r)
        BY <3>1 DEF IsTree, Path
      <3> QED BY <1>4, <3>1, <3>2
    <2> QED BY <2>1, <2>2
  <1>7. IsTree(u)
    BY <1>4, <1>6 DEF IsTree, Path
  <1> QED BY <1>5, <1>7 DEF u

\* A non-empty set of numbers has a least one, and a greatest one if it is
\* bounded.
LEMMA Least ==
    ASSUME NEW S \in SUBSET Nat, S # {}
    PROVE  \E n \in S : \A m \in S : n <= m
  <1>1. PICK n \in S : \A m \in S : <<m, n>> \notin OpToRel(<, Nat)
    BY WFMin, NatLessThanWellFounded, Zenon
  <1>2. \A m \in S : ~ (m < n)
    BY <1>1, Zenon DEF OpToRel
  <1> QED BY <1>2

\* What is seen of a stack of trees has the directories of what it has.
LEMMA StackIsClosed ==
    ASSUME NEW stack, DOMAIN stack \subseteq Nat, \A n \in DOMAIN stack : IsTree(stack[n])
    PROVE  Closed(Stacked(stack))
  <1> DEFINE t == Stacked(stack)
             SeenAt(n, p) == n \in DOMAIN stack /\ Shown(stack, n, p)
  <1>1. /\ \A p : p \in DOMAIN t <=> \E n : SeenAt(n, p)
        /\ \A p \in DOMAIN t : t[p] = stack[CHOOSE n \in DOMAIN stack : Shown(stack, n, p)][p]
    BY DEF Stacked, Shown
  <1>2. ASSUME NEW p, NEW n, NEW m, SeenAt(n, p), SeenAt(m, p) PROVE n = m
    BY <1>2 DEF Shown
  <1>3. ASSUME NEW p, NEW n, SeenAt(n, p) PROVE p \in DOMAIN t /\ t[p] = stack[n][p]
    <2>1. SeenAt(CHOOSE i \in DOMAIN stack : Shown(stack, i, p), p)
      BY <1>3
    <2>2. n = CHOOSE i \in DOMAIN stack : Shown(stack, i, p)
      BY <1>2, <1>3, <2>1
    <2> QED BY <1>1, <1>3, <2>2
  <1>4. ASSUME NEW p \in DOMAIN t
        PROVE  p \in Path /\ t[p] \in Node /\ \A q \in Prefixes(p) \ {p} : IsDir(t, q)
    <2>1. PICK n : SeenAt(n, p)
      BY <1>1
    <2>2. /\ n \in DOMAIN stack /\ n \in Nat /\ p \in DOMAIN stack[n]
          /\ \A m \in DOMAIN stack : m < n => p \notin DOMAIN stack[m] /\ Clear(stack[m], p)
      BY <2>1 DEF Shown
    <2>3. p \in Path /\ stack[n][p] \in Node /\ \A q \in Prefixes(p) \ {p} : IsDir(stack[n], q)
      BY <2>2 DEF IsTree, Path
    <2>4. ASSUME NEW q \in Prefixes(p) \ {p} PROVE IsDir(t, q)
      <3> DEFINE Having == {m \in DOMAIN stack : q \in DOMAIN stack[m]}
      <3>1. n \in Having /\ Having \in SUBSET Nat
        BY <2>2, <2>3 DEF IsDir
      <3>2. PICK k \in Having : \A m \in Having : k <= m
        BY <3>1, Least
      <3>3. k \in DOMAIN stack /\ k \in Nat /\ k <= n /\ q \in DOMAIN stack[k]
        BY <3>1, <3>2
      <3>4. IsDir(stack[k], q)
        <4>1. CASE k = n
          BY <2>3, <4>1
        <4>2. CASE k < n
          BY <2>2, <3>3, <4>2 DEF Clear
        <4> QED BY <2>2, <3>3, <4>1, <4>2
      <3>5. ASSUME NEW m \in DOMAIN stack, m < k PROVE q \notin DOMAIN stack[m] /\ Clear(stack[m], q)
        <4>1. m \in Nat /\ m < n
          BY <2>2, <3>3, <3>5
        <4>2. Clear(stack[m], p)
          BY <2>2, <4>1
        <4>3. Prefixes(q) \subseteq Prefixes(p)
          BY <2>3, PrefixOrder
        <4>4. Clear(stack[m], q)
          BY <4>2, <4>3 DEF Clear
        <4>5. q \notin DOMAIN stack[m]
          <5>1. m \in Having => k <= m
            BY <3>2
          <5> QED BY <3>3, <3>5, <4>1, <5>1
        <4> QED BY <4>4, <4>5
      <3>6. SeenAt(k, q)
        BY <3>3, <3>5 DEF Shown
      <3> QED BY <1>3, <3>4, <3>6 DEF IsDir
    <2> QED BY <1>3, <2>1, <2>3, <2>4
  <1> QED BY <1>4 DEF Closed

\* A mount shows a tree, whatever is below.
LEMMA OverIsTree ==
    ASSUME NEW up, NEW low, IsTree(up), Closed(low)
    PROVE  IsTree(Over(up, low))
  <1> DEFINE v == Over(up, low)
  <1>1. /\ \A p : p \in DOMAIN v <=> p \in DOMAIN up \/ (p \in DOMAIN low /\ Clear(up, p))
        /\ \A p \in DOMAIN v : v[p] = IF p \in DOMAIN up THEN up[p] ELSE low[p]
    BY DEF Over
  <1> HIDE DEF v
  <1>2. ASSUME NEW p \in DOMAIN v
        PROVE  p \in Path /\ v[p] \in Node /\ \A q \in Prefixes(p) \ {p} : IsDir(v, q)
    <2>1. CASE p \in DOMAIN up
      <3>1. p \in Path /\ up[p] \in Node /\ \A q \in Prefixes(p) \ {p} : IsDir(up, q)
        BY <2>1 DEF IsTree, Path
      <3> QED BY <1>1, <2>1, <3>1 DEF IsDir
    <2>2. CASE p \notin DOMAIN up
      <3>1. p \in DOMAIN low /\ Clear(up, p) /\ v[p] = low[p]
        BY <1>1, <2>2
      <3>2. p \in Path /\ low[p] \in Node /\ \A q \in Prefixes(p) \ {p} : IsDir(low, q)
        BY <3>1 DEF Closed
      <3>3. ASSUME NEW q \in Prefixes(p) \ {p} PROVE IsDir(v, q)
        <4>1. Prefixes(q) \subseteq Prefixes(p)
          BY <3>2, PrefixOrder
        <4>2. Clear(up, q)
          BY <3>1, <4>1 DEF Clear
        <4>3. CASE q \in DOMAIN up
          BY <1>1, <3>1, <4>3 DEF Clear, IsDir
        <4>4. CASE q \notin DOMAIN up
          BY <1>1, <3>2, <4>2, <4>4 DEF IsDir
        <4> QED BY <4>3, <4>4
      <3> QED BY <3>1, <3>2, <3>3
    <2> QED BY <2>1, <2>2
  <1>3. IsDir(v, <<>>)
    BY <1>1 DEF IsTree, IsDir
  <1> QED BY <1>2, <1>3 DEF v, IsTree, Path

\* A mount shows what was written through it, if what is changed was copied into
\* its writable directory.
LEMMA ThroughMount ==
    ASSUME NEW up, NEW low, NEW t, NEW w, IsTree(t), Grows(Over(up, low), t),
           DOMAIN up \subseteq DOMAIN w, DOMAIN w \subseteq DOMAIN t,
           \A p \in DOMAIN w : w[p] = t[p],
           \A p \in DOMAIN t \ DOMAIN w : p \in DOMAIN Over(up, low) /\ t[p] = Over(up, low)[p]
    PROVE  DOMAIN Over(w, low) = DOMAIN t /\ \A p \in DOMAIN t : Over(w, low)[p] = t[p]
  <1> DEFINE s == Over(up, low)
             v == Over(w, low)
  <1>1. /\ \A p : p \in DOMAIN s <=> p \in DOMAIN up \/ (p \in DOMAIN low /\ Clear(up, p))
        /\ \A p \in DOMAIN s : s[p] = IF p \in DOMAIN up THEN up[p] ELSE low[p]
    BY DEF Over
  <1>2. /\ \A p : p \in DOMAIN v <=> p \in DOMAIN w \/ (p \in DOMAIN low /\ Clear(w, p))
        /\ \A p \in DOMAIN v : v[p] = IF p \in DOMAIN w THEN w[p] ELSE low[p]
    BY DEF Over
  <1>3. /\ DOMAIN up \subseteq DOMAIN w /\ DOMAIN w \subseteq DOMAIN t
        /\ \A p \in DOMAIN w : w[p] = t[p]
        /\ \A p \in DOMAIN t \ DOMAIN w : p \in DOMAIN s /\ t[p] = s[p]
    OBVIOUS
  <1>4. DOMAIN s \subseteq DOMAIN t /\ \A p \in DOMAIN s : IsDir(t, p) => IsDir(s, p)
    BY DEF Grows
  <1> HIDE DEF s, v
  <1>5. DOMAIN up \subseteq DOMAIN t /\ DOMAIN w \subseteq DOMAIN t
    BY <1>3
  <1>6. ASSUME NEW p \in DOMAIN t PROVE p \in DOMAIN v /\ v[p] = t[p]
    <2>1. CASE p \in DOMAIN w
      BY <1>2, <1>3, <2>1
    <2>2. CASE p \notin DOMAIN w
      <3>1. p \in DOMAIN s /\ t[p] = s[p] /\ p \notin DOMAIN up
        BY <1>3, <2>2
      <3>2. p \in DOMAIN low /\ s[p] = low[p]
        BY <1>1, <3>1
      <3>3. ASSUME NEW q \in Prefixes(p) \cap DOMAIN w PROVE IsDir(w, q)
        <4>1. q # p
          BY <2>2, <3>3
        <4>2. IsDir(t, q)
          BY <4>1 DEF IsTree
        <4> QED BY <1>3, <4>2 DEF IsDir
      <3> QED BY <1>2, <2>2, <3>1, <3>2, <3>3 DEF Clear
    <2> QED BY <2>1, <2>2
  <1>7. ASSUME NEW p \in DOMAIN v PROVE p \in DOMAIN t
    <2>1. CASE p \in DOMAIN w
      BY <1>5, <2>1
    <2>2. CASE p \notin DOMAIN w
      <3>1. p \in DOMAIN low /\ Clear(w, p)
        BY <1>2, <2>2
      <3>2. ASSUME NEW q \in Prefixes(p) \cap DOMAIN up PROVE IsDir(up, q)
        <4>1. q \in DOMAIN w /\ q \in DOMAIN s /\ s[q] = up[q]
          BY <1>1, <1>3
        <4>2. IsDir(w, q)
          BY <3>1, <4>1 DEF Clear
        <4>3. IsDir(t, q)
          BY <1>3, <1>5, <4>1, <4>2 DEF IsDir
        <4>4. IsDir(s, q)
          BY <1>4, <4>1, <4>3
        <4> QED BY <4>1, <4>4 DEF IsDir
      <3>3. p \in DOMAIN s
        BY <1>1, <3>1, <3>2 DEF Clear
      <3> QED BY <1>4, <3>3
    <2> QED BY <2>1, <2>2
  <1>8. DOMAIN v = DOMAIN t /\ \A p \in DOMAIN t : v[p] = t[p]
    BY <1>6, <1>7
  <1> QED BY <1>8 DEF s, v

-----------------------------------------------------------------------------
(* The inductive invariant.                                                *)

\* Where a layer may meet a file of its name, that file is not longer.
NothingLonger ==
    \A l \in Layers, b \in Disks, d \in Dir :
        l.kind = "file" /\ l.name \in DOMAIN b[d] => Len(b[d][l.name].data) <= Len(l.data)

\* Directories are added under a name of their own, and have no links.
Extractables ==
    \A l \in Layers : l.kind = "archive" =>
        ~ Escapes(l.name) /\ \A p \in DOMAIN l.tree : l.tree[p].kind # "link"

\* What the store saw at the start.
Start == IF direct THEN before[top] ELSE View(before)

Left == {entries[n].path : n \in DOMAIN entries}

\* The layer is over what was there, but for what is left.
Partly(left) ==
    /\ IsTree(Seen)
    /\ DOMAIN Start \subseteq DOMAIN Seen
    /\ \A p \in DOMAIN Seen :
          \/ p \in DOMAIN Content /\ Seen[p] = Content[p]
          \/ p \in DOMAIN Start /\ Seen[p] = Start[p]
    /\ \A p \in DOMAIN Content \ left : p \in DOMAIN Seen /\ Seen[p] = Content[p]

Typed ==
    /\ mount.type # "bind" => \A d \in Writable : before[d] = Root
    /\ mount \in Mounts /\ layer \in Layers /\ before \in Disks
    /\ DOMAIN disk = Dir /\ direct \in BOOLEAN
    /\ pc \in {"add", "apply", "push", "extract", "done"}
    /\ pc = "add" => layer.kind = "archive"
    /\ pc = "extract" => layer.kind \in {"archive", "foreign"}
    /\ pc # "done" => result = "none"
    /\ pc \in {"add", "apply"} => ~ direct
    /\ pc \in {"add", "apply", "push"} => disk = before
    /\ faults \in Nat

\* The directory that is written is the one that may be.
Placed ==
    layer.kind # "unnamed" /\ (pc \in {"push", "extract"} \/ result = "ok") =>
        /\ top \in Dir /\ Writable = {top}
        /\ direct => before[top] = Root

\* The entries are of the directory that was added, in the order of Walk.
Listed ==
    layer.kind = "archive" /\ pc # "add" =>
        /\ entries \in Seq({Entry(layer.tree, layer.name, p) : p \in DOMAIN layer.tree})
        /\ \A m, n \in DOMAIN entries :
              m < n => entries[n].path \notin Prefixes(entries[m].path)
        /\ pc \in {"apply", "push"} =>
              \A p \in DOMAIN layer.tree : layer.name \o p \in Left

Extracting == layer.kind = "archive" /\ pc = "extract" => Partly(Left)

Finished ==
    result = "ok" /\ (layer.kind = "archive" \/ (layer.kind = "file" /\ NothingLonger)) =>
        Partly({})

Successful ==
    Extractables /\ layer.kind = "archive" /\ direct /\ pc = "done" => result = "ok" \/ faults > 0

LayerInv ==
    Typed /\ Placed /\ LowerUntouched /\ Listed /\ Extracting /\ Finished /\ Successful

-----------------------------------------------------------------------------
(* Where the layer is written.                                             *)

\* A bounded set of numbers has a greatest one.
LEMMA MaxIsIn ==
    ASSUME NEW S \in SUBSET Nat, S # {}, NEW k \in Nat, \A n \in S : n <= k
    PROVE  Max(S) \in S /\ \A n \in S : Max(S) >= n
  <1> DEFINE T == {k - n : n \in S}
  <1>1. T \in SUBSET Nat /\ T # {}
    <2>1. \A n \in S : k - n \in Nat
      OBVIOUS
    <2>2. PICK n \in S : TRUE
      OBVIOUS
    <2>3. k - n \in T
      OBVIOUS
    <2> QED BY <2>1, <2>3, Zenon
  <1>2. PICK m \in T : \A i \in T : m <= i
    BY <1>1, Least
  <1>3. PICK x \in S : m = k - x
    BY <1>2
  <1>4. \A y \in S : x >= y
    <2> TAKE y \in S
    <2>1. k - y \in T
      OBVIOUS
    <2>2. k - x <= k - y
      BY <1>2, <1>3, <2>1
    <2> QED BY <2>2
  <1> QED BY <1>3, <1>4 DEF Max

\* The options of a mount name its directories.
LEMMA MountOptions ==
    ASSUME Typed
    PROVE  /\ Options(WritableKinds) \subseteq DOMAIN mount.options
           /\ \A n \in Options(WritableKinds) \cup Options(LowerKinds) : mount.options[n].dir \in Dir
           /\ \A n \in Options(LowerKinds) : mount.options[n].dir \notin Writable
           /\ \A d, e \in Writable : d = e
           /\ Writable \subseteq Dir
           /\ \A kinds : Options(kinds) \in SUBSET Nat /\ \A n \in Options(kinds) : n <= Len(mount.options)
           /\ Len(mount.options) \in Nat
  <1> DEFINE Known == [kind : WritableKinds \cup LowerKinds, dir : Dir]
             Other == [kind : {"other"}, dir : Dir \cup {NoDir}]
  <1>1. IsMount(mount)
    BY LayerWriteAssumption DEF Typed
  <1>2. mount.options \in Seq(Known \cup Other)
    BY <1>1 DEF IsMount
  <1>3. Len(mount.options) \in Nat /\ DOMAIN mount.options = 1..Len(mount.options)
    BY <1>2, LenProperties
  <1>4. \A n \in DOMAIN mount.options : mount.options[n] \in Known \cup Other
    BY <1>2, <1>3, ElementOfSeq
  <1>5. \A n \in DOMAIN mount.options :
           mount.options[n].kind \in WritableKinds \cup LowerKinds => mount.options[n].dir \in Dir
    BY <1>4 DEF WritableKinds, LowerKinds
  <1>6. \A i, j \in DOMAIN mount.options :
           mount.options[i].kind \in WritableKinds =>
               /\ mount.options[j].kind \in LowerKinds => mount.options[i].dir # mount.options[j].dir
               /\ mount.options[j].kind \in WritableKinds => mount.options[i].dir = mount.options[j].dir
    BY <1>1 DEF IsMount
  <1> QED BY <1>3, <1>5, <1>6 DEF Options, Writable, DirsOf

\* What apply takes for the writable directory is the one of the mount, and is
\* empty when it goes past the mount.
LEMMA DirectIsWritable ==
    ASSUME Typed, DirectDir \in Dir
    PROVE  Writable = {DirectDir} /\ before[DirectDir] = Root
  <1>1. DirectDir \in Writable /\ mount.type # "bind"
    <2>0. NoDir \notin Dir
      BY LayerWriteAssumption
    <2>1. CASE mount.type = "overlay" /\ ~ userns
      <3>1. OverlayUpper \in Dir
        BY <2>1 DEF DirectDir
      <3>2. Options({"upper"}) # {}
        BY <2>0, <3>1 DEF OverlayUpper
      <3>3. Max(Options({"upper"})) \in Options({"upper"})
        BY <3>2, MountOptions, MaxIsIn
      <3>4. OverlayUpper = mount.options[Max(Options({"upper"}))].dir
        BY <3>2 DEF OverlayUpper
      <3>5. OverlayUpper \in Writable
        BY <3>3, <3>4 DEF Writable, DirsOf, Options, WritableKinds
      <3> QED BY <2>1, <3>5 DEF DirectDir
    <2>2. CASE mount.type = "aufs"
      <3>1. AufsUpper \in Dir
        BY <2>2 DEF DirectDir
      <3>2. 1 \in Options({"rw"}) /\ AufsUpper = mount.options[1].dir
        BY <2>0, <3>1 DEF AufsUpper
      <3>3. AufsUpper \in Writable
        BY <3>2 DEF Writable, DirsOf, Options, WritableKinds
      <3> QED BY <2>2, <3>3 DEF DirectDir
    <2>3. CASE ~ (mount.type = "overlay" /\ ~ userns) /\ mount.type # "aufs"
      BY <2>0, <2>3 DEF DirectDir
    <2> QED BY <2>1, <2>2, <2>3
  <1> QED BY <1>1, MountOptions DEF Typed

\* Otherwise it is the one that the mount has.
LEMMA UpperIsWritable ==
    ASSUME Typed, Writable # {}
    PROVE  Upper \in Dir /\ Writable = {Upper}
  BY MountOptions DEF Upper

\* The mount shows the same below as long as nothing is written there.
LEMMA BelowKept ==
    ASSUME Typed, NEW d, \A x \in Dir \ Writable : d[x] = before[x]
    PROVE  Below(d) = Below(before)
  <1>1. LowerTrees(d) = LowerTrees(before)
    BY MountOptions DEF LowerTrees
  <1> QED BY <1>1 DEF Below

\* What the store sees at first.
LEMMA SeenAtPush ==
    ASSUME Typed, Placed, pc \in {"apply", "push"}, Writable = {top}, top \in Dir
    PROVE  Seen = Start /\ IsTree(Seen) /\ Upper = top
  <1>1. disk = before /\ before \in Disks
    BY DEF Typed
  <1>2. Seen = Start
    BY <1>1 DEF Seen, Start
  <1>3. Upper = top
    BY DEF Upper
  <1>4. \A d \in Dir : IsTree(before[d])
    BY <1>1, LayerWriteAssumption
  <1>5. Closed(Below(before))
    <2>1. DOMAIN LowerTrees(before) \subseteq Nat
      BY MountOptions DEF LowerTrees
    <2>2. \A n \in DOMAIN LowerTrees(before) : IsTree(LowerTrees(before)[n])
      BY <1>4, MountOptions DEF LowerTrees
    <2> QED BY <2>1, <2>2, StackIsClosed DEF Below
  <1>6. IsTree(View(before))
    BY <1>3, <1>4, <1>5, OverIsTree DEF View
  <1> QED BY <1>1, <1>2, <1>3, <1>4, <1>6 DEF Seen

\* A write changes the writable directory alone.
LEMMA WriteKeeps ==
    ASSUME Typed, Placed, LowerUntouched, pc \in {"push", "extract"}, NEW t, Write(t),
           layer.kind # "unnamed", UNCHANGED <<inputs, top, direct>>
    PROVE  DOMAIN disk' = Dir /\ LowerUntouched'
  <1>1. top \in Dir /\ Writable = {top}
    BY DEF Placed
  <1>2. DOMAIN disk = Dir
    BY DEF Typed
  <1>3. DOMAIN disk' = Dir /\ \A d \in Dir \ {top} : disk'[d] = disk[d]
    BY <1>2 DEF Write
  <1>4. Writable' = Writable /\ before' = before
    BY DEF inputs, Writable, DirsOf, Options
  <1> QED BY <1>1, <1>3, <1>4 DEF LowerUntouched

\* The store, and in the end the mount, sees what was written.
LEMMA Written ==
    ASSUME Typed, Placed, LowerUntouched, pc \in {"push", "extract"}, layer.kind # "unnamed",
           NEW t, IsTree(t), Grows(Seen, t), Write(t), UNCHANGED <<inputs, top, direct>>
    PROVE  /\ DOMAIN Seen' = DOMAIN t /\ \A p \in DOMAIN t : Seen'[p] = t[p]
           /\ IsTree(Seen)'
           /\ Start' = Start /\ Content' = Content
  <1> DEFINE changed == {p \in DOMAIN t : p \notin DOMAIN Seen \/ t[p] # Seen[p]}
             w == [p \in DOMAIN disk[top] \cup UNION {Prefixes(q) : q \in changed} |-> t[p]]
  <1>1. top \in Dir /\ Writable = {top} /\ DOMAIN disk = Dir /\ direct \in BOOLEAN
    BY DEF Placed, Typed
  <1>2. disk' = [disk EXCEPT ![top] = w]
    BY DEF Write
  <1>3. disk'[top] = w
    BY <1>1, <1>2
  <1>4. UNION {Prefixes(q) : q \in changed} \subseteq DOMAIN t
    BY DEF IsTree, IsDir
  <1>5. changed \subseteq UNION {Prefixes(q) : q \in changed}
    <2> SUFFICES ASSUME NEW q \in changed PROVE q \in Prefixes(q)
      OBVIOUS
    <2>1. q \in Path
      BY DEF IsTree, Path
    <2> QED BY <2>1, PrefixOrder
  <1>6. DOMAIN disk[top] \subseteq DOMAIN Seen
    <2>1. Upper = top
      BY <1>1 DEF Upper
    <2> QED BY <1>1, <2>1 DEF Seen, View, Over
  <1>7. DOMAIN Seen \subseteq DOMAIN t
    BY DEF Grows
  <1>8. /\ DOMAIN w = DOMAIN disk[top] \cup UNION {Prefixes(q) : q \in changed}
        /\ \A p \in DOMAIN w : w[p] = t[p]
    OBVIOUS
  <1>9. \A p \in DOMAIN t : p \in changed \/ (p \in DOMAIN Seen /\ t[p] = Seen[p])
    OBVIOUS
  <1> HIDE DEF changed, w
  <1>10. /\ DOMAIN disk[top] \subseteq DOMAIN w /\ DOMAIN w \subseteq DOMAIN t
         /\ \A p \in DOMAIN t \ DOMAIN w : p \in DOMAIN Seen /\ t[p] = Seen[p]
    BY <1>4, <1>5, <1>6, <1>7, <1>8, <1>9
  <1>11. DOMAIN Seen' = DOMAIN t /\ \A p \in DOMAIN t : Seen'[p] = t[p]
    <2>1. CASE direct
      <3>1. Seen' = w /\ Seen = disk[top]
        BY <1>3, <2>1 DEF Seen
      <3> QED BY <1>8, <1>10, <3>1
    <2>2. CASE ~ direct
      <3>1. /\ mount' = mount /\ before' = before /\ top' = top /\ direct' = direct
        BY DEF inputs
      <3>2. Upper = top /\ Upper' = top
        BY <1>1, <3>1 DEF Upper, Writable, DirsOf, Options
      <3>3. Below(disk) = Below(before)
        BY BelowKept DEF LowerUntouched
      <3>4. Below(disk') = Below(before)
        <4>1. \A x \in Dir \ Writable : disk'[x] = before[x]
          BY <1>1, <1>2 DEF LowerUntouched
        <4> QED BY <4>1, BelowKept
      <3>5. Below(disk)' = Below(disk')
        BY <3>1 DEF Below, LowerTrees, Options
      <3>6. Seen = Over(disk[top], Below(before))
        BY <2>2, <3>2, <3>3 DEF Seen, View
      <3>7. Seen' = Over(w, Below(before))
        BY <1>3, <2>2, <3>1, <3>2, <3>4, <3>5 DEF Seen, View
      <3> HIDE DEF Seen
      <3> QED BY <1>8, <1>10, <3>6, <3>7, ThroughMount
    <2> QED BY <1>1, <2>1, <2>2
  <1>12. IsTree(Seen)'
    BY <1>11 DEF IsTree, IsDir
  <1>13. Start' = Start /\ Content' = Content
    BY DEF inputs, Start, View, Over, Upper, Writable, DirsOf, Options, Below, LowerTrees, Content, Target
  <1> QED BY <1>11, <1>12, <1>13

-----------------------------------------------------------------------------
(* What a layer is meant to hold.                                          *)

\* The content of an archive: the directories above its name, and its tree.
LEMMA ArchiveContent ==
    ASSUME Typed, layer.kind = "archive"
    PROVE  /\ layer.name \in Path /\ IsTree(layer.tree)
           /\ \A p \in DOMAIN layer.tree :
                 /\ p \in Path /\ layer.name \o p \in DOMAIN Content
                 /\ Content[layer.name \o p] = layer.tree[p]
           /\ \A q \in Prefixes(layer.name) : IsDir(Content, q)
           /\ \A q \in DOMAIN Content :
                 q \in Prefixes(layer.name) \/ \E p \in DOMAIN layer.tree : q = layer.name \o p
  <1>1. layer.name \in Path /\ IsTree(layer.tree)
    BY LayerWriteAssumption DEF Typed, IsLayer, Path
  <1>2. /\ DOMAIN Content = Prefixes(layer.name) \cup {layer.name \o q : q \in DOMAIN layer.tree}
        /\ \A p \in DOMAIN Content :
              Content[p] = IF IsPrefix(layer.name, p)
                           THEN layer.tree[SubSeq(p, Len(layer.name) + 1, Len(p))] ELSE DirNode
    BY DEF Content
  <1>3. ASSUME NEW p \in DOMAIN layer.tree
        PROVE  /\ p \in Path /\ layer.name \o p \in DOMAIN Content
               /\ Content[layer.name \o p] = layer.tree[p]
    <2>1. p \in Path
      BY <1>1 DEF IsTree, Path
    <2>2. layer.name \o p \in DOMAIN Content
      BY <1>2
    <2>3. /\ IsPrefix(layer.name, layer.name \o p)
          /\ SubSeq(layer.name \o p, Len(layer.name) + 1, Len(layer.name \o p)) = p
      BY <1>1, <2>1, Under
    <2> QED BY <1>2, <2>1, <2>2, <2>3
  <1>4. ASSUME NEW q \in Prefixes(layer.name) PROVE IsDir(Content, q)
    <2>1. CASE IsPrefix(layer.name, q)
      <3>1. q \in Path /\ Len(layer.name) <= Len(q) /\ Len(q) <= Len(layer.name)
        BY <1>1, <2>1, PrefixIs DEF IsPrefix
      <3>2. Len(q) \in Nat /\ Len(layer.name) \in Nat /\ \A i \in 1..Len(q) : q[i] = layer.name[i]
        BY <1>1, <3>1, PrefixIs, LenProperties DEF Path
      <3>3. q = layer.name
        <4>1. Len(q) = Len(layer.name)
          BY <3>1, <3>2
        <4> QED BY <1>1, <3>1, <3>2, <4>1, SeqEqual, Zenon DEF Path
      <3>4. q = layer.name \o <<>>
        BY <1>1, <3>3, Under, PrefixOrder
      <3>5. <<>> \in DOMAIN layer.tree /\ layer.tree[<<>>] = DirNode
        BY <1>1 DEF IsTree, IsDir
      <3> QED BY <1>3, <3>4, <3>5 DEF IsDir
    <2>2. CASE ~ IsPrefix(layer.name, q)
      BY <1>2, <2>2 DEF IsDir
    <2> QED BY <2>1, <2>2
  <1> QED BY <1>1, <1>2, <1>3, <1>4

\* The content of a file: itself, and the directories above.
LEMMA FileContent ==
    ASSUME Typed, layer.kind = "file"
    PROVE  /\ layer.name \in Path /\ layer.data \in Seq(Nat)
           /\ Target = Front(layer.name)
           /\ DOMAIN Content = Prefixes(Target) \cup {layer.name}
           /\ Content[layer.name] = FileNode(layer.data)
           /\ \A q \in Prefixes(Target) \ {layer.name} : Content[q] = DirNode
  <1>1. layer.name \in Path /\ layer.data \in Seq(Nat)
    BY LayerWriteAssumption DEF Typed, IsLayer, Path
  <1>2. Target = Front(layer.name)
    BY DEF Target
  <1>3. Content = WithNode(WithDirs(<<>>, Target), layer.name, FileNode(layer.data))
    BY DEF Content
  <1>4. DOMAIN <<>> = {}
    OBVIOUS
  <1> QED BY <1>1, <1>2, <1>3, <1>4 DEF WithNode, WithDirs

\* An entry of an archive.
LEMMA EntryOf ==
    ASSUME Typed, layer.kind = "archive", NEW p \in DOMAIN layer.tree
    PROVE  LET e == Entry(layer.tree, layer.name, p)
           IN  /\ e.path = layer.name \o p /\ e.kind = layer.tree[p].kind /\ e.data = layer.tree[p].data
               /\ e.kind \in {"dir", "file", "link"}
               /\ e.kind = "dir" => layer.tree[p] = DirNode
               /\ e.kind = "file" => layer.tree[p] = FileNode(e.data) /\ p # <<>>
               /\ FileNode(e.data) # DirNode /\ e.data \in Seq(Nat)
  <1>1. IsTree(layer.tree)
    BY ArchiveContent
  <1>2. layer.tree[p] \in Node /\ layer.tree[<<>>] = DirNode
    BY <1>1 DEF IsTree, IsDir
  <1>3. <<>> \in Seq(Nat)
    BY EmptySeq
  <1> DEFINE node == layer.tree[p]
             e == Entry(layer.tree, layer.name, p)
  <1>4. e.path = layer.name \o p /\ e.kind = node.kind /\ e.data = node.data
    BY DEF Entry
  <1>5. node = DirNode \/ (node = [kind |-> node.kind, data |-> node.data]
                           /\ node.kind \in {"file", "link"} /\ node.data \in Seq(Nat))
    BY <1>2 DEF Node
  <1>6. p = <<>> => node = DirNode
    BY <1>2
  <1> HIDE DEF node, e
  <1>7. DirNode.kind = "dir" /\ DirNode.data = <<>> /\ \A b : FileNode(b) # DirNode
    BY DEF DirNode, FileNode
  <1>8. /\ e.kind \in {"dir", "file", "link"}
        /\ e.kind = "dir" => node = DirNode
        /\ e.kind = "file" => node = FileNode(e.data) /\ p # <<>>
        /\ e.data \in Seq(Nat)
    BY <1>3, <1>4, <1>5, <1>6, <1>7 DEF FileNode
  <1> QED BY <1>4, <1>7, <1>8 DEF node, e

\* What follows a head in a list is its tail.
LEMMA HeadAndTail ==
    ASSUME NEW S, NEW s \in Seq(S), s # <<>>
    PROVE  /\ 1 \in DOMAIN s /\ Head(s) = s[1] /\ Tail(s) \in Seq(S)
           /\ \A n \in DOMAIN Tail(s) : n + 1 \in DOMAIN s /\ Tail(s)[n] = s[n + 1] /\ n \in Nat
           /\ \A n \in DOMAIN s : n \in Nat /\ (n = 1 \/ (n - 1 \in DOMAIN Tail(s) /\ Tail(s)[n - 1] = s[n] /\ 1 < n))
  <1>1. Len(s) \in Nat \ {0} /\ DOMAIN s = 1..Len(s)
    BY EmptySeq, LenProperties
  <1>2. /\ Tail(s) \in Seq(S) /\ Len(Tail(s)) = Len(s) - 1
        /\ \A i \in 1..Len(Tail(s)) : Tail(s)[i] = s[i + 1]
    BY HeadTailProperties
  <1>3. DOMAIN Tail(s) = 1..Len(Tail(s))
    BY <1>2, LenProperties
  <1>4. Head(s) = s[1]
    OBVIOUS
  <1>5. 1 \in DOMAIN s
    BY <1>1
  <1>6. \A n \in DOMAIN Tail(s) : n + 1 \in DOMAIN s /\ Tail(s)[n] = s[n + 1] /\ n \in Nat
    BY <1>1, <1>2, <1>3
  <1>7. ASSUME NEW n \in DOMAIN s, n # 1
        PROVE  n - 1 \in DOMAIN Tail(s) /\ Tail(s)[n - 1] = s[n] /\ 1 < n /\ n \in Nat
    <2>1. n - 1 \in 1..Len(Tail(s)) /\ (n - 1) + 1 = n /\ 1 < n /\ n \in Nat
      BY <1>1, <1>2, <1>7
    <2> QED BY <1>2, <1>3, <2>1
  <1> QED BY <1>1, <1>2, <1>4, <1>5, <1>6, <1>7

-----------------------------------------------------------------------------
(* Every step keeps the invariant.                                         *)

\* What a step that writes nothing leaves.
LEMMA Still ==
    ASSUME UNCHANGED <<inputs, disk, top, direct>>
    PROVE  /\ Seen' = Seen /\ Start' = Start /\ Content' = Content
           /\ Writable' = Writable
           /\ LowerUntouched => LowerUntouched'
  <1>1. Seen' = Seen
    BY DEF inputs, Seen, View, Over, Upper, Writable, DirsOf, Options, Below, LowerTrees
  <1>2. Start' = Start
    BY DEF inputs, Start, View, Over, Upper, Writable, DirsOf, Options, Below, LowerTrees
  <1>3. Content' = Content
    BY DEF inputs, Content, Target
  <1>4. Writable' = Writable
    BY DEF inputs, Writable, DirsOf, Options
  <1>5. LowerUntouched => LowerUntouched'
    BY <1>4 DEF inputs, LowerUntouched
  <1> QED BY <1>1, <1>2, <1>3, <1>4, <1>5

\* The inputs stay as they are.
LEMMA InputsTyped ==
    ASSUME Typed, UNCHANGED inputs
    PROVE  /\ (mount \in Mounts /\ layer \in Layers /\ before \in Disks)'
           /\ (mount.type # "bind" => \A d \in Writable : before[d] = Root)'
           /\ Writable' = Writable
  BY DEF Typed, inputs, Writable, DirsOf, Options

LEMMA AddKeeps ==
    ASSUME LayerInv, AddDirectory
    PROVE  LayerInv'
  <1> USE DEF LayerInv
  <1>1. layer.kind = "archive" /\ pc = "add" /\ pc' = "apply" /\ UNCHANGED <<inputs, disk, top, direct, result, faults>>
    BY DEF Typed, AddDirectory
  <1>2. Typed'
    BY <1>1, InputsTyped DEF Typed, inputs
  <1>3. Placed'
    BY <1>1 DEF Placed, Typed
  <1>4. LowerUntouched'
    BY <1>1, Still
  <1>5. Extracting' /\ Finished' /\ Successful'
    BY <1>1 DEF Extracting, Finished, Successful, Typed
  <1>6. Listed'
    <2> DEFINE t == layer.tree
               name == layer.name
               S == {Entry(t, name, p) : p \in DOMAIN t}
    <2>1. name \in Path /\ IsTree(t)
      BY <1>1, ArchiveContent
    <2>2. \A p \in DOMAIN t : p \in Path
      BY <2>1 DEF IsTree, Path
    <2>3. IsFiniteSet(DOMAIN t)
      BY <1>1, LayerWriteAssumption DEF Typed, IsLayer
    <2>4. Cardinality(DOMAIN t) \in Nat
      BY <2>3, FS_CardinalityType
    <2>5. PICK ps \in Bijection(1..Cardinality(DOMAIN t), DOMAIN t) :
             Walked(ps) /\ entries' = [n \in DOMAIN ps |-> Entry(t, name, ps[n])]
      BY DEF AddDirectory, Tarred
    <2>6. /\ ps \in [1..Cardinality(DOMAIN t) -> DOMAIN t]
          /\ \A p \in DOMAIN t : \E n \in 1..Cardinality(DOMAIN t) : ps[n] = p
      BY DEF Bijection, Surjection, Injection
    <2>7. DOMAIN ps = 1..Cardinality(DOMAIN t) /\ \A n \in DOMAIN ps : ps[n] \in DOMAIN t
      BY <2>6
    <2>8. DOMAIN entries' = DOMAIN ps /\ \A n \in DOMAIN ps : entries'[n] = Entry(t, name, ps[n])
      BY <2>5
    <2>9. \A n \in DOMAIN ps : entries'[n].path = name \o ps[n]
      BY <2>8 DEF Entry
    <2>10. entries' \in Seq(S)
      <3>1. entries' \in [1..Cardinality(DOMAIN t) -> S]
        BY <2>5, <2>7
      <3> QED BY <2>4, <3>1, SeqDef
    <2> HIDE DEF t, name
    <2>11. ASSUME NEW m \in DOMAIN ps, NEW n \in DOMAIN ps, m < n,
                  entries'[n].path \in Prefixes(entries'[m].path)
           PROVE  FALSE
      <3>1. ps[m] \in Path /\ ps[n] \in Path
        BY <2>2, <2>7
      <3>2. name \o ps[n] \in Prefixes(name \o ps[m])
        BY <2>9, <2>11
      <3>3. ps[n] \in Prefixes(ps[m])
        <4>1. CASE name \o ps[n] \in Prefixes(name)
          <5>1. name \in Prefixes(name \o ps[n])
            BY <2>1, <3>1, Under
          <5>2. name \o ps[n] = name
            BY <2>1, <4>1, <5>1, PrefixOrder
          <5>3. ps[n] = <<>>
            BY <2>1, <3>1, <5>2, Under
          <5> QED BY <3>1, <5>3, PrefixOrder
        <4>2. CASE \E r \in Prefixes(ps[m]) : name \o ps[n] = name \o r
          <5>1. PICK r \in Prefixes(ps[m]) : name \o ps[n] = name \o r
            BY <4>2
          <5>2. r \in Path
            BY <3>1, PrefixOrder
          <5>3. \A x \in Path : name \o ps[n] = name \o x => ps[n] = x
            BY <2>1, <3>1, Under, Zenon
          <5>4. ps[n] = r
            BY <5>1, <5>2, <5>3
          <5> QED BY <5>4
        <4>3. Prefixes(name \o ps[m]) = Prefixes(name) \cup {name \o r : r \in Prefixes(ps[m])}
          BY <2>1, <3>1, UnderPrefixes, Zenon
        <4> QED BY <3>2, <4>1, <4>2, <4>3
      <3>4. Before(ps[m], ps[n])
        BY <2>5, <2>11 DEF Walked
      <3> QED BY <3>1, <3>3, <3>4, AboveFirst
    <2>12. \A p \in DOMAIN t : name \o p \in Left'
      <3> TAKE p \in DOMAIN t
      <3>1. PICK n \in DOMAIN ps : ps[n] = p
        BY <2>6, <2>7
      <3> QED BY <2>8, <2>9, <3>1 DEF Left
    <2>13. layer.tree = t /\ layer.name = name /\ layer' = layer
      BY <1>1 DEF t, name, inputs
    <2> QED BY <2>8, <2>10, <2>11, <2>12, <2>13 DEF Listed
  <1> QED BY <1>2, <1>3, <1>4, <1>5, <1>6

LEMMA ChooseKeeps ==
    ASSUME LayerInv, Choose
    PROVE  LayerInv'
  <1> USE DEF LayerInv
  <1>1. pc = "apply" /\ ~ direct /\ result = "none" /\ UNCHANGED <<inputs, disk, entries>>
    BY DEF Choose, Typed
  <1>2. \/ /\ pc' = "push" /\ UNCHANGED <<result, faults>>
           /\ \/ DirectDir \in Dir /\ top' = DirectDir /\ direct' = TRUE
              \/ /\ Writable # {} \/ layer.kind = "unnamed"
                 /\ top' = IF Writable = {} THEN NoDir ELSE Upper
                 /\ direct' = FALSE
        \/ /\ pc' = "done" /\ result' = "failed" /\ direct' = direct
           /\ faults' \in Nat
    BY DEF Choose, Done, Mountable, Fault, Typed
  <1>3. direct' \in BOOLEAN /\ faults' \in Nat
    BY <1>2 DEF Typed
  <1>4. Typed'
    BY <1>1, <1>2, <1>3, InputsTyped DEF Typed, inputs
  <1>5. Placed'
    <2>1. Writable' = Writable /\ before' = before
      BY <1>1, InputsTyped DEF inputs
    <2>2. ASSUME pc' = "push", layer.kind # "unnamed"
          PROVE  top' \in Dir /\ Writable = {top'} /\ (direct' => before[top'] = Root)
      BY <1>2, <2>2, DirectIsWritable, UpperIsWritable
    <2>3. pc' \in {"push", "extract"} \/ result' = "ok" => pc' = "push"
      BY <1>1, <1>2
    <2>4. Root' = Root
      BY DEF Root
    <2>5. layer' = layer
      BY <1>1 DEF inputs
    <2> QED BY <2>1, <2>2, <2>3, <2>4, <2>5 DEF Placed
  <1>6. LowerUntouched'
    BY <1>1 DEF LowerUntouched, inputs, Writable, DirsOf, Options
  <1>7. Listed'
    <2>1. Left' = Left
      BY <1>1 DEF Left
    <2> QED BY <1>1, <1>2, <2>1 DEF Listed, inputs
  <1>8. Extracting' /\ Finished' /\ Successful'
    BY <1>1, <1>2 DEF Extracting, Finished, Successful
  <1> QED BY <1>4, <1>5, <1>6, <1>7, <1>8

\* A push or an extraction that ends without success.
LEMMA FailureKeeps ==
    ASSUME LayerInv, pc \in {"push", "extract"}, Done("failed"), UNCHANGED <<inputs, top, direct>>,
           DOMAIN disk' = Dir, LowerUntouched', UNCHANGED entries, faults' \in Nat,
           Extractables /\ layer.kind = "archive" /\ direct => faults' > 0
    PROVE  LayerInv'
  <1> USE DEF LayerInv, Done
  <1>1. Typed'
    BY InputsTyped DEF Typed, inputs
  <1>2. Placed' /\ Extracting' /\ Finished'
    BY DEF Placed, Extracting, Finished
  <1>3. Successful'
    BY DEF Successful, inputs
  <1>4. Listed'
    <2>1. Left' = Left
      BY DEF Left
    <2> QED BY <2>1 DEF Listed, inputs
  <1> QED BY <1>1, <1>2, <1>3, <1>4

LEMMA BlockedKeeps ==
    ASSUME LayerInv, Blocked
    PROVE  LayerInv'
  <1> USE DEF LayerInv
  <1>1. pc = "push" /\ Done("failed") /\ UNCHANGED <<inputs, disk, top, direct, entries, faults>>
    BY DEF Blocked
  <1>2. DOMAIN disk' = Dir /\ LowerUntouched' /\ faults' \in Nat
    BY <1>1, Still DEF Typed
  <1>3. ~ (Extractables /\ layer.kind = "archive" /\ direct)
    <2> SUFFICES ASSUME Extractables, layer.kind = "archive", direct PROVE FALSE
      OBVIOUS
    <2>1. ~ Escapes(layer.name) /\ Target = layer.name
      BY DEF Extractables, Typed, Target
    <2>2. ~ CanMkdir(Seen, layer.name)
      BY <2>1 DEF Blocked
    <2>3. Seen = Root
      BY <1>1 DEF Placed, Seen, Typed
    <2> QED BY <2>2, <2>3 DEF CanMkdir, Root, IsDir
  <1> QED BY <1>1, <1>2, <1>3, FailureKeeps

LEMMA PushUnnamedKeeps ==
    ASSUME LayerInv, PushUnnamed
    PROVE  LayerInv'
  <1> USE DEF LayerInv
  <1>1. /\ pc = "push" /\ layer.kind = "unnamed" /\ pc' = "done" /\ result' \in {"ok", "failed"}
        /\ UNCHANGED <<inputs, disk, top, direct, entries, faults>>
    BY DEF PushUnnamed, Done
  <1>2. layer' = layer /\ layer'.kind = "unnamed"
    BY <1>1 DEF inputs
  <1>3. Typed'
    BY <1>1, InputsTyped DEF Typed, inputs
  <1>4. Placed'
    BY <1>1, Still DEF Placed, inputs
  <1>5. Listed' /\ Extracting' /\ Finished' /\ Successful'
    BY <1>1, <1>2 DEF Listed, Extracting, Finished, Successful
  <1> QED BY <1>1, <1>3, <1>4, <1>5, Still

\* The file of a layer: in place, over one that is not longer, it is complete.
LEMMA OverwrittenIs ==
    ASSUME NEW old \in Seq(Nat), NEW new \in Seq(Nat)
    PROVE  /\ Overwritten(old, new) \in Seq(Nat)
           /\ Len(old) <= Len(new) => Overwritten(old, new) = new
  <1>1. Len(old) \in Nat /\ Len(new) \in Nat /\ \A i \in 1..Len(old) : old[i] \in Nat
    BY LenProperties, ElementOfSeq
  <1>2. SubSeq(old, Len(new) + 1, Len(old)) \in Seq(Nat)
    <2>1. \A i \in (Len(new) + 1)..Len(old) : old[i] \in Nat
      BY <1>1
    <2>2. Len(new) + 1 \in Int /\ Len(old) \in Int
      BY <1>1
    <2> QED BY <2>1, <2>2, SubSeqProperties
  <1>3. new \o SubSeq(old, Len(new) + 1, Len(old)) \in Seq(Nat)
    BY <1>2, ConcatProperties, Zenon
  <1>4. ASSUME Len(old) <= Len(new) PROVE new \o SubSeq(old, Len(new) + 1, Len(old)) = new
    <2>1. Len(old) < Len(new) + 1 /\ Len(new) + 1 \in Int /\ Len(old) \in Int
      BY <1>1, <1>4
    <2>2. SubSeq(old, Len(new) + 1, Len(old)) = <<>>
      BY <2>1, SubSeqEmpty, Zenon
    <2> QED BY <2>2, ConcatEmptySeq
  <1> QED BY <1>3, <1>4, Zenon DEF Overwritten

\* What is seen at first comes from some directory.
LEMMA SeenFromDisk ==
    ASSUME Typed, Writable = {top}, top \in Dir, NEW p \in DOMAIN View(before)
    PROVE  \E d \in Dir : p \in DOMAIN before[d] /\ View(before)[p] = before[d][p]
  <1> DEFINE low == Below(before)
             stack == LowerTrees(before)
  <1>1. Upper = top
    BY DEF Upper
  <1>2. \/ p \in DOMAIN before[top] /\ View(before)[p] = before[top][p]
        \/ p \in DOMAIN low /\ View(before)[p] = low[p]
    BY <1>1 DEF View, Over
  <1>3. ASSUME p \in DOMAIN low
        PROVE  \E n \in DOMAIN stack : p \in DOMAIN stack[n] /\ low[p] = stack[n][p]
    <2>1. \E n \in DOMAIN stack : Shown(stack, n, p)
      BY <1>3 DEF Below, Stacked
    <2>2. LET n == CHOOSE n \in DOMAIN stack : Shown(stack, n, p)
          IN  n \in DOMAIN stack /\ Shown(stack, n, p)
      BY <2>1
    <2> QED BY <1>3, <2>2 DEF Below, Stacked, Shown
  <1>4. \A n \in DOMAIN stack : \E d \in Dir : stack[n] = before[d]
    BY MountOptions DEF LowerTrees
  <1> HIDE DEF low, stack
  <1> QED BY <1>2, <1>3, <1>4

LEMMA PushFileKeeps ==
    ASSUME LayerInv, PushFile
    PROVE  LayerInv'
  <1> USE DEF LayerInv
  <1>1. /\ pc = "push" /\ layer.kind = "file" /\ UNCHANGED <<inputs, top, direct, entries>>
        /\ CanMkdir(Seen, Target) /\ ~ IsDir(Seen, layer.name)
    BY DEF PushFile
  <1> DEFINE name == layer.name
             data == layer.data
             old == Blocks(Seen, name)
             written(n) == WithNode(WithDirs(Seen, Target), name, FileNode(Overwritten(old, SubSeq(data, 1, n))))
  <1>2. PICK n \in 0..Len(data) :
           /\ Write(written(n))
           /\ \/ n = Len(data) /\ Done("ok") /\ UNCHANGED faults
              \/ Fault /\ Done("failed")
    BY DEF PushFile
  <1> HIDE DEF name, data, old
  <1>3. DOMAIN disk' = Dir /\ LowerUntouched'
    BY <1>1, <1>2, WriteKeeps
  <1>4. CASE Fault /\ Done("failed")
    <2>1. faults' \in Nat /\ faults' > 0
      BY <1>4 DEF Fault, Typed
    <2> QED BY <1>1, <1>3, <1>4, <2>1, FailureKeeps
  <1>5. CASE n = Len(data) /\ Done("ok") /\ UNCHANGED faults
    <2>1. Typed'
      BY <1>1, <1>3, <1>5, InputsTyped DEF Typed, inputs, Done
    <2>2. Placed'
      BY <1>1, InputsTyped DEF Placed, inputs
    <2>3. Listed' /\ Extracting' /\ Successful'
      BY <1>1 DEF Listed, Extracting, Successful, inputs
    <2>4. ASSUME NothingLonger PROVE Partly({})'
      <3>1. /\ name \in Path /\ data \in Seq(Nat) /\ Target = Front(name)
            /\ DOMAIN Content = Prefixes(Target) \cup {name}
            /\ Content[name] = FileNode(data)
            /\ \A q \in Prefixes(Target) \ {name} : Content[q] = DirNode
        BY <1>1, FileContent DEF name, data
      <3>2. Writable = {top} /\ top \in Dir
        BY <1>1 DEF Placed
      <3>3. Seen = Start /\ IsTree(Seen)
        BY <1>1, <3>2, SeenAtPush
      <3>4. name # <<>>
        BY <1>1, <3>3 DEF IsTree, name
      <3>5. Target \in Path /\ name \notin Prefixes(Target)
        BY <3>1, <3>4, FrontPrefixes
      <3>6. old \in Seq(Nat) /\ Len(old) <= Len(data)
        <4>1. Len(data) \in Nat
          BY <3>1, LenProperties
        <4>2. CASE name \notin DOMAIN Seen
          <5>1. old = <<>>
            BY <4>2 DEF old, Blocks
          <5> QED BY <4>1, <5>1, EmptySeq
        <4>3. CASE name \in DOMAIN Seen
          <5>1. old = Seen[name].data
            BY <4>3 DEF old, Blocks
          <5>2. Seen[name] \in Node /\ Seen[name] # DirNode
            BY <1>1, <3>3, <4>3 DEF IsTree, IsDir, name
          <5>3. old \in Seq(Nat)
            BY <5>1, <5>2 DEF Node
          <5>4. \E d \in Dir : name \in DOMAIN before[d] /\ Seen[name] = before[d][name]
            <6>1. CASE direct
              BY <3>2, <3>3, <4>3, <6>1 DEF Start
            <6>2. CASE ~ direct
              BY <3>2, <3>3, <4>3, <6>2, SeenFromDisk DEF Start
            <6> QED BY <6>1, <6>2
          <5>5. layer \in Layers /\ before \in Disks
            BY DEF Typed
          <5> QED BY <1>1, <2>4, <5>1, <5>3, <5>4, <5>5 DEF NothingLonger, name, data
        <4> QED BY <4>2, <4>3
      <3>7. SubSeq(data, 1, n) = data
        BY <1>5, <3>1, SubSeqFull
      <3>8. Overwritten(old, SubSeq(data, 1, n)) = data
        BY <3>1, <3>6, <3>7, OverwrittenIs
      <3> DEFINE dirs == WithDirs(Seen, Target)
                 t == WithNode(dirs, name, FileNode(data))
      <3>9. written(n) = t
        BY <3>8
      <3>10. /\ IsTree(dirs) /\ Grows(Seen, dirs)
             /\ \A q \in Prefixes(Target) : IsDir(dirs, q)
             /\ \A q \in DOMAIN Seen : dirs[q] = Seen[q]
        BY <1>1, <3>3, <3>5, DirsAdded
      <3>11. DOMAIN dirs = DOMAIN Seen \cup Prefixes(Target)
        BY DEF WithDirs
      <3>12. DOMAIN t = DOMAIN dirs \cup {name} /\ \A q \in DOMAIN t : t[q] = IF q = name THEN FileNode(data) ELSE dirs[q]
        BY DEF WithNode
      <3>13. FileNode(data) \in Node /\ FileNode(data) # DirNode
        BY <3>1 DEF Node, FileNode, DirNode
      <3>14. CanWrite(dirs, name)
        <4>1. Target \in Prefixes(Target)
          BY <3>5, PrefixOrder
        <4>2. ~ IsDir(dirs, name)
          BY <1>1, <3>5, <3>10, <3>11 DEF IsDir, name
        <4> QED BY <3>1, <3>4, <3>10, <4>1, <4>2 DEF CanWrite
      <3>15. IsTree(t) /\ Grows(dirs, t)
        BY <3>1, <3>10, <3>13, <3>14, NodePut
      <3> HIDE DEF dirs, t
      <3>16. Grows(Seen, t)
        BY <3>10, <3>15 DEF Grows
      <3>17. Write(t)
        BY <1>2, <3>9
      <3>18. /\ DOMAIN Seen' = DOMAIN t /\ \A p \in DOMAIN t : Seen'[p] = t[p]
             /\ IsTree(Seen)' /\ Start' = Start /\ Content' = Content
        BY <1>1, <3>15, <3>16, <3>17, Written
      <3>19. \A p \in DOMAIN t :
                \/ p \in DOMAIN Content /\ t[p] = Content[p]
                \/ p \in DOMAIN Start /\ t[p] = Start[p]
        BY <3>1, <3>3, <3>5, <3>10, <3>11, <3>12 DEF IsDir
      <3>20. \A p \in DOMAIN Content : p \in DOMAIN t /\ t[p] = Content[p]
        BY <3>1, <3>5, <3>10, <3>11, <3>12 DEF IsDir
      <3>21. DOMAIN Start \subseteq DOMAIN t
        BY <3>3, <3>11, <3>12
      <3> QED BY <3>18, <3>19, <3>20, <3>21 DEF Partly
    <2>5. Finished'
      <3>1. NothingLonger' <=> NothingLonger
        BY DEF NothingLonger
      <3> QED BY <1>1, <2>4, <3>1 DEF Finished, inputs
    <2> QED BY <1>3, <2>1, <2>2, <2>3, <2>5
  <1> QED BY <1>2, <1>4, <1>5

LEMMA PushDirKeeps ==
    ASSUME LayerInv, PushDir
    PROVE  LayerInv'
  <1> USE DEF LayerInv
  <1> DEFINE dirs == WithDirs(Seen, Target)
  <1>1. /\ pc = "push" /\ layer.kind \in {"archive", "foreign"} /\ UNCHANGED <<inputs, top, direct, entries>>
        /\ CanMkdir(Seen, Target) /\ Write(dirs) /\ Target = layer.name
    BY DEF PushDir, Target
  <1>2. (pc' = "extract" /\ UNCHANGED <<result, faults>>) \/ (Fault /\ Done("failed"))
    BY DEF PushDir
  <1> HIDE DEF dirs
  <1>3. DOMAIN disk' = Dir /\ LowerUntouched'
    BY <1>1, WriteKeeps
  <1>4. CASE Fault /\ Done("failed")
    <2>1. faults' \in Nat /\ faults' > 0
      BY <1>4 DEF Fault, Typed
    <2> QED BY <1>1, <1>3, <1>4, <2>1, FailureKeeps
  <1>5. CASE pc' = "extract" /\ UNCHANGED <<result, faults>>
    <2>1. Typed'
      BY <1>1, <1>3, <1>5, InputsTyped DEF Typed, inputs
    <2>2. Placed'
      BY <1>1, InputsTyped DEF Placed, inputs
    <2>3. Left' = Left
      BY <1>1 DEF Left
    <2>4. Listed'
      BY <1>1, <1>5, <2>3 DEF Listed, inputs
    <2>5. Finished' /\ Successful'
      BY <1>1, <1>5 DEF Finished, Successful, Typed
    <2>6. ASSUME layer.kind = "archive" PROVE Partly(Left)'
      <3>1. /\ layer.name \in Path
            /\ \A q \in Prefixes(layer.name) : IsDir(Content, q)
            /\ \A q \in DOMAIN Content :
                  q \in Prefixes(layer.name) \/ \E p \in DOMAIN layer.tree : q = layer.name \o p
        BY <2>6, ArchiveContent
      <3>2. Writable = {top} /\ top \in Dir
        BY <1>1 DEF Placed
      <3>3. Seen = Start /\ IsTree(Seen)
        BY <1>1, <3>2, SeenAtPush
      <3>4. /\ IsTree(dirs) /\ Grows(Seen, dirs)
            /\ \A q \in Prefixes(Target) : IsDir(dirs, q)
            /\ \A q \in DOMAIN Seen : dirs[q] = Seen[q]
        BY <1>1, <3>1, <3>3, DirsAdded DEF dirs
      <3>5. DOMAIN dirs = DOMAIN Seen \cup Prefixes(Target)
        BY DEF WithDirs, dirs
      <3>6. /\ DOMAIN Seen' = DOMAIN dirs /\ \A p \in DOMAIN dirs : Seen'[p] = dirs[p]
            /\ IsTree(Seen)' /\ Start' = Start /\ Content' = Content
        BY <1>1, <3>4, Written
      <3>7. \A p \in DOMAIN dirs :
               \/ p \in DOMAIN Content /\ dirs[p] = Content[p]
               \/ p \in DOMAIN Start /\ dirs[p] = Start[p]
        BY <1>1, <3>1, <3>3, <3>4, <3>5 DEF IsDir
      <3>8. \A p \in DOMAIN Content \ Left : p \in Prefixes(layer.name)
        BY <1>1, <2>6, <3>1 DEF Listed
      <3>9. \A p \in DOMAIN Content \ Left : p \in DOMAIN dirs /\ dirs[p] = Content[p]
        BY <1>1, <3>1, <3>4, <3>5, <3>8 DEF IsDir
      <3>10. DOMAIN Start \subseteq DOMAIN dirs
        BY <3>3, <3>5
      <3> QED BY <2>3, <3>6, <3>7, <3>9, <3>10 DEF Partly
    <2>7. Extracting'
      BY <1>1, <2>6 DEF Extracting, inputs
    <2> QED BY <1>3, <2>1, <2>2, <2>4, <2>5, <2>7
  <1> QED BY <1>2, <1>4, <1>5

\* What is above an entry is a directory of the layer.
LEMMA AboveEntry ==
    ASSUME Typed, layer.kind = "archive", NEW p \in DOMAIN layer.tree
    PROVE  LET path == layer.name \o p
           IN  /\ path \in Path
               /\ \A q \in Prefixes(path) \ {path} : IsDir(Content, q)
               /\ layer.tree[p] = DirNode => \A q \in Prefixes(path) : IsDir(Content, q)
  <1>1. /\ layer.name \in Path /\ IsTree(layer.tree)
        /\ \A r \in DOMAIN layer.tree :
              r \in Path /\ layer.name \o r \in DOMAIN Content /\ Content[layer.name \o r] = layer.tree[r]
        /\ \A q \in Prefixes(layer.name) : IsDir(Content, q)
    BY ArchiveContent
  <1>2. p \in Path /\ \A r \in Prefixes(p) \ {p} : IsDir(layer.tree, r)
    BY <1>1 DEF IsTree
  <1>3. \A q \in Prefixes(layer.name \o p) \ {layer.name \o p} :
           q \in Prefixes(layer.name) \/ \E r \in Prefixes(p) \ {p} : q = layer.name \o r
    BY <1>1, <1>2, UnderPrefixes, Zenon
  <1>4. \A r \in Prefixes(p) \ {p} : IsDir(Content, layer.name \o r)
    BY <1>1, <1>2 DEF IsDir
  <1>5. \A q \in Prefixes(layer.name \o p) \ {layer.name \o p} : IsDir(Content, q)
    BY <1>1, <1>3, <1>4
  <1>6. layer.name \o p \in Path
    BY <1>1, <1>2, Under, Zenon
  <1> QED BY <1>1, <1>5, <1>6 DEF IsDir

\* The next entry is of the directory that was added, and what is above it has
\* been extracted.
LEMMA NextEntry ==
    ASSUME Typed, Listed, layer.kind = "archive", pc = "extract", entries # <<>>
    PROVE  \E p \in DOMAIN layer.tree :
              /\ Head(entries) = Entry(layer.tree, layer.name, p)
              /\ Head(entries).path = layer.name \o p /\ layer.name \o p \in Left
              /\ \A q \in Prefixes(layer.name \o p) \ {layer.name \o p} : q \notin Left
  <1> DEFINE S == {Entry(layer.tree, layer.name, p) : p \in DOMAIN layer.tree}
  <1>1. /\ entries \in Seq(S)
        /\ \A m, n \in DOMAIN entries : m < n => entries[n].path \notin Prefixes(entries[m].path)
    BY DEF Listed
  <1>2. /\ 1 \in DOMAIN entries /\ Head(entries) = entries[1]
        /\ \A n \in DOMAIN entries : n = 1 \/ 1 < n
    BY <1>1, HeadAndTail
  <1>3. DOMAIN entries = 1..Len(entries) /\ entries[1] \in S
    BY <1>1, <1>2, LenProperties, ElementOfSeq
  <1>4. PICK p \in DOMAIN layer.tree : entries[1] = Entry(layer.tree, layer.name, p)
    BY <1>3
  <1>5. entries[1].path = layer.name \o p
    BY <1>4 DEF Entry
  <1>6. layer.name \o p \in Left
    BY <1>2, <1>5 DEF Left
  <1>7. \A q \in Prefixes(layer.name \o p) \ {layer.name \o p} : q \notin Left
    BY <1>1, <1>2, <1>5 DEF Left
  <1> QED BY <1>2, <1>4, <1>5, <1>6, <1>7

\* The rest of the entries is in order too.
LEMMA RestListed ==
    ASSUME Listed, layer.kind = "archive", pc = "extract", entries # <<>>,
           entries' = Tail(entries), pc' = "extract", UNCHANGED inputs
    PROVE  Listed' /\ Left \subseteq Left' \cup {Head(entries).path}
  <1> DEFINE S == {Entry(layer.tree, layer.name, p) : p \in DOMAIN layer.tree}
             rest == Tail(entries)
  <1>1. /\ entries \in Seq(S)
        /\ \A m, n \in DOMAIN entries : m < n => entries[n].path \notin Prefixes(entries[m].path)
    BY DEF Listed
  <1>2. /\ Head(entries) = entries[1] /\ rest \in Seq(S)
        /\ \A n \in DOMAIN rest : n + 1 \in DOMAIN entries /\ rest[n] = entries[n + 1] /\ n \in Nat
        /\ \A n \in DOMAIN entries : n = 1 \/ (n - 1 \in DOMAIN rest /\ rest[n - 1] = entries[n])
    BY <1>1, HeadAndTail
  <1> HIDE DEF rest
  <1>3. \A m, n \in DOMAIN rest : m < n => rest[n].path \notin Prefixes(rest[m].path)
    <2> SUFFICES ASSUME NEW m \in DOMAIN rest, NEW n \in DOMAIN rest, m < n
                 PROVE  rest[n].path \notin Prefixes(rest[m].path)
      OBVIOUS
    <2>1. m + 1 < n + 1
      BY <1>2
    <2> QED BY <1>1, <1>2, <2>1
  <1>4. Left' = {rest[n].path : n \in DOMAIN rest}
    BY DEF Left, rest
  <1>5. ASSUME NEW n \in DOMAIN entries
        PROVE  entries[n].path \in Left' \cup {Head(entries).path}
    <2>1. CASE n = 1
      BY <1>2, <2>1
    <2>2. CASE n # 1
      <3>1. n - 1 \in DOMAIN rest /\ rest[n - 1].path = entries[n].path
        BY <1>2, <2>2
      <3> QED BY <1>4, <3>1
    <2> QED BY <2>1, <2>2
  <1>6. layer' = layer /\ entries' = rest
    BY DEF inputs, rest
  <1>7. Listed'
    BY <1>2, <1>3, <1>6 DEF Listed
  <1> QED BY <1>5, <1>7 DEF Left

\* An entry that is extracted is where it is meant to be, and nothing else
\* has changed.
LEMMA EntryExtracted ==
    ASSUME LayerInv, layer.kind = "archive", pc = "extract", entries # <<>>,
           Extractable(Seen, Head(entries)), Write(Extracted(Seen, Head(entries))),
           UNCHANGED <<inputs, top, direct>>, Left \subseteq Left' \cup {Head(entries).path}
    PROVE  Partly(Left)'
  <1> USE DEF LayerInv
  <1> DEFINE e == Head(entries)
             t == Extracted(Seen, e)
  <1>1. PICK p \in DOMAIN layer.tree :
           e = Entry(layer.tree, layer.name, p) /\ e.path = layer.name \o p /\ e.path \in Left
    BY NextEntry
  <1> DEFINE path == layer.name \o p
  <1>2. /\ e.kind \in {"dir", "file", "link"}
        /\ e.kind = "dir" => layer.tree[p] = DirNode
        /\ e.kind = "file" => layer.tree[p] = FileNode(e.data)
        /\ FileNode(e.data) # DirNode /\ e.data \in Seq(Nat)
    BY <1>1, EntryOf
  <1>3. path \in DOMAIN Content /\ Content[path] = layer.tree[p]
    BY ArchiveContent
  <1>4. /\ path \in Path
        /\ layer.tree[p] = DirNode => \A q \in Prefixes(path) : IsDir(Content, q)
    BY AboveEntry
  <1>5. Partly(Left)
    BY DEF Extracting
  <1>6. Extractable(Seen, e) /\ Write(t) /\ e.path = path
    BY <1>1
  <1> HIDE DEF e, path
  <1>7. /\ IsTree(t) /\ Grows(Seen, t)
        /\ \A q \in DOMAIN t :
              \/ q \in DOMAIN Content /\ t[q] = Content[q]
              \/ q \in DOMAIN Seen /\ t[q] = Seen[q]
        /\ path \in DOMAIN t /\ t[path] = Content[path]
    <2>1. CASE e.kind = "file"
      <3>1. t = WithNode(Seen, path, FileNode(e.data)) /\ CanWrite(Seen, path)
        BY <1>6, <2>1 DEF Extracted, Extractable
      <3>2. FileNode(e.data) \in Node
        BY <1>2 DEF Node, FileNode
      <3>3. IsTree(Seen)
        BY <1>5 DEF Partly
      <3>4. IsTree(t) /\ Grows(Seen, t)
        BY <1>2, <1>4, <3>1, <3>2, <3>3, NodePut
      <3>5. DOMAIN t = DOMAIN Seen \cup {path} /\ \A q \in DOMAIN t : t[q] = IF q = path THEN FileNode(e.data) ELSE Seen[q]
        BY <3>1 DEF WithNode
      <3> QED BY <1>2, <1>3, <2>1, <3>4, <3>5
    <2>2. CASE e.kind = "dir"
      <3>1. t = WithDirs(Seen, path) /\ CanMkdir(Seen, path)
        BY <1>6, <2>2 DEF Extracted, Extractable
      <3>2. IsTree(Seen)
        BY <1>5 DEF Partly
      <3>3. IsTree(t) /\ Grows(Seen, t) /\ \A q \in DOMAIN Seen : t[q] = Seen[q]
        BY <1>4, <3>1, <3>2, DirsAdded
      <3>4. DOMAIN t = DOMAIN Seen \cup Prefixes(path) /\ \A q \in Prefixes(path) : t[q] = DirNode
        BY <3>1 DEF WithDirs
      <3>5. path \in Prefixes(path)
        BY <1>4, PrefixOrder
      <3> QED BY <1>2, <1>4, <2>2, <3>3, <3>4, <3>5 DEF IsDir
    <2>3. CASE e.kind = "link"
      BY <1>6, <2>3 DEF Extractable, InBase, Base, LinkTarget
    <2> QED BY <1>2, <2>1, <2>2, <2>3
  <1> HIDE DEF t
  <1>8. /\ DOMAIN Seen' = DOMAIN t /\ \A q \in DOMAIN t : Seen'[q] = t[q]
        /\ IsTree(Seen)' /\ Start' = Start /\ Content' = Content
    BY <1>6, <1>7, Written
  <1>9. Left \subseteq Left' \cup {path}
    BY <1>6 DEF e
  <1>10. DOMAIN Start \subseteq DOMAIN t
    BY <1>5, <1>7 DEF Partly, Grows
  <1>11. ASSUME NEW q \in DOMAIN t
         PROVE  \/ q \in DOMAIN Content /\ t[q] = Content[q]
                \/ q \in DOMAIN Start /\ t[q] = Start[q]
    BY <1>5, <1>7 DEF Partly
  <1>12. ASSUME NEW q \in DOMAIN Content \ Left' PROVE q \in DOMAIN t /\ t[q] = Content[q]
    <2>1. CASE q = path
      BY <1>7, <2>1
    <2>2. CASE q # path
      <3>1. q \in DOMAIN Seen /\ Seen[q] = Content[q]
        BY <1>5, <1>9, <2>2 DEF Partly
      <3> QED BY <1>7, <3>1 DEF Grows
    <2> QED BY <2>1, <2>2
  <1> QED BY <1>8, <1>10, <1>11, <1>12 DEF Partly

\* Where nothing is in the way, an entry of what was packed can be extracted.
LEMMA EntryFits ==
    ASSUME LayerInv, Extractables, layer.kind = "archive", direct, pc = "extract", entries # <<>>
    PROVE  Extractable(Seen, Head(entries))
  <1> USE DEF LayerInv
  <1> DEFINE e == Head(entries)
  <1>1. PICK p \in DOMAIN layer.tree :
           /\ e = Entry(layer.tree, layer.name, p) /\ e.path = layer.name \o p
           /\ \A q \in Prefixes(layer.name \o p) \ {layer.name \o p} : q \notin Left
    BY NextEntry
  <1> DEFINE path == layer.name \o p
  <1>2. /\ e.kind = layer.tree[p].kind /\ e.kind \in {"dir", "file", "link"}
        /\ e.kind = "dir" => layer.tree[p] = DirNode
        /\ e.kind = "file" => layer.tree[p] = FileNode(e.data) /\ p # <<>>
        /\ FileNode(e.data) # DirNode
    BY <1>1, EntryOf
  <1>3. /\ layer.name \in Path /\ p \in Path
        /\ path \in DOMAIN Content /\ Content[path] = layer.tree[p]
    BY ArchiveContent
  <1>4. /\ path \in Path
        /\ \A q \in Prefixes(path) \ {path} : IsDir(Content, q)
        /\ layer.tree[p] = DirNode => \A q \in Prefixes(path) : IsDir(Content, q)
    BY AboveEntry
  <1>5. Partly(Left)
    BY DEF Extracting
  <1>6. Start = Root
    BY DEF Placed, Start
  <1>7. DOMAIN Root = {<<>>} /\ Root[<<>>] = DirNode
    BY DEF Root
  <1>8. \A q \in DOMAIN Seen : (q \in DOMAIN Content /\ Seen[q] = Content[q]) \/ (q = <<>> /\ Seen[q] = DirNode)
    BY <1>5, <1>6, <1>7 DEF Partly
  <1>9. e.kind # "link"
    BY <1>2 DEF Extractables, Typed
  <1>10. IsPrefix(layer.name, path)
    BY <1>3, Under
  <1>11. \A q \in Prefixes(path) \ {path} : q \notin Left
    BY <1>1
  <1>12. e.path = path
    BY <1>1
  <1> HIDE DEF e, path
  <1>13. ASSUME e.kind = "file" PROVE CanWrite(Seen, path)
    <2>1. p # <<>> /\ Content[path] # DirNode
      BY <1>2, <1>3, <1>13
    <2>2. path # <<>>
      BY <1>3, <2>1, UnderPrefixes DEF path
    <2>3. Front(path) \in Prefixes(path) \ {path}
      BY <1>4, <2>2, FrontPrefixes
    <2>4. IsDir(Content, Front(path)) /\ Front(path) \notin Left
      BY <1>4, <1>11, <2>3
    <2>5. IsDir(Seen, Front(path))
      BY <1>5, <2>4 DEF Partly, IsDir
    <2>6. ~ IsDir(Seen, path)
      BY <1>8, <2>1, <2>2 DEF IsDir
    <2> QED BY <2>2, <2>5, <2>6 DEF CanWrite
  <1>14. ASSUME e.kind = "dir" PROVE CanMkdir(Seen, path)
    BY <1>2, <1>4, <1>8, <1>14 DEF CanMkdir, IsDir
  <1> QED BY <1>9, <1>10, <1>12, <1>13, <1>14 DEF Extractable, InBase, Base, e

LEMMA ExtractEntryKeeps ==
    ASSUME LayerInv, ExtractEntry
    PROVE  LayerInv'
  <1> USE DEF LayerInv
  <1>1. pc = "extract" /\ entries # <<>> /\ UNCHANGED <<inputs, top, direct>>
    BY DEF ExtractEntry
  <1>2. CASE /\ Extractable(Seen, Head(entries)) /\ Write(Extracted(Seen, Head(entries)))
             /\ entries' = Tail(entries) /\ UNCHANGED <<pc, result, faults>>
    <2>0. layer.kind # "unnamed"
      BY <1>1 DEF Typed
    <2>1. DOMAIN disk' = Dir /\ LowerUntouched'
      BY <1>1, <1>2, <2>0, WriteKeeps
    <2>2. Typed'
      BY <1>1, <1>2, <2>1, InputsTyped DEF Typed, inputs
    <2>3. Placed'
      BY <1>1, <1>2, InputsTyped DEF Placed, inputs
    <2>4. ASSUME layer.kind = "archive"
          PROVE  Listed' /\ Left \subseteq Left' \cup {Head(entries).path}
      BY <1>1, <1>2, <2>4, RestListed
    <2>5. layer' = layer
      BY <1>1 DEF inputs
    <2>6. Listed'
      BY <2>4, <2>5 DEF Listed
    <2>7. Extracting'
      BY <1>1, <1>2, <2>4, <2>5, EntryExtracted DEF Extracting
    <2>8. Finished' /\ Successful'
      BY <1>1, <1>2, <2>5 DEF Finished, Successful, Typed
    <2> QED BY <2>1, <2>2, <2>3, <2>6, <2>7, <2>8
  <1>3. CASE /\ IF Extractable(Seen, Head(entries)) THEN Fault ELSE UNCHANGED faults
             /\ Done("failed") /\ UNCHANGED <<disk, entries>>
    <2>1. faults' \in Nat /\ (Extractable(Seen, Head(entries)) => faults' > 0)
      BY <1>3 DEF Fault, Typed
    <2>2. DOMAIN disk' = Dir /\ LowerUntouched'
      BY <1>1, <1>3, Still DEF Typed
    <2>3. Extractables /\ layer.kind = "archive" /\ direct => faults' > 0
      BY <1>1, <2>1, EntryFits
    <2> QED BY <1>1, <1>3, <2>1, <2>2, <2>3, FailureKeeps
  <1> QED BY <1>1, <1>2, <1>3 DEF ExtractEntry

LEMMA VerifyKeeps ==
    ASSUME LayerInv, Verify
    PROVE  LayerInv'
  <1> USE DEF LayerInv
  <1>1. /\ pc = "extract" /\ entries = <<>> /\ pc' = "done" /\ result' \in {"ok", "failed"}
        /\ layer.kind = "archive" /\ ~ layer.padded => result' = "ok"
        /\ UNCHANGED <<inputs, disk, top, direct, entries, faults>>
    BY DEF Verify, Done
  <1>2. Typed'
    BY <1>1, InputsTyped DEF Typed, inputs
  <1>3. Placed'
    BY <1>1, Still DEF Placed, inputs
  <1>4. Left = {}
    BY <1>1 DEF Left
  <1>5. layer' = layer
    BY <1>1 DEF inputs
  <1>6. Listed' /\ Extracting'
    BY <1>1, <1>4, <1>5 DEF Listed, Extracting, Left
  <1>7. ASSUME layer.kind = "archive" PROVE Partly({})'
    BY <1>1, <1>4, <1>7, Still DEF Extracting, Partly
  <1>8. layer.kind # "file"
    BY <1>1 DEF Typed
  <1>9. Finished'
    BY <1>5, <1>7, <1>8 DEF Finished
  <1>10. Successful'
    <2>1. layer.kind = "archive" => ~ layer.padded
      BY LayerWriteAssumption DEF Typed, IsLayer
    <2> QED BY <1>1, <1>5, <2>1 DEF Successful
  <1> QED BY <1>1, <1>2, <1>3, <1>6, <1>9, <1>10, Still

LEMMA StartsWell ==
    ASSUME Init
    PROVE  LayerInv
  <1>1. disk = before /\ before \in Disks /\ layer \in Layers /\ mount \in Mounts
    BY DEF Init
  <1>2. DOMAIN disk = Dir /\ MaxFaults \in Nat
    BY <1>1, LayerWriteAssumption
  <1>3. /\ pc \in {"add", "apply"} /\ result = "none" /\ ~ direct /\ faults = 0 /\ direct \in BOOLEAN
        /\ layer.kind = "archive" <=> pc = "add"
    BY DEF Init
  <1>4. Typed
    BY <1>1, <1>2, <1>3 DEF Init, Typed
  <1>5. LowerUntouched
    BY <1>1 DEF LowerUntouched
  <1>6. Placed /\ Listed /\ Extracting /\ Finished /\ Successful
    BY <1>3 DEF Placed, Listed, Extracting, Finished, Successful
  <1> QED BY <1>4, <1>5, <1>6 DEF LayerInv

LEMMA StepKeeps ==
    ASSUME LayerInv, [Next]_vars
    PROVE  LayerInv'
  <1>1. CASE UNCHANGED vars
    <2>1. Left' = Left /\ Typed' /\ LowerUntouched' /\ (Placed => Placed')
      BY <1>1, InputsTyped, Still DEF LayerInv, vars, inputs, Left, Typed, Placed
    <2>2. Listed'
      BY <1>1, <2>1 DEF LayerInv, vars, inputs, Listed
    <2>3. Extracting' /\ Finished' /\ Successful'
      <3>1. UNCHANGED <<inputs, disk, top, direct>> /\ layer' = layer
        BY <1>1 DEF vars, inputs
      <3>2. Seen' = Seen /\ Start' = Start /\ Content' = Content
        BY <3>1, Still
      <3>3. NothingLonger' = NothingLonger /\ Extractables' = Extractables
        BY DEF NothingLonger, Extractables, Escapes
      <3> QED BY <1>1, <2>1, <3>1, <3>2, <3>3 DEF LayerInv, vars, Extracting, Finished, Successful, Partly
    <2> QED BY <2>1, <2>2, <2>3 DEF LayerInv
  <1>2. CASE Applied
    BY <1>1, <1>2 DEF Applied
  <1>3. CASE Next /\ ~ Applied
    BY <1>3, AddKeeps, ChooseKeeps, PushUnnamedKeeps, BlockedKeeps, PushFileKeeps, PushDirKeeps,
       ExtractEntryKeeps, VerifyKeeps DEF Next
  <1> QED BY <1>1, <1>2, <1>3

-----------------------------------------------------------------------------
(* What the mount shows in the end.                                        *)

LEMMA SameOver ==
    ASSUME NEW u, NEW v, NEW l, NEW k, DOMAIN Over(u, l) = DOMAIN Over(v, k),
           \A p \in DOMAIN Over(u, l) : Over(u, l)[p] = Over(v, k)[p]
    PROVE  Over(u, l) = Over(v, k)
  BY DEF Over

\* Every layer has a root.
LEMMA ContentHasRoot ==
    ASSUME Typed, layer.kind \in {"file", "archive"}, Partly({})
    PROVE  IsDir(Content, <<>>)
  <1>1. CASE layer.kind = "archive"
    BY <1>1, ArchiveContent, PrefixOrder
  <1>2. CASE layer.kind = "file"
    <2>1. /\ layer.name \in Path /\ Target = Front(layer.name)
          /\ DOMAIN Content = Prefixes(Target) \cup {layer.name}
          /\ Content[layer.name] = FileNode(layer.data)
          /\ \A q \in Prefixes(Target) \ {layer.name} : Content[q] = DirNode
      BY <1>2, FileContent
    <2>2. Seen[layer.name] = FileNode(layer.data) /\ IsDir(Seen, <<>>)
      BY <2>1 DEF Partly, IsTree
    <2>3. layer.name # <<>>
      BY <2>2 DEF IsDir, FileNode, DirNode
    <2>4. <<>> \in Prefixes(Target)
      BY <2>1, <2>3, FrontPrefixes, PrefixOrder
    <2> QED BY <2>1, <2>3, <2>4 DEF IsDir
  <1> QED BY <1>1, <1>2

\* A mount shows a complete layer over what it showed before, written through
\* it or not.
LEMMA CompleteShows ==
    ASSUME Typed, Placed, LowerUntouched, result = "ok", layer.kind \in {"file", "archive"}, Partly({})
    PROVE  View(disk) = Over(Content, View(before))
  <1> DEFINE low == Below(before)
             old == View(before)
             new == View(disk)
  <1>1. top \in Dir /\ Writable = {top} /\ (direct => before[top] = Root) /\ direct \in BOOLEAN
    BY DEF Placed, Typed
  <1>2. Upper = top /\ Below(disk) = low
    BY <1>1, BelowKept DEF Upper, LowerUntouched
  <1>3. new = Over(disk[top], low) /\ old = Over(before[top], low)
    BY <1>2 DEF View
  <1>4. /\ IsTree(Seen) /\ DOMAIN Start \subseteq DOMAIN Seen
        /\ \A p \in DOMAIN Seen :
              \/ p \in DOMAIN Content /\ Seen[p] = Content[p]
              \/ p \in DOMAIN Start /\ Seen[p] = Start[p]
        /\ \A p \in DOMAIN Content : p \in DOMAIN Seen /\ Seen[p] = Content[p]
    BY DEF Partly
  <1>5. IsDir(Content, <<>>)
    BY ContentHasRoot
  <1>6. CASE direct
    <2>1. Seen = disk[top] /\ Start = Root /\ old = Over(Root, low)
      BY <1>1, <1>3, <1>6 DEF Seen, Start
    <2>2. DOMAIN Root = {<<>>} /\ Root[<<>>] = DirNode
      BY DEF Root
    <2>3. DOMAIN Seen = DOMAIN Content /\ \A p \in DOMAIN Content : Seen[p] = Content[p]
      BY <1>4, <1>5, <2>1, <2>2 DEF IsDir
    <2>4. \A p : Clear(Root, p)
      BY <2>2 DEF Clear, IsDir
    <2>5. /\ DOMAIN old = {<<>>} \cup DOMAIN low
          /\ \A p \in DOMAIN old : old[p] = IF p = <<>> THEN DirNode ELSE low[p]
      BY <2>1, <2>2, <2>4 DEF Over
    <2>6. \A p : Clear(Seen, p) <=> Clear(Content, p)
      BY <2>3 DEF Clear, IsDir
    <2> DEFINE u == Over(Seen, low)
               v == Over(Content, old)
    <2>7. /\ \A p : p \in DOMAIN u <=> p \in DOMAIN Seen \/ (p \in DOMAIN low /\ Clear(Seen, p))
          /\ \A p \in DOMAIN u : u[p] = IF p \in DOMAIN Seen THEN Seen[p] ELSE low[p]
      BY DEF Over
    <2>8. /\ \A p : p \in DOMAIN v <=> p \in DOMAIN Content \/ (p \in DOMAIN old /\ Clear(Content, p))
          /\ \A p \in DOMAIN v : v[p] = IF p \in DOMAIN Content THEN Content[p] ELSE old[p]
      BY DEF Over
    <2> HIDE DEF u, v, old, low
    <2>9. \A p : p \in DOMAIN u <=> p \in DOMAIN v
      BY <1>5, <2>3, <2>5, <2>6, <2>7, <2>8 DEF IsDir
    <2>10. DOMAIN u = DOMAIN v
      BY <2>7, <2>8, <2>9 DEF u, v, Over
    <2>11. \A p \in DOMAIN u : u[p] = v[p]
      BY <1>5, <2>3, <2>5, <2>7, <2>8, <2>9 DEF IsDir
    <2>12. u = v
      BY <2>10, <2>11, SameOver DEF u, v
    <2> QED BY <1>3, <2>1, <2>12 DEF new, u, v, old
  <1>7. CASE ~ direct
    <2>1. Seen = new /\ Start = old
      BY <1>7 DEF Seen, Start
    <2> DEFINE v == Over(Content, old)
    <2>2. /\ \A p : p \in DOMAIN v <=> p \in DOMAIN Content \/ (p \in DOMAIN old /\ Clear(Content, p))
          /\ \A p \in DOMAIN v : v[p] = IF p \in DOMAIN Content THEN Content[p] ELSE old[p]
      BY DEF Over
    <2> HIDE DEF v, old, new
    <2>3. ASSUME NEW p \in DOMAIN new PROVE p \in DOMAIN v /\ new[p] = v[p]
      <3>1. CASE p \in DOMAIN Content
        BY <1>4, <2>1, <2>2, <3>1
      <3>2. CASE p \notin DOMAIN Content
        <4>1. p \in DOMAIN old /\ new[p] = old[p]
          BY <1>4, <2>1, <3>2
        <4>2. ASSUME NEW q \in Prefixes(p) \cap DOMAIN Content PROVE IsDir(Content, q)
          <5>1. q # p /\ IsDir(Seen, q)
            BY <1>4, <2>1, <3>2 DEF IsTree
          <5> QED BY <1>4, <5>1 DEF IsDir
        <4> QED BY <2>2, <3>2, <4>1, <4>2 DEF Clear
      <3> QED BY <3>1, <3>2
    <2>4. ASSUME NEW p \in DOMAIN v PROVE p \in DOMAIN new
      BY <1>4, <2>1, <2>2
    <2>5. DOMAIN new = DOMAIN v
      BY <2>3, <2>4
    <2>6. new = v
      BY <1>3, <2>3, <2>5, SameOver DEF v
    <2> QED BY <2>6 DEF new, v, old
  <1> QED BY <1>1, <1>6, <1>7

-----------------------------------------------------------------------------
(* The theorems.                                                           *)

\* The invariant: what the store sees while a layer is written is what was
\* there and the part of the layer that was written, whether the directory is
\* written past its mount or through it.
THEOREM LayerInvariance == Spec => []LayerInv
  <1>1. Init => LayerInv
    BY StartsWell
  <1>2. LayerInv /\ [Next]_vars => LayerInv'
    BY StepKeeps
  <1> QED BY <1>1, <1>2, PTL DEF Spec

\* The directories of the layers below are not written, by an apply that
\* succeeds or by one that fails: what apply takes for the upper directory of
\* an overlay, or for the branch of an aufs mount, is the writable one.
THEOREM NothingBelowIsWritten == Spec => []LowerUntouched
  <1>1. LayerInv => LowerUntouched
    BY DEF LayerInv
  <1> QED BY <1>1, LayerInvariance, PTL

\* What Add has packed can be extracted again into an empty directory by pushDir:
\* the order of the entries, their names and the digest are those it expects.
THEOREM AddedCanBeExtracted ==
    ASSUME Extractables
    PROVE  Spec => []AddedExtracts
  <1>1. LayerInv => AddedExtracts
    BY DEF LayerInv, Successful, AddedExtracts
  <1> QED BY <1>1, LayerInvariance, PTL

\* An apply that succeeds leaves a mount that shows the layer over what it
\* showed before, whichever way it was written, where no file of a layer meets
\* a longer one of its name: it is written without O_TRUNC.
THEOREM LayersAreVisible ==
    ASSUME NothingLonger
    PROVE  Spec => []LayerVisible
  <1>1. LayerInv => LayerVisible
    BY CompleteShows DEF LayerInv, Finished, LayerVisible
  <1> QED BY <1>1, LayerInvariance, PTL

=============================================================================
