------------------------------ MODULE SpecProofs ------------------------------
(***************************************************************************)
(* What NewContainer makes of its options, for any images, configs and     *)
(* environments and however often the reference moves: first what the      *)
(* loops over an environment compute, then the invariant of the options.   *)
(***************************************************************************)
EXTENDS SpecOptions, SequenceTheorems, WellFoundedInduction, TLAPS

-----------------------------------------------------------------------------
(* Counting.                                                               *)

LEMMA Least ==
    ASSUME NEW S \in SUBSET Nat, S # {}
    PROVE  \E n \in S : \A m \in S : n <= m
  <1>1. PICK n \in S : \A m \in S : <<m, n>> \notin OpToRel(<, Nat)
    BY WFMin, NatLessThanWellFounded, Zenon
  <1>2. \A m \in S : ~ (m < n)
    BY <1>1, Zenon DEF OpToRel
  <1> QED BY <1>2

\* Induction, over a set of numbers.
LEMMA UpTo ==
    ASSUME NEW N \in Nat, NEW S, 0 \in S, \A n \in 0..(N - 1) : n \in S => n + 1 \in S
    PROVE  \A n \in 0..N : n \in S
  <1> DEFINE T == {n \in 0..N : n \notin S}
  <1> SUFFICES ASSUME T # {} PROVE FALSE
    OBVIOUS
  <1>1. T \in SUBSET Nat
    OBVIOUS
  <1>2. PICK n \in T : \A m \in T : n <= m
    BY <1>1, Least
  <1>3. n \in Nat /\ n # 0 /\ n <= N /\ n \notin S
    OBVIOUS
  <1>4. n - 1 \in 0..(N - 1) /\ n - 1 + 1 = n /\ n - 1 \in 0..N /\ ~ (n <= n - 1)
    BY <1>3
  <1>5. n - 1 \in S
    BY <1>2, <1>4
  <1> QED BY <1>3, <1>4, <1>5

\* The passes of the loop over a list.
LEMMA LoopSteps ==
    ASSUME NEW s, Len(s) \in Nat
    PROVE  \E g : /\ Kept(s) = g[Len(s)].list
                  /\ g[0] = [i |-> 1, list |-> s]
                  /\ \A n \in 1..Len(s) : g[n] = Pass(g[n - 1])
  <1> DEFINE Step(f, n) ==
                 IF n = 0 THEN [i |-> 1, list |-> s] ELSE Pass(f[n - 1])
             S == {n \in Nat : \E f : f = [k \in 0..n |-> Step(f, k)]}
  <1>1. 0 \in S
    <2> DEFINE f == [k \in 0..0 |-> [i |-> 1, list |-> s]]
    <2>1. f = [k \in 0..0 |-> Step(f, k)]
      OBVIOUS
    <2> QED BY <2>1
  <1>2. ASSUME NEW n \in Nat, n \in S PROVE n + 1 \in S
    <2>1. PICK f : f = [k \in 0..n |-> Step(f, k)]
      BY <1>2
    <2> DEFINE g == [k \in 0..(n + 1) |-> IF k = n + 1 THEN Step(f, n + 1) ELSE f[k]]
    <2>2. \A k \in 0..n : g[k] = f[k]
      OBVIOUS
    <2>3. g[n + 1] = Step(f, n + 1) /\ DOMAIN g = 0..(n + 1) /\ g = [k \in 0..(n + 1) |-> g[k]]
      OBVIOUS
    <2> HIDE DEF g
    <2>4. ASSUME NEW k \in 0..(n + 1) PROVE g[k] = Step(g, k)
      <3>1. CASE k = n + 1
        <4>1. k - 1 \in 0..n /\ k # 0
          BY <3>1
        <4>2. g[k - 1] = f[k - 1]
          BY <2>2, <4>1
        <4> QED BY <2>3, <3>1, <4>2
      <3>2. CASE k \in 0..n /\ k # 0
        <4>1. k - 1 \in 0..n /\ g[k - 1] = f[k - 1] /\ g[k] = f[k]
          BY <2>2, <3>2
        <4> QED BY <2>1, <3>2, <4>1
      <3>3. CASE k = 0
        BY <2>1, <2>2, <3>3
      <3> QED BY <3>1, <3>2, <3>3
    <2>5. g = [k \in 0..(n + 1) |-> Step(g, k)]
      BY <2>3, <2>4
    <2> QED BY <2>5
  <1> HIDE DEF S
  <1>3. Len(s) \in S
    <2>1. \A n \in 0..(Len(s) - 1) : n \in S => n + 1 \in S
      BY <1>2
    <2>2. \A n \in 0..Len(s) : n \in S
      BY <1>1, <2>1, UpTo
    <2> QED BY <2>2
  <1>4. PICK g : g = [k \in 0..Len(s) |-> Step(g, k)]
    BY <1>3 DEF S
  <1>5. Kept(s) = (CHOOSE f : f = [k \in 0..Len(s) |-> Step(f, k)])[Len(s)].list
    BY DEF Kept
  <1> DEFINE c == CHOOSE f : f = [k \in 0..Len(s) |-> Step(f, k)]
  <1>6. c = [k \in 0..Len(s) |-> Step(c, k)]
    BY <1>4, Zenon
  <1> HIDE DEF c
  <1>7. c[0] = [i |-> 1, list |-> s]
    BY <1>6
  <1>8. ASSUME NEW n \in 1..Len(s)
        PROVE  c[n] = Pass(c[n - 1])
    <2>1. n \in 0..Len(s) /\ n # 0
      OBVIOUS
    <2>2. c[n] = Step(c, n)
      BY <1>6, <2>1, Zenon
    <2> QED BY <2>1, <2>2
  <1>9. Kept(s) = c[Len(s)].list
    BY <1>5 DEF c
  <1> QED BY <1>7, <1>8, <1>9

LEMMA OverrideSteps ==
    ASSUME NEW d, NEW o, Len(o) \in Nat
    PROVE  \E f : /\ Overridden(d, o) = f[Len(o)]
                  /\ f[0] = d
                  /\ \A n \in 1..Len(o) : f[n] = Override(d, f[n - 1], o[n])
  <1> DEFINE Step(f, n) ==
                 IF n = 0 THEN d ELSE Override(d, f[n - 1], o[n])
             S == {n \in Nat : \E f : f = [k \in 0..n |-> Step(f, k)]}
  <1>1. 0 \in S
    <2> DEFINE f == [k \in 0..0 |-> d]
    <2>1. f = [k \in 0..0 |-> Step(f, k)]
      OBVIOUS
    <2> QED BY <2>1
  <1>2. ASSUME NEW n \in Nat, n \in S PROVE n + 1 \in S
    <2>1. PICK f : f = [k \in 0..n |-> Step(f, k)]
      BY <1>2
    <2> DEFINE g == [k \in 0..(n + 1) |-> IF k = n + 1 THEN Step(f, n + 1) ELSE f[k]]
    <2>2. \A k \in 0..n : g[k] = f[k]
      OBVIOUS
    <2>3. g[n + 1] = Step(f, n + 1) /\ DOMAIN g = 0..(n + 1) /\ g = [k \in 0..(n + 1) |-> g[k]]
      OBVIOUS
    <2> HIDE DEF g
    <2>4. ASSUME NEW k \in 0..(n + 1) PROVE g[k] = Step(g, k)
      <3>1. CASE k = n + 1
        <4>1. k - 1 \in 0..n /\ k # 0
          BY <3>1
        <4>2. g[k - 1] = f[k - 1]
          BY <2>2, <4>1
        <4> QED BY <2>3, <3>1, <4>2
      <3>2. CASE k \in 0..n /\ k # 0
        <4>1. k - 1 \in 0..n /\ g[k - 1] = f[k - 1] /\ g[k] = f[k]
          BY <2>2, <3>2
        <4> QED BY <2>1, <3>2, <4>1
      <3>3. CASE k = 0
        BY <2>1, <2>2, <3>3
      <3> QED BY <3>1, <3>2, <3>3
    <2>5. g = [k \in 0..(n + 1) |-> Step(g, k)]
      BY <2>3, <2>4
    <2> QED BY <2>5
  <1> HIDE DEF S
  <1>3. Len(o) \in S
    <2>1. \A n \in 0..(Len(o) - 1) : n \in S => n + 1 \in S
      BY <1>2
    <2>2. \A n \in 0..Len(o) : n \in S
      BY <1>1, <2>1, UpTo
    <2> QED BY <2>2
  <1>4. PICK g : g = [k \in 0..Len(o) |-> Step(g, k)]
    BY <1>3 DEF S
  <1>5. Overridden(d, o) = (CHOOSE f : f = [k \in 0..Len(o) |-> Step(f, k)])[Len(o)]
    BY DEF Overridden
  <1> DEFINE c == CHOOSE f : f = [k \in 0..Len(o) |-> Step(f, k)]
  <1>6. c = [k \in 0..Len(o) |-> Step(c, k)]
    BY <1>4, Zenon
  <1> HIDE DEF c
  <1>7. c[0] = d
    BY <1>6
  <1>8. ASSUME NEW n \in 1..Len(o)
        PROVE  c[n] = Override(d, c[n - 1], o[n])
    <2>1. n \in 0..Len(o) /\ n # 0
      OBVIOUS
    <2>2. c[n] = Step(c, n)
      BY <1>6, <2>1, Zenon
    <2> QED BY <2>1, <2>2
  <1>9. Overridden(d, o) = c[Len(o)]
    BY <1>5 DEF c
  <1> QED BY <1>7, <1>8, <1>9

-----------------------------------------------------------------------------
(* What a process sees of a variable.                                      *)

\* What a list may hold; the provers do not know that "" and "TERM" are strings.
Entry == EnvEntry \cup {Blank, Term}

Env == Seq(Entry)

LEMMA WiderEnv ==
    ASSUME NEW s \in Seq(EnvEntry)
    PROVE  s \in Env
  BY SeqDef DEF Env, Entry

LEMMA MaxIs ==
    ASSUME NEW N \in Nat, NEW S \in SUBSET (1..N), S # {}
    PROVE  Max(S) \in S /\ \A n \in S : n <= Max(S)
  <1> DEFINE T == {n \in 0..N : S \cap 1..n = {} \/ \E m \in S \cap 1..n : \A i \in S \cap 1..n : i <= m}
  <1>1. 0 \in T
    OBVIOUS
  <1>2. ASSUME NEW n \in 0..(N - 1), n \in T PROVE n + 1 \in T
    <2>1. n + 1 \in 0..N /\ n \in Nat /\ 1..(n + 1) = (1..n) \cup {n + 1}
      OBVIOUS
    <2>2. CASE n + 1 \in S
      <3>1. n + 1 \in S \cap 1..(n + 1) /\ \A i \in S \cap 1..(n + 1) : i <= n + 1
        BY <2>1, <2>2
      <3> QED BY <2>1, <3>1
    <2>3. CASE n + 1 \notin S
      <3>1. S \cap 1..(n + 1) = S \cap 1..n
        BY <2>1, <2>3
      <3> QED BY <1>2, <2>1, <3>1
    <2> QED BY <2>2, <2>3
  <1> HIDE DEF T
  <1>3. N \in T
    BY <1>1, <1>2, UpTo
  <1>4. S \cap 1..N = S
    OBVIOUS
  <1>5. PICK m \in S : \A i \in S : i <= m
    BY <1>3, <1>4 DEF T
  <1>6. \A i \in S : m >= i
    BY <1>5
  <1>7. Max(S) \in S /\ \A n \in S : Max(S) >= n
    BY <1>6 DEF Max
  <1> QED BY <1>7

\* The last place of a variable, and what it says.
LEMMA LastIs ==
    ASSUME NEW s \in Env, NEW k
    PROVE  LET n == Cache(s, k)
           IN  /\ n = 0 <=> \A i \in DOMAIN s : s[i].key # k
               /\ n # 0 => /\ n \in DOMAIN s /\ s[n].key = k
                           /\ \A i \in DOMAIN s : s[i].key = k => i <= n
               /\ n \in 0..Len(s)
               /\ LastOf(s, k) = IF n = 0 THEN NoValue ELSE s[n].val
  <1> DEFINE S == {i \in 1..Len(s) : s[i].key = k}
  <1>1. Len(s) \in Nat /\ DOMAIN s = 1..Len(s)
    BY LenProperties DEF Env
  <1>2. Cache(s, k) = IF S # {} THEN Max(S) ELSE 0
    BY DEF Cache, SelectLastInSeq
  <1>3. LastOf(s, k) = IF Cache(s, k) = 0 THEN NoValue ELSE s[Cache(s, k)].val
    BY DEF LastOf, Cache
  <1>4. S # {} => Max(S) \in S /\ \A i \in S : i <= Max(S)
    BY <1>1, MaxIs
  <1>5. CASE S = {}
    BY <1>1, <1>2, <1>3, <1>5
  <1>6. CASE S # {}
    <2>1. Cache(s, k) \in S /\ \A i \in S : i <= Cache(s, k)
      BY <1>2, <1>4, <1>6
    <2> QED BY <1>1, <1>3, <2>1
  <1> QED BY <1>5, <1>6

\* Whatever is the last place of a variable tells its value.
LEMMA LastHas ==
    ASSUME NEW s \in Env, NEW k
    PROVE  /\ \A n \in DOMAIN s :
                 s[n].key = k /\ (\A i \in DOMAIN s : s[i].key = k => i <= n) => LastOf(s, k) = s[n].val
           /\ (\A i \in DOMAIN s : s[i].key # k) => LastOf(s, k) = NoValue
  <1>1. DOMAIN s = 1..Len(s) /\ Len(s) \in Nat
    BY LenProperties DEF Env
  <1>2. ASSUME NEW n \in DOMAIN s, s[n].key = k, \A i \in DOMAIN s : s[i].key = k => i <= n
        PROVE  LastOf(s, k) = s[n].val
    <2>1. Cache(s, k) # 0 /\ Cache(s, k) \in DOMAIN s /\ s[Cache(s, k)].key = k /\ n <= Cache(s, k)
      BY <1>2, LastIs
    <2>2. Cache(s, k) = n
      BY <1>1, <1>2, <2>1
    <2> QED BY <2>1, <2>2, LastIs
  <1>3. ASSUME \A i \in DOMAIN s : s[i].key # k PROVE LastOf(s, k) = NoValue
    BY <1>3, LastIs
  <1> QED BY <1>2, <1>3

LEMMA AppendIs ==
    ASSUME NEW s \in Env, NEW e \in Entry, NEW t, t = Append(s, e)
    PROVE  /\ t \in Env /\ Len(t) = Len(s) + 1
           /\ \A i \in 1..Len(s) : t[i] = s[i]
           /\ t[Len(s) + 1] = e
  BY AppendProperties DEF Env

\* An entry that is added at the end, and one that is replaced.
LEMMA LastAppend ==
    ASSUME NEW s \in Env, NEW e \in Entry, NEW k
    PROVE  /\ Append(s, e) \in Env
           /\ LastOf(Append(s, e), k) = IF e.key = k THEN e.val ELSE LastOf(s, k)
  <1> DEFINE t == Append(s, e)
  <1>1. /\ Len(s) \in Nat /\ DOMAIN s = 1..Len(s)
        /\ t \in Env /\ DOMAIN t = 1..(Len(s) + 1)
        /\ \A i \in 1..Len(s) : t[i] = s[i]
        /\ t[Len(s) + 1] = e
    BY AppendProperties, LenProperties DEF Env
  <1> HIDE DEF t
  <1>2. CASE e.key = k
    <2>1. Len(s) + 1 \in DOMAIN t /\ \A i \in DOMAIN t : i <= Len(s) + 1
      BY <1>1
    <2>2. LastOf(t, k) = t[Len(s) + 1].val
      BY <1>1, <1>2, <2>1, LastHas
    <2> QED BY <1>1, <1>2, <2>2 DEF t
  <1>3. CASE e.key # k
    <2> DEFINE n == Cache(s, k)
    <2>1. /\ n = 0 <=> \A i \in DOMAIN s : s[i].key # k
          /\ n # 0 => n \in DOMAIN s /\ s[n].key = k /\ \A i \in DOMAIN s : s[i].key = k => i <= n
          /\ LastOf(s, k) = IF n = 0 THEN NoValue ELSE s[n].val
      BY LastIs
    <2> HIDE DEF n
    <2>2. \A i \in DOMAIN t : t[i].key = k => i \in DOMAIN s /\ s[i].key = k
      BY <1>1, <1>3
    <2>3. CASE n = 0
      BY <1>1, <1>3, <2>1, <2>2, <2>3, LastHas DEF t
    <2>4. CASE n # 0
      <3>1. n \in DOMAIN t /\ t[n] = s[n]
        BY <1>1, <2>1, <2>4
      <3>2. t[n].key = k /\ \A i \in DOMAIN t : t[i].key = k => i <= n
        BY <2>1, <2>2, <2>4, <3>1
      <3>3. LastOf(t, k) = t[n].val
        BY <1>1, <3>1, <3>2, LastHas
      <3>4. LastOf(t, k) = s[n].val /\ LastOf(s, k) = s[n].val
        BY <2>1, <2>4, <3>1, <3>3
      <3> QED BY <1>1, <1>3, <3>4 DEF t
    <2> QED BY <2>3, <2>4
  <1> QED BY <1>1, <1>2, <1>3 DEF t

LEMMA LastReplaced ==
    ASSUME NEW s \in Env, NEW n \in DOMAIN s, NEW e \in Entry, NEW k, s[n].key # k, e.key # k
    PROVE  LastOf([s EXCEPT ![n] = e], k) = LastOf(s, k)
  <1> DEFINE t == [s EXCEPT ![n] = e]
             m == Cache(s, k)
  <1>1. t \in Env /\ DOMAIN t = DOMAIN s /\ t[n] = e /\ \A i \in DOMAIN s \ {n} : t[i] = s[i]
    BY ExceptSeq DEF Env
  <1>2. /\ m = 0 <=> \A i \in DOMAIN s : s[i].key # k
        /\ m # 0 => m \in DOMAIN s /\ s[m].key = k /\ \A i \in DOMAIN s : s[i].key = k => i <= m
        /\ LastOf(s, k) = IF m = 0 THEN NoValue ELSE s[m].val
    BY LastIs
  <1> HIDE DEF t, m
  <1>3. \A i \in DOMAIN s : t[i].key = k => s[i].key = k
    BY <1>1
  <1>4. CASE m = 0
    BY <1>1, <1>2, <1>3, <1>4, LastHas DEF t
  <1>5. CASE m # 0
    <2>1. m \in DOMAIN t /\ t[m] = s[m] /\ t[m].key = k /\ \A i \in DOMAIN t : t[i].key = k => i <= m
      BY <1>1, <1>2, <1>3, <1>5
    <2>2. LastOf(t, k) = t[m].val
      BY <1>1, <2>1, LastHas
    <2> QED BY <1>2, <1>5, <2>1, <2>2 DEF t
  <1> QED BY <1>4, <1>5

\* The last of the first n entries that set a variable gives it a value.
IsLast(s, n, k, v) ==
    \/ v = NoValue /\ \A i \in 1..n : s[i].key # k
    \/ \E i \in 1..n : /\ s[i].key = k /\ v = s[i].val
                       /\ \A j \in 1..n : s[j].key = k => j <= i

LEMMA IsLastGrows ==
    ASSUME NEW s \in Env, NEW k
    PROVE  /\ IsLast(s, 0, k, NoValue)
           /\ \A n \in 0..(Len(s) - 1) : \A v : IsLast(s, n, k, v) =>
                 IsLast(s, n + 1, k, IF s[n + 1].key = k THEN s[n + 1].val ELSE v)
           /\ \A v : IsLast(s, Len(s), k, v) => LastOf(s, k) = v
  <1>1. IsLast(s, 0, k, NoValue)
    BY DEF IsLast
  <1>2. ASSUME NEW n \in 0..(Len(s) - 1), NEW v, IsLast(s, n, k, v)
        PROVE  IsLast(s, n + 1, k, IF s[n + 1].key = k THEN s[n + 1].val ELSE v)
    <2>1. Len(s) \in Nat
      BY LenProperties DEF Env
    <2>2. n \in Nat /\ n + 1 \in 1..(n + 1) /\ \A j \in 1..(n + 1) : j <= n + 1 /\ (j = n + 1 \/ j \in 1..n)
      BY <2>1
    <2>3. \A j \in 1..n : j \in 1..(n + 1)
      BY <2>2
    <2>4. CASE s[n + 1].key = k
      BY <2>2, <2>4 DEF IsLast
    <2>5. CASE s[n + 1].key # k
      <3>1. CASE v = NoValue /\ \A i \in 1..n : s[i].key # k
        <4>1. \A i \in 1..(n + 1) : s[i].key # k
          BY <2>2, <2>5, <3>1
        <4> QED BY <2>5, <3>1, <4>1 DEF IsLast
      <3>2. CASE \E i \in 1..n : s[i].key = k /\ v = s[i].val /\ \A j \in 1..n : s[j].key = k => j <= i
        <4>1. PICK i \in 1..n : s[i].key = k /\ v = s[i].val /\ \A j \in 1..n : s[j].key = k => j <= i
          BY <3>2
        <4>2. \A j \in 1..(n + 1) : s[j].key = k => j <= i
          BY <2>2, <2>5, <4>1
        <4>3. i \in 1..(n + 1)
          BY <2>3
        <4> QED BY <2>5, <4>1, <4>2, <4>3 DEF IsLast
      <3> QED BY <1>2, <3>1, <3>2 DEF IsLast
    <2> QED BY <2>4, <2>5
  <1>3. ASSUME NEW v, IsLast(s, Len(s), k, v) PROVE LastOf(s, k) = v
    <2>1. DOMAIN s = 1..Len(s)
      BY LenProperties DEF Env
    <2> QED BY <1>3, <2>1, LastHas DEF IsLast
  <1> QED BY <1>1, <1>2, <1>3

\* All of t comes from s, and is not blank.
OfEntries(t, s) == \A i \in DOMAIN t : \E j \in DOMAIN s : t[i] = s[j] /\ s[j] # Blank

\* What the loop has kept so far, and what it still has before it after n passes:
\* the rest of the list it was given.
Done(p) == SubSeq(p.list, 1, p.i - 1)

Ahead(s, n, p) ==
    /\ p \in [i : Nat \ {0}, list : Env]
    /\ Len(p.list) = (p.i - 1) + (Len(s) - n)
    /\ \A j \in 1..(Len(s) - n) : p.list[(p.i - 1) + j] = s[n + j]

LEMMA FirstOnes ==
    ASSUME NEW l \in Env, NEW k \in Nat, k <= Len(l)
    PROVE  /\ SubSeq(l, 1, k) \in Seq(Entry) /\ Len(SubSeq(l, 1, k)) = k
           /\ \A j \in 1..k : SubSeq(l, 1, k)[j] = l[j]
  <1>1. Len(l) \in Nat /\ \A j \in 1..Len(l) : l[j] \in Entry
    BY LenProperties, ElementOfSeq DEF Env
  <1>2. \A j \in 1..k : l[j] \in Entry
    BY <1>1
  <1>3. /\ SubSeq(l, 1, k) \in Seq(Entry)
        /\ Len(SubSeq(l, 1, k)) = IF 1 <= k THEN k - 1 + 1 ELSE 0
        /\ \A j \in 1..(k - 1 + 1) : SubSeq(l, 1, k)[j] = l[1 + j - 1]
    BY <1>2, SubSeqProperties
  <1> QED BY <1>3

\* A blank entry is taken out, and the next one stands where it stood.
LEMMA BlankPass ==
    ASSUME NEW s \in Env, NEW n \in 0..(Len(s) - 1), NEW p, Ahead(s, n, p), s[n + 1] = Blank
    PROVE  Ahead(s, n + 1, Pass(p)) /\ Done(Pass(p)) = Done(p)
  <1> DEFINE i == p.i
             l == p.list
             u == SubSeq(l, 1, i - 1)
             v == SubSeq(l, i + 1, Len(l))
             r == RemoveAt(l, i)
  <1>1. /\ Len(s) \in Nat /\ n \in Nat /\ n < Len(s)
        /\ p \in [i : Nat \ {0}, list : Env] /\ i \in Nat \ {0} /\ l \in Env
        /\ Len(l) \in Nat /\ Len(l) = (i - 1) + (Len(s) - n)
        /\ \A j \in 1..(Len(s) - n) : l[(i - 1) + j] = s[n + j]
    BY LenProperties DEF Ahead, Env
  <1>2. i \in 1..Len(l) /\ (i - 1) + 1 = i /\ 1 \in 1..(Len(s) - n)
    BY <1>1
  <1>3. l[i] = Blank
    BY <1>1, <1>2
  <1>4. Pass(p) = [p EXCEPT !.list = r]
    BY <1>1, <1>2, <1>3 DEF Pass
  <1> HIDE DEF i, l
  <1>5. /\ u \in Env /\ Len(u) = i - 1 /\ \A j \in 1..(i - 1) : u[j] = l[j]
        /\ v \in Env /\ Len(v) = Len(l) - i /\ \A j \in 1..(Len(l) - i) : v[j] = l[i + j]
    BY <1>1, <1>2, SubSeqProperties DEF Env
  <1>6. r = u \o v
    BY DEF RemoveAt
  <1> HIDE DEF r, u, v
  <1>7. /\ r \in Env /\ Len(r) = (i - 1) + (Len(l) - i)
        /\ \A j \in 1..(i - 1) : r[j] = l[j]
        /\ \A j \in 1..(Len(l) - i) : r[(i - 1) + j] = l[i + j]
    <2>1. /\ r \in Env /\ Len(r) = Len(u) + Len(v)
          /\ \A j \in 1..(Len(u) + Len(v)) : r[j] = IF j <= Len(u) THEN u[j] ELSE v[j - Len(u)]
      BY <1>5, <1>6, ConcatProperties DEF Env
    <2>2. ASSUME NEW j \in 1..(i - 1) PROVE r[j] = l[j]
      <3>1. j \in 1..(Len(u) + Len(v)) /\ j <= Len(u)
        BY <1>1, <1>2, <1>5
      <3> QED BY <1>5, <2>1, <3>1
    <2>3. ASSUME NEW j \in 1..(Len(l) - i) PROVE r[(i - 1) + j] = l[i + j]
      <3>1. /\ (i - 1) + j \in 1..(Len(u) + Len(v)) /\ ~ ((i - 1) + j <= Len(u))
            /\ ((i - 1) + j) - Len(u) = j
        BY <1>1, <1>2, <1>5
      <3> QED BY <1>5, <2>1, <3>1
    <2> QED BY <1>5, <2>1, <2>2, <2>3
  <1>8. Pass(p) \in [i : Nat \ {0}, list : Env] /\ Pass(p).i = i /\ Pass(p).list = r
    BY <1>1, <1>4, <1>7 DEF i
  <1>9. Len(r) = (i - 1) + (Len(s) - (n + 1))
    BY <1>1, <1>2, <1>7
  <1>10. ASSUME NEW j \in 1..(Len(s) - (n + 1)) PROVE r[(i - 1) + j] = s[(n + 1) + j]
    <2>1. j \in 1..(Len(l) - i) /\ j + 1 \in 1..(Len(s) - n) /\ i + j = (i - 1) + (j + 1)
          /\ (n + 1) + j = n + (j + 1)
      BY <1>1
    <2> QED BY <1>1, <1>7, <2>1
  <1>11. Ahead(s, n + 1, Pass(p))
    BY <1>8, <1>9, <1>10 DEF Ahead
  <1>12. SubSeq(r, 1, i - 1) = SubSeq(l, 1, i - 1)
    <2> DEFINE x == SubSeq(r, 1, i - 1)
               y == SubSeq(l, 1, i - 1)
    <2>1. i - 1 <= Len(r) /\ i - 1 <= Len(l) /\ i - 1 \in Nat /\ Len(r) \in Nat
      BY <1>1, <1>2, <1>7
    <2>2. /\ x \in Seq(Entry) /\ Len(x) = i - 1 /\ \A j \in 1..(i - 1) : x[j] = r[j]
          /\ y \in Seq(Entry) /\ Len(y) = i - 1 /\ \A j \in 1..(i - 1) : y[j] = l[j]
      BY <1>1, <1>7, <2>1, FirstOnes
    <2> HIDE DEF x, y
    <2>3. x = y
      BY <1>7, <2>2, SeqEqual
    <2> QED BY <2>3 DEF x, y
  <1> QED BY <1>8, <1>11, <1>12 DEF Done, i, l

\* Any other entry joins those that are kept.
LEMMA OtherPass ==
    ASSUME NEW s \in Env, NEW n \in 0..(Len(s) - 1), NEW p, Ahead(s, n, p), s[n + 1] # Blank
    PROVE  Ahead(s, n + 1, Pass(p)) /\ Done(Pass(p)) = Append(Done(p), s[n + 1])
  <1> DEFINE i == p.i
             l == p.list
  <1>1. /\ Len(s) \in Nat /\ n \in Nat /\ n < Len(s)
        /\ p \in [i : Nat \ {0}, list : Env] /\ i \in Nat \ {0} /\ l \in Env
        /\ Len(l) \in Nat /\ Len(l) = (i - 1) + (Len(s) - n)
        /\ \A j \in 1..(Len(s) - n) : l[(i - 1) + j] = s[n + j]
    BY LenProperties DEF Ahead, Env
  <1>2. i \in 1..Len(l) /\ (i - 1) + 1 = i /\ 1 \in 1..(Len(s) - n)
    BY <1>1
  <1>3. l[i] = s[n + 1]
    BY <1>1, <1>2
  <1>4. Pass(p) = [p EXCEPT !.i = @ + 1]
    BY <1>1, <1>2, <1>3 DEF Pass
  <1>5. Pass(p) \in [i : Nat \ {0}, list : Env] /\ Pass(p).i = i + 1 /\ Pass(p).list = l
    BY <1>1, <1>4
  <1> HIDE DEF i, l
  <1>6. ASSUME NEW j \in 1..(Len(s) - (n + 1)) PROVE l[((i + 1) - 1) + j] = s[(n + 1) + j]
    <2>1. j + 1 \in 1..(Len(s) - n) /\ ((i + 1) - 1) + j = (i - 1) + (j + 1) /\ (n + 1) + j = n + (j + 1)
      BY <1>1
    <2> QED BY <1>1, <2>1
  <1>7. Len(l) = ((i + 1) - 1) + (Len(s) - (n + 1))
    BY <1>1
  <1>8. Ahead(s, n + 1, Pass(p))
    BY <1>5, <1>6, <1>7 DEF Ahead
  <1>9. SubSeq(l, 1, i) = Append(SubSeq(l, 1, i - 1), l[i])
    <2> DEFINE x == SubSeq(l, 1, i)
               y == SubSeq(l, 1, i - 1)
               z == Append(y, l[i])
    <2>1. i - 1 <= Len(l) /\ i <= Len(l) /\ i - 1 \in Nat /\ l[i] \in Entry
      BY <1>1, <1>2, ElementOfSeq DEF Env
    <2>2. /\ x \in Seq(Entry) /\ Len(x) = i /\ \A j \in 1..i : x[j] = l[j]
          /\ y \in Seq(Entry) /\ Len(y) = i - 1 /\ \A j \in 1..(i - 1) : y[j] = l[j]
      BY <1>1, <2>1, FirstOnes
    <2> HIDE DEF x, y
    <2>3. /\ z \in Seq(Entry) /\ Len(z) = Len(y) + 1 /\ z[Len(y) + 1] = l[i]
          /\ \A j \in 1..Len(y) : z[j] = y[j]
      BY <2>1, <2>2, AppendProperties
    <2> HIDE DEF z
    <2>4. Len(z) = i /\ z[i] = l[i] /\ \A j \in 1..(i - 1) : z[j] = l[j]
      BY <1>1, <2>2, <2>3
    <2>5. ASSUME NEW j \in 1..i PROVE z[j] = l[j]
      <3>1. j = i \/ j \in 1..(i - 1)
        BY <1>1
      <3> QED BY <2>4, <3>1
    <2>6. x = z
      BY <2>2, <2>3, <2>4, <2>5, SeqEqual
    <2> QED BY <2>6 DEF x, y, z
  <1>10. (i + 1) - 1 = i
    BY <1>1
  <1> QED BY <1>3, <1>5, <1>8, <1>9, <1>10 DEF Done, i, l

\* The loop that shortens the list it runs over keeps what a filter would.
LEMMA KeptSteps ==
    ASSUME NEW s \in Env
    PROVE  \E f : /\ Kept(s) = f[Len(s)]
                  /\ f[0] = <<>>
                  /\ \A n \in 1..Len(s) : f[n] = IF s[n] = Blank THEN f[n - 1] ELSE Append(f[n - 1], s[n])
  <1> DEFINE N == Len(s)
  <1>1. N \in Nat
    BY LenProperties DEF Env
  <1>2. PICK g : /\ Kept(s) = g[N].list
                 /\ g[0] = [i |-> 1, list |-> s]
                 /\ \A n \in 1..N : g[n] = Pass(g[n - 1])
    BY <1>1, LoopSteps
  <1> DEFINE S == {n \in 0..N : Ahead(s, n, g[n])}
             f == [n \in 0..N |-> Done(g[n])]
  <1> HIDE DEF N
  <1>3. 0 \in S
    <2>1. g[0] \in [i : Nat \ {0}, list : Env] /\ g[0].i = 1 /\ g[0].list = s
      BY <1>2
    <2>2. Len(s) = (1 - 1) + (Len(s) - 0) /\ \A j \in 1..(Len(s) - 0) : s[(1 - 1) + j] = s[0 + j]
      BY <1>1 DEF N
    <2> QED BY <1>1, <2>1, <2>2 DEF Ahead
  <1>4. ASSUME NEW n \in 0..(N - 1), n \in S
        PROVE  /\ n + 1 \in S
               /\ Done(g[n + 1]) = IF s[n + 1] = Blank THEN Done(g[n]) ELSE Append(Done(g[n]), s[n + 1])
    <2>1. n + 1 \in 1..N /\ (n + 1) - 1 = n /\ n + 1 \in 0..N /\ n \in 0..(Len(s) - 1)
      BY <1>1 DEF N
    <2>2. g[n + 1] = Pass(g[n])
      BY <1>2, <2>1
    <2>3. Ahead(s, n, g[n])
      BY <1>4
    <2> QED BY <2>1, <2>2, <2>3, BlankPass, OtherPass
  <1> HIDE DEF S
  <1>5. \A n \in 0..N : n \in S
    BY <1>1, <1>3, <1>4, UpTo
  <1>6. f[0] = <<>>
    <2>1. Done(g[0]) = SubSeq(s, 1, 0)
      BY <1>2 DEF Done
    <2>2. SubSeq(s, 1, 0) = <<>>
      BY SubSeqProperties, EmptySeq DEF Env
    <2> QED BY <1>1, <2>1, <2>2
  <1>7. ASSUME NEW n \in 1..N
        PROVE  f[n] = IF s[n] = Blank THEN f[n - 1] ELSE Append(f[n - 1], s[n])
    <2>1. n - 1 \in 0..(N - 1) /\ (n - 1) + 1 = n /\ n - 1 \in 0..N /\ n \in 0..N
      BY <1>1
    <2>2. n - 1 \in S
      BY <1>5, <2>1
    <2>3. Done(g[n]) = IF s[n] = Blank THEN Done(g[n - 1]) ELSE Append(Done(g[n - 1]), s[n])
      BY <1>4, <2>1, <2>2
    <2> QED BY <2>1, <2>3
  <1>8. f[N] = g[N].list
    <2> DEFINE l == g[N].list
    <2>1. N \in S /\ N \in 0..N
      BY <1>1, <1>5
    <2>2. /\ g[N].i \in Nat \ {0} /\ l \in Env /\ Len(l) = (g[N].i - 1) + (Len(s) - N)
      BY <2>1 DEF S, Ahead
    <2>3. Len(l) = g[N].i - 1 /\ Len(l) \in Nat
      BY <1>1, <2>2, LenProperties DEF N, Env
    <2> HIDE DEF l
    <2>4. SubSeq(l, 1, Len(l)) = l
      <3> DEFINE x == SubSeq(l, 1, Len(l))
      <3>1. x \in Seq(Entry) /\ Len(x) = Len(l) /\ \A j \in 1..Len(l) : x[j] = l[j]
        BY <2>2, <2>3, FirstOnes
      <3> HIDE DEF x
      <3>2. x = l
        BY <2>2, <3>1, SeqEqual DEF Env
      <3> QED BY <3>2 DEF x
    <2> QED BY <2>1, <2>3, <2>4 DEF Done, l
  <1> HIDE DEF f
  <1> QED BY <1>2, <1>6, <1>7, <1>8 DEF N

\* The loop that takes blank entries out takes nothing else.
LEMMA KeptIs ==
    ASSUME NEW s \in Env
    PROVE  /\ Kept(s) \in Env /\ OfEntries(Kept(s), s)
           /\ \A k : k # "" => LastOf(Kept(s), k) = LastOf(s, k)
  <1> DEFINE N == Len(s)
  <1>1. N \in Nat /\ DOMAIN s = 1..N /\ \A i \in 1..N : s[i] \in Entry
    BY LenProperties, ElementOfSeq DEF Env
  <1>2. PICK f : /\ Kept(s) = f[N] /\ f[0] = <<>>
                 /\ \A n \in 1..N : f[n] = IF s[n] = Blank THEN f[n - 1] ELSE Append(f[n - 1], s[n])
    BY <1>1, KeptSteps
  <1> DEFINE Good(n) == /\ f[n] \in Env /\ OfEntries(f[n], s)
                        /\ \A k : k # "" => IsLast(s, n, k, LastOf(f[n], k))
             S == {n \in 0..N : Good(n)}
  <1>3. Good(0)
    <2>1. <<>> \in Env /\ DOMAIN <<>> = {}
      BY EmptySeq DEF Env
    <2>2. \A k : LastOf(<<>>, k) = NoValue
      BY <2>1, LastHas
    <2>3. \A k : IsLast(s, 0, k, LastOf(f[0], k))
      BY <1>2, <2>2, IsLastGrows
    <2> QED BY <1>2, <2>1, <2>3 DEF OfEntries
  <1>4. ASSUME NEW n \in 0..(N - 1), Good(n) PROVE Good(n + 1)
    <2>1. n + 1 \in 1..N /\ (n + 1) - 1 = n
      BY <1>1
    <2> DEFINE e == s[n + 1]
    <2>2. f[n + 1] = IF e = Blank THEN f[n] ELSE Append(f[n], e)
      BY <1>2, <2>1
    <2>3. e \in Entry
      BY <1>1, <2>1
    <2>4. f[n] \in Env /\ OfEntries(f[n], s) /\ \A k : k # "" => IsLast(s, n, k, LastOf(f[n], k))
      BY <1>4
    <2>5. \A k : k # "" => IsLast(s, n + 1, k, IF e.key = k THEN e.val ELSE LastOf(f[n], k))
      BY <2>4, IsLastGrows
    <2> HIDE DEF e
    <2>6. CASE e = Blank
      <3>1. e.key = "" /\ f[n + 1] = f[n]
        BY <2>2, <2>6 DEF Blank
      <3>2. \A k : k # "" => IsLast(s, n + 1, k, LastOf(f[n + 1], k))
        BY <2>5, <3>1
      <3> QED BY <2>4, <3>1, <3>2
    <2>7. CASE e # Blank
      <3>1. f[n + 1] = Append(f[n], e)
        BY <2>2, <2>7
      <3> DEFINE t == f[n]
                 u == f[n + 1]
      <3>0. t \in Env /\ u = Append(t, e)
        BY <2>4, <3>1
      <3> HIDE DEF t, u
      <3>2. u \in Env /\ \A k : LastOf(u, k) = IF e.key = k THEN e.val ELSE LastOf(t, k)
        BY <2>3, <3>0, LastAppend
      <3>3. \A k : k # "" => IsLast(s, n + 1, k, LastOf(f[n + 1], k))
        BY <2>5, <3>2 DEF t, u
      <3>4. ASSUME NEW i \in DOMAIN u PROVE \E j \in DOMAIN s : u[i] = s[j] /\ s[j] # Blank
        <4>1. /\ DOMAIN t = 1..Len(t) /\ Len(t) \in Nat
              /\ DOMAIN u = 1..(Len(t) + 1)
              /\ \A j \in 1..Len(t) : u[j] = t[j]
              /\ u[Len(t) + 1] = e
          BY <2>3, <3>0, AppendProperties, LenProperties DEF Env
        <4>2. CASE i = Len(t) + 1
          BY <1>1, <2>1, <2>7, <4>1, <4>2 DEF e
        <4>3. CASE i \in DOMAIN t
          BY <2>4, <4>1, <4>3 DEF OfEntries, t
        <4> QED BY <4>1, <4>2, <4>3
      <3>5. OfEntries(f[n + 1], s)
        BY <3>4 DEF OfEntries, u
      <3> QED BY <3>2, <3>3, <3>5 DEF u
    <2> QED BY <2>6, <2>7
  <1>5. Good(N)
    <2> HIDE DEF Good
    <2>1. 0 \in S
      BY <1>1, <1>3
    <2>2. \A n \in 0..(N - 1) : n \in S => n + 1 \in S
      BY <1>1, <1>4
    <2> HIDE DEF S
    <2>3. \A n \in 0..N : n \in S
      BY <1>1, <2>1, <2>2, UpTo
    <2> QED BY <1>1, <2>3 DEF S
  <1>6. \A k : k # "" => LastOf(f[N], k) = LastOf(s, k)
    BY <1>5, IsLastGrows
  <1> QED BY <1>2, <1>5, <1>6

-----------------------------------------------------------------------------
(* What the overrides do.                                                  *)

Named(s) == \A n \in DOMAIN s : s[n].key # ""
HasName(e) == e.key # ""

LEMMA NamedAppend ==
    ASSUME NEW s \in Env, Named(s), NEW e \in Entry, HasName(e)
    PROVE  Append(s, e) \in Env /\ Named(Append(s, e))
  <1> DEFINE t == Append(s, e)
  <1>1. /\ t \in Env /\ Len(t) = Len(s) + 1 /\ t[Len(s) + 1] = e
        /\ \A i \in 1..Len(s) : t[i] = s[i]
    BY AppendIs DEF Env
  <1> HIDE DEF t
  <1>2. /\ Len(s) \in Nat /\ DOMAIN s = 1..Len(s)
        /\ DOMAIN t = 1..(Len(s) + 1)
    BY <1>1, LenProperties DEF Env
  <1>3. \A i \in 1..Len(s) : HasName(t[i])
    BY <1>1, <1>2 DEF Named, HasName
  <1>4. \A i \in DOMAIN t : HasName(t[i])
    BY <1>1, <1>2, <1>3
  <1> QED BY <1>1, <1>4 DEF Named, HasName, t

LEMMA NothingNamed == Named(<<>>)
  <1> SUFFICES DOMAIN <<>> = {}
    BY DEF Named
  <1>1. <<>> \in Seq(Entry) /\ Len(<<>>) = 0
    BY EmptySeq
  <1> QED BY <1>1, LenProperties

\* The last of the first n entries that give a variable a value gives it this.
IsLastSet(o, n, k, v) ==
    \/ v = NoValue /\ \A i \in 1..n : o[i].key = k => o[i].val = NoValue
    \/ \E i \in 1..n : /\ o[i].key = k /\ o[i].val # NoValue /\ v = o[i].val
                       /\ \A j \in 1..n : o[j].key = k /\ o[j].val # NoValue => j <= i

\* What the first n overrides make of an entry of the defaults.
Replaced(d, o, n, i, e) ==
    \/ e = d[i] /\ (Cache(d, d[i].key) = i => \A m \in 1..n : o[m].key # d[i].key)
    \/ /\ Cache(d, d[i].key) = i
       /\ \E m \in 1..n : /\ o[m].key = d[i].key /\ \A j \in 1..n : o[j].key = d[i].key => j <= m
                          /\ e = IF o[m].val = NoValue THEN Blank ELSE o[m]

\* What they make of the list.
OverriddenBy(d, o, n, r) ==
    /\ r \in Env /\ Len(d) <= Len(r)
    /\ \A i \in DOMAIN d : Replaced(d, o, n, i, r[i])
    /\ \A i \in DOMAIN r : i > Len(d) => Cache(d, r[i].key) = 0 /\ r[i].key # ""
    /\ \A k : k # "" /\ Cache(d, k) = 0 => IsLastSet(o, n, k, LastOf(r, k))

LEMMA IsLastSetGrows ==
    ASSUME NEW o \in Env, NEW k, NEW n \in 0..(Len(o) - 1), NEW v, IsLastSet(o, n, k, v)
    PROVE  IsLastSet(o, n + 1, k, IF o[n + 1].key = k /\ o[n + 1].val # NoValue THEN o[n + 1].val ELSE v)
  <1>1. Len(o) \in Nat
    BY LenProperties DEF Env
  <1>2. n \in Nat /\ n + 1 \in 1..(n + 1) /\ \A j \in 1..(n + 1) : j <= n + 1 /\ (j = n + 1 \/ j \in 1..n)
    BY <1>1
  <1>3. \A j \in 1..n : j \in 1..(n + 1)
    BY <1>2
  <1>4. CASE o[n + 1].key = k /\ o[n + 1].val # NoValue
    BY <1>2, <1>4 DEF IsLastSet
  <1>5. CASE ~ (o[n + 1].key = k /\ o[n + 1].val # NoValue)
    <2>1. CASE v = NoValue /\ \A i \in 1..n : o[i].key = k => o[i].val = NoValue
      <3>1. \A i \in 1..(n + 1) : o[i].key = k => o[i].val = NoValue
        BY <1>2, <1>5, <2>1
      <3> QED BY <1>5, <2>1, <3>1 DEF IsLastSet
    <2>2. CASE \E i \in 1..n : /\ o[i].key = k /\ o[i].val # NoValue /\ v = o[i].val
                               /\ \A j \in 1..n : o[j].key = k /\ o[j].val # NoValue => j <= i
      <3>1. PICK i \in 1..n : /\ o[i].key = k /\ o[i].val # NoValue /\ v = o[i].val
                              /\ \A j \in 1..n : o[j].key = k /\ o[j].val # NoValue => j <= i
        BY <2>2
      <3>2. \A j \in 1..(n + 1) : o[j].key = k /\ o[j].val # NoValue => j <= i
        BY <1>2, <1>5, <3>1
      <3>3. i \in 1..(n + 1)
        BY <1>3
      <3> QED BY <1>5, <3>1, <3>2, <3>3 DEF IsLastSet
    <2> QED BY <2>1, <2>2 DEF IsLastSet
  <1> QED BY <1>4, <1>5

LEMMA ReplacedGrows ==
    ASSUME NEW d \in Env, NEW o \in Env, NEW n \in 0..(Len(o) - 1), NEW i \in DOMAIN d, NEW e,
           Replaced(d, o, n, i, e)
    PROVE  Replaced(d, o, n + 1, i,
                    IF Cache(d, o[n + 1].key) # i THEN e
                    ELSE IF o[n + 1].val = NoValue THEN Blank ELSE o[n + 1])
  <1>1. Len(o) \in Nat
    BY LenProperties DEF Env
  <1>2. n \in Nat /\ n + 1 \in 1..(n + 1) /\ \A j \in 1..(n + 1) : j <= n + 1 /\ (j = n + 1 \/ j \in 1..n)
    BY <1>1
  <1>3. \A j \in 1..n : j \in 1..(n + 1)
    BY <1>2
  <1>4. i # 0
    BY LenProperties DEF Env
  <1>5. Cache(d, o[n + 1].key) = i => o[n + 1].key = d[i].key
    BY <1>4, LastIs
  <1>6. CASE Cache(d, o[n + 1].key) = i
    <2>1. o[n + 1].key = d[i].key /\ Cache(d, d[i].key) = i
      BY <1>5, <1>6
    <2> QED BY <1>2, <1>6, <2>1 DEF Replaced
  <1>7. CASE Cache(d, o[n + 1].key) # i
    <2>1. Cache(d, d[i].key) = i => o[n + 1].key # d[i].key
      BY <1>7
    <2>2. CASE e = d[i] /\ (Cache(d, d[i].key) = i => \A m \in 1..n : o[m].key # d[i].key)
      <3>1. Cache(d, d[i].key) = i => \A m \in 1..(n + 1) : o[m].key # d[i].key
        BY <1>2, <2>1, <2>2
      <3> QED BY <1>7, <2>2, <3>1 DEF Replaced
    <2>3. CASE /\ Cache(d, d[i].key) = i
               /\ \E m \in 1..n : /\ o[m].key = d[i].key /\ \A j \in 1..n : o[j].key = d[i].key => j <= m
                                  /\ e = IF o[m].val = NoValue THEN Blank ELSE o[m]
      <3>1. PICK m \in 1..n : /\ o[m].key = d[i].key /\ \A j \in 1..n : o[j].key = d[i].key => j <= m
                              /\ e = IF o[m].val = NoValue THEN Blank ELSE o[m]
        BY <2>3
      <3>2. \A j \in 1..(n + 1) : o[j].key = d[i].key => j <= m
        BY <1>2, <2>1, <2>3, <3>1
      <3>3. m \in 1..(n + 1)
        BY <1>3
      <3> QED BY <1>7, <2>3, <3>1, <3>2, <3>3 DEF Replaced
    <2> QED BY <2>2, <2>3 DEF Replaced
  <1> QED BY <1>6, <1>7

LEMMA OneOverride ==
    ASSUME NEW d \in Env, NEW o \in Env, Named(d), Named(o), NEW n \in 0..(Len(o) - 1), NEW r,
           OverriddenBy(d, o, n, r)
    PROVE  OverriddenBy(d, o, n + 1, Override(d, r, o[n + 1]))
  <1> DEFINE e == o[n + 1]
             p == Cache(d, e.key)
             u == Override(d, r, e)
             put == IF e.val = NoValue THEN Blank ELSE e
  <1>1. /\ Len(o) \in Nat /\ Len(d) \in Nat /\ DOMAIN d = 1..Len(d) /\ DOMAIN o = 1..Len(o)
        /\ \A i \in 1..Len(o) : o[i] \in Entry
    BY LenProperties, ElementOfSeq DEF Env
  <1>2. n + 1 \in 1..Len(o)
    BY <1>1
  <1>3. e \in Entry /\ e.key # ""
    BY <1>1, <1>2 DEF Named
  <1>4. r \in Seq(Entry) /\ Len(d) <= Len(r) /\ Len(r) \in Nat /\ DOMAIN r = 1..Len(r)
    BY LenProperties DEF OverriddenBy, Env
  <1>5. \A i \in DOMAIN r : i > Len(d) => Cache(d, r[i].key) = 0 /\ r[i].key # ""
    BY DEF OverriddenBy
  <1>6. \A i \in DOMAIN d : Replaced(d, o, n + 1, i, IF p # i THEN r[i] ELSE put)
    BY ReplacedGrows DEF OverriddenBy
  <1>7. \A k : k # "" /\ Cache(d, k) = 0 =>
           IsLastSet(o, n + 1, k, IF e.key = k /\ e.val # NoValue THEN e.val ELSE LastOf(r, k))
    BY IsLastSetGrows DEF OverriddenBy
  <1>8. p \in 0..Len(d) /\ (p = 0 <=> \A i \in DOMAIN d : d[i].key # e.key) /\ (p # 0 => d[p].key = e.key)
    BY LastIs
  <1>9. u = CASE e.val = NoValue /\ p = 0 -> r
              [] e.val = NoValue /\ p # 0 -> [r EXCEPT ![p] = Blank]
              [] e.val # NoValue /\ p # 0 -> [r EXCEPT ![p] = e]
              [] OTHER -> Append(r, e)
    BY DEF Override
  <1>10. ASSUME p # 0 PROVE r[p].key = e.key \/ r[p].key = ""
    <2>1. p \in DOMAIN d
      BY <1>1, <1>8, <1>10
    <2>2. Replaced(d, o, n, p, r[p])
      BY <2>1 DEF OverriddenBy
    <2>3. r[p] = d[p] \/ r[p] = Blank \/ r[p].key = d[p].key
      BY <2>2 DEF Replaced
    <2>4. d[p].key = e.key /\ Blank.key = ""
      BY <1>8, <1>10 DEF Blank
    <2> HIDE DEF e, p
    <2> QED BY <2>3, <2>4
  <1>11. SUFFICES /\ u \in Seq(Entry) /\ Len(d) <= Len(u)
                  /\ \A i \in DOMAIN d : Replaced(d, o, n + 1, i, u[i])
                  /\ \A i \in DOMAIN u : i > Len(d) => Cache(d, u[i].key) = 0 /\ u[i].key # ""
                  /\ \A k : k # "" /\ Cache(d, k) = 0 => IsLastSet(o, n + 1, k, LastOf(u, k))
    BY DEF OverriddenBy, Env
  <1>12. p = Cache(d, e.key)
    OBVIOUS
  <1>13. put = IF e.val = NoValue THEN Blank ELSE e
    OBVIOUS
  <1> HIDE DEF e, p, u, put
  <1>14. CASE p = 0 /\ e.val = NoValue
    <2>1. u = r
      BY <1>9, <1>14
    <2>2. \A i \in DOMAIN d : Replaced(d, o, n + 1, i, u[i])
      BY <1>1, <1>6, <1>14, <2>1
    <2>3. \A k : k # "" /\ Cache(d, k) = 0 => IsLastSet(o, n + 1, k, LastOf(u, k))
      BY <1>7, <1>14, <2>1
    <2> QED BY <1>4, <1>5, <2>1, <2>2, <2>3
  <1>15. CASE p = 0 /\ e.val # NoValue
    <2>1. u = Append(r, e)
      BY <1>9, <1>15
    <2>2. /\ u \in Seq(Entry) /\ Len(u) = Len(r) + 1
          /\ \A i \in 1..Len(r) : u[i] = r[i]
          /\ u[Len(r) + 1] = e
      <3>1. e \in Entry
        BY <1>3
      <3> QED BY <1>4, <2>1, <3>1, AppendIs DEF Env
    <2>3. DOMAIN u = 1..(Len(r) + 1) /\ Len(d) <= Len(u)
      BY <1>1, <1>4, <2>2, LenProperties
    <2>4. \A k : LastOf(u, k) = IF e.key = k THEN e.val ELSE LastOf(r, k)
      BY <1>3, <1>4, <2>1, LastAppend DEF Env
    <2>5. \A i \in DOMAIN d : i \in 1..Len(r) /\ p # i
      BY <1>1, <1>4, <1>15
    <2>6. \A i \in DOMAIN d : Replaced(d, o, n + 1, i, u[i])
      BY <1>6, <2>2, <2>5
    <2>7. \A k : k # "" /\ Cache(d, k) = 0 => IsLastSet(o, n + 1, k, LastOf(u, k))
      BY <1>7, <1>15, <2>4
    <2>8. \A i \in DOMAIN u : i > Len(d) => Cache(d, u[i].key) = 0 /\ u[i].key # ""
      <3> SUFFICES ASSUME NEW i \in DOMAIN u, i > Len(d)
                   PROVE  Cache(d, u[i].key) = 0 /\ u[i].key # ""
        OBVIOUS
      <3>1. CASE i = Len(r) + 1
        BY <1>3, <1>12, <1>15, <2>2, <3>1
      <3>2. CASE i \in DOMAIN r
        <4>1. u[i] = r[i]
          BY <1>4, <2>2, <3>2
        <4> QED BY <1>5, <3>2, <4>1
      <3>3. i = Len(r) + 1 \/ i \in DOMAIN r
        BY <1>4, <2>3
      <3> QED BY <3>1, <3>2, <3>3
    <2> QED BY <2>2, <2>3, <2>6, <2>7, <2>8
  <1>16. CASE p # 0
    <2>1. p \in DOMAIN d /\ p \in 1..Len(r) /\ p <= Len(d) /\ d[p].key = e.key
      <3>1. p \in 0..Len(d)
        BY <1>8
      <3>2. d[p].key = e.key
        BY <1>8, <1>16
      <3> QED BY <1>1, <1>4, <1>16, <3>1, <3>2
    <2>2. put \in Entry /\ (put.key = e.key \/ put.key = "")
      <3>1. Blank \in Entry /\ Blank.key = ""
        BY DEF Blank, Entry
      <3>2. put = Blank \/ put = e
        BY <1>13
      <3>3. e \in Entry
        BY <1>3
      <3> HIDE DEF Entry, Blank
      <3> QED BY <3>1, <3>2, <3>3
    <2>3. u = [r EXCEPT ![p] = put]
      BY <1>9, <1>13, <1>16
    <2>4. /\ u \in Seq(Entry) /\ Len(u) = Len(r)
          /\ \A i \in 1..Len(r) : u[i] = IF i = p THEN put ELSE r[i]
      <3>1. r \in Seq(Entry) /\ p \in 1..Len(r) /\ put \in Entry
        BY <1>4, <2>1, <2>2
      <3>2. /\ [r EXCEPT ![p] = put] \in Seq(Entry)
            /\ Len([r EXCEPT ![p] = put]) = Len(r)
            /\ \A i \in 1..Len(r) : [r EXCEPT ![p] = put][i] = IF i = p THEN put ELSE r[i]
        BY <3>1, ExceptSeq
      <3> QED BY <2>3, <3>2, Zenon
    <2>5. DOMAIN u = DOMAIN r /\ Len(d) <= Len(u)
      BY <1>4, <2>4, LenProperties
    <2>6. \A i \in DOMAIN d : u[i] = IF p # i THEN r[i] ELSE put
      BY <1>1, <1>4, <2>4
    <2>7. \A i \in DOMAIN d : Replaced(d, o, n + 1, i, u[i])
      BY <1>6, <2>6
    <2>8. \A i \in DOMAIN u : i > Len(d) => Cache(d, u[i].key) = 0 /\ u[i].key # ""
      <3> SUFFICES ASSUME NEW i \in DOMAIN u, i > Len(d)
                   PROVE  Cache(d, u[i].key) = 0 /\ u[i].key # ""
        OBVIOUS
      <3>1. i # p /\ i \in DOMAIN r
        BY <1>1, <1>4, <2>1, <2>5
      <3>2. u[i] = r[i]
        BY <1>4, <2>4, <3>1
      <3> QED BY <1>5, <3>1, <3>2
    <2>9. ASSUME NEW k, k # "", Cache(d, k) = 0 PROVE IsLastSet(o, n + 1, k, LastOf(u, k))
      <3>1. e.key # k
        BY <1>12, <1>16, <2>9
      <3>2. r[p].key # k /\ put.key # k
        BY <1>10, <1>16, <2>2, <2>9, <3>1
      <3>3. p \in DOMAIN r
        BY <1>4, <2>1
      <3>4. LastOf(u, k) = LastOf(r, k)
        BY <1>4, <2>2, <2>3, <3>2, <3>3, LastReplaced DEF Env
      <3> QED BY <1>7, <2>9, <3>1, <3>4
    <2> QED BY <2>4, <2>5, <2>7, <2>8, <2>9
  <1> QED BY <1>14, <1>15, <1>16

\* Each override in turn, so all of them.
LEMMA OverriddenIs ==
    ASSUME NEW d \in Env, NEW o \in Env, Named(d), Named(o)
    PROVE  OverriddenBy(d, o, Len(o), Overridden(d, o))
  <1> DEFINE N == Len(o)
  <1>1. N \in Nat /\ Len(d) \in Nat /\ DOMAIN d = 1..Len(d)
    BY LenProperties DEF Env
  <1>2. PICK f : /\ Overridden(d, o) = f[N] /\ f[0] = d
                 /\ \A n \in 1..N : f[n] = Override(d, f[n - 1], o[n])
    BY <1>1, OverrideSteps
  <1> DEFINE S == {n \in 0..N : OverriddenBy(d, o, n, f[n])}
  <1>3. OverriddenBy(d, o, 0, d)
    <2>1. \A i \in DOMAIN d : Replaced(d, o, 0, i, d[i])
      BY DEF Replaced
    <2>2. \A i \in DOMAIN d : ~ (i > Len(d))
      BY <1>1
    <2>3. \A k : Cache(d, k) = 0 => IsLastSet(o, 0, k, LastOf(d, k))
      BY LastIs DEF IsLastSet
    <2>4. Len(d) <= Len(d)
      BY <1>1
    <2> QED BY <2>1, <2>2, <2>3, <2>4 DEF OverriddenBy
  <1>4. 0 \in S
    BY <1>1, <1>2, <1>3
  <1>5. ASSUME NEW n \in 0..(N - 1), n \in S PROVE n + 1 \in S
    <2>1. OverriddenBy(d, o, n, f[n]) /\ n + 1 \in 0..N /\ n + 1 \in 1..N /\ n + 1 - 1 = n
      BY <1>1, <1>5
    <2>2. f[n + 1] = Override(d, f[n], o[n + 1])
      BY <1>2, <2>1
    <2>3. OverriddenBy(d, o, n + 1, Override(d, f[n], o[n + 1]))
      BY <2>1, OneOverride
    <2> QED BY <2>1, <2>2, <2>3
  <1> HIDE DEF S
  <1>6. N \in S
    <2>1. \A n \in 0..N : n \in S
      BY <1>1, <1>4, <1>5, UpTo
    <2> QED BY <1>1, <2>1
  <1> QED BY <1>2, <1>6 DEF S

-----------------------------------------------------------------------------
(* What the two together make of a variable.                               *)

\* What replaceOrAppendEnvValues can unset: a variable whose last override
\* wants it unset is there once in the defaults, or nowhere, and then no
\* override has set it before.
Unsettable(d, o) ==
    \A m \in DOMAIN o :
        o[m].val = NoValue /\ (\A j \in DOMAIN o : o[j].key = o[m].key => j <= m) =>
            /\ \A i, j \in DOMAIN d : d[i].key = o[m].key /\ d[j].key = o[m].key => i = j
            /\ (\A i \in DOMAIN d : d[i].key # o[m].key) =>
                  \A j \in DOMAIN o : o[j].key = o[m].key => o[j].val = NoValue

\* The value that was asked for last.
Asked(d, o, k) == IF \E n \in DOMAIN o : o[n].key = k THEN LastOf(o, k) ELSE LastOf(d, k)

LEMMA PlacesOf ==
    ASSUME NEW d \in Env, NEW r \in Env, Len(d) <= Len(r)
    PROVE  /\ \A i \in DOMAIN d : i \in DOMAIN r
           /\ \A i \in DOMAIN r : i \in DOMAIN d \/ i > Len(d)
  BY LenProperties DEF Env

LEMMA ReplacedKey ==
    ASSUME NEW d \in Env, NEW o \in Env, NEW r, OverriddenBy(d, o, Len(o), r), NEW i \in DOMAIN d
    PROVE  r[i].key = d[i].key \/ r[i] = Blank
  <1>1. Replaced(d, o, Len(o), i, r[i])
    BY DEF OverriddenBy
  <1> QED BY <1>1 DEF Replaced

\* An entry of the list is one of the defaults, one of the overrides, or blank.
LEMMA ReplacedKeys ==
    ASSUME NEW d \in Env, NEW o \in Env, NEW i \in DOMAIN d, NEW e, Replaced(d, o, Len(o), i, e)
    PROVE  /\ e.key = d[i].key \/ e = Blank
           /\ Cache(d, d[i].key) = i =>
                LET m == Cache(o, d[i].key)
                IN  e = IF m = 0 THEN d[i] ELSE IF o[m].val = NoValue THEN Blank ELSE o[m]
  <1>1. DOMAIN o = 1..Len(o) /\ Len(o) \in Nat
    BY LenProperties DEF Env
  <1> DEFINE m == Cache(o, d[i].key)
  <1>2. /\ m = 0 <=> \A j \in 1..Len(o) : o[j].key # d[i].key
        /\ m # 0 => m \in 1..Len(o) /\ o[m].key = d[i].key
                    /\ \A j \in 1..Len(o) : o[j].key = d[i].key => j <= m
    BY <1>1, LastIs
  <1> HIDE DEF m
  <1>3. CASE e = d[i] /\ (Cache(d, d[i].key) = i => \A j \in 1..Len(o) : o[j].key # d[i].key)
    BY <1>2, <1>3 DEF m
  <1>4. CASE /\ Cache(d, d[i].key) = i
             /\ \E j \in 1..Len(o) : /\ o[j].key = d[i].key
                                     /\ \A h \in 1..Len(o) : o[h].key = d[i].key => h <= j
                                     /\ e = IF o[j].val = NoValue THEN Blank ELSE o[j]
    <2>1. PICK j \in 1..Len(o) : /\ o[j].key = d[i].key
                                 /\ \A h \in 1..Len(o) : o[h].key = d[i].key => h <= j
                                 /\ e = IF o[j].val = NoValue THEN Blank ELSE o[j]
      BY <1>4
    <2>2. m # 0 /\ m \in 1..Len(o) /\ o[m].key = d[i].key /\ j <= m
      BY <1>2, <2>1
    <2>3. m <= j
      BY <2>1, <2>2
    <2>4. m = j
      BY <1>1, <2>2, <2>3
    <2> QED BY <2>1, <2>2, <2>4 DEF m
  <1> QED BY <1>3, <1>4 DEF Replaced

\* A variable the defaults do not have.
LEMMA AppendedValue ==
    ASSUME NEW d \in Env, NEW o \in Env, Unsettable(d, o), NEW k, Cache(d, k) = 0,
           NEW v, IsLastSet(o, Len(o), k, v)
    PROVE  v = IF \E n \in DOMAIN o : o[n].key = k THEN LastOf(o, k) ELSE NoValue
  <1>1. DOMAIN o = 1..Len(o) /\ Len(o) \in Nat
    BY LenProperties DEF Env
  <1>2. \A i \in DOMAIN d : d[i].key # k
    BY LastIs
  <1> DEFINE m == Cache(o, k)
  <1>3. /\ m = 0 <=> \A j \in DOMAIN o : o[j].key # k
        /\ m # 0 => m \in DOMAIN o /\ o[m].key = k /\ \A j \in DOMAIN o : o[j].key = k => j <= m
        /\ LastOf(o, k) = IF m = 0 THEN NoValue ELSE o[m].val
    BY LastIs
  <1> HIDE DEF m
  <1>4. CASE m = 0
    BY <1>1, <1>3, <1>4 DEF IsLastSet
  <1>5. CASE m # 0 /\ o[m].val = NoValue
    <2>1. \A j \in DOMAIN o : o[j].key = k => o[j].val = NoValue
      BY <1>2, <1>3, <1>5 DEF Unsettable
    <2>2. v = NoValue
      BY <1>1, <2>1 DEF IsLastSet
    <2> QED BY <1>3, <1>5, <2>2
  <1>6. CASE m # 0 /\ o[m].val # NoValue
    <2>1. PICK i \in 1..Len(o) : /\ o[i].key = k /\ o[i].val # NoValue /\ v = o[i].val
                                 /\ \A j \in 1..Len(o) : o[j].key = k /\ o[j].val # NoValue => j <= i
      BY <1>1, <1>3, <1>6 DEF IsLastSet
    <2>2. m <= i /\ i <= m
      BY <1>1, <1>3, <1>6, <2>1
    <2>3. m = i
      BY <1>1, <1>3, <1>6, <2>1, <2>2
    <2> QED BY <1>3, <1>6, <2>1, <2>3
  <1> QED BY <1>4, <1>5, <1>6

\* What becomes of the last place of a variable.
Became(d, o, c, m) == IF m = 0 THEN d[c] ELSE IF o[m].val = NoValue THEN Blank ELSE o[m]

LEMMA LastReplacement ==
    ASSUME NEW d \in Env, NEW o \in Env, NEW r, OverriddenBy(d, o, Len(o), r), NEW k,
           NEW c, NEW m, c = Cache(d, k), m = Cache(o, k), c # 0
    PROVE  r[c] = Became(d, o, c, m)
  <1>1. c \in DOMAIN d /\ d[c].key = k
    BY LastIs
  <1>2. Replaced(d, o, Len(o), c, r[c])
    BY <1>1 DEF OverriddenBy
  <1> QED BY <1>1, <1>2, ReplacedKeys DEF Became

IsName(k) == k # ""

\* A variable the defaults have.
LEMMA ReplacedValue ==
    ASSUME NEW d \in Env, NEW o \in Env, Unsettable(d, o), NEW k, IsName(k), Cache(d, k) # 0,
           NEW r, OverriddenBy(d, o, Len(o), r)
    PROVE  LastOf(r, k) = Asked(d, o, k)
  <1>1. /\ DOMAIN d = 1..Len(d) /\ Len(d) \in Nat /\ r \in Env
        /\ DOMAIN r = 1..Len(r) /\ Len(r) \in Nat /\ Len(d) <= Len(r)
    BY LenProperties DEF Env, OverriddenBy
  <1> DEFINE c == Cache(d, k)
             m == Cache(o, k)
  <1>2. /\ c \in DOMAIN d /\ d[c].key = k /\ LastOf(d, k) = d[c].val
        /\ \A i \in DOMAIN d : d[i].key = k => i <= c
    BY LastIs
  <1>3. /\ m = 0 <=> \A j \in DOMAIN o : o[j].key # k
        /\ m # 0 => m \in DOMAIN o /\ o[m].key = k /\ \A j \in DOMAIN o : o[j].key = k => j <= m
        /\ LastOf(o, k) = IF m = 0 THEN NoValue ELSE o[m].val
    BY LastIs
  <1>4. c = Cache(d, k) /\ m = Cache(o, k)
    OBVIOUS
  <1> HIDE DEF c, m
  <1>5. r[c] = IF m = 0 THEN d[c] ELSE IF o[m].val = NoValue THEN Blank ELSE o[m]
    <2>1. c # 0
      BY <1>4
    <2>2. r[c] = Became(d, o, c, m)
      BY <1>4, <2>1, LastReplacement
    <2> QED BY <2>2 DEF Became
  <1>6. ASSUME NEW i \in DOMAIN r, r[i].key = k PROVE i \in DOMAIN d /\ d[i].key = k /\ i <= c
    <2>1. i \in DOMAIN d
      <3>1. i > Len(d) => Cache(d, k) = 0
        BY <1>6 DEF OverriddenBy
      <3>2. i \in DOMAIN d \/ i > Len(d)
        BY PlacesOf DEF OverriddenBy
      <3> QED BY <3>1, <3>2
    <2>2. d[i].key = k
      <3>1. r[i].key = d[i].key \/ r[i] = Blank
        BY <2>1, ReplacedKey
      <3>2. Blank.key = ""
        BY DEF Blank
      <3> QED BY <1>6, <3>1, <3>2 DEF IsName
    <2> QED BY <1>2, <2>1, <2>2
  <1>7. c \in DOMAIN r
    BY <1>2, PlacesOf DEF OverriddenBy
  <1>8. Asked(d, o, k) = IF m # 0 THEN LastOf(o, k) ELSE LastOf(d, k)
    BY <1>3 DEF Asked
  <1>9. CASE m = 0
    <2>1. r[c] = d[c]
      BY <1>5, <1>9
    <2>2. r[c].key = k /\ \A i \in DOMAIN r : r[i].key = k => i <= c
      BY <1>2, <1>6, <2>1
    <2>3. LastOf(r, k) = r[c].val
      BY <1>1, <1>7, <2>2, LastHas, Zenon
    <2> QED BY <1>2, <1>3, <1>8, <1>9, <2>1, <2>3
  <1>10. CASE m # 0 /\ o[m].val # NoValue
    <2>1. r[c] = o[m] /\ r[c].key = k
      BY <1>3, <1>5, <1>10
    <2>2. r[c].key = k /\ \A i \in DOMAIN r : r[i].key = k => i <= c
      BY <1>6, <2>1
    <2>3. LastOf(r, k) = r[c].val
      BY <1>1, <1>7, <2>2, LastHas, Zenon
    <2> QED BY <1>3, <1>8, <1>10, <2>1, <2>3
  <1>11. CASE m # 0 /\ o[m].val = NoValue
    <2>1. \A i \in DOMAIN d : d[i].key = k => i = c
      BY <1>2, <1>3, <1>11 DEF Unsettable
    <2>2. r[c].key # k
      <3>1. r[c] = Blank /\ Blank.key = ""
        BY <1>5, <1>11 DEF Blank
      <3> QED BY <3>1 DEF IsName
    <2>3. \A i \in DOMAIN r : r[i].key # k
      BY <1>6, <2>1, <2>2
    <2>4. LastOf(r, k) = NoValue
      BY <1>1, <2>3, LastHas
    <2> QED BY <1>3, <1>8, <1>11, <2>4
  <1> QED BY <1>9, <1>10, <1>11

\* The last that was asked for is what the process sees.
LEMMA MergedIs ==
    ASSUME NEW d \in Env, NEW o \in Env, Named(d), Named(o), Unsettable(d, o)
    PROVE  /\ Merged(d, o) \in Env /\ Named(Merged(d, o))
           /\ \A k : k # "" => LastOf(Merged(d, o), k) = Asked(d, o, k)
  <1> DEFINE r == Overridden(d, o)
  <1>1. OverriddenBy(d, o, Len(o), r)
    BY OverriddenIs
  <1>2. r \in Env /\ Merged(d, o) = Kept(r)
    BY <1>1 DEF OverriddenBy, Merged
  <1>3. /\ DOMAIN r = 1..Len(r) /\ Len(r) \in Nat
        /\ DOMAIN d = 1..Len(d) /\ Len(d) \in Nat
    BY <1>2, LenProperties DEF Env
  <1> HIDE DEF r
  <1>4. ASSUME NEW i \in DOMAIN r, r[i] # Blank PROVE r[i].key # ""
    <2>1. CASE i \in DOMAIN d
      <3>1. r[i].key = d[i].key \/ r[i] = Blank
        BY <1>1, <2>1, ReplacedKey
      <3> QED BY <1>4, <2>1, <3>1 DEF Named
    <2>2. CASE i \notin DOMAIN d
      <3>1. i > Len(d)
        BY <1>1, <2>2, PlacesOf DEF OverriddenBy
      <3> QED BY <1>1, <3>1 DEF OverriddenBy
    <2> QED BY <2>1, <2>2
  <1>5. Kept(r) \in Env /\ OfEntries(Kept(r), r) /\ \A k : k # "" => LastOf(Kept(r), k) = LastOf(r, k)
    BY <1>2, KeptIs
  <1>6. Named(Kept(r))
    BY <1>4, <1>5 DEF Named, OfEntries
  <1>7. ASSUME NEW k, IsName(k)
        PROVE  LastOf(r, k) = Asked(d, o, k)
    <2>1. CASE Cache(d, k) = 0
      <3>1. IsLastSet(o, Len(o), k, LastOf(r, k))
        BY <1>1, <1>7, <2>1 DEF OverriddenBy, IsName
      <3>2. LastOf(d, k) = NoValue
        BY <2>1, LastIs
      <3> QED BY <2>1, <3>1, <3>2, AppendedValue DEF Asked
    <2>2. CASE Cache(d, k) # 0
      BY <1>1, <1>7, <2>2, ReplacedValue
    <2> QED BY <2>1, <2>2
  <1> QED BY <1>2, <1>5, <1>6, <1>7 DEF IsName

-----------------------------------------------------------------------------
(* The inductive invariant.                                                *)

\* The options are taken from the front: what is left of them says which
\* fields of the record are filled.
Left == {ContainerOpts, <<"stop", "spec">>, <<"spec">>, <<>>}

SnapshotDone == cOpts # ContainerOpts
StopDone == cOpts \in {<<"spec">>, <<>>}
SpecDone == cOpts = <<>>

Places == {"get", "check", "unpack", "options", "end"}

\* A filled field comes from the image that was got first.
Filled ==
    LET c == ConfigOf(image)
    IN  /\ SnapshotDone => container.snapshot = image
        /\ StopDone => container.stop = IF c.stop = "" THEN DefaultSignal ELSE c.stop
        /\ SpecDone =>
              /\ container.process.args = IF args = <<>> THEN c.entry \o c.cmd ELSE args
              /\ container.process.user = [name |-> c.user, root |-> image]

Progress ==
    /\ pc \in Places
    /\ cOpts \in Left
    /\ DOMAIN container = {"snapshot", "stop", "process"}
    /\ result = "none" <=> pc # "end"
    /\ result = "ok" => cOpts = <<>>
    /\ pc = "get" => image = NoImage /\ cOpts = ContainerOpts
    /\ pc \in {"check", "unpack"} => cOpts = ContainerOpts
    /\ pc \in {"check", "unpack", "options"} => image # NoImage

\* What the collector leaves: the image of the reference, chains with a label,
\* and the chain that the run has unpacked itself.
Stays ==
    /\ ref # NoImage => ref \in content
    /\ labelled \subseteq chains
    /\ pc = "options" /\ leased => image \in chains

SpecInv ==
    /\ Progress
    /\ Filled
    /\ Stays

-----------------------------------------------------------------------------
(* The options and the process.                                            *)

LEMMA OptionsDiffer ==
    /\ Head(ContainerOpts) = "snapshot" /\ Tail(ContainerOpts) = <<"stop", "spec">>
    /\ Head(<<"stop", "spec">>) = "stop" /\ Tail(<<"stop", "spec">>) = <<"spec">>
    /\ Head(<<"spec">>) = "spec" /\ Tail(<<"spec">>) = <<>>
    /\ ContainerOpts # <<"stop", "spec">> /\ ContainerOpts # <<"spec">> /\ ContainerOpts # <<>>
    /\ <<"stop", "spec">> # <<"spec">> /\ <<"stop", "spec">> # <<>> /\ <<"spec">> # <<>>
  BY DEF ContainerOpts

\* The arguments of `rcl run` and the terminal leave the rest of the process as
\* the image has it.
LEMMA ProcessFields ==
    LET c == ConfigOf(image)
    IN  /\ Process.args = IF args = <<>> THEN c.entry \o c.cmd ELSE args
        /\ Process.user = [name |-> c.user, root |-> container.snapshot]
  <1> DEFINE p == FromImage(ConfigOf(image))
             q == WithProcessArgs(p)
  <1>1. /\ p.args = ConfigOf(image).entry \o ConfigOf(image).cmd
        /\ p.user = [name |-> ConfigOf(image).user, root |-> container.snapshot]
        /\ DOMAIN p = {"env", "args", "cwd", "user"}
    BY DEF FromImage
  <1> HIDE DEF p
  <1>2. /\ q.args = IF args = <<>> THEN p.args ELSE args
        /\ q.user = p.user
        /\ DOMAIN q = {"env", "args", "cwd", "user"}
    BY <1>1 DEF WithProcessArgs
  <1> HIDE DEF q
  <1>3. WithTTY(q).args = q.args /\ WithTTY(q).user = q.user
    BY <1>2 DEF WithTTY
  <1>4. Process = WithTTY(q)
    BY DEF Process, Chosen, q, p
  <1> QED
    BY <1>1, <1>2, <1>3, <1>4

\* What is filled depends on nothing a step of another client changes.
LEMMA FilledKept ==
    ASSUME Filled, UNCHANGED <<inputs, image, cOpts, container>>
    PROVE  Filled'
  BY DEF Filled, inputs, SnapshotDone, StopDone, SpecDone, ConfigOf, NoConfig, DefaultSignal,
         ContainerOpts

-----------------------------------------------------------------------------
(* Every step keeps the invariant.                                         *)

LEMMA InitInv == Init => SpecInv
  <1> SUFFICES ASSUME Init
               PROVE  SpecInv
    OBVIOUS
  <1>1. Progress
    BY DEF Init, Progress, Places, Left
  <1>2. Filled
    BY OptionsDiffer DEF Init, Filled, SnapshotDone, StopDone, SpecDone
  <1>3. Stays
    BY DEF Init, Stays
  <1> QED
    BY <1>1, <1>2, <1>3 DEF SpecInv

LEMMA GetImageInv == SpecInv /\ GetImage => SpecInv'
  <1> SUFFICES ASSUME SpecInv, GetImage
               PROVE  SpecInv'
    OBVIOUS
  <1>1. cOpts = ContainerOpts /\ image = NoImage
    BY DEF SpecInv, Progress, GetImage
  <1>2. Filled'
    BY <1>1, OptionsDiffer
       DEF GetImage, Fail, Goto, Filled, SnapshotDone, StopDone, SpecDone, ContainerOpts
  <1>3. Progress'
    BY <1>1 DEF SpecInv, GetImage, Fail, Goto, Progress, Places, Left, daemon, ContainerOpts
  <1>4. Stays'
    BY <1>1 DEF SpecInv, Progress, Stays, GetImage, Fail, Goto, daemon
  <1> QED
    BY <1>2, <1>3, <1>4 DEF SpecInv

LEMMA IsUnpackedInv == SpecInv /\ IsUnpacked => SpecInv'
  <1> SUFFICES ASSUME SpecInv, IsUnpacked
               PROVE  SpecInv'
    OBVIOUS
  <1>1. Filled'
    BY FilledKept DEF SpecInv, IsUnpacked, Fail
  <1>2. Progress'
    BY DEF SpecInv, IsUnpacked, Fail, Goto, Progress, Places, Left, daemon, ContainerOpts
  <1>3. Stays'
    BY DEF SpecInv, Progress, Stays, IsUnpacked, Fail, Goto, daemon
  <1> QED
    BY <1>1, <1>2, <1>3 DEF SpecInv

LEMMA UnpackImageInv == SpecInv /\ UnpackImage => SpecInv'
  <1> SUFFICES ASSUME SpecInv, UnpackImage
               PROVE  SpecInv'
    OBVIOUS
  <1>1. Filled'
    BY FilledKept DEF SpecInv, UnpackImage, Fail
  <1>2. Progress'
    BY DEF SpecInv, UnpackImage, Fail, Goto, Progress, Places, Left, daemon, ContainerOpts
  <1>3. Stays'
    BY DEF SpecInv, Progress, Stays, UnpackImage, Fail, Goto, daemon
  <1> QED
    BY <1>1, <1>2, <1>3 DEF SpecInv

\* An option that fails, or another call, leaves the record as it is.
LEMMA FailedOption ==
    ASSUME SpecInv, Fail \/ CallFails, pc # "end", UNCHANGED <<daemon, inputs>>
    PROVE  SpecInv'
  <1>1. Filled'
    BY FilledKept DEF SpecInv, Fail, CallFails
  <1>2. Progress' /\ Stays'
    BY DEF SpecInv, Fail, CallFails, Progress, Places, Left, Stays, daemon, inputs, ContainerOpts
  <1> QED
    BY <1>1, <1>2 DEF SpecInv

\* An option that is done fills one field.
LEMMA DoneOption ==
    ASSUME SpecInv, pc = "options", cOpts # <<>>,
           NEW field \in {"snapshot", "stop", "process"}, NEW value,
           container' = [container EXCEPT ![field] = value],
           cOpts' = Tail(cOpts), UNCHANGED <<leased, image, pc, result, daemon, inputs>>
    PROVE  Progress' /\ Stays'
  <1>1. cOpts' \in Left
    BY OptionsDiffer DEF SpecInv, Progress, Left
  <1>2. DOMAIN container' = {"snapshot", "stop", "process"}
    BY DEF SpecInv, Progress
  <1>3. Progress'
    BY <1>1, <1>2 DEF SpecInv, Progress, Places, Left, ContainerOpts
  <1> QED
    BY <1>3 DEF SpecInv, Progress, Stays, daemon, inputs

LEMMA SnapshotInv == SpecInv /\ WithNewSnapshot => SpecInv'
  <1> SUFFICES ASSUME SpecInv, WithNewSnapshot
               PROVE  SpecInv'
    OBVIOUS
  <1>1. /\ pc = "options" /\ cOpts = ContainerOpts
        /\ UNCHANGED <<daemon, inputs>>
    BY OptionsDiffer DEF SpecInv, Progress, Left, WithNewSnapshot, Option
  <1>2. CASE Fail
    BY <1>1, <1>2, FailedOption
  <1>3. CASE ~ Fail
    <2>1. /\ container' = [container EXCEPT !["snapshot"] = image]
          /\ cOpts' = Tail(cOpts) /\ UNCHANGED <<leased, image, pc, result>>
      BY <1>3 DEF WithNewSnapshot, Option, Chosen
    <2>2. container'.snapshot = image /\ cOpts' = <<"stop", "spec">>
      BY <1>1, <2>1, OptionsDiffer DEF SpecInv, Progress
    <2>3. Filled'
      BY <2>1, <2>2, OptionsDiffer DEF Filled, SnapshotDone, StopDone, SpecDone, ContainerOpts
    <2>4. Progress' /\ Stays'
      BY <1>1, <2>1, DoneOption, OptionsDiffer
    <2> QED
      BY <2>3, <2>4 DEF SpecInv
  <1> QED
    BY <1>2, <1>3

LEMMA StopSignalInv == SpecInv /\ WithImageStopSignal => SpecInv'
  <1> SUFFICES ASSUME SpecInv, WithImageStopSignal
               PROVE  SpecInv'
    OBVIOUS
  <1>1. /\ pc = "options" /\ cOpts = <<"stop", "spec">>
        /\ UNCHANGED <<daemon, inputs>>
    BY OptionsDiffer DEF SpecInv, Progress, Left, WithImageStopSignal, Option
  <1>2. CASE Fail
    BY <1>1, <1>2, FailedOption
  <1>3. CASE ~ Fail
    <2>1. /\ container' = [container EXCEPT !["stop"] = StopSignal]
          /\ cOpts' = Tail(cOpts) /\ UNCHANGED <<leased, image, pc, result>>
      BY <1>3 DEF WithImageStopSignal, Option
    <2>2. /\ container'.stop = StopSignal /\ container'.snapshot = container.snapshot
          /\ cOpts' = <<"spec">>
      BY <1>1, <2>1, OptionsDiffer DEF SpecInv, Progress
    <2>3. container.snapshot = image
      BY <1>1, OptionsDiffer DEF SpecInv, Filled, SnapshotDone
    <2>4. Filled'
      BY <1>1, <2>1, <2>2, <2>3, OptionsDiffer
         DEF Filled, SnapshotDone, StopDone, SpecDone, ContainerOpts, StopSignal, ConfigOf,
             NoConfig, Chosen, DefaultSignal, inputs
    <2>5. Progress' /\ Stays'
      BY <1>1, <2>1, DoneOption, OptionsDiffer
    <2> QED
      BY <2>4, <2>5 DEF SpecInv
  <1> QED
    BY <1>2, <1>3

LEMMA SpecOptionInv == SpecInv /\ WithSpec => SpecInv'
  <1> SUFFICES ASSUME SpecInv, WithSpec
               PROVE  SpecInv'
    OBVIOUS
  <1>1. /\ pc = "options" /\ cOpts = <<"spec">>
        /\ UNCHANGED <<daemon, inputs>>
    BY OptionsDiffer DEF SpecInv, Progress, Left, WithSpec, Option
  <1>2. container.snapshot = image /\ image # NoImage
    BY <1>1, OptionsDiffer DEF SpecInv, Progress, Filled, SnapshotDone
  <1>3. CASE Fail
    BY <1>1, <1>3, FailedOption
  <1>4. CASE ~ Fail
    <2>1. /\ container' = [container EXCEPT !["process"] = Process]
          /\ cOpts' = Tail(cOpts) /\ UNCHANGED <<leased, image, pc, result>>
      BY <1>4 DEF WithSpec, Option
    <2>2. /\ container'.process = Process /\ container'.snapshot = container.snapshot
          /\ container'.stop = container.stop /\ cOpts' = <<>>
      BY <1>1, <2>1, OptionsDiffer DEF SpecInv, Progress
    <2>3. LET c == ConfigOf(image)
          IN  /\ container.stop = IF c.stop = "" THEN DefaultSignal ELSE c.stop
              /\ Process.args = IF args = <<>> THEN c.entry \o c.cmd ELSE args
              /\ Process.user = [name |-> c.user, root |-> image]
      BY <1>1, <1>2, ProcessFields DEF SpecInv, Filled, StopDone
    <2>4. ConfigOf(image') = ConfigOf(image) /\ (ConfigOf(image))' = ConfigOf(image) /\ args' = args
      BY <1>1, <2>1 DEF ConfigOf, NoConfig, inputs
    <2>5. Filled'
      BY <1>2, <2>1, <2>2, <2>3, <2>4 DEF Filled, DefaultSignal
    <2>6. Progress' /\ Stays'
      BY <1>1, <2>1, DoneOption, OptionsDiffer
    <2> QED
      BY <2>5, <2>6 DEF SpecInv
  <1> QED
    BY <1>3, <1>4

LEMMA CreateInv == SpecInv /\ Create => SpecInv'
  <1> SUFFICES ASSUME SpecInv, Create
               PROVE  SpecInv'
    OBVIOUS
  <1>1. Filled'
    BY FilledKept DEF SpecInv, Create
  <1> QED
    BY <1>1 DEF SpecInv, Create, Progress, Places, Left, ContainerOpts, Stays, daemon, inputs

\* Nothing another client does, and no collection, touches the run.
LEMMA OthersInv ==
    ASSUME SpecInv, UNCHANGED others, Stays'
    PROVE  SpecInv'
  <1>1. Filled'
    BY FilledKept DEF SpecInv, others
  <1>2. Progress'
    BY DEF SpecInv, others, Progress, Places, Left, ContainerOpts
  <1> QED
    BY <1>1, <1>2 DEF SpecInv

LEMMA ElsewhereInv ==
    ASSUME SpecInv, NEW i, Move(i) \/ UnpackElsewhere(i) \/ Relabel(i) \/ Collect(i)
    PROVE  SpecInv'
  <1>1. CASE Move(i)
    <2>1. Stays'
      BY <1>1 DEF SpecInv, Stays, Move, others
    <2> QED BY <1>1, <2>1, OthersInv DEF Move
  <1>2. CASE UnpackElsewhere(i)
    <2>1. Stays'
      BY <1>2 DEF SpecInv, Stays, UnpackElsewhere, others
    <2> QED BY <1>2, <2>1, OthersInv DEF UnpackElsewhere
  <1>3. CASE Relabel(i)
    <2>1. Stays'
      BY <1>3 DEF SpecInv, Stays, Relabel, others
    <2> QED BY <1>3, <2>1, OthersInv DEF Relabel
  <1>4. CASE Collect(i)
    <2>1. Stays'
      BY <1>4 DEF SpecInv, Stays, Collect, Held, others
    <2> QED BY <1>4, <2>1, OthersInv DEF Collect
  <1> QED
    BY <1>1, <1>2, <1>3, <1>4

LEMMA StutterInv == SpecInv /\ UNCHANGED vars => SpecInv'
  <1> SUFFICES ASSUME SpecInv, UNCHANGED vars
               PROVE  SpecInv'
    OBVIOUS
  <1>1. Stays'
    BY DEF SpecInv, Stays, vars, daemon
  <1> QED
    BY <1>1, OthersInv DEF vars, others

LEMMA NextInv == SpecInv /\ [Next]_vars => SpecInv'
  <1> SUFFICES ASSUME SpecInv, [Next]_vars
               PROVE  SpecInv'
    OBVIOUS
  <1>1. CASE GetImage \/ IsUnpacked \/ UnpackImage
    BY <1>1, GetImageInv, IsUnpackedInv, UnpackImageInv
  <1>2. CASE WithNewSnapshot \/ WithImageStopSignal \/ WithSpec \/ Create
    BY <1>2, SnapshotInv, StopSignalInv, SpecOptionInv, CreateInv
  <1>3. CASE CallFails
    BY <1>3, FailedOption DEF CallFails
  <1>4. ASSUME NEW i, Move(i) \/ UnpackElsewhere(i) \/ Relabel(i) \/ Collect(i)
        PROVE  SpecInv'
    BY <1>4, ElsewhereInv
  <1>5. CASE Rest \/ UNCHANGED vars
    BY <1>5, StutterInv DEF Rest
  <1> QED
    BY <1>1, <1>2, <1>3, <1>4, <1>5 DEF Next

-----------------------------------------------------------------------------
(* Refusals.                                                               *)

\* The image of the run is there for as long as the reference names it.
LEMMA GoneMeansMoved ==
    ASSUME SpecInv, image # NoImage, image \notin content
    PROVE  Reason
  BY DEF SpecInv, Stays, Reason

LEMMA OptionRefused ==
    ASSUME SpecInv, NEW name, NEW possible, NEW field, NEW value,
           Option(name, possible, field, value), result' = "error", result # "error"
    PROVE  Reason \/ ~ possible
  <1>1. image # NoImage /\ (Chosen \notin content \/ ~ possible)
    BY DEF SpecInv, Progress, Option
  <1> QED
    BY <1>1, GoneMeansMoved DEF Chosen

LEMMA RefusalStep ==
    ASSUME SpecInv, [Next]_vars, result' = "error", result # "error"
    PROVE  Reason
  <1>1. CASE GetImage
    BY <1>1 DEF GetImage, Goto, Reason
  <1>2. CASE IsUnpacked \/ UnpackImage
    <2>1. image # NoImage /\ image \notin content
      BY <1>2 DEF SpecInv, Progress, IsUnpacked, UnpackImage, Goto
    <2> QED
      BY <2>1, GoneMeansMoved
  <1>3. CASE WithNewSnapshot
    <2>1. Reason \/ ~ (Chosen \in chains /\ ~ taken)
      BY <1>3, OptionRefused DEF WithNewSnapshot
    <2>2. image \notin chains => image \notin labelled /\ ~ leased
      BY <1>3 DEF SpecInv, Stays, WithNewSnapshot, Option
    <2> QED
      BY <2>1, <2>2 DEF Reason, Chosen
  <1>4. CASE WithImageStopSignal
    BY <1>4, OptionRefused DEF WithImageStopSignal
  <1>5. CASE WithSpec
    <2>1. pc = "options" /\ cOpts = <<"spec">>
      BY <1>5, OptionsDiffer DEF SpecInv, Progress, Left, WithSpec, Option
    <2>2. container.snapshot = image /\ image # NoImage
      BY <2>1, OptionsDiffer DEF SpecInv, Progress, Filled, SnapshotDone
    <2>3. Reason \/ ~ Resolvable(ConfigOf(Chosen).user)
      BY <1>5, OptionRefused DEF WithSpec
    <2> QED
      BY <2>2, <2>3 DEF Resolvable, Chosen, Reason
  <1>6. CASE \/ Create \/ CallFails \/ Rest \/ UNCHANGED vars
             \/ \E i : Move(i) \/ UnpackElsewhere(i) \/ Relabel(i) \/ Collect(i)
    BY <1>6 DEF Create, CallFails, Rest, vars, Move, UnpackElsewhere, Relabel, Collect, others
  <1> QED
    BY <1>1, <1>2, <1>3, <1>4, <1>5, <1>6 DEF Next

-----------------------------------------------------------------------------
(* The environment of the process.                                         *)

\* The defaults that the options may be given, and the condition on the lists:
\* every variable has a name, and what is unset can be.
Defaults == {DefaultEnv} \cup {c[i].says.env : c \in Configs, i \in Image}

EnvsApply == \A d \in Defaults, o \in Envs : Named(d) /\ Named(o) /\ Unsettable(d, o)

DefaultsOf(i) == IF ConfigOf(i).env = <<>> THEN DefaultEnv ELSE ConfigOf(i).env

EnvOf(i) ==
    LET m == Merged(DefaultsOf(i), given) IN IF tty THEN Append(m, Term) ELSE m

EnvInv ==
    /\ given \in Envs /\ config \in Configs
    /\ ref \in Image \cup {NoImage} /\ image \in Image \cup {NoImage}
    /\ SpecDone => image \in Image /\ container.process.env = EnvOf(image)

LEMMA ProcessEnv == Process.env = EnvOf(image)
  <1> DEFINE p == FromImage(ConfigOf(image))
             q == WithProcessArgs(p)
  <1>1. p.env = Merged(DefaultsOf(image), given) /\ DOMAIN p = {"env", "args", "cwd", "user"}
    BY DEF FromImage, DefaultsOf
  <1> HIDE DEF p
  <1>2. q.env = p.env /\ DOMAIN q = {"env", "args", "cwd", "user"}
    BY <1>1 DEF WithProcessArgs
  <1> HIDE DEF q
  <1>3. WithTTY(q).env = IF tty THEN Append(q.env, Term) ELSE q.env
    BY <1>2 DEF WithTTY
  <1>4. Process = WithTTY(q)
    BY DEF Process, Chosen, q, p
  <1> QED
    BY <1>1, <1>2, <1>3, <1>4 DEF EnvOf

LEMMA EnvOfKept == UNCHANGED inputs => \A i : EnvOf(i)' = EnvOf(i)
  BY DEF inputs, EnvOf, DefaultsOf, ConfigOf, NoConfig, Merged, Overridden, Kept, Pass, RemoveAt, Override,
         Cache, SelectLastInSeq, Blank, Term

LEMMA EnvStep == SpecInv /\ EnvInv /\ [Next]_vars => EnvInv'
  <1> SUFFICES ASSUME SpecInv, EnvInv, [Next]_vars
               PROVE  EnvInv'
    OBVIOUS
  <1>1. UNCHANGED inputs /\ ref' \in Image \cup {NoImage}
    BY DEF EnvInv, Next, vars, daemon, GetImage, IsUnpacked, UnpackImage, WithNewSnapshot,
           WithImageStopSignal, WithSpec, Option, Create, CallFails, Move, UnpackElsewhere,
           Relabel, Collect, others, Rest
  <1>2. given' \in Envs /\ config' \in Configs
    BY <1>1 DEF EnvInv, inputs
  <1>3. CASE UNCHANGED <<image, cOpts, container>>
    BY <1>1, <1>2, <1>3, EnvOfKept DEF EnvInv, SpecDone
  <1>4. CASE GetImage
    <2>1. cOpts' = ContainerOpts /\ image' \in Image \cup {NoImage}
      BY <1>4 DEF SpecInv, Progress, EnvInv, GetImage, Fail
    <2> QED
      BY <1>1, <1>2, <2>1, OptionsDiffer DEF EnvInv, SpecDone
  <1>5. CASE (WithNewSnapshot \/ WithImageStopSignal) /\ ~ Fail
    <2>1. image' = image /\ cOpts' # <<>>
      <3>1. image' = image /\ cOpts' = Tail(cOpts) /\ cOpts \in Left /\ Head(cOpts) \in {"snapshot", "stop"}
            /\ cOpts # <<>>
        BY <1>5 DEF WithNewSnapshot, WithImageStopSignal, Option, SpecInv, Progress
      <3> QED BY <3>1, OptionsDiffer DEF Left
    <2> QED
      BY <1>1, <1>2, <2>1 DEF EnvInv, SpecDone
  <1>6. CASE WithSpec /\ ~ Fail
    <2>1. pc = "options" /\ image' = image /\ container' = [container EXCEPT !["process"] = Process]
      BY <1>6 DEF WithSpec, Option
    <2>2. image \in Image /\ container'.process = Process
      BY <2>1 DEF SpecInv, Progress, EnvInv
    <2> QED
      BY <1>1, <1>2, <2>1, <2>2, ProcessEnv, EnvOfKept DEF EnvInv
  <1>7. CASE Fail
    BY <1>3, <1>7 DEF Fail
  <1> QED
    BY <1>3, <1>4, <1>5, <1>6, <1>7
       DEF Next, IsUnpacked, UnpackImage, Create, CallFails, Move, UnpackElsewhere, Relabel, Collect,
           others, Rest, vars, Goto

-----------------------------------------------------------------------------
(* What NewContainer promises.                                             *)

\* What is left of the options says which fields of the record are filled, all
\* of them from the image that was got first (run_unix.go, NewContainer).
THEOREM OptionsInOrder == Spec => []SpecInv
  BY InitInv, NextInv, PTL DEF Spec

\* However the reference moves while a container is made, its root file system,
\* stop signal, arguments and user are of one image.
THEOREM ContainerIsOfOneImage == Spec => []OneImage
  <1>1. SpecInv => OneImage
    BY OptionsDiffer
       DEF SpecInv, Progress, Filled, SnapshotDone, StopDone, SpecDone, OneImage
  <1> QED
    BY <1>1, OptionsInOrder, PTL

\* When no call fails, NewContainer refuses only a reference that names nothing
\* or something else than it did, an ID that is taken, a user the image does not
\* know, and a chain that was found and then collected for want of a label.
THEOREM RefusalHasAReason == Spec => RefusedForAReason
  <1>1. SpecInv /\ [Next]_vars => [result' = "error" /\ result # "error" => Reason]_vars
    BY RefusalStep
  <1> QED
    BY <1>1, InitInv, NextInv, PTL DEF Spec, RefusedForAReason

\* Each variable of the process has the value that was asked for last, in the
\* image, the options or the terminal, and none if it was to be unset; nothing
\* else is left in the list (options.go, replaceOrAppendEnvValues).
THEOREM EnvironmentAsWanted ==
    ASSUME EnvsApply
    PROVE  Spec => []EnvAsWanted
  <1>1. Init => EnvInv
    BY OptionsDiffer DEF Init, EnvInv, SpecDone
  <1>2. SpecInv /\ EnvInv => EnvAsWanted
    <2> SUFFICES ASSUME SpecInv, EnvInv, result = "ok"
                 PROVE  EnvAsWanted
      BY DEF EnvAsWanted
    <2> DEFINE c == ConfigOf(image)
               d == DefaultsOf(image)
               m == Merged(d, given)
               env == container.process.env
    <2>1. image \in Image /\ env = IF tty THEN Append(m, Term) ELSE m
      BY DEF SpecInv, Progress, EnvInv, SpecDone, EnvOf
    <2>2. given \in Env /\ DefaultEnv \in Env /\ c.env \in Env
      <3>1. config[image].says.env \in Seq(EnvEntry)
        BY <2>1, SpecAssumption DEF EnvInv
      <3>2. c.env = config[image].says.env \/ c.env = <<>>
        BY DEF ConfigOf, NoConfig
      <3>3. <<>> \in Env
        BY EmptySeq DEF Env
      <3> QED
        BY <3>1, <3>2, <3>3, WiderEnv, SpecAssumption DEF EnvInv
    <2>3. Named(given) /\ Named(DefaultEnv) /\ Named(c.env) /\ d \in Env /\ Named(d) /\ Unsettable(d, given)
      <3>1. config[image].says.env \in Defaults /\ DefaultEnv \in Defaults
        BY <2>1 DEF EnvInv, Defaults
      <3>2. c.env = config[image].says.env \/ c.env = <<>>
        BY DEF ConfigOf, NoConfig
      <3>3. d = IF c.env = <<>> THEN DefaultEnv ELSE c.env
        BY DEF DefaultsOf
      <3>4. Named(<<>>)
        BY NothingNamed
      <3> QED
        BY <2>2, <3>1, <3>2, <3>3, <3>4 DEF EnvInv, EnvsApply
    <2>4. /\ m \in Env /\ Named(m)
          /\ \A k : k # "" => LastOf(m, k) = Asked(d, given, k)
      BY <2>2, <2>3, MergedIs
    <2> HIDE DEF c, d, m, env
    <2>5. Term.key = "TERM" /\ Term.val = "xterm"
      BY DEF Term
    <2>6. Term \in Entry /\ HasName(Term)
      BY <2>5 DEF Entry, HasName
    <2>7. env \in Env /\ Named(env)
      <3>1. CASE tty
        <4>1. env = Append(m, Term)
          BY <2>1, <3>1
        <4> QED BY <2>4, <2>6, <4>1, NamedAppend
      <3> QED BY <2>1, <2>4, <3>1
    <2>8. ASSUME NEW k, k # "" PROVE LastOf(env, k) = Wanted(c, k)
      <3>1. LastOf(env, k) = IF tty /\ k = "TERM" THEN "xterm" ELSE LastOf(m, k)
        <4>1. CASE tty
          <5>1. env = Append(m, Term)
            BY <2>1, <4>1
          <5>2. LastOf(Append(m, Term), k) = IF Term.key = k THEN Term.val ELSE LastOf(m, k)
            BY <2>4, <2>5, <2>6, LastAppend
          <5> QED BY <2>5, <4>1, <5>1, <5>2
        <4>2. CASE ~ tty
          BY <2>1, <4>2
        <4> QED BY <4>1, <4>2
      <3>2. LastOf(m, k) = Asked(d, given, k)
        BY <2>4, <2>8
      <3>3. d = IF c.env = <<>> THEN DefaultEnv ELSE c.env
        BY DEF DefaultsOf, c, d
      <3>4. Wanted(c, k) = IF tty /\ k = "TERM" THEN "xterm" ELSE Asked(d, given, k)
        BY <3>3 DEF Wanted, Asked
      <3> QED
        BY <3>1, <3>2, <3>4
    <2>9. ASSUME NEW s \in {env, c.env, given, DefaultEnv}, NEW k \in Keys(s) PROVE k # ""
      BY <2>3, <2>7, <2>9 DEF Keys, ToSet, Named
    <2>10. \A k \in Keys(env) \cup Keys(c.env) \cup Keys(given) \cup Keys(DefaultEnv) \cup {"TERM"} : k # ""
      BY <2>9
    <2> QED
      BY <2>8, <2>10 DEF EnvAsWanted, c, env
  <1> QED
    BY <1>1, <1>2, EnvStep, InitInv, NextInv, PTL DEF Spec
=============================================================================
