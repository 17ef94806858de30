--------------------------- MODULE FileStoreProofs ---------------------------
(***************************************************************************)
(* What the file store keeps, for any number of goroutines, any calls and  *)
(* any contents: its type and the guard of the graph without an assumption *)
(* on the names, all else where names are used as collections use them     *)
(* (WellNamed).                                                            *)
(***************************************************************************)
EXTENDS FileStore, TLAPS

-----------------------------------------------------------------------------
(* Where a call is.                                                        *)

\* What is left of a list that is taken from the front.
Suffix(s, of) ==
    /\ s \in Seq(Descriptor)
    /\ Len(s) <= Len(of)
    /\ \A i \in 1..Len(s) : s[i] = of[Len(of) - Len(s) + i]

\* The steps of a push, its duplicates and the graph.
PushSteps == {"push", "copy", "attrs", "load", "restore", "refetch", "index"}

\* A push works on the caller's descriptor, or on the first of the duplicates
\* that are left.
PushInv(t) ==
    /\ call[t].kind = "push"
    /\ Len(todo[t]) < Len(call[t].descs)
    /\ Suffix(restore[t], Successors[Own(t).digest])
    /\ pc[t] \in {"load", "index"} => restore[t] = <<>>
    /\ pc[t] = "refetch" => restore[t] # <<>>
    /\ pc[t] \in {"push", "copy", "attrs"} /\ restore[t] = <<>> => cur[t] = Own(t)
    /\ pc[t] \in {"push", "copy", "attrs", "refetch"} /\ restore[t] # <<>> =>
          cur[t] = Head(restore[t]) /\ cur[t].name # NoName
    /\ pc[t] \in {"copy", "attrs"} => cur[t].name # NoName

PlaceInv(t) ==
    /\ Suffix(todo[t], call[t].descs)
    /\ cur[t] \in Known
    /\ pc[t] # "done" => result[t].status = "none"
    /\ pc[t] = "start" => todo[t] # <<>> /\ restore[t] = <<>>
    /\ pc[t] = "done" /\ result[t].status = "ok" /\ call[t].kind = "push" => todo[t] = <<>>
    /\ call[t].kind # "push" => pc[t] \in {"start", "add", "read", "done"}
    /\ call[t].kind # "push" => cur[t] = Head(call[t].descs)
    /\ pc[t] = "add" => call[t].kind = "add"
    /\ pc[t] = "read" => call[t].kind = "fetch"
    /\ pc[t] \in PushSteps => PushInv(t)

\* A name is written by the thread that holds its lock, before it exists.
LockInv(t) ==
    pc[t] \in Pushing =>
        /\ cur[t].name \in DOMAIN holder /\ holder[cur[t].name] = t
        /\ cur[t].name \notin exists

Functions ==
    /\ DOMAIN todo = Thread /\ DOMAIN cur = Thread /\ DOMAIN restore = Thread
    /\ DOMAIN from = Thread /\ DOMAIN copied = Thread
    /\ DOMAIN pc = Thread /\ DOMAIN result = Thread

StoreTypes ==
    /\ tmpFiles \subseteq Thread \X Digest
    /\ DOMAIN digestToPath \subseteq Digest
    /\ exists \subseteq Name
    /\ DOMAIN holder \subseteq Name
    /\ fallback \subseteq Digest
    /\ edges \subseteq Digest \X Digest
    /\ faults \in 0..MaxFaults

PlacesOf == {"start", "done"} \cup Busy

CallInv ==
    /\ call \in Programs
    /\ Functions
    /\ StoreTypes
    /\ pc \in [Thread -> PlacesOf]
    /\ \A t \in Thread : PlaceInv(t)
    /\ \A t \in Thread : LockInv(t)

-----------------------------------------------------------------------------
(* Lists and descriptors.                                                  *)

LEMMA SuffixSelf ==
    ASSUME NEW s \in Seq(Descriptor)
    PROVE  Suffix(s, s)
  BY DEF Suffix

LEMMA SuffixEmpty ==
    ASSUME NEW s \in Seq(Descriptor)
    PROVE  Suffix(<<>>, s)
  BY DEF Suffix

LEMMA SuffixTail ==
    ASSUME NEW of \in Seq(Descriptor), NEW s, Suffix(s, of), s # <<>>
    PROVE  /\ Suffix(Tail(s), of)
           /\ Tail(s) \in Seq(Descriptor) /\ Len(Tail(s)) = Len(s) - 1 /\ Len(s) \in Nat \ {0}
           /\ Len(Tail(s)) < Len(of)
           /\ Head(s) = of[Len(of) - Len(Tail(s))]
           /\ Len(of) - Len(Tail(s)) \in 1..Len(of)
           /\ Head(s) \in Descriptor
  <1>1. Len(s) \in Nat \ {0} /\ Len(Tail(s)) = Len(s) - 1 /\ Tail(s) \in Seq(Descriptor)
    BY DEF Suffix
  <1>2. \A i \in 1..Len(Tail(s)) : Tail(s)[i] = s[i + 1]
    BY <1>1 DEF Suffix
  <1>3. Head(s) = s[1] /\ s[1] = of[Len(of) - Len(s) + 1] /\ s[1] \in Descriptor
    BY <1>1 DEF Suffix
  <1>4. \A i \in 1..Len(Tail(s)) : Tail(s)[i] = of[Len(of) - Len(Tail(s)) + i]
    <2> TAKE i \in 1..Len(Tail(s))
    <2>1. s[i + 1] = of[Len(of) - Len(s) + (i + 1)]
      BY <1>1 DEF Suffix
    <2>2. Len(of) - Len(s) + (i + 1) = Len(of) - Len(Tail(s)) + i
      BY <1>1
    <2> QED
      BY <1>2, <2>1, <2>2
  <1> QED
    BY <1>1, <1>3, <1>4 DEF Suffix

LEMMA ListFacts ==
    ASSUME NEW s \in Seq(Descriptor)
    PROVE  /\ \A i \in 1..Len(s) : s[i] \in ToSet(s) /\ s[i] \in Descriptor
           /\ \A d \in ToSet(s) : \E i \in 1..Len(s) : s[i] = d
  BY DEF ToSet

LEMMA Difference ==
    ASSUME NEW m \in Nat, NEW n \in Nat, m < n
    PROVE  n - m \in 1..n
  OBVIOUS

LEMMA KnownFacts ==
    /\ Known \subseteq Descriptor
    /\ \A p \in Programs : \A t \in Thread : \A i \in 1..Len(p[t].descs) : p[t].descs[i] \in Known
    /\ \A d \in Digest : \A i \in 1..Len(Successors[d]) : Successors[d][i] \in Known
  <1>1. \A d \in Digest : Successors[d] \in Seq(Descriptor)
    BY FileStoreAssumption
  <1>2. \A p \in Programs : \A t \in Thread : p[t].descs \in Seq(Descriptor)
    BY FileStoreAssumption
  <1>3. \A s \in Seq(Descriptor) :
           ToSet(s) \subseteq Descriptor /\ \A i \in 1..Len(s) : s[i] \in ToSet(s)
    BY DEF ToSet
  <1>4. \A p \in Programs : \A t \in Thread : \A i \in 1..Len(p[t].descs) :
           p[t].descs[i] \in ToSet(p[t].descs) \cap Descriptor
    BY <1>2, <1>3
  <1>5. \A d \in Digest : \A i \in 1..Len(Successors[d]) :
           Successors[d][i] \in ToSet(Successors[d]) \cap Descriptor
    BY <1>1, <1>3
  <1> QED
    BY <1>4, <1>5 DEF Known, Listed

\* The caller's descriptor.
LEMMA OwnFacts ==
    ASSUME call \in Programs, NEW t \in Thread, PlaceInv(t), Len(todo[t]) < Len(call[t].descs)
    PROVE  /\ Len(call[t].descs) - Len(todo[t]) \in 1..Len(call[t].descs)
           /\ Own(t) \in Known /\ Own(t) \in Descriptor /\ Own(t).digest \in Digest
           /\ Successors[Own(t).digest] \in Seq(Descriptor)
  <1>1. call[t].descs \in Seq(Descriptor) /\ todo[t] \in Seq(Descriptor)
    BY FileStoreAssumption DEF PlaceInv, Suffix
  <1>2. Len(call[t].descs) - Len(todo[t]) \in 1..Len(call[t].descs)
    <2>1. Len(call[t].descs) \in Nat /\ Len(todo[t]) \in Nat
      BY <1>1
    <2> QED
      BY <2>1, Difference
  <1>3. Own(t) \in Known /\ Own(t) \in Descriptor
    BY <1>1, <1>2, KnownFacts DEF Own
  <1> QED
    BY <1>2, <1>3, FileStoreAssumption DEF Descriptor

LEMMA CurFacts ==
    ASSUME CallInv, NEW t \in Thread
    PROVE  cur[t] \in Descriptor /\ cur[t].digest \in Digest
           /\ (cur[t].name # NoName => cur[t].name \in Name)
  BY KnownFacts DEF CallInv, PlaceInv, Descriptor

-----------------------------------------------------------------------------
(* What a step leaves alone.                                               *)

\* A step of a thread leaves the calls of the others where they are.
OthersStand(t) ==
    /\ call' = call
    /\ Functions'
    /\ \A u \in Thread \ {t} :
          /\ todo'[u] = todo[u] /\ cur'[u] = cur[u] /\ restore'[u] = restore[u]
          /\ from'[u] = from[u] /\ copied'[u] = copied[u]
          /\ pc'[u] = pc[u] /\ result'[u] = result[u]

LEMMA StepOfOne ==
    ASSUME Functions, NEW t \in Thread, Step(t)
    PROVE  OthersStand(t)
  <1> USE DEF OthersStand, Functions, Goto, Return
  <1>1. CASE BeginPush(t) \/ PushUnnamed(t) \/ OpenNamed(t)
    BY <1>1 DEF BeginPush, PushUnnamed, OpenNamed
  <1>2. CASE CopyBlock(t) \/ SaveFile(t) \/ SetAttributes(t)
    BY <1>2 DEF CopyBlock, SaveFile, SetAttributes, PushFails, NextDuplicate
  <1>3. CASE LoadSuccessors(t) \/ NextSuccessor(t) \/ Refetch(t)
    BY <1>3 DEF LoadSuccessors, NextSuccessor, Refetch, NextDuplicate
  <1>4. CASE LockGraph(t) \/ Index(t)
    BY <1>4 DEF LockGraph, Index
  <1>5. CASE BeginAdd(t) \/ Add(t)
    BY <1>5 DEF BeginAdd, Add
  <1>6. CASE BeginFetch(t) \/ Fetch(t) \/ Close(t)
    BY <1>6 DEF BeginFetch, Fetch, Close
  <1>7. CASE AskExists(t) \/ Tag(t) \/ Resolve(t) \/ Predecessors(t)
    BY <1>7 DEF AskExists, Tag, Resolve, Predecessors, Asks
  <1> QED
    BY <1>1, <1>2, <1>3, <1>4, <1>5, <1>6, <1>7 DEF Step

LEMMA PlaceKept ==
    ASSUME NEW u \in Thread, PlaceInv(u), call' = call, todo'[u] = todo[u], cur'[u] = cur[u],
           restore'[u] = restore[u], pc'[u] = pc[u], result'[u] = result[u]
    PROVE  PlaceInv(u)'
  BY DEF PlaceInv, PushInv, Own

-----------------------------------------------------------------------------
(* Every step keeps the place of its call.                                 *)

LEMMA PlaceReturn ==
    ASSUME CallInv, NEW t \in Thread, call' = call, todo'[t] = todo[t], cur'[t] = cur[t],
           pc'[t] = "done",
           result'[t].status = "ok" /\ call[t].kind = "push" => todo[t] = <<>>
    PROVE  PlaceInv(t)'
  BY DEF CallInv, PlaceInv, PushSteps

LEMMA BeginPushPlace ==
    ASSUME CallInv, NEW t \in Thread, BeginPush(t)
    PROVE  PlaceInv(t)'
  <1>1. CASE closed
    BY <1>1, PlaceReturn DEF CallInv, Functions, BeginPush, Return, Goto
  <1>2. CASE ~ closed
    <2>1. /\ call' = call /\ pc'[t] = "push" /\ call[t].kind = "push" /\ pc[t] = "start"
          /\ cur'[t] = Head(todo[t]) /\ todo'[t] = Tail(todo[t])
          /\ restore'[t] = restore[t] /\ result'[t] = result[t]
      BY <1>2 DEF CallInv, Functions, BeginPush, Goto
    <2>2. call[t].descs \in Seq(Descriptor) /\ Suffix(todo[t], call[t].descs) /\ todo[t] # <<>>
      BY <2>1, FileStoreAssumption DEF CallInv, PlaceInv
    <2>3. /\ Suffix(todo'[t], call[t].descs) /\ Len(todo'[t]) < Len(call[t].descs)
          /\ cur'[t] = call[t].descs[Len(call[t].descs) - Len(todo'[t])]
          /\ Len(call[t].descs) - Len(todo'[t]) \in 1..Len(call[t].descs)
      BY <2>1, <2>2, SuffixTail
    <2>4. cur'[t] = Own(t)' /\ cur'[t] \in Known /\ cur'[t] \in Descriptor
      BY <2>1, <2>3, KnownFacts DEF CallInv, Own
    <2>5. Successors[cur'[t].digest] \in Seq(Descriptor)
      BY <2>4, FileStoreAssumption DEF Descriptor
    <2>6. restore'[t] = <<>> /\ result'[t].status = "none"
      BY <2>1 DEF CallInv, PlaceInv
    <2>7. Suffix(restore'[t], Successors[(Own(t)').digest])
      BY <2>4, <2>5, <2>6, SuffixEmpty
    <2>8. PushInv(t)'
      BY <2>1, <2>3, <2>4, <2>6, <2>7 DEF PushInv
    <2> QED
      BY <2>1, <2>3, <2>4, <2>6, <2>8 DEF PlaceInv, PushSteps
  <1> QED
    BY <1>1, <1>2

\* A step of a push that stays at the caller's descriptor and its duplicate.
LEMMA PushMoves ==
    ASSUME CallInv, NEW t \in Thread, pc[t] \in PushSteps, pc'[t] \in PushSteps,
           call' = call, todo'[t] = todo[t], cur'[t] = cur[t], restore'[t] = restore[t],
           result'[t] = result[t],
           pc'[t] \in {"push", "copy", "attrs", "refetch"} =>
              pc[t] \in {"push", "copy", "attrs", "refetch"},
           pc[t] = "refetch" => pc'[t] # "copy",
           pc'[t] \in {"load", "index"} => restore[t] = <<>>,
           pc'[t] = "refetch" => restore[t] # <<>>,
           pc'[t] \in {"copy", "attrs"} => cur[t].name # NoName
    PROVE  PlaceInv(t)'
  <1>1. PlaceInv(t) /\ PushInv(t)
    BY DEF CallInv, PlaceInv
  <1>2. Own(t)' = Own(t)
    BY DEF Own
  <1>3. PushInv(t)'
    BY <1>1, <1>2 DEF PushInv
  <1> QED
    BY <1>1, <1>3 DEF PlaceInv, PushSteps

LEMMA PushUnnamedPlace ==
    ASSUME CallInv, NEW t \in Thread, PushUnnamed(t)
    PROVE  PlaceInv(t)'
  <1>1. CASE Return(t, "failed", <<>>)
    BY <1>1, PlaceReturn DEF CallInv, Functions, PushUnnamed, Return, Goto
  <1>2. CASE Goto(t, "load") /\ UNCHANGED result
    <2>1. restore[t] = <<>>
      BY DEF PushUnnamed, CallInv, PlaceInv, PushInv, PushSteps
    <2> QED
      BY <1>2, <2>1, PushMoves DEF CallInv, Functions, PushUnnamed, Goto, PushSteps
  <1> QED
    BY <1>1, <1>2 DEF PushUnnamed

LEMMA OpenNamedPlace ==
    ASSUME CallInv, NEW t \in Thread, OpenNamed(t)
    PROVE  PlaceInv(t)'
  <1>1. CASE Return(t, "duplicate", <<>>)
    BY <1>1, PlaceReturn DEF CallInv, Functions, OpenNamed, Return, Goto
  <1>2. CASE Goto(t, "copy") /\ UNCHANGED result
    BY <1>2, PushMoves DEF CallInv, Functions, OpenNamed, Goto, PushSteps
  <1> QED
    BY <1>1, <1>2 DEF OpenNamed

LEMMA CopyBlockPlace ==
    ASSUME CallInv, NEW t \in Thread, CopyBlock(t)
    PROVE  PlaceInv(t)'
  BY PlaceKept DEF CallInv, Functions, CopyBlock

LEMMA SaveFilePlace ==
    ASSUME CallInv, NEW t \in Thread, SaveFile(t)
    PROVE  PlaceInv(t)'
  <1>1. CASE PushFails(t)
    BY <1>1, PlaceReturn DEF CallInv, Functions, PushFails, Return, Goto
  <1>2. CASE ~ PushFails(t)
    <2>1. /\ pc[t] = "copy" /\ pc'[t] = "attrs" /\ UNCHANGED <<call, todo, cur, restore, result>>
      BY <1>2 DEF SaveFile, Goto, CallInv, Functions
    <2>2. cur[t].name # NoName
      BY <2>1 DEF CallInv, PlaceInv, PushInv, PushSteps
    <2> QED
      BY <2>1, <2>2, PushMoves DEF PushSteps
  <1> QED
    BY <1>1, <1>2

LEMMA SetAttributesPlace ==
    ASSUME CallInv, NEW t \in Thread, SetAttributes(t)
    PROVE  PlaceInv(t)'
  <1>1. CASE PushFails(t)
    BY <1>1, PlaceReturn DEF CallInv, Functions, PushFails, Return, Goto
  <1>2. CASE ~ PushFails(t)
    <2>1. /\ pc[t] = "attrs" /\ call' = call
          /\ todo'[t] = todo[t] /\ cur'[t] = cur[t] /\ result'[t] = result[t]
          /\ restore'[t] = IF restore[t] = <<>> THEN restore[t] ELSE Tail(restore[t])
          /\ pc'[t] = IF restore[t] = <<>> THEN "load" ELSE "restore"
      BY <1>2 DEF SetAttributes, Goto, CallInv, Functions, NextDuplicate, Pushed
    <2>2. PlaceInv(t) /\ PushInv(t)
      BY <2>1 DEF CallInv, PlaceInv, PushSteps
    <2>3. Own(t)' = Own(t) /\ Successors[Own(t).digest] \in Seq(Descriptor)
      BY <2>1, <2>2, OwnFacts DEF Own, CallInv, PushInv
    <2>4. Suffix(restore'[t], Successors[Own(t).digest])
      BY <2>1, <2>2, <2>3, SuffixTail DEF PushInv
    <2>5. PushInv(t)'
      BY <2>1, <2>2, <2>3, <2>4 DEF PushInv
    <2> QED
      BY <2>1, <2>2, <2>5 DEF PlaceInv, PushSteps
  <1> QED
    BY <1>1, <1>2

LEMMA LoadSuccessorsPlace ==
    ASSUME CallInv, NEW t \in Thread, LoadSuccessors(t)
    PROVE  PlaceInv(t)'
  <1>1. CASE Return(t, "failed", <<>>)
    BY <1>1, PlaceReturn DEF CallInv, Functions, LoadSuccessors, Return, Goto
  <1>2. CASE ~ Return(t, "failed", <<>>)
    <2>1. /\ pc[t] = "load" /\ call' = call
          /\ todo'[t] = todo[t] /\ cur'[t] = cur[t] /\ result'[t] = result[t]
          /\ restore'[t] = Successors[Own(t).digest] /\ pc'[t] = "restore"
      BY <1>2 DEF LoadSuccessors, Goto, CallInv, Functions
    <2>2. PlaceInv(t) /\ PushInv(t)
      BY <2>1 DEF CallInv, PlaceInv, PushSteps
    <2>3. Own(t)' = Own(t) /\ Successors[Own(t).digest] \in Seq(Descriptor)
      BY <2>1, <2>2, OwnFacts DEF Own, CallInv, PushInv
    <2>4. PushInv(t)'
      BY <2>1, <2>2, <2>3, SuffixSelf DEF PushInv
    <2> QED
      BY <2>1, <2>2, <2>4 DEF PlaceInv, PushSteps
  <1> QED
    BY <1>1, <1>2

\* The first of the duplicates that are left is a descriptor a manifest lists.
LEMMA FirstDuplicate ==
    ASSUME CallInv, NEW t \in Thread, pc[t] \in PushSteps, restore[t] # <<>>
    PROVE  /\ Head(restore[t]) \in Known /\ Head(restore[t]) \in Descriptor
           /\ Suffix(Tail(restore[t]), Successors[Own(t).digest])
           /\ Own(t).digest \in Digest
           /\ Listed(Head(restore[t]))
  <1>1. PlaceInv(t) /\ PushInv(t)
    BY DEF CallInv, PlaceInv
  <1>2. Own(t).digest \in Digest /\ Successors[Own(t).digest] \in Seq(Descriptor)
    BY <1>1, OwnFacts DEF CallInv, PushInv
  <1> DEFINE of == Successors[Own(t).digest]
             n == Len(of) - Len(Tail(restore[t]))
  <1>3. /\ Suffix(Tail(restore[t]), of) /\ Head(restore[t]) = of[n] /\ n \in 1..Len(of)
        /\ Head(restore[t]) \in Descriptor
    BY <1>1, <1>2, SuffixTail DEF PushInv
  <1>4. of[n] \in Known /\ of[n] \in ToSet(of)
    BY <1>2, <1>3, KnownFacts, ListFacts
  <1> QED
    BY <1>2, <1>3, <1>4 DEF Listed

LEMMA NextSuccessorPlace ==
    ASSUME CallInv, NEW t \in Thread, NextSuccessor(t)
    PROVE  PlaceInv(t)'
  <1>1. /\ pc[t] = "restore" /\ restore[t] # <<>> /\ call' = call
        /\ todo'[t] = todo[t] /\ result'[t] = result[t]
    BY DEF NextSuccessor
  <1>2. PlaceInv(t) /\ PushInv(t) /\ Own(t)' = Own(t)
    BY <1>1 DEF CallInv, PlaceInv, PushSteps, Own
  <1>3. CASE ~ Skipped(Head(restore[t]))
    <2>1. pc'[t] = "refetch" /\ cur'[t] = Head(restore[t]) /\ restore'[t] = restore[t]
      BY <1>3 DEF NextSuccessor, Goto, CallInv, Functions
    <2>2. cur'[t] \in Known /\ cur'[t].name # NoName
      BY <1>1, <1>3, <2>1, FirstDuplicate DEF PushSteps, Skipped
    <2>3. PushInv(t)'
      BY <1>1, <1>2, <2>1, <2>2 DEF PushInv
    <2> QED
      BY <1>1, <1>2, <2>1, <2>2, <2>3 DEF PlaceInv, PushSteps
  <1>4. CASE Skipped(Head(restore[t]))
    <2>1. pc'[t] = pc[t] /\ cur'[t] = cur[t] /\ restore'[t] = Tail(restore[t])
      BY <1>1, <1>4 DEF NextSuccessor, NextDuplicate, Goto, CallInv, Functions
    <2>2. PushInv(t)'
      BY <1>1, <1>2, <2>1, FirstDuplicate DEF PushInv, PushSteps
    <2> QED
      BY <1>1, <1>2, <2>1, <2>2 DEF PlaceInv, PushSteps
  <1> QED
    BY <1>3, <1>4

LEMMA RefetchPlace ==
    ASSUME CallInv, NEW t \in Thread, Refetch(t)
    PROVE  PlaceInv(t)'
  <1>1. /\ pc[t] = "refetch" /\ call' = call
        /\ todo'[t] = todo[t] /\ result'[t] = result[t] /\ cur'[t] = cur[t]
    BY DEF Refetch
  <1>2. PlaceInv(t) /\ PushInv(t) /\ Own(t)' = Own(t) /\ restore[t] # <<>>
    BY <1>1 DEF CallInv, PlaceInv, PushSteps, Own, PushInv
  <1>3. CASE Found(cur[t].digest)
    <2>1. pc'[t] = "push" /\ restore'[t] = restore[t]
      BY <1>3 DEF Refetch, Goto, CallInv, Functions
    <2> QED
      BY <1>1, <1>2, <2>1, PushMoves DEF PushSteps
  <1>4. CASE ~ Found(cur[t].digest)
    <2>1. pc'[t] = "restore" /\ restore'[t] = Tail(restore[t])
      BY <1>2, <1>4 DEF Refetch, NextDuplicate, Goto, CallInv, Functions
    <2>2. PushInv(t)'
      BY <1>1, <1>2, <2>1, FirstDuplicate DEF PushInv, PushSteps
    <2> QED
      BY <1>1, <1>2, <2>1, <2>2 DEF PlaceInv, PushSteps
  <1> QED
    BY <1>3, <1>4

LEMMA LockGraphPlace ==
    ASSUME CallInv, NEW t \in Thread, LockGraph(t)
    PROVE  PlaceInv(t)'
  <1>1. CASE Return(t, "failed", <<>>)
    BY <1>1, PlaceReturn DEF CallInv, Functions, LockGraph, Return, Goto
  <1>2. CASE Goto(t, "index") /\ UNCHANGED result
    BY <1>2, PushMoves DEF CallInv, Functions, LockGraph, Goto, PushSteps
  <1> QED
    BY <1>1, <1>2 DEF LockGraph

LEMMA IndexPlace ==
    ASSUME CallInv, NEW t \in Thread, Index(t)
    PROVE  PlaceInv(t)'
  <1>1. CASE todo[t] = <<>>
    BY <1>1, PlaceReturn DEF CallInv, Functions, Index, Return, Goto
  <1>2. CASE todo[t] # <<>>
    <2>1. /\ pc[t] = "index" /\ pc'[t] = "start" /\ call' = call
          /\ UNCHANGED <<todo, cur, restore, result>>
      BY <1>2 DEF Index, Goto, CallInv, Functions
    <2> QED
      BY <1>2, <2>1 DEF CallInv, PlaceInv, PushInv, PushSteps
  <1> QED
    BY <1>1, <1>2

\* The other calls return at once or after one step.
LEMMA OtherPlace ==
    ASSUME CallInv, NEW t \in Thread,
           BeginAdd(t) \/ Add(t) \/ BeginFetch(t) \/ Fetch(t) \/ AskExists(t) \/ Tag(t)
              \/ Resolve(t) \/ Predecessors(t) \/ Close(t)
    PROVE  PlaceInv(t)'
  <1>1. /\ call' = call /\ todo'[t] = todo[t] /\ cur'[t] = cur[t]
        /\ call[t].kind # "push"
        /\ \/ pc'[t] = "done"
           \/ /\ pc[t] = "start" /\ result'[t] = result[t]
              /\ \/ pc'[t] = "add" /\ call[t].kind = "add"
                 \/ pc'[t] = "read" /\ call[t].kind = "fetch"
    <2>1. CASE BeginAdd(t) \/ Add(t)
      BY <2>1 DEF CallInv, Functions, PlaceInv, BeginAdd, Add, Return, Goto
    <2>2. CASE BeginFetch(t) \/ Fetch(t) \/ Close(t)
      BY <2>2 DEF CallInv, Functions, PlaceInv, BeginFetch, Fetch, Close, Return, Goto
    <2>3. CASE AskExists(t) \/ Tag(t) \/ Resolve(t) \/ Predecessors(t)
      BY <2>3 DEF CallInv, Functions, AskExists, Tag, Resolve, Predecessors, Asks, Return, Goto
    <2> QED
      BY <2>1, <2>2, <2>3
  <1>2. CASE pc'[t] = "done"
    BY <1>1, <1>2, PlaceReturn
  <1>3. CASE pc'[t] # "done"
    BY <1>1, <1>3 DEF CallInv, PlaceInv, PushSteps
  <1> QED
    BY <1>2, <1>3

LEMMA PlaceInvariant ==
    ASSUME CallInv, NEW t \in Thread, Step(t)
    PROVE  \A u \in Thread : PlaceInv(u)'
  <1>1. PlaceInv(t)'
    BY BeginPushPlace, PushUnnamedPlace, OpenNamedPlace, CopyBlockPlace, SaveFilePlace,
       SetAttributesPlace, LoadSuccessorsPlace, NextSuccessorPlace, RefetchPlace, LockGraphPlace,
       IndexPlace, OtherPlace
       DEF Step
  <1>2. ASSUME NEW u \in Thread \ {t}
        PROVE  PlaceInv(u)'
    BY StepOfOne, PlaceKept DEF CallInv, OthersStand
  <1> QED
    BY <1>1, <1>2

-----------------------------------------------------------------------------
(* Every step keeps the locks of the names and the types.                  *)

LEMMA LockSame ==
    ASSUME CallInv, NEW t \in Thread, OthersStand(t), UNCHANGED <<holder, exists>>,
           pc'[t] \in Pushing => pc[t] \in Pushing /\ cur'[t] = cur[t]
    PROVE  (\A u \in Thread : LockInv(u)') /\ DOMAIN holder' \subseteq Name /\ exists' \subseteq Name
  <1>1. ASSUME NEW u \in Thread
        PROVE  LockInv(u)'
    BY DEF CallInv, OthersStand, LockInv, Pushing
  <1> QED
    BY <1>1 DEF CallInv, StoreTypes

LEMMA LockTaken ==
    ASSUME CallInv, NEW t \in Thread, OthersStand(t), cur[t].name \in Name, Free(cur[t].name),
           cur[t].name \notin exists, cur'[t] = cur[t],
           holder' = Put(holder, cur[t].name, t), exists' = exists
    PROVE  (\A u \in Thread : LockInv(u)') /\ DOMAIN holder' \subseteq Name /\ exists' \subseteq Name
  <1>1. DOMAIN holder' = DOMAIN holder \cup {cur[t].name}
    BY DEF Put
  <1>2. \A n \in DOMAIN holder : holder'[n] = holder[n]
    BY DEF Put, Free
  <1>3. holder'[cur[t].name] = t
    BY DEF Put
  <1>4. ASSUME NEW u \in Thread \ {t}
        PROVE  LockInv(u)'
    BY <1>1, <1>2 DEF CallInv, OthersStand, LockInv, Pushing
  <1>5. LockInv(t)'
    BY <1>1, <1>3 DEF LockInv
  <1> QED
    BY <1>1, <1>4, <1>5 DEF CallInv, StoreTypes

LEMMA LockReleased ==
    ASSUME CallInv, NEW t \in Thread, OthersStand(t), pc[t] \in Pushing, pc'[t] \notin Pushing,
           holder' = Unlocked(cur[t].name), exists' \in {exists, exists \cup {cur[t].name}}
    PROVE  (\A u \in Thread : LockInv(u)') /\ DOMAIN holder' \subseteq Name /\ exists' \subseteq Name
  <1>1. cur[t].name \in DOMAIN holder /\ holder[cur[t].name] = t /\ DOMAIN holder \subseteq Name
    BY DEF CallInv, LockInv, StoreTypes
  <1>2. /\ DOMAIN holder' = DOMAIN holder \ {cur[t].name}
        /\ \A n \in DOMAIN holder' : holder'[n] = holder[n]
    BY DEF Unlocked, Restrict
  <1>3. ASSUME NEW u \in Thread \ {t}
        PROVE  LockInv(u)'
    BY <1>1, <1>2 DEF CallInv, OthersStand, LockInv, Pushing
  <1>4. LockInv(t)'
    BY DEF LockInv, Pushing
  <1> QED
    BY <1>1, <1>2, <1>3, <1>4 DEF CallInv, StoreTypes

LEMMA LockInvariant ==
    ASSUME CallInv, NEW t \in Thread, Step(t)
    PROVE  (\A u \in Thread : LockInv(u)') /\ DOMAIN holder' \subseteq Name /\ exists' \subseteq Name
  <1>0. OthersStand(t)
    BY StepOfOne DEF CallInv
  <1> USE DEF Functions, Goto, Return, Pushing
  <1>1. CASE OpenNamed(t)
    <2>1. CASE cur[t].name \in exists
      BY <1>0, <1>1, <2>1, LockSame DEF OpenNamed, CallInv
    <2>2. CASE cur[t].name \notin exists
      BY <1>0, <1>1, <2>2, LockTaken, CurFacts DEF OpenNamed
    <2> QED
      BY <2>1, <2>2
  <1>2. CASE SaveFile(t) \/ SetAttributes(t)
    <2>1. CASE PushFails(t)
      BY <1>0, <1>2, <2>1, LockReleased DEF SaveFile, SetAttributes, PushFails, CallInv
    <2>2. CASE SaveFile(t) /\ ~ PushFails(t)
      BY <1>0, <2>2, LockSame DEF SaveFile, CallInv
    <2>3. CASE SetAttributes(t) /\ ~ PushFails(t)
      BY <1>0, <2>3, LockReleased DEF SetAttributes, CallInv, Pushed
    <2> QED
      BY <1>2, <2>1, <2>2, <2>3
  <1>3. CASE BeginAdd(t)
    <2>1. CASE ~ closed /\ cur[t].name \notin exists
                  /\ (cur[t].unpack \/ Target(t) \in DOMAIN disk)
      <3>1. cur[t].name \in Name
        <4>1. cur[t] = Head(call[t].descs) /\ call[t].kind = "add"
          BY <1>3 DEF BeginAdd, CallInv, PlaceInv
        <4>2. cur[t].name # NoName
          BY <4>1, FileStoreAssumption DEF CallInv
        <4> QED
          BY <4>2, CurFacts
      <3>2. Free(cur[t].name) /\ holder' = Put(holder, cur[t].name, t)
            /\ exists' = exists /\ cur'[t] = cur[t]
        BY <1>3, <2>1 DEF BeginAdd
      <3> QED
        BY <1>0, <2>1, <3>1, <3>2, LockTaken
    <2>2. CASE ~ (~ closed /\ cur[t].name \notin exists
                     /\ (cur[t].unpack \/ Target(t) \in DOMAIN disk))
      <3>1. pc'[t] = "done" /\ UNCHANGED <<holder, exists>>
        BY <1>3, <2>2 DEF BeginAdd, CallInv
      <3> QED
        BY <1>0, <3>1, LockSame
    <2> QED
      BY <2>1, <2>2
  <1>4. CASE Add(t)
    <2>1. pc[t] \in Pushing /\ pc'[t] \notin Pushing /\ holder' = Unlocked(cur[t].name)
          /\ exists' \in {exists, exists \cup {cur[t].name}}
      BY <1>4 DEF Add, CallInv
    <2> QED
      BY <1>0, <2>1, LockReleased
  <1>5. CASE BeginPush(t) \/ PushUnnamed(t) \/ CopyBlock(t)
    <2>1. UNCHANGED <<holder, exists>> /\ (pc'[t] \in Pushing => pc[t] \in Pushing /\ cur'[t] = cur[t])
      BY <1>5 DEF BeginPush, PushUnnamed, CopyBlock, store, CallInv
    <2> QED
      BY <1>0, <2>1, LockSame
  <1>6. CASE LoadSuccessors(t) \/ NextSuccessor(t) \/ Refetch(t) \/ LockGraph(t) \/ Index(t)
    <2>1. UNCHANGED <<holder, exists>> /\ pc'[t] \notin Pushing
      BY <1>6 DEF LoadSuccessors, NextSuccessor, Refetch, LockGraph, Index, store, CallInv
    <2> QED
      BY <1>0, <2>1, LockSame
  <1>7. CASE BeginFetch(t) \/ Fetch(t) \/ AskExists(t) \/ Tag(t) \/ Resolve(t)
                \/ Predecessors(t) \/ Close(t)
    <2>1. UNCHANGED <<holder, exists>> /\ pc'[t] \notin Pushing
      <3>1. CASE BeginFetch(t) \/ Fetch(t) \/ Close(t)
        BY <3>1 DEF BeginFetch, Fetch, Close, store, CallInv
      <3>2. CASE AskExists(t) \/ Tag(t) \/ Resolve(t) \/ Predecessors(t)
        BY <3>2 DEF AskExists, Tag, Resolve, Predecessors, Asks, CallInv
      <3> QED
        BY <1>7, <3>1, <3>2
    <2> QED
      BY <1>0, <2>1, LockSame
  <1> QED
    BY <1>1, <1>2, <1>3, <1>4, <1>5, <1>6, <1>7 DEF Step

LEMMA PcInvariant ==
    ASSUME CallInv, NEW t \in Thread, Step(t)
    PROVE  pc' \in [Thread -> PlacesOf]
  <1> USE DEF Functions, Goto, Return, PlacesOf, Busy, Pushing
  <1>1. CASE BeginPush(t) \/ PushUnnamed(t) \/ OpenNamed(t) \/ CopyBlock(t)
    BY <1>1 DEF BeginPush, PushUnnamed, OpenNamed, CopyBlock, CallInv
  <1>2. CASE SaveFile(t) \/ SetAttributes(t) \/ LoadSuccessors(t) \/ NextSuccessor(t)
    BY <1>2 DEF SaveFile, SetAttributes, PushFails, Pushed, LoadSuccessors, NextSuccessor, CallInv
  <1>3. CASE Refetch(t) \/ LockGraph(t) \/ Index(t)
    BY <1>3 DEF Refetch, LockGraph, Index, CallInv
  <1>4. CASE BeginAdd(t) \/ Add(t) \/ BeginFetch(t) \/ Fetch(t) \/ Close(t)
    BY <1>4 DEF BeginAdd, Add, BeginFetch, Fetch, Close, CallInv
  <1>5. CASE AskExists(t) \/ Tag(t) \/ Resolve(t) \/ Predecessors(t)
    BY <1>5 DEF AskExists, Tag, Resolve, Predecessors, Asks, CallInv
  <1> QED
    BY <1>1, <1>2, <1>3, <1>4, <1>5 DEF Step

\* What the steps do to the sets and maps of the store.
LEMMA TypesInvariant ==
    ASSUME CallInv, NEW t \in Thread, Step(t)
    PROVE  /\ tmpFiles' \subseteq Thread \X Digest
           /\ DOMAIN digestToPath' \subseteq Digest
           /\ fallback' \subseteq Digest
           /\ edges' \subseteq Digest \X Digest
           /\ faults' \in 0..MaxFaults
  <1>0. /\ tmpFiles \subseteq Thread \X Digest /\ DOMAIN digestToPath \subseteq Digest
        /\ fallback \subseteq Digest /\ edges \subseteq Digest \X Digest
        /\ faults \in 0..MaxFaults /\ MaxFaults \in Nat
    BY FileStoreAssumption DEF CallInv, StoreTypes
  <1>1. cur[t].digest \in Digest
    BY CurFacts
  <1>2. Registered(t) \subseteq (Thread \X Digest) \cup tmpFiles
    BY <1>1 DEF Registered, Target
  <1>3. DOMAIN Mapped(t) \subseteq Digest
    BY <1>0, <1>1 DEF Mapped, Put
  <1>4. Fault => faults' \in 0..MaxFaults
    BY <1>0 DEF Fault
  <1>5. CASE BeginPush(t) \/ NextSuccessor(t) \/ Refetch(t) \/ LoadSuccessors(t) \/ LockGraph(t)
                \/ BeginFetch(t) \/ Fetch(t)
    BY <1>0, <1>5 DEF BeginPush, NextSuccessor, Refetch, LoadSuccessors, LockGraph, BeginFetch,
                      Fetch, store, meta
  <1>6. CASE PushUnnamed(t) \/ OpenNamed(t) \/ CopyBlock(t) \/ BeginAdd(t)
    BY <1>0, <1>1, <1>2, <1>4, <1>6 DEF PushUnnamed, OpenNamed, CopyBlock, BeginAdd, meta
  <1>7. CASE SaveFile(t) \/ SetAttributes(t) \/ Add(t)
    BY <1>0, <1>3, <1>4, <1>7 DEF SaveFile, SetAttributes, Add, PushFails, meta
  <1>8. CASE Index(t)
    <2>1. Own(t).digest \in Digest /\ Successors[Own(t).digest] \in Seq(Descriptor)
      BY <1>8, OwnFacts DEF CallInv, Index, PlaceInv, PushInv, PushSteps
    <2>2. ASSUME NEW s \in ToSet(Successors[Own(t).digest])
          PROVE  s.digest \in Digest
      <3>1. s \in Descriptor
        BY <2>1, ListFacts
      <3> QED
        BY <3>1 DEF Descriptor
    <2>3. UNCHANGED <<tmpFiles, digestToPath, fallback, faults>>
      BY <1>8 DEF Index
    <2>4. edges' \subseteq Digest \X Digest
      <3>1. edges' = edges \cup {<<Own(t).digest, s.digest>> : s \in ToSet(Successors[Own(t).digest])}
        BY <1>8 DEF Index, EdgesOf
      <3> QED
        BY <1>0, <2>1, <2>2, <3>1
    <2> QED
      BY <1>0, <2>3, <2>4
  <1>9. CASE AskExists(t) \/ Tag(t) \/ Resolve(t) \/ Predecessors(t) \/ Close(t)
    BY <1>0, <1>9 DEF AskExists, Tag, Resolve, Predecessors, Asks, Close
  <1> QED
    BY <1>5, <1>6, <1>7, <1>8, <1>9 DEF Step

LEMMA CallInit == Init => CallInv
  <1> SUFFICES ASSUME Init
               PROVE  CallInv
    OBVIOUS
  <1>1. call \in Programs /\ Functions
    BY DEF Init, Functions
  <1>2. StoreTypes
    BY FileStoreAssumption DEF Init, StoreTypes
  <1>3. ASSUME NEW t \in Thread
        PROVE  PlaceInv(t) /\ LockInv(t)
    <2>1. call[t].descs \in Seq(Descriptor) /\ call[t].descs # <<>>
      BY <1>1, FileStoreAssumption
    <2>2. Head(call[t].descs) = call[t].descs[1] /\ 1 \in 1..Len(call[t].descs)
      BY <2>1
    <2>3. cur[t] \in Known
      BY <1>1, <2>2, KnownFacts DEF Init
    <2> QED
      BY <1>1, <2>1, <2>3, SuffixSelf DEF Init, PlaceInv, LockInv, PushSteps, Pushing, PlacesOf
  <1>4. pc \in [Thread -> PlacesOf]
    BY DEF Init, PlacesOf
  <1> QED
    BY <1>1, <1>2, <1>3, <1>4 DEF CallInv

LEMMA CallStep ==
    ASSUME CallInv, [Next]_vars
    PROVE  CallInv'
  <1>1. ASSUME NEW t \in Thread, Step(t)
        PROVE  CallInv'
    <2>1. OthersStand(t)
      BY <1>1, StepOfOne DEF CallInv
    <2>2. call' \in Programs /\ Functions'
      BY <2>1 DEF OthersStand, CallInv
    <2> QED
      BY <1>1, <2>2, PlaceInvariant, LockInvariant, PcInvariant, TypesInvariant
         DEF CallInv, StoreTypes
  <1>2. CASE UNCHANGED vars
    <2>1. \A t \in Thread : PlaceInv(t)' /\ LockInv(t)'
      BY <1>2, PlaceKept DEF CallInv, vars, local, store, LockInv
    <2> QED
      BY <1>2, <2>1 DEF CallInv, vars, local, store, meta, Functions, StoreTypes
  <1> QED
    BY <1>1, <1>2 DEF Next, Quiet

LEMMA CallInvariance == Spec => []CallInv
  BY CallInit, CallStep, PTL DEF Spec

\* The store is well typed, and the lock of a name has the thread that pushes
\* or adds it as its holder, whatever fails and however the names are used
\* (file.go:241-287 and 411-446).
THEOREM StoreTyped == Spec => []TypeOK
  <1>1. CallInv => TypeOK
    <2> SUFFICES ASSUME CallInv
                 PROVE  TypeOK
      OBVIOUS
    <2>1. pc \in [Thread -> {"start", "done"} \cup Busy]
      BY DEF CallInv, Functions, PlacesOf
    <2> QED
      BY <2>1 DEF CallInv, StoreTypes, TypeOK, LockInv
  <1> QED
    BY <1>1, CallInvariance, PTL

-----------------------------------------------------------------------------
(* What the files hold.                                                    *)

\* The files that are written for a digest: those of its names, and the
\* temporary ones.
PathFor(p, d) ==
    \/ \E e \in Known : e.name # NoName /\ e.digest = d /\ p = PathOf[e.name]
    \/ \E t \in Thread : p = <<t, d>>

Begun(f, c) ==
    /\ f \in Seq(Block)
    /\ Len(f) <= Len(c)
    /\ \A i \in 1..Len(f) : f[i] = c[i]

Complete(p, d) == PathFor(p, d) /\ p \in DOMAIN disk /\ disk[p] = Content[d]

\* A file holds the first blocks of its blob, whoever writes it and whatever
\* has failed before.
FilesBegun ==
    \A d \in Digest : \A p \in DOMAIN disk : PathFor(p, d) => Begun(disk[p], Content[d])

\* What is mapped is complete; only Close takes it away.
MappedComplete ==
    \A d \in DOMAIN digestToPath :
        /\ PathFor(digestToPath[d], d)
        /\ digestToPath[d] \in DOMAIN disk => disk[digestToPath[d]] = Content[d]
        /\ ~ closed => digestToPath[d] \in DOMAIN disk

\* A file that an Add finds is its blob.
AddedComplete ==
    \A t \in Thread :
        call[t].kind = "add" /\ ~ cur[t].unpack /\ PathOf[cur[t].name] \in DOMAIN disk =>
            disk[PathOf[cur[t].name]] = Content[cur[t].digest]

\* Close knows the temporary files, and nobody works after it.
TempsKnown ==
    /\ Temp \cap DOMAIN disk \subseteq tmpFiles
    /\ closed => Temp \cap DOMAIN disk = {} /\ \A t \in Thread : pc[t] \notin Busy

CopyInv(t) ==
    /\ pc[t] \in {"push", "copy"} /\ from[t] # Stream => Complete(from[t], cur[t].digest)
    /\ pc[t] = "push" => copied[t] = <<>>
    /\ pc[t] = "copy" =>
          /\ Begun(copied[t], Content[cur[t].digest])
          /\ Target(t) \in DOMAIN disk /\ Len(copied[t]) <= Len(disk[Target(t)])
    /\ pc[t] = "attrs" => cur[t].digest \in DOMAIN digestToPath
    /\ pc[t] = "add" => Target(t) \in DOMAIN disk

FileInv ==
    /\ CallInv
    /\ DOMAIN OldFiles \subseteq DOMAIN disk
    /\ FilesBegun
    /\ MappedComplete
    /\ AddedComplete
    /\ TempsKnown
    /\ \A t \in Thread : CopyInv(t)

-----------------------------------------------------------------------------
(* Paths and blocks.                                                       *)

LEMMA ContentType ==
    ASSUME NEW d \in Digest
    PROVE  Content[d] \in Seq(Block)
  BY FileStoreAssumption

LEMMA KnownName ==
    ASSUME NEW d \in Known, d.name # NoName
    PROVE  d.name \in Name /\ d.digest \in Digest
  BY KnownFacts DEF Descriptor

\* No file is written for two digests.
LEMMA PathUnique ==
    ASSUME WellNamed, NEW p, NEW d, NEW e, PathFor(p, d), PathFor(p, e),
           d \in Digest, e \in Digest
    PROVE  d = e
  <1>1. ASSUME NEW k \in Known, k.name # NoName, p = PathOf[k.name], NEW t \in Thread,
               NEW x \in Digest, p = <<t, x>>
        PROVE  FALSE
    <2>1. PathOf[k.name] \notin Temp
      BY <1>1, KnownName DEF WellNamed
    <2>2. <<t, x>> \in Temp
      BY <1>1 DEF Temp
    <2> QED
      BY <1>1, <2>1, <2>2
  <1>2. CASE \E t \in Thread : p = <<t, d>>
    <2>1. \E t \in Thread : p = <<t, e>>
      BY <1>1, <1>2 DEF PathFor
    <2> QED
      BY <1>2, <2>1
  <1>3. CASE \E k \in Known : k.name # NoName /\ k.digest = d /\ p = PathOf[k.name]
    <2>1. PICK k \in Known : k.name # NoName /\ k.digest = d /\ p = PathOf[k.name]
      BY <1>3
    <2>2. \E l \in Known : l.name # NoName /\ l.digest = e /\ p = PathOf[l.name]
      BY <1>1, <2>1 DEF PathFor
    <2>3. PICK l \in Known : l.name # NoName /\ l.digest = e /\ p = PathOf[l.name]
      BY <2>2
    <2>4. k.name \in Name /\ l.name \in Name
      BY <2>1, <2>3, KnownName
    <2>5. k.name = l.name
      BY <2>1, <2>3, <2>4 DEF WellNamed
    <2> QED
      BY <2>1, <2>3, <2>5 DEF WellNamed
  <1> QED
    BY <1>2, <1>3 DEF PathFor

LEMMA TargetPath ==
    ASSUME NEW t \in Thread, cur[t] \in Known, cur[t].name # NoName
    PROVE  PathFor(Target(t), cur[t].digest)
  BY DEF PathFor, Target

LEMMA TargetTemp ==
    ASSUME WellNamed, NEW t \in Thread, cur[t] \in Known, cur[t].name # NoName
    PROVE  Target(t) \in Temp => cur[t].unpack
  BY KnownName DEF WellNamed, Target

\* A file that holds as many blocks as its blob is the blob.
LEMMA Whole ==
    ASSUME NEW c \in Seq(Block), NEW f, Begun(f, c), Len(c) <= Len(f)
    PROVE  f = c
  <1>1. Len(f) = Len(c) /\ f \in Seq(Block)
    BY DEF Begun
  <1>2. \A i \in 1..Len(f) : f[i] = c[i]
    BY DEF Begun
  <1>3. f = [i \in 1..Len(f) |-> f[i]] /\ c = [i \in 1..Len(c) |-> c[i]]
    BY <1>1
  <1> QED
    BY <1>1, <1>2, <1>3

LEMMA WholeBegun ==
    ASSUME NEW c \in Seq(Block)
    PROVE  Begun(c, c) /\ Begun(<<>>, c) /\ Len(c) \in Nat
  BY DEF Begun

\* Writing the next block of the blob over a file that holds its first blocks
\* changes nothing or adds the block.
LEMMA BlockWritten ==
    ASSUME NEW c \in Seq(Block), NEW old, Begun(old, c), NEW i \in 1..Len(c), i - 1 <= Len(old)
    PROVE  LET new == IF i <= Len(old) THEN [old EXCEPT ![i] = c[i]] ELSE Append(old, c[i])
           IN  Begun(new, c) /\ Len(old) <= Len(new) /\ i <= Len(new)
  <1> DEFINE new == IF i <= Len(old) THEN [old EXCEPT ![i] = c[i]] ELSE Append(old, c[i])
  <1>1. old \in Seq(Block) /\ Len(old) \in Nat /\ Len(c) \in Nat /\ c[i] \in Block
    BY DEF Begun
  <1>2. CASE i <= Len(old)
    <2>1. new = [old EXCEPT ![i] = c[i]] /\ i \in 1..Len(old) /\ old[i] = c[i]
      BY <1>1, <1>2 DEF Begun
    <2>2. new = old
      BY <1>1, <2>1
    <2> QED
      BY <1>1, <1>2, <2>2
  <1>3. CASE ~ i <= Len(old)
    <2>1. i = Len(old) + 1 /\ new = Append(old, c[i])
      BY <1>1, <1>3
    <2>2. new \in Seq(Block) /\ Len(new) = i
      BY <1>1, <2>1
    <2>3. \A j \in 1..Len(new) : new[j] = c[j]
      BY <1>1, <2>1, <2>2 DEF Begun
    <2> QED
      BY <1>1, <2>1, <2>2, <2>3 DEF Begun
  <1> QED
    BY <1>2, <1>3

LEMMA NextBlock ==
    ASSUME NEW c \in Seq(Block), NEW f, Begun(f, c), Len(f) + 1 <= Len(c)
    PROVE  Begun(Append(f, c[Len(f) + 1]), c) /\ Len(Append(f, c[Len(f) + 1])) = Len(f) + 1
  <1>1. f \in Seq(Block) /\ Len(f) \in Nat /\ Len(c) \in Nat /\ Len(f) + 1 \in 1..Len(c)
    BY DEF Begun
  <1>2. c[Len(f) + 1] \in Block
    BY <1>1
  <1> DEFINE new == Append(f, c[Len(f) + 1])
  <1>3. new \in Seq(Block) /\ Len(new) = Len(f) + 1
    BY <1>1, <1>2
  <1>4. \A j \in 1..Len(new) : new[j] = c[j]
    BY <1>1, <1>2, <1>3 DEF Begun
  <1> QED
    BY <1>1, <1>3, <1>4 DEF Begun

-----------------------------------------------------------------------------
(* Files only grow until the store is closed.                              *)

Grown ==
    /\ DOMAIN disk \subseteq DOMAIN disk'
    /\ FilesBegun'
    /\ \A d \in Digest : \A p \in DOMAIN disk : PathFor(p, d) => Len(disk[p]) <= Len(disk'[p])

LEMMA CompleteKept ==
    ASSUME Grown, NEW d \in Digest, NEW p, Complete(p, d)
    PROVE  Complete(p, d)'
  <1>1. p \in DOMAIN disk' /\ Begun(disk'[p], Content[d]) /\ Len(Content[d]) <= Len(disk'[p])
    BY DEF Grown, FilesBegun, Complete
  <1>2. disk'[p] = Content[d]
    BY <1>1, Whole, ContentType
  <1> QED
    BY <1>1, <1>2 DEF Complete

LEMMA SameGrown ==
    ASSUME FilesBegun, disk' = disk
    PROVE  Grown
  <1>1. \A d \in Digest : \A p \in DOMAIN disk : PathFor(p, d) => Len(disk[p]) \in Nat
    BY ContentType DEF FilesBegun, Begun
  <1> QED
    BY <1>1 DEF Grown, FilesBegun

\* One file of a digest is opened or written.
LEMMA WriteGrown ==
    ASSUME WellNamed, FilesBegun, NEW q, NEW d \in Digest, PathFor(q, d),
           DOMAIN disk' = DOMAIN disk \cup {q},
           \A p \in DOMAIN disk \ {q} : disk'[p] = disk[p],
           Begun(disk'[q], Content[d]),
           q \in DOMAIN disk => Len(disk[q]) <= Len(disk'[q])
    PROVE  Grown
  <1>1. ASSUME NEW e \in Digest, NEW p \in DOMAIN disk', PathFor(p, e)
        PROVE  Begun(disk'[p], Content[e]) /\ (p \in DOMAIN disk => Len(disk[p]) <= Len(disk'[p]))
    <2>1. CASE p = q
      BY <1>1, <2>1, PathUnique
    <2>2. CASE p # q
      BY <1>1, <2>2 DEF FilesBegun, Begun
    <2> QED
      BY <2>1, <2>2
  <1> QED
    BY <1>1 DEF Grown, FilesBegun

LEMMA OpenGrown ==
    ASSUME WellNamed, FilesBegun, NEW t \in Thread, cur[t] \in Known, cur[t].name # NoName,
           disk' = Opened(disk, Target(t))
    PROVE  Grown /\ DOMAIN disk' = DOMAIN disk \cup {Target(t)}
  <1>1. CASE Target(t) \in DOMAIN disk
    BY <1>1, SameGrown DEF Opened
  <1>2. CASE Target(t) \notin DOMAIN disk
    <2>1. /\ DOMAIN disk' = DOMAIN disk \cup {Target(t)}
          /\ \A p \in DOMAIN disk \ {Target(t)} : disk'[p] = disk[p]
          /\ disk'[Target(t)] = <<>>
      BY <1>2 DEF Opened, Put
    <2>2. cur[t].digest \in Digest /\ Begun(<<>>, Content[cur[t].digest])
      BY KnownName, ContentType, WholeBegun
    <2> QED
      BY <1>2, <2>1, <2>2, WriteGrown, TargetPath
  <1> QED
    BY <1>1, <1>2

LEMMA SourceBlocks ==
    ASSUME FileInv, NEW t \in Thread, pc[t] = "copy"
    PROVE  Source(t) = Content[cur[t].digest]
  BY DEF FileInv, CopyInv, Source, Complete

\* What a block that is copied does to its file.
LEMMA CopyGrown ==
    ASSUME WellNamed, FileInv, NEW t \in Thread, CopyBlock(t)
    PROVE  /\ Grown /\ DOMAIN disk' = DOMAIN disk
           /\ Begun(copied'[t], Content[cur[t].digest])
           /\ Len(copied'[t]) <= Len(disk'[Target(t)])
  <1> DEFINE c == Content[cur[t].digest]
             i == Len(copied[t]) + 1
             old == disk[Target(t)]
             new == IF i <= Len(old) THEN [old EXCEPT ![i] = c[i]] ELSE Append(old, c[i])
  <1>1. /\ pc[t] = "copy" /\ cur[t] \in Known /\ cur[t].name # NoName
        /\ cur[t].digest \in Digest /\ c \in Seq(Block)
    <2>1. pc[t] = "copy" /\ cur[t] \in Known /\ cur[t].name # NoName
      BY DEF CopyBlock, FileInv, CallInv, PlaceInv, PushInv, PushSteps
    <2> QED
      BY <2>1, KnownName, ContentType
  <1>2. Source(t) = c
    BY <1>1, SourceBlocks
  <1>3. /\ Begun(copied[t], c) /\ Target(t) \in DOMAIN disk /\ Len(copied[t]) <= Len(old)
        /\ PathFor(Target(t), cur[t].digest) /\ Begun(old, c)
    BY <1>1, TargetPath DEF FileInv, CopyInv, FilesBegun
  <1>4. Len(copied[t]) \in Nat /\ Len(c) \in Nat /\ Len(old) \in Nat
    BY <1>1, <1>3 DEF Begun
  <1>5. /\ disk' = [disk EXCEPT ![Target(t)] = new] /\ i <= Len(c)
        /\ copied'[t] = Append(copied[t], c[i])
    BY <1>2 DEF CopyBlock, FileInv, CallInv, Functions
  <1>6. i \in 1..Len(c) /\ i - 1 <= Len(old)
    BY <1>3, <1>4, <1>5
  <1>7. Begun(Append(copied[t], c[i]), c) /\ Len(Append(copied[t], c[i])) = i
    BY <1>1, <1>3, <1>5, NextBlock
  <1>8. new = IF i <= Len(old) THEN [old EXCEPT ![i] = c[i]] ELSE Append(old, c[i])
    OBVIOUS
  <1>9. /\ DOMAIN disk' = DOMAIN disk /\ disk'[Target(t)] = new
        /\ \A p \in DOMAIN disk \ {Target(t)} : disk'[p] = disk[p]
    BY <1>3, <1>5
  <1> HIDE DEF c, i, old, new
  <1>10. Begun(new, c) /\ Len(old) <= Len(new) /\ i <= Len(new)
    BY <1>1, <1>3, <1>6, <1>8, BlockWritten
  <1>11. Grown
    <2>1. DOMAIN disk' = DOMAIN disk \cup {Target(t)}
      BY <1>3, <1>9
    <2>2. Begun(disk'[Target(t)], Content[cur[t].digest]) /\ Len(disk[Target(t)]) <= Len(disk'[Target(t)])
      BY <1>9, <1>10 DEF c, old
    <2> QED
      BY <1>1, <1>3, <1>9, <2>1, <2>2, WriteGrown DEF FileInv
  <1>12. Begun(copied'[t], Content[cur[t].digest]) /\ Len(copied'[t]) <= Len(disk'[Target(t)])
    BY <1>5, <1>7, <1>9, <1>10 DEF c
  <1> QED
    BY <1>9, <1>11, <1>12

\* A step other than Close opens at most the file of its own descriptor.
LEMMA DiskStep ==
    ASSUME WellNamed, FileInv, NEW t \in Thread, Step(t), ~ Close(t)
    PROVE  /\ Grown
           /\ tmpFiles \subseteq tmpFiles'
           /\ \A p \in DOMAIN disk' \ DOMAIN disk :
                 /\ p = Target(t) /\ cur[t].name # NoName
                 /\ cur[t].name \notin exists
                 /\ pc[t] = "push" \/ cur[t].unpack
                 /\ cur[t].unpack => p \in tmpFiles'
  <1>1. FilesBegun /\ cur[t] \in Known
    BY DEF FileInv, CallInv, PlaceInv
  <1>2. CASE OpenNamed(t)
    <2>1. CASE UNCHANGED <<disk, tmpFiles>>
      BY <1>1, <2>1, SameGrown
    <2>2. CASE ~ UNCHANGED <<disk, tmpFiles>>
      <3>1. /\ disk' = Opened(disk, Target(t)) /\ tmpFiles' = Registered(t)
            /\ cur[t].name # NoName /\ pc[t] = "push" /\ cur[t].name \notin exists
        BY <1>2, <2>2 DEF OpenNamed
      <3>2. Grown /\ DOMAIN disk' = DOMAIN disk \cup {Target(t)}
        BY <1>1, <3>1, OpenGrown
      <3> QED
        BY <3>1, <3>2 DEF Registered
    <2> QED
      BY <2>1, <2>2
  <1>3. CASE BeginAdd(t)
    <2>1. CASE UNCHANGED <<disk, tmpFiles>>
      BY <1>1, <2>1, SameGrown
    <2>2. CASE ~ UNCHANGED <<disk, tmpFiles>>
      <3>1. /\ disk' = Opened(disk, Target(t)) /\ tmpFiles' = Registered(t)
            /\ cur[t].unpack \/ Target(t) \in DOMAIN disk
            /\ cur[t].name \notin exists
        BY <1>3, <2>2 DEF BeginAdd
      <3>2. cur[t].name # NoName
        <4>1. cur[t] = Head(call[t].descs) /\ call[t].kind = "add" /\ call \in Programs
          BY <1>3 DEF BeginAdd, FileInv, CallInv, PlaceInv
        <4> QED
          BY <4>1, FileStoreAssumption
      <3>3. Grown /\ DOMAIN disk' = DOMAIN disk \cup {Target(t)}
        BY <1>1, <3>1, <3>2, OpenGrown
      <3> QED
        BY <3>1, <3>2, <3>3 DEF Registered
    <2> QED
      BY <2>1, <2>2
  <1>4. CASE CopyBlock(t)
    BY <1>4, CopyGrown DEF CopyBlock
  <1>5. CASE Add(t)
    <2>1. CASE cur[t].unpack
      <3>1. pc[t] = "add" /\ tmpFiles' = tmpFiles /\ disk' = Put(disk, Target(t), Content[cur[t].digest])
        BY <1>5, <2>1 DEF Add
      <3>2. Target(t) \in DOMAIN disk
        BY <3>1 DEF FileInv, CopyInv
      <3>3. /\ DOMAIN disk' = DOMAIN disk /\ disk'[Target(t)] = Content[cur[t].digest]
            /\ \A p \in DOMAIN disk \ {Target(t)} : disk'[p] = disk[p]
        BY <3>1, <3>2 DEF Put
      <3>4. cur[t].digest \in Digest /\ PathFor(Target(t), cur[t].digest)
        BY <2>1, <1>1, KnownFacts DEF Descriptor, PathFor, Target
      <3>5. /\ Begun(disk[Target(t)], Content[cur[t].digest])
            /\ Begun(Content[cur[t].digest], Content[cur[t].digest])
        BY <1>1, <3>2, <3>4, WholeBegun, ContentType DEF FilesBegun
      <3>6. Len(disk[Target(t)]) <= Len(disk'[Target(t)])
        BY <3>3, <3>5 DEF Begun
      <3>7. Grown
        BY <1>1, <3>2, <3>3, <3>4, <3>5, <3>6, WriteGrown
      <3> QED
        BY <3>1, <3>3, <3>7
    <2>2. CASE ~ cur[t].unpack
      <3>1. UNCHANGED <<disk, tmpFiles>>
        BY <1>5, <2>2 DEF Add
      <3> QED
        BY <1>1, <3>1, SameGrown
    <2> QED
      BY <2>1, <2>2
  <1>6. CASE ~ (OpenNamed(t) \/ BeginAdd(t) \/ CopyBlock(t) \/ Add(t))
    <2>1. UNCHANGED <<disk, tmpFiles>>
      <3>1. CASE BeginPush(t) \/ PushUnnamed(t) \/ SaveFile(t) \/ SetAttributes(t)
        BY <3>1 DEF BeginPush, PushUnnamed, SaveFile, SetAttributes, PushFails, store
      <3>2. CASE LoadSuccessors(t) \/ NextSuccessor(t) \/ Refetch(t) \/ LockGraph(t) \/ Index(t)
        BY <3>2 DEF LoadSuccessors, NextSuccessor, Refetch, LockGraph, Index, store
      <3>3. CASE BeginFetch(t) \/ Fetch(t)
        BY <3>3 DEF BeginFetch, Fetch, store
      <3>4. CASE AskExists(t) \/ Tag(t) \/ Resolve(t) \/ Predecessors(t)
        BY <3>4 DEF AskExists, Tag, Resolve, Predecessors, Asks
      <3> QED
        BY <1>6, <3>1, <3>2, <3>3, <3>4 DEF Step
    <2> QED
      BY <1>1, <2>1, SameGrown
  <1> QED
    BY <1>2, <1>3, <1>4, <1>5, <1>6

\* Calls of other kinds stay at their descriptor.
LEMMA CurStands ==
    ASSUME CallInv, CallInv', call' = call, NEW t \in Thread, call[t].kind # "push"
    PROVE  cur'[t] = cur[t]
  BY DEF CallInv, PlaceInv

\* What a push is at is pushed by its caller or listed by a manifest.
LEMMA CurOrigin ==
    ASSUME CallInv, NEW t \in Thread, pc[t] = "push"
    PROVE  /\ call[t].kind = "push"
           /\ cur[t] \in ToSet(call[t].descs) \/ Listed(cur[t])
  <1>1. PlaceInv(t) /\ PushInv(t)
    BY DEF CallInv, PlaceInv, PushSteps
  <1>2. CASE restore[t] = <<>>
    <2>1. /\ cur[t] = call[t].descs[Len(call[t].descs) - Len(todo[t])]
          /\ Len(call[t].descs) - Len(todo[t]) \in 1..Len(call[t].descs)
      BY <1>1, <1>2, OwnFacts DEF PushInv, Own, CallInv
    <2>2. call[t].descs \in Seq(Descriptor)
      BY FileStoreAssumption DEF CallInv
    <2> QED
      BY <1>1, <2>1, <2>2, ListFacts DEF PushInv
  <1>3. CASE restore[t] # <<>>
    BY <1>1, <1>3, FirstDuplicate DEF PushInv, PushSteps
  <1> QED
    BY <1>2, <1>3

LEMMA AddedStep ==
    ASSUME WellNamed, FileInv, CallInv', NEW t \in Thread, Step(t), ~ Close(t)
    PROVE  AddedComplete'
  <1> SUFFICES ASSUME NEW u \in Thread, call'[u].kind = "add", ~ cur'[u].unpack,
                      PathOf[cur'[u].name] \in DOMAIN disk'
               PROVE  disk'[PathOf[cur'[u].name]] = Content[cur'[u].digest]
    BY DEF AddedComplete
  <1>0. CallInv /\ call' = call
    BY StepOfOne DEF OthersStand, FileInv, CallInv
  <1>1. cur'[u] = cur[u] /\ call[u].kind = "add" /\ cur[u] \in Known /\ cur[u].name # NoName
    <2>1. cur'[u] = cur[u] /\ call[u].kind = "add" /\ cur[u] = Head(call[u].descs) /\ call \in Programs
      BY <1>0, CurStands DEF CallInv, PlaceInv
    <2> QED
      BY <1>0, <2>1, FileStoreAssumption DEF CallInv, PlaceInv
  <1>2. cur[u].name \in Name /\ cur[u].digest \in Digest
    BY <1>1, KnownName
  <1> DEFINE p == PathOf[cur[u].name]
  <1>3. CASE p \in DOMAIN disk
    <2>1. Complete(p, cur[u].digest)
      BY <1>1, <1>3 DEF FileInv, AddedComplete, Complete, PathFor
    <2>2. Complete(p, cur[u].digest)'
      BY <1>1, <1>2, <2>1, CompleteKept, DiskStep
    <2> QED
      BY <1>1, <2>2 DEF Complete
  <1>4. CASE p \notin DOMAIN disk
    <2>1. /\ p = Target(t) /\ cur[t].name # NoName
          /\ pc[t] = "push" \/ cur[t].unpack
      BY <1>1, <1>4, DiskStep
    <2>2. p \notin Temp
      BY <1>2 DEF WellNamed
    <2>3. cur[t] \in Known /\ cur[t].name \in Name /\ cur[t].digest \in Digest
      BY <1>0, <2>1, KnownName DEF CallInv, PlaceInv
    <2>4. ~ cur[t].unpack
      BY <2>1, <2>2, <2>3 DEF Target, Temp
    <2>5. cur[t].name = cur[u].name
      BY <1>2, <2>1, <2>3, <2>4 DEF WellNamed, Target
    <2>6. cur[t] = cur[u]
      BY <1>1, <2>1, <2>3, <2>5 DEF WellNamed
    <2>7. call[t].kind = "push" /\ (cur[t] \in ToSet(call[t].descs) \/ Listed(cur[t]))
      BY <1>0, <2>1, <2>4, CurOrigin
    <2>8. cur[u] = Head(call[u].descs) /\ call \in Programs
      BY <1>0, <1>1 DEF CallInv, PlaceInv
    <2>9. cur[t] \notin ToSet(call[t].descs)
      BY <1>1, <2>5, <2>7, <2>8, FileStoreAssumption
    <2>10. Listed(Head(call[u].descs)) /\ ~ Head(call[u].descs).unpack
      BY <1>1, <2>6, <2>7, <2>8, <2>9
    <2>11. PathOf[Head(call[u].descs).name] \in DOMAIN OldFiles
      BY <1>1, <2>8, <2>10 DEF WellNamed
    <2> QED
      BY <1>4, <2>8, <2>11 DEF FileInv
  <1> QED
    BY <1>3, <1>4

-----------------------------------------------------------------------------
(* What is mapped is complete.                                             *)

\* Only a push that is verified and an Add enter a digest.
LEMMA MapStep ==
    ASSUME CallInv, NEW t \in Thread, Step(t)
    PROVE  \/ digestToPath' = digestToPath
           \/ digestToPath' = Mapped(t) /\ SaveFile(t) /\ Verified(t)
           \/ digestToPath' = Mapped(t) /\ Add(t)
  <1>1. CASE BeginPush(t) \/ PushUnnamed(t) \/ OpenNamed(t) \/ CopyBlock(t) \/ SetAttributes(t)
    BY <1>1 DEF BeginPush, PushUnnamed, OpenNamed, CopyBlock, SetAttributes, PushFails, store
  <1>2. CASE LoadSuccessors(t) \/ NextSuccessor(t) \/ Refetch(t) \/ LockGraph(t) \/ Index(t)
    BY <1>2 DEF LoadSuccessors, NextSuccessor, Refetch, LockGraph, Index, store
  <1>3. CASE BeginAdd(t) \/ BeginFetch(t) \/ Fetch(t) \/ Close(t)
    BY <1>3 DEF BeginAdd, BeginFetch, Fetch, Close, store
  <1>4. CASE AskExists(t) \/ Tag(t) \/ Resolve(t) \/ Predecessors(t)
    BY <1>4 DEF AskExists, Tag, Resolve, Predecessors, Asks
  <1>5. CASE SaveFile(t)
    BY <1>5 DEF SaveFile, PushFails
  <1>6. CASE Add(t)
    BY <1>6 DEF Add
  <1> QED
    BY <1>1, <1>2, <1>3, <1>4, <1>5, <1>6 DEF Step

\* A closed store refuses what is called.
LEMMA ClosedStep ==
    ASSUME FileInv, NEW t \in Thread, Step(t), ~ Close(t)
    PROVE  /\ closed' = closed
           /\ closed => disk' = disk /\ pc'[t] = "done"
  <1> USE DEF FileInv, CallInv, Functions, TempsKnown, Goto, Return, Busy, Pushing
  <1>1. CASE BeginPush(t) \/ PushUnnamed(t) \/ OpenNamed(t) \/ CopyBlock(t)
    BY <1>1 DEF BeginPush, PushUnnamed, OpenNamed, CopyBlock, store, meta
  <1>2. CASE SaveFile(t) \/ SetAttributes(t)
    BY <1>2 DEF SaveFile, SetAttributes, PushFails, store, meta
  <1>3. CASE LoadSuccessors(t) \/ NextSuccessor(t) \/ Refetch(t) \/ LockGraph(t) \/ Index(t)
    BY <1>3 DEF LoadSuccessors, NextSuccessor, Refetch, LockGraph, Index, store, meta
  <1>4. CASE BeginAdd(t) \/ Add(t)
    BY <1>4 DEF BeginAdd, Add, store, meta
  <1>5. CASE BeginFetch(t) \/ Fetch(t)
    BY <1>5 DEF BeginFetch, Fetch, store, meta
  <1>6. CASE AskExists(t) \/ Tag(t) \/ Resolve(t) \/ Predecessors(t)
    BY <1>6 DEF AskExists, Tag, Resolve, Predecessors, Asks
  <1> QED
    BY <1>1, <1>2, <1>3, <1>4, <1>5, <1>6 DEF Step

\* The file that a verified push or an Add enters is the blob.
LEMMA EnteredComplete ==
    ASSUME WellNamed, FileInv, NEW t \in Thread, (SaveFile(t) /\ Verified(t)) \/ Add(t)
    PROVE  cur[t].digest \in Digest /\ Complete(Target(t), cur[t].digest)'
  <1>0. cur[t] \in Known /\ cur'[t] = cur[t] /\ cur[t].digest \in Digest
    BY KnownFacts DEF FileInv, CallInv, PlaceInv, SaveFile, PushFails, Add, Descriptor
  <1>1. cur[t].name # NoName
    <2>1. CASE SaveFile(t)
      BY <2>1 DEF SaveFile, FileInv, CallInv, PlaceInv, PushInv, PushSteps
    <2>2. CASE Add(t)
      <3>1. cur[t] = Head(call[t].descs) /\ call[t].kind = "add" /\ call \in Programs
        BY <2>2 DEF Add, FileInv, CallInv, PlaceInv
      <3> QED
        BY <3>1, FileStoreAssumption
    <2> QED
      BY <2>1, <2>2
  <1>2. PathFor(Target(t), cur[t].digest)
    BY <1>0, <1>1, TargetPath
  <1>3. Target(t)' = Target(t)
    BY <1>0 DEF Target
  <1>4. CASE SaveFile(t) /\ Verified(t)
    <2>1. /\ pc[t] = "copy" /\ disk' = disk /\ copied[t] = Content[cur[t].digest]
      BY <1>4 DEF SaveFile, PushFails, Verified
    <2>2. /\ Target(t) \in DOMAIN disk /\ Len(copied[t]) <= Len(disk[Target(t)])
          /\ Begun(disk[Target(t)], Content[cur[t].digest])
      BY <1>0, <1>2, <2>1 DEF FileInv, CopyInv, FilesBegun
    <2>3. disk[Target(t)] = Content[cur[t].digest]
      BY <1>0, <2>1, <2>2, Whole, ContentType
    <2> QED
      BY <1>0, <1>2, <1>3, <2>1, <2>2, <2>3 DEF Complete
  <1>5. CASE Add(t)
    <2>1. pc[t] = "add" /\ Target(t) \in DOMAIN disk /\ call[t].kind = "add"
      BY <1>5 DEF Add, FileInv, CallInv, PlaceInv, CopyInv
    <2>2. CASE cur[t].unpack
      BY <1>0, <1>2, <1>3, <1>5, <2>2 DEF Add, Put, Complete
    <2>3. CASE ~ cur[t].unpack
      <3>1. disk' = disk /\ Target(t) = PathOf[cur[t].name]
        BY <1>5, <2>3 DEF Add, Target
      <3>2. disk[Target(t)] = Content[cur[t].digest]
        BY <2>1, <2>3, <3>1 DEF FileInv, AddedComplete
      <3> QED
        BY <1>0, <1>2, <1>3, <2>1, <3>1, <3>2 DEF Complete
    <2> QED
      BY <2>2, <2>3
  <1> QED
    BY <1>0, <1>4, <1>5

LEMMA MappedStep ==
    ASSUME WellNamed, FileInv, NEW t \in Thread, Step(t), ~ Close(t)
    PROVE  MappedComplete' /\ DOMAIN digestToPath \subseteq DOMAIN digestToPath'
  <1>1. Grown /\ MappedComplete /\ CallInv
    BY DiskStep DEF FileInv
  <1>2. closed' = closed /\ (closed => disk' = disk)
    BY ClosedStep
  <1>3. DOMAIN digestToPath \subseteq Digest
    BY <1>1 DEF CallInv, StoreTypes
  <1>4. ASSUME NEW d \in DOMAIN digestToPath, NEW p, p = digestToPath[d]
        PROVE  /\ PathFor(p, d)
               /\ p \in DOMAIN disk' => disk'[p] = Content[d]
               /\ ~ closed' => p \in DOMAIN disk'
    <2>1. PathFor(p, d) /\ d \in Digest
      BY <1>1, <1>3, <1>4 DEF MappedComplete
    <2>2. CASE p \in DOMAIN disk
      <3>1. Complete(p, d)
        BY <1>1, <1>4, <2>1, <2>2 DEF MappedComplete, Complete
      <3>2. Complete(p, d)'
        BY <1>1, <2>1, <3>1, CompleteKept
      <3> QED
        BY <2>1, <3>2 DEF Complete
    <2>3. CASE p \notin DOMAIN disk
      BY <1>1, <1>2, <1>4, <2>1, <2>3 DEF MappedComplete
    <2> QED
      BY <2>2, <2>3
  <1>5. CASE digestToPath' = digestToPath
    BY <1>4, <1>5 DEF MappedComplete
  <1>6. CASE digestToPath' = Mapped(t) /\ ((SaveFile(t) /\ Verified(t)) \/ Add(t))
    <2>1. /\ DOMAIN digestToPath' = DOMAIN digestToPath \cup {cur[t].digest}
          /\ digestToPath'[cur[t].digest] = Target(t)
          /\ \A d \in DOMAIN digestToPath' : d # cur[t].digest => digestToPath'[d] = digestToPath[d]
      BY <1>6 DEF Mapped, Put
    <2>2. Complete(Target(t), cur[t].digest)'
      BY <1>6, EnteredComplete
    <2>3. Target(t)' = Target(t) /\ cur'[t] = cur[t]
      BY <1>6 DEF SaveFile, PushFails, Add, Target
    <2>4. /\ PathFor(Target(t), cur[t].digest) /\ Target(t) \in DOMAIN disk'
          /\ disk'[Target(t)] = Content[cur[t].digest]
      BY <2>2, <2>3 DEF Complete
    <2> QED
      BY <1>4, <2>1, <2>4 DEF MappedComplete
  <1> QED
    BY <1>1, <1>5, <1>6, MapStep

LEMMA TempsStep ==
    ASSUME WellNamed, FileInv, NEW t \in Thread, Step(t), ~ Close(t)
    PROVE  TempsKnown'
  <1>1. CallInv /\ TempsKnown /\ OthersStand(t)
    BY StepOfOne DEF FileInv, CallInv
  <1>2. ASSUME NEW p \in Temp \cap DOMAIN disk'
        PROVE  p \in tmpFiles'
    <2>1. CASE p \in DOMAIN disk
      BY <1>1, <1>2, <2>1, DiskStep DEF TempsKnown
    <2>2. CASE p \notin DOMAIN disk
      <3>1. p = Target(t) /\ cur[t].name # NoName /\ (cur[t].unpack => p \in tmpFiles')
        BY <1>2, <2>2, DiskStep
      <3>2. cur[t] \in Known
        BY <1>1 DEF CallInv, PlaceInv
      <3> QED
        BY <1>2, <3>1, <3>2, TargetTemp
    <2> QED
      BY <2>1, <2>2
  <1>3. ASSUME closed'
        PROVE  Temp \cap DOMAIN disk' = {} /\ \A u \in Thread : pc'[u] \notin Busy
    <2>1. closed /\ disk' = disk /\ pc'[t] = "done"
      BY <1>3, ClosedStep
    <2>2. "done" \notin Busy
      BY DEF Busy, Pushing
    <2> QED
      BY <1>1, <2>1, <2>2 DEF TempsKnown, OthersStand
  <1> QED
    BY <1>2, <1>3 DEF TempsKnown

-----------------------------------------------------------------------------
(* What a push has copied is in its file.                                  *)

\* A step leaves the copies of the others what they are.
LEMMA CopyKept ==
    ASSUME WellNamed, FileInv, NEW t \in Thread, Step(t), ~ Close(t), NEW u \in Thread,
           cur'[u] = cur[u], from'[u] = from[u], copied'[u] = copied[u], pc'[u] = pc[u]
    PROVE  CopyInv(u)'
  <1>1. Grown /\ CallInv /\ CopyInv(u) /\ FilesBegun /\ FilesBegun'
    BY DiskStep DEF FileInv, Grown
  <1>2. Target(u)' = Target(u) /\ cur[u] \in Known /\ cur[u].digest \in Digest
    BY <1>1, CurFacts DEF Target, CallInv, PlaceInv
  <1>3. pc[u] \in {"push", "copy"} /\ from[u] # Stream => Complete(from[u], cur[u].digest)'
    BY <1>1, <1>2, CompleteKept DEF CopyInv
  <1>4. DOMAIN digestToPath \subseteq DOMAIN digestToPath'
    BY MappedStep
  <1>5. pc[u] = "copy" => Target(u) \in DOMAIN disk' /\ Len(copied[u]) <= Len(disk'[Target(u)])
    <2> SUFFICES ASSUME pc[u] = "copy"
                 PROVE  Target(u) \in DOMAIN disk' /\ Len(copied[u]) <= Len(disk'[Target(u)])
      OBVIOUS
    <2>1. cur[u].name # NoName
      BY <1>1 DEF CallInv, PlaceInv, PushInv, PushSteps
    <2>2. PathFor(Target(u), cur[u].digest)
      BY <1>2, <2>1, TargetPath
    <2>3. /\ Target(u) \in DOMAIN disk /\ Len(copied[u]) <= Len(disk[Target(u)])
          /\ Begun(copied[u], Content[cur[u].digest])
      BY <1>1 DEF CopyInv
    <2>4. /\ Target(u) \in DOMAIN disk' /\ Len(disk[Target(u)]) <= Len(disk'[Target(u)])
          /\ disk[Target(u)] \in Seq(Block) /\ disk'[Target(u)] \in Seq(Block)
      BY <1>1, <1>2, <2>2, <2>3 DEF Grown, FilesBegun, Begun
    <2>5. Len(copied[u]) \in Nat /\ Len(disk[Target(u)]) \in Nat /\ Len(disk'[Target(u)]) \in Nat
      BY <2>3, <2>4 DEF Begun
    <2> QED
      BY <2>3, <2>4, <2>5
  <1>6. pc[u] = "add" => Target(u) \in DOMAIN disk'
    BY <1>1 DEF CopyInv, Grown
  <1> QED
    BY <1>1, <1>2, <1>3, <1>4, <1>5, <1>6 DEF CopyInv

LEMMA CopyStep ==
    ASSUME WellNamed, FileInv, NEW t \in Thread, Step(t), ~ Close(t)
    PROVE  CopyInv(t)'
  <1>1. CallInv /\ CopyInv(t) /\ FilesBegun /\ MappedComplete /\ Functions /\ pc \in [Thread -> PlacesOf]
    BY DEF FileInv, CallInv
  <1>2. cur[t] \in Known /\ cur[t].digest \in Digest /\ Grown
    BY <1>1, CurFacts, DiskStep DEF CallInv, PlaceInv
  <1> USE DEF Functions, Goto, Return
  <1>3. CASE pc'[t] \notin {"push", "copy", "attrs", "add"}
    BY <1>3 DEF CopyInv
  <1>4. CASE BeginPush(t)
    <2>1. pc'[t] \in {"push", "done"} /\ (pc'[t] = "push" => from'[t] = Stream /\ copied'[t] = <<>>)
      BY <1>1, <1>4 DEF BeginPush
    <2> QED
      BY <2>1 DEF CopyInv
  <1>5. CASE OpenNamed(t) /\ pc'[t] = "copy"
    <2>1. /\ pc[t] = "push" /\ disk' = Opened(disk, Target(t)) /\ cur[t].name # NoName
          /\ UNCHANGED <<cur, from, copied>>
      BY <1>1, <1>5 DEF OpenNamed
    <2>2. Target(t) \in DOMAIN disk' /\ Target(t)' = Target(t)
      BY <1>1, <1>2, <2>1, OpenGrown DEF Target
    <2>3. copied[t] = <<>> /\ (from[t] # Stream => Complete(from[t], cur[t].digest))
      BY <1>1, <2>1 DEF CopyInv
    <2>4. from[t] # Stream => Complete(from[t], cur[t].digest)'
      BY <1>2, <2>1, <2>3, CompleteKept
    <2>5. Begun(<<>>, Content[cur[t].digest])
      BY <1>2, WholeBegun, ContentType
    <2>6. Begun(disk'[Target(t)], Content[cur[t].digest])
      BY <1>2, <2>1, <2>2, TargetPath DEF Grown, FilesBegun
    <2>7. Len(<<>>) <= Len(disk'[Target(t)])
      BY <2>6 DEF Begun
    <2> QED
      BY <1>5, <2>1, <2>2, <2>3, <2>4, <2>5, <2>7 DEF CopyInv
  <1>6. CASE CopyBlock(t)
    <2>1. pc[t] = "copy" /\ pc'[t] = "copy" /\ UNCHANGED <<cur, from>>
      BY <1>6 DEF CopyBlock
    <2>2. Target(t)' = Target(t) /\ Target(t) \in DOMAIN disk
      BY <1>1, <2>1 DEF Target, CopyInv
    <2>3. /\ DOMAIN disk' = DOMAIN disk /\ Begun(copied'[t], Content[cur[t].digest])
          /\ Len(copied'[t]) <= Len(disk'[Target(t)])
      BY <1>6, CopyGrown
    <2>4. from[t] # Stream => Complete(from[t], cur[t].digest)'
      BY <1>1, <1>2, <2>1, CompleteKept DEF CopyInv
    <2> QED
      BY <2>1, <2>2, <2>3, <2>4 DEF CopyInv
  <1>7. CASE SaveFile(t) /\ pc'[t] = "attrs"
    <2>1. digestToPath' = Mapped(t) /\ cur' = cur
      BY <1>1, <1>7 DEF SaveFile, PushFails
    <2>2. cur'[t].digest \in DOMAIN digestToPath'
      BY <2>1 DEF Mapped, Put
    <2> QED
      BY <1>7, <2>2 DEF CopyInv
  <1>8. CASE Refetch(t) /\ pc'[t] = "push"
    <2>1. /\ Found(cur[t].digest) /\ disk' = disk /\ cur' = cur /\ copied'[t] = <<>>
          /\ from'[t] = IF cur[t].digest \in DOMAIN digestToPath THEN digestToPath[cur[t].digest]
                        ELSE Stream
      BY <1>1, <1>8 DEF Refetch, store
    <2>2. from'[t] # Stream => Complete(from'[t], cur[t].digest)
      BY <1>1, <2>1 DEF Found, OnDisk, MappedComplete, Complete
    <2> QED
      BY <1>8, <2>1, <2>2 DEF CopyInv, Complete
  <1>9. CASE BeginAdd(t) /\ pc'[t] = "add"
    <2>1. /\ disk' = Opened(disk, Target(t)) /\ cur' = cur
      BY <1>1, <1>9 DEF BeginAdd
    <2>2. Target(t)' = Target(t) /\ Target(t) \in DOMAIN disk'
      BY <2>1 DEF Target, Opened, Put
    <2> QED
      BY <1>9, <2>2 DEF CopyInv
  <1>10. CASE ~ (BeginPush(t) \/ OpenNamed(t) \/ CopyBlock(t) \/ SaveFile(t) \/ Refetch(t) \/ BeginAdd(t))
    <2>1. CASE PushUnnamed(t) \/ SetAttributes(t)
      BY <1>1, <1>3, <2>1 DEF PushUnnamed, SetAttributes, PushFails, Pushed
    <2>2. CASE LoadSuccessors(t) \/ NextSuccessor(t) \/ LockGraph(t) \/ Index(t)
      BY <1>1, <1>3, <2>2 DEF LoadSuccessors, NextSuccessor, LockGraph, Index
    <2>3. CASE Add(t) \/ BeginFetch(t) \/ Fetch(t)
      BY <1>1, <1>3, <2>3 DEF Add, BeginFetch, Fetch
    <2>4. CASE AskExists(t) \/ Tag(t) \/ Resolve(t) \/ Predecessors(t)
      BY <1>1, <1>3, <2>4 DEF AskExists, Tag, Resolve, Predecessors, Asks
    <2> QED
      BY <1>10, <2>1, <2>2, <2>3, <2>4 DEF Step
  <1>11. CASE (OpenNamed(t) \/ SaveFile(t) \/ Refetch(t) \/ BeginAdd(t)) /\ pc'[t] \in {"push", "copy", "attrs", "add"}
    BY <1>1, <1>5, <1>7, <1>8, <1>9, <1>11 DEF OpenNamed, SaveFile, PushFails, Refetch, BeginAdd
  <1> QED
    BY <1>3, <1>4, <1>6, <1>10, <1>11

-----------------------------------------------------------------------------
(* Close takes the temporary files, and only them.                         *)

LEMMA CloseStep ==
    ASSUME WellNamed, FileInv, CallInv', NEW t \in Thread, Close(t)
    PROVE  FileInv'
  <1>1. /\ FilesBegun /\ MappedComplete /\ AddedComplete /\ TempsKnown /\ CallInv
        /\ DOMAIN OldFiles \subseteq DOMAIN disk
    BY DEF FileInv
  <1>2. /\ closed' /\ UNCHANGED <<tmpFiles, digestToPath, call, cur>>
        /\ \A u \in Thread : pc'[u] \notin Busy
    BY <1>1 DEF Close, Return, Goto, Busy, Pushing, CallInv, Functions
  <1>3. /\ DOMAIN disk' \subseteq DOMAIN disk
        /\ \A p \in DOMAIN disk' : disk'[p] = disk[p]
        /\ DOMAIN disk \ Temp \subseteq DOMAIN disk'
        /\ Temp \cap DOMAIN disk' = {}
    <2>1. tmpFiles \subseteq Temp
      BY <1>1 DEF CallInv, StoreTypes, Temp
    <2>2. CASE closed
      BY <1>1, <2>2 DEF Close, TempsKnown
    <2>3. CASE ~ closed
      BY <1>1, <2>1, <2>3 DEF Close, TempsKnown, Restrict
    <2> QED
      BY <2>2, <2>3
  <1>4. FilesBegun'
    BY <1>1, <1>3 DEF FilesBegun
  <1>5. MappedComplete'
    BY <1>1, <1>2, <1>3 DEF MappedComplete
  <1>6. AddedComplete'
    BY <1>1, <1>2, <1>3 DEF AddedComplete
  <1>7. TempsKnown'
    BY <1>2, <1>3 DEF TempsKnown
  <1>8. \A u \in Thread : CopyInv(u)'
    BY <1>2 DEF CopyInv, Busy, Pushing
  <1>9. DOMAIN OldFiles \subseteq DOMAIN disk'
    BY <1>1, <1>3 DEF WellNamed
  <1> QED
    BY <1>4, <1>5, <1>6, <1>7, <1>8, <1>9 DEF FileInv

LEMMA FileInit ==
    ASSUME WellNamed, Init
    PROVE  FileInv
  <1>1. CallInv
    BY CallInit
  <1>2. FilesBegun
    <2> SUFFICES ASSUME NEW d \in Digest, NEW p \in DOMAIN OldFiles, PathFor(p, d)
                 PROVE  Begun(OldFiles[p], Content[d])
      BY DEF Init, FilesBegun
    <2>1. ASSUME NEW t \in Thread, p = <<t, d>>
          PROVE  FALSE
      BY <2>1 DEF WellNamed, Temp
    <2>2. PICK e \in Known : e.name # NoName /\ e.digest = d /\ p = PathOf[e.name]
      BY <2>1 DEF PathFor
    <2>3. OldFiles[p] = Content[d]
      BY <2>2 DEF WellNamed
    <2> QED
      BY <2>3, WholeBegun, ContentType
  <1>3. AddedComplete
    <2> SUFFICES ASSUME NEW t \in Thread, call[t].kind = "add",
                        PathOf[cur[t].name] \in DOMAIN OldFiles
                 PROVE  OldFiles[PathOf[cur[t].name]] = Content[cur[t].digest]
      BY DEF Init, AddedComplete
    <2>1. cur[t] \in Known /\ cur[t] = Head(call[t].descs) /\ call \in Programs
      BY <1>1 DEF CallInv, PlaceInv
    <2>2. cur[t].name # NoName
      BY <2>1, FileStoreAssumption
    <2> QED
      BY <2>1, <2>2 DEF WellNamed
  <1>4. MappedComplete /\ TempsKnown /\ DOMAIN OldFiles \subseteq DOMAIN disk
    BY DEF Init, MappedComplete, TempsKnown, WellNamed
  <1>5. \A t \in Thread : CopyInv(t)
    BY DEF Init, CopyInv
  <1> QED
    BY <1>1, <1>2, <1>3, <1>4, <1>5 DEF FileInv

LEMMA FileStep ==
    ASSUME WellNamed, FileInv, [Next]_vars
    PROVE  FileInv'
  <1>1. CallInv'
    BY CallStep DEF FileInv
  <1>2. ASSUME NEW t \in Thread, Step(t), ~ Close(t)
        PROVE  FileInv'
    <2>1. Grown /\ OthersStand(t)
      BY <1>2, DiskStep, StepOfOne DEF FileInv, CallInv
    <2>2. \A u \in Thread : CopyInv(u)'
      BY <1>2, <2>1, CopyStep, CopyKept DEF OthersStand
    <2>3. FilesBegun' /\ DOMAIN OldFiles \subseteq DOMAIN disk'
      BY <2>1 DEF Grown, FileInv
    <2> QED
      BY <1>1, <1>2, <2>2, <2>3, MappedStep, AddedStep, TempsStep DEF FileInv
  <1>3. CASE UNCHANGED vars
    <2>1. UNCHANGED <<disk, tmpFiles, digestToPath, closed, call, cur, from, copied, pc>>
      BY <1>3 DEF vars, store, meta, local
    <2> QED
      BY <1>1, <2>1 DEF FileInv, FilesBegun, MappedComplete, AddedComplete, TempsKnown, CopyInv,
                        Complete, Target
  <1> QED
    BY <1>1, <1>2, <1>3, CloseStep DEF Next, Quiet

\* What the files and the map of digests hold (FileInv), for every number of
\* goroutines and every collection whose names are used as WellNamed says.
THEOREM FilesKeepTheirBlobs ==
    ASSUME WellNamed
    PROVE  Spec => []FileInv
  <1>1. Init => FileInv
    BY FileInit
  <1>2. FileInv /\ [Next]_vars => FileInv'
    BY FileStep
  <1> QED
    BY <1>1, <1>2, PTL DEF Spec

\* The map of digests is a content-addressed store of the files: what it gives
\* is complete, also beside other pushes and after failed ones (file.go:471-476).
THEOREM MappedFilesAreComplete ==
    ASSUME WellNamed
    PROVE  Spec => []StoredComplete
  <1>1. FileInv => StoredComplete
    BY DEF FileInv, MappedComplete, StoredComplete, OnDisk
  <1> QED
    BY <1>1, FilesKeepTheirBlobs, PTL

\* After Close no temporary file is left, whatever has failed (file.go:154-172).
THEOREM CloseRemovesTemps ==
    ASSUME WellNamed
    PROVE  Spec => []NoTempAfterClose
  <1>1. FileInv => NoTempAfterClose
    BY DEF FileInv, TempsKnown, NoTempAfterClose, Temp
  <1> QED
    BY <1>1, FilesKeepTheirBlobs, PTL

-----------------------------------------------------------------------------
(* What a call has stored.                                                 *)

\* Where a push is in the caller's list.
At(t) == Len(call[t].descs) - Len(todo[t])

\* The descriptor at that place is still being pushed.
AtOwn(t) == pc[t] \in {"push", "copy", "attrs"} /\ restore[t] = <<>>

Succeeds(t) == pc[t] = "done" => result[t].status = "ok"

\* What is behind a push is in the store.
StoredInv(t) ==
    /\ call[t].kind = "push" /\ Succeeds(t) =>
          \A i \in 1..At(t) : (AtOwn(t) => i # At(t)) => Exists(call[t].descs[i])
    /\ call[t].kind \in {"add", "tag"} /\ result[t].status = "ok" => Exists(cur[t])

HeldInv == FileInv /\ \A t \in Thread : StoredInv(t)

LEMMA StoreGrows ==
    ASSUME CallInv, NEW t \in Thread, Step(t)
    PROVE  /\ exists \subseteq exists' /\ fallback \subseteq fallback'
           /\ DOMAIN digestToPath \subseteq DOMAIN digestToPath'
           /\ pc[t] # "done"
  <1>1. DOMAIN digestToPath \subseteq DOMAIN digestToPath'
    BY MapStep DEF Mapped, Put
  <1>2. CASE BeginPush(t) \/ PushUnnamed(t) \/ OpenNamed(t) \/ CopyBlock(t)
    BY <1>1, <1>2 DEF BeginPush, PushUnnamed, OpenNamed, CopyBlock, store
  <1>3. CASE SaveFile(t) \/ SetAttributes(t)
    BY <1>1, <1>3 DEF SaveFile, SetAttributes, PushFails
  <1>4. CASE LoadSuccessors(t) \/ NextSuccessor(t) \/ Refetch(t) \/ LockGraph(t) \/ Index(t)
    BY <1>1, <1>4 DEF LoadSuccessors, NextSuccessor, Refetch, LockGraph, Index, store
  <1>5. CASE BeginAdd(t) \/ Add(t) \/ BeginFetch(t) \/ Fetch(t) \/ Close(t)
    BY <1>1, <1>5 DEF BeginAdd, Add, BeginFetch, Fetch, Close, store
  <1>6. CASE AskExists(t) \/ Tag(t) \/ Resolve(t) \/ Predecessors(t)
    BY <1>1, <1>6 DEF AskExists, Tag, Resolve, Predecessors, Asks
  <1> QED
    BY <1>2, <1>3, <1>4, <1>5, <1>6 DEF Step

LEMMA ExistsKept ==
    ASSUME CallInv, NEW t \in Thread, Step(t), NEW d, Exists(d)
    PROVE  Exists(d)'
  BY StoreGrows DEF Exists, Named

\* What exists is fetched, until the store is closed.
LEMMA ExistsFound ==
    ASSUME FileInv, ~ closed, NEW d, Exists(d)
    PROVE  Found(d.digest) /\ Data(d.digest) = Content[d.digest]
  <1>1. CASE d.digest \in DOMAIN digestToPath
    BY <1>1 DEF FileInv, MappedComplete, Found, OnDisk, Data
  <1>2. CASE d.digest \notin DOMAIN digestToPath
    BY <1>2 DEF Exists, Found, Data
  <1> QED
    BY <1>1, <1>2

\* A push that stays at its place, or is done with it.
LEMMA StoredMoves ==
    ASSUME FileInv, NEW t \in Thread, Step(t), StoredInv(t), call' = call, todo'[t] = todo[t],
           call[t].kind = "push",
           Succeeds(t)' /\ AtOwn(t) => AtOwn(t)' \/ Exists(Own(t))'
    PROVE  StoredInv(t)'
  <1>1. CallInv /\ Succeeds(t)
    BY StoreGrows DEF FileInv, Succeeds
  <1>2. At(t)' = At(t) /\ Own(t)' = Own(t) /\ Own(t) = call[t].descs[At(t)]
    BY DEF At, Own
  <1>3. ASSUME Succeeds(t)', NEW i \in 1..At(t), AtOwn(t)' => i # At(t)
        PROVE  Exists(call[t].descs[i])'
    <2>1. CASE Exists(call[t].descs[i])
      BY <1>1, <2>1, ExistsKept
    <2>2. CASE ~ Exists(call[t].descs[i])
      <3>1. AtOwn(t) /\ i = At(t)
        BY <1>1, <2>2 DEF StoredInv
      <3>2. Exists(Own(t))'
        BY <1>3, <3>1
      <3> QED
        BY <1>2, <3>1, <3>2
    <2> QED
      BY <2>1, <2>2
  <1> QED
    BY <1>2, <1>3 DEF StoredInv

LEMMA PushStored ==
    ASSUME FileInv, NEW t \in Thread, Step(t), StoredInv(t), call[t].kind = "push"
    PROVE  StoredInv(t)'
  <1>1. CallInv /\ Functions /\ PlaceInv(t) /\ call' = call /\ pc \in [Thread -> PlacesOf]
    BY StepOfOne DEF FileInv, CallInv, OthersStand
  <1> USE DEF Functions, Goto, Return
  <1>2. CASE BeginPush(t)
    <2>1. CASE closed
      BY <1>1, <1>2, <2>1 DEF BeginPush, StoredInv, Succeeds
    <2>2. CASE ~ closed
      <3>1. /\ pc[t] = "start" /\ todo'[t] = Tail(todo[t]) /\ pc'[t] = "push"
            /\ restore'[t] = <<>> /\ todo[t] # <<>>
        BY <1>1, <1>2, <2>2 DEF BeginPush, PlaceInv
      <3>2. Len(todo'[t]) = Len(todo[t]) - 1 /\ Len(todo[t]) \in Nat \ {0} /\ Len(call[t].descs) \in Nat
        BY <1>1, <3>1, SuffixTail, FileStoreAssumption DEF PlaceInv, CallInv
      <3>3. At(t) \in Int /\ At(t)' = At(t) + 1
        BY <1>1, <3>2 DEF At
      <3>4. ASSUME NEW i \in 1..(At(t) + 1), i # At(t) + 1
            PROVE  Exists(call[t].descs[i])'
        <4>1. i \in 1..At(t) /\ ~ AtOwn(t) /\ Succeeds(t)
          BY <3>1, <3>3, <3>4 DEF AtOwn, Succeeds
        <4>2. Exists(call[t].descs[i])
          BY <4>1 DEF StoredInv
        <4> QED
          BY <1>1, <4>2, ExistsKept
      <3> QED
        BY <1>1, <3>1, <3>3, <3>4 DEF StoredInv, AtOwn
    <2> QED
      BY <2>1, <2>2
  <1>3. CASE PushUnnamed(t)
    <2>1. pc[t] = "push" /\ todo' = todo /\ cur' = cur /\ cur[t].name = NoName
      BY <1>3 DEF PushUnnamed
    <2>2. cur[t] = Own(t)
      BY <1>1, <2>1 DEF PlaceInv, PushInv, PushSteps
    <2>3. Succeeds(t)' => Exists(Own(t))'
      BY <1>1, <1>3, <2>1, <2>2 DEF PushUnnamed, Succeeds, Exists, Own
    <2> QED
      BY <1>1, <2>1, <2>3, StoredMoves
  <1>4. CASE OpenNamed(t) \/ CopyBlock(t) \/ SaveFile(t)
    <2>1. todo' = todo /\ (Succeeds(t)' /\ AtOwn(t) => AtOwn(t)')
      BY <1>1, <1>4 DEF OpenNamed, CopyBlock, SaveFile, PushFails, Succeeds, AtOwn
    <2> QED
      BY <1>1, <2>1, StoredMoves
  <1>5. CASE SetAttributes(t)
    <2>1. pc[t] = "attrs" /\ todo' = todo /\ cur' = cur /\ digestToPath' = digestToPath
      BY <1>5 DEF SetAttributes, PushFails
    <2>2. cur[t].digest \in DOMAIN digestToPath
      BY <2>1 DEF FileInv, CopyInv
    <2>3. AtOwn(t) => cur[t] = Own(t)
      BY <1>1, <2>1 DEF PlaceInv, PushInv, PushSteps, AtOwn
    <2>4. Succeeds(t)' => exists' = exists \cup {cur[t].name}
      BY <1>1, <1>5 DEF SetAttributes, PushFails, Succeeds
    <2>5. Succeeds(t)' /\ AtOwn(t) => Exists(Own(t))'
      BY <1>1, <2>1, <2>2, <2>3, <2>4 DEF Exists, Named, Own
    <2> QED
      BY <1>1, <2>1, <2>5, StoredMoves
  <1>6. CASE LoadSuccessors(t) \/ NextSuccessor(t) \/ Refetch(t) \/ LockGraph(t) \/ Index(t)
    <2>1. todo' = todo /\ ~ AtOwn(t)
      BY <1>6 DEF LoadSuccessors, NextSuccessor, Refetch, LockGraph, Index, AtOwn
    <2> QED
      BY <1>1, <2>1, StoredMoves
  <1>7. CASE BeginAdd(t) \/ Add(t) \/ BeginFetch(t) \/ Fetch(t) \/ Close(t)
    BY <1>1, <1>7 DEF BeginAdd, Add, BeginFetch, Fetch, Close, PlaceInv
  <1>8. CASE AskExists(t) \/ Tag(t) \/ Resolve(t) \/ Predecessors(t)
    BY <1>8 DEF AskExists, Tag, Resolve, Predecessors, Asks
  <1> QED
    BY <1>2, <1>3, <1>4, <1>5, <1>6, <1>7, <1>8 DEF Step

\* An Add has stored what it returns, and Tag has asked for it.
LEMMA OtherStored ==
    ASSUME FileInv, NEW t \in Thread, Step(t), call[t].kind \in {"add", "tag"}
    PROVE  StoredInv(t)'
  <1>1. CallInv /\ Functions /\ PlaceInv(t) /\ call' = call /\ result[t].status # "ok"
    BY StepOfOne, StoreGrows DEF FileInv, CallInv, OthersStand, PlaceInv
  <1> SUFFICES ASSUME result'[t].status = "ok"
               PROVE  Exists(cur[t])'
    BY <1>1 DEF StoredInv
  <1> USE DEF Functions, Goto, Return
  <1>2. CASE Add(t)
    <2>1. /\ exists' = exists \cup {cur[t].name} /\ digestToPath' = Mapped(t)
          /\ cur' = cur
      BY <1>1, <1>2 DEF Add
    <2> QED
      BY <2>1 DEF Exists, Named, Mapped, Put
  <1>3. CASE Tag(t)
    <2>1. Exists(cur[t]) /\ UNCHANGED <<cur, exists, digestToPath, fallback>>
      BY <1>1, <1>3 DEF Tag, Asks, Taggable
    <2> QED
      BY <2>1 DEF Exists, Named
  <1>4. CASE BeginAdd(t)
    BY <1>1, <1>4 DEF BeginAdd
  <1>5. CASE ~ (Add(t) \/ Tag(t) \/ BeginAdd(t))
    <2>1. pc[t] \in {"start", "add", "read", "done"} /\ (pc[t] = "read" => call[t].kind = "fetch")
      BY <1>1 DEF PlaceInv
    <2>2. CASE BeginPush(t) \/ PushUnnamed(t) \/ OpenNamed(t) \/ CopyBlock(t) \/ SaveFile(t)
                  \/ SetAttributes(t) \/ LoadSuccessors(t) \/ NextSuccessor(t) \/ Refetch(t)
                  \/ LockGraph(t) \/ Index(t)
      BY <2>1, <2>2 DEF BeginPush, PushUnnamed, OpenNamed, CopyBlock, SaveFile, SetAttributes,
                        LoadSuccessors, NextSuccessor, Refetch, LockGraph, Index
    <2>3. CASE BeginFetch(t) \/ Fetch(t) \/ AskExists(t) \/ Resolve(t) \/ Predecessors(t) \/ Close(t)
      BY <2>1, <2>3 DEF BeginFetch, Fetch, AskExists, Resolve, Predecessors, Asks, Close
    <2> QED
      BY <1>5, <2>2, <2>3 DEF Step
  <1> QED
    BY <1>2, <1>3, <1>4, <1>5

LEMMA HeldInit ==
    ASSUME WellNamed, Init
    PROVE  HeldInv
  <1>1. FileInv
    BY FileInit
  <1>2. ASSUME NEW t \in Thread
        PROVE  StoredInv(t)
    <2>1. Len(call[t].descs) \in Nat /\ todo[t] = call[t].descs /\ result[t].status # "ok"
      BY FileStoreAssumption DEF Init
    <2>2. At(t) = 0
      BY <2>1 DEF At
    <2> QED
      BY <2>1, <2>2 DEF StoredInv
  <1> QED
    BY <1>1, <1>2 DEF HeldInv

LEMMA HeldStep ==
    ASSUME WellNamed, HeldInv, [Next]_vars
    PROVE  HeldInv'
  <1>1. FileInv /\ FileInv'
    BY FileStep DEF HeldInv
  <1>2. ASSUME NEW t \in Thread, Step(t), NEW u \in Thread
        PROVE  StoredInv(u)'
    <2>1. OthersStand(t) /\ CallInv /\ StoredInv(u)
      BY <1>1, <1>2, StepOfOne DEF FileInv, CallInv, HeldInv
    <2>2. CASE u = t
      BY <1>1, <1>2, <2>1, <2>2, PushStored, OtherStored DEF StoredInv, OthersStand
    <2>3. CASE u # t
      <3>1. /\ call' = call /\ todo'[u] = todo[u] /\ cur'[u] = cur[u] /\ restore'[u] = restore[u]
            /\ pc'[u] = pc[u] /\ result'[u] = result[u]
        BY <2>1, <2>3 DEF OthersStand
      <3>2. /\ At(u)' = At(u) /\ (AtOwn(u)' <=> AtOwn(u)) /\ (Succeeds(u)' <=> Succeeds(u))
        BY <3>1 DEF At, AtOwn, Succeeds
      <3>3. \A i \in 1..At(u) : Exists(call[u].descs[i]) => Exists(call[u].descs[i])'
        BY <1>2, <2>1, <3>1, ExistsKept
      <3>4. Exists(cur[u]) => Exists(cur[u])'
        BY <1>2, <2>1, <3>1, StoreGrows DEF Exists, Named
      <3> QED
        BY <2>1, <3>1, <3>2, <3>3, <3>4 DEF StoredInv
    <2> QED
      BY <2>2, <2>3
  <1>3. CASE UNCHANGED vars
    <2>1. UNCHANGED <<exists, digestToPath, fallback, call, todo, cur, restore, pc, result>>
      BY <1>3 DEF vars, store, local
    <2> QED
      BY <1>1, <2>1 DEF HeldInv, StoredInv, At, AtOwn, Succeeds, Exists, Named
  <1> QED
    BY <1>1, <1>2, <1>3 DEF Next, Quiet, HeldInv

LEMMA HeldInvariance ==
    ASSUME WellNamed
    PROVE  Spec => []HeldInv
  <1>1. Init => HeldInv
    BY HeldInit
  <1>2. HeldInv /\ [Next]_vars => HeldInv'
    BY HeldStep
  <1> QED
    BY <1>1, <1>2, PTL DEF Spec

\* Every descriptor of a call that has succeeded is in the store.
LEMMA AllStored ==
    ASSUME HeldInv, NEW t \in Thread, call[t].kind \in {"push", "add", "tag"},
           result[t].status = "ok", NEW d \in ToSet(call[t].descs)
    PROVE  Exists(d)
  <1>1. PlaceInv(t) /\ pc[t] = "done" /\ StoredInv(t) /\ call[t].descs \in Seq(Descriptor)
    BY FileStoreAssumption DEF HeldInv, FileInv, CallInv, PlaceInv
  <1>2. PICK i \in 1..Len(call[t].descs) : call[t].descs[i] = d
    BY <1>1, ListFacts
  <1>3. CASE call[t].kind = "push"
    <2>1. todo[t] = <<>> /\ Len(call[t].descs) \in Nat
      BY <1>1, <1>3 DEF PlaceInv
    <2>2. At(t) = Len(call[t].descs)
      BY <2>1 DEF At
    <2> QED
      BY <1>1, <1>2, <1>3, <2>2 DEF StoredInv, Succeeds, AtOwn
  <1>4. CASE call[t].kind # "push"
    <2>1. Len(call[t].descs) = 1 /\ cur[t] = Head(call[t].descs)
      BY <1>1, <1>4, FileStoreAssumption DEF HeldInv, FileInv, CallInv, PlaceInv
    <2>2. d = cur[t]
      BY <1>1, <1>2, <2>1
    <2> QED
      BY <1>1, <1>4, <2>2 DEF StoredInv
  <1> QED
    BY <1>3, <1>4

\* What a successful push has stored, an Add has added or a Tag has found is
\* fetched by its name and by its digest until Close, whatever other calls do
\* to the same names and digests (file.go:175-204 and 241-287).
THEOREM SuccessIsFetchable ==
    ASSUME WellNamed
    PROVE  Spec => []PushedFetchable
  <1>1. HeldInv => PushedFetchable
    <2> SUFFICES ASSUME HeldInv, ~ closed, NEW t \in Thread, call[t].kind \in {"push", "add", "tag"},
                        result[t].status = "ok", NEW d \in ToSet(call[t].descs)
                 PROVE  /\ d.name # NoName => Named(d)
                        /\ Found(d.digest) /\ Data(d.digest) = Content[d.digest]
      BY DEF PushedFetchable, Fetchable
    <2>1. Exists(d) /\ FileInv
      BY AllStored DEF HeldInv
    <2> QED
      BY <2>1, ExistsFound DEF Exists
  <1> QED
    BY <1>1, HeldInvariance, PTL

-----------------------------------------------------------------------------
(* What a push has restored.                                               *)

\* The i-th descriptor of a push makes its k-th successor due when what is
\* before it holds the content.
Due(t, i, s) == s.name # NoName /\ \E j \in 1..(i - 1) : call[t].descs[j].digest = s.digest

ListOf(t, i) == Successors[call[t].descs[i].digest]

Restoring(t) ==
    pc[t] \in {"restore", "refetch", "index"} \/ (pc[t] \in {"push", "copy", "attrs"} /\ restore[t] # <<>>)

RestoredInv(t) ==
    call[t].kind = "push" /\ Succeeds(t) =>
        /\ \A i \in 1..At(t) : (pc[t] \notin {"start", "done"} => i # At(t)) =>
              \A k \in 1..Len(ListOf(t, i)) :
                 Due(t, i, ListOf(t, i)[k]) => ListOf(t, i)[k].name \in exists
        /\ Restoring(t) =>
              \A k \in 1..(Len(ListOf(t, At(t))) - Len(restore[t])) :
                 Due(t, At(t), ListOf(t, At(t))[k]) => ListOf(t, At(t))[k].name \in exists

RestoreInv == HeldInv /\ \A t \in Thread : RestoredInv(t)

\* A push whose remaining duplicates are the same, or that loads them.
LEMMA RestoredMoves ==
    ASSUME CallInv, NEW t \in Thread, Step(t), RestoredInv(t), call' = call, todo'[t] = todo[t],
           call[t].kind = "push",
           Succeeds(t)' => pc'[t] \notin {"start", "done"},
           Succeeds(t)' /\ Restoring(t)' =>
              \A k \in 1..(Len(ListOf(t, At(t))) - Len(restore'[t])) :
                 Due(t, At(t), ListOf(t, At(t))[k]) => ListOf(t, At(t))[k].name \in exists'
    PROVE  RestoredInv(t)'
  <1>1. Succeeds(t) /\ exists \subseteq exists'
    BY StoreGrows DEF Succeeds
  <1>2. /\ At(t)' = At(t) /\ \A i : ListOf(t, i)' = ListOf(t, i)
        /\ \A i, s : Due(t, i, s)' <=> Due(t, i, s)
    BY DEF At, ListOf, Due
  <1>3. ASSUME Succeeds(t)', NEW i \in 1..At(t), pc'[t] \notin {"start", "done"} => i # At(t),
               NEW k \in 1..Len(ListOf(t, i)), Due(t, i, ListOf(t, i)[k])
        PROVE  ListOf(t, i)[k].name \in exists'
    <2>1. i # At(t)
      BY <1>3
    <2> QED
      BY <1>1, <1>3, <2>1 DEF RestoredInv
  <1>4. (Succeeds(t) /\ Restoring(t))' =>
           \A k \in 1..(Len(ListOf(t, At(t))) - Len(restore'[t])) :
              Due(t, At(t), ListOf(t, At(t))[k]) => ListOf(t, At(t))[k].name \in exists'
    OBVIOUS
  <1> QED
    BY <1>2, <1>3, <1>4 DEF RestoredInv

LEMMA RestoredSame ==
    ASSUME CallInv, NEW t \in Thread, Step(t), RestoredInv(t), call[t].kind = "push", Restoring(t),
           restore'[t] = restore[t]
    PROVE  \A k \in 1..(Len(ListOf(t, At(t))) - Len(restore'[t])) :
              Due(t, At(t), ListOf(t, At(t))[k]) => ListOf(t, At(t))[k].name \in exists'
  <1>1. Succeeds(t) /\ exists \subseteq exists'
    BY StoreGrows DEF Succeeds
  <1> QED
    BY <1>1 DEF RestoredInv

LEMMA NextIndex ==
    ASSUME NEW n \in Nat, NEW m \in Nat \ {0}, NEW k \in 1..(n - (m - 1))
    PROVE  k \in 1..(n - m) \/ k = n - (m - 1)
  OBVIOUS

\* The list a push restores.
LEMMA OwnList ==
    ASSUME CallInv, NEW t \in Thread, pc[t] \in PushSteps
    PROVE  /\ ListOf(t, At(t)) = Successors[Own(t).digest]
           /\ ListOf(t, At(t)) \in Seq(Descriptor) /\ Len(ListOf(t, At(t))) \in Nat
  <1>1. PlaceInv(t) /\ PushInv(t)
    BY DEF CallInv, PlaceInv
  <1>2. Successors[Own(t).digest] \in Seq(Descriptor)
    BY <1>1, OwnFacts DEF CallInv, PushInv
  <1>3. ListOf(t, At(t)) = Successors[Own(t).digest]
    BY DEF ListOf, At, Own
  <1> QED
    BY <1>2, <1>3

\* The first of the remaining duplicates is dealt with.
LEMMA RestoredNext ==
    ASSUME CallInv, NEW t \in Thread, Step(t), RestoredInv(t), call[t].kind = "push", Restoring(t),
           pc[t] \in PushSteps, restore[t] # <<>>, restore'[t] = Tail(restore[t]),
           Due(t, At(t), Head(restore[t])) => Head(restore[t]).name \in exists'
    PROVE  \A k \in 1..(Len(ListOf(t, At(t))) - Len(restore'[t])) :
              Due(t, At(t), ListOf(t, At(t))[k]) => ListOf(t, At(t))[k].name \in exists'
  <1> DEFINE l == ListOf(t, At(t))
  <1>1. Succeeds(t) /\ exists \subseteq exists'
    BY StoreGrows DEF Succeeds
  <1>2. PlaceInv(t) /\ PushInv(t)
    BY DEF CallInv, PlaceInv
  <1>3. l \in Seq(Descriptor) /\ Suffix(restore[t], l)
    BY <1>2, OwnList DEF PushInv
  <1> HIDE DEF l
  <1>4. /\ Len(Tail(restore[t])) = Len(restore[t]) - 1 /\ Len(restore[t]) \in Nat \ {0}
        /\ Head(restore[t]) = l[Len(l) - Len(Tail(restore[t]))] /\ Len(l) \in Nat
    BY <1>3, SuffixTail
  <1> SUFFICES ASSUME NEW k \in 1..(Len(l) - Len(restore'[t])), Due(t, At(t), l[k])
               PROVE  l[k].name \in exists'
    BY DEF l
  <1>5. CASE k = Len(l) - Len(Tail(restore[t]))
    BY <1>4, <1>5
  <1>6. CASE k # Len(l) - Len(Tail(restore[t]))
    <2>1. k \in 1..(Len(l) - Len(restore[t]))
      BY <1>4, <1>6, NextIndex
    <2> QED
      BY <1>1, <2>1 DEF RestoredInv, l
  <1> QED
    BY <1>5, <1>6

\* What an earlier descriptor of the push has stored is found again.
LEMMA DueFound ==
    ASSUME HeldInv, NEW t \in Thread, pc[t] \in PushSteps, NEW s, Due(t, At(t), s)
    PROVE  Found(s.digest)
  <1>1. /\ PlaceInv(t) /\ PushInv(t) /\ StoredInv(t) /\ FileInv /\ CallInv
    BY DEF HeldInv, FileInv, CallInv, PlaceInv
  <1>2. ~ closed
    BY <1>1 DEF FileInv, TempsKnown, Busy, Pushing, PushSteps
  <1>3. Succeeds(t) /\ call[t].kind = "push"
    BY <1>1 DEF Succeeds, PushSteps, PushInv
  <1>4. At(t) \in Nat
    BY <1>1, OwnFacts DEF At, CallInv, PushInv
  <1>5. PICK j \in 1..(At(t) - 1) : call[t].descs[j].digest = s.digest
    BY DEF Due
  <1>6. j \in 1..At(t) /\ j # At(t)
    BY <1>4, <1>5
  <1>7. Exists(call[t].descs[j])
    BY <1>1, <1>3, <1>6 DEF StoredInv
  <1> QED
    BY <1>1, <1>2, <1>5, <1>7, ExistsFound

LEMMA PushRestored ==
    ASSUME HeldInv, NEW t \in Thread, Step(t), RestoredInv(t), call[t].kind = "push"
    PROVE  RestoredInv(t)'
  <1>1. /\ CallInv /\ Functions /\ PlaceInv(t) /\ call' = call /\ pc \in [Thread -> PlacesOf]
        /\ exists \subseteq exists'
    BY StepOfOne, StoreGrows DEF HeldInv, FileInv, CallInv, OthersStand
  <1> USE DEF Functions, Goto, Return
  <1>2. CASE BeginPush(t)
    <2>1. CASE closed
      BY <1>1, <1>2, <2>1 DEF BeginPush, RestoredInv, Succeeds
    <2>2. CASE ~ closed
      <3>1. /\ pc[t] = "start" /\ todo'[t] = Tail(todo[t]) /\ pc'[t] = "push"
            /\ restore'[t] = <<>> /\ todo[t] # <<>>
        BY <1>1, <1>2, <2>2 DEF BeginPush, PlaceInv
      <3>2. Len(todo'[t]) = Len(todo[t]) - 1 /\ Len(todo[t]) \in Nat \ {0} /\ Len(call[t].descs) \in Nat
        BY <1>1, <3>1, SuffixTail, FileStoreAssumption DEF PlaceInv, CallInv
      <3>3. At(t) \in Int /\ At(t)' = At(t) + 1
        BY <1>1, <3>2 DEF At
      <3>4. /\ \A i : ListOf(t, i)' = ListOf(t, i)
            /\ \A i, s : Due(t, i, s)' <=> Due(t, i, s)
        BY <1>1 DEF ListOf, Due
      <3>5. ASSUME NEW i \in 1..(At(t) + 1), i # At(t) + 1,
                   NEW k \in 1..Len(ListOf(t, i)), Due(t, i, ListOf(t, i)[k])
            PROVE  ListOf(t, i)[k].name \in exists'
        <4>1. i \in 1..At(t) /\ Succeeds(t)
          BY <3>1, <3>3, <3>5 DEF Succeeds
        <4> QED
          BY <1>1, <3>1, <3>5, <4>1 DEF RestoredInv
      <3>6. ~ Restoring(t)'
        BY <3>1 DEF Restoring
      <3> QED
        BY <3>1, <3>3, <3>4, <3>5, <3>6 DEF RestoredInv
    <2> QED
      BY <2>1, <2>2
  <1>3. CASE PushUnnamed(t)
    <2>1. /\ todo' = todo /\ (Succeeds(t)' => pc'[t] = "load")
      BY <1>1, <1>3 DEF PushUnnamed, Succeeds
    <2>2. Succeeds(t)' => ~ Restoring(t)'
      BY <2>1 DEF Restoring
    <2> QED
      BY <1>1, <2>1, <2>2, RestoredMoves
  <1>4. CASE OpenNamed(t) \/ CopyBlock(t) \/ SaveFile(t)
    <2>1. /\ todo' = todo /\ restore' = restore /\ pc[t] \in {"push", "copy"}
          /\ Succeeds(t)' => pc'[t] \in {"copy", "attrs"}
      BY <1>1, <1>4 DEF OpenNamed, CopyBlock, SaveFile, PushFails, Succeeds
    <2>2. Succeeds(t)' /\ Restoring(t)' => Restoring(t)
      BY <2>1 DEF Restoring
    <2> QED
      BY <1>1, <2>1, <2>2, RestoredMoves, RestoredSame
  <1>5. CASE SetAttributes(t)
    <2>1. pc[t] = "attrs" /\ todo' = todo
      BY <1>5 DEF SetAttributes, PushFails
    <2>2. CASE restore[t] = <<>>
      <3>1. Succeeds(t)' => pc'[t] = "load"
        BY <1>1, <1>5, <2>2 DEF SetAttributes, PushFails, Succeeds, Pushed
      <3>2. Succeeds(t)' => ~ Restoring(t)'
        BY <3>1 DEF Restoring
      <3> QED
        BY <1>1, <2>1, <3>1, <3>2, RestoredMoves
    <2>3. CASE restore[t] # <<>>
      <3>1. Succeeds(t)' => /\ pc'[t] = "restore" /\ restore'[t] = Tail(restore[t])
                            /\ exists' = exists \cup {cur[t].name}
        BY <1>1, <1>5, <2>3 DEF SetAttributes, PushFails, Succeeds, Pushed, NextDuplicate
      <3>2. Restoring(t) /\ pc[t] \in PushSteps
        BY <2>1, <2>3 DEF Restoring, PushSteps
      <3>3. cur[t] = Head(restore[t])
        BY <1>1, <2>1, <2>3, <3>2 DEF PlaceInv, PushInv
      <3>4. Succeeds(t)' => (Due(t, At(t), Head(restore[t])) => Head(restore[t]).name \in exists')
        BY <3>1, <3>3
      <3> QED
        BY <1>1, <2>1, <2>3, <3>1, <3>2, <3>4, RestoredMoves, RestoredNext
    <2> QED
      BY <2>2, <2>3
  <1>6. CASE LoadSuccessors(t)
    <2>1. /\ pc[t] = "load" /\ todo' = todo
          /\ Succeeds(t)' => restore'[t] = Successors[Own(t).digest] /\ pc'[t] = "restore"
      BY <1>1, <1>6 DEF LoadSuccessors, Succeeds
    <2>2. ListOf(t, At(t)) = Successors[Own(t).digest] /\ Len(ListOf(t, At(t))) \in Nat
      BY <1>1, <2>1, OwnList DEF PushSteps
    <2>3. Succeeds(t)' => Len(ListOf(t, At(t))) - Len(restore'[t]) = 0
      BY <2>1, <2>2
    <2>4. 1..0 = {}
      OBVIOUS
    <2> QED
      BY <1>1, <2>1, <2>3, <2>4, RestoredMoves
  <1>7. CASE NextSuccessor(t)
    <2>1. /\ pc[t] = "restore" /\ restore[t] # <<>> /\ todo' = todo
          /\ pc'[t] \in {"restore", "refetch"}
      BY <1>1, <1>7 DEF NextSuccessor
    <2>2. Restoring(t) /\ pc[t] \in PushSteps
      BY <2>1 DEF Restoring, PushSteps
    <2>3. CASE Skipped(Head(restore[t]))
      <3>1. restore'[t] = Tail(restore[t])
        BY <1>1, <1>7, <2>1, <2>3 DEF NextSuccessor, NextDuplicate
      <3>2. Due(t, At(t), Head(restore[t])) => Head(restore[t]).name \in exists'
        BY <1>1, <2>3 DEF Due, Skipped, Named
      <3> QED
        BY <1>1, <2>1, <2>2, <3>1, <3>2, RestoredMoves, RestoredNext
    <2>4. CASE ~ Skipped(Head(restore[t]))
      <3>1. restore'[t] = restore[t]
        BY <1>7, <2>4 DEF NextSuccessor
      <3> QED
        BY <1>1, <2>1, <2>2, <3>1, RestoredMoves, RestoredSame
    <2> QED
      BY <2>3, <2>4
  <1>8. CASE Refetch(t)
    <2>1. /\ pc[t] = "refetch" /\ todo' = todo /\ pc'[t] \in {"restore", "push"}
      BY <1>1, <1>8 DEF Refetch
    <2>2. Restoring(t) /\ pc[t] \in PushSteps
      BY <2>1 DEF Restoring, PushSteps
    <2>3. restore[t] # <<>> /\ cur[t] = Head(restore[t])
      BY <1>1, <2>1, <2>2 DEF PlaceInv, PushInv
    <2>4. CASE Found(cur[t].digest)
      <3>1. restore'[t] = restore[t]
        BY <1>8, <2>4 DEF Refetch
      <3> QED
        BY <1>1, <2>1, <2>2, <3>1, RestoredMoves, RestoredSame
    <2>5. CASE ~ Found(cur[t].digest)
      <3>1. restore'[t] = Tail(restore[t])
        BY <1>1, <1>8, <2>3, <2>5 DEF Refetch, NextDuplicate
      <3>2. ~ Due(t, At(t), Head(restore[t]))
        BY <2>2, <2>3, <2>5, DueFound
      <3> QED
        BY <1>1, <2>1, <2>2, <2>3, <3>1, <3>2, RestoredMoves, RestoredNext
    <2> QED
      BY <2>4, <2>5
  <1>9. CASE LockGraph(t)
    <2>1. /\ pc[t] = "restore" /\ todo' = todo /\ restore' = restore
          /\ Succeeds(t)' => pc'[t] = "index"
      BY <1>1, <1>9 DEF LockGraph, Succeeds
    <2>2. Restoring(t)
      BY <2>1 DEF Restoring
    <2> QED
      BY <1>1, <2>1, <2>2, RestoredMoves, RestoredSame
  <1>10. CASE Index(t)
    <2>1. /\ pc[t] = "index" /\ todo' = todo /\ restore' = restore /\ pc'[t] \in {"start", "done"}
      BY <1>1, <1>10 DEF Index
    <2>2. Restoring(t) /\ Succeeds(t) /\ restore[t] = <<>> /\ ~ Restoring(t)'
      BY <1>1, <2>1 DEF Restoring, Succeeds, PlaceInv, PushInv, PushSteps
    <2>3. Len(ListOf(t, At(t))) \in Nat
      BY <1>1, <2>1, OwnList DEF PushSteps
    <2>4. Len(ListOf(t, At(t))) - Len(restore[t]) = Len(ListOf(t, At(t)))
      BY <2>2, <2>3
    <2>5. ASSUME NEW i \in 1..At(t), NEW k \in 1..Len(ListOf(t, i)), Due(t, i, ListOf(t, i)[k])
          PROVE  ListOf(t, i)[k].name \in exists'
      <3>1. CASE i = At(t)
        BY <1>1, <2>2, <2>4, <2>5, <3>1 DEF RestoredInv
      <3>2. CASE i # At(t)
        BY <1>1, <2>2, <2>5, <3>2 DEF RestoredInv
      <3> QED
        BY <3>1, <3>2
    <2>6. /\ At(t)' = At(t) /\ \A i : ListOf(t, i)' = ListOf(t, i)
          /\ \A i, s : Due(t, i, s)' <=> Due(t, i, s)
      BY <1>1, <2>1 DEF At, ListOf, Due
    <2> QED
      BY <2>2, <2>5, <2>6 DEF RestoredInv
  <1>11. CASE BeginAdd(t) \/ Add(t) \/ BeginFetch(t) \/ Fetch(t) \/ Close(t)
    BY <1>1, <1>11 DEF BeginAdd, Add, BeginFetch, Fetch, Close, PlaceInv
  <1>12. CASE AskExists(t) \/ Tag(t) \/ Resolve(t) \/ Predecessors(t)
    BY <1>12 DEF AskExists, Tag, Resolve, Predecessors, Asks
  <1> QED
    BY <1>2, <1>3, <1>4, <1>5, <1>6, <1>7, <1>8, <1>9, <1>10, <1>11, <1>12 DEF Step

\* A step that leaves a push where it is loses nothing it has restored.
LEMMA RestoredKept ==
    ASSUME NEW u \in Thread, RestoredInv(u), exists \subseteq exists', call' = call,
           todo'[u] = todo[u], restore'[u] = restore[u], pc'[u] = pc[u], result'[u] = result[u]
    PROVE  RestoredInv(u)'
  <1>1. /\ At(u)' = At(u) /\ (Restoring(u)' <=> Restoring(u)) /\ (Succeeds(u)' <=> Succeeds(u))
        /\ \A i : ListOf(u, i)' = ListOf(u, i)
        /\ \A i, s : Due(u, i, s)' <=> Due(u, i, s)
    BY DEF At, Restoring, Succeeds, ListOf, Due
  <1> QED
    BY <1>1 DEF RestoredInv

LEMMA RestoreInit ==
    ASSUME WellNamed, Init
    PROVE  RestoreInv
  <1>1. HeldInv
    BY HeldInit
  <1>2. ASSUME NEW t \in Thread
        PROVE  RestoredInv(t)
    <2>1. Len(call[t].descs) \in Nat /\ todo[t] = call[t].descs /\ pc[t] = "start"
      BY FileStoreAssumption DEF Init
    <2>2. At(t) = 0 /\ ~ Restoring(t)
      BY <2>1 DEF At, Restoring
    <2> QED
      BY <2>2 DEF RestoredInv
  <1> QED
    BY <1>1, <1>2 DEF RestoreInv

LEMMA RestoreStep ==
    ASSUME WellNamed, RestoreInv, [Next]_vars
    PROVE  RestoreInv'
  <1>1. HeldInv /\ HeldInv'
    BY HeldStep DEF RestoreInv
  <1>2. ASSUME NEW t \in Thread, Step(t), NEW u \in Thread
        PROVE  RestoredInv(u)'
    <2>1. OthersStand(t) /\ CallInv /\ RestoredInv(u) /\ exists \subseteq exists'
      BY <1>1, <1>2, StepOfOne, StoreGrows DEF HeldInv, FileInv, CallInv, RestoreInv
    <2>2. CASE u = t
      BY <1>1, <1>2, <2>1, <2>2, PushRestored DEF RestoredInv, OthersStand
    <2>3. CASE u # t
      BY <2>1, <2>3, RestoredKept DEF OthersStand
    <2> QED
      BY <2>2, <2>3
  <1>3. CASE UNCHANGED vars
    <2>1. UNCHANGED <<exists, call, todo, restore, pc, result>>
      BY <1>3 DEF vars, store, local
    <2> QED
      BY <1>1, <2>1, RestoredKept DEF RestoreInv
  <1> QED
    BY <1>1, <1>2, <1>3 DEF Next, Quiet, RestoreInv

LEMMA RestoreInvariance ==
    ASSUME WellNamed
    PROVE  Spec => []RestoreInv
  <1>1. Init => RestoreInv
    BY RestoreInit
  <1>2. RestoreInv /\ [Next]_vars => RestoreInv'
    BY RestoreStep
  <1> QED
    BY <1>1, <1>2, PTL DEF Spec

\* When a call has pushed manifests after what they list, every name they give
\* to content that the call has pushed exists, also when others push, fail or
\* restore the same names (file.go:211-235 and 291-320).
THEOREM PushRestoresDuplicates ==
    ASSUME WellNamed, BottomUp
    PROVE  Spec => []DuplicatesRestored
  <1>1. RestoreInv => DuplicatesRestored
    <2> SUFFICES ASSUME RestoreInv, NEW t \in Thread, call[t].kind = "push",
                        result[t].status = "ok", NEW m \in ToSet(call[t].descs),
                        NEW s \in ToSet(Successors[m.digest]), s.name # NoName,
                        NEW d \in ToSet(call[t].descs), d.digest = s.digest
                 PROVE  s.name \in exists
      BY DEF DuplicatesRestored
    <2>1. /\ PlaceInv(t) /\ pc[t] = "done" /\ RestoredInv(t) /\ call \in Programs
          /\ call[t].descs \in Seq(Descriptor) /\ todo[t] = <<>>
      BY FileStoreAssumption DEF RestoreInv, HeldInv, FileInv, CallInv, PlaceInv
    <2>2. At(t) = Len(call[t].descs) /\ Succeeds(t) /\ Len(call[t].descs) \in Nat
      BY <2>1 DEF At, Succeeds
    <2>3. PICK i \in 1..Len(call[t].descs) : call[t].descs[i] = m
      BY <2>1, ListFacts
    <2>4. PICK j \in 1..Len(call[t].descs) : call[t].descs[j] = d
      BY <2>1, ListFacts
    <2>5. m \in Descriptor /\ Successors[m.digest] \in Seq(Descriptor)
      BY <2>1, <2>3, ListFacts, FileStoreAssumption DEF Descriptor
    <2>6. PICK k \in 1..Len(Successors[m.digest]) : Successors[m.digest][k] = s
      BY <2>5, ListFacts
    <2>7. j < i
      <3>1. i \in DOMAIN call[t].descs /\ j \in DOMAIN call[t].descs
        BY <2>1, <2>3, <2>4
      <3>2. \E x \in ToSet(Successors[call[t].descs[i].digest]) :
               x.name # NoName /\ x.digest = call[t].descs[j].digest
        BY <2>3, <2>4
      <3> QED
        BY <2>1, <3>1, <3>2 DEF BottomUp
    <2>8. j \in 1..(i - 1)
      BY <2>2, <2>7
    <2>9. Due(t, i, s)
      BY <2>4, <2>8 DEF Due
    <2> QED
      BY <2>1, <2>2, <2>3, <2>6, <2>9 DEF RestoredInv, ListOf
  <1> QED
    BY <1>1, RestoreInvariance, PTL

-----------------------------------------------------------------------------
(* The store implements BlobStore.                                         *)

\* The file of a name that exists is the blob of the name.
NamesComplete ==
    \A n \in exists : PathOf[n] \in DOMAIN disk =>
        \E e \in Known : e.name = n /\ e.name # NoName /\ Complete(PathOf[n], e.digest)

\* Nothing is written at the path of an archive's own name.
ArchivesComplete ==
    \A e \in Known : e.unpack /\ e.name # NoName /\ PathOf[e.name] \in DOMAIN disk =>
        Complete(PathOf[e.name], e.digest)

\* A push that has yet to name its file has written it.
NamingInv(t) == pc[t] = "attrs" => Complete(Target(t), cur[t].digest)

NamesInv == FileInv /\ NamesComplete /\ ArchivesComplete /\ \A t \in Thread : NamingInv(t)

\* The file of a name stays as it is.
LEMMA FileStays ==
    ASSUME WellNamed, NamesInv, NEW t \in Thread, Step(t), ~ Close(t), NEW n \in exists
    PROVE  /\ PathOf[n] \in DOMAIN disk' <=> PathOf[n] \in DOMAIN disk
           /\ PathOf[n] \in DOMAIN disk =>
                 /\ disk'[PathOf[n]] = disk[PathOf[n]]
                 /\ \E e \in Known : /\ e.name = n /\ e.name # NoName
                                     /\ Complete(PathOf[n], e.digest)'
  <1>1. FileInv /\ CallInv /\ NamesComplete /\ n \in Name
    BY DEF NamesInv, FileInv, CallInv, StoreTypes
  <1>2. CASE PathOf[n] \in DOMAIN disk
    <2>1. PICK e \in Known : e.name = n /\ e.name # NoName /\ Complete(PathOf[n], e.digest)
      BY <1>1, <1>2 DEF NamesComplete
    <2>2. Complete(PathOf[n], e.digest)'
      BY <1>1, <2>1, KnownName, CompleteKept, DiskStep
    <2> QED
      BY <1>2, <2>1, <2>2 DEF Complete
  <1>3. ASSUME PathOf[n] \in DOMAIN disk' \ DOMAIN disk
        PROVE  FALSE
    <2>1. /\ PathOf[n] = Target(t) /\ cur[t].name # NoName /\ cur[t].name \notin exists
      BY <1>1, <1>3, DiskStep
    <2>2. PathOf[n] \notin Temp /\ cur[t] \in Known /\ cur[t].name \in Name /\ cur[t].digest \in Digest
      BY <1>1, <2>1, CurFacts DEF WellNamed, CallInv, PlaceInv
    <2>3. PathOf[n] = PathOf[cur[t].name]
      BY <2>1, <2>2 DEF Target, Temp
    <2> QED
      BY <1>1, <2>1, <2>2, <2>3 DEF WellNamed
  <1> QED
    BY <1>2, <1>3

LEMMA ArchivesStep ==
    ASSUME WellNamed, NamesInv, NEW t \in Thread, Step(t), ~ Close(t)
    PROVE  ArchivesComplete'
  <1>1. FileInv /\ CallInv /\ ArchivesComplete
    BY DEF NamesInv, FileInv
  <1> SUFFICES ASSUME NEW e \in Known, e.unpack, e.name # NoName, PathOf[e.name] \in DOMAIN disk'
               PROVE  Complete(PathOf[e.name], e.digest)'
    BY DEF ArchivesComplete
  <1>2. e.name \in Name /\ e.digest \in Digest
    BY KnownName
  <1>3. CASE PathOf[e.name] \in DOMAIN disk
    BY <1>1, <1>2, <1>3, CompleteKept, DiskStep DEF ArchivesComplete
  <1>4. CASE PathOf[e.name] \notin DOMAIN disk
    <2>1. PathOf[e.name] = Target(t) /\ cur[t].name # NoName
      BY <1>1, <1>4, DiskStep
    <2>2. PathOf[e.name] \notin Temp /\ cur[t] \in Known /\ cur[t].name \in Name /\ cur[t].digest \in Digest
      BY <1>1, <1>2, <2>1, CurFacts DEF WellNamed, CallInv, PlaceInv
    <2>3. PathOf[e.name] = PathOf[cur[t].name] /\ ~ cur[t].unpack
      BY <2>1, <2>2 DEF Target, Temp
    <2>4. e.name = cur[t].name
      BY <1>2, <2>2, <2>3 DEF WellNamed
    <2>5. e = cur[t]
      BY <2>1, <2>2, <2>4 DEF WellNamed
    <2> QED
      BY <2>3, <2>5
  <1> QED
    BY <1>3, <1>4

\* Names come from a push that has set the attributes and from an Add.
LEMMA NameStep ==
    ASSUME CallInv, NEW t \in Thread, Step(t)
    PROVE  \/ exists' = exists
           \/ /\ exists' = exists \cup {cur[t].name} /\ cur' = cur /\ pc[t] = "attrs"
              /\ UNCHANGED <<disk, digestToPath, fallback>>
           \/ /\ exists' = exists \cup {cur[t].name} /\ cur' = cur /\ Add(t)
              /\ digestToPath' = Mapped(t) /\ fallback' = fallback
  <1>1. CASE BeginPush(t) \/ PushUnnamed(t) \/ OpenNamed(t) \/ CopyBlock(t) \/ SaveFile(t)
    BY <1>1 DEF BeginPush, PushUnnamed, OpenNamed, CopyBlock, SaveFile, PushFails, store
  <1>2. CASE LoadSuccessors(t) \/ NextSuccessor(t) \/ Refetch(t) \/ LockGraph(t) \/ Index(t)
    BY <1>2 DEF LoadSuccessors, NextSuccessor, Refetch, LockGraph, Index, store
  <1>3. CASE BeginAdd(t) \/ BeginFetch(t) \/ Fetch(t) \/ Close(t)
    BY <1>3 DEF BeginAdd, BeginFetch, Fetch, Close, store
  <1>4. CASE AskExists(t) \/ Tag(t) \/ Resolve(t) \/ Predecessors(t)
    BY <1>4 DEF AskExists, Tag, Resolve, Predecessors, Asks
  <1>5. CASE SetAttributes(t)
    BY <1>5 DEF SetAttributes, PushFails
  <1>6. CASE Add(t)
    BY <1>6 DEF Add
  <1> QED
    BY <1>1, <1>2, <1>3, <1>4, <1>5, <1>6 DEF Step

\* Who gives a name holds its lock.
LEMMA NamerLocks ==
    ASSUME FileInv, NEW t \in Thread, pc[t] \in Pushing
    PROVE  /\ cur[t] \in Known /\ cur[t].name \in Name /\ cur[t].name # NoName
           /\ cur[t].digest \in Digest /\ cur[t].name \notin exists
  <1>1. cur[t] \in Known /\ cur[t].name \in Name /\ cur[t].name \notin exists
    BY DEF FileInv, CallInv, PlaceInv, LockInv, StoreTypes
  <1> QED
    BY <1>1, KnownName, FileStoreAssumption

LEMMA NamesStep ==
    ASSUME WellNamed, NamesInv, NEW t \in Thread, Step(t), ~ Close(t)
    PROVE  NamesComplete'
  <1>1. FileInv /\ CallInv /\ NamingInv(t)
    BY DEF NamesInv, FileInv
  <1>2. ASSUME NEW n \in exists, PathOf[n] \in DOMAIN disk'
        PROVE  \E e \in Known : e.name = n /\ e.name # NoName /\ Complete(PathOf[n], e.digest)'
    BY <1>2, FileStays
  <1>3. ASSUME cur' = cur, pc[t] \in Pushing, PathOf[cur[t].name] \in DOMAIN disk',
               ~ cur[t].unpack => Complete(Target(t), cur[t].digest)'
        PROVE  Complete(PathOf[cur[t].name], cur[t].digest)'
    <2>1. cur[t] \in Known /\ cur[t].name # NoName
      BY <1>1, <1>3, NamerLocks
    <2>2. CASE cur[t].unpack
      BY <1>3, <2>1, <2>2, ArchivesStep DEF ArchivesComplete
    <2>3. CASE ~ cur[t].unpack
      BY <1>3, <2>3 DEF Target
    <2> QED
      BY <2>2, <2>3
  <1>4. CASE exists' = exists
    BY <1>2, <1>4 DEF NamesComplete
  <1>5. CASE exists' = exists \cup {cur[t].name} /\ cur' = cur /\ pc[t] = "attrs"
                /\ UNCHANGED <<disk, digestToPath, fallback>>
    <2>1. pc[t] \in Pushing /\ Complete(Target(t), cur[t].digest)'
      BY <1>1, <1>5 DEF NamingInv, Complete, Target, Pushing
    <2>2. cur[t] \in Known /\ cur[t].name # NoName
      BY <1>1, <2>1, NamerLocks
    <2>3. PathOf[cur[t].name] \in DOMAIN disk' => Complete(PathOf[cur[t].name], cur[t].digest)'
      BY <1>3, <1>5, <2>1
    <2> QED
      BY <1>2, <1>5, <2>2, <2>3 DEF NamesComplete
  <1>6. CASE exists' = exists \cup {cur[t].name} /\ cur' = cur /\ Add(t)
    <2>1. pc[t] \in Pushing /\ Complete(Target(t), cur[t].digest)'
      BY <1>1, <1>6, EnteredComplete DEF Add, Pushing
    <2>2. cur[t] \in Known /\ cur[t].name # NoName
      BY <1>1, <2>1, NamerLocks
    <2>3. PathOf[cur[t].name] \in DOMAIN disk' => Complete(PathOf[cur[t].name], cur[t].digest)'
      BY <1>3, <1>6, <2>1
    <2> QED
      BY <1>2, <1>6, <2>2, <2>3 DEF NamesComplete
  <1> QED
    BY <1>1, <1>4, <1>5, <1>6, NameStep

LEMMA NamingStep ==
    ASSUME WellNamed, NamesInv, NEW t \in Thread, Step(t), ~ Close(t), NEW u \in Thread
    PROVE  NamingInv(u)'
  <1>1. FileInv /\ CallInv /\ NamingInv(u) /\ Grown /\ OthersStand(t)
    BY DiskStep, StepOfOne DEF NamesInv, FileInv, CallInv
  <1>2. CASE u # t
    <2>1. cur'[u] = cur[u] /\ pc'[u] = pc[u] /\ cur[u].digest \in Digest
      BY <1>1, <1>2, CurFacts DEF OthersStand
    <2>2. Target(u)' = Target(u)
      BY <2>1 DEF Target
    <2>3. pc[u] = "attrs" => Complete(Target(u), cur[u].digest)'
      BY <1>1, <2>1, <2>2, CompleteKept DEF NamingInv
    <2> QED
      BY <2>1, <2>3 DEF NamingInv
  <1>3. CASE u = t
    <2>0. Functions /\ pc \in [Thread -> PlacesOf]
      BY <1>1 DEF CallInv
    <2> USE DEF Functions, Goto, Return
    <2>1. CASE SaveFile(t)
      <3>1. pc'[t] = "attrs" => Verified(t)
        BY <2>0, <2>1 DEF SaveFile, PushFails
      <3> QED
        BY <1>1, <1>3, <2>1, <3>1, EnteredComplete DEF NamingInv
    <2>2. CASE ~ SaveFile(t)
      <3>1. pc'[t] # "attrs"
        <4>1. CASE BeginPush(t) \/ PushUnnamed(t) \/ OpenNamed(t) \/ CopyBlock(t) \/ SetAttributes(t)
          BY <2>0, <4>1 DEF BeginPush, PushUnnamed, OpenNamed, CopyBlock, SetAttributes, PushFails, Pushed
        <4>2. CASE LoadSuccessors(t) \/ NextSuccessor(t) \/ Refetch(t) \/ LockGraph(t) \/ Index(t)
          BY <2>0, <4>2 DEF LoadSuccessors, NextSuccessor, Refetch, LockGraph, Index
        <4>3. CASE BeginAdd(t) \/ Add(t) \/ BeginFetch(t) \/ Fetch(t)
          BY <2>0, <4>3 DEF BeginAdd, Add, BeginFetch, Fetch
        <4>4. CASE AskExists(t) \/ Tag(t) \/ Resolve(t) \/ Predecessors(t)
          BY <2>0, <4>4 DEF AskExists, Tag, Resolve, Predecessors, Asks
        <4> QED
          BY <2>2, <4>1, <4>2, <4>3, <4>4 DEF Step
      <3> QED
        BY <1>3, <3>1 DEF NamingInv
    <2> QED
      BY <2>1, <2>2
  <1> QED
    BY <1>2, <1>3

\* Close takes no file that has a name.
LEMMA CloseKeeps ==
    ASSUME WellNamed, FileInv, NEW t \in Thread, Close(t)
    PROVE  /\ closed' = TRUE /\ UNCHANGED <<exists, digestToPath, fallback>>
           /\ DOMAIN disk' \subseteq DOMAIN disk
           /\ \A p \in DOMAIN disk' : disk'[p] = disk[p]
           /\ \A n \in Name : PathOf[n] \in DOMAIN disk' <=> PathOf[n] \in DOMAIN disk
           /\ \A u \in Thread : pc'[u] # "attrs"
  <1>1. CallInv /\ Functions /\ tmpFiles \subseteq Temp
    BY DEF FileInv, CallInv, StoreTypes, Temp
  <1>2. closed' = TRUE /\ UNCHANGED <<exists, digestToPath, fallback>> /\ \A u \in Thread : pc'[u] # "attrs"
    BY <1>1 DEF Close, Return, Goto, Busy, Pushing, Functions
  <1>3. /\ DOMAIN disk' \subseteq DOMAIN disk
        /\ \A p \in DOMAIN disk' : disk'[p] = disk[p]
        /\ DOMAIN disk \ Temp \subseteq DOMAIN disk'
    <2>1. CASE closed
      BY <2>1 DEF Close
    <2>2. CASE ~ closed
      BY <1>1, <2>2 DEF Close, Restrict
    <2> QED
      BY <2>1, <2>2
  <1> QED
    BY <1>2, <1>3 DEF WellNamed

LEMMA NamesInit ==
    ASSUME WellNamed, Init
    PROVE  NamesInv
  <1>1. ArchivesComplete
    <2> SUFFICES ASSUME NEW e \in Known, e.name # NoName, PathOf[e.name] \in DOMAIN disk
                 PROVE  Complete(PathOf[e.name], e.digest)
      BY DEF ArchivesComplete
    <2>1. disk[PathOf[e.name]] = Content[e.digest]
      BY DEF Init, WellNamed
    <2> QED
      BY <2>1 DEF Complete, PathFor
  <1> QED
    BY <1>1, FileInit DEF Init, NamesInv, NamesComplete, NamingInv

LEMMA NamesInvStep ==
    ASSUME WellNamed, NamesInv, [Next]_vars
    PROVE  NamesInv'
  <1>1. FileInv /\ FileInv'
    BY FileStep DEF NamesInv
  <1>2. ASSUME NEW t \in Thread, Step(t), ~ Close(t)
        PROVE  NamesInv'
    BY <1>1, <1>2, NamesStep, ArchivesStep, NamingStep DEF NamesInv
  <1>3. ASSUME NEW t \in Thread, Close(t)
        PROVE  NamesInv'
    <2>1. NamesComplete'
      <3> SUFFICES ASSUME NEW n \in exists', PathOf[n] \in DOMAIN disk'
                   PROVE  \E e \in Known : e.name = n /\ e.name # NoName /\ Complete(PathOf[n], e.digest)'
        BY DEF NamesComplete
      <3>1. n \in exists /\ PathOf[n] \in DOMAIN disk /\ disk'[PathOf[n]] = disk[PathOf[n]]
        BY <1>1, <1>3, CloseKeeps
      <3>2. PICK e \in Known : e.name = n /\ e.name # NoName /\ Complete(PathOf[n], e.digest)
        BY <3>1 DEF NamesInv, NamesComplete
      <3> QED
        BY <3>1, <3>2 DEF Complete
    <2>2. ArchivesComplete'
      BY <1>1, <1>3, CloseKeeps DEF NamesInv, ArchivesComplete, Complete
    <2>3. \A u \in Thread : NamingInv(u)'
      BY <1>1, <1>3, CloseKeeps DEF NamingInv
    <2> QED
      BY <1>1, <2>1, <2>2, <2>3 DEF NamesInv
  <1>4. CASE UNCHANGED vars
    <2>1. UNCHANGED <<disk, exists, cur, pc>>
      BY <1>4 DEF vars, store, local
    <2>2. NamesComplete'
      BY <2>1 DEF NamesInv, NamesComplete, Complete
    <2>3. ArchivesComplete'
      BY <2>1 DEF NamesInv, ArchivesComplete, Complete
    <2>4. \A u \in Thread : NamingInv(u)'
      BY <2>1 DEF NamesInv, NamingInv, Complete, Target
    <2> QED
      BY <1>1, <2>2, <2>3, <2>4 DEF NamesInv
  <1> QED
    BY <1>2, <1>3, <1>4 DEF Next, Quiet

\* What can be fetched from an open store is what it has a path or a copy for.
Kept == DOMAIN digestToPath \cup fallback

Blobs == {d \in Digest : Fetchable(d)}

LEMMA BlobsAreKept ==
    ASSUME FileInv, ~ closed
    PROVE  Blobs = Kept
  <1>1. Kept \subseteq Digest
    BY DEF FileInv, CallInv, StoreTypes, Kept
  <1>2. ASSUME NEW d \in Kept
        PROVE  Found(d) /\ Data(d) = Content[d]
    <2>1. CASE d \in DOMAIN digestToPath
      BY <2>1 DEF FileInv, MappedComplete, Found, OnDisk, Data
    <2>2. CASE d \notin DOMAIN digestToPath
      BY <2>2 DEF Kept, Found, Data
    <2> QED
      BY <2>1, <2>2
  <1>3. ASSUME NEW d \in Digest, Found(d)
        PROVE  d \in Kept
    BY <1>3 DEF Found, OnDisk, Kept
  <1> QED
    BY <1>1, <1>2, <1>3 DEF Blobs, Fetchable

\* What a step adds to the names and the blobs.
LEMMA StoreEffect ==
    ASSUME NamesInv, NEW t \in Thread, Step(t)
    PROVE  \/ exists' = exists /\ Kept' = Kept
           \/ exists' = exists /\ cur[t].digest \in Digest /\ Kept' = Kept \cup {cur[t].digest}
           \/ /\ exists' = exists \cup {cur[t].name} /\ pc[t] \in Pushing
              /\ Kept' = Kept /\ cur[t].digest \in Kept
           \/ /\ exists' = exists \cup {cur[t].name} /\ pc[t] \in Pushing
              /\ Kept' = Kept \cup {cur[t].digest}
  <1>1. CallInv /\ FileInv /\ cur[t].digest \in Digest
    BY CurFacts DEF NamesInv, FileInv
  <1>2. DOMAIN Mapped(t) = DOMAIN digestToPath \cup {cur[t].digest}
    BY DEF Mapped, Put
  <1>3. \/ fallback' = fallback
        \/ fallback' = fallback \cup {cur[t].digest} /\ UNCHANGED <<digestToPath, exists>>
    <2>1. CASE BeginPush(t) \/ OpenNamed(t) \/ CopyBlock(t) \/ SaveFile(t) \/ SetAttributes(t)
      BY <2>1 DEF BeginPush, OpenNamed, CopyBlock, SaveFile, SetAttributes, PushFails, store
    <2>2. CASE LoadSuccessors(t) \/ NextSuccessor(t) \/ Refetch(t) \/ LockGraph(t) \/ Index(t)
      BY <2>2 DEF LoadSuccessors, NextSuccessor, Refetch, LockGraph, Index, store
    <2>3. CASE BeginAdd(t) \/ Add(t) \/ BeginFetch(t) \/ Fetch(t) \/ Close(t)
      BY <2>3 DEF BeginAdd, Add, BeginFetch, Fetch, Close, store
    <2>4. CASE AskExists(t) \/ Tag(t) \/ Resolve(t) \/ Predecessors(t)
      BY <2>4 DEF AskExists, Tag, Resolve, Predecessors, Asks
    <2>5. CASE PushUnnamed(t)
      BY <2>5 DEF PushUnnamed
    <2> QED
      BY <2>1, <2>2, <2>3, <2>4, <2>5 DEF Step
  <1>4. CASE fallback' # fallback
    BY <1>1, <1>3, <1>4 DEF Kept
  <1>5. CASE fallback' = fallback /\ exists' = exists
    <2>1. DOMAIN digestToPath' \in {DOMAIN digestToPath, DOMAIN digestToPath \cup {cur[t].digest}}
      BY <1>1, <1>2, MapStep
    <2> QED
      BY <1>1, <1>5, <2>1 DEF Kept
  <1>6. CASE fallback' = fallback /\ exists' # exists
    <2>1. CASE pc[t] = "attrs" /\ UNCHANGED <<digestToPath, fallback>>
                  /\ exists' = exists \cup {cur[t].name}
      <3>1. cur[t].digest \in DOMAIN digestToPath
        BY <1>1, <2>1 DEF FileInv, CopyInv
      <3> QED
        BY <2>1, <3>1 DEF Kept, Pushing
    <2>2. CASE Add(t) /\ digestToPath' = Mapped(t) /\ exists' = exists \cup {cur[t].name}
      <3>1. pc[t] \in Pushing
        BY <2>2 DEF Add, Pushing
      <3> QED
        BY <1>2, <1>6, <2>2, <3>1 DEF Kept
    <2> QED
      BY <1>1, <1>6, <2>1, <2>2, NameStep
  <1> QED
    BY <1>4, <1>5, <1>6

LEMMA FilesSame ==
    ASSUME WellNamed, NamesInv, NEW t \in Thread, Step(t), ~ Close(t), exists' = exists
    PROVE  NamedFiles' = NamedFiles
  <1>1. \A n \in exists : /\ PathOf[n] \in DOMAIN disk' <=> PathOf[n] \in DOMAIN disk
                          /\ PathOf[n] \in DOMAIN disk => disk'[PathOf[n]] = disk[PathOf[n]]
    BY FileStays
  <1>2. {m \in exists' : PathOf[m] \in DOMAIN disk'} = {m \in exists : PathOf[m] \in DOMAIN disk}
    BY <1>1
  <1> QED
    BY <1>1, <1>2 DEF NamedFiles

\* A name that is given has its file, or none.
LEMMA FilesGiven ==
    ASSUME WellNamed, NamesInv, NamesInv', NEW t \in Thread, Step(t), ~ Close(t), pc[t] \in Pushing,
           exists' = exists \cup {cur[t].name}
    PROVE  /\ cur[t].name \in Name /\ cur[t].digest \in Digest
           /\ cur[t].name \notin DOMAIN NamedFiles
           /\ NamedFiles' = NamedFiles \/ NamedFiles' = Promise!Given(cur[t].name, cur[t].digest)
  <1> DEFINE n == cur[t].name
  <1>1. /\ cur[t] \in Known /\ n \in Name /\ n # NoName /\ cur[t].digest \in Digest /\ n \notin exists
    BY NamerLocks DEF NamesInv
  <1>2. \A m \in exists : /\ PathOf[m] \in DOMAIN disk' <=> PathOf[m] \in DOMAIN disk
                          /\ PathOf[m] \in DOMAIN disk => disk'[PathOf[m]] = disk[PathOf[m]]
    BY FileStays
  <1>3. DOMAIN NamedFiles = {m \in exists : PathOf[m] \in DOMAIN disk}
    BY DEF NamedFiles
  <1>4. CASE PathOf[n] \in DOMAIN disk'
    <2>1. PICK e \in Known : e.name = n /\ disk'[PathOf[n]] = Content[e.digest]
      BY <1>4 DEF NamesInv, NamesComplete, Complete
    <2>2. e = cur[t]
      BY <1>1, <2>1 DEF WellNamed
    <2>3. disk'[PathOf[n]] = Content[cur[t].digest]
      BY <2>1, <2>2
    <2>4. {m \in exists' : PathOf[m] \in DOMAIN disk'} = DOMAIN NamedFiles \cup {n}
      BY <1>2, <1>3, <1>4
    <2>5. NamedFiles' = [m \in DOMAIN NamedFiles \cup {n} |-> disk'[PathOf[m]]]
      BY <2>4 DEF NamedFiles
    <2>6. \A m \in DOMAIN NamedFiles \cup {n} :
             disk'[PathOf[m]] = IF m = n THEN Content[cur[t].digest] ELSE NamedFiles[m]
      BY <1>2, <1>3, <2>3 DEF NamedFiles
    <2>7. NamedFiles' = [m \in DOMAIN NamedFiles \cup {n} |->
                            IF m = n THEN Content[cur[t].digest] ELSE NamedFiles[m]]
      BY <2>5, <2>6
    <2>8. NamedFiles' = Promise!Given(n, cur[t].digest)
      BY <2>7 DEF Promise!Given
    <2> QED
      BY <1>1, <1>3, <2>8
  <1>5. CASE PathOf[n] \notin DOMAIN disk'
    <2>1. {m \in exists' : PathOf[m] \in DOMAIN disk'} = {m \in exists : PathOf[m] \in DOMAIN disk}
      BY <1>2, <1>5
    <2>2. NamedFiles' = NamedFiles
      BY <1>2, <2>1 DEF NamedFiles
    <2> QED
      BY <1>1, <1>3, <2>2
  <1> QED
    BY <1>4, <1>5

PromiseVars == <<NamedFiles, Blobs, ~ closed>>

\* The steps of the promise.
LEMMA PromiseSteps ==
    ASSUME NEW d \in Digest
    PROVE  /\ Promise!Store(d) => Promise!Next
           /\ \A n \in Name : Promise!NameBlob(n, d) \/ Promise!AddFile(n, d) => Promise!Next
  <1>1. ASSUME Promise!Store(d)
        PROVE  Promise!Next
    BY <1>1 DEF Promise!Next
  <1>2. ASSUME NEW n \in Name, Promise!NameBlob(n, d) \/ Promise!AddFile(n, d)
        PROVE  Promise!Next
    BY <1>2 DEF Promise!Next
  <1> QED
    BY <1>1, <1>2

LEMMA OpenStepRefines ==
    ASSUME WellNamed, NamesInv, NamesInv', NEW t \in Thread, Step(t), ~ Close(t), ~ closed
    PROVE  Promise!Next \/ UNCHANGED PromiseVars
  <1>1. /\ ~ closed' /\ Blobs = Kept /\ Blobs' = Kept'
    <2>1. ~ closed'
      BY ClosedStep DEF NamesInv
    <2>2. (FileInv /\ ~ closed => Blobs = Kept)'
      BY BlobsAreKept, PTL
    <2> QED
      BY <2>1, <2>2, BlobsAreKept DEF NamesInv
  <1>2. CASE exists' = exists /\ Kept' = Kept
    BY <1>1, <1>2, FilesSame DEF PromiseVars
  <1>3. CASE exists' = exists /\ cur[t].digest \in Digest /\ Kept' = Kept \cup {cur[t].digest}
    <2>1. NamedFiles' = NamedFiles
      BY <1>3, FilesSame
    <2>2. PICK d \in Digest : d = cur[t].digest
      BY <1>3
    <2>3. Promise!Store(d)
      BY <1>1, <1>3, <2>1, <2>2 DEF Promise!Store, Blobs, Fetchable
    <2> QED
      BY <2>3, PromiseSteps
  <1>4. CASE /\ exists' = exists \cup {cur[t].name} /\ pc[t] \in Pushing
             /\ Kept' = Kept /\ cur[t].digest \in Kept
    <2>1. CASE NamedFiles' = NamedFiles
      BY <1>1, <1>4, <2>1 DEF PromiseVars
    <2>2. CASE NamedFiles' = Promise!Given(cur[t].name, cur[t].digest)
      <3>1. PICK n \in Name, d \in Digest : n = cur[t].name /\ d = cur[t].digest
        BY <1>4, FilesGiven
      <3>2. n \notin DOMAIN NamedFiles
        BY <1>4, <3>1, FilesGiven
      <3>3. Promise!NameBlob(n, d)
        BY <1>1, <1>4, <2>2, <3>1, <3>2 DEF Promise!NameBlob, Promise!Given, Blobs, Fetchable
      <3> QED
        BY <3>3, PromiseSteps
    <2> QED
      BY <1>4, <2>1, <2>2, FilesGiven
  <1>5. CASE /\ exists' = exists \cup {cur[t].name} /\ pc[t] \in Pushing
             /\ Kept' = Kept \cup {cur[t].digest}
    <2>0. /\ cur[t].name \in Name /\ cur[t].digest \in Digest
          /\ cur[t].name \notin DOMAIN NamedFiles
      BY <1>5, FilesGiven
    <2>1. CASE NamedFiles' = NamedFiles
      <3>1. PICK d \in Digest : d = cur[t].digest
        BY <2>0
      <3>2. Promise!Store(d)
        BY <1>1, <1>5, <2>1, <3>1 DEF Promise!Store, Blobs, Fetchable
      <3> QED
        BY <3>2, PromiseSteps
    <2>2. CASE NamedFiles' = Promise!Given(cur[t].name, cur[t].digest)
      <3>1. PICK n \in Name, d \in Digest : n = cur[t].name /\ d = cur[t].digest
        BY <2>0
      <3>2. Promise!AddFile(n, d)
        BY <1>1, <1>5, <2>0, <2>2, <3>1 DEF Promise!AddFile, Promise!Given, Blobs, Fetchable
      <3> QED
        BY <3>2, PromiseSteps
    <2> QED
      BY <1>5, <2>1, <2>2, FilesGiven
  <1> QED
    BY <1>2, <1>3, <1>4, <1>5, StoreEffect

LEMMA ClosedStepRefines ==
    ASSUME WellNamed, NamesInv, NEW t \in Thread, Step(t), ~ Close(t), closed
    PROVE  UNCHANGED PromiseVars
  <1>1. FileInv /\ closed' = closed /\ disk' = disk /\ pc[t] \notin Busy
    BY ClosedStep DEF NamesInv, FileInv, TempsKnown
  <1>2. exists' = exists /\ digestToPath' = digestToPath
    BY <1>1, MapStep, NameStep DEF FileInv, SaveFile, Add, Busy, Pushing
  <1>3. fallback' = fallback
    <2>1. CASE BeginPush(t) \/ PushUnnamed(t) \/ OpenNamed(t) \/ CopyBlock(t) \/ SaveFile(t) \/ SetAttributes(t)
      BY <1>1, <2>1 DEF BeginPush, PushUnnamed, OpenNamed, CopyBlock, SaveFile, SetAttributes, PushFails,
                        store, Busy
    <2>2. CASE LoadSuccessors(t) \/ NextSuccessor(t) \/ Refetch(t) \/ LockGraph(t) \/ Index(t)
      BY <2>2 DEF LoadSuccessors, NextSuccessor, Refetch, LockGraph, Index, store
    <2>3. CASE BeginAdd(t) \/ Add(t) \/ BeginFetch(t) \/ Fetch(t)
      BY <2>3 DEF BeginAdd, Add, BeginFetch, Fetch, store
    <2>4. CASE AskExists(t) \/ Tag(t) \/ Resolve(t) \/ Predecessors(t)
      BY <2>4 DEF AskExists, Tag, Resolve, Predecessors, Asks
    <2> QED
      BY <2>1, <2>2, <2>3, <2>4 DEF Step
  <1>4. NamedFiles' = NamedFiles
    BY <1>1, <1>2 DEF NamedFiles
  <1>5. Blobs' = Blobs
    BY <1>1, <1>2, <1>3 DEF Blobs, Fetchable, Found, OnDisk, Data
  <1> QED
    BY <1>1, <1>4, <1>5 DEF PromiseVars

LEMMA CloseRefines ==
    ASSUME WellNamed, NamesInv, NEW t \in Thread, Close(t)
    PROVE  Promise!Close
  <1>1. FileInv /\ exists \subseteq Name
    BY DEF NamesInv, FileInv, CallInv, StoreTypes
  <1>2. NamedFiles' = NamedFiles
    <2>1. \A n \in exists : /\ PathOf[n] \in DOMAIN disk' <=> PathOf[n] \in DOMAIN disk
                            /\ PathOf[n] \in DOMAIN disk => disk'[PathOf[n]] = disk[PathOf[n]]
      BY <1>1, CloseKeeps
    <2>2. {m \in exists' : PathOf[m] \in DOMAIN disk'} = {m \in exists : PathOf[m] \in DOMAIN disk}
      BY <1>1, <2>1, CloseKeeps
    <2> QED
      BY <2>1, <2>2 DEF NamedFiles
  <1>3. Blobs' \subseteq Blobs
    <2> SUFFICES ASSUME NEW d \in Digest, (Found(d) /\ Data(d) = Content[d])'
                 PROVE  Found(d) /\ Data(d) = Content[d]
      BY DEF Blobs, Fetchable
    <2>1. UNCHANGED <<digestToPath, fallback>> /\ DOMAIN disk' \subseteq DOMAIN disk
          /\ \A p \in DOMAIN disk' : disk'[p] = disk[p]
      BY <1>1, CloseKeeps
    <2>2. CASE d \in DOMAIN digestToPath
      BY <2>1, <2>2 DEF Found, OnDisk, Data
    <2>3. CASE d \notin DOMAIN digestToPath
      BY <2>1, <2>3 DEF Found, OnDisk, Data
    <2> QED
      BY <2>2, <2>3
  <1>4. \E ds \in SUBSET Blobs : Blobs' = Blobs \ ds
    <2>1. Blobs \ Blobs' \in SUBSET Blobs /\ Blobs' = Blobs \ (Blobs \ Blobs')
      BY <1>3
    <2> QED
      BY <2>1
  <1>5. (~ closed)' = FALSE
    BY <1>1, CloseKeeps
  <1> QED
    BY <1>2, <1>4, <1>5 DEF Promise!Close, Blobs, Fetchable

LEMMA StepRefines ==
    ASSUME WellNamed, NamesInv, NamesInv', [Next]_vars
    PROVE  Promise!Next \/ UNCHANGED PromiseVars
  <1>1. ASSUME NEW t \in Thread, Step(t)
        PROVE  Promise!Next \/ UNCHANGED PromiseVars
    <2>1. CASE Close(t)
      <3>1. Promise!Close
        BY <2>1, CloseRefines
      <3> QED
        BY <3>1 DEF Promise!Next
    <2>2. CASE ~ Close(t) /\ closed
      BY <1>1, <2>2, ClosedStepRefines
    <2>3. CASE ~ Close(t) /\ ~ closed
      BY <1>1, <2>3, OpenStepRefines
    <2> QED
      BY <2>1, <2>2, <2>3
  <1>2. CASE UNCHANGED vars
    <2>1. UNCHANGED <<disk, exists, digestToPath, fallback, closed>>
      BY <1>2 DEF vars, store, meta
    <2>2. NamedFiles' = NamedFiles
      BY <2>1 DEF NamedFiles
    <2>3. Blobs' = Blobs
      BY <2>1 DEF Blobs, Fetchable, Found, OnDisk, Data
    <2> QED
      BY <2>1, <2>2, <2>3 DEF PromiseVars
  <1> QED
    BY <1>1, <1>2 DEF Next, Quiet

LEMMA InitRefines ==
    ASSUME Init
    PROVE  Promise!Init
  <1>1. NamedFiles = << >>
    <2>1. {m \in exists : PathOf[m] \in DOMAIN disk} = {}
      BY DEF Init
    <2>2. NamedFiles = [n \in {} |-> disk[PathOf[n]]]
      BY <2>1 DEF NamedFiles
    <2> QED
      BY <2>2
  <1>2. Blobs = {}
    BY DEF Init, Blobs, Fetchable, Found, OnDisk
  <1>3. (~ closed) = TRUE
    BY DEF Init
  <1> QED
    BY <1>1, <1>2, <1>3 DEF Promise!Init, Blobs, Fetchable

\* The store is the append-only store of named, complete blobs its callers rely
\* on (BlobStore): every step of every interleaving of pushes, their duplicates
\* and failures, adds, tags and Close stores a blob, names one, closes the
\* store or changes nothing of it (file.go:134-513).
THEOREM StoreImplementsBlobStore ==
    ASSUME WellNamed
    PROVE  Spec => ImplementsBlobStore
  <1>1. Init => NamesInv
    BY NamesInit
  <1>2. NamesInv /\ [Next]_vars => NamesInv'
    BY NamesInvStep
  <1>3. Init => Promise!Init
    BY InitRefines
  <1>4. NamesInv /\ NamesInv' /\ [Next]_vars => [Promise!Next]_(Promise!vars)
    BY StepRefines DEF Promise!vars, PromiseVars, Blobs, Fetchable
  <1> QED
    BY <1>1, <1>2, <1>3, <1>4, PTL DEF Spec, ImplementsBlobStore, Promise!Spec

-----------------------------------------------------------------------------
(* What the graph holds.                                                   *)

\* A push that has succeeded so far has entered what it is done with; what
\* Predecessors has answered is in the store.
IndexedInv(t) ==
    /\ call[t].kind = "push" /\ Succeeds(t) =>
          \A i \in 1..At(t) : (pc[t] \notin {"start", "done"} => i # At(t)) =>
             EdgesOf(call[t].descs[i].digest) \subseteq edges
    /\ call[t].kind = "predecessors" /\ result[t].status = "ok" => result[t].data[1] \subseteq Kept

EdgesKept == \A e \in edges : e[1] \in Kept /\ e \in EdgesOf(e[1])

GraphInv == HeldInv /\ EdgesKept /\ \A t \in Thread : IndexedInv(t)

\* A push enters what it has stored.
LEMMA IndexEnters ==
    ASSUME HeldInv, NEW t \in Thread, Index(t)
    PROVE  /\ edges' = edges \cup EdgesOf(Own(t).digest) /\ Own(t).digest \in Kept
           /\ call[t].kind = "push" /\ pc'[t] \in {"start", "done"} /\ todo' = todo
           /\ Own(t) = call[t].descs[At(t)] /\ At(t) \in 1..Len(call[t].descs) /\ Succeeds(t)
  <1>1. /\ pc[t] = "index" /\ edges' = edges \cup EdgesOf(Own(t).digest) /\ todo' = todo
        /\ pc'[t] \in {"start", "done"}
    BY DEF Index, Goto, Return, HeldInv, FileInv, CallInv, Functions
  <1>2. call \in Programs /\ PlaceInv(t) /\ PushInv(t) /\ StoredInv(t)
    BY <1>1 DEF HeldInv, FileInv, CallInv, PlaceInv, PushSteps
  <1>3. Own(t) = call[t].descs[At(t)] /\ At(t) \in 1..Len(call[t].descs)
    BY <1>2, OwnFacts DEF PushInv, At, Own
  <1>4. Succeeds(t) /\ ~ AtOwn(t) /\ call[t].kind = "push"
    BY <1>1, <1>2 DEF Succeeds, AtOwn, PushInv
  <1>5. At(t) \in 1..At(t)
    BY <1>3
  <1>6. Exists(Own(t))
    BY <1>2, <1>3, <1>4, <1>5 DEF StoredInv
  <1> QED
    BY <1>1, <1>3, <1>4, <1>6 DEF Exists, Kept

LEMMA EdgesSame ==
    ASSUME NEW t \in Thread, Step(t), ~ Index(t)
    PROVE  edges' = edges
  <1>1. CASE BeginPush(t) \/ PushUnnamed(t) \/ OpenNamed(t) \/ CopyBlock(t)
    BY <1>1 DEF BeginPush, PushUnnamed, OpenNamed, CopyBlock, store, meta
  <1>2. CASE SaveFile(t) \/ SetAttributes(t)
    BY <1>2 DEF SaveFile, SetAttributes, PushFails, meta
  <1>3. CASE LoadSuccessors(t) \/ NextSuccessor(t) \/ Refetch(t) \/ LockGraph(t)
    BY <1>3 DEF LoadSuccessors, NextSuccessor, Refetch, LockGraph, store, meta
  <1>4. CASE BeginAdd(t) \/ Add(t) \/ BeginFetch(t) \/ Fetch(t) \/ Close(t)
    BY <1>4 DEF BeginAdd, Add, BeginFetch, Fetch, Close, store, meta
  <1>5. CASE AskExists(t) \/ Tag(t) \/ Resolve(t) \/ Predecessors(t)
    BY <1>5 DEF AskExists, Tag, Resolve, Predecessors, Asks
  <1> QED
    BY <1>1, <1>2, <1>3, <1>4, <1>5 DEF Step

LEMMA EdgesStep ==
    ASSUME HeldInv, EdgesKept, NEW t \in Thread, Step(t)
    PROVE  edges \subseteq edges' /\ Kept \subseteq Kept' /\ EdgesKept'
  <1>1. Kept \subseteq Kept'
    BY StoreGrows DEF Kept, HeldInv, FileInv
  <1>2. CASE Index(t)
    BY <1>1, <1>2, IndexEnters DEF EdgesKept, EdgesOf
  <1>3. CASE ~ Index(t)
    BY <1>1, <1>3, EdgesSame DEF EdgesKept, EdgesOf
  <1> QED
    BY <1>2, <1>3

\* A step that leaves a call where it is.
LEMMA IndexedKept ==
    ASSUME NEW u \in Thread, IndexedInv(u), edges \subseteq edges', Kept \subseteq Kept', call' = call,
           todo'[u] = todo[u], pc'[u] = pc[u], result'[u] = result[u]
    PROVE  IndexedInv(u)'
  <1>1. At(u)' = At(u) /\ (Succeeds(u)' <=> Succeeds(u)) /\ \A d : EdgesOf(d)' = EdgesOf(d)
    BY DEF At, Succeeds, EdgesOf
  <1> QED
    BY <1>1 DEF IndexedInv

\* A push that stays at its place.
LEMMA IndexedMoves ==
    ASSUME HeldInv, NEW t \in Thread, Step(t), IndexedInv(t), edges \subseteq edges',
           call' = call, todo'[t] = todo[t],
           call[t].kind = "push", Succeeds(t)' => pc'[t] \notin {"start", "done"}
    PROVE  IndexedInv(t)'
  <1>1. Succeeds(t)
    BY StoreGrows DEF Succeeds, HeldInv, FileInv
  <1>2. At(t)' = At(t) /\ \A d : EdgesOf(d)' = EdgesOf(d)
    BY DEF At, EdgesOf
  <1> QED
    BY <1>1, <1>2 DEF IndexedInv

LEMMA PushIndexed ==
    ASSUME HeldInv, NEW t \in Thread, Step(t), IndexedInv(t), edges \subseteq edges',
           call[t].kind = "push"
    PROVE  IndexedInv(t)'
  <1>1. /\ CallInv /\ Functions /\ PlaceInv(t) /\ call' = call /\ pc \in [Thread -> PlacesOf]
    BY StepOfOne DEF HeldInv, FileInv, CallInv, OthersStand
  <1> USE DEF Functions, Goto, Return
  <1>2. CASE BeginPush(t)
    <2>1. CASE closed
      BY <1>1, <1>2, <2>1 DEF BeginPush, IndexedInv, Succeeds
    <2>2. CASE ~ closed
      <3>1. /\ pc[t] = "start" /\ todo'[t] = Tail(todo[t]) /\ pc'[t] = "push" /\ todo[t] # <<>>
        BY <1>1, <1>2, <2>2 DEF BeginPush, PlaceInv
      <3>2. Len(todo'[t]) = Len(todo[t]) - 1 /\ Len(todo[t]) \in Nat \ {0} /\ Len(call[t].descs) \in Nat
        BY <1>1, <3>1, SuffixTail, FileStoreAssumption DEF PlaceInv, CallInv
      <3>3. At(t) \in Int /\ At(t)' = At(t) + 1 /\ \A d : EdgesOf(d)' = EdgesOf(d)
        BY <1>1, <3>2 DEF At, EdgesOf
      <3>4. ASSUME NEW i \in 1..(At(t) + 1), i # At(t) + 1
            PROVE  EdgesOf(call[t].descs[i].digest) \subseteq edges'
        <4>1. i \in 1..At(t) /\ Succeeds(t)
          BY <3>1, <3>3, <3>4 DEF Succeeds
        <4> QED
          BY <3>1, <4>1 DEF IndexedInv
      <3> QED
        BY <1>1, <3>1, <3>3, <3>4 DEF IndexedInv
    <2> QED
      BY <2>1, <2>2
  <1>3. CASE PushUnnamed(t) \/ OpenNamed(t) \/ CopyBlock(t) \/ SaveFile(t) \/ SetAttributes(t)
    <2>1. todo' = todo /\ (Succeeds(t)' => pc'[t] \notin {"start", "done"})
      BY <1>1, <1>3 DEF PushUnnamed, OpenNamed, CopyBlock, SaveFile, SetAttributes, PushFails, Pushed,
         Succeeds
    <2> QED
      BY <1>1, <2>1, IndexedMoves
  <1>4. CASE LoadSuccessors(t) \/ NextSuccessor(t) \/ Refetch(t) \/ LockGraph(t)
    <2>1. todo' = todo /\ (Succeeds(t)' => pc'[t] \notin {"start", "done"})
      BY <1>1, <1>4 DEF LoadSuccessors, NextSuccessor, Refetch, LockGraph, Succeeds
    <2> QED
      BY <1>1, <2>1, IndexedMoves
  <1>5. CASE Index(t)
    <2>1. At(t)' = At(t) /\ \A d : EdgesOf(d)' = EdgesOf(d)
      BY <1>1, <1>5, IndexEnters DEF At, EdgesOf
    <2>2. ASSUME NEW i \in 1..At(t)
          PROVE  EdgesOf(call[t].descs[i].digest) \subseteq edges'
      <3>1. CASE i = At(t)
        BY <1>5, <3>1, IndexEnters
      <3>2. CASE i # At(t)
        BY <1>5, <2>2, <3>2, IndexEnters DEF IndexedInv
      <3> QED
        BY <3>1, <3>2
    <2> QED
      BY <1>1, <2>1, <2>2 DEF IndexedInv
  <1>6. CASE BeginAdd(t) \/ Add(t) \/ BeginFetch(t) \/ Fetch(t) \/ Close(t)
    BY <1>1, <1>6 DEF BeginAdd, Add, BeginFetch, Fetch, Close, PlaceInv
  <1>7. CASE AskExists(t) \/ Tag(t) \/ Resolve(t) \/ Predecessors(t)
    BY <1>7 DEF AskExists, Tag, Resolve, Predecessors, Asks
  <1> QED
    BY <1>2, <1>3, <1>4, <1>5, <1>6, <1>7 DEF Step

\* What Predecessors answers has been entered.
LEMMA AnswerIndexed ==
    ASSUME HeldInv, EdgesKept, NEW t \in Thread, Step(t), call[t].kind = "predecessors",
           Kept \subseteq Kept'
    PROVE  IndexedInv(t)'
  <1>1. CallInv /\ Functions /\ PlaceInv(t) /\ call' = call /\ pc[t] # "done"
    BY StepOfOne, StoreGrows DEF HeldInv, FileInv, CallInv, OthersStand
  <1>2. pc[t] = "start" /\ Predecessors(t)
    <2>1. pc[t] = "start"
      BY <1>1 DEF PlaceInv
    <2>2. ~ (BeginPush(t) \/ BeginAdd(t) \/ BeginFetch(t) \/ Close(t))
      BY DEF BeginPush, BeginAdd, BeginFetch, Close
    <2>3. ~ (PushUnnamed(t) \/ OpenNamed(t) \/ CopyBlock(t) \/ SaveFile(t) \/ SetAttributes(t))
      BY <2>1 DEF PushUnnamed, OpenNamed, CopyBlock, SaveFile, SetAttributes
    <2>4. ~ (LoadSuccessors(t) \/ NextSuccessor(t) \/ Refetch(t) \/ LockGraph(t) \/ Index(t))
      BY <2>1 DEF LoadSuccessors, NextSuccessor, Refetch, LockGraph, Index
    <2>5. ~ (Add(t) \/ Fetch(t) \/ AskExists(t) \/ Tag(t) \/ Resolve(t))
      BY <2>1 DEF Add, Fetch, AskExists, Tag, Resolve, Asks
    <2> QED
      BY <2>1, <2>2, <2>3, <2>4, <2>5 DEF Step
  <1> DEFINE answer == {e[1] : e \in {f \in edges : f[2] = cur[t].digest}}
  <1>3. result'[t].status = "ok" => result'[t].data = <<answer>>
    BY <1>1, <1>2 DEF Predecessors, Return, Functions
  <1>4. answer \subseteq Kept
    BY DEF EdgesKept
  <1> HIDE DEF answer
  <1>5. <<answer>>[1] = answer
    OBVIOUS
  <1> QED
    BY <1>1, <1>3, <1>4, <1>5 DEF IndexedInv

LEMMA GraphInit ==
    ASSUME WellNamed, Init
    PROVE  GraphInv
  <1>1. HeldInv /\ EdgesKept
    BY HeldInit DEF Init, EdgesKept
  <1>2. ASSUME NEW t \in Thread
        PROVE  IndexedInv(t)
    <2>1. Len(call[t].descs) \in Nat /\ todo[t] = call[t].descs /\ result[t].status # "ok"
      BY FileStoreAssumption DEF Init
    <2>2. At(t) = 0
      BY <2>1 DEF At
    <2> QED
      BY <2>1, <2>2 DEF IndexedInv
  <1> QED
    BY <1>1, <1>2 DEF GraphInv

LEMMA GraphStep ==
    ASSUME WellNamed, GraphInv, [Next]_vars
    PROVE  GraphInv'
  <1>1. HeldInv /\ HeldInv' /\ EdgesKept
    BY HeldStep DEF GraphInv
  <1>2. ASSUME NEW t \in Thread, Step(t)
        PROVE  EdgesKept' /\ \A u \in Thread : IndexedInv(u)'
    <2>1. /\ OthersStand(t) /\ \A u \in Thread : IndexedInv(u)
          /\ edges \subseteq edges' /\ Kept \subseteq Kept' /\ EdgesKept'
      BY <1>1, <1>2, StepOfOne, EdgesStep DEF HeldInv, FileInv, CallInv, GraphInv
    <2>2. ASSUME NEW u \in Thread \ {t}
          PROVE  IndexedInv(u)'
      BY <2>1, IndexedKept DEF OthersStand
    <2>3. IndexedInv(t)'
      <3>1. CASE call[t].kind = "push"
        BY <1>1, <1>2, <2>1, <3>1, PushIndexed
      <3>2. CASE call[t].kind = "predecessors"
        BY <1>1, <1>2, <2>1, <3>2, AnswerIndexed
      <3>3. CASE call[t].kind \notin {"push", "predecessors"}
        BY <2>1, <3>3 DEF IndexedInv, OthersStand
      <3> QED
        BY <3>1, <3>2, <3>3
    <2> QED
      BY <2>1, <2>2, <2>3
  <1>3. CASE UNCHANGED vars
    <2>1. UNCHANGED <<edges, digestToPath, fallback, call, todo, pc, result>>
      BY <1>3 DEF vars, store, meta, local
    <2>2. Kept' = Kept
      BY <2>1 DEF Kept
    <2>3. EdgesKept'
      BY <1>1, <2>1, <2>2 DEF EdgesKept, EdgesOf
    <2> QED
      BY <1>1, <2>1, <2>2, <2>3, IndexedKept DEF GraphInv
  <1> QED
    BY <1>1, <1>2, <1>3 DEF Next, Quiet, GraphInv

\* The graph is that of the pushed content, beside any other calls and after
\* failures: a push that succeeds has entered its manifests with all they list,
\* and nothing is entered or answered that cannot be fetched (file.go:227-234
\* and 395-408).
THEOREM GraphFollowsContent ==
    ASSUME WellNamed
    PROVE  Spec => []GraphOfPushed
  <1>1. GraphInv => GraphOfPushed
    <2> SUFFICES ASSUME GraphInv
                 PROVE  GraphOfPushed
      OBVIOUS
    <2>1. ASSUME ~ closed, NEW d \in Kept
          PROVE  Fetchable(d)
      BY <2>1, BlobsAreKept DEF GraphInv, HeldInv, Blobs
    <2>2. ASSUME NEW t \in Thread, call[t].kind = "push", result[t].status = "ok",
                 NEW m \in ToSet(call[t].descs)
          PROVE  EdgesOf(m.digest) \subseteq edges
      <3>1. /\ pc[t] = "done" /\ todo[t] = <<>> /\ call[t].descs \in Seq(Descriptor) /\ IndexedInv(t)
        BY <2>2, FileStoreAssumption DEF GraphInv, HeldInv, FileInv, CallInv, PlaceInv
      <3>2. At(t) = Len(call[t].descs) /\ Succeeds(t)
        BY <2>2, <3>1 DEF At, Succeeds
      <3>3. PICK i \in 1..Len(call[t].descs) : call[t].descs[i] = m
        BY <3>1, ListFacts
      <3> QED
        BY <2>2, <3>1, <3>2, <3>3 DEF IndexedInv
    <2>3. ASSUME ~ closed, NEW e \in edges
          PROVE  Fetchable(e[1]) /\ e \in EdgesOf(e[1])
      BY <2>1, <2>3 DEF GraphInv, EdgesKept
    <2>4. ASSUME ~ closed, NEW t \in Thread, call[t].kind = "predecessors",
                 result[t].status = "ok", NEW m \in result[t].data[1]
          PROVE  Fetchable(m)
      BY <2>1, <2>4 DEF GraphInv, IndexedInv
    <2> QED
      BY <2>2, <2>3, <2>4 DEF GraphOfPushed
  <1>2. Init => GraphInv
    BY GraphInit
  <1>3. GraphInv /\ [Next]_vars => GraphInv'
    BY GraphStep
  <1> QED
    BY <1>1, <1>2, <1>3, PTL DEF Spec
=============================================================================
