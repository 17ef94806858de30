----------------------------- MODULE FetchProofs ----------------------------
(***************************************************************************)
(* Proofs about FetchProgress for any graph of blobs, whatever the content *)
(* store holds before and however many calls fail.                         *)
(***************************************************************************)
EXTENDS FetchProgress, TLAPS

-----------------------------------------------------------------------------
(* The inductive invariant.                                                *)

FetchTypeOK ==
    /\ shown \in BOOLEAN /\ failed \in BOOLEAN /\ image \in BOOLEAN
    /\ cancelled \in BOOLEAN /\ last \in BOOLEAN
    /\ old \subseteq content /\ content \subseteq Blob /\ jobs \subseteq Blob
    /\ main \in {"fetch", "wait", "ok", "error"}
    /\ state \in [Blob -> {"none", "todo", "job", "writing", "stored", "end"}]
    /\ ui \in {"select", "list", "draw", "closed"}
    /\ active \subseteq Blob
    /\ seen \in [Blob -> {"none", "downloading", "waiting", "exists", "done"}]
    /\ frame \in [Blob -> {"none", "downloading", "waiting", "exists", "done"}]

\* The goroutines of the blobs, until one of them fails.
Downloads ==
    /\ state[Root] # "none"
    /\ \A b \in jobs : state[b] # "none"
    /\ ~ failed => \A b \in Blob :
          /\ state[b] = "stored" => b \in content
          /\ state[b] = "end" =>
                b \in content /\ \A c \in Children[b] : state[c] # "none"
    /\ image => ~ failed /\ Dispatched

\* Fetch and the goroutine that shows its progress.
Returns ==
    /\ main \in {"wait", "ok"} => image
    /\ cancelled => main # "fetch"
    /\ last => cancelled /\ shown
    /\ main = "ok" => ui = "closed"

\* On the last frame nothing runs any more, and all is shown as done.
LastFrame ==
    /\ ui \in {"list", "draw"} /\ last => active = {}
    /\ ui = "draw" /\ last => \A b \in jobs : seen[b] \in {"done", "exists"}
    /\ ui = "closed" /\ shown => last /\ \A b \in jobs : frame[b] \in {"done", "exists"}

FetchInv == FetchTypeOK /\ Downloads /\ Returns /\ LastFrame

-----------------------------------------------------------------------------
(* The goroutines of the blobs.                                            *)

\* A goroutine runs only before Fetch has an image.
LEMMA RunsBeforeImage ==
    ASSUME FetchInv, NEW b \in Blob, NEW step \in {"todo", "job", "writing", "stored"}, At(b, step)
    PROVE  main = "fetch" /\ state[b] = step /\ ~ image /\ ~ cancelled /\ ~ last
  BY DEF FetchInv, Downloads, Dispatched, Returns, At

\* Until then the progress goroutine is not concerned.
LEMMA ShowingSame ==
    ASSUME FetchInv, ~ last, main = "fetch",
           UNCHANGED <<shown, main, image, cancelled, showing>>
    PROVE  Returns' /\ LastFrame'
  <1>1. UNCHANGED <<ui, active, seen, last, frame>>
    BY DEF showing
  <1> QED
    BY <1>1 DEF FetchInv, Returns, LastFrame

LEMMA GotoFacts ==
    ASSUME FetchInv, NEW b \in Blob,
           NEW step \in {"none", "todo", "job", "writing", "stored", "end"}, Goto(b, step)
    PROVE  /\ state' \in [Blob -> {"none", "todo", "job", "writing", "stored", "end"}]
           /\ state'[b] = step
           /\ \A c \in Blob \ {b} : state'[c] = state[c]
  BY DEF FetchInv, FetchTypeOK, Goto

LEMMA AddJobInv == ASSUME FetchInv, NEW b \in Blob, AddJob(b) PROVE FetchInv'
  <1>0. /\ jobs' = jobs \cup {b} /\ state[b] = "todo"
        /\ UNCHANGED <<shown, old, main, failed, content, image, cancelled, showing, faults>>
        /\ main = "fetch" /\ ~ image /\ ~ cancelled /\ ~ last
    BY RunsBeforeImage DEF AddJob
  <1>1. /\ state' \in [Blob -> {"none", "todo", "job", "writing", "stored", "end"}]
        /\ state'[b] = "job" /\ \A c \in Blob \ {b} : state'[c] = state[c]
    BY GotoFacts DEF AddJob
  <1>2. FetchTypeOK'
    BY <1>0, <1>1 DEF FetchInv, FetchTypeOK, showing
  <1>3. Downloads'
    BY <1>0, <1>1, FetchAssumption DEF FetchInv, FetchTypeOK, Downloads
  <1>4. Returns' /\ LastFrame'
    BY <1>0, ShowingSame
  <1> QED
    BY <1>2, <1>3, <1>4 DEF FetchInv

LEMMA OpenInv == ASSUME FetchInv, NEW b \in Blob, Open(b) PROVE FetchInv'
  <1> DEFINE step == IF b \in content THEN "stored" ELSE "writing"
  <1>0. /\ state[b] = "job" /\ Goto(b, step)
        /\ UNCHANGED <<shown, old, main, failed, content, image, jobs, cancelled, showing, faults>>
        /\ main = "fetch" /\ ~ image /\ ~ cancelled /\ ~ last
    BY RunsBeforeImage DEF Open
  <1>1. step \in {"none", "todo", "job", "writing", "stored", "end"}
    OBVIOUS
  <1>2. /\ state' \in [Blob -> {"none", "todo", "job", "writing", "stored", "end"}]
        /\ state'[b] = step /\ \A c \in Blob \ {b} : state'[c] = state[c]
    BY <1>0, <1>1, GotoFacts
  <1>3. FetchTypeOK'
    BY <1>0, <1>2 DEF FetchInv, FetchTypeOK, showing
  <1>4. Downloads'
    BY <1>0, <1>2, FetchAssumption DEF FetchInv, FetchTypeOK, Downloads
  <1>5. Returns' /\ LastFrame'
    BY <1>0, ShowingSame
  <1> QED
    BY <1>3, <1>4, <1>5 DEF FetchInv

LEMMA CommitInv == ASSUME FetchInv, NEW b \in Blob, Commit(b) PROVE FetchInv'
  <1>0. /\ state[b] = "writing" /\ content' = content \cup {b}
        /\ UNCHANGED <<shown, old, main, failed, image, jobs, cancelled, showing, faults>>
        /\ main = "fetch" /\ ~ image /\ ~ cancelled /\ ~ last
    BY RunsBeforeImage DEF Commit
  <1>1. /\ state' \in [Blob -> {"none", "todo", "job", "writing", "stored", "end"}]
        /\ state'[b] = "stored" /\ \A c \in Blob \ {b} : state'[c] = state[c]
    BY GotoFacts DEF Commit
  <1>2. FetchTypeOK'
    BY <1>0, <1>1 DEF FetchInv, FetchTypeOK, showing
  <1>3. Downloads'
    BY <1>0, <1>1, FetchAssumption DEF FetchInv, FetchTypeOK, Downloads
  <1>4. Returns' /\ LastFrame'
    BY <1>0, ShowingSame
  <1> QED
    BY <1>2, <1>3, <1>4 DEF FetchInv

LEMMA ExpandInv == ASSUME FetchInv, NEW b \in Blob, Expand(b) PROVE FetchInv'
  <1>0. /\ state[b] = "stored"
        /\ UNCHANGED <<shown, old, main, failed, content, image, jobs, cancelled, showing, faults>>
        /\ main = "fetch" /\ ~ image /\ ~ cancelled /\ ~ last
    BY RunsBeforeImage DEF Expand
  <1>1. /\ state' \in [Blob -> {"none", "todo", "job", "writing", "stored", "end"}]
        /\ state'[b] = "end"
        /\ \A c \in Blob \ {b} :
              state'[c] = IF c \in Children[b] /\ state[c] = "none" THEN "todo" ELSE state[c]
    BY DEF Expand, FetchInv, FetchTypeOK
  <1>2. /\ \A c \in Blob : state[c] # "none" => state'[c] # "none"
        /\ \A c \in Children[b] : c \in Blob /\ state'[c] # "none"
        /\ \A c \in Blob \ {b} : state'[c] \in {"stored", "end"} => state'[c] = state[c]
    BY <1>1, FetchAssumption
  <1>3. FetchTypeOK'
    BY <1>0, <1>1 DEF FetchInv, FetchTypeOK, showing
  <1>4. Downloads'
    <2>1. state'[Root] # "none" /\ \A c \in jobs' : state'[c] # "none"
      BY <1>0, <1>2, FetchAssumption DEF FetchInv, FetchTypeOK, Downloads
    <2>2. ASSUME ~ failed, NEW c \in Blob
          PROVE  /\ state'[c] = "stored" => c \in content
                 /\ state'[c] = "end" =>
                       c \in content /\ \A d \in Children[c] : state'[d] # "none"
      <3>1. CASE c = b
        BY <1>0, <1>1, <1>2, <2>2, <3>1 DEF FetchInv, Downloads
      <3>2. CASE c # b
        BY <1>2, <2>2, <3>2, FetchAssumption DEF FetchInv, Downloads
      <3> QED
        BY <3>1, <3>2
    <2> QED
      BY <1>0, <2>1, <2>2 DEF Downloads
  <1>5. Returns' /\ LastFrame'
    BY <1>0, ShowingSame
  <1> QED
    BY <1>3, <1>4, <1>5 DEF FetchInv

LEMMA AbortInv == ASSUME FetchInv, NEW b \in Blob, Abort(b) PROVE FetchInv'
  <1>0. /\ failed' = TRUE
        /\ UNCHANGED <<shown, old, main, content, image, jobs, cancelled, showing>>
        /\ main = "fetch" /\ ~ image /\ ~ cancelled /\ ~ last
    BY RunsBeforeImage DEF Abort
  <1>1. /\ state' \in [Blob -> {"none", "todo", "job", "writing", "stored", "end"}]
        /\ state'[b] = "end" /\ \A c \in Blob \ {b} : state'[c] = state[c]
    BY GotoFacts DEF Abort
  <1>2. FetchTypeOK'
    BY <1>0, <1>1 DEF FetchInv, FetchTypeOK, showing
  <1>3. Downloads'
    BY <1>0, <1>1, FetchAssumption DEF FetchInv, FetchTypeOK, Downloads
  <1>4. Returns' /\ LastFrame'
    BY <1>0, ShowingSame
  <1> QED
    BY <1>2, <1>3, <1>4 DEF FetchInv

-----------------------------------------------------------------------------
(* Fetch.                                                                  *)

LEMMA CreateImageInv == ASSUME FetchInv, CreateImage PROVE FetchInv'
  <1>0. /\ main = "fetch" /\ ~ image /\ ~ failed /\ Dispatched
        /\ UNCHANGED <<shown, old, main, state, content, jobs, cancelled>>
        /\ UNCHANGED <<ui, active, seen, last, frame>>
        /\ \/ image' = TRUE /\ failed' = failed
           \/ failed' = TRUE /\ image' = image
    BY DEF CreateImage, showing
  <1>1. FetchTypeOK'
    BY <1>0 DEF FetchInv, FetchTypeOK
  <1>2. Downloads'
    BY <1>0 DEF FetchInv, Downloads, Dispatched
  <1>3. Returns' /\ LastFrame'
    BY <1>0 DEF FetchInv, Returns, LastFrame
  <1> QED
    BY <1>1, <1>2, <1>3 DEF FetchInv

LEMMA FetchReturnsInv == ASSUME FetchInv, FetchReturns PROVE FetchInv'
  <1>0. /\ main = "fetch" /\ (image \/ failed) /\ cancelled' = TRUE
        /\ main' = IF failed THEN "error" ELSE "wait"
        /\ UNCHANGED <<shown, old, failed, state, content, image, jobs>>
        /\ UNCHANGED <<ui, active, seen, last, frame>>
    BY DEF FetchReturns, Stopped, AfterFetch, showing
  <1>1. FetchTypeOK'
    BY <1>0 DEF FetchInv, FetchTypeOK
  <1>2. Downloads'
    BY <1>0 DEF FetchInv, Downloads, Dispatched
  <1>3. Returns'
    BY <1>0 DEF FetchInv, Returns
  <1>4. LastFrame'
    BY <1>0 DEF FetchInv, LastFrame
  <1> QED
    BY <1>1, <1>2, <1>3, <1>4 DEF FetchInv

LEMMA ProgressClosedInv == ASSUME FetchInv, ProgressClosed PROVE FetchInv'
  <1>0. /\ main = "wait" /\ ui = "closed" /\ main' = "ok"
        /\ UNCHANGED <<shown, old, failed, state, content, image, jobs, cancelled>>
        /\ UNCHANGED <<ui, active, seen, last, frame>>
    BY DEF ProgressClosed, showing
  <1>1. FetchTypeOK' /\ Downloads' /\ Returns' /\ LastFrame'
    BY <1>0 DEF FetchInv, FetchTypeOK, Downloads, Dispatched, Returns, LastFrame
  <1> QED
    BY <1>1 DEF FetchInv

-----------------------------------------------------------------------------
(* The progress goroutine.                                                 *)

LEMMA FetchingSame ==
    ASSUME FetchInv, UNCHANGED fetching
    PROVE  /\ UNCHANGED <<shown, old, main, failed, state, content, image, jobs, cancelled>>
           /\ Downloads'
  <1>1. UNCHANGED <<shown, old, main, failed, state, content, image, jobs, cancelled>>
    BY DEF fetching
  <1> QED
    BY <1>1 DEF FetchInv, Downloads, Dispatched

LEMMA NoOutputInv == ASSUME FetchInv, NoOutput PROVE FetchInv'
  <1>0. /\ ui = "select" /\ ~ shown /\ ui' = "closed"
        /\ UNCHANGED <<shown, old, main, failed, state, content, image, jobs, cancelled>>
        /\ UNCHANGED <<active, seen, last, frame>> /\ Downloads'
    BY FetchingSame DEF NoOutput
  <1>1. FetchTypeOK' /\ Returns' /\ LastFrame'
    BY <1>0 DEF FetchInv, FetchTypeOK, Returns, LastFrame
  <1> QED
    BY <1>0, <1>1 DEF FetchInv

LEMMA ContextDoneInv == ASSUME FetchInv, ContextDone PROVE FetchInv'
  <1>0. /\ ui = "select" /\ shown /\ cancelled /\ last' = TRUE
        /\ UNCHANGED <<shown, old, main, failed, state, content, image, jobs, cancelled>>
        /\ UNCHANGED <<ui, active, seen, frame>> /\ Downloads'
    BY FetchingSame DEF ContextDone
  <1>1. FetchTypeOK' /\ Returns' /\ LastFrame'
    BY <1>0 DEF FetchInv, FetchTypeOK, Returns, LastFrame
  <1> QED
    BY <1>0, <1>1 DEF FetchInv

LEMMA TickInv == ASSUME FetchInv, Tick PROVE FetchInv'
  <1>0. /\ ui = "select" /\ shown
        /\ UNCHANGED <<shown, old, main, failed, state, content, image, jobs, cancelled>>
        /\ UNCHANGED <<seen, last, frame>> /\ Downloads'
        /\ \/ UNCHANGED <<active, ui>>
           \/ active' = {b \in Blob : ~ last /\ state[b] = "writing"} /\ ui' = "list"
    BY FetchingSame DEF Tick
  <1>1. FetchTypeOK'
    BY <1>0 DEF FetchInv, FetchTypeOK
  <1>2. Returns'
    BY <1>0 DEF FetchInv, Returns
  <1>3. LastFrame'
    BY <1>0 DEF FetchInv, FetchTypeOK, LastFrame
  <1> QED
    BY <1>0, <1>1, <1>2, <1>3 DEF FetchInv

\* What the table has for a blob after an update.
LEMMA UpdateFacts ==
    ASSUME FetchInv, NEW some, some \subseteq jobs, Update(some)
    PROVE  /\ seen' \in [Blob -> {"none", "downloading", "waiting", "exists", "done"}]
           /\ last /\ active = {} => \A b \in some : seen'[b] \in {"done", "exists"}
  <1>1. \A b \in Blob : Updated(b) \in {"none", "downloading", "waiting", "exists", "done"}
    BY DEF FetchInv, FetchTypeOK, Updated, Info
  <1>2. last /\ active = {} => \A b \in Blob : Updated(b) \in {"done", "exists"}
    BY DEF Updated
  <1>3. some \subseteq Blob
    BY DEF FetchInv, FetchTypeOK
  <1> QED
    BY <1>1, <1>2, <1>3 DEF Update, FetchInv, FetchTypeOK

LEMMA ListInv == ASSUME FetchInv, List PROVE FetchInv'
  <1>0. /\ ui = "list"
        /\ UNCHANGED <<shown, old, main, failed, state, content, image, jobs, cancelled>>
        /\ UNCHANGED <<active, last, frame>> /\ Downloads'
    BY FetchingSame DEF List
  <1>1. CASE Update(jobs) /\ ui' = "draw"
    <2>1. /\ seen' \in [Blob -> {"none", "downloading", "waiting", "exists", "done"}]
          /\ last /\ active = {} => \A b \in jobs : seen'[b] \in {"done", "exists"}
      BY <1>1, UpdateFacts
    <2>2. FetchTypeOK'
      BY <1>0, <1>1, <2>1 DEF FetchInv, FetchTypeOK
    <2>3. Returns' /\ LastFrame'
      BY <1>0, <1>1, <2>1 DEF FetchInv, Returns, LastFrame
    <2> QED
      BY <1>0, <2>2, <2>3 DEF FetchInv
  <1>2. CASE \E b \in Asked, some \in SUBSET (jobs \ active) :
                b \notin some /\ Update(some) /\ ui' = "select"
    <2>1. PICK b \in Asked, some \in SUBSET (jobs \ active) : Update(some) /\ ui' = "select"
      BY <1>2
    <2>2. seen' \in [Blob -> {"none", "downloading", "waiting", "exists", "done"}]
      BY <2>1, UpdateFacts
    <2>3. FetchTypeOK'
      BY <1>0, <2>1, <2>2 DEF FetchInv, FetchTypeOK
    <2>4. Returns' /\ LastFrame'
      BY <1>0, <2>1 DEF FetchInv, Returns, LastFrame
    <2> QED
      BY <1>0, <2>3, <2>4 DEF FetchInv
  <1> QED
    BY <1>1, <1>2 DEF List

LEMMA DrawInv == ASSUME FetchInv, Draw PROVE FetchInv'
  <1>0. /\ ui = "draw" /\ ui' = IF last THEN "closed" ELSE "select"
        /\ frame' = [b \in Blob |-> IF b \in jobs THEN seen[b] ELSE "none"]
        /\ UNCHANGED <<shown, old, main, failed, state, content, image, jobs, cancelled>>
        /\ UNCHANGED <<active, seen, last>> /\ Downloads'
    BY FetchingSame DEF Draw
  <1>1. FetchTypeOK'
    BY <1>0 DEF FetchInv, FetchTypeOK
  <1>2. Returns'
    BY <1>0 DEF FetchInv, Returns
  <1>3. LastFrame'
    BY <1>0 DEF FetchInv, FetchTypeOK, LastFrame
  <1> QED
    BY <1>0, <1>1, <1>2, <1>3 DEF FetchInv

-----------------------------------------------------------------------------
(* The invariant and the theorems.                                         *)

LEMMA InitInv == Init => FetchInv
  <1> SUFFICES ASSUME Init PROVE FetchInv
    OBVIOUS
  <1> USE DEF Init
  <1>1. FetchTypeOK
    BY FetchAssumption DEF FetchTypeOK
  <1>2. Downloads
    BY FetchAssumption DEF Downloads
  <1>3. Returns /\ LastFrame
    BY DEF Returns, LastFrame
  <1> QED
    BY <1>1, <1>2, <1>3 DEF FetchInv

LEMMA StutterInv == ASSUME FetchInv, UNCHANGED vars PROVE FetchInv'
  BY DEF FetchInv, FetchTypeOK, Downloads, Dispatched, Returns, LastFrame, vars, fetching, showing

LEMMA NextInv == FetchInv /\ [Next]_vars => FetchInv'
  <1> SUFFICES ASSUME FetchInv, [Next]_vars PROVE FetchInv'
    OBVIOUS
  <1>1. ASSUME NEW b \in Blob, AddJob(b) \/ Open(b) \/ Commit(b) \/ Expand(b) \/ Abort(b)
        PROVE  FetchInv'
    BY <1>1, AddJobInv, OpenInv, CommitInv, ExpandInv, AbortInv
  <1>2. CASE CreateImage \/ FetchReturns \/ ProgressClosed
    BY <1>2, CreateImageInv, FetchReturnsInv, ProgressClosedInv
  <1>3. CASE NoOutput \/ ContextDone \/ Tick \/ List \/ Draw
    BY <1>3, NoOutputInv, ContextDoneInv, TickInv, ListInv, DrawInv
  <1>4. CASE Rest \/ UNCHANGED vars
    BY <1>4, StutterInv DEF Rest
  <1> QED
    BY <1>1, <1>2, <1>3, <1>4 DEF Next, Fetcher

\* The downloads, the call that waits for them and the goroutine that shows
\* them keep in step (fetch.go:59-111).
THEOREM FetchInvariance == Spec => []FetchInv
  BY InitInv, NextInv, PTL DEF Spec

\* An image is recorded only with all that can be reached from its root in the
\* content store, whatever was there before and whatever fails
\* (fetch.go:84-104, client.Fetch).
THEOREM RecordedIsComplete == Spec => []ImageComplete
  <1>1. FetchInv => ImageComplete
    <2> SUFFICES ASSUME FetchInv, image
                 PROVE  \E whole \in SUBSET content :
                           Root \in whole /\ \A c \in whole : Children[c] \subseteq whole
      BY DEF ImageComplete
    <2> DEFINE whole == {b \in Blob : state[b] = "end"}
    <2>1. whole \in SUBSET content
      BY DEF FetchInv, Downloads
    <2>2. Root \in whole
      BY FetchAssumption DEF FetchInv, Downloads, Dispatched
    <2>3. \A c \in whole : Children[c] \subseteq whole
      BY FetchAssumption DEF FetchInv, Downloads, Dispatched
    <2> QED
      BY <2>1, <2>2, <2>3
  <1> QED
    BY <1>1, FetchInvariance, PTL

\* Fetch returns an image only when the last frame is on the screen and shows
\* each of its blobs as there (fetch.go:104-111).
THEOREM LastFrameIsShown == Spec => []LastFrameShown
  <1>1. FetchInv => LastFrameShown
    <2> SUFFICES ASSUME FetchInv, main = "ok", shown
                 PROVE  /\ ui = "closed"
                        /\ \A b \in jobs : frame[b] \in {"done", "exists"} /\ b \in content
      BY DEF LastFrameShown
    <2>1. image /\ ui = "closed"
      BY DEF FetchInv, Returns
    <2>2. \A b \in jobs : b \in content
      BY <2>1 DEF FetchInv, FetchTypeOK, Downloads, Dispatched
    <2> QED
      BY <2>1, <2>2 DEF FetchInv, LastFrame
  <1> QED
    BY <1>1, FetchInvariance, PTL
=============================================================================
