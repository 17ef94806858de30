---------------------------- MODULE FetchProgress ----------------------------
(***************************************************************************)
(* Fetch of cmd/rcl/commands/fetch.go: the call of client.Fetch, whose     *)
(* goroutines download the blobs of an image, and the goroutine that shows *)
(* their progress.  The two meet in the list of jobs, in the content store, *)
(* in the context that stopProgress cancels and in the channel that is     *)
(* closed at the end.                                                      *)
(***************************************************************************)
EXTENDS Naturals, FiniteSets

CONSTANTS
    Blob,
    Root,      \* what the reference resolves to
    Children,  \* blob -> the blobs it lists
    Stored,    \* the sets of blobs the content store may hold before
    MaxFaults  \* bound: how many calls fail

ASSUME FetchAssumption ==
    /\ Root \in Blob /\ Children \in [Blob -> SUBSET Blob]
    /\ Stored \subseteq SUBSET Blob
    /\ MaxFaults \in Nat

VARIABLES
    shown,     \* whether there is an output to show progress on
    old,       \* what was in the content store before
    main,      \* where Fetch is
    failed,    \* whether client.Fetch has failed
    state,     \* blob -> how far its download is
    content,   \* the blobs in the content store
    image,     \* whether the image is recorded
    jobs,      \* the blobs the handler has seen
    cancelled, \* the context of the progress goroutine
    ui,        \* where the progress goroutine is
    active,    \* the downloads it saw running
    seen,      \* blob -> the status it has for it
    last,      \* whether the next frame is the last
    frame,     \* blob -> the status on the screen
    faults

fetching == <<shown, old, main, failed, state, content, image, jobs, cancelled>>
showing == <<ui, active, seen, last, frame>>
vars == <<fetching, showing, faults>>

Init ==
    /\ shown \in BOOLEAN
    /\ old \in Stored
    /\ main = "fetch" /\ failed = FALSE
    /\ state = [b \in Blob |-> IF b = Root THEN "todo" ELSE "none"]
    /\ content = old
    /\ image = FALSE /\ jobs = {} /\ cancelled = FALSE
    /\ ui = "select" /\ active = {} /\ last = FALSE
    /\ seen = [b \in Blob |-> "none"] /\ frame = seen
    /\ faults = 0

-----------------------------------------------------------------------------
(* client.Fetch.                                                           *)

Fault == faults < MaxFaults /\ faults' = faults + 1

At(b, step) == main = "fetch" /\ state[b] = step

Goto(b, step) == state' = [state EXCEPT ![b] = step]

\* The handler that Fetch hands in comes first.
AddJob(b) ==
    /\ At(b, "todo")
    /\ jobs' = jobs \cup {b}
    /\ Goto(b, "job")
    /\ UNCHANGED <<shown, old, main, failed, content, image, cancelled, showing, faults>>

\* What is in the store is not downloaded.
Open(b) ==
    /\ At(b, "job")
    /\ Goto(b, IF b \in content THEN "stored" ELSE "writing")
    /\ UNCHANGED <<shown, old, main, failed, content, image, jobs, cancelled, showing, faults>>

Commit(b) ==
    /\ At(b, "writing")
    /\ content' = content \cup {b}
    /\ Goto(b, "stored")
    /\ UNCHANGED <<shown, old, main, failed, image, jobs, cancelled, showing, faults>>

\* The children are dispatched.
Expand(b) ==
    /\ At(b, "stored")
    /\ state' = [c \in Blob |-> IF c = b THEN "end"
                                ELSE IF c \in Children[b] /\ state[c] = "none" THEN "todo" ELSE state[c]]
    /\ UNCHANGED <<shown, old, main, failed, content, image, jobs, cancelled, showing, faults>>

\* A call fails, the resolver's before any other; the goroutines of the other
\* blobs, whose context is cancelled, come to their ends too.
Abort(b) ==
    /\ At(b, "job") \/ At(b, "writing") \/ At(b, "stored") \/ (b = Root /\ At(b, "todo"))
    /\ failed' = TRUE
    /\ Goto(b, "end")
    /\ IF failed THEN UNCHANGED faults ELSE Fault
    /\ UNCHANGED <<shown, old, main, content, image, jobs, cancelled, showing>>

\* Mutated: the goroutines are not waited for.
Dispatched_Early == state[Root] = "end"

Dispatched == \A b \in Blob : state[b] \in {"none", "end"}

CreateImage ==
    /\ main = "fetch" /\ ~ image /\ ~ failed
    /\ Dispatched
    /\ \/ image' = TRUE /\ UNCHANGED <<failed, faults>>
       \/ Fault /\ failed' = TRUE /\ UNCHANGED image
    /\ UNCHANGED <<shown, old, main, state, content, jobs, cancelled, showing>>

\* Mutated: the progress is not stopped when the fetch has failed.
Stopped_OnSuccess == cancelled' = ~ failed

\* stopProgress.
Stopped == cancelled' = TRUE

\* Mutated: nobody waits for the last frame.
AfterFetch_NoWait == IF failed THEN "error" ELSE "ok"

AfterFetch == IF failed THEN "error" ELSE "wait"

FetchReturns ==
    /\ main = "fetch"
    /\ image \/ (failed /\ Dispatched)
    /\ Stopped
    /\ main' = AfterFetch
    /\ UNCHANGED <<shown, old, failed, state, content, image, jobs, showing, faults>>

ProgressClosed ==
    /\ main = "wait" /\ ui = "closed"
    /\ main' = "ok"
    /\ UNCHANGED <<shown, old, failed, state, content, image, jobs, cancelled, showing, faults>>

Fetcher ==
    \/ \E b \in Blob : AddJob(b) \/ Open(b) \/ Commit(b) \/ Expand(b)
    \/ CreateImage \/ FetchReturns \/ ProgressClosed

-----------------------------------------------------------------------------
(* The progress goroutine, with ShowProgress.                              *)

\* Without an output there is nothing to do but to close the channel.
NoOutput ==
    /\ ui = "select" /\ ~ shown
    /\ ui' = "closed"
    /\ UNCHANGED <<fetching, active, seen, last, frame, faults>>

\* The two cases of the select; once the context is done both are ready.
ContextDone ==
    /\ ui = "select" /\ shown /\ cancelled
    /\ last' = TRUE
    /\ UNCHANGED <<fetching, ui, active, seen, frame, faults>>

\* A call to the daemon fails: without fault when the context is done.
CallFails == IF cancelled THEN UNCHANGED faults ELSE Fault

\* A tick lists the downloads, unless this is the last.
Tick ==
    /\ ui = "select" /\ shown
    /\ \/ ~ last /\ CallFails /\ UNCHANGED <<active, ui>>
       \/ /\ ~ last => ~ cancelled
          /\ active' = {b \in Blob : ~ last /\ state[b] = "writing"}
          /\ ui' = "list"
          /\ UNCHANGED faults
    /\ UNCHANGED <<fetching, seen, last, frame>>

\* What the content store says of a blob.
Info(b) == IF b \notin content THEN "waiting" ELSE IF b \in old THEN "exists" ELSE "done"

\* What runs is downloading, what is new or has stopped running is looked up,
\* and on the last frame everything is done.
Updated(b) ==
    IF b \in active THEN "downloading"
    ELSE IF last THEN IF seen[b] = "exists" THEN "exists" ELSE "done"
    ELSE IF seen[b] \in {"none", "downloading"} THEN Info(b) ELSE seen[b]

\* What the content store is asked about.
Asked == {b \in jobs \ active : ~ last /\ seen[b] \in {"none", "downloading"}}

Update(some) ==
    seen' = [b \in Blob |-> IF b \in active \cup some THEN Updated(b) ELSE seen[b]]

\* The jobs are read, and what the content store says of them.  When it does
\* not answer, the loop goes on without a frame.
List ==
    /\ ui = "list"
    /\ \/ (cancelled => Asked = {}) /\ Update(jobs) /\ ui' = "draw" /\ UNCHANGED faults
       \/ /\ CallFails
          /\ \E b \in Asked, some \in SUBSET (jobs \ active) : b \notin some /\ Update(some)
          /\ ui' = "select"
    /\ UNCHANGED <<fetching, active, last, frame>>

Draw ==
    /\ ui = "draw"
    /\ frame' = [b \in Blob |-> IF b \in jobs THEN seen[b] ELSE "none"]
    /\ ui' = IF last THEN "closed" ELSE "select"
    /\ UNCHANGED <<fetching, active, seen, last, faults>>

Rest ==
    /\ main \in {"ok", "error"} /\ ui = "closed"
    /\ UNCHANGED vars

Next ==
    \/ Fetcher \/ \E b \in Blob : Abort(b)
    \/ NoOutput \/ ContextDone \/ Tick \/ List \/ Draw
    \/ Rest

Spec == Init /\ [][Next]_vars

\* A select that is run again and again takes each case that stays ready, and
\* the ticker ticks.
FairSpec ==
    /\ Spec
    /\ \A b \in Blob : WF_vars(AddJob(b) \/ Open(b) \/ Commit(b) \/ Expand(b))
    /\ WF_vars(CreateImage \/ FetchReturns \/ ProgressClosed)
    /\ WF_vars(NoOutput \/ List \/ Draw)
    /\ SF_vars(ContextDone) /\ SF_vars(Tick)

-----------------------------------------------------------------------------
(* Properties.                                                             *)

\* The image that is recorded, and returned for unpacking, is complete: with the
\* root, and with each blob that is there, the content store has what it lists.
ImageComplete ==
    image => \E whole \in SUBSET content :
        Root \in whole /\ \A c \in whole : Children[c] \subseteq whole

\* When Fetch has returned an image, the screen shows the last frame: every
\* blob is there and shown as done, and nothing is drawn over what follows.
LastFrameShown ==
    main = "ok" /\ shown =>
        /\ ui = "closed"
        /\ \A b \in jobs : frame[b] \in {"done", "exists"} /\ b \in content

\* Fetch returns, and the progress goroutine ends, after a failure too.
FetchEnds == <>(main \in {"ok", "error"} /\ ui = "closed")
=============================================================================
