----------------------------- MODULE FileStore ------------------------------
(***************************************************************************)
(* The file store of aritfact/content/file/file.go as file.New makes it,   *)
(* shared by the goroutines that push into it and fetch from it.  A named  *)
(* blob is a file at the path of its name; a map of digests to paths makes *)
(* a content-addressed store of the files; blobs without a name live in a  *)
(* fallback store in memory.                                               *)
(*                                                                         *)
(* A file is a sequence of blocks.  It is opened without O_TRUNC and       *)
(* written in place, block by block, as the copy proceeds.                 *)
(***************************************************************************)
EXTENDS Naturals, SequencesExt

CONSTANTS
    Thread,      \* the goroutines, each of which makes one call after another
    Name, NoName,
    PathOf,      \* name -> the path it resolves to in the working directory
    Digest,
    Content,     \* digest -> the blocks of the blob
    Successors,  \* digest -> the descriptors a manifest lists
    OldFiles,    \* path -> what the working directory holds at the start
    Programs,    \* what the threads call: Thread -> [kind, descs, ref]
    Stream,      \* the caller's reader, as a source to copy from
    MaxFaults    \* bound: how many reads, writes and attribute changes fail

Descriptor == [name : Name \cup {NoName}, digest : Digest, unpack : BOOLEAN]

Block == UNION {ToSet(Content[d]) : d \in Digest}

ASSUME FileStoreAssumption ==
    /\ NoName \notin Name
    /\ Content \in [Digest -> Seq(Block)]
    /\ Successors \in [Digest -> Seq(Descriptor)]
    /\ \A p \in Programs : \A t \in Thread :
          /\ p[t].descs \in Seq(Descriptor) /\ p[t].descs # <<>>
          /\ p[t].kind # "push" => Len(p[t].descs) = 1
          /\ p[t].kind = "add" => Head(p[t].descs).name # NoName
    \* A file that is added is not one that is pushed.
    /\ \A p \in Programs : \A t, u \in Thread : p[t].kind = "add" /\ p[u].kind = "push" =>
          \A d \in ToSet(p[u].descs) : d.name # Head(p[t].descs).name
    /\ MaxFaults \in Nat

VARIABLES
    disk,         \* path -> the blocks of the file
    tmpFiles,     \* the temporary files Close removes
    digestToPath, \* digest -> path
    exists,       \* the names whose status says they exist
    holder,       \* name -> the thread that holds its lock for writing
    fallback,     \* the digests in the fallback store
    edges,        \* the graph: which digest lists which
    resolver,     \* reference -> descriptor
    refName,      \* descriptor -> the reference in its annotations, a map its copies share
    closed,
    todo,         \* thread -> the descriptors its call still has to push
    cur,          \* thread -> the descriptor it pushes or fetches
    restore,      \* thread -> the successors restoreDuplicates has not seen
    from,         \* thread -> the file it copies from, or Stream
    copied,       \* thread -> the blocks it has read and written
    call, pc, result, faults

meta == <<edges, resolver, refName, closed>>
store == <<disk, tmpFiles, digestToPath, exists, holder, fallback, meta>>
local == <<todo, cur, restore, from, copied, call, pc, result>>
vars == <<store, local, faults>>

Put(f, x, v) == [y \in DOMAIN f \cup {x} |-> IF y = x THEN v ELSE f[y]]

Pushing == {"copy", "attrs", "add"}
Busy == {"push", "load", "restore", "refetch", "index", "read"} \cup Pushing

TypeOK ==
    /\ tmpFiles \subseteq Thread \X Digest
    /\ DOMAIN digestToPath \subseteq Digest
    /\ exists \subseteq Name
    /\ DOMAIN holder \subseteq Name
    /\ fallback \subseteq Digest /\ edges \subseteq Digest \X Digest
    /\ pc \in [Thread -> {"start", "done"} \cup Busy]
    /\ \A t \in Thread : pc[t] \in Pushing =>
          cur[t].name \in DOMAIN holder /\ holder[cur[t].name] = t
    /\ faults \in 0..MaxFaults

Init ==
    /\ disk = OldFiles
    /\ tmpFiles = {} /\ digestToPath = <<>> /\ exists = {} /\ holder = <<>>
    /\ fallback = {} /\ edges = {} /\ resolver = <<>> /\ refName = <<>> /\ closed = FALSE
    /\ call \in Programs
    /\ todo = [t \in Thread |-> call[t].descs]
    /\ cur = [t \in Thread |-> Head(call[t].descs)]
    /\ restore = [t \in Thread |-> <<>>]
    /\ from = [t \in Thread |-> Stream]
    /\ copied = [t \in Thread |-> <<>>]
    /\ pc = [t \in Thread |-> "start"]
    /\ result = [t \in Thread |-> [status |-> "none", data |-> <<>>]]
    /\ faults = 0

-----------------------------------------------------------------------------

Goto(t, step) == pc' = [pc EXCEPT ![t] = step]

Return(t, status, data) ==
    /\ Goto(t, "done")
    /\ result' = [result EXCEPT ![t] = [status |-> status, data |-> data]]

Fault == faults < MaxFaults /\ faults' = faults + 1

\* Mutated: nobody waits for the lock of a name.
Free_Always(n) == TRUE

\* The lock of a name can be taken, for reading or for writing.
Free(n) == n \notin DOMAIN holder

Unlocked(n) == Restrict(holder, DOMAIN holder \ {n})

\* nameExists, which waits for the lock of the name.
Named(d) == d.name \in exists

Passes(d) == d.name # NoName => Free(d.name)

\* Where Fetch finds a digest; it opens the file, so a removed one is not found.
OnDisk(d) == d \in DOMAIN digestToPath /\ digestToPath[d] \in DOMAIN disk

Found(d) == OnDisk(d) \/ (d \notin DOMAIN digestToPath /\ d \in fallback)

Data(d) == IF d \in DOMAIN digestToPath THEN disk[digestToPath[d]] ELSE Content[d]

\* Fetch gives the whole blob.
Fetchable(d) == Found(d) /\ Data(d) = Content[d]

\* The file a push writes: that of the name, or a new temporary file for what
\* is to be unpacked.
Target(t) == IF cur[t].unpack THEN <<t, cur[t].digest>> ELSE PathOf[cur[t].name]

\* os.O_CREATE without os.O_TRUNC: a file that is there keeps its blocks.
Opened(f, p) == IF p \in DOMAIN f THEN f ELSE Put(f, p, <<>>)

\* Mutated: a temporary file is not remembered.
Registered_Never(t) == tmpFiles

Registered(t) == IF cur[t].unpack THEN tmpFiles \cup {Target(t)} ELSE tmpFiles

Mapped(t) == Put(digestToPath, cur[t].digest, Target(t))

-----------------------------------------------------------------------------
(* Push.                                                                   *)

BeginPush(t) ==
    /\ pc[t] = "start"
    /\ call[t].kind = "push"
    /\ \/ closed /\ Return(t, "closed", <<>>) /\ UNCHANGED <<todo, cur, restore, from, copied>>
       \/ /\ ~ closed
          /\ cur' = [cur EXCEPT ![t] = Head(todo[t])]
          /\ todo' = [todo EXCEPT ![t] = Tail(@)]
          /\ from' = [from EXCEPT ![t] = Stream]
          /\ copied' = [copied EXCEPT ![t] = <<>>]
          /\ Goto(t, "push")
          /\ UNCHANGED <<restore, result>>
    /\ UNCHANGED <<store, call, faults>>

\* What follows a push: for the caller's blob the duplicates are restored,
\* for a duplicate the next one is.
Pushed(t) == IF restore[t] = <<>> THEN "load" ELSE "restore"

NextDuplicate(t) == restore' = [restore EXCEPT ![t] = IF @ = <<>> THEN @ ELSE Tail(@)]

PushUnnamed(t) ==
    /\ pc[t] = "push"
    /\ cur[t].name = NoName
    /\ \/ /\ Return(t, "failed", <<>>)
          /\ IF cur[t].digest \in fallback THEN UNCHANGED faults ELSE Fault
          /\ UNCHANGED fallback
       \/ /\ cur[t].digest \notin fallback
          /\ fallback' = fallback \cup {cur[t].digest}
          /\ Goto(t, "load")
          /\ UNCHANGED <<result, faults>>
    /\ UNCHANGED <<disk, tmpFiles, digestToPath, exists, holder, meta, todo, cur,
                   restore, from, copied, call>>

OpenNamed(t) ==
    LET n == cur[t].name
    IN  /\ pc[t] = "push"
        /\ n # NoName
        /\ Free(n)
        /\ \/ /\ n \in exists
              /\ Return(t, "duplicate", <<>>)
              /\ UNCHANGED <<disk, tmpFiles, holder>>
           \/ /\ n \notin exists
              /\ holder' = Put(holder, n, t)
              /\ disk' = Opened(disk, Target(t))
              /\ tmpFiles' = Registered(t)
              /\ Goto(t, "copy")
              /\ UNCHANGED result
        /\ UNCHANGED <<digestToPath, exists, fallback, meta, todo, cur, restore,
                       from, copied, call, faults>>

Source(t) == IF from[t] = Stream THEN Content[cur[t].digest] ELSE disk[from[t]]

\* Mutated: the copy never gets past the buffer it is at.
CopyBlock_Stays(t) == pc[t] = "copy" /\ UNCHANGED vars

\* One buffer of CopyBuffer: the file is overwritten from its start.
CopyBlock(t) ==
    LET i == Len(copied[t]) + 1
        old == disk[Target(t)]
        block == Source(t)[i]
    IN  /\ pc[t] = "copy"
        /\ i <= Len(Content[cur[t].digest]) /\ i <= Len(Source(t))
        /\ disk' = [disk EXCEPT ![Target(t)] =
                        IF i <= Len(old) THEN [old EXCEPT ![i] = block] ELSE Append(old, block)]
        /\ copied' = [copied EXCEPT ![t] = Append(@, block)]
        /\ UNCHANGED <<tmpFiles, digestToPath, exists, holder, fallback, meta, todo,
                       cur, restore, from, call, pc, result, faults>>

\* Mutated: the copy is not verified.
Verified_Skipped(t) == TRUE

\* vr.Verify: the digest of what was read, and nothing after it.
Verified(t) ==
    /\ copied[t] = Content[cur[t].digest]
    /\ from[t] # Stream => Len(Source(t)) = Len(copied[t])

\* A push that fails lets go of the name and leaves everything else.
PushFails(t) ==
    /\ holder' = Unlocked(cur[t].name)
    /\ Return(t, "failed", <<>>)
    /\ UNCHANGED <<disk, tmpFiles, digestToPath, exists, fallback, meta, todo, cur,
                   restore, from, copied, call>>

\* The reader has ended, too early if there is a fault.
SaveFile(t) ==
    /\ pc[t] = "copy"
    /\ \/ Len(copied[t]) = Len(Content[cur[t].digest]) /\ UNCHANGED faults
       \/ Len(copied[t]) = Len(Source(t)) /\ UNCHANGED faults
       \/ Fault
    /\ \/ ~ Verified(t) /\ PushFails(t)
       \/ /\ Verified(t)
          /\ digestToPath' = Mapped(t)
          /\ Goto(t, "attrs")
          /\ UNCHANGED <<disk, tmpFiles, exists, holder, fallback, meta, todo, cur,
                         restore, from, copied, call, result>>

\* The owner of the file, or the extraction of the archive.
SetAttributes(t) ==
    /\ pc[t] = "attrs"
    /\ \/ Fault /\ PushFails(t)
       \/ /\ exists' = exists \cup {cur[t].name}
          /\ holder' = Unlocked(cur[t].name)
          /\ NextDuplicate(t)
          /\ Goto(t, Pushed(t))
          /\ UNCHANGED <<disk, tmpFiles, digestToPath, fallback, meta, todo, cur,
                         from, copied, call, result, faults>>

-----------------------------------------------------------------------------
(* restoreDuplicates and the graph.                                        *)

\* Mutated: a duplicate that was restored takes the place of the caller's blob.
Own_Cur(t) == cur[t]

\* The caller's descriptor, when cur is a duplicate.
Own(t) == call[t].descs[Len(call[t].descs) - Len(todo[t])]

\* Successors reads the manifest back from the store.
LoadSuccessors(t) ==
    /\ pc[t] = "load"
    /\ LET d == Own(t).digest
       IN  \/ /\ Successors[d] # <<>>
              /\ Passes(Own(t))
              /\ ~ Found(d) \/ Data(d) # Content[d]
              /\ Return(t, "failed", <<>>)
              /\ UNCHANGED restore
           \/ /\ Successors[d] # <<>> => Passes(Own(t)) /\ Found(d) /\ Data(d) = Content[d]
              /\ restore' = [restore EXCEPT ![t] = Successors[d]]
              /\ Goto(t, "restore")
              /\ UNCHANGED result
    /\ UNCHANGED <<store, todo, cur, from, copied, call, faults>>

\* Mutated: a successor whose content is in the store needs no restoring.
Skipped_Stored(d) == d.name = NoName \/ Named(d) \/ d.digest \in DOMAIN digestToPath

Skipped(d) == d.name = NoName \/ Named(d)

NextSuccessor(t) ==
    /\ pc[t] = "restore"
    /\ restore[t] # <<>>
    /\ LET d == Head(restore[t])
       IN  /\ Passes(d)
           /\ \/ Skipped(d) /\ NextDuplicate(t) /\ UNCHANGED <<cur, pc>>
              \/ /\ ~ Skipped(d)
                 /\ cur' = [cur EXCEPT ![t] = d]
                 /\ Goto(t, "refetch")
                 /\ UNCHANGED restore
    /\ UNCHANGED <<store, todo, from, copied, call, result, faults>>

\* Fetch by digest alone.  What is not found is not restored.
Refetch(t) ==
    /\ pc[t] = "refetch"
    /\ LET d == cur[t].digest
       IN  \/ /\ ~ Found(d)
              /\ NextDuplicate(t)
              /\ Goto(t, "restore")
              /\ UNCHANGED <<from, copied>>
           \/ /\ Found(d)
              /\ from' = [from EXCEPT ![t] =
                             IF d \in DOMAIN digestToPath THEN digestToPath[d] ELSE Stream]
              /\ copied' = [copied EXCEPT ![t] = <<>>]
              /\ Goto(t, "push")
              /\ UNCHANGED restore
    /\ UNCHANGED <<store, todo, cur, call, result, faults>>

GraphFree == \A t \in Thread : pc[t] # "index"

\* loader.AddManifest, under the mutex of the store, reads the manifest again...
LockGraph(t) ==
    LET d == Own(t).digest
    IN  /\ pc[t] = "restore" /\ restore[t] = <<>>
        /\ GraphFree /\ Passes(Own(t))
        /\ \/ /\ Successors[d] # <<>> /\ (~ Found(d) \/ Data(d) # Content[d])
              /\ Return(t, "failed", <<>>)
           \/ /\ Successors[d] # <<>> => Found(d) /\ Data(d) = Content[d]
              /\ Goto(t, "index") /\ UNCHANGED result
        /\ UNCHANGED <<store, todo, cur, restore, from, copied, call, faults>>

EdgesOf(d) == {<<d, s.digest>> : s \in ToSet(Successors[d])}

\* ...and adds it to the maps of the graph, which ends the push.
Index(t) ==
    LET d == Own(t).digest
    IN  /\ pc[t] = "index"
        /\ edges' = edges \cup EdgesOf(d)
        /\ IF todo[t] = <<>> THEN Return(t, "ok", <<>>) ELSE Goto(t, "start") /\ UNCHANGED result
        /\ UNCHANGED <<disk, tmpFiles, digestToPath, exists, holder, fallback, resolver,
                       refName, closed, todo, cur, restore, from, copied, call, faults>>

-----------------------------------------------------------------------------
(* Add.                                                                    *)

\* The file of the name is added as it stands; a directory is packed into a
\* temporary file.  The lock of the name is held to the end.
BeginAdd(t) ==
    LET n == cur[t].name
        there == cur[t].unpack \/ Target(t) \in DOMAIN disk
    IN  /\ pc[t] = "start" /\ call[t].kind = "add"
        /\ closed \/ Free(n)
        /\ IF closed THEN Return(t, "closed", <<>>)
           ELSE IF n \in exists THEN Return(t, "duplicate", <<>>)
           ELSE IF ~ there THEN Return(t, "failed", <<>>)
           ELSE Goto(t, "add") /\ UNCHANGED result
        /\ IF ~ closed /\ n \notin exists /\ there
           THEN /\ holder' = Put(holder, n, t)
                /\ disk' = Opened(disk, Target(t))
                /\ tmpFiles' = Registered(t)
           ELSE UNCHANGED <<disk, tmpFiles, holder>>
        /\ UNCHANGED <<digestToPath, exists, fallback, meta, todo, cur, restore, from, copied,
                       call, faults>>

\* A fault is a file that cannot be read or, after the digest was entered, closed.
Add(t) ==
    /\ pc[t] = "add"
    /\ holder' = Unlocked(cur[t].name)
    /\ disk' = IF cur[t].unpack THEN Put(disk, Target(t), Content[cur[t].digest]) ELSE disk
    /\ \/ /\ digestToPath' = Mapped(t)
          /\ exists' = exists \cup {cur[t].name}
          /\ Return(t, "ok", <<>>)
          /\ UNCHANGED faults
       \/ /\ Fault
          /\ digestToPath' \in {digestToPath, Mapped(t)}
          /\ Return(t, "failed", <<>>)
          /\ UNCHANGED exists
    /\ UNCHANGED <<tmpFiles, fallback, meta, todo, cur, restore, from, copied, call>>

-----------------------------------------------------------------------------
(* Fetch and Close.                                                        *)

BeginFetch(t) ==
    /\ pc[t] = "start"
    /\ call[t].kind = "fetch"
    /\ Passes(cur[t])
    /\ \/ closed /\ Return(t, "closed", <<>>)
       \/ /\ ~ closed /\ cur[t].name # NoName /\ ~ Named(cur[t])
          /\ Return(t, "notfound", <<>>)
       \/ /\ ~ closed /\ (cur[t].name = NoName \/ Named(cur[t]))
          /\ Goto(t, "read")
          /\ UNCHANGED result
    /\ UNCHANGED <<store, todo, cur, restore, from, copied, call, faults>>

Fetch(t) ==
    /\ pc[t] = "read"
    /\ LET d == cur[t].digest
       IN  IF Found(d) THEN Return(t, "ok", Data(d)) ELSE Return(t, "notfound", <<>>)
    /\ UNCHANGED <<store, todo, cur, restore, from, copied, call, faults>>

\* Exists, and the check that Tag makes with it.
Exists(d) == (d.name # NoName => Named(d)) /\ d.digest \in DOMAIN digestToPath \cup fallback

\* Mutated: anything can be tagged.
Taggable_Always(d) == TRUE

Taggable(d) == Exists(d)

Asks(t, kind) ==
    /\ pc[t] = "start" /\ call[t].kind = kind
    /\ closed \/ Passes(cur[t])
    /\ UNCHANGED <<disk, tmpFiles, digestToPath, exists, holder, fallback, edges, closed,
                   todo, cur, restore, from, copied, call, faults>>

AskExists(t) ==
    /\ Asks(t, "exists")
    /\ Return(t, IF closed THEN "closed" ELSE IF Exists(cur[t]) THEN "ok" ELSE "notfound", <<>>)
    /\ UNCHANGED <<resolver, refName>>

\* The reference is written into the annotations of the caller's descriptor,
\* and the descriptor is stored with them.
Tag(t) ==
    /\ Asks(t, "tag")
    /\ IF ~ closed /\ Taggable(cur[t])
       THEN /\ resolver' = Put(resolver, call[t].ref, cur[t])
            /\ refName' = Put(refName, cur[t], call[t].ref)
            /\ Return(t, "ok", <<>>)
       ELSE /\ Return(t, IF closed THEN "closed" ELSE "notfound", <<>>)
            /\ UNCHANGED <<resolver, refName>>

Resolve(t) ==
    /\ Asks(t, "resolve")
    /\ IF ~ closed /\ call[t].ref \in DOMAIN resolver
       THEN Return(t, "ok", <<resolver[call[t].ref], refName[resolver[call[t].ref]]>>)
       ELSE Return(t, IF closed THEN "closed" ELSE "notfound", <<>>)
    /\ UNCHANGED <<resolver, refName>>

\* The maps are read without the mutex: beside a writer the process may die of
\* it, or read what was there before or part of what comes.
Predecessors(t) ==
    /\ Asks(t, "predecessors")
    /\ \/ Return(t, IF closed THEN "closed" ELSE "ok",
                  <<{e[1] : e \in {f \in edges : f[2] = cur[t].digest}}>>)
       \/ ~ GraphFree /\ Return(t, "race", <<>>)
    /\ UNCHANGED <<resolver, refName>>

\* "This function is not go-routine safe": its caller waits for the others.
Close(t) ==
    /\ pc[t] = "start"
    /\ call[t].kind = "close"
    /\ \A u \in Thread : pc[u] \notin Busy
    /\ closed' = TRUE
    /\ disk' = IF closed THEN disk ELSE Restrict(disk, DOMAIN disk \ tmpFiles)
    /\ Return(t, "ok", <<>>)
    /\ UNCHANGED <<tmpFiles, digestToPath, exists, holder, fallback, edges, resolver, refName,
                   todo, cur, restore, from, copied, call, faults>>

Quiet ==
    /\ \A t \in Thread : pc[t] = "done"
    /\ UNCHANGED vars

Step(t) ==
    \/ BeginPush(t) \/ PushUnnamed(t) \/ OpenNamed(t) \/ CopyBlock(t) \/ SaveFile(t)
    \/ SetAttributes(t) \/ LoadSuccessors(t) \/ NextSuccessor(t) \/ Refetch(t)
    \/ LockGraph(t) \/ Index(t) \/ BeginAdd(t) \/ Add(t) \/ BeginFetch(t) \/ Fetch(t)
    \/ AskExists(t) \/ Tag(t) \/ Resolve(t) \/ Predecessors(t) \/ Close(t)

Next == (\E t \in Thread : Step(t)) \/ Quiet

Spec == Init /\ [][Next]_vars

\* Every goroutine that can take a step is scheduled in the end.
FairSpec == Spec /\ \A t \in Thread : WF_vars(Step(t))

-----------------------------------------------------------------------------
(* What the collections give the store, and the properties.                *)

Listed(d) == \E m \in Digest : d \in ToSet(Successors[m])

Known ==
    {d \in Descriptor :
        Listed(d) \/ \E p \in Programs : \E t \in Thread : d \in ToSet(p[t].descs)}

Temp == Thread \X Digest

\* A name stands for one blob and has a path of its own, and what is there at
\* the start under a name is its blob.  Without it one push would overwrite
\* what another has stored: a path is locked by its name alone (file.go:251),
\* and a digest stays mapped when the rest of its push fails (file.go:506).
WellNamed ==
    /\ \A d, e \in Known : d.name = e.name /\ d.name # NoName => d = e
    /\ \A m, n \in Name : PathOf[m] = PathOf[n] => m = n
    /\ \A n \in Name : PathOf[n] \notin Temp
    /\ DOMAIN OldFiles \cap Temp = {}
    /\ \A d \in Known : d.name # NoName /\ PathOf[d.name] \in DOMAIN OldFiles =>
          OldFiles[PathOf[d.name]] = Content[d.digest]
    \* What manifests list is there before it is added, or is not added.
    /\ \A p \in Programs : \A t \in Thread : p[t].kind = "add" =>
          LET d == Head(p[t].descs)
          IN  Listed(d) => d.unpack \/ PathOf[d.name] \in DOMAIN OldFiles

\* A copy pushes a manifest after the content it lists.
BottomUp ==
    \A p \in Programs : \A t \in Thread : p[t].kind = "push" =>
        \A i, j \in DOMAIN p[t].descs :
            (\E s \in ToSet(Successors[p[t].descs[i].digest]) :
                s.name # NoName /\ s.digest = p[t].descs[j].digest) => j < i

\* The map of digests is a content-addressed store: the file it gives for a
\* digest holds the blob of the digest, also while other pushes write and
\* after pushes that failed half-way.
StoredComplete == \A d \in Digest : OnDisk(d) => disk[digestToPath[d]] = Content[d]

\* What a successful push has stored, an Add has added or a Tag has found stays
\* fetchable, under its name and by its digest, whatever is called or fails
\* after it.
PushedFetchable ==
    ~ closed => \A t \in Thread :
        call[t].kind \in {"push", "add", "tag"} /\ result[t].status = "ok" =>
            \A d \in ToSet(call[t].descs) :
                /\ d.name # NoName => Named(d)
                /\ Fetchable(d.digest)

\* The graph is that of the content: a push that succeeds has entered its
\* manifests with all they list, whatever duplicates were restored on the way,
\* and nothing is entered, or answered by Predecessors, that cannot be fetched
\* until Close (file.go:227-234 and 395).  A push that fails after it has stored
\* its blob leaves it out, and the next one of the name is refused.
GraphOfPushed ==
    /\ \A t \in Thread : call[t].kind = "push" /\ result[t].status = "ok" =>
          \A m \in ToSet(call[t].descs) : EdgesOf(m.digest) \subseteq edges
    /\ ~ closed =>
          /\ \A e \in edges : Fetchable(e[1]) /\ e \in EdgesOf(e[1])
          /\ \A t \in Thread : call[t].kind = "predecessors" /\ result[t].status = "ok" =>
                \A m \in result[t].data[1] : Fetchable(m)

\* The files that names stand for.
NamedFiles == [n \in {m \in exists : PathOf[m] \in DOMAIN disk} |-> disk[PathOf[n]]]

Promise == INSTANCE BlobStore WITH
    files <- NamedFiles,
    blobs <- {d \in Digest : Fetchable(d)},
    open <- ~ closed

\* The store implements what it promises: a name is given once, its file is
\* complete from then on and stays what it is, and no blob goes before Close.
ImplementsBlobStore == Promise!Spec

\* "By default, file store restores deduped successor files after a node is
\* copied" (file.go:88): when a call has pushed a manifest and the content it
\* lists, each under one of its names, then all the names exist.
DuplicatesRestored ==
    \A t \in Thread : call[t].kind = "push" /\ result[t].status = "ok" =>
        \A m \in ToSet(call[t].descs) :
            \A s \in ToSet(Successors[m.digest]) :
                s.name # NoName /\ (\E d \in ToSet(call[t].descs) : d.digest = s.digest) =>
                    s.name \in exists

\* Close removes every temporary file (file.go:151), also those of pushes that
\* failed.
NoTempAfterClose == closed => \A t \in Thread, d \in Digest : <<t, d>> \notin DOMAIN disk

\* ErrDuplicateName goes to a caller that pushes a name somebody has pushed:
\* what restoreDuplicates does on the side is no reason for it.
DuplicateOnlyIfPushedTwice ==
    \A t \in Thread : result[t].status = "duplicate" =>
        \E n \in Name :
            /\ \E d \in ToSet(call[t].descs) : d.name = n
            /\ \E u \in Thread \ {t} : \E d \in ToSet(call[u].descs) : d.name = n

\* Every call returns, and stays so: no lock of a name is kept by a push that
\* failed.
CallsReturn == <>(\A t \in Thread : pc[t] = "done")
=============================================================================
