# A TLA+ model of the containerd attributes client

The repository is `rcl`, a command that runs a container from an OCI image or
from an OCI *artifact* whose layers are unpacked by a store of its own, together
with the packages it is built from (`src/aritfact`, `src/cmd/rcl`). This
directory models its stateful parts in TLA+, checks them on small instances with
TLC, and proves the main results for every instance with TLAPS.

1. [The system](#1-the-system)
2. [The modules](#2-the-modules)
3. [The runs](#3-the-runs)
4. [Disagreements between code and documentation](#4-disagreements-between-code-and-documentation)
5. [The proofs](#5-the-proofs)
6. [What is only model-checked](#6-what-is-only-model-checked)
7. [What is not modelled](#7-what-is-not-modelled)
8. [The plan](#8-the-plan)

To reproduce: `tlc -config MCUnpackTwoFaults.cfg MCUnpack.tla` for a run (each
`.cfg` belongs to the module whose name it starts with), `tlapm UnpackProofs.tla`
for the proofs of a module (`StoreProofs`, `UnpackProofs`,
`ApplyProofs`, `LifecycleProofs`, `FileStoreProofs`, `LayerProofs`,
`FetchProofs`, `SpecProofs`). `PROJECT.json` lists components, runs, theorems, hazards,
findings, and the source lines every definition stands for. Definitions whose
name ends in `_Something` and whose comment starts with "Mutated:" are not part
of a specification; each is a plausible bug in the definition it is named after,
and some run finds the listed property violated when it takes its place.

## 1. The system

### Components

| Component | Source | State | Operations |
|---|---|---|---|
| `rcl run` | `cmd/rcl/commands/run.go`, `run_unix.go` | none of its own: everything is in the daemon, found by container ID | lease, unpack, snapshot, record, task, wait, clean-up in deferred calls |
| `rcl delete` | `cmd/rcl/commands/delete.go` | none | load, task, status, delete task, delete container |
| fetching (`rcl run --fetch`) | `cmd/rcl/commands/fetch.go` | the list of jobs, a progress goroutine with its context and its channel | fetch, handler for each blob, stop of the progress |
| image | `aritfact/image.go` | labels of content, by way of the daemon | `IsUnpacked`, `Unpack`, `Size`, `Config`, `RootFS` |
| artifact application | `aritfact/artifact.go` | extraction snapshots, by way of the daemon | `ApplyArtifactsWithOpts`, `ApplyArtifactWithOpts`, `applyArtifacts` |
| layer applier | `aritfact/applier.go` | a directory or a temporary mount | `Apply`, `apply`, `getOverlayPath`, `getAufsPath` |
| file store | `aritfact/content/file/file.go` | files of the working directory, `digestToPath`, `nameToStatus` (one lock for each name), `tmpFiles`, the graph, a fallback store | `Push`, `Fetch`, `Exists`, `Resolve`, `Tag`, `Predecessors`, `Add`, `Close` |
| archives | `aritfact/content/file/utils.go` | files | `tarDirectory`, `extractTarGzip`, checks of links and names |
| options of the container | `cmd/rcl/commands/run_unix.go`, `aritfact/options/options.go` | the record and the spec under construction | image, snapshot, stop signal, environment, arguments, user |
| daemon | containerd: not in the repository | snapshots, leases, labels, records, tasks, collector | the calls the code makes through the vendored client |

### How they interact

`rcl run` takes a lease of 24 hours and puts it into the context of every call.
It asks `IsUnpacked` for the image, which is one `Stat` of the chain ID of all
its layers; if the answer is no, `Unpack` goes through the layers from the base
up. For each it calls `ApplyArtifactWithOpts`, which looks the chain ID up and,
if it is missing, prepares an extraction snapshot under a random key on top of
the layers below, has the applier write the layer into it, and commits it under
the chain ID. The client that commits a layer then labels the layer's blob, and
at the end the config blob with `containerd.io/gc.ref.snapshot`, which keeps the
chain when the lease is gone. Then the run prepares the writable snapshot of the
container, creates the container's record, creates and starts a task, waits for
it, and cleans up in deferred calls.

The applier fetches the layer's content from the daemon's content store and
pushes it into a `FileStore` whose working directory is the writable directory
of the snapshot, or a temporary mount of it. In the first case the store does not
see the layers below, in the second it writes through them.

With `--fetch` the run downloads the image first. Goroutines of the vendored
client download the blobs; another goroutine shows how far they are, and shares
with them the list of jobs, the content store and a context.

Other clients use the same reference. They may fetch it again or delete it while
a run makes its container, and the collector follows them.

All clients share one daemon. They hold no lock against each other: exclusion is
only what the daemon gives by refusing a name that exists (`AlreadyExists`) or a
name that does not (`NotFound`). Its garbage collector runs beside them and
removes what neither a lease, nor a label, nor a container record leads to. The
goroutines that share one file store exclude each other by the lock of a name.

### What is hard, and what makes each part correct

*Unpacking.* Two clients extract the same layer at once; a client dies or a call
fails half-way through a layer; a call takes effect and its caller sees an error;
the collector runs between any two calls; a layer that was found by `Stat` is in
nobody's lease. Correct means: a chain ID names a snapshot with all its layers
and nothing else, no layer is taken from under another, who loses a race does not
fail, a container stands on the complete image it was created for, and what is
left behind is collected.

*A whole chain at once.* `applyArtifacts` recurses downwards when `Prepare` does
not find the parent, and tries again once. Correct means: every frame commits the
layer and the chain that are its own, the recursion ends, and a success means
that the chain is there.

*The life of a container.* Everything is addressed by the ID of the container, in
separate calls. Correct means: a run waits for, reports and deletes what is its
own; a process that runs keeps its snapshot, and its record until a command takes
it that may; `--rm` leaves nothing behind; an ID can be used again.

*The file store.* Files are written in place while other goroutines push, copy
duplicates, add, tag and read; a push can fail at any block and after it was
saved. Correct means: it is a content-addressed store that only grows, a name is
given once and then stands for one complete blob, the names of a manifest are
restored, its graph has what a push that succeeded has stored and nothing that
cannot be fetched, no temporary file outlives `Close`, and no lock outlives its
push.

*Writing a layer.* The scan of mount options decides into which directory a
layer goes; a file or an archive, entry by entry, then meets what is there.
Correct means: what a successful apply leaves is what the mounts show, no
directory of a committed layer is touched, and what was packed can be extracted.

*Fetching.* Downloads fail, the progress goroutine reads what they change, and
either end may be the later one. Correct means: an image is recorded only when
all of it is there, both goroutines end, and the last frame is drawn before
`Fetch` returns.

*Making a container.* Each option reads the image again, and one needs what
another has prepared, while other clients move the reference, unpack and relabel.
Correct means: the container is of one image, and it is
refused only for a reason.

## 2. The modules

| Module | Models | Used by |
|---|---|---|
| `ChainStore` | abstract specification: complete chains appear, containers are created on them, unused chains go away | refined by `Unpack`, `ApplyArtifacts` |
| `SnapshotStore` | the daemon: snapshotter, leases, labels, records, collector | extended by `Unpack`, `ApplyArtifacts` |
| `Unpack` | concurrent `rcl run` from the lease to the record | `MCUnpack`, `UnpackProofs` |
| `StoreProofs` | lemmas about the daemon | extended by `UnpackProofs`, `ApplyProofs` |
| `UnpackProofs` | theorems about `Unpack`: the chains, its labels, the layers found by `Stat` | |
| `ApplyArtifacts` | `ApplyArtifactsWithOpts` and the recursion | `MCApply`, `ApplyProofs` |
| `ApplyProofs` | theorems about `ApplyArtifacts` | |
| `Lifecycle` | `rcl run` from the snapshot to the exit, and `rcl delete` | `MCLifecycle`, `LifecycleProofs` |
| `LifecycleProofs` | theorems about `Lifecycle` | |
| `BlobStore` | abstract specification: blobs come, a name is given to a blob once, all goes on until the end | refined by `FileStore` |
| `FileStore` | `Push` with `restoreDuplicates` and the graph, `Add`, `Fetch`, `Exists`, `Tag`, `Resolve`, `Predecessors`, `Close` | `MCFileStore`, `FileStoreProofs` |
| `FileStoreProofs` | theorems about `FileStore` | |
| `LayerWrite` | `apply` with `getOverlayPath` and `getAufsPath`, the push of a fresh store, `tarDirectory`, `extractTarGzip` | `MCLayerWrite`, `LayerProofs` |
| `LayerProofs` | theorems about `LayerWrite` | |
| `FetchProgress` | `Fetch`, the download of the vendored client, `ShowProgress` | `MCFetchProgress`, `FetchProofs` |
| `FetchProofs` | theorems about `FetchProgress` | |
| `SpecOptions` | `NewContainer` and its options | `MCSpecOptions`, `SpecProofs` |
| `SpecProofs` | theorems about `SpecOptions` | |

Every process (a client, a command, a goroutine) has a program counter whose
values are named for the call it makes next. One action is one call to the
daemon, or one critical section, with the decisions the code takes on its result
and the local assignments up to the next call. Collections and failures of the
environment are actions of their own.

### SnapshotStore

A chain ID is a digest computed from a list of layer digests. It is modelled by
the list: two are equal exactly when the lists are (digests do not collide).
`committed` maps a chain ID to the list of layers *found in* the snapshot, so a
snapshot with the wrong files shows. `active` holds the extraction snapshots by
key with what has been written into them; a layer that was applied in part is the
element `Torn`. A lease names chains (`leased`) and, by the field `lessee`, the
active snapshots prepared under it. `Collect` marks from leases, container
records and labels, follows parents, and removes the rest in one step, as the
metadata store of containerd does under its lock. Its definitions are external
except where vendored client functions are translated (`lease.go`,
`container_opts.go`, `client.go`).

### Unpack

| Action | Code |
|---|---|
| `Start`, `Release` | `client.WithLease` in `run.go`, and the deferred `done` |
| `IsUnpacked` | `image.go`, `IsUnpacked` |
| `StatLayer` | the `Stat` of `ApplyArtifactWithOpts` |
| `PrepareLayer` | the loop of `applyArtifacts` that draws a key |
| `ApplyBegin`, `ApplyEnd` | `a.Apply`: two steps, so that a crash leaves part of a layer |
| `CommitLayer`, `RemoveKey` | `sn.Commit`, `AlreadyExists` taken for success, the deferred `Remove` |
| `LabelLayer`, `LabelConfig` | the two `Update` calls of `Unpack` |
| `NewSnapshot`, `CreateRecord` | `WithNewSnapshot` and the `Create` of `client.NewContainer` |
| `CallFails`, `Crash`, `Return` with a fault | a call that fails, a client that dies, a reply that is lost |
| `Expire`, `CollectGarbage` | the daemon |

`FaultKinds` selects which faults may happen: `crash`, `fail` (an error without
effect), `lost_reply` (an effect and an error) and `lost_commit` (the same for
`Commit`, which is separate because of what follows in section 5).

### ApplyArtifacts

`depth` is the frame that runs: the recursive call for the layers `1..depth`. The
frames above wait in their loop, so the stack is that number. `retried` is the
set of frames that have set `artifacts` to nil and will not recurse again.

### Lifecycle

`snaps`, `records` and `tasks` keep beside each thing the run that made it. No
guard reads the maker (but for `AwaitExit`, where the exit channel of an own task
is told from that of another); properties compare it. `Unwind` gives the deferred
call that comes first when `Run` returns at a step. `Succeed` lets any call take
effect and report an error. `RemoveRecord` removes the record of the ID, whoever
made it; the history `taken` keeps whose it was and which command took it, so that
`Lost` can tell a run that lost its record to an `rcl delete`, or to a `--rm`
whose own record had gone before, and `Stands` what such a run still has.
`ReadMounts` and `NewTask` are the two halves of `container.NewTask`: the daemon
looks the record up again when it creates the task. `CheckNoTask` and `CanDelete`
model two places of the vendored client which take an unexamined error for a good
answer. `LongRuns` decides whether a run may outlive its lease.

### FileStore

A file is a sequence of blocks, written in place by `CopyBlock`. `holder` says who
has the lock of a name for writing; readers (`Free`, `Passes`) wait for it.
`Opened` opens without truncating. A push is `BeginPush`, `OpenNamed` (or
`PushUnnamed`), `CopyBlock`..., `SaveFile`, `SetAttributes`, then
`LoadSuccessors`, `NextSuccessor`, `Refetch` for `restoreDuplicates`, and
`LockGraph`, `Index` for the graph, to which its mutex lets one writer at a time.
`Successors` gives the list of a manifest; other blobs have none. `Fetchable` are
the digests whose content `Fetch` would return in full, `EdgesOf` what the graph
is to hold of a manifest. `BeginAdd` and `Add` hold the lock of the name over both
steps. `Predecessors` takes no mutex: beside a writer it may end in `race`.
`refName` is the annotation that `Tag` writes into the map of the caller's
descriptor. The model has the options as `file.New` leaves them.

`ImplementsBlobStore` maps the abstract `files` to the files of the names that
exist, and `blobs` to the digests whose content `Fetch` would return in full.
A push is a `Store` and later a `NameBlob`; an `Add` is both at once.

### LayerWrite

A path is a sequence of numbers (0 is `..`), a tree maps paths to nodes, and
`disk` maps each directory of the snapshotter to its tree. A directory holds no
link, since no extraction leaves one behind (`WithoutLinks`), so a write has none
to follow. `View` is what the mounts show: the writable directory over the others.
`Seen` is what the store sees, the directory alone when it is written past the
mount (`direct`), and `View` otherwise; `Write` copies into the writable directory
what was changed. `Choose` is the decision of `apply` (a layer without a name
needs nothing writable), `PushFile`, `PushDir` and `Blocked` are the push,
`AddDirectory` packs a directory as the publisher of the layer did, and
`ExtractEntry` and `Verify` unpack it. A fault ends a copy after any block or an
extraction at any entry.

### FetchProgress

`state` says how far the download of a blob is. `AddJob` is the handler that
`Fetch` hands in, `Open`, `Commit` and `Expand` are the handlers of the vendored
client, `Abort` a call that fails, after which the other goroutines end too.
`FetchReturns` is `stopProgress` and the test of the error, `ProgressClosed` the
wait for the channel. On the other side the select has `Tick` and `ContextDone`;
`Tick` lists the running downloads, `List` reads the jobs and asks the content
store about some, `Draw` draws. The three look at the world at different times.
Once the context is cancelled every call to the daemon fails (`CallFails`).

### SpecOptions

`cOpts` is what is left of the options in the order in which `NewContainer`
gives them. Each reads the manifest, so each fails if the collector has taken it.
`Chosen` is the image the options were made with. The spec options have no state
but the spec, and are one step, `WithSpec`; `Process` composes them in order.
`CallFails` ends `NewContainer` at any of its calls.

The other clients move the reference (`Move`), unpack an image themselves
(`UnpackElsewhere`), or unpack one with the same config blob, which takes the label
away (`Relabel`). `labelled` are the images whose config has the label that keeps the
chain. `IsUnpacked` is one `Stat`: the chain it finds may have no label, since another
client died before it set one, or lose it later, and then only a snapshot on it keeps
it (`Held`). A run that unpacks holds the chain by its lease (`leased`).

An entry of an environment is a record, not a string: `strings.Cut` is decided by
its fields, and an override without `=` has `NoValue`. `Overridden` is the first
loop of `replaceOrAppendEnvValues`, and `Kept` the second, which shortens the list
it runs over: `Pass` is one pass of it, with its index, which stays when an entry
was removed. `given` is what the options before have put into the environment:
nothing, in `NewContainer`, whose variables `env` and `envFile` stay empty; the
run also takes the lists that other users of the option may give, some of which
set a variable twice.

## 3. The runs

| Run | Instance | States | Shows |
|---|---|---|---|
| `unpack_two_faults` | 2 clients, 2 images of two layers that share the base, 2 keys, 2 IDs; any 2 of crash, fail, lost reply | 1.2 million | a client keeps its key, the label of a layer is missing only after a failure, refinement of `ChainStore` |
| `unpack_shared_config` | 2 clients, an image and its lower part, one config blob for both, 1 fault of any kind, a lost commit among them, with fairness | 195 000 | the inductive invariant `Inv`; nothing partial is published and containers keep their image although labels are replaced; what trouble a peer can cause; every run ends, succeeds when nothing fails, and leftovers are collected |
| `apply_chain` | 2 callers, a 3-layer image and its lower part, 2 faults, with fairness | 67 000 | the invariant `ApplyInv`, frames are not mixed up, a success means the chain is there, the recursion ends, leftovers are collected, refinement of `ChainStore` |
| `lifecycle` | 2 runs, 1 deletion, 1 ID, all flags, 1 fault, with fairness | 90 000 | a run waits for, reports and deletes no task but its own; a process keeps its container, but for a record that is lost in one of two ways; a snapshot in use is not removed before its record; `--rm` leaves nothing behind; an ID can be used again |
| `filestore` | 3 goroutines with any of 12 calls, a 2-block blob under 2 names, an archive, a manifest, a file and a directory to add, 1 fault, with fairness | 141 000 | refinement of `BlobStore`, whole files, names, duplicates, the graph of what was pushed, temporary files, every call returns |
| `layer_write` | an overlay, a bind mount, a read-only mount and all aufs mounts of up to 3 branches; 4 trees in each of 3 directories; files, packed directories, archives of other tools; 1 fault | 438 000 | what the mounts show, what is not touched, packing against extracting |
| `fetch` | a manifest with a config and a layer, 3 sets of blobs that were there, 2 faults, with fairness | 83 000 | a recorded image is complete, the last frame is true and drawn in time, both goroutines end |
| `spec_options` | 2 images, all environments of 2 variables, in the image and before it, 2 moves of the reference, any unpacking and relabelling by others, failed calls | 3.4 million | one image, the environment asked for, no refusal without a reason |
| `delete_races_run`, `delete_created`, `filestore_restore_race`, `layer_over_longer_file` | 2 processes, or one layer; no fault | | what a comment says and the code does not do (section 4) |

### Why the bounds are enough

*Two clients* is what a race for a name takes; the code never looks at how many
others there are. A third client matters where one sets and another replaces a
label (it lets a chain go while a third relies on it): `Relabels` names that case,
and the invariants that matter are proved for any number. *Two layers* have a
base, a step with a parent and a shared prefix; recursion needs *three*, so that a
frame in the middle calls and is called. *Two keys* make a collision and a second
draw. *Two IDs* allow both a collision and none, since every choice of image and
ID for each client is an initial state. *Two faults* are the smallest number at
which one fault hits the clean-up of another (a failed `Commit` followed by a
failed `Remove`); `unpack_shared_config` and the other larger models take one to
stay small. `MaxFaults` bounds only the number of faults and never when they
happen. *Three goroutines* let a copy of a manifest, a push of a duplicate and a
reader or `Close` overlap. Blobs have *two blocks*, so that a file can be partial;
the old file in the way has three, so that it has a tail. *Three branches* make
every shape the scan of aufs options tells apart: a wrong first one, a second
writable one, a wrong one after a good prefix. *Two layers below* give a file the
places of a hidden file, a shown one and a directory. *Three blobs* in two
generations make a goroutine that waits for others and two that run beside each
other. *Two moves* of a reference let it come back to the first image after its
content was collected. No run uses symmetry or a state constraint. Deadlock is
checked in all runs: the stuttering steps (`Quiet`, `Applied`, `Rest`, `Return`)
are enabled only when every process has ended.

### What some properties need to say

`FreshKeys`: a client whose `Commit` took effect but reported an error goes to its
deferred `Remove`, which removes by name. Its key is free by then, and may be another
client's, whose extraction snapshot goes. That client then fails, unless a third
draws the same key at once: then the second publishes what the third is writing.
`FreshKeys` says that no key is drawn under which another client writes. The key has
a time and a random number in it (`uniquePart`), so this is as good as certain; the
code itself only has the retry on `AlreadyExists`, and with three clients, one unique
value and one lost commit TLC finds a torn layer under a chain ID. So `FreshKeys` is a
hypothesis of theorems (section 5), and no run checks it: two clients cannot break it,
whatever the code does, and without a lost commit it is a theorem for any number.

`EnvAsWanted` is about lists in which what is to be unset can be (`EnvsApply`,
sections 4 and 5).

`MissingOnlyAfterTrouble`: a layer that a client found by `Stat`, or lost the race
for, is in no lease of that client. It can be gone when the client prepares on
it, and the run then fails. The property says this needs a peer that failed, died
or replaced the label: a peer that succeeds sets the label of the config before
it releases its lease. `NotFoundOnlyAfterEnd` says the same of the recursion.

`LayersLabelled`: the label of a layer is written only by the client that applied
it, so a client that dies between a commit and the label leaves a layer that later
clients find present and never label. The property says that this, and only this, is
when the label is missing.

`LayerVisible` takes the layers that have a name. One without goes into the memory
of a store that nobody keeps, `Apply` returns success and nothing is written
(`PushUnnamed`). `AddedExtracts` takes directories without links (section 4), and
the writable directory of an overlay or aufs mount, where nothing is in the way.

`RefusedForAReason` lists the reasons for which `NewContainer` may refuse when no call
fails. One is the reference, which names nothing or another image than it did, so that
the manifest may be gone at any of the readings. Another is a chain that was found
unpacked and has gone since: it had no label, or lost it, and the run had not unpacked
it, so nothing held it until `WithNewSnapshot`. What is left out, and so checked, is a
chain the run has unpacked itself, a chain that is there or keeps its label, and
everything that would come of the order of the options.

`ProcessKeepsContainer` allows a process to lose its record in two ways, and its
snapshot only after that. `rcl delete` may take the record from under it, because it
looked for the task before that was created. And `container.Delete` of a `--rm` goes
by the ID: if the record of that run was taken after it had looked for a task, another
run can create its record and its task under the ID, and then lose the record to the
clean-up of the first. No fault is needed for either. Every other way is excluded: that
a run takes a record while it has its own, or the snapshot of another at any time.

`TaskIsOwn` holds with `LongRuns = FALSE` and any number of faults,
`ProcessKeepsContainer` and `SnapshotGoesAfterTask` with one fault. With `LongRuns
= TRUE` the writable snapshot of a container whose record was deleted can be
collected while its process runs, a second run can take the ID, and the first then
reports and deletes the task of the second. With two faults, a failed wait
followed by a failed look-up in `container.Delete` removes the record and the
snapshot of a process that runs.

`GraphOfPushed` is about the graph of what a push has reported as done, and about the
answers of `Predecessors`. A push that fails after it has stored a manifest leaves the
graph without it, and the next push of the name is refused before it gets there. An
answer that read the maps while a writer changed them is `race` and not an answer.

`StoredComplete`, `PushedFetchable`, `NoTempAfterClose` and `ImplementsBlobStore`
need `WellNamed`: in all that is called, a name stands for one blob and has a path
of its own, what lies at the path at the start is that blob, and what a manifest
lists by a name is not first added under it. That is how a collection uses names;
the code does not enforce it. Without the first part a push that failed after the
copy leaves its digest mapped and its name free, and the next push of the name
replaces the file (section 4); without the second two pushes write one file at the
same time, since the lock is on the name. `DuplicatesRestored` also needs
`BottomUp`: a manifest is pushed after what it lists, as a copy does. The calls of
`MCFileStore` are of this kind; the assumption `ProgramsAssumption` there has TLC
evaluate both.

`ImageComplete` says that the content store has a set of blobs that holds the root
and is closed under the lists of its manifests. That is reachability without a
recursive definition.

### Fairness

Safety is checked of `Spec`, without fairness. `FairSpec` adds weak fairness to:

- the steps of a process that runs. It is a sequential program, every call it
  makes returns (with an error if need be), and the scheduler of Go and of the
  operating system runs it. Starting (`Start`, `StartRun`) is not fair: nobody has
  to run a command. Faults and crashes are not fair.
- `Expire`: a lease has an expiry date (`run.go`, the 24 hours of
  `client.WithLease`), which passes.
- the collector: containerd schedules a collection after deletions.
- `Exit` in `Lifecycle`: that a process ends is an assumption about the container,
  without which a run waits as long as the process runs, as it should.

Strong fairness is used in one place: `Tick` and `ContextDone` are the two cases of
a select in a loop, which Go chooses at random when both are ready, so that a case
that is ready again and again is taken. Elsewhere nothing a process waits for can
be taken away for ever. A goroutine waiting for the lock of a name waits for a push that ends, and
pushes of a name are finite in a behaviour.

## 4. Disagreements between code and documentation

Each of these runs has one property, which states what a comment says, and TLC
finds a behaviour of the code that violates it.

| Run | Property | What happens |
|---|---|---|
| `delete_races_run` | `RunningKeepsRecord` | `delete.go` and `container.Delete` look for a task and delete the record in separate calls; a run starts its task in between, and a process runs without a record |
| `delete_created` | `DeleteRefusesOnlyRunning` | `delete.go:81` admits a task that is `Created`; `task.Delete` without `WithProcessKill` refuses it, so a container whose run died before `Start` cannot be deleted by `rcl delete` |
| `layer_over_longer_file` | `LayerVisible` | `pushFile` opens without `O_TRUNC`; through a mount that shows the layers below, a layer that replaces a longer file leaves the tail of the old one behind its own content |
| `filestore_restore_race` | `DuplicateOnlyIfPushedTwice` | `restoreDuplicates` checks a name and pushes it later; a push of that name in between makes the push of the manifest, or the other, fail with `ErrDuplicateName` |

More weaknesses show when a constant is changed, and bound what the passing runs
say:

- `ensureLinkPath` joins the link to the absolute directory of its file, and
  `ensureBasePath` compares the result with the prefix, which is relative;
  `filepath.Rel` fails on such a pair, so every link of an archive is refused,
  those that stay inside too, though the comment (`utils.go:222`) promises the
  target "if validated". With `Layers <- Linked` in `MCLayerWrite.cfg`,
  `AddedExtracts` fails: a directory with a link can be added and not extracted.
- `digestToPath` is written before the owner of the file is set or the archive is
  extracted. If that fails, the name stays free and the entry stays; another blob
  pushed under the name replaces the file the first digest is mapped to. The run
  `filestore` and the theorems let each name stand for one blob (`WellNamed`), and
  no name be both pushed and added (`FileStoreAssumption`).
- `replaceOrAppendEnvValues` keeps one place for each variable. If the image names
  a variable twice, an override removes or replaces only the last entry, and an
  override of a variable an earlier override has appended is appended again. To
  unset such a variable leaves an entry behind. The lists of `MCSpecOptions` name a
  variable twice only in the options, and only to set it twice.
- `container.Delete` removes the record by the ID (`container.go:187`), without a
  fault in sight: run 2 with `--rm` has removed its snapshot, `rcl delete` takes its
  record, run 1 takes the ID and starts its process, and then the deferred deletion of
  run 2 removes the record of run 1. `ProcessKeepsContainer` names this case (`Lost`);
  without its second disjunct the property fails with two runs and no fault.
- After a failed fetch the last frame takes every job for done, and `Fetch` has
  returned without waiting for it. `LastFrameShown` is about fetches that succeed.

## 5. The proofs

Every theorem holds for any value of the constants that satisfies the `ASSUME` of
its module, so for any number of processes, images, layers, blobs, IDs, calls and
faults, except for what the table names. The word in brackets is the invariant
from which it follows.

| Module | Theorem | Says | Needs |
|---|---|---|---|
| `UnpackProofs` | `StructureHolds` | `Spec => []Structure` | |
| | `TypeCorrect` | `Spec => []UnpackTypeOK` (`Structure`) | |
| | `NoMissingParent` | `Spec => []ParentsPresent` (`Structure`) | |
| | `ContainersIntact` | `Spec => []RootfsIntact` (`Structure`) | |
| | `Invariance` | `Spec /\ FreshKeys => []Inv` | fresh keys |
| | `NoPartialSnapshot` | `Spec /\ FreshKeys => []CommittedComplete` (`Inv`) | fresh keys |
| | `Refinement` | `Spec /\ FreshKeys => ImplementsChainStore` (`Inv`) | fresh keys |
| | `KeysAreExclusive` | `Spec => []KeyKept` | no lost commit |
| | `KeysAreFresh` | `Spec => FreshKeys` (`KeyKept`) | no lost commit |
| | `NothingPartialWithoutLostCommits` | `Spec => []CommittedComplete` | no lost commit |
| | `LayersStayForOthers` | `Spec => []MissingOnlyAfterTrouble` (`LabelInv`) | |
| | `LabelsAreSet` | `Spec => []LayersLabelled` (`LabelInv`) | |
| `ApplyProofs` | `FramesKeepTheirKeys` | `Spec => []ApplyInv` | |
| | `SuccessIsPresent` | `Spec => []SuccessMeansPresent` | |
| | `NotFoundMeansEnded` | `Spec => []NotFoundOnlyAfterEnd` | |
| | `RecursionRefines` | `Spec => ImplementsChainStore` | |
| `LifecycleProofs` | `WhatARunMadeIsItsOwn` | `Spec => []LifecycleInv` | `~ LongRuns` |
| | `RunsHandleTheirOwnTask` | `Spec => []TaskIsOwn` | `~ LongRuns` |
| | `ProcessesKeepTheirContainer` | `Spec => []ProcessKeepsContainer` (`LifecycleInv`) | `~ LongRuns`, one fault |
| | `SnapshotsOutliveTheirTask` | `Spec => SnapshotGoesAfterTask` | `~ LongRuns`, one fault |
| `FileStoreProofs` | `StoreTyped` | `Spec => []TypeOK` (`CallInv`) | |
| | `FilesKeepTheirBlobs` | `Spec => []FileInv` | `WellNamed` |
| | `MappedFilesAreComplete` | `Spec => []StoredComplete` (`FileInv`) | `WellNamed` |
| | `CloseRemovesTemps` | `Spec => []NoTempAfterClose` (`FileInv`) | `WellNamed` |
| | `SuccessIsFetchable` | `Spec => []PushedFetchable` (`HeldInv`) | `WellNamed` |
| | `PushRestoresDuplicates` | `Spec => []DuplicatesRestored` (`RestoreInv`) | `WellNamed`, `BottomUp` |
| | `GraphFollowsContent` | `Spec => []GraphOfPushed` (`GraphInv`) | `WellNamed` |
| | `StoreImplementsBlobStore` | `Spec => ImplementsBlobStore` (`NamesInv`) | `WellNamed` |
| `LayerProofs` | `LayerInvariance` | `Spec => []LayerInv` | |
| | `NothingBelowIsWritten` | `Spec => []LowerUntouched` (`LayerInv`) | |
| | `AddedCanBeExtracted` | `Spec => []AddedExtracts` (`LayerInv`) | `Extractables` |
| | `LayersAreVisible` | `Spec => []LayerVisible` (`LayerInv`) | `NothingLonger` |
| `FetchProofs` | `FetchInvariance` | `Spec => []FetchInv` | |
| | `RecordedIsComplete` | `Spec => []ImageComplete` | |
| | `LastFrameIsShown` | `Spec => []LastFrameShown` | |
| `SpecProofs` | `OptionsInOrder` | `Spec => []SpecInv` | |
| | `ContainerIsOfOneImage` | `Spec => []OneImage` | |
| | `RefusalHasAReason` | `Spec => RefusedForAReason` (`SpecInv`) | |
| | `EnvironmentAsWanted` | `Spec => []EnvAsWanted` (`EnvInv`) | `EnvsApply` |

What the hypotheses mean for the code:

- *Fresh keys* is `FreshKeys` (section 3): a property of the behaviour, not of the
  constants. `KeysAreFresh` shows that it costs nothing when no commit is lost: then
  the retry on `AlreadyExists` is enough, however few keys there are.
- *No lost commit* is `"lost_commit" \notin FaultKinds`. With one, `KeyKept` is
  false: an extraction snapshot may be removed while its client uses it.
- `~ LongRuns`: no run is longer than the 24 hours of its lease (`run.go`). One
  that is can lose its snapshot, and then its ID, to others (section 3).
- *One fault* is `MaxFaults <= 1`. `container.Delete` takes an error of the look-up
  for the absence of a task, so two faults remove the record and the snapshot of a
  process that runs (section 3).
- `WellNamed` and `BottomUp` say how names are used by those who call the store
  (section 3).
- `NothingLonger`: no file of a layer is shorter than a file of its name in a
  directory of the snapshotter. It is the negation of what the run
  `layer_over_longer_file` shows to go wrong, and of nothing else. It is needed for
  layers of one file; an archive is extracted with truncation.
- `Extractables`: what was packed has no links (section 4), and was packed under a
  name without `..` at its front.
- `EnvsApply`: every variable has a name, and a variable whose last override is to
  unset it is either in the defaults once, or not at all, and then no override has
  set it before. The condition is exact: on all pairs of lists of up to two
  entries, TLC finds the result wrong whenever it does not hold.

What is outside the code is in the `ASSUME`s. Those of `LayerWrite` say of the
snapshotters that at most one directory of a mount is writable and that it is not
one of those below, and of the directories that no layer has left a link in them.

### Unpacking

`CommittedComplete` alone is not inductive: that a `Commit` publishes the right
files needs to know what the key holds.

```
Structure == UnpackTypeOK /\ LeaseHeld /\ ChainGrows /\ ParentsPresent
             /\ RootfsPrepared /\ RootfsIntact
Inv == Structure /\ KeyHolds /\ CommittedComplete
```

`Structure` is inductive by itself, whatever the extraction snapshots hold:

- `LeaseHeld`: a client that runs has its lease.
- `ChainGrows`: a client is somewhere in the layers of its image, from the base up.
- `ParentsPresent`: nothing removes a chain but the collector, and the set it
  keeps (`KeptChains`) is closed under parents and holds the parents of every
  key and writable snapshot it keeps.
- `RootfsPrepared`, `RootfsIntact`: the writable snapshot a client prepared is
  kept by its lease until the record is created, and by the record after that.

`KeyHolds` says of the key a client writes under: *if it is there*, its `lessee` is
that client, and it holds the layers below, then those and a torn layer, then the
whole chain. Leaving open whether it is there makes the invariant stand a `Remove`
of a key that belongs to another, and is enough, because a `Commit` of a key that is
gone publishes nothing. Only a client that is given the key anew could break it, and
this is what `FreshKeys` excludes. `KeyKept` adds that the key is there. It is
inductive on `Structure` alone as long as no commit is lost: two clients never share
a key, so another's `Remove` leaves it alone, and the collector keeps it by
`LeaseHeld`. `FreshKeys` follows, since `Prepare` refuses a key that exists.

The proof has a lemma for each operation of the store (what `Put`, `Without` and
`Restrict` do to a partial function, that `KeptChains` is closed under prefixes;
these are in `StoreProofs`), one for each action, and one that puts them together.
`Refinement` maps `content` to `committed` and `root` to the parents of the
writable snapshots of the records: `CommitLayer` is `Publish`, `CreateRecord` is
`Create`, `CollectGarbage` is `Reclaim` or a stutter, every other step a stutter.

### Layers that a client does not lease

Between the `Stat` that finds a layer and the `Prepare` on top of it the layer is
in no lease of the client. Why is it still there? Because of a peer: whoever
committed it has it leased until it has labelled the config, and from then on the
label names the chain. `LabelInv` says this as long as nothing has failed and no
label was moved (`Clean`): every chain is part of one that a lease or a label names
(`Rooted`), a client that has unpacked its image has set its label (`HasLabel`),
and what a client takes for present is present (`Relies`). `Rooted` is the reason
why the collector, which follows leases and labels, takes nothing then. Once
something has failed the properties promise no more, so the invariant only has to
carry `Clean` backwards: a fault, a death or a moved label stays in the history.

### The recursion

`ApplyInv` is `Inv` with the frame that runs in place of the client: its key, its
parent and its files are those of `ChainAt(p, depth[p])` (`InFrame`, `KeyKept`,
`KeyHolds`), and the frames above hold no key, because they have got `NotFound`
before they called. What a frame has found or committed is still there when its
caller tries again (`FoundHere`), unless a caller has ended (`SomeoneEnded`): while
all hold their leases, nothing that was committed is collected (`CommittedHeld`).

### The life of a container

`LifecycleInv` relates each run to what has its ID. While a run is at a step that
uses its snapshot, that is its own: the lease keeps it, so no other run can prepare
under the ID, and then none has a task there (`SnapIsOwn`, `TaskState`). The record has
no such protection. It is the run's own, or it is `Lost` (`RecordIsOwn`), which never
ceases to hold, since `taken` only grows. `Lost` is what the deletion by the ID needs:
a `--rm` that removes the record of another run has lost its own, and so the other has
now lost its record too. The clean-up of `--rm` removes snapshot and record although a
task may be left: `TaskState` counts how many calls must have failed for it, one that
made the run clean up although its task is there, and one for the look-up in
`container.Delete`. That gives the bound of the last two theorems: with one fault
(`TasksStand`) a task has what `Stands` says, and the collector, which takes a snapshot
without a record and a lease, takes only what is lost.

### The file store

`CallInv` is about control: where each call is in its list and in the duplicates of
a manifest, and that whoever pushes or adds a name holds its lock. It needs nothing
of names, and gives the types.

`FileInv` is about files. The argument is that a path that is mapped is written
only with the blocks it has already. Each path that a push writes belongs to one
digest (`PathFor`, from `WellNamed`), and its file always holds the first blocks of
that blob (`FilesBegun`). A push that is tried again after a failure opens the file
without truncating it, so it never shortens it and writes the same blocks over a
file that is complete (`CopyInv`). What `digestToPath` gives is therefore complete
at every moment (`MappedComplete`). Archives go to temporary files, each of which
is in `tmpFiles` as long as it exists (`TempsKnown`).

`HeldInv` adds that the store only grows until `Close`, so that what is behind a
call in its list is there. `RestoreInv` adds the same of the duplicates: those
before the current one exist if the blob does, and `BottomUp` says that it does.
`GraphInv` adds that the graph holds nothing but the lists of blobs that are
there, and what a push has passed in its list (`IndexedInv`): a manifest is
entered only after it was stored and its duplicates restored, and `Own` finds it
again behind the last of them. `NamesInv` adds that the file of a name that exists
is its blob. Under it each step maps to `BlobStore`: `SaveFile` and a push without
a name are `Store`, the last step of a push is `NameBlob`, `Add` is both, `Close`
is the end, and the rest stutters, as does the `SaveFile` of a digest that is
there already.

### Writing a layer

`LayerInv` follows the three decisions of `apply`. *Where*: the scan of the mount
options ends in the one writable directory, also of an aufs mount of any number of
branches, or in none, and then the layer goes through a temporary mount, which has
one as well; `top` is that directory (`Placed`); `Write` through a mount changes
the writable directory only. Hence `LowerUntouched`. *In what order*: the entries
of an archive are those of the directory that was packed, and none comes after
what is below it (`Listed`), so an extraction always finds the directory it writes
into. *What*: `Partly(left)` says that what the store sees is what was there, with
the layer over it but for the paths in `left`. An extraction keeps it with the
entries that are left (`Extracting`), a success has nothing left (`Finished`).
`ThroughMount` carries a write through the mount back to what the mounts show,
which needs that the directories below stand. A file that is opened without
truncation is `Overwritten` by its blob and then equal to it where `NothingLonger`
holds.

### The environment

`replaceOrAppendEnvValues` is proved for lists of any length. `LoopSteps` and
`OverrideSteps` show that the two loops, `Kept` and `Overridden`, which are
recursive functions, satisfy their equations at every number: if they did not,
there would be a smallest one, which the well-foundedness of `<` on the numbers up
to it excludes (`UpTo`). The library's induction takes an operator as a parameter;
a set of numbers serves as well when the hypothesis is a fact about its elements.
`OverriddenBy` is the invariant of the loop over the overrides: where each
variable has its places, and that the last override so far is in them. `KeptSteps`
follows the index through the other loop: before it stand the entries that were
not blank (`Done`), from it on those that are still to be looked at (`Ahead`).
`MergedIs` puts one behind the other, and `EnvInv` says that a container past that
option has the result of both.

### Fetching and options

`FetchInv` says, until something fails: what a goroutine has stored is in the
content store, and when it has ended, what the blob lists has been dispatched
(`Downloads`). When the image is recorded all that was dispatched has ended, so the
blobs that have ended are the closed set of `ImageComplete`. `Returns` and
`LastFrame` order the end of `Fetch` after the last frame, and say that nothing
runs when it is drawn.

`SpecInv` reads from the options that are left which fields are filled (`Filled`),
all from `image`, which `NewContainer` gets once; and that the image the reference
names is there, as are the chains with a label and the one the run has unpacked
itself (`Stays`). That leaves only the listed reasons for a refusal.

## 6. What is only model-checked

- All liveness: `Terminates`, `RunSucceeds`, `LeftoversCollected`,
  `RmLeavesNothing`, `IDFreedInTheEnd`, `CallsReturn`, `FetchEnds`. Liveness under
  fairness is out of the prover's reach.
- Each safety property without the hypothesis its theorem needs (section 5), where a
  run checks it so: `CommittedComplete` with a lost commit and no more than two
  clients (`unpack_shared_config`).
- That the assumptions on the constants can be satisfied: TLC evaluates them on the
  instance of each run.

Every invariant and every action property of a passing run is stated by a theorem.

## 7. What is not modelled

- The modes, times and owners of files, and an extraction through a link that an
  earlier entry has made: since every link is refused, there is none.
- `FileStore`: the options `DisableOverwrite`, `IgnoreNoName`, `SkipUnpack`,
  `AllowPathTraversalOnWrite` and `ForceCAS`, which no caller in the repository
  sets.
- The resolver and its hosts, the choice of a platform, the conversion of old
  manifests, `Size` and `Spec` of an image: reads that change nothing here. Their
  failure is a failed call.
- Flags, the socket's address, terminals and signals passed on to the process: no
  shared state. `parseMountFlag` parses `RunOptions.Mounts`, which no flag sets.
- The Windows section of `WithImageConfigArgs`: `run_unix.go` is the only caller
  and is not built there.
- Digests are taken not to collide, and content is as its digest says (the content
  store of containerd verifies it).
- Vendored code, but for the client functions named above.

## 8. The plan

Done, in the order of importance: the daemon and unpacking (`SnapshotStore`,
`Unpack`, `ChainStore`), its proofs (`UnpackProofs`), the recursion
(`ApplyArtifacts`), the life of a container (`Lifecycle`), the file store and its
promise (`FileStore`, `BlobStore`), the layer on the disk (`LayerWrite`), the
fetch (`FetchProgress`), the options (`SpecOptions`).

The proofs: the chains and labels (`UnpackProofs`), the recursion (`ApplyProofs`),
the life of a container (`LifecycleProofs`), the file store with its refinement
(`FileStoreProofs`), the layer on the disk (`LayerProofs`), the fetch (`FetchProofs`)
and the options with the environment (`SpecProofs`).

Next:

1. The names of the file store without `WellNamed`: what still holds when a name is
   pushed with two blobs.
2. Links in `LayerWrite`, once `ensureLinkPath` admits those that stay inside.
3. Shorter proofs: the frames of the lemmas in `FileStoreProofs` and `ApplyProofs`.
