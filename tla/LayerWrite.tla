----------------------------- MODULE LayerWrite -----------------------------
(***************************************************************************)
(* How a layer reaches the directories of a snapshot: apply of             *)
(* aritfact/applier.go and what Push of a new file store does there, with  *)
(* the archives that aritfact/content/file/utils.go writes and extracts.   *)
(*                                                                         *)
(* apply writes into the writable directory of an overlay or aufs mount,   *)
(* past the mount, where the layers below are not to be seen.  Any other   *)
(* mount is mounted on a temporary directory and shows them.               *)
(*                                                                         *)
(* A path is a sequence of numbers, the order of the numbers being that of *)
(* the names.  A tree maps paths to nodes; a file is a sequence of blocks. *)
(***************************************************************************)
EXTENDS Naturals, SequencesExt

CONSTANTS
    Dir,       \* the directories of the snapshotter
    NoDir,     \* the empty path, which no snapshotter gives
    Mounts,    \* the mounts of an extraction snapshot, [type, options]
    Layers,    \* the layers, [kind, name, data, tree, entries, sum, padded, big]
    Disks,     \* what the directories hold: Dir -> tree
    MaxFaults  \* bound: how many calls fail

Parent == 0    \* the path element ".."

DirNode == [kind |-> "dir", data |-> <<>>]
FileNode(blocks) == [kind |-> "file", data |-> blocks]
Node == {DirNode} \cup [kind : {"file", "link"}, data : Seq(Nat)]

IsDir(t, p) == p \in DOMAIN t /\ t[p] = DirNode

\* A tree has its root, and the directories above everything it has.
IsTree(t) ==
    /\ IsDir(t, <<>>)
    /\ \A p \in DOMAIN t :
          /\ p \in Seq(Nat) /\ t[p] \in Node
          /\ \A q \in Prefixes(p) \ {p} : IsDir(t, q)

WritableKinds == {"source", "upper", "rw"}
LowerKinds == {"lower", "ro"}

\* No snapshotter mounts a directory twice, for writing and below itself, or
\* gives two upper directories.
IsMount(m) ==
    /\ m.options \in Seq([kind : WritableKinds \cup LowerKinds, dir : Dir]
                          \cup [kind : {"other"}, dir : Dir \cup {NoDir}])
    /\ \A i, j \in DOMAIN m.options :
          m.options[i].kind \in WritableKinds =>
              /\ m.options[j].kind \in LowerKinds => m.options[i].dir # m.options[j].dir
              /\ m.options[j].kind \in WritableKinds => m.options[i].dir = m.options[j].dir

\* A layer never leaves a link behind: extraction refuses every one.  What it
\* finds below is what other layers have left, so that os.OpenFile and
\* os.MkdirAll have no link to follow.
WithoutLinks(t) == \A p \in DOMAIN t : t[p].kind # "link"

\* An archive that Add makes is of a directory, without padding.
IsLayer(l) ==
    /\ l.kind \in {"file", "archive", "foreign", "unnamed"}
    /\ l.name \in Seq(Nat) /\ l.data \in Seq(Nat)
    /\ l.kind = "archive" => IsTree(l.tree) /\ IsFiniteSet(DOMAIN l.tree) /\ ~ l.padded

ASSUME LayerWriteAssumption ==
    /\ NoDir \notin Dir
    /\ \A m \in Mounts : IsMount(m)
    /\ \A l \in Layers : IsLayer(l)
    /\ \A b \in Disks : DOMAIN b = Dir /\ \A d \in Dir : IsTree(b[d]) /\ WithoutLinks(b[d])
    /\ MaxFaults \in Nat

VARIABLES
    mount, userns, layer,
    before,  \* the directories when the layer came
    disk,    \* the directories
    top,     \* the directory that is written
    direct,  \* whether it is written past the mount
    entries, \* what the archive holds, and then what is left to extract
    pc, result, faults

inputs == <<mount, userns, layer, before>>
vars == <<inputs, disk, top, direct, entries, pc, result, faults>>

\* The options of these kinds, and their directories.
Options(kinds) == {n \in DOMAIN mount.options : mount.options[n].kind \in kinds}
DirsOf(kinds) == {mount.options[n].dir : n \in Options(kinds)}

Writable == DirsOf(WritableKinds)

Root == [p \in {<<>>} |-> DirNode]

\* The writable directory of an overlay or aufs mount is new; that of a bind
\* mount is a copy of the layers below.
Init ==
    /\ mount \in Mounts /\ layer \in Layers /\ before \in Disks
    /\ mount.type # "bind" => \A d \in Writable : before[d] = Root
    /\ userns \in BOOLEAN
    /\ disk = before
    /\ top = NoDir /\ direct = FALSE
    /\ entries = layer.entries
    /\ pc = IF layer.kind = "archive" THEN "add" ELSE "apply"
    /\ result = "none"
    /\ faults = 0

-----------------------------------------------------------------------------
(* Trees.                                                                  *)

Blocks(t, p) == IF p \in DOMAIN t THEN t[p].data ELSE <<>>

WithNode(t, p, node) == [q \in DOMAIN t \cup {p} |-> IF q = p THEN node ELSE t[q]]

\* os.MkdirAll.
CanMkdir(t, p) == \A q \in Prefixes(p) \cap DOMAIN t : IsDir(t, q)
WithDirs(t, p) ==
    [q \in DOMAIN t \cup Prefixes(p) |-> IF q \in Prefixes(p) THEN DirNode ELSE t[q]]

\* os.OpenFile with O_CREATE.
CanWrite(t, p) == p # <<>> /\ IsDir(t, Front(p)) /\ ~ IsDir(t, p)

\* Whether a tree leaves what another one has at a path to be seen.
Clear(t, p) == \A q \in Prefixes(p) \cap DOMAIN t : IsDir(t, q)

\* What an upper tree shows of a lower one.
Over(up, low) ==
    [p \in DOMAIN up \cup {q \in DOMAIN low : Clear(up, q)} |->
        IF p \in DOMAIN up THEN up[p] ELSE low[p]]

\* Whether the tree at a place of a stack is the one that is seen at a path.
Shown(stack, n, p) ==
    /\ p \in DOMAIN stack[n]
    /\ \A m \in DOMAIN stack : m < n => p \notin DOMAIN stack[m] /\ Clear(stack[m], p)

Stacked(stack) ==
    [p \in {q \in UNION {DOMAIN stack[n] : n \in DOMAIN stack} :
                \E n \in DOMAIN stack : Shown(stack, n, q)} |->
        stack[CHOOSE n \in DOMAIN stack : Shown(stack, n, p)][p]]

Upper == CHOOSE d \in Writable : TRUE

LowerTrees(d) == [n \in Options(LowerKinds) |-> d[mount.options[n].dir]]
Below(d) == Stacked(LowerTrees(d))

View(d) == Over(d[Upper], Below(d))

-----------------------------------------------------------------------------
(* Where the layer is written.                                             *)

\* Mutated: the last directory of an overlay, whatever it is.
OverlayUpper_Last ==
    LET ds == Options(WritableKinds \cup LowerKinds)
    IN  IF ds = {} THEN NoDir ELSE mount.options[Max(ds)].dir

\* The last one that is given.
OverlayUpper ==
    LET ups == Options({"upper"})
    IN  IF ups = {} THEN NoDir ELSE mount.options[Max(ups)].dir

\* One writable branch, and then read-only ones.
AufsUpper ==
    LET bs == mount.options
    IN  IF 1 \in Options({"rw"}) /\ \A n \in DOMAIN bs \ {1} : bs[n].kind = "ro"
        THEN bs[1].dir ELSE NoDir

\* NoDir: the mount has to be mounted.
DirectDir ==
    CASE mount.type = "overlay" /\ ~ userns -> OverlayUpper
      [] mount.type = "aufs" -> AufsUpper
      [] OTHER -> NoDir

\* Whether the mount can be mounted and take the layer: one without a writable
\* directory is read-only, and takes only what is not written to it.  An aufs
\* mount that getAufsPath refuses is refused by the kernel too.
Mountable == mount.type # "aufs" /\ (Writable # {} \/ layer.kind = "unnamed")

Fault == faults < MaxFaults /\ faults' = faults + 1

Done(outcome) == pc' = "done" /\ result' = outcome

Choose ==
    /\ pc = "apply"
    /\ \/ /\ DirectDir \in Dir
          /\ top' = DirectDir /\ direct' = TRUE /\ pc' = "push"
          /\ UNCHANGED <<result, faults>>
       \/ /\ DirectDir \notin Dir /\ Mountable
          /\ top' = IF Writable = {} THEN NoDir ELSE Upper
          /\ direct' = FALSE /\ pc' = "push"
          /\ UNCHANGED <<result, faults>>
       \/ /\ DirectDir \notin Dir
          /\ IF Mountable THEN Fault ELSE UNCHANGED faults
          /\ Done("failed")
          /\ UNCHANGED <<top, direct>>
    /\ UNCHANGED <<inputs, disk, entries>>

-----------------------------------------------------------------------------
(* Push.                                                                   *)

\* What the store sees of the directory it works in.
Seen == IF direct THEN disk[top] ELSE View(disk)

\* A mount copies what is changed into its writable directory, with the
\* directories above.
Write(t) ==
    LET changed == {p \in DOMAIN t : p \notin DOMAIN Seen \/ t[p] # Seen[p]}
    IN  disk' = [disk EXCEPT ![top] =
                    [p \in DOMAIN @ \cup UNION {Prefixes(q) : q \in changed} |-> t[p]]]

\* A layer without a name goes to the memory of a store that is dropped.
PushUnnamed ==
    /\ pc = "push" /\ layer.kind = "unnamed"
    /\ Done(IF layer.big THEN "failed" ELSE "ok")
    /\ UNCHANGED <<inputs, disk, top, direct, entries, faults>>

\* resolveWritePath, for a name relative to the working directory.
Escapes(p) == p # <<>> /\ Head(p) = Parent

Target == IF layer.kind = "file" THEN Front(layer.name) ELSE layer.name

Blocked ==
    /\ pc = "push" /\ layer.kind # "unnamed"
    /\ \/ Escapes(layer.name)
       \/ ~ CanMkdir(Seen, Target)
       \/ layer.kind = "file" /\ IsDir(Seen, layer.name)
    /\ Done("failed")
    /\ UNCHANGED <<inputs, disk, top, direct, entries, faults>>

\* The file is opened without O_TRUNC: what is behind the new blocks stays.
Overwritten(old, new) == new \o SubSeq(old, Len(new) + 1, Len(old))

\* With a fault the copy, or the change of owner after it, fails.
PushFile ==
    /\ pc = "push" /\ layer.kind = "file"
    /\ ~ Escapes(layer.name) /\ CanMkdir(Seen, Target) /\ ~ IsDir(Seen, layer.name)
    /\ \E n \in 0..Len(layer.data) :
          /\ Write(WithNode(WithDirs(Seen, Target), layer.name, FileNode(
                       Overwritten(Blocks(Seen, layer.name), SubSeq(layer.data, 1, n)))))
          /\ \/ n = Len(layer.data) /\ Done("ok") /\ UNCHANGED faults
             \/ Fault /\ Done("failed")
    /\ UNCHANGED <<inputs, top, direct, entries>>

\* pushDir up to the extraction: the temporary file and the digest of the blob.
PushDir ==
    /\ pc = "push" /\ layer.kind \in {"archive", "foreign"}
    /\ ~ Escapes(layer.name) /\ CanMkdir(Seen, Target)
    /\ Write(WithDirs(Seen, Target))
    /\ \/ pc' = "extract" /\ UNCHANGED <<result, faults>>
       \/ Fault /\ Done("failed")
    /\ UNCHANGED <<inputs, top, direct, entries>>

-----------------------------------------------------------------------------
(* Archives.                                                               *)

\* filepath.Walk: a directory, and then what is in it by name.
Before(p, q) ==
    \/ IsStrictPrefix(p, q)
    \/ \E n \in DOMAIN p \cap DOMAIN q : p[n] < q[n] /\ SubSeq(p, 1, n - 1) = SubSeq(q, 1, n - 1)

Entry(t, name, p) == [path |-> name \o p, kind |-> t[p].kind, data |-> t[p].data]

\* Mutated: a directory comes after what is in it.
Walked_Deepest(ps) == \A m, n \in DOMAIN ps : m < n => Before(ps[n], ps[m])

Walked(ps) == \A m, n \in DOMAIN ps : m < n => Before(ps[m], ps[n])

Tarred(t, name) ==
    {[n \in DOMAIN ps |-> Entry(t, name, ps[n])] :
        ps \in {ps \in Bijection(1..Cardinality(DOMAIN t), DOMAIN t) : Walked(ps)}}

\* Add of a directory, on the side that publishes the layer.
AddDirectory ==
    /\ pc = "add"
    /\ entries' \in Tarred(layer.tree, layer.name)
    /\ pc' = "apply"
    /\ UNCHANGED <<inputs, disk, top, direct, result, faults>>

\* ensureBasePath: filepath.Rel needs two absolute paths or two relative ones.
InBase(base, target) == base.abs = target.abs /\ IsPrefix(base.path, target.path)

Base == [abs |-> FALSE, path |-> layer.name]

\* ensureLinkPath joins the link to the directory of the file, which is absolute.
LinkTarget(e) == [abs |-> TRUE, path |-> Front(e.path) \o e.data]

Extractable(t, e) ==
    /\ InBase(Base, [abs |-> FALSE, path |-> e.path])
    /\ e.kind = "file" => CanWrite(t, e.path)
    /\ e.kind = "dir" => CanMkdir(t, e.path)
    /\ e.kind = "link" => InBase(Base, LinkTarget(e)) /\ e.path \notin DOMAIN t

\* Mutated: no O_TRUNC.
Extracted_InPlace(t, e) ==
    CASE e.kind = "file" -> WithNode(t, e.path, FileNode(Overwritten(Blocks(t, e.path), e.data)))
      [] e.kind = "dir" -> WithDirs(t, e.path)
      [] e.kind = "link" -> WithNode(t, e.path, [kind |-> "link", data |-> e.data])
      [] OTHER -> t

\* Devices and the like are skipped.
Extracted(t, e) ==
    CASE e.kind = "file" -> WithNode(t, e.path, FileNode(e.data))
      [] e.kind = "dir" -> WithDirs(t, e.path)
      [] e.kind = "link" -> WithNode(t, e.path, [kind |-> "link", data |-> e.data])
      [] OTHER -> t

ExtractEntry ==
    /\ pc = "extract" /\ entries # <<>>
    /\ \/ /\ Extractable(Seen, Head(entries))
          /\ Write(Extracted(Seen, Head(entries)))
          /\ entries' = Tail(entries)
          /\ UNCHANGED <<pc, result, faults>>
       \/ /\ IF Extractable(Seen, Head(entries)) THEN Fault ELSE UNCHANGED faults
          /\ Done("failed")
          /\ UNCHANGED <<disk, entries>>
    /\ UNCHANGED <<inputs, top, direct>>

\* The reader stops at the end of the archive; the checksum of what it has read
\* is not that of an archive with padding behind the end.
Verify ==
    /\ pc = "extract" /\ entries = <<>>
    /\ Done(IF layer.sum /\ layer.padded THEN "failed" ELSE "ok")
    /\ UNCHANGED <<inputs, disk, top, direct, entries, faults>>

Applied ==
    /\ pc = "done"
    /\ UNCHANGED vars

Next ==
    \/ AddDirectory \/ Choose \/ PushUnnamed \/ Blocked \/ PushFile \/ PushDir
    \/ ExtractEntry \/ Verify \/ Applied

Spec == Init /\ [][Next]_vars

-----------------------------------------------------------------------------
(* Properties.                                                             *)

\* What the layer is meant to hold: its file, or the tree it was made of, with
\* the directories above.
Content ==
    CASE layer.kind = "file" ->
             WithNode(WithDirs(<<>>, Target), layer.name, FileNode(layer.data))
      [] layer.kind = "archive" ->
             [p \in Prefixes(layer.name) \cup {layer.name \o q : q \in DOMAIN layer.tree} |->
                 IF IsPrefix(layer.name, p)
                 THEN layer.tree[SubSeq(p, Len(layer.name) + 1, Len(p))] ELSE DirNode]

\* "Apply applies the content associated with the provided digests onto the
\* provided mounts" (applier.go:28): when it succeeds, the mounts show the
\* layer over what they showed before, whichever way it was written.
LayerVisible ==
    result = "ok" /\ layer.kind \in {"file", "archive"} =>
        View(disk) = Over(Content, View(before))

\* The directories of the layers below belong to committed snapshots: nothing
\* is written to them, not even by an apply that fails.
LowerUntouched ==
    \A d \in Dir \ Writable : disk[d] = before[d]

\* A directory that Add has packed can be applied again where nothing is in the
\* way: pack and extract agree on the order of the entries, on what an entry
\* is named and on the checksum.
AddedExtracts ==
    layer.kind = "archive" /\ direct /\ pc = "done" => result = "ok" \/ faults > 0

=============================================================================
