---------------------------- MODULE MCFileStore -----------------------------
(***************************************************************************)
(* Instances of FileStore: a blob of two blocks under the names a and b,   *)
(* listed under both by a manifest, and an archive to unpack.              *)
(***************************************************************************)
EXTENDS FileStore

CONSTANTS a, b, c, dir, dir2, v1, blob, other, archive, manifest

Desc(n, d) == [name |-> n, digest |-> d, unpack |-> d = archive]

Blocks == [d \in Digest |-> CASE d = blob -> <<1, 2>> [] d = other -> <<3>>
                              [] d = archive -> <<4>> [] OTHER -> <<5>>]

Lists == [d \in Digest |-> IF d = manifest THEN <<Desc(a, blob), Desc(b, blob)>> ELSE <<>>]

OwnPaths == [n \in Name |-> n]

\* The name c is a file of the caller that holds the blob.
NoFiles == [p \in {c} |-> Blocks[other]]

Call(k, ds, r) == [kind |-> k, descs |-> ds, ref |-> r]
Push(ds) == Call("push", ds, NoName)

\* Copies of the manifest's graph, with the blob under either name, pushes of
\* the blob and the archive alone, a file and a directory that are added,
\* queries, and the end of the store.
AllCalls == <<
    Push(<<Desc(a, blob), Desc(NoName, manifest)>>), Push(<<Desc(b, blob)>>),
    Push(<<Desc(a, blob)>>), Push(<<Desc(dir, archive)>>),
    Call("fetch", <<Desc(NoName, blob)>>, NoName), Call("add", <<Desc(c, other)>>, NoName),
    Call("add", <<Desc(dir2, archive)>>, NoName), Call("exists", <<Desc(b, blob)>>, NoName),
    Call("tag", <<Desc(a, blob)>>, v1), Call("resolve", <<Desc(a, blob)>>, v1),
    Call("predecessors", <<Desc(a, blob)>>, NoName),
    Call("close", <<Desc(NoName, manifest)>>, NoName)>>

\* Every three of them, the threads being alike.
AllPrograms ==
    {[t \in Thread |-> AllCalls[f[t]]] :
        f \in {g \in [Thread -> DOMAIN AllCalls] : \A t, u \in Thread : t < u => g[t] <= g[u]}}

RestorePrograms ==
    {<<Push(<<Desc(a, blob), Desc(NoName, manifest)>>), Push(<<Desc(b, blob)>>)>>}

\* The programs are in the reach of the theorems.
ASSUME ProgramsAssumption == WellNamed /\ BottomUp
=============================================================================
