---------------------------- MODULE MCLayerWrite ----------------------------
(***************************************************************************)
(* Instances of LayerWrite: one writable directory and two layers below    *)
(* it, with a directory 1 and the files 1/1, 1/2 and 2.                    *)
(***************************************************************************)
EXTENDS LayerWrite

CONSTANTS fresh, low1, low2

Opt(k, d) == [kind |-> k, dir |-> d]
Overlay == [type |-> "overlay",
            options |-> <<Opt("other", NoDir), Opt("upper", fresh), Opt("lower", low1), Opt("lower", low2)>>]
Bind == [type |-> "bind", options |-> <<Opt("source", fresh)>>]
ReadOnly == [type |-> "overlay", options |-> <<Opt("lower", low1), Opt("lower", low2)>>]

\* Every aufs mount of up to three branches, well-formed or not.
Aufs == [type : {"aufs"},
         options : BoundedSeq([kind : {"rw"}, dir : {fresh}] \cup [kind : {"ro", "other"}, dir : {low1, low2}], 3)]

AllMounts == Aufs \cup {Overlay, Bind, ReadOnly}

OneFile(p, bs) == WithNode(WithDirs(Root, Front(p)), p, FileNode(bs))
LowTrees == {Root, OneFile(<<1>>, <<7>>), OneFile(<<1, 1>>, <<7, 8>>), OneFile(<<2, 1>>, <<7>>)}

AllDisks == [Dir -> LowTrees]

Layer == [kind |-> "file", name |-> <<>>, data |-> <<>>, tree |-> Root, entries |-> <<>>,
          sum |-> FALSE, padded |-> FALSE, big |-> FALSE]

Named(p, bs) == [Layer EXCEPT !.name = p, !.data = bs]

\* Directories with a file, a directory and what is in it.
Added ==
    {[Layer EXCEPT !.kind = "archive", !.name = <<1>>, !.sum = TRUE,
                   !.tree = Root @@ [p \in ps |-> IF p = <<2>> THEN DirNode ELSE FileNode(<<3>>)]] :
        ps \in {{}, {<<2>>}, {<<1>>, <<2>>, <<2, 1>>}}}

\* A directory with a link to the file beside it.
Linked ==
    {[Layer EXCEPT !.kind = "archive", !.name = <<1>>, !.sum = TRUE,
                   !.tree = Root @@ (<<1>> :> FileNode(<<3>>)) @@
                            (<<2>> :> [kind |-> "link", data |-> <<1>>])]}

\* Archives of other tools: a file whose directory is missing, an entry beside
\* the directory, a device, padding.
File(p) == [path |-> p, kind |-> "file", data |-> <<4>>]
Foreign ==
    {[Layer EXCEPT !.kind = "foreign", !.name = <<1>>, !.sum = TRUE, !.entries = es, !.padded = pad] :
        es \in {<<File(<<1, 1, 1>>)>>, <<File(<<2>>)>>,
                <<[path |-> <<1, 2>>, kind |-> "other", data |-> <<>>], File(<<1, 1>>)>>},
        pad \in BOOLEAN}

Unnamed == {[Layer EXCEPT !.kind = "unnamed", !.big = b] : b \in BOOLEAN}

\* No named file is shorter than one it can meet.
AllLayers ==
    {Named(<<1, 1>>, <<1, 2>>), Named(<<2>>, <<1, 2>>), Named(<<Parent, 1>>, <<1>>)}
    \cup Added \cup Foreign \cup Unnamed

\* A file of one block, where a layer below has one of two.
ShortFile == {Named(<<1, 1>>, <<1>>)}
=============================================================================
