----------------------------- MODULE BlobStore ------------------------------
(***************************************************************************)
(* What the file store promises its callers: a content-addressed store     *)
(* that only grows, in which a name is given once and then always stands   *)
(* for the same complete blob, until the store is closed.  FileStore       *)
(* implements it.                                                          *)
(***************************************************************************)
EXTENDS Naturals

CONSTANTS
    Name, Digest,
    Content       \* digest -> the blocks of the blob

VARIABLES
    files, \* name -> the blocks of its file
    blobs, \* the digests that can be fetched
    open

vars == <<files, blobs, open>>

\* A name gets its file.
Given(n, d) == [m \in DOMAIN files \cup {n} |-> IF m = n THEN Content[d] ELSE files[m]]

Store(d) ==
    /\ open
    /\ blobs' = blobs \cup {d}
    /\ UNCHANGED <<files, open>>

\* The name of a stored blob gets its file.
NameBlob(n, d) ==
    /\ open
    /\ d \in blobs /\ n \notin DOMAIN files
    /\ files' = Given(n, d)
    /\ UNCHANGED <<blobs, open>>

\* Adding a file that is already there does both at once.
AddFile(n, d) ==
    /\ open
    /\ n \notin DOMAIN files
    /\ files' = Given(n, d)
    /\ blobs' = blobs \cup {d}
    /\ UNCHANGED open

\* What was only kept for the store goes with it.
Close ==
    /\ open' = FALSE
    /\ \E ds \in SUBSET blobs : blobs' = blobs \ ds
    /\ UNCHANGED files

Init == files = << >> /\ blobs = {} /\ open = TRUE

Next ==
    \/ \E d \in Digest : Store(d) \/ \E n \in Name : NameBlob(n, d) \/ AddFile(n, d)
    \/ Close

Spec == Init /\ [][Next]_vars
=============================================================================
