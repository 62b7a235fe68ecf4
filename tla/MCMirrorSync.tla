------------------------------- MODULE MCMirrorSync -------------------------------
(***************************************************************************)
(* Instances of MirrorSync for TLC.                                            *)
(***************************************************************************)
EXTENDS MirrorSync, TLC

CONSTANTS b1, b2, h1, h2, n1, n2, l1, u1, u2, former, later, x, y

LinkEnds == [l \in {l1} |-> {b1, b2}]

\* The second upload of book b1 has another title and another content.
Manifests == (u1 :> [book |-> b1, title |-> former, hash |-> x])
               @@ (u2 :> [book |-> b1, title |-> later, hash |-> y])

Here == b1 :> [title |-> former, hash |-> x]
Both == Here @@ (b2 :> [title |-> later, hash |-> x])

Setup(acts, mirrored, edits, others, faults) ==
    [acts |-> acts, mirrored |-> mirrored, edits |-> edits, others |-> others, faults |-> faults]

Reporting == Setup({"highlight"}, Here, 3, 0, 2)
Citing == Setup({"highlight", "note"}, Here, 3, 0, 1)
Renaming == Setup({"highlight", "note", "book"}, Both, 3, 0, 0)
Uploading == Setup({"upload", "book"}, <<>>, 2, 0, 2)
Linking == Setup({"link", "book"}, Both, 2, 0, 1)
Others == Setup({"rest book", "rest highlight", "rest note"}, Both, 0, 4, 0)
Meeting == Setup({"highlight", "note", "rest book", "rest note"}, Here, 2, 2, 0)
Digesting == Setup({"upload", "digest", "rest book"}, Here, 2, 2, 0)
Various == {Reporting, Citing, Renaming, Uploading, Linking, Others, Meeting, Digesting}
=============================================================================
