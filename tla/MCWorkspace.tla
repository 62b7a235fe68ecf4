------------------------------ MODULE MCWorkspace ------------------------------
(***************************************************************************)
(* Instances of Workspace for TLC.                                         *)
(***************************************************************************)
EXTENDS Workspace, TLC

CONSTANTS book, highlight, note, source, studySet, review, title, progress, byDevice, at1, at2

\* The position fields of two devices; one for all where no entity is a book
\* and the field is never written.
AtDevice == (1 :> at1) @@ (2 :> at2)
NoPosition == [r \in Replicas |-> at1]

To(x, targets) == [e \in Entities |-> IF e = x THEN targets ELSE {}]

\* A book owns its highlight and its source, and is a member of a study set.  The highlight
\* refers to a note; its citation in the note is rewritten with it.  A review
\* rewrites its card, which is a highlight.
BookOwns == To(book, {highlight})
BookOwnsSource == To(book, {highlight, source})
BookInSet == To(book, {studySet})
NoteOfHighlight == To(note, {highlight})
CitedInNote == To(highlight, {note})
ReviewOfCard == To(review, {highlight})
Nothing == [e \in Entities |-> {}]

ClientRequests ==
    {[patch |-> {progress}, unset |-> {}, deleted |-> FALSE],
     [patch |-> {}, unset |-> {}, deleted |-> TRUE]}

\* A library both nodes already share: node 1 saved some of it, node 2 the rest
\* at the same time, and both have received it all.
Saved == CHOOSE s \in Orders(Entities) : TRUE
Started ==
    LET saves == [i \in DOMAIN Saved |->
                    ValuesOp(EmptyStore, 2 - (i % 2), i, Saved[i], (i + 1) \div 2,
                             DataKeys, DataKeys, FALSE, FALSE)]
    IN  /\ store = [n \in Replicas |-> CommitBatch(EmptyStore, saves, 2)]
        /\ issued = {saves[i] : i \in DOMAIN saves}
StartedSpec == Started /\ [][Next]_vars

=============================================================================
