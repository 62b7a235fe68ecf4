----------------------------- MODULE MCBrowserSync -----------------------------
(***************************************************************************)
(* Instances of BrowserSync for TLC.                                       *)
(***************************************************************************)
EXTENDS BrowserSync, TLC

CONSTANTS book, highlight, title, byDevice, at1

NoPosition == [r \in Replicas |-> at1]
BookOwns == [e \in Entities |-> IF e = book THEN {highlight} \cap Entities ELSE {}]

\* One tab, an edit and an operation of another device, and no failure.
Plain == [locks |-> TRUE, tabs |-> {1}, scope |-> {book}, edits |-> 1, others |-> 1,
          faults |-> 0, epochs |-> 1, clock |-> 2]

Faulty == [Plain EXCEPT !.faults = 1, !.clock = 1]
Editing == [Plain EXCEPT !.edits = 2]
TwoTabs == [Plain EXCEPT !.tabs = {1, 2}]
Restoring == [Plain EXCEPT !.epochs = 2, !.clock = 1]
Shelf == [Plain EXCEPT !.scope = Entities, !.clock = 1]
Deleting == [Plain EXCEPT !.scope = Entities, !.others = 0]
DeletedElsewhere == [Plain EXCEPT !.scope = Entities, !.edits = 0]
TabsEditing == [TwoTabs EXCEPT !.locks = FALSE, !.others = 0]
TabsReceiving == [TwoTabs EXCEPT !.locks = FALSE, !.edits = 0]

Various == {Faulty, Editing, TwoTabs, Restoring, Shelf, Deleting, DeletedElsewhere,
            TabsEditing, TabsReceiving}
WithoutLocks == {TabsReceiving}
=============================================================================
