------------------------------ MODULE SyncServer ------------------------------
(***************************************************************************)
(* The TypeScript sync node (app/api/sync): its operation log, its entity  *)
(* table, its fixed snapshots, and the requests a browser makes of them.   *)
(* Every request is one MySQL transaction under the lock of the head row,  *)
(* so each is an operator that yields the answer or the node after it.     *)
(***************************************************************************)
EXTENDS FieldVersions, Sequences, FiniteSets

CONSTANTS
    Owned,      \* Owned[e]: the entities a deletion of e takes along
    PageSize,   \* the limit of a page, of operations or of entities
    MaxEpochs   \* bound on the epochs of the log: one, and one for each restore

ASSUME ServerAssumption ==
    /\ IsFiniteSet(Entities)
    /\ Owned \in [Entities -> SUBSET Entities]
    /\ PageSize \in Nat \ {0}
    /\ MaxEpochs \in Nat \ {0}

Epochs == 1 .. MaxEpochs
Table == [Entities -> EntityState]
Nothing == [e \in Entities |-> NoEntity]

Ops(log) == {log[i] : i \in DOMAIN log}
Upto(log, n) == {log[i] : i \in {j \in DOMAIN log : j <= n}}

\* known is a history component: the operations a snapshot stands for.
Snapshot == [epoch : Epochs, seq : Nat, entities : Table, known : SUBSET Operation]

\* tables[i] is the entity table after the first i operations of the log: a
\* backup that was taken then can be restored.  lost are the snapshots that were
\* taken and are not there any more.
Node == [epoch : Epochs, log : Seq(Operation), tables : Seq(Table), lost : SUBSET Snapshot]

EmptyNode == [epoch |-> 1, log |-> <<>>, tables |-> <<>>, lost |-> {}]

TableAt(n, seq) == IF seq = 0 THEN Nothing ELSE n.tables[seq]
Current(n) == TableAt(n, Len(n.log))

-----------------------------------------------------------------------------
\* accept: an operation already in the log is acknowledged as a duplicate.
Accept(n, op) ==
    IF op \in Ops(n.log) THEN n
    ELSE [n EXCEPT !.log    = Append(@, op),
                   !.tables = Append(@, [Current(n) EXCEPT ![op.entity] = Apply(@, op)])]

\* mutate: a deletion through the command interface deletes the live entities
\* owned by the deleted one, with operations derived from the first.
Cascade(n, op) ==
    IF ~op.deleted THEN {}
    ELSE {[op EXCEPT !.entity = x, !.patch = {}, !.unset = {}, !.progress = FALSE] :
             x \in {y \in Owned[op.entity] \ {op.entity} :
                       Current(n)[y].present /\ ~Current(n)[y].deleted}}

\* The order in which the children are read.
Orders(S) == {f \in [1 .. Cardinality(S) -> S] : \A i, j \in DOMAIN f : f[i] = f[j] => i = j}

AcceptAll(n, ops) ==
    LET after[i \in 0 .. Len(ops)] == IF i = 0 THEN n ELSE Accept(after[i - 1], ops[i])
    IN  after[Len(ops)]

-----------------------------------------------------------------------------
(* GET /sync/changes.                                                      *)

Cursor == [epoch : Epochs, seq : Nat]
NoCursor == [epoch |-> 0, seq |-> 0]

\* A cursor of another epoch, or past the head, is an error.
CursorRefused(n, cursor) ==
    cursor # NoCursor /\ (cursor.epoch # n.epoch \/ cursor.seq > Len(n.log))

Least(a, b) == IF a < b THEN a ELSE b

Page == [ops : Seq(Operation), cursor : Cursor, more : BOOLEAN]

\* Slip: the cursor of the answer is the head, though the page may be short.
PageToHead(n, cursor) ==
    LET last == Least(cursor.seq + PageSize, Len(n.log))
    IN  [ops    |-> SubSeq(n.log, cursor.seq + 1, last),
         cursor |-> [epoch |-> n.epoch, seq |-> Len(n.log)],
         more   |-> FALSE]

Changes(n, cursor) ==
    LET last == Least(cursor.seq + PageSize, Len(n.log))
    IN  [ops    |-> SubSeq(n.log, cursor.seq + 1, last),
         cursor |-> [epoch |-> n.epoch, seq |-> last],
         more   |-> last < Len(n.log)]

-----------------------------------------------------------------------------
(* Snapshots.                                                              *)

\* snapshot: the table is copied and the head read under one lock.
Taken(n) == [epoch |-> n.epoch, seq |-> Len(n.log), entities |-> Current(n),
             known |-> Ops(n.log)]
Snap(n) == [n EXCEPT !.lost = @ \ {Taken(n)}]

\* snapshotPage gives PageSize entities after the last one given; the page that
\* has none ends the download.  Pages is the number of pages in all.
Present(s) == {e \in Entities : s.entities[e].present}
Pages(s) == (Cardinality(Present(s)) + PageSize - 1) \div PageSize + 1

-----------------------------------------------------------------------------
(* The operator restores a backup: the log up to some point, without the   *)
(* snapshots taken later, under a new epoch.                               *)

Restored(n, seq, later) ==
    [epoch  |-> n.epoch + 1,
     log    |-> SubSeq(n.log, 1, seq),
     tables |-> SubSeq(n.tables, 1, seq),
     lost   |-> n.lost \cup later]
=============================================================================
