------------------------------ MODULE LocalStore ------------------------------
(***************************************************************************)
(* One node's database and the commands that change it: the entity table,  *)
(* the outbox that is also the change log, and the node's clock            *)
(* (crates/sqlite/src), as the commands of crates/application/src use them.*)
(*                                                                         *)
(* Every command commits one transaction, so each is an operator that      *)
(* yields the store after the commit.  known is a history variable: the    *)
(* operations whose effects the entity table contains.  It exceeds the log *)
(* when a snapshot brought effects without their operations.               *)
(***************************************************************************)
EXTENDS FieldVersions, Sequences, FiniteSets

CONSTANTS
    Reviews,    \* the entities of kind "reviews"
    Notes,      \* the entities of kind "notes"
    StudySets,  \* the entities of kind "studySets"
    Sources,    \* the entities of kind "sources"
    Owned,      \* Owned[e]: the entities deleted together with e
    Referring,  \* Referring[e]: the entities that may refer to e in a field
    Companions, \* Companions[e]: the entities a command on e may rewrite with
                \* it: the notes that cite a highlight, the card of a review
    Reference,  \* the field they refer with: folderId, noteId, @member:<id>
    MaxClock    \* bound on the clocks a run issues

ASSUME EntitiesAssumption ==
    /\ IsFiniteSet(Entities)
    /\ Reviews \subseteq Entities /\ Notes \subseteq Entities
    /\ StudySets \subseteq Entities /\ Sources \subseteq Entities
    /\ Owned \in [Entities -> SUBSET Entities]
    /\ Referring \in [Entities -> SUBSET Entities]
    /\ Companions \in [Entities -> SUBSET Entities]
    /\ Reference \in Keys
    /\ MaxClock \in Nat

Store == [entities : [Entities -> EntityState], known : SUBSET Operation,
          log : Seq(Operation), clock : Nat]

EmptyStore == [entities |-> [e \in Entities |-> NoEntity], known |-> {},
               log |-> <<>>, clock |-> 0]

Logged(s, op) == \E i \in DOMAIN s.log : s.log[i] = op

-----------------------------------------------------------------------------
(* Receiving.                                                              *)

\* receive_operations stops at an operation on a review that already exists.
Rejected(s, op) ==
    ~Logged(s, op) /\ op.entity \in Reviews /\ s.entities[op.entity].present

\* Slips: no look at the log; the clock of the operation is not adopted.
ReceiveAgain(s, op) ==
    [entities |-> [s.entities EXCEPT ![op.entity] = Apply(@, op)],
     known    |-> s.known \cup {op},
     log      |-> Append(s.log, op),
     clock    |-> IF s.clock < op.clock THEN op.clock ELSE s.clock]
ReceiveKeepsClock(s, op) ==
    IF Logged(s, op) THEN s
    ELSE [entities |-> [s.entities EXCEPT ![op.entity] = Apply(@, op)],
          known    |-> s.known \cup {op},
          log      |-> Append(s.log, op),
          clock    |-> s.clock]

\* One operation of receive_operations and receive_batch: a duplicate is known
\* by its id in the log, and changes nothing.
Receive(s, op) ==
    IF Logged(s, op) THEN s
    ELSE [entities |-> [s.entities EXCEPT ![op.entity] = Apply(@, op)],
          known    |-> s.known \cup {op},
          log      |-> Append(s.log, op),
          clock    |-> IF s.clock < op.clock THEN op.clock ELSE s.clock]

\* The clocks finish_snapshot compares: the node's own and those of the fields
\* of every entity that came with the snapshot.
FieldClocks(st) == {st.fields[k].version.clock : k \in Keys}

\* Slip: the search for the highest clock does not start at the node's own.
ArrivedClocks(s, snapshot) ==
    UNION {FieldClocks(Merge(s.entities[e], snapshot.entities[e])) :
              e \in {x \in Entities : snapshot.entities[x].present}}

MergedClocks(s, snapshot) ==
    {s.clock} \cup
    UNION {FieldClocks(Merge(s.entities[e], snapshot.entities[e])) :
              e \in {x \in Entities : snapshot.entities[x].present}}

\* finish_snapshot: entities are merged, the log is left alone, and the clock
\* becomes the highest one seen.
Highest(c, clocks) == c \in clocks /\ \A d \in clocks : d <= c

\* Slip: the clock stays where it was.
MergeKeepsClock(s, snapshot, c) ==
    [entities |-> [e \in Entities |-> Merge(s.entities[e], snapshot.entities[e])],
     known    |-> s.known \cup snapshot.known,
     log      |-> s.log,
     clock    |-> s.clock]

MergeSnapshot(s, snapshot, c) ==
    [entities |-> [e \in Entities |-> Merge(s.entities[e], snapshot.entities[e])],
     known    |-> s.known \cup snapshot.known,
     log      |-> s.log,
     clock    |-> c]

-----------------------------------------------------------------------------
(* Local commands.  Each is given as the operations it commits.            *)

\* next_clock: any later clock, since the wall clock may have moved on.
NextClocks(s) == (s.clock + 1) .. MaxClock

\* Device positions never come out of flatten_fields.
DataKeys == Keys \ {Position[r] : r \in Replicas}

\* commit_values: the operation that makes full the keys of the entity.  Keys
\* whose value did not change are left out of the patch; every other field of
\* the row, removed or not, is unset.
ValuesOp(s, r, id, e, c, full, changed, progress, deleted) ==
    [operationId |-> id, replicaId |-> r, entity |-> e, clock |-> c,
     patch |-> {k \in full : k \in changed \/ k \notin Live(s.entities[e])},
     unset |-> {k \in Keys : s.entities[e].fields[k] # NoField} \ full,
     progress |-> progress, deleted |-> deleted]

Deletable(s, e) == s.entities[e].present /\ ~s.entities[e].deleted

\* What a deletion takes along: owned entities are deleted, entities that refer
\* to it lose the reference.  Only entities that are not deleted take part.
Dependents(s, e) == {x \in Owned[e] \ ({e} \cup Sources) : Deletable(s, x)}
Referrers(s, e) == {x \in Referring[e] \ (Owned[e] \cup {e}) :
                        Deletable(s, x) /\ Reference \in Live(s.entities[x])}

\* The older API deletes the highlights of a note instead.
Detached(s, e, legacy) == IF legacy THEN {} ELSE Referrers(s, e)

\* A deletion by a client takes the sources along, and detaches a study set that
\* once had the member as well.
Cascaded(s, e) == {x \in Owned[e] \ {e} : Deletable(s, x)}
Holders(s, e) == {x \in Referring[e] \ (Owned[e] \cup {e}) :
                      /\ Deletable(s, x)
                      /\ \/ Reference \in Live(s.entities[x])
                         \/ x \in StudySets /\ s.entities[x].fields[Reference] # NoField}

Rewritable(s, e) == {x \in Companions[e] \ {e} : Deletable(s, x)}
Citing(s, e) == UNION {Rewritable(s, x) : x \in {e} \cup Dependents(s, e)}
                    \ ({e} \cup Dependents(s, e) \cup Referrers(s, e))

\* The values of a live entity of which some are replaced.
Rewritten(s, x, changed) == (Live(s.entities[x]) \cap DataKeys) \cup changed

\* The batch order follows kind and id; the model leaves it open.
Orders(S) == {f \in [1 .. Cardinality(S) -> S] : \A i, j \in DOMAIN f : f[i] = f[j] => i = j}

\* commit_values stamps each change of a command with the clock after the one
\* before it.
SaveBatch(s, r, id, c, e, full, changed, progress, order) ==
    [i \in 1 .. Len(order) |->
        LET x == order[i] IN
        ValuesOp(s, r, id, x, c + i - 1,
                 IF x = e THEN full ELSE Rewritten(s, x, changed),
                 changed, x = e /\ progress, FALSE)]

\* delete_entity_inner; changed are the fields rewritten in the notes that cite
\* what is deleted.
DeleteBatch(s, r, id, c, e, legacy, changed, order) ==
    [i \in 1 .. Len(order) |->
        LET x == order[i]
            kept == IF x \in Detached(s, e, legacy) THEN Rewritten(s, x, {}) \ {Reference}
                    ELSE IF x \in Citing(s, e) THEN Rewritten(s, x, changed)
                    ELSE {}
        IN  ValuesOp(s, r, id, x, c + i - 1, kept, kept \cap changed, FALSE,
                     x \notin Detached(s, e, legacy) \cup Citing(s, e))]

\* mutate_replica_entity: the client's operation, and with a deletion the
\* children it cascades to, which share its clock.
MutateBatch(s, r, id, c, e, patch, unset, progress, deleted, order) ==
    [i \in 1 .. Len(order) |->
        LET x == order[i] IN
        [operationId |-> id, replicaId |-> r, entity |-> x, clock |-> c,
         patch |-> IF x = e THEN patch ELSE {},
         unset |-> IF x = e THEN unset
                   ELSE IF x \in Holders(s, e) THEN {Reference} ELSE {},
         progress |-> x = e /\ progress,
         deleted |-> IF x = e THEN deleted ELSE x \notin Holders(s, e)]]

Applied(s, batch) ==
    [e \in Entities |->
        IF \E i \in DOMAIN batch : batch[i].entity = e
        THEN Apply(s.entities[e], batch[CHOOSE i \in DOMAIN batch : batch[i].entity = e])
        ELSE s.entities[e]]

\* Slip: the clock of the batch becomes the node's, an old one as well.
CommitSetsClock(s, batch, c) ==
    [entities |-> Applied(s, batch),
     known    |-> s.known \cup {batch[i] : i \in DOMAIN batch},
     log      |-> s.log \o batch,
     clock    |-> c]

\* commit_local_batch: the operations of a batch are about distinct entities.
CommitBatch(s, batch, c) ==
    [entities |-> Applied(s, batch),
     known    |-> s.known \cup {batch[i] : i \in DOMAIN batch},
     log      |-> s.log \o batch,
     clock    |-> IF s.clock < c THEN c ELSE s.clock]
=============================================================================
