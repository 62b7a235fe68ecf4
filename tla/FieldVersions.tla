---------------------------- MODULE FieldVersions ----------------------------
(***************************************************************************)
(* The workspace-v2 data model of crates/domain/src/sync.rs: operations,   *)
(* field versions and the two functions that change an entity,             *)
(* apply_operation and merge_states.                                       *)
(*                                                                         *)
(* A field's value is not modelled: the version of a field names the       *)
(* operation that wrote it, so two fields with the same version have the   *)
(* same value.  What is kept is what decides which write wins.             *)
(***************************************************************************)
EXTENDS Integers

CONSTANTS
    Replicas,   \* replica ids, numbered in the order of their UTF-16 text
    Ids,        \* operation ids, numbered in the order of their UTF-16 text
    Entities,   \* (kind, id) pairs
    Books,      \* the entities of kind "books"
    Keys,       \* field names
    Progress,   \* the field "progress" of a book
    Position,   \* Position[r] is the field "@progress:<r>"
    ByDevice    \* the field "progressByDevice"

ASSUME OrderAssumption == Replicas \subseteq Nat /\ Ids \subseteq Nat
ASSUME KeysAssumption ==
    /\ Books \subseteq Entities
    /\ Progress \in Keys /\ ByDevice \in Keys
    /\ Position \in [Replicas -> Keys]
    /\ \A r \in Replicas : Position[r] \notin {Progress, ByDevice}

-----------------------------------------------------------------------------
(* Operations.  patch is the set of keys the patch gives a value; progress *)
(* says that the patch's progress is a value JavaScript calls true.        *)

Operation == [operationId : Ids, replicaId : Replicas, entity : Entities,
              clock : Nat, patch : SUBSET Keys, unset : SUBSET Keys,
              progress : BOOLEAN, deleted : BOOLEAN]

\* The version text "<wall>:<counter>:<replica>:<operation>" of a field.  The
\* clock is one number: a (wall, counter) pair ordered as the pair is.
Stamp == [clock : Nat, replica : Replicas, operation : Ids]

StampOf(op) == [clock |-> op.clock, replica |-> op.replicaId,
                operation |-> op.operationId]

\* A field that was never written is older than any version.
NoStamp == [clock |-> -1, replica |-> 0, operation |-> 0]

\* Slips: a tie of clocks, or of clocks and replicas, is left undecided.
BeforeByClock(a, b) == a.clock < b.clock
BeforeByReplica(a, b) ==
    a.clock < b.clock \/ (a.clock = b.clock /\ a.replica < b.replica)

\* newer_field(Some(a), b): the zero-padded text of a sorts before that of b.
Before(a, b) ==
    \/ a.clock < b.clock
    \/ a.clock = b.clock /\ a.replica < b.replica
    \/ a.clock = b.clock /\ a.replica = b.replica /\ a.operation < b.operation

-----------------------------------------------------------------------------
(* Entities.                                                               *)

Field == [version : Stamp \cup {NoStamp}, removed : BOOLEAN]
NoField == [version |-> NoStamp, removed |-> FALSE]

\* present: the store has a row for the entity, a tombstone included.
EntityState == [present : BOOLEAN, deleted : BOOLEAN, fields : [Keys -> Field]]
NoEntity == [present |-> FALSE, deleted |-> FALSE,
             fields |-> [k \in Keys |-> NoField]]

\* The keys materialize would show of an entity that is not deleted.
Live(st) == {k \in Keys : st.fields[k] # NoField /\ ~st.fields[k].removed}

-----------------------------------------------------------------------------
(* apply_operation and merge_states.                                       *)

\* A book's progress is also written to the field of the device that read.
Touched(op) ==
    op.patch \cup op.unset \cup
    (IF op.entity \in Books /\ Progress \in op.patch /\ op.progress
     THEN {Position[op.replicaId]} ELSE {})

\* A key both patched and unset is removed.
FieldOf(op, k) == [version |-> StampOf(op), removed |-> k \in op.unset]

\* Slips: the last write to arrive wins; a later write revives a tombstone.
ApplyArrival(st, op) ==
    [present |-> TRUE, deleted |-> st.deleted \/ op.deleted,
     fields  |-> [k \in Keys |-> IF k \in Touched(op) THEN FieldOf(op, k) ELSE st.fields[k]]]
ApplyRevives(st, op) ==
    [present |-> TRUE, deleted |-> op.deleted,
     fields  |-> [k \in Keys |->
                    IF k \in Touched(op) /\ Before(st.fields[k].version, StampOf(op))
                    THEN FieldOf(op, k) ELSE st.fields[k]]]

Apply(st, op) ==
    [present |-> TRUE,
     deleted |-> st.deleted \/ op.deleted,
     fields  |-> [k \in Keys |->
                    IF k \in Touched(op) /\ Before(st.fields[k].version, StampOf(op))
                    THEN FieldOf(op, k) ELSE st.fields[k]]]

\* Slip: the tombstone of the incoming state replaces the node's own.
MergeRevives(prior, incoming) ==
    [present |-> TRUE, deleted |-> incoming.deleted,
     fields  |-> [k \in Keys |->
                    IF Before(prior.fields[k].version, incoming.fields[k].version)
                    THEN incoming.fields[k] ELSE prior.fields[k]]]

Merge(prior, incoming) ==
    [present |-> prior.present \/ incoming.present,
     deleted |-> prior.deleted \/ incoming.deleted,
     fields  |-> [k \in Keys |->
                    IF Before(prior.fields[k].version, incoming.fields[k].version)
                    THEN incoming.fields[k] ELSE prior.fields[k]]]

-----------------------------------------------------------------------------
(* What a set of operations means, with no reference to the order they     *)
(* arrived in.                                                             *)

About(ops, e) == {op \in ops : op.entity = e}

Newest(field, k, ops) ==
    \/ field = NoField /\ \A op \in ops : k \notin Touched(op)
    \/ \E op \in ops :
          /\ k \in Touched(op)
          /\ field = FieldOf(op, k)
          /\ \A other \in ops : k \in Touched(other) => ~Before(StampOf(op), StampOf(other))

\* st is the state of entity e that the operations ops determine.
IsView(st, e, ops) ==
    /\ st.present = (About(ops, e) # {})
    /\ st.deleted = (\E op \in About(ops, e) : op.deleted)
    /\ \A k \in Keys : Newest(st.fields[k], k, About(ops, e))

\* An operation id names one operation on each entity: the children of a
\* cascade have ids derived from the parent's id and their own entity.
UniqueIds(ops) ==
    \A a, b \in ops : a.operationId = b.operationId /\ a.entity = b.entity => a = b
=============================================================================
