------------------------------- MODULE Commands -------------------------------
(***************************************************************************)
(* The nodes' databases and the commands people and API clients give them, *)
(* from crates/application/src/library.rs and replication.rs.  A command   *)
(* changes one node's store and issues operations; how operations travel   *)
(* is left to the modules that extend this one.                            *)
(***************************************************************************)
EXTENDS LocalStore

CONSTANT Mutations  \* the [patch, unset, deleted] requests a client sends

VARIABLES
    store,  \* store[n]: the database of node n
    issued  \* history: every operation any node has issued

ASSUME MutationsAssumption ==
    Mutations \subseteq [patch : SUBSET Keys, unset : SUBSET Keys, deleted : BOOLEAN]

StoreInit == /\ store = [n \in Replicas |-> EmptyStore]
             /\ issued = {}

FreshIds == Ids \ {op.operationId : op \in issued}

Commit(n, batch, c) ==
    /\ store' = [store EXCEPT ![n] = CommitBatch(@, batch, c)]
    /\ issued' = issued \cup {batch[i] : i \in DOMAIN batch}

-----------------------------------------------------------------------------
(* Local commands.                                                         *)

\* Slip: the first clock of a command is kept as the node's.
CommitAtFirst(n, batch, c) ==
    /\ c + Len(batch) - 1 <= MaxClock
    /\ Commit(n, batch, c)

\* A command of the library commits its changes at consecutive clocks.
CommitFrom(n, batch, c) ==
    /\ c + Len(batch) - 1 <= MaxClock
    /\ Commit(n, batch, c + Len(batch) - 1)

\* save_entity and what goes through it; a highlight's notes are saved with it.
Save(n) ==
    \E id \in FreshIds, e \in Entities \ Reviews, c \in NextClocks(store[n]),
       full \in SUBSET DataKeys :
    \E changed \in SUBSET full, progress \in BOOLEAN,
       notes \in SUBSET Rewritable(store[n], e) :
    \E order \in Orders({e} \cup notes) :
        /\ ~store[n].entities[e].deleted
        /\ progress => e \in Books /\ Progress \in full
        /\ CommitFrom(n, SaveBatch(store[n], n, id, c, e, full, changed, progress, order), c)

\* delete_entity and, for a note, delete_legacy_note
Delete(n) ==
    \E id \in FreshIds, e \in Entities \ Reviews, c \in NextClocks(store[n]),
       changed \in SUBSET DataKeys, legacy \in BOOLEAN :
    \E notes \in SUBSET Citing(store[n], e) :
    \E order \in Orders({e} \cup Dependents(store[n], e) \cup Referrers(store[n], e)
                             \cup notes) :
        /\ Deletable(store[n], e)
        /\ legacy => e \in Notes
        /\ notes = {} <=> changed = {}
        /\ CommitFrom(n, DeleteBatch(store[n], n, id, c, e, legacy, changed, order), c)

\* review, which changes the card with the event, and import_review_event, which
\* does not.  The id of a review is that of its operation: no two are alike.
Review(n) ==
    \E id \in FreshIds, e \in Reviews, c \in NextClocks(store[n]),
       changed \in SUBSET DataKeys :
    \E card \in SUBSET Rewritable(store[n], e) :
    \E order \in Orders({e} \cup card) :
        /\ About(issued, e) = {}
        /\ card = {} <=> changed = {}
        /\ CommitFrom(n, SaveBatch(store[n], n, id, c, e, DataKeys, changed, FALSE, order), c)

SameKind(a, b) == \A kind \in {Books, Notes, StudySets, Sources} : (a \in kind) = (b \in kind)

\* restore_replica_entity: a copy of what is left of source, under another id
RestoreEntity(n) ==
    \E id \in FreshIds, source \in Entities \ Reviews, e \in Entities \ Reviews,
       c \in NextClocks(store[n]), progress \in BOOLEAN :
        /\ source # e /\ SameKind(source, e)
        /\ store[n].entities[source].present
        /\ progress => e \in Books /\ Progress \in Live(store[n].entities[source])
        /\ Commit(n, <<[operationId |-> id, replicaId |-> n, entity |-> e, clock |-> c,
                        patch |-> Live(store[n].entities[source]), unset |-> {},
                        progress |-> progress, deleted |-> FALSE]>>, c)

\* mutate_replica_entity: the client names the clock, which may be an old one.
\* A deletion cascades; a review can only be created, under the operation's id.
Mutate(n) ==
    \E id \in FreshIds, e \in Entities, c \in 0 .. MaxClock, m \in Mutations,
       progress \in BOOLEAN :
    \E order \in Orders({e} \cup (IF m.deleted
                                  THEN Cascaded(store[n], e) \cup Holders(store[n], e)
                                  ELSE {})) :
        /\ progress => e \in Books /\ Progress \in m.patch
        /\ e \in Reviews => About(issued, e) = {} /\ ~m.deleted /\ m.unset = {}
        /\ Commit(n, MutateBatch(store[n], n, id, c, e, m.patch, m.unset, progress,
                                 m.deleted, order), c)

Command(n) == Save(n) \/ Delete(n) \/ Review(n) \/ RestoreEntity(n) \/ Mutate(n)

-----------------------------------------------------------------------------
(* What every store keeps true, whichever way operations reach it.         *)

\* The entity table is a function of the operations it has absorbed: whatever
\* the order, the repetitions and the mix of single operations and snapshots,
\* every field holds its newest write and every tombstone is kept
\* (apply_operation, merge_states).
Views == \A n \in Replicas, e \in Entities :
             IsView(store[n].entities[e], e, store[n].known)

\* Two nodes that have absorbed the same operations hold the same entities.
Convergence ==
    \A m, n \in Replicas :
        store[m].known = store[n].known => store[m].entities = store[n].entities

\* A node's clock is not behind any field it holds, by whichever way the field
\* came: its own commit, receive_batch or finish_snapshot.
ClockCovers ==
    \A n \in Replicas, e \in Entities, k \in Keys :
        store[n].entities[e].fields[k].version.clock <= store[n].clock

\* The log holds an operation once, absorbed, and never one nobody issued.
LogOnce ==
    \A n \in Replicas :
        /\ \A i, j \in DOMAIN store[n].log : store[n].log[i] = store[n].log[j] => i = j
        /\ {store[n].log[i] : i \in DOMAIN store[n].log} \subseteq store[n].known
        /\ store[n].known \subseteq issued

\* materialize shows progressByDevice from the positions the devices reported,
\* and from a plain field of that name when no position is left.  A book that
\* shows one shows every device that reported a position (workspace-sync.md:
\* progressByDevice is kept beside the reading position).
PositionShown ==
    \A n \in Replicas, b \in Books, d \in Replicas :
        LET st == store[n].entities[b] IN
        /\ ~st.deleted /\ ByDevice \in Live(st)
        /\ \E op \in About(store[n].known, b) :
              op.replicaId = d /\ Progress \in op.patch /\ op.progress
        => \/ Position[d] \in Live(st)
           \/ \A r \in Replicas : Position[r] \notin Live(st)
=============================================================================
