------------------------------- MODULE Workspace -------------------------------
(***************************************************************************)
(* The replicated workspace under the weakest network: a node may receive  *)
(* any operation that was ever issued, at any time and any number of       *)
(* times, and may merge the entities of any other node.  What holds here   *)
(* holds whatever the replication protocol does; the protocol itself is    *)
(* module Replication.                                                     *)
(***************************************************************************)
EXTENDS Commands

vars == <<store, issued>>

Init == StoreInit

Deliver(n, op) ==
    /\ ~Rejected(store[n], op)
    /\ store' = [store EXCEPT ![n] = Receive(@, op)]
    /\ UNCHANGED issued

MergeFrom(n, m) ==
    /\ \E c \in MergedClocks(store[n], store[m]) :
          /\ Highest(c, MergedClocks(store[n], store[m]))
          /\ store' = [store EXCEPT ![n] = MergeSnapshot(@, store[m], c)]
    /\ UNCHANGED issued

Next ==
    \E n \in Replicas :
        \/ Command(n)
        \/ \E op \in issued : Deliver(n, op)
        \/ \E m \in Replicas \ {n} : MergeFrom(n, m)

Spec == Init /\ [][Next]_vars

-----------------------------------------------------------------------------
TypeOK == /\ store \in [Replicas -> Store]
          /\ issued \in SUBSET Operation

\* What a person saves is what the node then shows, however far ahead the
\* clocks of the writes it has received are: an operation stamped with the next
\* clock (next_clock) is never shadowed by an older write.
LocalWriteWins ==
    [][\A op \in issued' \ issued :
          op.clock > store[op.replicaId].clock =>
              \A k \in op.patch \cup op.unset :
                  store'[op.replicaId].entities[op.entity].fields[k] = FieldOf(op, k)]_vars

\* No step takes a node back: a tombstone stays, a field's version never
\* decreases, a row does not vanish.
NeverBack ==
    [][\A n \in Replicas, e \in Entities :
          /\ store[n].entities[e].present => store'[n].entities[e].present
          /\ store[n].entities[e].deleted => store'[n].entities[e].deleted
          /\ \A k \in Keys : ~Before(store'[n].entities[e].fields[k].version,
                                     store[n].entities[e].fields[k].version)]_vars

=============================================================================
