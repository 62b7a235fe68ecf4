--------------------------- MODULE SharedWorkspace ---------------------------
(***************************************************************************)
(* What the replicated workspace promises, with no network, log, clock or  *)
(* cursor: every node has absorbed a set of the issued operations and      *)
(* shows the entities that set determines.  The set grows with every       *)
(* command of the node and with whatever it learns of, and shrinks only    *)
(* when the node is restored from a backup.                                *)
(***************************************************************************)
EXTENDS FieldVersions

VARIABLES
    entities,  \* entities[n][e]: what node n holds of entity e
    known,     \* known[n]: the operations node n has absorbed
    issued,    \* the operations issued so far
    saved      \* saved[n]: the operations a backup of n has absorbed

vars == <<entities, known, issued, saved>>

Init ==
    /\ entities = [n \in Replicas |-> [e \in Entities |-> NoEntity]]
    /\ known = [n \in Replicas |-> {}]
    /\ saved = [n \in Replicas |-> {}]
    /\ issued = {}

Absorb(n, ops) == known' = [known EXCEPT ![n] = @ \cup ops]

\* A node issues operations in its own name, under an id never used before.
Issue(n) ==
    LET new == issued' \ issued IN
    /\ issued \subseteq issued' /\ new # {}
    /\ \A op \in new : /\ op \in Operation /\ op.replicaId = n
                       /\ \A old \in issued : old.operationId # op.operationId
    /\ \A a, b \in new : a.operationId = b.operationId /\ (a.entity = b.entity => a = b)
    /\ Absorb(n, new)
    /\ UNCHANGED saved

\* A node learns of operations others have issued.
Learn(n) ==
    /\ known' = [known EXCEPT ![n] = known'[n]]
    /\ known[n] \subseteq known'[n] /\ known'[n] \subseteq issued
    /\ UNCHANGED <<issued, saved>>

Save(n) ==
    /\ saved' = [saved EXCEPT ![n] = known[n]]
    /\ UNCHANGED <<known, issued>>

Restore(n) ==
    /\ known' = [known EXCEPT ![n] = saved[n]]
    /\ UNCHANGED <<issued, saved>>

\* Whatever happens, a node shows what it has absorbed.
Shown ==
    \A n \in Replicas, e \in Entities : IsView(entities'[n][e], e, known'[n])

Next == Shown /\ \E n \in Replicas : Issue(n) \/ Learn(n) \/ Save(n) \/ Restore(n)

Spec == Init /\ [][Next]_vars
=============================================================================
