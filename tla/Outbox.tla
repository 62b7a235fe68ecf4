-------------------------------- MODULE Outbox --------------------------------
(***************************************************************************)
(* What a browser with an outbox promises, with no tab, request, page,     *)
(* snapshot, cursor or epoch.  Browser and node have each absorbed a set   *)
(* of operations and hold the entities that set determines.  What is       *)
(* written in the browser waits until the node has it; what others write   *)
(* comes to the browser by way of the node; and only a restored backup     *)
(* takes operations back, from the node alone.                             *)
(***************************************************************************)
EXTENDS FieldVersions

CONSTANT Device    \* the replica id of the browser

VARIABLES
    entities,  \* entities[e]: what the browser holds of entity e
    known,     \* the operations the browser has absorbed
    waiting,   \* the operations it has still to send
    table,     \* table[e]: what the node holds of entity e
    held,      \* the operations the node has absorbed
    lost       \* the operations the node had before a backup was restored

vars == <<entities, known, waiting, table, held, lost>>

Init ==
    /\ entities = [e \in Entities |-> NoEntity] /\ known = {} /\ waiting = {}
    /\ table = [e \in Entities |-> NoEntity] /\ held = {} /\ lost = {}

\* Operations are written in the browser, unseen by the node, and wait.
Write ==
    LET new == known' \ known IN
    /\ known \subseteq known' /\ new \subseteq Operation \ (held \cup lost)
    /\ \A op \in new : op.replicaId = Device
    /\ waiting' = waiting \cup new
    /\ UNCHANGED <<held, lost>>

\* The node accepts what was written in the browser, again after a restore.
Deliver ==
    /\ held \subseteq held' /\ held' \subseteq held \cup known
    /\ UNCHANGED <<known, waiting, lost>>

\* What the node has accepted need not wait any more.
Confirm ==
    /\ waiting' \subseteq waiting /\ waiting \ waiting' \subseteq held \cup lost
    /\ UNCHANGED <<known, held, lost>>

\* The browser learns what the node has, or had when it was asked.
Learn ==
    /\ known \subseteq known' /\ known' \subseteq known \cup held \cup lost
    /\ UNCHANGED <<waiting, held, lost>>

\* Others write to the node.
Elsewhere ==
    /\ held \subseteq held' /\ held' \subseteq Operation
    /\ \A op \in held' \ held : op.replicaId # Device
    /\ UNCHANGED <<known, waiting, lost>>

Restore ==
    /\ held' \subseteq held /\ lost' = lost \cup (held \ held')
    /\ UNCHANGED <<known, waiting>>

\* Whatever happens, each holds what it has absorbed.
Shown ==
    \A e \in Entities : IsView(entities'[e], e, known') /\ IsView(table'[e], e, held')

Next == Shown /\ (Write \/ Deliver \/ Confirm \/ Learn \/ Elsewhere \/ Restore)

Spec == Init /\ [][Next]_vars
=============================================================================
