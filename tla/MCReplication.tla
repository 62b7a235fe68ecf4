----------------------------- MODULE MCReplication -----------------------------
(***************************************************************************)
(* Instances of Replication for TLC.                                       *)
(***************************************************************************)
EXTENDS Replication, TLC

CONSTANTS book, review, title, position

\* No entity is a book: the field of reading positions is never written.
NoPosition == [r \in Replicas |-> position]
Nothing == [e \in Entities |-> {}]

\* Node 2 synchronises with node 1, which has no worker of its own.
ClientServer == [n \in Replicas |-> IF n = 2 THEN {1} ELSE {}]
\* Both are configured with each other.
Mutual == [n \in Replicas |-> Replicas \ {n}]

NoRestore == [n \in Replicas |-> 0]
EitherRestore == [n \in Replicas |-> 1]
=============================================================================
