---------------------------- MODULE Workspace_proofs ----------------------------
(***************************************************************************)
(* The properties of Workspace for any replicas, operation ids, entities   *)
(* and fields, from the invariant of module Commands_proofs.               *)
(***************************************************************************)
EXTENDS Workspace, Commands_proofs

\* Empty databases satisfy the invariant.
LEMMA InitInv == Init => Inv
BY StoreInitInv DEF Init

\* Commands, deliveries and merges keep the invariant.
LEMMA NextInv == Inv /\ [Next]_vars => Inv'
<1> SUFFICES ASSUME Inv, [Next]_vars PROVE Inv' OBVIOUS
<1>1. CASE UNCHANGED vars BY <1>1 DEF vars, Inv
<1>2. ASSUME NEW n \in Replicas, Command(n) PROVE Inv'
  BY <1>2, CommandIssues, CommitInv
<1>3. ASSUME NEW n \in Replicas, NEW op \in issued, Deliver(n, op) PROVE Inv'
  <2> DEFINE t == Receive(store[n], op)
  <2>1. StoreOK(store[n]) /\ store[n].known \subseteq issued /\ op \in Operation BY DEF Inv
  <2>2. StoreOK(t) /\ t.known \subseteq issued BY <2>1, ReceiveOK
  <2>3. store' = [store EXCEPT ![n] = t] /\ issued' = issued BY <1>3 DEF Deliver
  <2> HIDE DEF t
  <2>4. t \in Store BY <2>2 DEF StoreOK
  <2> QED BY <2>2, <2>3, <2>4 DEF Inv
<1>4. ASSUME NEW n \in Replicas, NEW m \in Replicas, MergeFrom(n, m) PROVE Inv'
  <2>1. PICK c : /\ Highest(c, MergedClocks(store[n], store[m]))
                 /\ store' = [store EXCEPT ![n] = MergeSnapshot(store[n], store[m], c)]
    BY <1>4 DEF MergeFrom
  <2> DEFINE t == MergeSnapshot(store[n], store[m], c)
  <2>2. /\ StoreOK(store[n]) /\ store[n].known \subseteq issued
        /\ StoreOK(store[m]) /\ store[m].known \subseteq issued
    BY DEF Inv
  <2>3. StoreOK(t) /\ t.known \subseteq issued BY <2>1, <2>2, MergeOK
  <2>4. store' = [store EXCEPT ![n] = t] /\ issued' = issued BY <1>4, <2>1 DEF MergeFrom
  <2> HIDE DEF t
  <2>5. t \in Store BY <2>3 DEF StoreOK
  <2> QED BY <2>3, <2>4, <2>5 DEF Inv
<1> QED BY <1>1, <1>2, <1>3, <1>4 DEF Next

\* The invariant holds in every reachable state, whatever the network does.
THEOREM Invariance == Spec => []Inv
BY InitInv, NextInv, PTL DEF Spec

-----------------------------------------------------------------------------
(* The properties of Workspace.                                            *)

\* Every variable keeps its type.
THEOREM TypeCorrect == Spec => []TypeOK
<1>1. Inv => TypeOK BY DEF Inv, TypeOK
<1> QED BY <1>1, Invariance, PTL

\* The entity table is at all times the view of the absorbed operations.
THEOREM ViewsHold == Spec => []Views
BY InvViews, Invariance, PTL

\* Nodes that absorbed the same operations hold the same entities.
THEOREM Converges == Spec => []Convergence
BY InvConvergence, Invariance, PTL

\* The clock of a node covers every field it holds.
THEOREM ClockHolds == Spec => []ClockCovers
BY InvClock, Invariance, PTL

\* The log holds only absorbed, issued operations, and each of them once.
THEOREM LogHolds == Spec => []LogOnce
BY InvLog, Invariance, PTL

\* A local write stamped with the next clock is never shadowed.
THEOREM LocalWrites == Spec => LocalWriteWins
<1> DEFINE Wins == \A op \in issued' \ issued :
               op.clock > store[op.replicaId].clock =>
                   \A k \in op.patch \cup op.unset :
                       store'[op.replicaId].entities[op.entity].fields[k] = FieldOf(op, k)
<1>1. ASSUME Inv, [Next]_vars PROVE [Wins]_vars
  <2>1. ASSUME NEW n \in Replicas, Command(n) PROVE Wins
    <3>1. PICK id \in FreshIds, batch \in Seq(Operation), c \in Nat :
                 CommandBatch(batch, n, id, c) /\ Commit(n, batch, c)
      BY <1>1, <2>1, CommandIssues
    <3> QED BY <1>1, <3>1, CommitWins
  <2>2. ASSUME issued' = issued PROVE Wins BY <2>2
  <2> HIDE DEF Wins
  <2>3. \A n \in Replicas, op \in issued : Deliver(n, op) => issued' = issued
    BY DEF Deliver
  <2>4. \A n, m \in Replicas : MergeFrom(n, m) => issued' = issued BY DEF MergeFrom
  <2>5. UNCHANGED vars => issued' = issued BY DEF vars
  <2>6. Next => Wins BY <2>1, <2>2, <2>3, <2>4 DEF Next
  <2> QED BY <1>1, <2>6
<1> QED BY <1>1, Invariance, PTL DEF Spec, LocalWriteWins

\* A step of a store never takes a row, a tombstone or a version back.
LEMMA StepGrows ==
    ASSUME Inv, [Next]_vars, NEW n \in Replicas
    PROVE  Grows(store[n], store'[n])
<1>1. store \in [Replicas -> Store] /\ store[n] \in Store BY DEF Inv
<1>2. CASE UNCHANGED vars BY <1>1, <1>2, GrowsSelf DEF vars
<1>3. ASSUME NEW m \in Replicas, NEW t, store' = [store EXCEPT ![m] = t], Grows(store[m], t)
      PROVE  Grows(store[n], store'[n])
  BY <1>1, <1>3, GrowsSelf
<1>4. ASSUME NEW m \in Replicas, Command(m) PROVE Grows(store[n], store'[n])
  <2>1. PICK id \in FreshIds, batch \in Seq(Operation), c \in Nat : Commit(m, batch, c)
    BY <1>4, CommandIssues
  <2>2. store' = [store EXCEPT ![m] = CommitBatch(store[m], batch, c)] BY <2>1 DEF Commit
  <2>3. Grows(store[m], CommitBatch(store[m], batch, c)) BY <1>1, CommitGrows
  <2> QED BY <1>3, <2>2, <2>3
<1>5. ASSUME NEW m \in Replicas, NEW op \in issued, Deliver(m, op)
      PROVE  Grows(store[n], store'[n])
  <2>1. Grows(store[m], Receive(store[m], op)) BY <1>1, ReceiveGrows DEF Inv
  <2> QED BY <1>3, <1>5, <2>1 DEF Deliver
<1>6. ASSUME NEW m \in Replicas, NEW from \in Replicas, MergeFrom(m, from)
      PROVE  Grows(store[n], store'[n])
  <2>1. PICK c : store' = [store EXCEPT ![m] = MergeSnapshot(store[m], store[from], c)]
    BY <1>6 DEF MergeFrom
  <2>2. Grows(store[m], MergeSnapshot(store[m], store[from], c)) BY <1>1, MergeGrows
  <2> QED BY <1>3, <2>1, <2>2
<1> QED BY <1>2, <1>4, <1>5, <1>6 DEF Next

\* No step takes a node back: tombstones and newest versions stay.
THEOREM NeverGoesBack == Spec => NeverBack
<1> DEFINE Forward == \A n \in Replicas, e \in Entities :
               /\ store[n].entities[e].present => store'[n].entities[e].present
               /\ store[n].entities[e].deleted => store'[n].entities[e].deleted
               /\ \A k \in Keys : ~Before(store'[n].entities[e].fields[k].version,
                                          store[n].entities[e].fields[k].version)
<1>1. ASSUME Inv, [Next]_vars PROVE Forward
  BY <1>1, StepGrows DEF Grows, NotBack
<1> HIDE DEF Forward
<1>2. Inv /\ [Next]_vars => [Forward]_vars BY <1>1
<1>3. Spec => [][Forward]_vars BY <1>2, Invariance, PTL DEF Spec
<1> QED BY <1>3 DEF Forward, NeverBack
=============================================================================
