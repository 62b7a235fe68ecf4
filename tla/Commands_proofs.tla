---------------------------- MODULE Commands_proofs ----------------------------
(***************************************************************************)
(* What one database keeps true of itself, whichever transaction it        *)
(* commits, and what the commands keep true of the stores, for any         *)
(* replicas, operation ids, entities and fields: every store is in order   *)
(* (StoreOK), absorbs only operations that were issued, and no two         *)
(* operations share an id and an entity.  The modules that add a network   *)
(* build on these lemmas.                                                  *)
(***************************************************************************)
EXTENDS Commands, FieldVersions_proofs, FiniteSetTheorems

-----------------------------------------------------------------------------
(* The transactions of one database.                                        *)

\* The entities are the view of the absorbed operations, the clock is not behind
\* any field, and the log holds absorbed operations, each once.
StoreOK(s) ==
    /\ s \in Store
    /\ \A e \in Entities : IsView(s.entities[e], e, s.known)
    /\ \A e \in Entities, k \in Keys : s.entities[e].fields[k].version.clock <= s.clock
    /\ \A i \in DOMAIN s.log : s.log[i] \in s.known
    /\ \A i, j \in DOMAIN s.log : s.log[i] = s.log[j] => i = j

\* A new database is in order.
LEMMA EmptyStoreOK == StoreOK(EmptyStore)
<1>1. EmptyStore \in Store BY EmptyEntity DEF EmptyStore, Store
<1>2. \A e \in Entities : IsView(EmptyStore.entities[e], e, EmptyStore.known)
  BY EmptyView DEF EmptyStore
<1>3. \A e \in Entities, k \in Keys : EmptyStore.entities[e].fields[k].version.clock <= EmptyStore.clock
  BY DEF EmptyStore, NoEntity, NoField, NoStamp
<1>4. DOMAIN EmptyStore.log = {} BY DEF EmptyStore
<1> QED BY <1>1, <1>2, <1>3, <1>4 DEF StoreOK

\* Whatever a field holds after an operation is what it held before or what the
\* operation wrote.
LEMMA ApplyClock ==
    ASSUME NEW st \in EntityState, NEW op \in Operation, NEW k \in Keys, NEW c \in Nat,
           st.fields[k].version.clock <= c, op.clock <= c
    PROVE  Apply(st, op).fields[k].version.clock <= c
BY DEF Apply, FieldOf, StampOf

\* receive_operations keeps a store in order.
LEMMA ReceiveOK ==
    ASSUME NEW s, StoreOK(s), NEW op \in Operation
    PROVE  StoreOK(Receive(s, op)) /\ Receive(s, op).known \subseteq s.known \cup {op}
<1>1. CASE Logged(s, op) BY <1>1 DEF Receive
<1>2. CASE ~Logged(s, op)
  <2> DEFINE t == Receive(s, op)
             u == [entities |-> [s.entities EXCEPT ![op.entity] = Apply(@, op)],
                   known    |-> s.known \cup {op},
                   log      |-> Append(s.log, op),
                   clock    |-> IF s.clock < op.clock THEN op.clock ELSE s.clock]
  <2>0. t = u BY <1>2 DEF Receive
  <2>1. s \in Store /\ op.entity \in Entities /\ op.clock \in Nat
    BY DEF StoreOK, Operation
  <2>2. /\ s.entities \in [Entities -> EntityState] /\ s.known \in SUBSET Operation
        /\ s.log \in Seq(Operation) /\ s.clock \in Nat
    BY <2>1 DEF Store
  <2>3. u.entities = [s.entities EXCEPT ![op.entity] = Apply(@, op)]
        /\ u.known = s.known \cup {op} /\ u.log = Append(s.log, op)
        /\ u.clock = (IF s.clock < op.clock THEN op.clock ELSE s.clock)
    OBVIOUS
  <2>4. /\ u.clock \in Nat /\ s.clock <= u.clock /\ op.clock <= u.clock
    BY <2>1, <2>2, <2>3
  <2>5. u \in Store
    <3>1. Apply(s.entities[op.entity], op) \in EntityState BY <2>1, <2>2, ApplyType
    <3>2. u.entities \in [Entities -> EntityState] BY <2>2, <2>3, <3>1
    <3>3. u.log \in Seq(Operation) BY <2>2, <2>3
    <3> QED BY <2>2, <2>4, <3>2, <3>3 DEF Store
  <2>6. ASSUME NEW e \in Entities PROVE IsView(u.entities[e], e, u.known)
    <3>1. CASE e = op.entity
      <4>1. IsView(s.entities[e], e, s.known) BY DEF StoreOK
      <4>2. u.entities[e] = Apply(s.entities[e], op) BY <2>2, <3>1
      <4> QED BY <2>2, <3>1, <4>1, <4>2, ApplyView
    <3>2. CASE e # op.entity
      <4>1. IsView(s.entities[e], e, s.known) BY DEF StoreOK
      <4>2. u.entities[e] = s.entities[e] BY <2>2, <3>2
      <4>3. \A o \in {op} : o.entity # e BY <3>2
      <4> HIDE DEF u
      <4>4. IsView(s.entities[e], e, s.known \cup {op}) BY <4>1, <4>3, ViewElsewhere
      <4> QED BY <2>3, <4>2, <4>4
    <3> QED BY <3>1, <3>2
  <2>7. ASSUME NEW e \in Entities, NEW k \in Keys
        PROVE  u.entities[e].fields[k].version.clock <= u.clock
    <3>1. /\ s.entities[e].fields[k].version.clock <= s.clock
          /\ s.entities[e] \in EntityState
      BY <2>2 DEF StoreOK
    <3>2. s.entities[e].fields[k].version.clock \in Int
      BY <3>1, StampComponents DEF EntityState, Field, AnyStamp
    <3>3. s.entities[e].fields[k].version.clock <= u.clock
      BY <2>2, <2>4, <3>1, <3>2
    <3> HIDE DEF u
    <3>4. CASE e = op.entity
      <4>1. u.entities[e] = Apply(s.entities[e], op) BY <2>2, <2>3, <3>4
      <4> QED BY <2>4, <3>1, <3>3, <4>1, ApplyClock
    <3>5. CASE e # op.entity
      <4>1. u.entities[e] = s.entities[e] BY <2>2, <2>3, <3>5
      <4> QED BY <3>3, <4>1
    <3> QED BY <3>4, <3>5
  <2>8. /\ \A i \in DOMAIN u.log : u.log[i] \in u.known
        /\ \A i, j \in DOMAIN u.log : u.log[i] = u.log[j] => i = j
    <3>1. /\ DOMAIN u.log = 1 .. Len(s.log) + 1 /\ DOMAIN s.log = 1 .. Len(s.log)
          /\ u.log[Len(s.log) + 1] = op /\ Len(s.log) \in Nat
          /\ \A i \in DOMAIN s.log : u.log[i] = s.log[i]
      BY <2>2
    <3>2. \A i \in DOMAIN s.log : s.log[i] \in s.known /\ s.log[i] # op
      BY <1>2 DEF StoreOK, Logged
    <3>3. \A i, j \in DOMAIN s.log : s.log[i] = s.log[j] => i = j BY DEF StoreOK
    <3>4. \A i \in DOMAIN u.log : i \in DOMAIN s.log \/ i = Len(s.log) + 1 BY <3>1
    <3> HIDE DEF u
    <3> QED BY <2>3, <3>1, <3>2, <3>3, <3>4
  <2>9. StoreOK(u) BY <2>5, <2>6, <2>7, <2>8 DEF StoreOK
  <2> QED BY <2>0, <2>3, <2>9
<1> QED BY <1>1, <1>2

\* Which clocks finish_snapshot compares.
LEMMA MergedClocksMembers ==
    ASSUME NEW s, NEW snapshot
    PROVE  /\ s.clock \in MergedClocks(s, snapshot)
           /\ \A e \in Entities, k \in Keys :
                 snapshot.entities[e].present =>
                     Merge(s.entities[e], snapshot.entities[e]).fields[k].version.clock
                         \in MergedClocks(s, snapshot)
           /\ \A c \in MergedClocks(s, snapshot) :
                 c = s.clock \/ \E e \in Entities, k \in Keys :
                     c = Merge(s.entities[e], snapshot.entities[e]).fields[k].version.clock
<1> DEFINE here == {x \in Entities : snapshot.entities[x].present}
           merged(e) == Merge(s.entities[e], snapshot.entities[e])
           seen == UNION {FieldClocks(merged(e)) : e \in here}
<1>1. MergedClocks(s, snapshot) = {s.clock} \cup seen BY DEF MergedClocks
<1> HIDE DEF merged
<1>2. ASSUME NEW e \in here, NEW k \in Keys
      PROVE  merged(e).fields[k].version.clock \in seen
  BY DEF FieldClocks
<1>3. ASSUME NEW c \in seen
      PROVE  \E e \in here, k \in Keys : c = merged(e).fields[k].version.clock
  BY DEF FieldClocks
<1> HIDE DEF seen
<1>4. QED BY <1>1, <1>2, <1>3 DEF merged

\* finish_snapshot keeps a store in order.
LEMMA MergeOK ==
    ASSUME NEW s, NEW snapshot, StoreOK(s), StoreOK(snapshot), NEW c,
           Highest(c, MergedClocks(s, snapshot))
    PROVE  /\ StoreOK(MergeSnapshot(s, snapshot, c))
           /\ MergeSnapshot(s, snapshot, c).known = s.known \cup snapshot.known
<1> DEFINE t == MergeSnapshot(s, snapshot, c)
<1>1. /\ s.entities \in [Entities -> EntityState] /\ s.known \in SUBSET Operation
      /\ s.log \in Seq(Operation) /\ s.clock \in Nat
      /\ snapshot.entities \in [Entities -> EntityState] /\ snapshot.known \in SUBSET Operation
  BY DEF StoreOK, Store
<1>2. /\ t.entities = [e \in Entities |-> Merge(s.entities[e], snapshot.entities[e])]
      /\ t.known = s.known \cup snapshot.known /\ t.log = s.log /\ t.clock = c
      /\ t = [entities |-> t.entities, known |-> t.known, log |-> t.log, clock |-> t.clock]
  BY DEF MergeSnapshot
<1> HIDE DEF t
<1>3. ASSUME NEW e \in Entities
      PROVE  t.entities[e] = Merge(s.entities[e], snapshot.entities[e])
             /\ t.entities[e] \in EntityState
  BY <1>1, <1>2, MergeType
<1>4. ASSUME NEW e \in Entities, NEW k \in Keys
      PROVE  t.entities[e].fields[k].version.clock \in Int
  BY <1>3, StampComponents DEF EntityState, Field, AnyStamp
<1>5. c \in Nat /\ s.clock <= c
  <2>1. c \in MergedClocks(s, snapshot) /\ s.clock \in MergedClocks(s, snapshot)
    BY MergedClocksMembers DEF Highest
  <2>2. c = s.clock \/ \E e \in Entities, k \in Keys :
            c = Merge(s.entities[e], snapshot.entities[e]).fields[k].version.clock
    BY <2>1, MergedClocksMembers
  <2>3. c \in Int BY <1>1, <1>3, <1>4, <2>2
  <2>4. s.clock <= c BY <2>1 DEF Highest
  <2> QED BY <1>1, <2>3, <2>4
<1>6. t \in Store BY <1>1, <1>2, <1>3, <1>5 DEF Store
<1>7. ASSUME NEW e \in Entities PROVE IsView(t.entities[e], e, t.known)
  <2>1. IsView(s.entities[e], e, s.known) /\ IsView(snapshot.entities[e], e, snapshot.known)
    BY DEF StoreOK
  <2> QED BY <1>1, <1>2, <1>3, <2>1, MergeView
<1>8. ASSUME NEW e \in Entities, NEW k \in Keys
      PROVE  t.entities[e].fields[k].version.clock <= t.clock
  <2>1. CASE snapshot.entities[e].present
    <3>1. t.entities[e].fields[k].version.clock \in MergedClocks(s, snapshot)
      BY <1>3, <2>1, MergedClocksMembers
    <3> QED BY <1>2, <3>1 DEF Highest
  <2>2. CASE ~snapshot.entities[e].present
    <3>1. IsView(snapshot.entities[e], e, snapshot.known) BY DEF StoreOK
    <3>2. About(snapshot.known, e) = {} BY <2>2, <3>1 DEF IsView
    <3>3. snapshot.entities[e].fields[k] = NoField BY <3>1, <3>2 DEF IsView, Newest
    <3>4. s.entities[e].fields[k].version \in AnyStamp
      BY <1>1 DEF EntityState, Field, AnyStamp
    <3>5. ~Before(s.entities[e].fields[k].version, NoStamp)
      <4>1. CASE s.entities[e].fields[k].version = NoStamp
        BY <4>1, BeforeOrder DEF AnyStamp
      <4>2. CASE s.entities[e].fields[k].version \in Stamp
        BY <4>2 DEF Stamp, NoStamp, Before
      <4> QED BY <3>4, <4>1, <4>2 DEF AnyStamp
    <3>6. t.entities[e].fields[k] = s.entities[e].fields[k]
      <4>1. snapshot.entities[e].fields[k].version = NoStamp BY <3>3 DEF NoField
      <4>2. Merge(s.entities[e], snapshot.entities[e]).fields[k] = s.entities[e].fields[k]
        BY <3>5, <4>1 DEF Merge
      <4> QED BY <1>3, <4>2
    <3>7. s.entities[e].fields[k].version.clock <= s.clock BY DEF StoreOK
    <3> QED BY <1>1, <1>2, <1>4, <1>5, <3>6, <3>7
  <2> QED BY <2>1, <2>2
<1>9. /\ \A i \in DOMAIN t.log : t.log[i] \in t.known
      /\ \A i, j \in DOMAIN t.log : t.log[i] = t.log[j] => i = j
  BY <1>2 DEF StoreOK
<1>10. StoreOK(t) BY <1>6, <1>7, <1>8, <1>9 DEF StoreOK
<1> QED BY <1>2, <1>10 DEF t

\* A batch of commit_local_batch: new operations on distinct entities, none
\* stamped after c.
BatchOK(batch, s, c) ==
    /\ batch \in Seq(Operation) /\ c \in Nat
    /\ \A i \in DOMAIN batch : batch[i] \notin s.known /\ batch[i].clock <= c
    /\ \A i, j \in DOMAIN batch : batch[i].entity = batch[j].entity => i = j

\* commit_local_batch keeps a store in order.
LEMMA CommitOK ==
    ASSUME NEW s, StoreOK(s), NEW batch, NEW c, BatchOK(batch, s, c)
    PROVE  /\ StoreOK(CommitBatch(s, batch, c))
           /\ CommitBatch(s, batch, c).known = s.known \cup {batch[i] : i \in DOMAIN batch}
           /\ \A i \in DOMAIN batch :
                 CommitBatch(s, batch, c).entities[batch[i].entity]
                   = Apply(s.entities[batch[i].entity], batch[i])
<1> DEFINE t == CommitBatch(s, batch, c)
           Chosen(e) == batch[CHOOSE i \in DOMAIN batch : batch[i].entity = e]
           new == {batch[i] : i \in DOMAIN batch}
<1>1. /\ s.entities \in [Entities -> EntityState] /\ s.known \in SUBSET Operation
      /\ s.log \in Seq(Operation) /\ s.clock \in Nat
  BY DEF StoreOK, Store
<1>2. /\ batch \in Seq(Operation) /\ c \in Nat /\ DOMAIN batch = 1 .. Len(batch)
      /\ Len(batch) \in Nat /\ \A i \in DOMAIN batch : batch[i] \in Operation
      /\ new \in SUBSET Operation
  BY DEF BatchOK
<1>3. /\ t.entities = [e \in Entities |-> IF \E i \in DOMAIN batch : batch[i].entity = e
                                          THEN Apply(s.entities[e], Chosen(e))
                                          ELSE s.entities[e]]
      /\ t.known = s.known \cup new /\ t.log = s.log \o batch
      /\ t.clock = (IF s.clock < c THEN c ELSE s.clock)
      /\ t = [entities |-> t.entities, known |-> t.known, log |-> t.log, clock |-> t.clock]
  BY DEF CommitBatch, Applied
<1> HIDE DEF t
<1>4. t.clock \in Nat /\ s.clock <= t.clock /\ c <= t.clock BY <1>1, <1>2, <1>3
<1>5. ASSUME NEW i \in DOMAIN batch
      PROVE  /\ batch[i].entity \in Entities /\ batch[i].clock \in Nat
             /\ Chosen(batch[i].entity) = batch[i]
             /\ t.entities[batch[i].entity] = Apply(s.entities[batch[i].entity], batch[i])
  <2>1. batch[i].entity \in Entities /\ batch[i].clock \in Nat BY <1>2 DEF Operation
  <2>2. (CHOOSE j \in DOMAIN batch : batch[j].entity = batch[i].entity) = i
    BY DEF BatchOK
  <2>3. Chosen(batch[i].entity) = batch[i] BY <2>2
  <2> HIDE DEF Chosen
  <2>4. t.entities[batch[i].entity] = Apply(s.entities[batch[i].entity], batch[i])
    BY <1>3, <2>1, <2>3
  <2> QED BY <2>1, <2>3, <2>4
<1>6. ASSUME NEW e \in Entities, \A i \in DOMAIN batch : batch[i].entity # e
      PROVE  t.entities[e] = s.entities[e]
  BY <1>3, <1>6
<1>7. ASSUME NEW e \in Entities PROVE t.entities[e] \in EntityState
  <2>1. CASE \E i \in DOMAIN batch : batch[i].entity = e
    <3>1. PICK i \in DOMAIN batch : batch[i].entity = e BY <2>1
    <3> QED BY <1>1, <1>2, <1>5, <3>1, ApplyType
  <2>2. CASE \A i \in DOMAIN batch : batch[i].entity # e
    BY <1>1, <1>6, <2>2
  <2> QED BY <2>1, <2>2
<1>8. t \in Store
  <2>1. t.log \in Seq(Operation) BY <1>1, <1>2, <1>3
  <2>2. t.entities \in [Entities -> EntityState] BY <1>3, <1>7
  <2> QED BY <1>1, <1>2, <1>3, <1>4, <2>1, <2>2 DEF Store
<1>9. ASSUME NEW e \in Entities PROVE IsView(t.entities[e], e, t.known)
  <2>1. IsView(s.entities[e], e, s.known) BY DEF StoreOK
  <2>2. CASE \E i \in DOMAIN batch : batch[i].entity = e
    <3>1. PICK i \in DOMAIN batch : batch[i].entity = e BY <2>2
    <3>2. IsView(Apply(s.entities[e], batch[i]), e, s.known \cup {batch[i]})
      BY <1>1, <1>2, <2>1, <3>1, ApplyView
    <3>3. \A op \in new \ {batch[i]} : op.entity # e BY <3>1 DEF BatchOK
    <3>4. (s.known \cup {batch[i]}) \cup (new \ {batch[i]}) = t.known BY <1>3
    <3>5. t.entities[e] = Apply(s.entities[e], batch[i]) BY <1>5, <3>1
    <3> HIDE DEF new, Chosen
    <3>6. IsView(Apply(s.entities[e], batch[i]), e,
                 (s.known \cup {batch[i]}) \cup (new \ {batch[i]}))
      BY <3>2, <3>3, ViewElsewhere
    <3> QED BY <3>4, <3>5, <3>6
  <2>3. CASE \A i \in DOMAIN batch : batch[i].entity # e
    <3>1. \A op \in new : op.entity # e BY <2>3
    <3>2. t.entities[e] = s.entities[e] BY <1>6, <2>3
    <3> HIDE DEF new, Chosen
    <3>3. IsView(s.entities[e], e, s.known \cup new) BY <2>1, <3>1, ViewElsewhere
    <3> QED BY <1>3, <3>2, <3>3
  <2> QED BY <2>2, <2>3
<1>10. ASSUME NEW e \in Entities, NEW k \in Keys
       PROVE  t.entities[e].fields[k].version.clock <= t.clock
  <2>1. s.entities[e] \in EntityState /\ s.entities[e].fields[k].version.clock <= s.clock
    BY <1>1 DEF StoreOK
  <2>2. s.entities[e].fields[k].version.clock \in Int
    BY <2>1, StampComponents DEF EntityState, Field, AnyStamp
  <2>3. s.entities[e].fields[k].version.clock <= t.clock BY <1>1, <1>4, <2>1, <2>2
  <2>4. CASE \E i \in DOMAIN batch : batch[i].entity = e
    <3>1. PICK i \in DOMAIN batch : batch[i].entity = e BY <2>4
    <3>2. batch[i].clock <= t.clock
      <4>1. batch[i].clock \in Nat /\ batch[i].clock <= c BY <1>5 DEF BatchOK
      <4> QED BY <1>2, <1>4, <4>1
    <3>3. t.entities[e] = Apply(s.entities[e], batch[i]) BY <1>5, <3>1
    <3>4. batch[i] \in Operation BY <1>2
    <3> QED BY <1>4, <2>1, <2>3, <3>2, <3>3, <3>4, ApplyClock
  <2>5. CASE \A i \in DOMAIN batch : batch[i].entity # e
    BY <1>6, <2>3, <2>5
  <2> QED BY <2>4, <2>5
<1>11. /\ \A i \in DOMAIN t.log : t.log[i] \in t.known
       /\ \A i, j \in DOMAIN t.log : t.log[i] = t.log[j] => i = j
  <2>1. /\ DOMAIN t.log = 1 .. Len(s.log) + Len(batch) /\ DOMAIN s.log = 1 .. Len(s.log)
        /\ Len(s.log) \in Nat
        /\ \A i \in DOMAIN t.log :
              t.log[i] = IF i <= Len(s.log) THEN s.log[i] ELSE batch[i - Len(s.log)]
    BY <1>1, <1>2, <1>3
  <2>2. \A i \in DOMAIN s.log : s.log[i] \in s.known BY DEF StoreOK
  <2>3. \A i, j \in DOMAIN s.log : s.log[i] = s.log[j] => i = j BY DEF StoreOK
  <2>4. \A i \in DOMAIN batch : batch[i] \notin s.known BY DEF BatchOK
  <2>5. \A i, j \in DOMAIN batch : batch[i] = batch[j] => i = j BY DEF BatchOK
  <2>6. ASSUME NEW i \in DOMAIN t.log PROVE t.log[i] \in t.known
    <3>1. CASE i <= Len(s.log) BY <1>3, <2>1, <2>2, <3>1
    <3>2. CASE ~(i <= Len(s.log))
      <4>1. i - Len(s.log) \in DOMAIN batch BY <1>2, <2>1, <3>2
      <4> QED BY <1>3, <2>1, <3>2, <4>1
    <3> QED BY <3>1, <3>2
  <2>7. ASSUME NEW i \in DOMAIN t.log, NEW j \in DOMAIN t.log, t.log[i] = t.log[j]
        PROVE  i = j
    <3>1. CASE i <= Len(s.log) /\ j <= Len(s.log) BY <2>1, <2>3, <2>7, <3>1
    <3>2. CASE i <= Len(s.log) /\ ~(j <= Len(s.log))
      <4>1. j - Len(s.log) \in DOMAIN batch BY <1>2, <2>1, <3>2
      <4>2. i \in DOMAIN s.log BY <2>1, <3>2
      <4> QED BY <2>1, <2>2, <2>4, <2>7, <3>2, <4>1, <4>2
    <3>3. CASE ~(i <= Len(s.log)) /\ j <= Len(s.log)
      <4>1. i - Len(s.log) \in DOMAIN batch BY <1>2, <2>1, <3>3
      <4>2. j \in DOMAIN s.log BY <2>1, <3>3
      <4> QED BY <2>1, <2>2, <2>4, <2>7, <3>3, <4>1, <4>2
    <3>4. CASE ~(i <= Len(s.log)) /\ ~(j <= Len(s.log))
      <4>1. i - Len(s.log) \in DOMAIN batch /\ j - Len(s.log) \in DOMAIN batch
        BY <1>2, <2>1, <3>4
      <4>2. i - Len(s.log) = j - Len(s.log) BY <2>1, <2>5, <2>7, <3>4, <4>1
      <4> QED BY <2>1, <4>2
    <3> QED BY <3>1, <3>2, <3>3, <3>4
  <2> QED BY <2>6, <2>7
<1>12. StoreOK(t) BY <1>8, <1>9, <1>10, <1>11 DEF StoreOK
<1> QED BY <1>3, <1>5, <1>12 DEF t

-----------------------------------------------------------------------------
(* What a transaction of a store never takes back.                         *)

\* Rows, tombstones and the versions of fields stay or move on.
NotBack(a, b) ==
    /\ a.present => b.present
    /\ a.deleted => b.deleted
    /\ \A k \in Keys : ~Before(b.fields[k].version, a.fields[k].version)

\* The log is continued at its end.
Continues(log, longer) ==
    /\ Len(log) <= Len(longer)
    /\ \A i \in 1 .. Len(log) : longer[i] = log[i]

Grows(s, t) ==
    /\ s.known \subseteq t.known
    /\ Continues(s.log, t.log)
    /\ \A e \in Entities : NotBack(s.entities[e], t.entities[e])

\* The versions of an entity's fields are comparable.
LEMMA VersionType ==
    ASSUME NEW st \in EntityState, NEW k \in Keys
    PROVE  st.fields[k].version \in AnyStamp
BY DEF EntityState, Field, AnyStamp

\* An entity left alone does not go back.
LEMMA NotBackSelf ==
    ASSUME NEW st \in EntityState
    PROVE  NotBack(st, st)
BY VersionType, BeforeOrder DEF NotBack

\* apply_operation never takes an entity back.
LEMMA ApplyForward ==
    ASSUME NEW st \in EntityState, NEW op \in Operation
    PROVE  NotBack(st, Apply(st, op))
<1>1. ASSUME NEW k \in Keys
      PROVE  ~Before(Apply(st, op).fields[k].version, st.fields[k].version)
  <2>1. st.fields[k].version \in AnyStamp /\ StampOf(op) \in AnyStamp
    BY VersionType, OperationStamp
  <2>2. \/ Apply(st, op).fields[k] = st.fields[k]
        \/ /\ Before(st.fields[k].version, StampOf(op))
           /\ Apply(st, op).fields[k].version = StampOf(op)
    BY FieldType DEF Apply
  <2> QED BY <2>1, <2>2, BeforeOrder
<1> QED BY <1>1 DEF NotBack, Apply

\* merge_states never takes either side back.
LEMMA MergeForward ==
    ASSUME NEW a \in EntityState, NEW b \in EntityState
    PROVE  NotBack(a, Merge(a, b))
<1>1. ASSUME NEW k \in Keys
      PROVE  ~Before(Merge(a, b).fields[k].version, a.fields[k].version)
  <2>1. a.fields[k].version \in AnyStamp /\ b.fields[k].version \in AnyStamp
    BY VersionType
  <2>2. \/ Merge(a, b).fields[k] = a.fields[k]
        \/ /\ Before(a.fields[k].version, b.fields[k].version)
           /\ Merge(a, b).fields[k] = b.fields[k]
    BY DEF Merge
  <2> QED BY <2>1, <2>2, BeforeOrder
<1> QED BY <1>1 DEF NotBack, Merge

\* A store left alone grows, by nothing.
LEMMA GrowsSelf ==
    ASSUME NEW s \in Store
    PROVE  Grows(s, s)
<1>1. s.log \in Seq(Operation) /\ \A e \in Entities : s.entities[e] \in EntityState
  BY DEF Store
<1> QED BY <1>1, NotBackSelf DEF Grows, Continues

\* Growing twice is growing.
LEMMA GrowsThrough ==
    ASSUME NEW s \in Store, NEW t \in Store, NEW u \in Store, Grows(s, t), Grows(t, u)
    PROVE  Grows(s, u)
<1>1. Continues(s.log, u.log)
  <2>1. /\ Len(s.log) \in Nat /\ Len(t.log) \in Nat /\ Len(u.log) \in Nat BY DEF Store
  <2> QED BY <2>1 DEF Grows, Continues
<1>2. ASSUME NEW e \in Entities PROVE NotBack(s.entities[e], u.entities[e])
  <2>1. /\ s.entities[e] \in EntityState /\ t.entities[e] \in EntityState
        /\ u.entities[e] \in EntityState
    BY DEF Store
  <2>2. NotBack(s.entities[e], t.entities[e]) /\ NotBack(t.entities[e], u.entities[e])
    BY DEF Grows
  <2>3. ASSUME NEW k \in Keys
        PROVE  ~Before(u.entities[e].fields[k].version, s.entities[e].fields[k].version)
    <3>1. /\ s.entities[e].fields[k].version \in AnyStamp
          /\ t.entities[e].fields[k].version \in AnyStamp
          /\ u.entities[e].fields[k].version \in AnyStamp
      BY <2>1, VersionType
    <3> QED BY <2>2, <3>1, BeforeBound DEF NotBack
  <2> QED BY <2>2, <2>3 DEF NotBack
<1> QED BY <1>1, <1>2 DEF Grows

\* One operation of receive_operations makes a store grow.
LEMMA ReceiveGrows ==
    ASSUME NEW s \in Store, NEW op \in Operation
    PROVE  Grows(s, Receive(s, op))
<1>1. CASE Logged(s, op) BY <1>1, GrowsSelf DEF Receive
<1>2. CASE ~Logged(s, op)
  <2> DEFINE t == Receive(s, op)
  <2>1. /\ t.entities = [s.entities EXCEPT ![op.entity] = Apply(s.entities[op.entity], op)]
        /\ t.known = s.known \cup {op} /\ t.log = Append(s.log, op)
    BY <1>2 DEF Receive
  <2>2. /\ s.log \in Seq(Operation) /\ s.entities \in [Entities -> EntityState]
        /\ op.entity \in Entities
    BY DEF Store, Operation
  <2> HIDE DEF t
  <2>3. Continues(s.log, t.log) BY <2>1, <2>2 DEF Continues
  <2>4. ASSUME NEW e \in Entities PROVE NotBack(s.entities[e], t.entities[e])
    <3>1. s.entities[e] \in EntityState BY <2>2
    <3>2. t.entities[e] = s.entities[e] \/ t.entities[e] = Apply(s.entities[e], op)
      BY <2>1, <2>2
    <3> QED BY <3>1, <3>2, NotBackSelf, ApplyForward
  <2>5. Grows(s, t) BY <2>1, <2>3, <2>4 DEF Grows
  <2> QED BY <2>5 DEF t
<1> QED BY <1>1, <1>2

\* finish_snapshot makes a store grow.
LEMMA MergeGrows ==
    ASSUME NEW s \in Store, NEW snapshot \in Store, NEW c
    PROVE  Grows(s, MergeSnapshot(s, snapshot, c))
<1> DEFINE t == MergeSnapshot(s, snapshot, c)
<1>1. /\ t.known = s.known \cup snapshot.known /\ t.log = s.log
      /\ \A e \in Entities : t.entities[e] = Merge(s.entities[e], snapshot.entities[e])
  BY DEF MergeSnapshot
<1>2. /\ s.log \in Seq(Operation)
      /\ \A e \in Entities : s.entities[e] \in EntityState /\ snapshot.entities[e] \in EntityState
  BY DEF Store
<1> HIDE DEF t
<1>3. Continues(s.log, t.log) BY <1>1, <1>2 DEF Continues
<1>4. \A e \in Entities : NotBack(s.entities[e], t.entities[e]) BY <1>1, <1>2, MergeForward
<1>5. Grows(s, t) BY <1>1, <1>3, <1>4 DEF Grows
<1> QED BY <1>5 DEF t

\* commit_local_batch makes a store grow.
LEMMA CommitGrows ==
    ASSUME NEW s \in Store, NEW batch \in Seq(Operation), NEW c
    PROVE  Grows(s, CommitBatch(s, batch, c))
<1> DEFINE t == CommitBatch(s, batch, c)
           chosen(e) == CHOOSE i \in DOMAIN batch : batch[i].entity = e
<1>1. /\ t.known = s.known \cup {batch[i] : i \in DOMAIN batch} /\ t.log = s.log \o batch
      /\ \A e \in Entities : t.entities[e] = IF \E i \in DOMAIN batch : batch[i].entity = e
                                             THEN Apply(s.entities[e], batch[chosen(e)])
                                             ELSE s.entities[e]
  BY DEF CommitBatch, Applied
<1>2. s.log \in Seq(Operation) /\ \A e \in Entities : s.entities[e] \in EntityState
  BY DEF Store
<1> HIDE DEF t
<1>3. Continues(s.log, t.log) BY <1>1, <1>2 DEF Continues
<1>4. ASSUME NEW e \in Entities PROVE NotBack(s.entities[e], t.entities[e])
  <2>1. CASE \E i \in DOMAIN batch : batch[i].entity = e
    <3>1. chosen(e) \in DOMAIN batch BY <2>1
    <3> HIDE DEF chosen
    <3>2. batch[chosen(e)] \in Operation BY <3>1
    <3> QED BY <1>1, <1>2, <2>1, <3>2, ApplyForward
  <2>2. CASE ~\E i \in DOMAIN batch : batch[i].entity = e
    BY <1>1, <1>2, <2>2, NotBackSelf
  <2> QED BY <2>1, <2>2
<1>5. Grows(s, t) BY <1>1, <1>3, <1>4 DEF Grows
<1> QED BY <1>5 DEF t

-----------------------------------------------------------------------------
(* The commands.                                                            *)

Inv ==
    /\ store \in [Replicas -> Store] /\ issued \in SUBSET Operation
    /\ \A n \in Replicas : StoreOK(store[n]) /\ store[n].known \subseteq issued
    /\ UniqueIds(issued)

\* What a command issues: operations of one new id on distinct entities, in the
\* name of node r and none stamped after c.
CommandBatch(batch, r, id, c) ==
    /\ batch \in Seq(Operation) /\ c \in Nat
    /\ \A i \in DOMAIN batch :
          batch[i].operationId = id /\ batch[i].replicaId = r /\ batch[i].clock <= c
    /\ \A i, j \in DOMAIN batch : batch[i].entity = batch[j].entity => i = j

\* Empty databases satisfy the invariant (SqliteRepository::open).
LEMMA StoreInitInv == StoreInit => Inv
<1> SUFFICES ASSUME StoreInit PROVE Inv OBVIOUS
<1>1. EmptyStore.known = {} BY DEF EmptyStore
<1>2. EmptyStore \in Store BY EmptyStoreOK DEF StoreOK
<1> QED BY <1>1, <1>2, EmptyStoreOK DEF StoreInit, Inv, UniqueIds

\* A transaction of commit_local_batch keeps the invariant.
LEMMA CommitInv ==
    ASSUME Inv, NEW n \in Replicas, NEW id \in FreshIds, NEW batch, NEW c,
           CommandBatch(batch, n, id, c), Commit(n, batch, c)
    PROVE  Inv'
<1> DEFINE t == CommitBatch(store[n], batch, c)
           new == {batch[i] : i \in DOMAIN batch}
<1>1. StoreOK(store[n]) /\ store[n].known \subseteq issued /\ issued \in SUBSET Operation
  BY DEF Inv
<1>2. /\ batch \in Seq(Operation) /\ new \in SUBSET Operation
      /\ \A op \in new : op.operationId = id
      /\ \A a, b \in new : a.entity = b.entity => a = b
  BY DEF CommandBatch
<1>3. \A op \in issued : op.operationId # id BY DEF FreshIds
<1>4. BatchOK(batch, store[n], c)
  <2>1. \A i \in DOMAIN batch : batch[i] \notin store[n].known
    BY <1>1, <1>3 DEF CommandBatch
  <2> QED BY <2>1 DEF BatchOK, CommandBatch
<1>5. StoreOK(t) /\ t.known = store[n].known \cup new
  BY <1>1, <1>4, CommitOK
<1> HIDE DEF t, new
<1>6. /\ store' = [store EXCEPT ![n] = t] /\ issued' = issued \cup new
  BY DEF Commit, t, new
<1>7. store' \in [Replicas -> Store] BY <1>5, <1>6 DEF Inv, StoreOK
<1>8. issued' \in SUBSET Operation BY <1>1, <1>2, <1>6
<1>9. ASSUME NEW m \in Replicas
      PROVE  StoreOK(store'[m]) /\ store'[m].known \subseteq issued'
  <2>1. CASE m = n BY <1>1, <1>5, <1>6, <2>1 DEF Inv
  <2>2. CASE m # n BY <1>6, <2>2 DEF Inv
  <2> QED BY <2>1, <2>2
<1>10. UniqueIds(issued') BY <1>2, <1>3, <1>6 DEF Inv, UniqueIds
<1> QED BY <1>7, <1>8, <1>9, <1>10 DEF Inv

\* A write stamped later than everything its node holds is what the node shows.
LEMMA CommitWins ==
    ASSUME Inv, NEW n \in Replicas, NEW id \in FreshIds, NEW batch, NEW c,
           CommandBatch(batch, n, id, c), Commit(n, batch, c),
           NEW op \in issued' \ issued, op.clock > store[op.replicaId].clock,
           NEW k \in op.patch \cup op.unset
    PROVE  store'[op.replicaId].entities[op.entity].fields[k] = FieldOf(op, k)
<1> DEFINE t == CommitBatch(store[n], batch, c)
<1>1. PICK i \in DOMAIN batch : op = batch[i] BY DEF Commit
<1>2. op \in Operation /\ op.replicaId = n /\ op.entity \in Entities /\ k \in Keys
  <2>1. op \in Operation /\ op.replicaId = n BY <1>1 DEF CommandBatch
  <2>2. op.entity \in Entities /\ op.patch \subseteq Keys /\ op.unset \subseteq Keys
    BY <2>1 DEF Operation
  <2> QED BY <2>1, <2>2
<1>3. StoreOK(store[n]) /\ store[n].known \subseteq issued BY DEF Inv
<1>4. BatchOK(batch, store[n], c)
  <2>1. \A j \in DOMAIN batch : batch[j] \notin store[n].known
    BY <1>3 DEF CommandBatch, FreshIds
  <2> QED BY <2>1 DEF BatchOK, CommandBatch
<1>5. t.entities[op.entity] = Apply(store[n].entities[op.entity], op)
  BY <1>1, <1>3, <1>4, CommitOK
<1>6. k \in Touched(op) BY DEF Touched
<1>7. Before(store[n].entities[op.entity].fields[k].version, StampOf(op))
  <2>1. /\ store[n].entities[op.entity].fields[k].version.clock <= store[n].clock
        /\ store[n].entities[op.entity] \in EntityState /\ store[n].clock \in Nat
    BY <1>2, <1>3 DEF StoreOK, Store
  <2>2. store[n].entities[op.entity].fields[k].version \in AnyStamp
    BY <1>2, <2>1 DEF EntityState, Field, AnyStamp
  <2>3. store[n].entities[op.entity].fields[k].version.clock \in Int
    BY <2>2, StampComponents
  <2>4. op.clock > store[n].clock /\ op.clock \in Nat BY <1>2 DEF Operation
  <2>5. StampOf(op).clock = op.clock BY DEF StampOf
  <2>6. store[n].entities[op.entity].fields[k].version.clock < StampOf(op).clock
    <3> DEFINE held == store[n].entities[op.entity].fields[k].version.clock
               here == store[n].clock
    <3>1. held <= here /\ here < op.clock /\ held \in Int /\ here \in Int /\ op.clock \in Int
      BY <2>1, <2>3, <2>4
    <3> HIDE DEF held, here
    <3>2. held < op.clock BY <3>1
    <3> QED BY <2>5, <3>2 DEF held
  <2> QED BY <2>6 DEF Before
<1>8. store'[n] = t BY DEF Commit, Inv
<1> HIDE DEF t
<1>9. t.entities[op.entity].fields[k] = FieldOf(op, k)
  <2>1. Apply(store[n].entities[op.entity], op).fields[k] = FieldOf(op, k)
    BY <1>2, <1>6, <1>7 DEF Apply
  <2> QED BY <1>5, <2>1
<1> QED BY <1>2, <1>8, <1>9

-----------------------------------------------------------------------------
(* Every command issues a command batch.                                   *)

\* next_clock yields a positive clock.
LEMMA NextClockType ==
    ASSUME NEW s \in Store, NEW c \in NextClocks(s)
    PROVE  c \in Nat /\ c > 0
BY EntitiesAssumption DEF NextClocks, Store, EntitiesAssumption

\* A command of one operation.
LEMMA SingleBatch ==
    ASSUME NEW op \in Operation
    PROVE  CommandBatch(<<op>>, op.replicaId, op.operationId, op.clock)
<1>1. op.clock \in Nat BY DEF Operation
<1>2. <<op>> \in Seq(Operation) /\ DOMAIN <<op>> = {1} /\ <<op>>[1] = op OBVIOUS
<1> QED BY <1>1, <1>2 DEF CommandBatch

\* The changes of a command are listed without repetition.
LEMMA OrderType ==
    ASSUME NEW S \in SUBSET Entities, NEW order \in Orders(S)
    PROVE  /\ order \in Seq(Entities) /\ Len(order) \in Nat
           /\ DOMAIN order = 1 .. Len(order)
           /\ \A i \in 1 .. Len(order) : order[i] \in Entities
           /\ \A i, j \in 1 .. Len(order) : order[i] = order[j] => i = j
<1>1. IsFiniteSet(S) BY EntitiesAssumption, FS_Subset DEF EntitiesAssumption
<1>2. Cardinality(S) \in Nat BY <1>1, FS_CardinalityType
<1>3. order \in [1 .. Cardinality(S) -> Entities] /\ DOMAIN order = 1 .. Cardinality(S)
  BY DEF Orders
<1>4. order \in Seq(Entities) /\ Len(order) = Cardinality(S) BY <1>2, <1>3
<1> QED BY <1>2, <1>3, <1>4 DEF Orders

\* Changes at consecutive clocks, each of another entity.
LEMMA ConsecutiveBatch ==
    ASSUME NEW r \in Replicas, NEW id \in Ids, NEW c \in Nat, c > 0,
           NEW S \in SUBSET Entities, NEW order \in Orders(S), NEW batch,
           batch = [i \in 1 .. Len(order) |-> batch[i]],
           \A i \in 1 .. Len(order) :
              /\ batch[i] \in Operation /\ batch[i].operationId = id
              /\ batch[i].replicaId = r /\ batch[i].entity = order[i]
              /\ batch[i].clock = c + i - 1
    PROVE  CommandBatch(batch, r, id, c + Len(order) - 1)
<1>1. /\ Len(order) \in Nat
      /\ \A i, j \in 1 .. Len(order) : order[i] = order[j] => i = j
  BY OrderType
<1>2. batch \in Seq(Operation) /\ DOMAIN batch = 1 .. Len(order) BY <1>1
<1>3. c + Len(order) - 1 \in Nat BY <1>1
<1> QED BY <1>1, <1>2, <1>3 DEF CommandBatch

\* save_entity and review issue a command batch.
LEMMA SaveBatchType ==
    ASSUME NEW s \in Store, NEW r \in Replicas, NEW id \in Ids, NEW c \in Nat, c > 0,
           NEW e, NEW full \in SUBSET Keys, NEW changed \in SUBSET Keys,
           NEW progress \in BOOLEAN,
           NEW S \in SUBSET Entities, NEW order \in Orders(S)
    PROVE  CommandBatch(SaveBatch(s, r, id, c, e, full, changed, progress, order),
                        r, id, c + Len(order) - 1)
<1> DEFINE batch == SaveBatch(s, r, id, c, e, full, changed, progress, order)
<1>1. ASSUME NEW i \in 1 .. Len(order)
      PROVE  /\ batch[i] \in Operation /\ batch[i].operationId = id
             /\ batch[i].replicaId = r /\ batch[i].entity = order[i]
             /\ batch[i].clock = c + i - 1
  <2> DEFINE kept == IF order[i] = e THEN full ELSE Rewritten(s, order[i], changed)
             moved == order[i] = e /\ progress
  <2>1. Len(order) \in Nat /\ order[i] \in Entities BY OrderType
  <2>2. c + i - 1 \in Nat /\ moved \in BOOLEAN BY <2>1
  <2>3. kept \in SUBSET Keys BY DEF Rewritten, Live
  <2>4. batch[i] = ValuesOp(s, r, id, order[i], c + i - 1, kept, changed, moved, FALSE)
    BY DEF SaveBatch
  <2> HIDE DEF kept, moved, batch
  <2> QED BY <2>1, <2>2, <2>3, <2>4 DEF ValuesOp, Operation
<1>2. batch = [i \in 1 .. Len(order) |-> batch[i]] BY DEF SaveBatch
<1> HIDE DEF batch
<1>3. CommandBatch(batch, r, id, c + Len(order) - 1) BY <1>1, <1>2, ConsecutiveBatch
<1> QED BY <1>3 DEF batch

\* delete_entity_inner issues a command batch.
LEMMA DeleteBatchType ==
    ASSUME NEW s \in Store, NEW r \in Replicas, NEW id \in Ids, NEW c \in Nat, c > 0,
           NEW e, NEW legacy, NEW changed \in SUBSET Keys,
           NEW S \in SUBSET Entities, NEW order \in Orders(S)
    PROVE  CommandBatch(DeleteBatch(s, r, id, c, e, legacy, changed, order), r, id,
                        c + Len(order) - 1)
<1> DEFINE batch == DeleteBatch(s, r, id, c, e, legacy, changed, order)
<1>1. ASSUME NEW i \in 1 .. Len(order)
      PROVE  /\ batch[i] \in Operation /\ batch[i].operationId = id
             /\ batch[i].replicaId = r /\ batch[i].entity = order[i]
             /\ batch[i].clock = c + i - 1
  <2> DEFINE x == order[i]
             kept == IF x \in Detached(s, e, legacy) THEN Rewritten(s, x, {}) \ {Reference}
                     ELSE IF x \in Citing(s, e) THEN Rewritten(s, x, changed) ELSE {}
             gone == x \notin Detached(s, e, legacy) \cup Citing(s, e)
  <2>1. Len(order) \in Nat /\ order[i] \in Entities BY OrderType
  <2>2. c + i - 1 \in Nat /\ gone \in BOOLEAN BY <2>1
  <2>3. kept \in SUBSET Keys BY DEF Rewritten, Live
  <2>4. batch[i] = ValuesOp(s, r, id, order[i], c + i - 1, kept, kept \cap changed, FALSE,
                            gone)
    BY DEF DeleteBatch
  <2> HIDE DEF kept, gone, batch
  <2> QED BY <2>1, <2>2, <2>3, <2>4 DEF ValuesOp, Operation
<1>2. batch = [i \in 1 .. Len(order) |-> batch[i]] BY DEF DeleteBatch
<1> HIDE DEF batch
<1>3. CommandBatch(batch, r, id, c + Len(order) - 1) BY <1>1, <1>2, ConsecutiveBatch
<1> QED BY <1>3 DEF batch

\* mutate_replica_entity issues a command batch.
LEMMA MutateBatchType ==
    ASSUME NEW s \in Store, NEW r \in Replicas, NEW id \in Ids, NEW c \in Nat, NEW e,
           NEW patch \in SUBSET Keys, NEW unset \in SUBSET Keys,
           NEW progress \in BOOLEAN, NEW deleted \in BOOLEAN,
           NEW S \in SUBSET Entities, NEW order \in Orders(S)
    PROVE  CommandBatch(MutateBatch(s, r, id, c, e, patch, unset, progress, deleted, order),
                        r, id, c)
<1> DEFINE batch == MutateBatch(s, r, id, c, e, patch, unset, progress, deleted, order)
<1>1. /\ Len(order) \in Nat
      /\ \A i \in 1 .. Len(order) : order[i] \in Entities
      /\ \A i, j \in 1 .. Len(order) : order[i] = order[j] => i = j
  BY OrderType
<1>2. /\ DOMAIN batch = 1 .. Len(order)
      /\ \A i \in 1 .. Len(order) :
            /\ batch[i] \in Operation /\ batch[i].operationId = id
            /\ batch[i].replicaId = r /\ batch[i].entity = order[i] /\ batch[i].clock = c
  BY <1>1, EntitiesAssumption DEF MutateBatch, Operation, EntitiesAssumption
<1>3. batch = [i \in 1 .. Len(order) |-> batch[i]] BY DEF MutateBatch
<1> HIDE DEF batch
<1>4. batch \in Seq(Operation) BY <1>1, <1>2, <1>3
<1>5. CommandBatch(batch, r, id, c) BY <1>1, <1>2, <1>4 DEF CommandBatch
<1> QED BY <1>5 DEF batch

\* The local commands, named by what they all do.
LEMMA CommandIssues ==
    ASSUME Inv, NEW n \in Replicas, Command(n)
    PROVE  \E id \in FreshIds, batch \in Seq(Operation), c \in Nat :
              CommandBatch(batch, n, id, c) /\ Commit(n, batch, c)
<1>1. store[n] \in Store /\ FreshIds \subseteq Ids BY DEF Inv, FreshIds
<1>0. \A e \in Entities :
         /\ Dependents(store[n], e) \in SUBSET Entities
         /\ Referrers(store[n], e) \in SUBSET Entities
         /\ Rewritable(store[n], e) \in SUBSET Entities
         /\ Citing(store[n], e) \in SUBSET Entities
  <2>1. \A e \in Entities : /\ Dependents(store[n], e) \in SUBSET Entities
                            /\ Referrers(store[n], e) \in SUBSET Entities
                            /\ Rewritable(store[n], e) \in SUBSET Entities
    BY EntitiesAssumption DEF Dependents, Referrers, Rewritable, EntitiesAssumption
  <2> QED BY <2>1 DEF Citing
<1>2. CASE Save(n)
  <2>1. PICK id \in FreshIds, e \in Entities \ Reviews, c \in NextClocks(store[n]),
             full \in SUBSET DataKeys :
          \E changed \in SUBSET full, progress \in BOOLEAN,
             notes \in SUBSET Rewritable(store[n], e) :
          \E order \in Orders({e} \cup notes) :
             /\ ~store[n].entities[e].deleted
             /\ progress => e \in Books /\ Progress \in full
             /\ CommitFrom(n, SaveBatch(store[n], n, id, c, e, full, changed, progress,
                                        order), c)
    BY <1>2, Zenon DEF Save
  <2>2. PICK changed \in SUBSET full, progress \in BOOLEAN,
             notes \in SUBSET Rewritable(store[n], e) :
          \E order \in Orders({e} \cup notes) :
             /\ ~store[n].entities[e].deleted
             /\ progress => e \in Books /\ Progress \in full
             /\ CommitFrom(n, SaveBatch(store[n], n, id, c, e, full, changed, progress,
                                        order), c)
    BY <2>1
  <2>3. PICK order \in Orders({e} \cup notes) :
             CommitFrom(n, SaveBatch(store[n], n, id, c, e, full, changed, progress, order), c)
    BY <2>2
  <2>4. /\ c \in Nat /\ c > 0 /\ full \in SUBSET Keys /\ changed \in SUBSET Keys
        /\ {e} \cup notes \in SUBSET Entities
    BY <1>0, <1>1, NextClockType DEF DataKeys
  <2>5. CommandBatch(SaveBatch(store[n], n, id, c, e, full, changed, progress, order), n, id,
                     c + Len(order) - 1)
    BY <1>1, <2>4, SaveBatchType
  <2>6. Len(SaveBatch(store[n], n, id, c, e, full, changed, progress, order)) = Len(order)
    BY <2>4, OrderType DEF SaveBatch
  <2> QED BY <2>3, <2>5, <2>6 DEF CommandBatch, CommitFrom
<1>3. CASE Delete(n)
  <2>1. PICK id \in FreshIds, e \in Entities \ Reviews, c \in NextClocks(store[n]),
             changed \in SUBSET DataKeys, legacy \in BOOLEAN :
          \E notes \in SUBSET Citing(store[n], e) :
          \E order \in Orders({e} \cup Dependents(store[n], e) \cup Referrers(store[n], e)
                                   \cup notes) :
             /\ Deletable(store[n], e)
             /\ legacy => e \in Notes
             /\ notes = {} <=> changed = {}
             /\ CommitFrom(n, DeleteBatch(store[n], n, id, c, e, legacy, changed, order), c)
    BY <1>3, Zenon DEF Delete
  <2>2. PICK notes \in SUBSET Citing(store[n], e) :
          \E order \in Orders({e} \cup Dependents(store[n], e) \cup Referrers(store[n], e)
                                   \cup notes) :
             CommitFrom(n, DeleteBatch(store[n], n, id, c, e, legacy, changed, order), c)
    BY <2>1
  <2> DEFINE S == {e} \cup Dependents(store[n], e) \cup Referrers(store[n], e) \cup notes
  <2>3. PICK order \in Orders(S) :
             CommitFrom(n, DeleteBatch(store[n], n, id, c, e, legacy, changed, order), c)
    BY <2>2
  <2>4. S \in SUBSET Entities BY <1>0
  <2> HIDE DEF S
  <2>5. c \in Nat /\ c > 0 /\ changed \in SUBSET Keys BY <1>1, NextClockType DEF DataKeys
  <2>6. CommandBatch(DeleteBatch(store[n], n, id, c, e, legacy, changed, order), n, id,
                     c + Len(order) - 1)
    BY <1>1, <2>4, <2>5, DeleteBatchType
  <2>7. Len(DeleteBatch(store[n], n, id, c, e, legacy, changed, order)) = Len(order)
    BY <2>4, OrderType DEF DeleteBatch
  <2> QED BY <2>3, <2>6, <2>7 DEF CommandBatch, CommitFrom
<1>4. CASE Review(n)
  <2>1. PICK id \in FreshIds, e \in Reviews, c \in NextClocks(store[n]),
             changed \in SUBSET DataKeys :
          \E card \in SUBSET Rewritable(store[n], e) :
          \E order \in Orders({e} \cup card) :
             CommitFrom(n, SaveBatch(store[n], n, id, c, e, DataKeys, changed, FALSE, order), c)
    BY <1>4, Zenon DEF Review
  <2>2. PICK card \in SUBSET Rewritable(store[n], e) :
          \E order \in Orders({e} \cup card) :
             CommitFrom(n, SaveBatch(store[n], n, id, c, e, DataKeys, changed, FALSE, order), c)
    BY <2>1
  <2>3. PICK order \in Orders({e} \cup card) :
             CommitFrom(n, SaveBatch(store[n], n, id, c, e, DataKeys, changed, FALSE, order), c)
    BY <2>2
  <2>4. /\ c \in Nat /\ c > 0 /\ DataKeys \in SUBSET Keys /\ changed \in SUBSET Keys
        /\ {e} \cup card \in SUBSET Entities
    BY <1>0, <1>1, NextClockType, EntitiesAssumption DEF DataKeys, EntitiesAssumption
  <2>5. CommandBatch(SaveBatch(store[n], n, id, c, e, DataKeys, changed, FALSE, order), n, id,
                     c + Len(order) - 1)
    BY <1>1, <2>4, SaveBatchType
  <2>6. Len(SaveBatch(store[n], n, id, c, e, DataKeys, changed, FALSE, order)) = Len(order)
    BY <2>4, OrderType DEF SaveBatch
  <2> QED BY <2>3, <2>5, <2>6 DEF CommandBatch, CommitFrom
<1>5. CASE RestoreEntity(n)
  <2>1. PICK id \in FreshIds, source \in Entities \ Reviews, e \in Entities \ Reviews,
             c \in NextClocks(store[n]), progress \in BOOLEAN :
          Commit(n, <<[operationId |-> id, replicaId |-> n, entity |-> e, clock |-> c,
                       patch |-> Live(store[n].entities[source]), unset |-> {},
                       progress |-> progress, deleted |-> FALSE]>>, c)
    BY <1>5 DEF RestoreEntity
  <2> DEFINE op == [operationId |-> id, replicaId |-> n, entity |-> e, clock |-> c,
                    patch |-> Live(store[n].entities[source]), unset |-> {},
                    progress |-> progress, deleted |-> FALSE]
  <2>2. c \in Nat BY <1>1, NextClockType
  <2>3. op \in Operation /\ op.operationId = id /\ op.replicaId = n /\ op.clock = c
    BY <1>1, <2>2 DEF Operation, Live
  <2>4. Commit(n, <<op>>, c) BY <2>1
  <2> HIDE DEF op
  <2>5. CommandBatch(<<op>>, n, id, c) BY <2>3, SingleBatch
  <2>6. <<op>> \in Seq(Operation) BY <2>3
  <2> QED BY <2>2, <2>4, <2>5, <2>6
<1>6. CASE Mutate(n)
  <2>1. PICK id \in FreshIds, e \in Entities, c \in 0 .. MaxClock,
             m \in Mutations, progress \in BOOLEAN :
          \E order \in Orders({e} \cup (IF m.deleted
                                        THEN Cascaded(store[n], e) \cup Holders(store[n], e)
                                        ELSE {})) :
             /\ progress => e \in Books /\ Progress \in m.patch
             /\ e \in Reviews => About(issued, e) = {} /\ ~m.deleted /\ m.unset = {}
             /\ Commit(n, MutateBatch(store[n], n, id, c, e, m.patch, m.unset, progress,
                                      m.deleted, order), c)
    BY <1>6, Zenon DEF Mutate
  <2> DEFINE S == {e} \cup (IF m.deleted
                            THEN Cascaded(store[n], e) \cup Holders(store[n], e)
                            ELSE {})
  <2>0. PICK order \in Orders(S) :
             Commit(n, MutateBatch(store[n], n, id, c, e, m.patch, m.unset, progress,
                                   m.deleted, order), c)
    BY <2>1
  <2>2. /\ m.patch \in SUBSET Keys /\ m.unset \in SUBSET Keys /\ m.deleted \in BOOLEAN
    BY MutationsAssumption DEF MutationsAssumption
  <2>3. S \in SUBSET Entities
    BY EntitiesAssumption DEF Cascaded, Holders, EntitiesAssumption
  <2> HIDE DEF S
  <2>4. c \in Nat BY EntitiesAssumption DEF EntitiesAssumption
  <2>5. CommandBatch(MutateBatch(store[n], n, id, c, e, m.patch, m.unset, progress,
                                 m.deleted, order), n, id, c)
    BY <1>1, <2>2, <2>3, <2>4, MutateBatchType
  <2> DEFINE batch == MutateBatch(store[n], n, id, c, e, m.patch, m.unset, progress,
                                  m.deleted, order)
  <2>6. batch \in Seq(Operation) BY <2>5 DEF CommandBatch
  <2>7. Commit(n, batch, c) BY <2>0
  <2> HIDE DEF batch
  <2>8. CommandBatch(batch, n, id, c) BY <2>5 DEF batch
  <2> QED BY <2>4, <2>6, <2>7, <2>8
<1> QED BY <1>2, <1>3, <1>4, <1>5, <1>6 DEF Command

-----------------------------------------------------------------------------
(* What the invariant says of the properties of Commands.                  *)

\* Every entity table is the view of what its node absorbed.
LEMMA InvViews == Inv => Views
BY DEF Inv, Views, StoreOK

\* The clock of a node is not behind a field it holds.
LEMMA InvClock == Inv => ClockCovers
BY DEF Inv, ClockCovers, StoreOK

\* The entities of a store in order are a function of what it has absorbed.
LEMMA SameEntities ==
    ASSUME NEW ops, UniqueIds(ops), NEW s, NEW t, StoreOK(s), StoreOK(t),
           s.known = t.known, t.known \subseteq ops
    PROVE  s.entities = t.entities
<1>1. /\ s.entities \in [Entities -> EntityState] /\ t.entities \in [Entities -> EntityState]
      /\ t.known \in SUBSET Operation
  BY DEF StoreOK, Store
<1>2. UniqueIds(t.known) BY DEF UniqueIds
<1>3. ASSUME NEW e \in Entities PROVE s.entities[e] = t.entities[e]
  <2>1. IsView(s.entities[e], e, t.known) /\ IsView(t.entities[e], e, t.known)
    BY DEF StoreOK
  <2> QED BY <1>1, <1>2, <2>1, ViewUnique
<1> QED BY <1>1, <1>3

\* Nodes that absorbed the same operations hold the same entities.
LEMMA InvConvergence == Inv => Convergence
BY SameEntities DEF Inv, Convergence

\* A log holds absorbed operations, each once.
LEMMA InvLog == Inv => LogOnce
<1> SUFFICES ASSUME Inv, NEW n \in Replicas
             PROVE  /\ \A i, j \in DOMAIN store[n].log :
                           store[n].log[i] = store[n].log[j] => i = j
                    /\ {store[n].log[i] : i \in DOMAIN store[n].log} \subseteq store[n].known
                    /\ store[n].known \subseteq issued
  BY DEF LogOnce
<1>1. StoreOK(store[n]) /\ store[n].known \subseteq issued BY DEF Inv
<1> QED BY <1>1 DEF StoreOK
=============================================================================
