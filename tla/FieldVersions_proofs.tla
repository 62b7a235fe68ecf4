-------------------------- MODULE FieldVersions_proofs --------------------------
(***************************************************************************)
(* What apply_operation and merge_states compute, for any set of           *)
(* operations: the newest write of every field, in whatever order and with *)
(* whatever repetitions.                                                   *)
(***************************************************************************)
EXTENDS FieldVersions, TLAPS

AnyStamp == Stamp \cup {NoStamp}

\* Versions are compared as triples of integers.
LEMMA StampComponents ==
    ASSUME NEW a \in AnyStamp
    PROVE  a.clock \in Int /\ a.replica \in Int /\ a.operation \in Int
<1>1. CASE a \in Stamp
  <2>1. a.clock \in Nat /\ a.replica \in Replicas /\ a.operation \in Ids
    BY <1>1 DEF Stamp
  <2>2. a.replica \in Nat /\ a.operation \in Nat
    BY <2>1, OrderAssumption DEF OrderAssumption
  <2> QED BY <2>1, <2>2
<1>2. CASE a = NoStamp BY <1>2 DEF NoStamp
<1> QED BY <1>1, <1>2 DEF AnyStamp

\* newer_field is a strict order.
LEMMA BeforeOrder ==
    ASSUME NEW a \in AnyStamp, NEW b \in AnyStamp, NEW c \in AnyStamp
    PROVE  /\ ~Before(a, a)
           /\ Before(a, b) /\ Before(b, c) => Before(a, c)
           /\ Before(a, b) => ~Before(b, a)
BY StampComponents DEF Before

\* It is total: of two different versions one is the newer.
LEMMA BeforeTotal ==
    ASSUME NEW a \in AnyStamp, NEW b \in AnyStamp, ~Before(a, b), ~Before(b, a)
    PROVE  a = b
<1>1. a.clock = b.clock /\ a.replica = b.replica /\ a.operation = b.operation
  BY StampComponents DEF Before
<1>2. /\ a = [clock |-> a.clock, replica |-> a.replica, operation |-> a.operation]
      /\ b = [clock |-> b.clock, replica |-> b.replica, operation |-> b.operation]
  BY DEF AnyStamp, Stamp, NoStamp
<1> QED BY <1>1, <1>2

\* What is not before a is not before anything a is before.
LEMMA BeforeBound ==
    ASSUME NEW a \in AnyStamp, NEW b \in AnyStamp, NEW c \in AnyStamp,
           ~Before(b, a), ~Before(c, b)
    PROVE  ~Before(c, a)
BY StampComponents DEF Before

\* The version an operation writes is a stamp.
LEMMA OperationStamp ==
    ASSUME NEW op \in Operation
    PROVE  StampOf(op) \in Stamp /\ StampOf(op) \in AnyStamp /\ Before(NoStamp, StampOf(op))
BY DEF Operation, StampOf, Stamp, AnyStamp, NoStamp, Before

\* What an operation writes into a field is a field.
LEMMA FieldType ==
    ASSUME NEW op \in Operation, NEW k \in Keys
    PROVE  FieldOf(op, k) \in Field /\ FieldOf(op, k).version = StampOf(op)
BY OperationStamp DEF FieldOf, Field

\* An entity never heard of has the type of an entity.
LEMMA EmptyEntity == NoEntity \in EntityState /\ NoField \in Field
BY DEF NoEntity, EntityState, NoField, Field

\* apply_operation yields an entity.
LEMMA ApplyType ==
    ASSUME NEW st \in EntityState, NEW op \in Operation
    PROVE  Apply(st, op) \in EntityState
BY FieldType DEF Apply, EntityState, Operation

\* merge_states yields an entity.
LEMMA MergeType ==
    ASSUME NEW a \in EntityState, NEW b \in EntityState
    PROVE  Merge(a, b) \in EntityState
BY DEF Merge, EntityState

\* An entity never heard of is the view of no operation.
LEMMA EmptyView ==
    ASSUME NEW e \in Entities
    PROVE  IsView(NoEntity, e, {})
BY DEF IsView, NoEntity, About, Newest

\* A field that is the newest of ops stays so when op, which does not touch it
\* or is not newer, is added; a newer op takes its place.
LEMMA NewestApply ==
    ASSUME NEW ops \in SUBSET Operation, NEW op \in Operation, NEW k \in Keys,
           NEW f \in Field, Newest(f, k, ops)
    PROVE  Newest(IF k \in Touched(op) /\ Before(f.version, StampOf(op))
                  THEN FieldOf(op, k) ELSE f, k, ops \cup {op})
<1>1. CASE k \notin Touched(op)
  BY <1>1 DEF Newest
<1>2. CASE k \in Touched(op) /\ f = NoField
  <2>1. Before(f.version, StampOf(op)) BY <1>2, OperationStamp DEF NoField
  <2>2. \A o \in ops : k \notin Touched(o)
    <3>1. ASSUME NEW w \in ops, f = FieldOf(w, k) PROVE FALSE
      BY <1>2, <3>1 DEF NoField, FieldOf, NoStamp, StampOf, Operation
    <3> QED BY <3>1 DEF Newest
  <2>3. ~Before(StampOf(op), StampOf(op)) BY OperationStamp, BeforeOrder
  <2> QED BY <1>2, <2>1, <2>2, <2>3 DEF Newest
<1>3. CASE k \in Touched(op) /\ f # NoField
  <2>1. PICK w \in ops : /\ k \in Touched(w) /\ f = FieldOf(w, k)
                         /\ \A o \in ops : k \in Touched(o) => ~Before(StampOf(w), StampOf(o))
    BY <1>3 DEF Newest
  <2>2. f.version = StampOf(w) BY <2>1, FieldType
  <2>3. CASE Before(f.version, StampOf(op))
    <3>1. ASSUME NEW o \in ops, k \in Touched(o) PROVE ~Before(StampOf(op), StampOf(o))
      <4>1. ~Before(StampOf(w), StampOf(o)) BY <2>1, <3>1
      <4>2. ~Before(StampOf(op), StampOf(w)) BY <2>2, <2>3, OperationStamp, BeforeOrder
      <4> QED BY <4>1, <4>2, OperationStamp, BeforeBound
    <3>2. ~Before(StampOf(op), StampOf(op)) BY OperationStamp, BeforeOrder
    <3> QED BY <1>3, <2>3, <3>1, <3>2 DEF Newest
  <2>4. CASE ~Before(f.version, StampOf(op))
    BY <2>1, <2>2, <2>4 DEF Newest
  <2> QED BY <2>3, <2>4
<1> QED BY <1>1, <1>2, <1>3

\* apply_operation adds one operation to a view.
THEOREM ApplyView ==
    ASSUME NEW ops \in SUBSET Operation, NEW op \in Operation,
           NEW st \in EntityState, IsView(st, op.entity, ops)
    PROVE  IsView(Apply(st, op), op.entity, ops \cup {op})
<1> DEFINE own == About(ops, op.entity)
<1>1. About(ops \cup {op}, op.entity) = own \cup {op} BY DEF About
<1>2. own \in SUBSET Operation BY DEF About
<1>3. ASSUME NEW k \in Keys
      PROVE  Newest(Apply(st, op).fields[k], k, own \cup {op})
  <2>1. st.fields[k] \in Field BY DEF EntityState
  <2>2. Newest(st.fields[k], k, own) BY DEF IsView
  <2> HIDE DEF own
  <2>3. Newest(IF k \in Touched(op) /\ Before(st.fields[k].version, StampOf(op))
               THEN FieldOf(op, k) ELSE st.fields[k], k, own \cup {op})
    BY <1>2, <2>1, <2>2, NewestApply
  <2> QED BY <2>3 DEF Apply
<1>4. Apply(st, op).present = (own \cup {op} # {}) BY DEF Apply
<1>5. Apply(st, op).deleted = (\E o \in own \cup {op} : o.deleted)
  BY DEF Apply, IsView, EntityState, Operation
<1> QED BY <1>1, <1>3, <1>4, <1>5 DEF IsView

\* Operations on other entities do not matter.
LEMMA ViewElsewhere ==
    ASSUME NEW ops, NEW more, NEW e, NEW st, IsView(st, e, ops),
           \A op \in more : op.entity # e
    PROVE  IsView(st, e, ops \cup more)
<1>1. About(ops \cup more, e) = About(ops, e) BY DEF About
<1> QED BY <1>1 DEF IsView

\* The newer of the newest writes of two sets is the newest of both.
LEMMA NewestMerge ==
    ASSUME NEW A \in SUBSET Operation, NEW B \in SUBSET Operation, NEW k \in Keys,
           NEW f \in Field, NEW g \in Field, Newest(f, k, A), Newest(g, k, B)
    PROVE  Newest(IF Before(f.version, g.version) THEN g ELSE f, k, A \cup B)
<1>1. CASE f = NoField /\ \A op \in A : k \notin Touched(op)
  <2>1. CASE g = NoField /\ \A op \in B : k \notin Touched(op)
    BY <1>1, <2>1 DEF Newest
  <2>2. CASE \E op \in B : /\ k \in Touched(op) /\ g = FieldOf(op, k)
                           /\ \A o \in B : k \in Touched(o) => ~Before(StampOf(op), StampOf(o))
    <3>1. Before(f.version, g.version) BY <1>1, <2>2, FieldType, OperationStamp DEF NoField
    <3> QED BY <1>1, <2>2, <3>1 DEF Newest
  <2> QED BY <2>1, <2>2 DEF Newest
<1>2. CASE \E op \in A : /\ k \in Touched(op) /\ f = FieldOf(op, k)
                         /\ \A o \in A : k \in Touched(o) => ~Before(StampOf(op), StampOf(o))
  <2>1. PICK w \in A : /\ k \in Touched(w) /\ f = FieldOf(w, k)
                       /\ \A o \in A : k \in Touched(o) => ~Before(StampOf(w), StampOf(o))
    BY <1>2
  <2>2. f.version = StampOf(w) /\ StampOf(w) \in AnyStamp BY <2>1, FieldType, OperationStamp
  <2>3. CASE g = NoField /\ \A op \in B : k \notin Touched(op)
    <3>1. ~Before(f.version, g.version)
      BY <2>2, <2>3, OperationStamp, BeforeOrder DEF NoField, AnyStamp
    <3> QED BY <2>1, <2>3, <3>1 DEF Newest
  <2>4. CASE \E op \in B : /\ k \in Touched(op) /\ g = FieldOf(op, k)
                           /\ \A o \in B : k \in Touched(o) => ~Before(StampOf(op), StampOf(o))
    <3>1. PICK v \in B : /\ k \in Touched(v) /\ g = FieldOf(v, k)
                         /\ \A o \in B : k \in Touched(o) => ~Before(StampOf(v), StampOf(o))
      BY <2>4
    <3>2. g.version = StampOf(v) /\ StampOf(v) \in AnyStamp BY <3>1, FieldType, OperationStamp
    <3>3. CASE Before(f.version, g.version)
      <4>1. ~Before(StampOf(v), StampOf(w)) BY <2>2, <3>2, <3>3, BeforeOrder
      <4>2. ASSUME NEW o \in A, k \in Touched(o) PROVE ~Before(StampOf(v), StampOf(o))
        BY <2>1, <4>1, <4>2, OperationStamp, BeforeBound
      <4> QED BY <3>1, <3>3, <4>2 DEF Newest
    <3>4. CASE ~Before(f.version, g.version)
      <4>1. ASSUME NEW o \in B, k \in Touched(o) PROVE ~Before(StampOf(w), StampOf(o))
        BY <2>2, <3>1, <3>2, <3>4, <4>1, OperationStamp, BeforeBound
      <4> QED BY <2>1, <3>4, <4>1 DEF Newest
    <3> QED BY <3>3, <3>4
  <2> QED BY <2>3, <2>4 DEF Newest
<1> QED BY <1>1, <1>2 DEF Newest

\* merge_states joins two views: the result is the view of all the operations
\* either side had absorbed.
THEOREM MergeView ==
    ASSUME NEW A \in SUBSET Operation, NEW B \in SUBSET Operation, NEW e \in Entities,
           NEW a \in EntityState, NEW b \in EntityState, IsView(a, e, A), IsView(b, e, B)
    PROVE  IsView(Merge(a, b), e, A \cup B)
<1>1. About(A \cup B, e) = About(A, e) \cup About(B, e) BY DEF About
<1>2. ASSUME NEW k \in Keys
      PROVE  Newest(Merge(a, b).fields[k], k, About(A, e) \cup About(B, e))
  <2>1. a.fields[k] \in Field /\ b.fields[k] \in Field BY DEF EntityState
  <2>2. Newest(a.fields[k], k, About(A, e)) /\ Newest(b.fields[k], k, About(B, e))
    BY DEF IsView
  <2>3. About(A, e) \in SUBSET Operation /\ About(B, e) \in SUBSET Operation BY DEF About
  <2>4. Newest(IF Before(a.fields[k].version, b.fields[k].version)
               THEN b.fields[k] ELSE a.fields[k], k, About(A, e) \cup About(B, e))
    BY <2>1, <2>2, <2>3, NewestMerge
  <2> QED BY <2>4 DEF Merge
<1>3. Merge(a, b).present = (About(A \cup B, e) # {}) BY <1>1 DEF Merge, IsView
<1>4. Merge(a, b).deleted = (\E op \in About(A \cup B, e) : op.deleted)
  BY <1>1 DEF Merge, IsView
<1> QED BY <1>1, <1>2, <1>3, <1>4 DEF IsView

\* A set of operations with unique ids has one view: two replicas that have
\* absorbed the same operations agree.
THEOREM ViewUnique ==
    ASSUME NEW ops \in SUBSET Operation, UniqueIds(ops), NEW e \in Entities,
           NEW a \in EntityState, NEW b \in EntityState, IsView(a, e, ops), IsView(b, e, ops)
    PROVE  a = b
<1>1. ASSUME NEW k \in Keys PROVE a.fields[k] = b.fields[k]
  <2>1. Newest(a.fields[k], k, About(ops, e)) /\ Newest(b.fields[k], k, About(ops, e))
    BY DEF IsView
  <2>2. CASE \A op \in About(ops, e) : k \notin Touched(op)
    BY <2>1, <2>2 DEF Newest
  <2>3. CASE \E op \in About(ops, e) : k \in Touched(op)
    <3>1. PICK v \in About(ops, e) :
             /\ k \in Touched(v) /\ a.fields[k] = FieldOf(v, k)
             /\ \A o \in About(ops, e) : k \in Touched(o) => ~Before(StampOf(v), StampOf(o))
      BY <2>1, <2>3 DEF Newest
    <3>2. PICK w \in About(ops, e) :
             /\ k \in Touched(w) /\ b.fields[k] = FieldOf(w, k)
             /\ \A o \in About(ops, e) : k \in Touched(o) => ~Before(StampOf(w), StampOf(o))
      BY <2>1, <2>3 DEF Newest
    <3>3. v \in Operation /\ w \in Operation /\ v.entity = w.entity /\ v \in ops /\ w \in ops
      BY DEF About
    <3>4. StampOf(v) = StampOf(w) BY <3>1, <3>2, <3>3, OperationStamp, BeforeTotal
    <3>5. v = w BY <3>3, <3>4 DEF StampOf, UniqueIds
    <3> QED BY <3>1, <3>2, <3>5
  <2> QED BY <2>2, <2>3
<1>2. a.present = b.present /\ a.deleted = b.deleted BY DEF IsView
<1>3. a.fields = b.fields BY <1>1 DEF EntityState
<1>4. /\ a = [present |-> a.present, deleted |-> a.deleted, fields |-> a.fields]
      /\ b = [present |-> b.present, deleted |-> b.deleted, fields |-> b.fields]
  BY DEF EntityState
<1> QED BY <1>2, <1>3, <1>4
=============================================================================
