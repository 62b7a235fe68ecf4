--------------------------- MODULE BrowserStore_proofs ---------------------------
(***************************************************************************)
(* What the transactions of the sync node and of the browser's database do *)
(* to a node and a database that are sound: pages, deletions and batches   *)
(* of any length, which the code works through one operation at a time.    *)
(***************************************************************************)
EXTENDS BrowserStore, FieldVersions_proofs, FiniteSetTheorems

-----------------------------------------------------------------------------
(* Induction over the steps of a computation, with a set for the property. *)

\* A set of natural numbers has a least one.
LEMMA LeastNatural ==
    ASSUME NEW S \in SUBSET Nat, S # {}
    PROVE  \E m \in S : \A k \in S : m <= k
<1> DEFINE less == OpToRel(<, Nat)
<1>1. ASSUME NEW x \in Nat, NEW y \in Nat, x < y PROVE <<x, y>> \in less
  BY <1>1 DEF OpToRel
<1>2. IsWellFoundedOn(less, Nat) BY NatLessThanWellFounded
<1> HIDE DEF less
<1>3. PICK x \in S : \A y \in S : <<y, x>> \notin less
  BY <1>2, WFMin
<1>4. \A y \in S : ~(y < x) BY <1>1, <1>3
<1> QED BY <1>4

\* What holds at the start and is kept by every step holds at the end.
LEMMA StepByStep ==
    ASSUME NEW n \in Nat, NEW good, 0 \in good,
           \A i \in 0 .. n : i \in good /\ i < n => i + 1 \in good
    PROVE  \A i \in 0 .. n : i \in good
<1> DEFINE bad == {i \in 0 .. n : i \notin good}
<1>1. SUFFICES ASSUME bad # {} PROVE FALSE OBVIOUS
<1>2. PICK m \in bad : \A k \in bad : m <= k
  <2>1. bad \in SUBSET Nat OBVIOUS
  <2> HIDE DEF bad
  <2> QED BY <1>1, <2>1, LeastNatural
<1>3. m # 0 BY <1>2
<1>4. m - 1 \in 0 .. n /\ m - 1 < n /\ m - 1 \in good BY <1>2, <1>3
<1> QED BY <1>2, <1>4

\* run takes the steps F from s, one after the other.
Follows(run, s, F, n) == run = [i \in 0 .. n |-> IF i = 0 THEN s ELSE F[<<run[i - 1], i>>]]

\* A computation that stays in S can be carried on for any number of steps.
LEMMA RunExists ==
    ASSUME NEW S, NEW s \in S, NEW n \in Nat, NEW F \in [S \X (1 .. n) -> S]
    PROVE  \E run \in [0 .. n -> S] : Follows(run, s, F, n)
<1> DEFINE good == {m \in 0 .. n : \E run \in [0 .. m -> S] : Follows(run, s, F, m)}
<1>1. 0 \in good
  <2> DEFINE run == [i \in 0 .. 0 |-> s]
  <2>1. run \in [0 .. 0 -> S] OBVIOUS
  <2>2. Follows(run, s, F, 0) BY DEF Follows
  <2> QED BY <2>1, <2>2
<1>2. ASSUME NEW m \in 0 .. n, m \in good, m < n PROVE m + 1 \in good
  <2>1. PICK run \in [0 .. m -> S] : Follows(run, s, F, m) BY <1>2
  <2> DEFINE last == F[<<run[m], m + 1>>]
             longer == [i \in 0 .. m + 1 |-> IF i <= m THEN run[i] ELSE last]
  <2>2. last \in S BY <1>2
  <2>3. longer \in [0 .. m + 1 -> S] BY <2>2
  <2>4. ASSUME NEW i \in 0 .. m + 1
        PROVE  longer[i] = IF i = 0 THEN s ELSE F[<<longer[i - 1], i>>]
    <3>1. CASE i = m + 1
      <4>1. longer[i] = last BY <3>1
      <4>2. longer[i - 1] = run[m] /\ i # 0 BY <3>1
      <4> QED BY <3>1, <4>1, <4>2
    <3>2. CASE i <= m
      <4>1. longer[i] = run[i] /\ (i # 0 => longer[i - 1] = run[i - 1]) BY <3>2
      <4>2. run[i] = IF i = 0 THEN s ELSE F[<<run[i - 1], i>>] BY <2>1, <3>2 DEF Follows
      <4> QED BY <4>1, <4>2
    <3> QED BY <3>1, <3>2
  <2>5. Follows(longer, s, F, m + 1) BY <2>4 DEF Follows
  <2> QED BY <1>2, <2>3, <2>5
<1> HIDE DEF good
<1>3. n \in good BY <1>1, <1>2, StepByStep
<1> QED BY <1>3 DEF good

\* AcceptAll is a run of accepts, which stays where each of them does.
LEMMA AcceptRun ==
    ASSUME NEW S, NEW n \in S, NEW ops \in Seq(Operation),
           \A m \in S, i \in 1 .. Len(ops) : Accept(m, ops[i]) \in S
    PROVE  \E run \in [0 .. Len(ops) -> S] :
              /\ run[0] = n
              /\ \A i \in 1 .. Len(ops) : run[i] = Accept(run[i - 1], ops[i])
              /\ AcceptAll(n, ops) = run[Len(ops)]
<1> DEFINE len == Len(ops)
           F == [x \in S \X (1 .. len) |-> Accept(x[1], ops[x[2]])]
           Is(f) == f = [i \in 0 .. Len(ops) |-> IF i = 0 THEN n ELSE Accept(f[i - 1], ops[i])]
           after == CHOOSE f : Is(f)
<1>0. len \in Nat OBVIOUS
<1>1. F \in [S \X (1 .. len) -> S] OBVIOUS
<1>2. PICK g \in [0 .. len -> S] : Follows(g, n, F, len)
  <2> HIDE DEF F, len
  <2> QED BY <1>0, <1>1, RunExists
<1>3. Is(g)
  <2>1. \A i \in 1 .. len : F[<<g[i - 1], i>>] = Accept(g[i - 1], ops[i]) OBVIOUS
  <2> HIDE DEF F
  <2>2. \A i \in 0 .. len : g[i] = IF i = 0 THEN n ELSE Accept(g[i - 1], ops[i])
    BY <1>0, <1>2, <2>1 DEF Follows
  <2> QED BY <2>2
<1>4. Is(after)
  <2> HIDE DEF Is
  <2> QED BY <1>3
<1>5. AcceptAll(n, ops) = after[len] BY DEF AcceptAll
<1>6. after[0] = n /\ \A i \in 1 .. len : after[i] = Accept(after[i - 1], ops[i])
  <2> HIDE DEF after
  <2> QED BY <1>4, <1>0
<1>7. after = [i \in 0 .. len |-> after[i]]
  <2> HIDE DEF after
  <2> QED BY <1>4
<1> HIDE DEF after
<1>8. \A i \in 0 .. len : after[i] \in S
  <2> DEFINE good == {i \in 0 .. len : after[i] \in S}
  <2>1. 0 \in good BY <1>0, <1>6
  <2>2. ASSUME NEW i \in 0 .. len, i \in good, i < len PROVE i + 1 \in good
    <3>1. after[i + 1] = Accept(after[i], ops[i + 1]) BY <1>0, <1>6, <2>2
    <3> QED BY <1>0, <2>2, <3>1
  <2> HIDE DEF good
  <2>3. \A i \in 0 .. len : i \in good BY <1>0, <2>1, <2>2, StepByStep
  <2> QED BY <2>3 DEF good
<1>9. after \in [0 .. len -> S] BY <1>7, <1>8
<1> QED BY <1>5, <1>6, <1>9

-----------------------------------------------------------------------------
(* Logs.                                                                   *)

\* The operations up to a position are among those of the log, up to its end
\* they are all of it, and up to 0 there is none.
LEMMA UptoPart ==
    ASSUME NEW log \in Seq(Operation), NEW c \in Nat
    PROVE  /\ Upto(log, c) \subseteq Ops(log)
           /\ Ops(log) \subseteq Operation
           /\ Len(log) <= c => Upto(log, c) = Ops(log)
           /\ Upto(log, 0) = {}
BY DEF Upto, Ops

\* log is the beginning of longer.
Begins(log, longer) ==
    /\ Len(log) <= Len(longer)
    /\ \A i \in 1 .. Len(log) : longer[i] = log[i]

\* What a position has passed stays the same while the log grows at its end.
LEMMA UptoBegins ==
    ASSUME NEW log \in Seq(Operation), NEW longer \in Seq(Operation), Begins(log, longer),
           NEW c \in Nat, c <= Len(log)
    PROVE  Upto(longer, c) = Upto(log, c) /\ Ops(log) \subseteq Ops(longer)
BY DEF Upto, Ops, Begins

\* A log with one more operation.
LEMMA AppendLog ==
    ASSUME NEW log \in Seq(Operation), NEW op \in Operation
    PROVE  /\ Append(log, op) \in Seq(Operation)
           /\ Begins(log, Append(log, op))
           /\ Len(Append(log, op)) = Len(log) + 1
           /\ Ops(Append(log, op)) = Ops(log) \cup {op}
           /\ Upto(Append(log, op), Len(log) + 1) = Ops(log) \cup {op}
<1> DEFINE longer == Append(log, op)
<1>1. /\ longer \in Seq(Operation) /\ Len(longer) = Len(log) + 1
      /\ \A i \in 1 .. Len(log) : longer[i] = log[i]
      /\ longer[Len(log) + 1] = op
  OBVIOUS
<1> HIDE DEF longer
<1>2. DOMAIN longer = 1 .. Len(log) + 1 /\ DOMAIN log = 1 .. Len(log) BY <1>1
<1>3. Ops(longer) = Ops(log) \cup {op} BY <1>1, <1>2 DEF Ops
<1>4. Upto(longer, Len(log) + 1) = Ops(longer) BY <1>1, UptoPart
<1>5. Begins(log, longer) BY <1>1 DEF Begins
<1> QED BY <1>1, <1>3, <1>4, <1>5 DEF longer

-----------------------------------------------------------------------------
(* The node.                                                               *)

\* Every table of the node is the view of the operations it stands for.
NodeOK(n) ==
    /\ n \in Node
    /\ Len(n.tables) = Len(n.log)
    /\ \A i \in 1 .. Len(n.log), e \in Entities : IsView(n.tables[i][e], e, Upto(n.log, i))

\* The node m is n with a longer log.
Grown(n, m) == m.epoch = n.epoch /\ Begins(n.log, m.log)

\* An empty node is sound.
LEMMA EmptyNodeOK == NodeOK(EmptyNode) /\ Ops(EmptyNode.log) = {}
<1>1. EmptyNode \in Node BY ServerAssumption DEF EmptyNode, Node, Epochs, ServerAssumption
<1> QED BY <1>1 DEF EmptyNode, NodeOK, Ops

\* The present table is the view of the log.
LEMMA CurrentView ==
    ASSUME NEW n, NodeOK(n)
    PROVE  /\ Current(n) \in Table
           /\ \A e \in Entities : IsView(Current(n)[e], e, Ops(n.log))
<1>1. n \in Node /\ n.log \in Seq(Operation) /\ n.tables \in Seq(Table) BY DEF NodeOK, Node
<1>2. CASE Len(n.log) = 0
  <2>1. Current(n) = Nothing BY <1>2 DEF Current, TableAt
  <2>2. Ops(n.log) = {} BY <1>1, <1>2 DEF Ops
  <2>3. \A e \in Entities : Nothing[e] = NoEntity BY DEF Nothing
  <2>4. Nothing \in Table BY EmptyEntity DEF Nothing, Table
  <2> QED BY <2>1, <2>2, <2>3, <2>4, EmptyView
<1>3. CASE Len(n.log) # 0
  <2>1. Current(n) = n.tables[Len(n.log)] /\ Len(n.log) \in 1 .. Len(n.tables)
    BY <1>1, <1>3 DEF Current, TableAt, NodeOK
  <2>2. Upto(n.log, Len(n.log)) = Ops(n.log) BY <1>1, UptoPart
  <2> QED BY <1>1, <2>1, <2>2 DEF NodeOK
<1> QED BY <1>2, <1>3

\* accept keeps the node sound, and its log then has the operation.
LEMMA AcceptOK ==
    ASSUME NEW n, NodeOK(n), NEW op \in Operation
    PROVE  /\ NodeOK(Accept(n, op)) /\ Grown(n, Accept(n, op))
           /\ Ops(Accept(n, op).log) = Ops(n.log) \cup {op}
<1>1. n \in Node /\ n.log \in Seq(Operation) /\ n.tables \in Seq(Table) BY DEF NodeOK, Node
<1>2. CASE op \in Ops(n.log) BY <1>1, <1>2 DEF Accept, Grown, Begins
<1>3. CASE op \notin Ops(n.log)
  <2> DEFINE log == Append(n.log, op)
             table == [Current(n) EXCEPT ![op.entity] = Apply(@, op)]
             tables == Append(n.tables, table)
             m == Accept(n, op)
             len == Len(n.log)
  <2>1. m = [n EXCEPT !.log = log, !.tables = tables]
    BY <1>3 DEF Accept
  <2>2. op.entity \in Entities BY DEF Operation
  <2>3. Current(n) \in Table /\ Current(n)[op.entity] \in EntityState
    BY <2>2, CurrentView DEF Table
  <2>4. table \in Table BY <2>2, <2>3, ApplyType DEF Table
  <2>5. /\ log \in Seq(Operation) /\ Begins(n.log, log) /\ Len(log) = len + 1
        /\ Ops(log) = Ops(n.log) \cup {op} /\ Upto(log, len + 1) = Ops(n.log) \cup {op}
    BY <1>1, AppendLog
  <2>6. ASSUME NEW e \in Entities PROVE IsView(table[e], e, Ops(n.log) \cup {op})
    <3>1. IsView(Current(n)[e], e, Ops(n.log)) /\ Ops(n.log) \subseteq Operation
      BY <1>1, CurrentView, UptoPart
    <3>2. CASE e = op.entity
      <4>1. table[e] = Apply(Current(n)[e], op) BY <2>3, <3>2 DEF Table
      <4> QED BY <2>3, <3>1, <3>2, <4>1, ApplyView
    <3>3. CASE e # op.entity
      <4>1. table[e] = Current(n)[e] BY <2>3, <3>3 DEF Table
      <4> QED BY <3>1, <3>3, <4>1, ViewElsewhere
    <3> QED BY <3>2, <3>3
  <2> HIDE DEF table
  <2>7. /\ tables \in Seq(Table) /\ Len(tables) = len + 1
        /\ tables[len + 1] = table /\ \A i \in 1 .. len : tables[i] = n.tables[i]
    BY <1>1, <2>4 DEF NodeOK
  <2> HIDE DEF log, tables
  <2>8. m \in Node /\ m.log = log /\ m.tables = tables /\ m.epoch = n.epoch /\ m.lost = n.lost
    BY <1>1, <2>1, <2>5, <2>7 DEF Node
  <2> HIDE DEF m
  <2>9. ASSUME NEW i \in 1 .. len + 1, NEW e \in Entities
        PROVE  IsView(tables[i][e], e, Upto(log, i))
    <3>1. CASE i = len + 1 BY <2>5, <2>6, <2>7, <3>1
    <3>2. CASE i <= len
      <4>1. Upto(log, i) = Upto(n.log, i) BY <1>1, <2>5, <3>2, UptoBegins
      <4>2. IsView(n.tables[i][e], e, Upto(n.log, i)) BY <3>2 DEF NodeOK
      <4> QED BY <2>7, <3>2, <4>1, <4>2
    <3> QED BY <1>1, <3>1, <3>2
  <2>10. NodeOK(m) BY <2>5, <2>7, <2>8, <2>9 DEF NodeOK
  <2> QED BY <2>5, <2>8, <2>10 DEF Grown, m
<1> QED BY <1>2, <1>3

\* A whole batch is accepted: nothing else comes into the log.
LEMMA AcceptAllOK ==
    ASSUME NEW n, NodeOK(n), NEW ops \in Seq(Operation)
    PROVE  /\ NodeOK(AcceptAll(n, ops)) /\ Grown(n, AcceptAll(n, ops))
           /\ Ops(AcceptAll(n, ops).log) \subseteq Ops(n.log) \cup Ops(ops)
<1> DEFINE S == {m \in Node : /\ NodeOK(m) /\ Grown(n, m)
                              /\ Ops(m.log) \subseteq Ops(n.log) \cup Ops(ops)}
<1>0. \A m \in Node : m.log \in Seq(Operation) BY DEF Node
<1>1. n \in S BY <1>0 DEF NodeOK, Grown, Begins
<1>2. ASSUME NEW m \in S, NEW i \in 1 .. Len(ops) PROVE Accept(m, ops[i]) \in S
  <2>1. ops[i] \in Operation /\ ops[i] \in Ops(ops) BY DEF Ops
  <2>2. /\ NodeOK(Accept(m, ops[i])) /\ Grown(m, Accept(m, ops[i]))
        /\ Ops(Accept(m, ops[i]).log) = Ops(m.log) \cup {ops[i]}
    BY <2>1, AcceptOK
  <2>3. Accept(m, ops[i]) \in Node BY <2>2 DEF NodeOK
  <2>4. Grown(n, Accept(m, ops[i]))
    <3>1. n.log \in Seq(Operation) /\ m.log \in Seq(Operation) /\ Accept(m, ops[i]).log \in Seq(Operation)
      BY <1>0, <1>1, <2>3
    <3> QED BY <2>2, <3>1 DEF Grown, Begins
  <2> QED BY <2>1, <2>2, <2>3, <2>4
<1> HIDE DEF S
<1>3. AcceptAll(n, ops) \in S
  <2>1. PICK run \in [0 .. Len(ops) -> S] : AcceptAll(n, ops) = run[Len(ops)]
    BY <1>1, <1>2, AcceptRun
  <2> QED BY <2>1
<1> QED BY <1>3 DEF S

\* A restored backup is a sound node with a shorter log.
LEMMA RestoredOK ==
    ASSUME NEW n, NodeOK(n), n.epoch + 1 \in Epochs, NEW seq \in 0 .. Len(n.log),
           NEW later \in SUBSET Snapshot
    PROVE  /\ NodeOK(Restored(n, seq, later)) /\ Restored(n, seq, later).epoch = n.epoch + 1
           /\ Ops(Restored(n, seq, later).log) = Upto(n.log, seq)
<1> DEFINE log == SubSeq(n.log, 1, seq)
           tables == SubSeq(n.tables, 1, seq)
           m == Restored(n, seq, later)
<1>1. n \in Node /\ n.log \in Seq(Operation) /\ n.tables \in Seq(Table) BY DEF NodeOK, Node
<1>2. /\ log \in Seq(Operation) /\ Len(log) = seq
      /\ \A i \in 1 .. seq : log[i] = n.log[i]
  BY <1>1
<1>3. /\ tables \in Seq(Table) /\ Len(tables) = seq
      /\ \A i \in 1 .. seq : tables[i] = n.tables[i]
  BY <1>1 DEF NodeOK
<1>4. /\ m.log = log /\ m.tables = tables /\ m.epoch = n.epoch + 1
      /\ m.lost = n.lost \cup later
  BY DEF Restored
<1> HIDE DEF log, tables
<1>5. m \in Node BY <1>1, <1>2, <1>3 DEF Restored, Node, log, tables
<1> HIDE DEF m
<1>6. Begins(log, n.log) BY <1>1, <1>2 DEF Begins
<1>7. Ops(log) = Upto(n.log, seq)
  <2>1. Upto(log, seq) = Ops(log) BY <1>2, UptoPart
  <2>2. Upto(n.log, seq) = Upto(log, seq) BY <1>1, <1>2, <1>6, UptoBegins
  <2> QED BY <2>1, <2>2
<1>8. ASSUME NEW i \in 1 .. seq, NEW e \in Entities PROVE IsView(tables[i][e], e, Upto(log, i))
  <2>1. Upto(n.log, i) = Upto(log, i) BY <1>1, <1>2, <1>6, UptoBegins
  <2>2. IsView(n.tables[i][e], e, Upto(n.log, i)) BY <1>1 DEF NodeOK
  <2> QED BY <1>3, <2>1, <2>2
<1>9. NodeOK(m) BY <1>2, <1>3, <1>4, <1>5, <1>8 DEF NodeOK
<1> QED BY <1>4, <1>7, <1>9 DEF m

-----------------------------------------------------------------------------
(* Positions in the log of the node: cursors, pages and snapshots.         *)

\* What the position c has passed, if it belongs to the present epoch, is among ops.
Covered(n, c, ops) ==
    /\ c.epoch <= n.epoch
    /\ c.epoch = n.epoch => c.seq <= Len(n.log) /\ Upto(n.log, c.seq) \subseteq ops

Place(c) == c.epoch \in Nat /\ c.seq \in Nat

\* A growing log leaves positions as they are.
LEMMA CoveredGrown ==
    ASSUME NEW n \in Node, NEW m \in Node, Grown(n, m), NEW c, Place(c),
           NEW ops, NEW more, Covered(n, c, ops), ops \subseteq more
    PROVE  Covered(m, c, more)
<1>1. /\ n.log \in Seq(Operation) /\ m.log \in Seq(Operation)
      /\ Begins(n.log, m.log) /\ m.epoch = n.epoch
  BY DEF Node, Grown
<1>2. c.epoch = n.epoch => Upto(m.log, c.seq) = Upto(n.log, c.seq)
  BY <1>1, UptoBegins DEF Covered, Place
<1> QED BY <1>1, <1>2 DEF Covered, Begins, Place

\* After a restore no former position counts.
LEMMA CoveredRestored ==
    ASSUME NEW n \in Node, NEW m, m.epoch = n.epoch + 1, NEW c, Place(c),
           NEW ops, NEW more, Covered(n, c, ops)
    PROVE  Covered(m, c, more)
BY DEF Covered, Place, Node, Epochs

\* A snapshot stands for the operations it names, which were sent to the node.
Whole(n, s, sent) ==
    /\ s.known \subseteq sent
    /\ \A e \in Entities : IsView(s.entities[e], e, s.known)
    /\ Covered(n, s, s.known)

\* The snapshot taken of a sound node is whole.
LEMMA TakenOK ==
    ASSUME NEW n, NodeOK(n)
    PROVE  Taken(n) \in Snapshot /\ Whole(n, Taken(n), Ops(n.log))
<1>1. n \in Node /\ n.log \in Seq(Operation) /\ n.epoch \in Epochs BY DEF NodeOK, Node
<1>2. Ops(n.log) \subseteq Operation /\ Upto(n.log, Len(n.log)) = Ops(n.log) BY <1>1, UptoPart
<1>3. Current(n) \in Table /\ \A e \in Entities : IsView(Current(n)[e], e, Ops(n.log))
  BY CurrentView
<1>4. Taken(n) \in Snapshot BY <1>1, <1>2, <1>3 DEF Taken, Snapshot
<1>5. Covered(n, Taken(n), Ops(n.log)) BY <1>1, <1>2 DEF Covered, Taken, Epochs
<1> QED BY <1>3, <1>4, <1>5 DEF Whole, Taken

\* The position NoCursor and the snapshot NoSnapshot have passed nothing.
LEMMA NothingCovered ==
    ASSUME NEW n \in Node, NEW ops
    PROVE  /\ Covered(n, NoCursor, ops) /\ Place(NoCursor)
           /\ Whole(n, NoSnapshot, ops) /\ Place(NoSnapshot)
<1>1. n.epoch \in Nat /\ n.epoch # 0 BY DEF Node, Epochs
<1>2. Covered(n, NoCursor, ops) /\ Place(NoCursor)
  BY <1>1 DEF Covered, NoCursor, Place
<1>3. \A e \in Entities : IsView(Nothing[e], e, {}) BY EmptyView DEF Nothing
<1> QED BY <1>1, <1>2, <1>3 DEF Covered, NoSnapshot, Place, Whole

\* A page holds all between the position asked for and the one it ends at.
LEMMA ChangesOK ==
    ASSUME NEW n, NodeOK(n), NEW c \in Cursor \cup {NoCursor}, ~CursorRefused(n, c)
    PROVE  /\ Changes(n, c) \in Page
           /\ Changes(n, c).cursor.epoch = n.epoch
           /\ Changes(n, c).cursor.seq <= Len(n.log)
           /\ Ops(Changes(n, c).ops) \subseteq Ops(n.log)
           /\ c.epoch = n.epoch \/ Upto(n.log, c.seq) = {}
           /\ Upto(n.log, Changes(n, c).cursor.seq) \subseteq
                 Upto(n.log, c.seq) \cup Ops(Changes(n, c).ops)
<1> DEFINE last == Least(c.seq + PageSize, Len(n.log))
           ops == SubSeq(n.log, c.seq + 1, last)
<1>1. n \in Node /\ n.log \in Seq(Operation) /\ n.epoch \in Epochs BY DEF NodeOK, Node
<1>2. c.seq \in Nat /\ (c.epoch = n.epoch \/ c.seq = 0) /\ c.seq <= Len(n.log)
  BY <1>1 DEF CursorRefused, Cursor, NoCursor
<1>3. last \in Nat /\ c.seq <= last /\ last <= Len(n.log)
  BY <1>1, <1>2, ServerAssumption DEF ServerAssumption, Least
<1>4. Changes(n, c) = [ops |-> ops, cursor |-> [epoch |-> n.epoch, seq |-> last],
                       more |-> last < Len(n.log)]
  BY DEF Changes
<1> HIDE DEF last
<1>5. /\ ops \in Seq(Operation) /\ Len(ops) = last - c.seq
      /\ \A i \in 1 .. last - c.seq : ops[i] = n.log[c.seq + i]
  BY <1>1, <1>2, <1>3
<1> HIDE DEF ops
<1>6. Changes(n, c) \in Page BY <1>1, <1>3, <1>4, <1>5 DEF Page, Cursor
<1>7. Ops(ops) \subseteq Ops(n.log) BY <1>1, <1>2, <1>3, <1>5 DEF Ops
<1>8. Upto(n.log, last) \subseteq Upto(n.log, c.seq) \cup Ops(ops)
  <2>1. ASSUME NEW i \in 1 .. last, ~(i <= c.seq) PROVE n.log[i] \in Ops(ops)
    <3>1. i - c.seq \in 1 .. last - c.seq /\ c.seq + (i - c.seq) = i BY <1>2, <1>3, <2>1
    <3> QED BY <1>5, <3>1 DEF Ops
  <2> QED BY <1>1, <1>2, <1>3, <2>1 DEF Upto
<1>9. c.epoch = n.epoch \/ Upto(n.log, c.seq) = {} BY <1>1, <1>2, UptoPart
<1> QED BY <1>3, <1>4, <1>6, <1>7, <1>8, <1>9

-----------------------------------------------------------------------------
(* Computations on the database.                                           *)

\* WriteAll is a run of writes.
LEMMA WriteRun ==
    ASSUME NEW S, NEW d \in S, NEW ops \in Seq(Operation),
           \A x \in S, i \in 1 .. Len(ops) : Write(x, ops[i]) \in S
    PROVE  \E run \in [0 .. Len(ops) -> S] :
              /\ run[0] = d
              /\ \A i \in 1 .. Len(ops) : run[i] = Write(run[i - 1], ops[i])
              /\ WriteAll(d, ops) = run[Len(ops)]
<1> DEFINE len == Len(ops)
           F == [x \in S \X (1 .. len) |-> Write(x[1], ops[x[2]])]
           Is(f) == f = [i \in 0 .. Len(ops) |-> IF i = 0 THEN d ELSE Write(f[i - 1], ops[i])]
           after == CHOOSE f : Is(f)
<1>0. len \in Nat OBVIOUS
<1>1. F \in [S \X (1 .. len) -> S] OBVIOUS
<1>2. PICK g \in [0 .. len -> S] : Follows(g, d, F, len)
  <2> HIDE DEF F, len
  <2> QED BY <1>0, <1>1, RunExists
<1>3. Is(g)
  <2>1. \A i \in 1 .. len : F[<<g[i - 1], i>>] = Write(g[i - 1], ops[i]) OBVIOUS
  <2> HIDE DEF F
  <2>2. \A i \in 0 .. len : g[i] = IF i = 0 THEN d ELSE Write(g[i - 1], ops[i])
    BY <1>0, <1>2, <2>1 DEF Follows
  <2> QED BY <2>2
<1>4. Is(after)
  <2> HIDE DEF Is
  <2> QED BY <1>3
<1>5. WriteAll(d, ops) = after[len] BY DEF WriteAll
<1>6. after[0] = d /\ \A i \in 1 .. len : after[i] = Write(after[i - 1], ops[i])
  <2> HIDE DEF after
  <2> QED BY <1>4, <1>0
<1>7. after = [i \in 0 .. len |-> after[i]]
  <2> HIDE DEF after
  <2> QED BY <1>4
<1> HIDE DEF after
<1>8. \A i \in 0 .. len : after[i] \in S
  <2> DEFINE good == {i \in 0 .. len : after[i] \in S}
  <2>1. 0 \in good BY <1>0, <1>6
  <2>2. ASSUME NEW i \in 0 .. len, i \in good, i < len PROVE i + 1 \in good
    <3>1. after[i + 1] = Write(after[i], ops[i + 1]) BY <1>0, <1>6, <2>2
    <3> QED BY <1>0, <2>2, <3>1
  <2> HIDE DEF good
  <2>3. \A i \in 0 .. len : i \in good BY <1>0, <2>1, <2>2, StepByStep
  <2> QED BY <2>3 DEF good
<1>9. after \in [0 .. len -> S] BY <1>7, <1>8
<1> QED BY <1>5, <1>6, <1>9

\* run receives the operations of the page one after the other.
Receives(run, d, key, page) ==
    /\ run[0] = d
    /\ \A i \in 1 .. Len(page.ops) : run[i] = ReceiveOne(run[i - 1], page.ops[i])
    /\ ReceivePage(d, key, page) =
          [d EXCEPT !.entities    = run[Len(page.ops)].entities,
                    !.shown       = run[Len(page.ops)].shown,
                    !.clock       = run[Len(page.ops)].clock,
                    !.known       = @ \cup Ops(page.ops),
                    !.cursor[key] = page.cursor]

\* A page is received one operation after the other.
LEMMA ReceiveRun ==
    ASSUME NEW S, NEW d \in S, NEW page \in Page, NEW key,
           \A x \in S, i \in 1 .. Len(page.ops) : ReceiveOne(x, page.ops[i]) \in S
    PROVE  \E run \in [0 .. Len(page.ops) -> S] : Receives(run, d, key, page)
<1> DEFINE ops == page.ops
           len == Len(ops)
           F == [x \in S \X (1 .. len) |-> ReceiveOne(x[1], ops[x[2]])]
           Is(f) == f = [i \in 0 .. Len(ops) |-> IF i = 0 THEN d ELSE ReceiveOne(f[i - 1], ops[i])]
           after == CHOOSE f : Is(f)
<1>0. len \in Nat BY DEF Page
<1> HIDE DEF ops
<1>1. F \in [S \X (1 .. len) -> S]
  <2>1. \A x \in S, i \in 1 .. len : ReceiveOne(x, ops[i]) \in S BY DEF ops
  <2> QED BY <2>1
<1>2. PICK g \in [0 .. len -> S] : Follows(g, d, F, len)
  <2> HIDE DEF F, len
  <2> QED BY <1>0, <1>1, RunExists
<1>3. Is(g)
  <2>1. \A i \in 1 .. len : F[<<g[i - 1], i>>] = ReceiveOne(g[i - 1], ops[i]) BY <1>0
  <2> HIDE DEF F
  <2>2. \A i \in 0 .. len : g[i] = IF i = 0 THEN d ELSE ReceiveOne(g[i - 1], ops[i])
    <3> HIDE DEF len
    <3>1. \A i \in 0 .. len : g[i] = IF i = 0 THEN d ELSE F[<<g[i - 1], i>>]
      BY <1>2 DEF Follows
    <3>2. \A i \in 0 .. len : i # 0 => i \in 1 .. len BY <1>0
    <3> QED BY <2>1, <3>1, <3>2
  <2> HIDE DEF len
  <2>3. g = [i \in 0 .. len |-> IF i = 0 THEN d ELSE ReceiveOne(g[i - 1], ops[i])] BY <2>2
  <2> QED BY <2>3 DEF len
<1>4. Is(after)
  <2> HIDE DEF Is
  <2> QED BY <1>3
<1>5. ReceivePage(d, key, page) =
         [d EXCEPT !.entities    = after[len].entities,
                   !.shown       = after[len].shown,
                   !.clock       = after[len].clock,
                   !.known       = @ \cup Ops(page.ops),
                   !.cursor[key] = page.cursor]
  BY DEF ReceivePage, ops
<1>6. after[0] = d /\ \A i \in 1 .. len : after[i] = ReceiveOne(after[i - 1], ops[i])
  <2> HIDE DEF after
  <2> QED BY <1>4, <1>0
<1>7. after = [i \in 0 .. len |-> after[i]]
  <2> HIDE DEF after
  <2> QED BY <1>4
<1> HIDE DEF after
<1>8. \A i \in 0 .. len : after[i] \in S
  <2> DEFINE good == {i \in 0 .. len : after[i] \in S}
  <2>1. 0 \in good BY <1>0, <1>6
  <2>2. ASSUME NEW i \in 0 .. len, i \in good, i < len PROVE i + 1 \in good
    <3>1. after[i + 1] = ReceiveOne(after[i], ops[i + 1]) BY <1>0, <1>6, <2>2
    <3>2. ReceiveOne(after[i], ops[i + 1]) \in S BY <1>0, <2>2 DEF ops
    <3> QED BY <1>0, <2>2, <3>1, <3>2
  <2> HIDE DEF good
  <2>3. \A i \in 0 .. len : i \in good BY <1>0, <2>1, <2>2, StepByStep
  <2> QED BY <2>3 DEF good
<1>9. after \in [0 .. len -> S] BY <1>7, <1>8
<1>10. Receives(after, d, key, page) BY <1>5, <1>6 DEF Receives, ops
<1> QED BY <1>9, <1>10 DEF ops

-----------------------------------------------------------------------------
(* The database.                                                           *)

\* The state of every entity is the view of ops, the clock is past all its
\* fields, and a record that is not there has no fields.
StateOK(d, ops) ==
    /\ d \in Database
    /\ \A e \in Entities : IsView(d.entities[e], e, ops)
    /\ \A e \in Entities, k \in Keys : d.entities[e].fields[k].version.clock <= d.clock
    /\ \A e \in Entities : d.shown[e].present \/ d.shown[e] = NoRecord

\* The database holds what it knows, and the outbox is part of that.
DatabaseOK(d) == StateOK(d, d.known) /\ d.outbox \subseteq d.known

\* The parts of the database that only an exchange changes.
SamePlace(d, x) ==
    /\ x.paired = d.paired /\ x.seeded = d.seeded
    /\ x.cursor = d.cursor /\ x.download = d.download

\* What a field says after an operation is not newer than both.
LEMMA ApplyClock ==
    ASSUME NEW st \in EntityState, NEW op \in Operation, NEW c \in Nat, op.clock <= c,
           \A k \in Keys : st.fields[k].version.clock <= c
    PROVE  \A k \in Keys : Apply(st, op).fields[k].version.clock <= c
<1> TAKE k \in Keys
<1>1. FieldOf(op, k).version.clock = op.clock BY DEF FieldOf, StampOf
<1>2. Apply(st, op).fields[k] \in {st.fields[k], FieldOf(op, k)} BY DEF Apply
<1> QED BY <1>1, <1>2

\* What a state shows is a record, and none at all if there is nothing to show.
LEMMA MaterializedType ==
    ASSUME NEW st \in EntityState, NEW e \in Entities, NEW ops, IsView(st, e, ops)
    PROVE  /\ Materialized(st) \in Record
           /\ Materialized(st).present \/ Materialized(st) = NoRecord
<1>1. \A k \in Keys : st.fields[k].version \in Stamp \cup {NoStamp}
  BY DEF EntityState, Field
<1>2. Materialized(st) \in Record BY <1>1 DEF Materialized, Record, EntityState
<1>3. ASSUME ~st.present PROVE \A k \in Keys : k \notin Live(st)
  <2>1. About(ops, e) = {} BY <1>3 DEF IsView, EntityState
  <2>2. \A k \in Keys : st.fields[k] = NoField BY <2>1 DEF IsView, Newest
  <2> QED BY <2>2 DEF Live
<1>4. ASSUME ~(st.present /\ ~st.deleted) PROVE Materialized(st) = NoRecord
  <2>1. \A k \in Keys : ~(~st.deleted /\ k \in Live(st)) BY <1>3, <1>4
  <2> QED BY <1>4, <2>1 DEF Materialized, NoRecord
<1>5. (st.present /\ ~st.deleted) => Materialized(st).present BY DEF Materialized
<1> QED BY <1>2, <1>4, <1>5

\* What a put or a delete leaves in the store is a record or nothing.
LEMMA WrittenType ==
    ASSUME NEW r \in Record, NEW op \in Operation
    PROVE  /\ Written(r, op) \in Record
           /\ Written(r, op).present \/ Written(r, op) = NoRecord
<1>1. NoRecord \in Record BY DEF NoRecord, Record
<1>2. StampOf(op) \in Stamp BY OperationStamp
<1>3. \A k \in Keys : r.fields[k] \in Stamp \cup {NoStamp, Untracked} BY DEF Record
<1>4. CASE ~op.deleted BY <1>2, <1>3, <1>4 DEF Written, Record
<1>5. CASE op.deleted BY <1>1, <1>5 DEF Written
<1> QED BY <1>4, <1>5

\* The view of ops in which one entity is changed by one operation.
LEMMA ViewsApply ==
    ASSUME NEW ops \in SUBSET Operation, NEW op \in Operation, NEW entities \in Table,
           \A e \in Entities : IsView(entities[e], e, ops)
    PROVE  LET after == [entities EXCEPT ![op.entity] = Apply(@, op)]
           IN  /\ after \in Table
               /\ \A e \in Entities : IsView(after[e], e, ops \cup {op})
<1> DEFINE after == [entities EXCEPT ![op.entity] = Apply(@, op)]
<1>1. op.entity \in Entities BY DEF Operation
<1>2. entities[op.entity] \in EntityState BY <1>1 DEF Table
<1>3. Apply(entities[op.entity], op) \in EntityState BY <1>2, ApplyType
<1>4. after \in Table BY <1>1, <1>3 DEF Table
<1>5. ASSUME NEW e \in Entities PROVE IsView(after[e], e, ops \cup {op})
  <2>1. IsView(entities[e], e, ops) OBVIOUS
  <2>2. CASE e = op.entity
    <3>1. after[e] = Apply(entities[e], op) BY <2>2 DEF Table
    <3> QED BY <1>2, <2>1, <2>2, <3>1, ApplyView
  <2>3. CASE e # op.entity
    <3>1. after[e] = entities[e] BY <2>3 DEF Table
    <3> QED BY <2>1, <2>3, <3>1, ViewElsewhere
  <2> QED BY <2>2, <2>3
<1> QED BY <1>4, <1>5

\* Clocks of an entity table in which one entity is changed by one operation.
LEMMA ClocksApply ==
    ASSUME NEW op \in Operation, NEW entities \in Table, NEW c \in Nat, NEW d \in Nat,
           \A e \in Entities, k \in Keys : entities[e].fields[k].version.clock <= c,
           c <= d, op.clock <= d
    PROVE  LET after == [entities EXCEPT ![op.entity] = Apply(@, op)]
           IN  \A e \in Entities, k \in Keys : after[e].fields[k].version.clock <= d
<1> DEFINE after == [entities EXCEPT ![op.entity] = Apply(@, op)]
<1> SUFFICES ASSUME NEW e \in Entities, NEW k \in Keys
             PROVE  after[e].fields[k].version.clock <= d
  OBVIOUS
<1>1. entities[e] \in EntityState BY DEF Table
<1>2. \A j \in Keys : entities[e].fields[j].version.clock <= d
  <2> TAKE j \in Keys
  <2>1. entities[e].fields[j].version \in AnyStamp BY <1>1 DEF EntityState, Field, AnyStamp
  <2>2. entities[e].fields[j].version.clock \in Int BY <2>1, StampComponents
  <2> QED BY <2>2
<1>3. CASE e = op.entity
  <2>1. after[e] = Apply(entities[e], op) BY <1>3 DEF Table
  <2> QED BY <1>1, <1>2, <2>1, ApplyClock
<1>4. CASE e # op.entity
  <2>1. after[e] = entities[e] BY <1>4 DEF Table
  <2> QED BY <1>2, <2>1
<1> QED BY <1>3, <1>4

\* A put or a delete.
LEMMA WriteFields ==
    ASSUME NEW d \in Database, NEW op \in Operation
    PROVE  LET w == Write(d, op)
           IN  /\ w \in Database /\ SamePlace(d, w)
               /\ w.known = d.known \cup {op} /\ w.outbox = d.outbox \cup {op}
               /\ w.clock = op.clock
               /\ w.unpaired = IF d.paired THEN d.unpaired ELSE d.unpaired \cup {op}
               /\ w.entities = [d.entities EXCEPT ![op.entity] = Apply(@, op)]
               /\ \A e \in Entities \ {op.entity} : w.shown[e] = d.shown[e]
               /\ w.shown[op.entity] = Written(d.shown[op.entity], op)
<1> DEFINE w == Write(d, op)
           entities == [d.entities EXCEPT ![op.entity] = Apply(@, op)]
           shown == [d.shown EXCEPT ![op.entity] = Written(@, op)]
           unpaired == IF d.paired THEN d.unpaired ELSE d.unpaired \cup {op}
<1>1. /\ d.entities \in Table /\ d.shown \in [Entities -> Record]
      /\ d.known \in SUBSET Operation /\ d.outbox \in SUBSET Operation
      /\ d.unpaired \in SUBSET Operation
  BY DEF Database
<1>2. op.entity \in Entities /\ op.clock \in Nat BY DEF Operation
<1>3. d.entities[op.entity] \in EntityState BY <1>1, <1>2 DEF Table
<1>4. entities \in Table BY <1>1, <1>3, ApplyType DEF Table
<1>5. /\ shown \in [Entities -> Record]
      /\ \A e \in Entities \ {op.entity} : shown[e] = d.shown[e]
      /\ shown[op.entity] = Written(d.shown[op.entity], op)
  BY <1>1, <1>2, WrittenType
<1>6. w = [d EXCEPT !.entities = entities, !.shown = shown, !.outbox = d.outbox \cup {op},
                    !.unpaired = unpaired, !.known = d.known \cup {op}, !.clock = op.clock]
  BY DEF Write, Database
<1> HIDE DEF entities, shown
<1>7. /\ w.entities = entities /\ w.shown = shown /\ w.outbox = d.outbox \cup {op}
      /\ w.unpaired = unpaired /\ w.known = d.known \cup {op} /\ w.clock = op.clock
      /\ SamePlace(d, w)
  BY <1>6 DEF Database, SamePlace
<1>8. w \in Database
  <2>1. unpaired \in SUBSET Operation BY <1>1
  <2> HIDE DEF unpaired, w
  <2>2. d.known \cup {op} \in SUBSET Operation /\ d.outbox \cup {op} \in SUBSET Operation
    BY <1>1
  <2> QED BY <1>2, <1>4, <1>5, <1>6, <2>1, <2>2 DEF Database
<1> HIDE DEF w
<1> QED BY <1>5, <1>7, <1>8 DEF w, entities, unpaired

\* A local write keeps the database sound when its clock is not behind.
LEMMA WriteOK ==
    ASSUME NEW d, StateOK(d, d.known), NEW op \in Operation, d.clock <= op.clock
    PROVE  StateOK(Write(d, op), Write(d, op).known)
<1> DEFINE w == Write(d, op)
<1>1. d \in Database BY DEF StateOK
<1>2. d.entities \in Table /\ d.known \in SUBSET Operation /\ d.clock \in Nat
      /\ d.shown \in [Entities -> Record]
  BY <1>1 DEF Database
<1>3. op.entity \in Entities /\ op.clock \in Nat BY DEF Operation
<1>4. /\ w \in Database /\ w.known = d.known \cup {op} /\ w.clock = op.clock
      /\ w.entities = [d.entities EXCEPT ![op.entity] = Apply(@, op)]
      /\ \A e \in Entities \ {op.entity} : w.shown[e] = d.shown[e]
      /\ w.shown[op.entity] = Written(d.shown[op.entity], op)
  BY <1>1, WriteFields
<1> HIDE DEF w
<1>5. \A e \in Entities : IsView(w.entities[e], e, w.known)
  <2>1. \A e \in Entities : IsView(d.entities[e], e, d.known) BY DEF StateOK
  <2> DEFINE after == [d.entities EXCEPT ![op.entity] = Apply(@, op)]
  <2>2. \A e \in Entities : IsView(after[e], e, d.known \cup {op})
    BY <1>2, <2>1, ViewsApply
  <2> QED BY <1>4, <2>2
<1>6. \A e \in Entities, k \in Keys : w.entities[e].fields[k].version.clock <= w.clock
  BY <1>2, <1>3, <1>4, ClocksApply DEF StateOK
<1>7. \A e \in Entities : w.shown[e].present \/ w.shown[e] = NoRecord
  BY <1>2, <1>3, <1>4, WrittenType DEF StateOK
<1>8. StateOK(w, w.known) BY <1>4, <1>5, <1>6, <1>7 DEF StateOK
<1> QED BY <1>8 DEF w

\* The operations of one transaction have clocks that go up, from above the clock c.
\* None is the reading progress that the field of a device would keep as well.
LocalWrites(ops, c) ==
    \A i \in 1 .. Len(ops) :
        /\ c < ops[i].clock /\ (i > 1 => ops[i - 1].clock < ops[i].clock)
        /\ ~ops[i].progress

\* An entity shows its state, or one of ops wrote the record of a deleted entity.
Shows(e, d, ops) ==
    \/ d.shown[e] = Materialized(d.entities[e])
    \/ d.entities[e].deleted /\ \E op \in ops : op.entity = e /\ ~op.deleted

\* After a local write its entity shows what the state says, unless the operation
\* puts a record that the state says is deleted.
LEMMA WriteShows ==
    ASSUME NEW d, StateOK(d, d.known), NEW op \in Operation, d.clock < op.clock,
           ~op.progress, NEW ops, NEW e \in Entities, Shows(e, d, ops)
    PROVE  Shows(e, Write(d, op), ops \cup {op})
<1> DEFINE w == Write(d, op)
<1>1. d \in Database /\ d.clock \in Nat /\ d.entities \in Table BY DEF StateOK, Database
<1>2. op.entity \in Entities /\ op.clock \in Nat /\ op.deleted \in BOOLEAN
      /\ op.patch \subseteq Keys
  BY DEF Operation
<1>3. /\ w.entities = [d.entities EXCEPT ![op.entity] = Apply(@, op)]
      /\ \A f \in Entities \ {op.entity} : w.shown[f] = d.shown[f]
      /\ w.shown[op.entity] = Written(d.shown[op.entity], op)
  BY <1>1, WriteFields
<1> HIDE DEF w
<1>4. CASE e # op.entity
  <2>1. w.entities[e] = d.entities[e] BY <1>1, <1>3, <1>4 DEF Table
  <2> QED BY <1>3, <1>4, <2>1 DEF Shows, w
<1>5. CASE e = op.entity
  <2> DEFINE st == d.entities[e]
             a == Apply(st, op)
  <2>1. w.entities[e] = a /\ w.shown[e] = Written(d.shown[e], op)
    BY <1>1, <1>3, <1>5 DEF Table
  <2>2. st \in EntityState /\ st.deleted \in BOOLEAN BY <1>1 DEF Table, EntityState
  <2>3. a.present = TRUE /\ a.deleted = (st.deleted \/ op.deleted) BY DEF Apply
  <2>4. CASE op.deleted
    <3>1. a.deleted BY <2>3, <2>4
    <3>2. Materialized(a) = NoRecord BY <3>1 DEF Materialized, NoRecord
    <3>3. w.shown[e] = NoRecord BY <2>1, <2>4 DEF Written
    <3> QED BY <2>1, <3>2, <3>3 DEF Shows, w
  <2>5. CASE ~op.deleted /\ st.deleted
    <3>1. w.entities[e].deleted BY <2>1, <2>3, <2>5
    <3> QED BY <1>5, <2>5, <3>1 DEF Shows, w
  <2>6. CASE ~op.deleted /\ ~st.deleted
    <3>1. d.shown[e] = Materialized(st) BY <2>6 DEF Shows
    <3>2. ~a.deleted BY <2>3, <2>6
    <3>3. \A k \in Keys : a.fields[k] = IF k \in op.patch \cup op.unset THEN FieldOf(op, k)
                                        ELSE st.fields[k]
      <4> TAKE k \in Keys
      <4>1. st.fields[k].version \in AnyStamp BY <2>2 DEF EntityState, Field, AnyStamp
      <4>2. st.fields[k].version.clock \in Int BY <4>1, StampComponents
      <4>3. st.fields[k].version.clock <= d.clock BY DEF StateOK
      <4>4. st.fields[k].version.clock < StampOf(op).clock BY <1>1, <1>2, <4>2, <4>3 DEF StampOf
      <4>5. Before(st.fields[k].version, StampOf(op)) BY <4>4 DEF Before
      <4>6. Touched(op) = op.patch \cup op.unset BY DEF Touched
      <4> QED BY <4>5, <4>6 DEF Apply
    <3>4. \A k \in Keys : /\ k \in Live(a) <=> k \notin op.unset /\ (k \in op.patch \/ k \in Live(st))
                          /\ k \in op.patch => a.fields[k].version = StampOf(op)
      <4> TAKE k \in Keys
      <4>1. FieldOf(op, k) = [version |-> StampOf(op), removed |-> k \in op.unset] BY DEF FieldOf
      <4>2. StampOf(op).clock # NoStamp.clock BY <1>2 DEF StampOf, NoStamp
      <4>3. FieldOf(op, k) # NoField BY <4>1, <4>2 DEF NoField
      <4>4. FieldOf(op, k).version = StampOf(op) /\ FieldOf(op, k).removed = (k \in op.unset)
        BY <4>1
      <4>5. /\ k \in Live(a) <=> a.fields[k] # NoField /\ ~a.fields[k].removed
            /\ k \in Live(st) <=> st.fields[k] # NoField /\ ~st.fields[k].removed
        BY DEF Live
      <4> HIDE DEF a, st
      <4>6. CASE k \in op.patch \cup op.unset
        <5>1. a.fields[k] = FieldOf(op, k) BY <3>3, <4>6
        <5> QED BY <4>3, <4>4, <4>5, <4>6, <5>1
      <4>7. CASE k \notin op.patch \cup op.unset
        <5>1. a.fields[k] = st.fields[k] BY <3>3, <4>7
        <5> QED BY <4>5, <4>7, <5>1
      <4> QED BY <4>6, <4>7
    <3>5. \A k \in Keys : (IF k \in Live(a) THEN a.fields[k].version ELSE NoStamp)
                         = IF k \in op.unset THEN NoStamp
                           ELSE IF k \in op.patch THEN StampOf(op)
                           ELSE IF k \in Live(st) THEN st.fields[k].version ELSE NoStamp
      <4> HIDE DEF a, st
      <4> QED BY <3>3, <3>4
    <3>6. Written(d.shown[e], op)
          = [present |-> TRUE,
             fields  |-> [k \in Keys |-> IF k \in op.unset THEN NoStamp
                                         ELSE IF k \in op.patch THEN StampOf(op)
                                         ELSE IF k \in Live(st) THEN st.fields[k].version
                                         ELSE NoStamp]]
      <4>1. \A k \in Keys : d.shown[e].fields[k] = IF k \in Live(st) THEN st.fields[k].version
                                                  ELSE NoStamp
        BY <2>6, <3>1 DEF Materialized
      <4> HIDE DEF st
      <4> QED BY <2>6, <4>1 DEF Written
    <3>7. Materialized(a) = [present |-> TRUE,
                             fields  |-> [k \in Keys |-> IF k \in Live(a) THEN a.fields[k].version
                                                         ELSE NoStamp]]
      BY <2>3, <3>2 DEF Materialized
    <3>8. Written(d.shown[e], op) = Materialized(a) BY <3>5, <3>6, <3>7
    <3> QED BY <2>1, <3>8 DEF Shows, w
  <2> QED BY <2>2, <2>4, <2>5, <2>6, <1>2
<1> QED BY <1>4, <1>5

\* A transaction of any number of local writes.
LEMMA WriteAllOK ==
    ASSUME NEW d, DatabaseOK(d), NEW ops \in Seq(Operation), LocalWrites(ops, d.clock),
           NEW earlier
    PROVE  LET w == WriteAll(d, ops)
           IN  /\ DatabaseOK(w) /\ SamePlace(d, w)
               /\ w.known = d.known \cup Ops(ops) /\ w.outbox = d.outbox \cup Ops(ops)
               /\ \A e \in Entities :
                     \/ \E op \in Ops(ops) : op.entity = e
                     \/ w.shown[e] = d.shown[e] /\ w.entities[e] = d.entities[e]
               /\ \A e \in Entities : Shows(e, d, earlier) => Shows(e, w, earlier \cup Ops(ops))
               /\ ~d.paired => w.unpaired = d.unpaired \cup Ops(ops)
<1> DEFINE len == Len(ops)
<1>0. len \in Nat /\ d \in Database /\ d.clock \in Nat BY DEF DatabaseOK, StateOK, Database
<1>1. \A i \in 1 .. len : ops[i] \in Operation OBVIOUS
<1>2. PICK run \in [0 .. len -> Database] :
         /\ run[0] = d
         /\ \A i \in 1 .. len : run[i] = Write(run[i - 1], ops[i])
         /\ WriteAll(d, ops) = run[len]
  <2>1. ASSUME NEW x \in Database, NEW i \in 1 .. Len(ops) PROVE Write(x, ops[i]) \in Database
    <3>1. ops[i] \in Operation BY <1>1
    <3> QED BY <3>1, WriteFields
  <2> DEFINE S == Database
  <2>2. d \in S BY <1>0
  <2>3. \A x \in S, i \in 1 .. Len(ops) : Write(x, ops[i]) \in S BY <2>1
  <2> HIDE DEF S
  <2>4. \E run \in [0 .. Len(ops) -> S] :
              /\ run[0] = d
              /\ \A i \in 1 .. Len(ops) : run[i] = Write(run[i - 1], ops[i])
              /\ WriteAll(d, ops) = run[Len(ops)]
    BY <2>2, <2>3, WriteRun
  <2> QED BY <2>4 DEF S
<1> DEFINE So(i) == /\ StateOK(run[i], run[i].known) /\ SamePlace(d, run[i])
                    /\ run[i].known = d.known \cup Upto(ops, i)
                    /\ run[i].outbox = d.outbox \cup Upto(ops, i)
                    /\ run[i].clock = IF i = 0 THEN d.clock ELSE ops[i].clock
                    /\ \A e \in Entities :
                          \/ \E op \in Upto(ops, i) : op.entity = e
                          \/ run[i].shown[e] = d.shown[e] /\ run[i].entities[e] = d.entities[e]
                    /\ \A e \in Entities : Shows(e, d, earlier) =>
                                             Shows(e, run[i], earlier \cup Upto(ops, i))
                    /\ ~d.paired => run[i].unpaired = d.unpaired \cup Upto(ops, i)
           good == {i \in 0 .. len : So(i)}
<1>3. Upto(ops, 0) = {} BY UptoPart
<1>4. So(0) BY <1>2, <1>3 DEF DatabaseOK, SamePlace, Shows
<1>5. ASSUME NEW i \in 0 .. len, So(i), i < len PROVE So(i + 1)
  <2> DEFINE op == ops[i + 1]
             w == run[i + 1]
  <2>1. op \in Operation /\ op.entity \in Entities /\ w = Write(run[i], op)
    <3>1. i + 1 \in 1 .. len /\ (i + 1) - 1 = i BY <1>0, <1>5
    <3>2. op \in Operation BY <1>1, <3>1
    <3> QED BY <1>2, <3>1, <3>2 DEF Operation
  <2>2. run[i].clock < op.clock /\ ~op.progress
    <3>1. i + 1 \in 1 .. len /\ (i + 1 > 1 <=> i # 0) /\ (i + 1) - 1 = i BY <1>0, <1>5
    <3> QED BY <1>5, <3>1 DEF LocalWrites
  <2>3. Upto(ops, i + 1) = Upto(ops, i) \cup {op}
    <3>1. DOMAIN ops = 1 .. len OBVIOUS
    <3> QED BY <1>0, <1>5, <3>1 DEF Upto
  <2> HIDE DEF op, w
  <2>4. run[i] \in Database BY <1>5 DEF StateOK
  <2>5. StateOK(w, w.known)
    <3>1. run[i].clock <= op.clock BY <2>1, <2>2, <2>4 DEF Operation, Database
    <3> QED BY <1>5, <2>1, <3>1, WriteOK
  <2>6. /\ SamePlace(run[i], w) /\ w.clock = op.clock
        /\ w.known = run[i].known \cup {op} /\ w.outbox = run[i].outbox \cup {op}
        /\ w.entities = [run[i].entities EXCEPT ![op.entity] = Apply(@, op)]
        /\ \A e \in Entities \ {op.entity} : w.shown[e] = run[i].shown[e]
        /\ w.unpaired = IF run[i].paired THEN run[i].unpaired ELSE run[i].unpaired \cup {op}
    BY <2>1, <2>4, WriteFields
  <2>7. \A e \in Entities \ {op.entity} : w.entities[e] = run[i].entities[e]
    <3>1. run[i].entities \in [Entities -> EntityState] BY <2>4 DEF Database, Table
    <3> QED BY <2>6, <3>1
  <2>8. SamePlace(d, w) BY <1>5, <2>6 DEF SamePlace
  <2>9. ASSUME NEW e \in Entities, \A x \in Upto(ops, i + 1) : x.entity # e
        PROVE  w.shown[e] = d.shown[e] /\ w.entities[e] = d.entities[e]
    BY <1>5, <2>3, <2>6, <2>7, <2>9
  <2>10. w.clock = ops[i + 1].clock /\ i + 1 # 0 BY <2>6 DEF op
  <2>11. ASSUME NEW e \in Entities, Shows(e, d, earlier)
         PROVE  Shows(e, w, earlier \cup Upto(ops, i + 1))
    <3>1. Shows(e, run[i], earlier \cup Upto(ops, i)) BY <1>5, <2>11
    <3>2. Shows(e, w, (earlier \cup Upto(ops, i)) \cup {op}) BY <1>5, <2>1, <2>2, <3>1, WriteShows
    <3>3. (earlier \cup Upto(ops, i)) \cup {op} = earlier \cup Upto(ops, i + 1) BY <2>3
    <3> QED BY <3>2, <3>3
  <2>12. ~d.paired => w.unpaired = d.unpaired \cup Upto(ops, i + 1)
    BY <1>5, <2>3, <2>6 DEF SamePlace
  <2> QED BY <1>5, <2>3, <2>5, <2>6, <2>8, <2>9, <2>10, <2>11, <2>12 DEF w
<1>6. So(len)
  <2> HIDE DEF So, len
  <2>1. 0 \in good BY <1>0, <1>4
  <2>2. \A i \in 0 .. len : i \in good /\ i < len => i + 1 \in good BY <1>0, <1>5
  <2> HIDE DEF good
  <2>3. \A i \in 0 .. len : i \in good BY <1>0, <2>1, <2>2, StepByStep
  <2> QED BY <1>0, <2>3 DEF good
<1>7. Upto(ops, len) = Ops(ops) BY UptoPart
<1> HIDE DEF len
<1>8. DatabaseOK(run[len]) BY <1>6, <1>7 DEF DatabaseOK
<1>9. \A e \in Entities : Shows(e, d, earlier) => Shows(e, run[len], earlier \cup Ops(ops))
  BY <1>6, <1>7
<1>10. /\ run[len].known = d.known \cup Ops(ops) /\ run[len].outbox = d.outbox \cup Ops(ops)
       /\ SamePlace(d, run[len])
       /\ ~d.paired => run[len].unpaired = d.unpaired \cup Ops(ops)
       /\ \A e \in Entities :
             \/ \E op \in Ops(ops) : op.entity = e
             \/ run[len].shown[e] = d.shown[e] /\ run[len].entities[e] = d.entities[e]
  BY <1>6, <1>7
<1> HIDE DEF So, good
<1> QED BY <1>2, <1>8, <1>9, <1>10 DEF len

\* Receiving one operation: the record shows the state again.
LEMMA ReceiveFields ==
    ASSUME NEW d \in Database, NEW op \in Operation, NEW ops, StateOK(d, ops),
           ops \in SUBSET Operation
    PROVE  LET r == ReceiveOne(d, op)
           IN  /\ StateOK(r, ops \cup {op}) /\ d.clock <= r.clock
               /\ \A e \in Entities \ {op.entity} :
                     r.shown[e] = d.shown[e] /\ r.entities[e] = d.entities[e]
               /\ r.shown[op.entity] = Materialized(r.entities[op.entity])
<1> DEFINE r == ReceiveOne(d, op)
           e0 == op.entity
           entities == [d.entities EXCEPT ![op.entity] = Apply(@, op)]
           shown == [d.shown EXCEPT ![op.entity] = Materialized(Apply(d.entities[op.entity], op))]
           clock == Passed(d.clock, op.clock)
<1>1. d.entities \in Table /\ d.shown \in [Entities -> Record] /\ d.clock \in Nat
  BY DEF Database
<1>2. e0 \in Entities /\ op.clock \in Nat BY DEF Operation
<1>3. \A e \in Entities : IsView(d.entities[e], e, ops) BY DEF StateOK
<1>4. entities \in Table /\ \A e \in Entities : IsView(entities[e], e, ops \cup {op})
  BY <1>1, <1>3, ViewsApply
<1>5. clock \in Nat /\ d.clock <= clock /\ op.clock <= clock
  BY <1>1, <1>2 DEF Passed
<1>6. \A e \in Entities, k \in Keys : entities[e].fields[k].version.clock <= clock
  <2> HIDE DEF clock
  <2> QED BY <1>1, <1>5, ClocksApply DEF StateOK
<1>7. entities[e0] = Apply(d.entities[e0], op) /\ entities[e0] \in EntityState
  BY <1>1, <1>2, <1>4 DEF Table
<1>8. /\ Materialized(entities[e0]) \in Record
      /\ Materialized(entities[e0]).present \/ Materialized(entities[e0]) = NoRecord
  <2> HIDE DEF entities
  <2> QED BY <1>2, <1>4, <1>7, MaterializedType
<1>9. \A e \in Entities \ {e0} : entities[e] = d.entities[e] BY <1>1 DEF Table
<1> HIDE DEF entities, clock
<1>10. /\ shown \in [Entities -> Record]
       /\ \A e \in Entities : shown[e].present \/ shown[e] = NoRecord
       /\ \A e \in Entities \ {e0} : shown[e] = d.shown[e]
       /\ shown[e0] = Materialized(entities[e0])
  BY <1>1, <1>2, <1>7, <1>8 DEF StateOK
<1>11. r = [d EXCEPT !.entities = entities, !.shown = shown, !.clock = clock]
  BY DEF ReceiveOne, Database, entities, clock
<1> HIDE DEF shown
<1>12. r.entities = entities /\ r.shown = shown /\ r.clock = clock
  BY <1>11 DEF Database
<1>13. r \in Database
  <2> HIDE DEF r
  <2> QED BY <1>4, <1>5, <1>10, <1>11 DEF Database
<1> HIDE DEF r
<1>14. StateOK(r, ops \cup {op}) BY <1>4, <1>6, <1>10, <1>12, <1>13 DEF StateOK
<1> QED BY <1>5, <1>9, <1>10, <1>12, <1>14 DEF r

\* In r the database d has taken in the operations news, with the position c
\* behind them: every entity that one of them is about shows its state.
Takes(r, d, key, news, c) ==
    /\ DatabaseOK(r)
    /\ r.known = d.known \cup news
    /\ r.outbox = d.outbox /\ r.paired = d.paired /\ r.seeded = d.seeded
    /\ r.cursor = [d.cursor EXCEPT ![key] = c]
    /\ \A e \in Entities :
          \/ r.shown[e] = Materialized(r.entities[e])
          \/ /\ r.shown[e] = d.shown[e] /\ r.entities[e] = d.entities[e]
             /\ \A op \in news : op.entity # e

\* A page of any length: the database then holds the operations of the page, and
\* shows those entities again that the page is about.
LEMMA ReceivePageOK ==
    ASSUME NEW d, DatabaseOK(d), NEW page \in Page, NEW key \in Epochs
    PROVE  /\ Takes(ReceivePage(d, key, page), d, key, Ops(page.ops), page.cursor)
           /\ ReceivePage(d, key, page).download = d.download
<1> DEFINE ops == page.ops
           len == Len(ops)
           r == ReceivePage(d, key, page)
<1>0. ops \in Seq(Operation) /\ page.cursor \in Cursor BY DEF Page
<1>1. len \in Nat /\ \A i \in 1 .. len : ops[i] \in Operation BY <1>0
<1>2. d \in Database /\ d.known \in SUBSET Operation BY DEF DatabaseOK, StateOK, Database
<1> DEFINE Known(i) == d.known \cup Upto(ops, i)
           T == {x \in Database : \E more \in SUBSET Operation : StateOK(x, more)}
<1>3. PICK run \in [0 .. len -> T] : Receives(run, d, key, page)
  <2>1. ASSUME NEW x \in T, NEW op \in Operation PROVE ReceiveOne(x, op) \in T
    <3>1. PICK more \in SUBSET Operation : StateOK(x, more) BY <2>1
    <3>2. StateOK(ReceiveOne(x, op), more \cup {op}) BY <2>1, <3>1, ReceiveFields
    <3>3. ReceiveOne(x, op) \in Database BY <3>2 DEF StateOK
    <3> QED BY <3>1, <3>2, <3>3
  <2>2. d \in T BY <1>2 DEF DatabaseOK
  <2> HIDE DEF T
  <2>3. \A x \in T, i \in 1 .. Len(ops) : ReceiveOne(x, ops[i]) \in T BY <1>1, <2>1
  <2> QED BY <2>2, <2>3, ReceiveRun
<1>4. /\ run[0] = d
      /\ \A i \in 1 .. len : run[i] = ReceiveOne(run[i - 1], ops[i])
      /\ r = [d EXCEPT !.entities    = run[len].entities,
                       !.shown       = run[len].shown,
                       !.clock       = run[len].clock,
                       !.known       = @ \cup Ops(ops),
                       !.cursor[key] = page.cursor]
  BY <1>3 DEF Receives
<1> DEFINE So(i) == /\ StateOK(run[i], Known(i)) /\ d.clock <= run[i].clock
                    /\ \A e \in Entities :
                          \/ run[i].shown[e] = Materialized(run[i].entities[e])
                          \/ /\ run[i].shown[e] = d.shown[e] /\ run[i].entities[e] = d.entities[e]
                             /\ \A op \in Upto(ops, i) : op.entity # e
           good == {i \in 0 .. len : So(i)}
<1>5. So(0)
  <2>1. Upto(ops, 0) = {} BY <1>0, UptoPart
  <2>2. d.clock <= d.clock BY <1>2 DEF Database
  <2> QED BY <1>4, <2>1, <2>2 DEF DatabaseOK
<1>6. ASSUME NEW i \in 0 .. len, So(i), i < len PROVE So(i + 1)
  <2> DEFINE op == ops[i + 1]
             x == run[i + 1]
  <2>1. i + 1 \in 1 .. len /\ (i + 1) - 1 = i BY <1>1, <1>6
  <2>2. op \in Operation /\ x = ReceiveOne(run[i], op) BY <1>1, <1>4, <2>1
  <2>3. Upto(ops, i + 1) = Upto(ops, i) \cup {op}
    <3>1. DOMAIN ops = 1 .. len BY <1>0
    <3> QED BY <1>1, <1>6, <2>1, <3>1 DEF Upto
  <2>4. run[i] \in Database BY <1>6 DEF StateOK
  <2>5. Known(i) \in SUBSET Operation BY <1>0, <1>1, <1>2, <1>6, UptoPart
  <2> HIDE DEF op, x, Known
  <2>6. /\ StateOK(x, Known(i) \cup {op}) /\ run[i].clock <= x.clock
        /\ \A e \in Entities \ {op.entity} :
              x.shown[e] = run[i].shown[e] /\ x.entities[e] = run[i].entities[e]
        /\ x.shown[op.entity] = Materialized(x.entities[op.entity])
    BY <1>6, <2>2, <2>4, <2>5, ReceiveFields
  <2>7. Known(i + 1) = Known(i) \cup {op} BY <2>3 DEF Known
  <2>8. d.clock <= x.clock
    <3>1. x.clock \in Nat /\ run[i].clock \in Nat /\ d.clock \in Nat
      BY <1>2, <2>4, <2>6 DEF StateOK, Database
    <3> QED BY <1>6, <2>6, <3>1
  <2>9. ASSUME NEW e \in Entities, x.shown[e] # Materialized(x.entities[e])
        PROVE  /\ x.shown[e] = d.shown[e] /\ x.entities[e] = d.entities[e]
               /\ \A o \in Upto(ops, i + 1) : o.entity # e
    <3>1. e # op.entity BY <2>6, <2>9
    <3>2. x.shown[e] = run[i].shown[e] /\ x.entities[e] = run[i].entities[e] BY <2>6, <3>1
    <3>3. /\ run[i].shown[e] = d.shown[e] /\ run[i].entities[e] = d.entities[e]
          /\ \A o \in Upto(ops, i) : o.entity # e
      BY <1>6, <2>9, <3>2
    <3> QED BY <2>3, <3>1, <3>2, <3>3
  <2> QED BY <2>6, <2>7, <2>8, <2>9 DEF x
<1>7. So(len)
  <2> HIDE DEF So, len
  <2>1. 0 \in good BY <1>1, <1>5
  <2>2. \A i \in 0 .. len : i \in good /\ i < len => i + 1 \in good BY <1>1, <1>6
  <2> HIDE DEF good
  <2>3. \A i \in 0 .. len : i \in good BY <1>1, <2>1, <2>2, StepByStep
  <2> QED BY <1>1, <2>3 DEF good
<1> DEFINE z == run[len]
<1>8. Upto(ops, len) = Ops(ops) BY <1>0, UptoPart
<1> HIDE DEF len
<1>9. /\ StateOK(z, d.known \cup Ops(ops))
      /\ \A e \in Entities :
            \/ z.shown[e] = Materialized(z.entities[e])
            \/ /\ z.shown[e] = d.shown[e] /\ z.entities[e] = d.entities[e]
               /\ \A op \in Ops(ops) : op.entity # e
  BY <1>7, <1>8
<1> HIDE DEF z
<1>10. r = [d EXCEPT !.entities = z.entities, !.shown = z.shown, !.clock = z.clock,
                    !.known = @ \cup Ops(ops), !.cursor[key] = page.cursor]
  BY <1>4 DEF z
<1> HIDE DEF r
<1>11. /\ r.entities = z.entities /\ r.shown = z.shown /\ r.clock = z.clock
       /\ r.known = d.known \cup Ops(ops) /\ r.outbox = d.outbox
       /\ r.paired = d.paired /\ r.seeded = d.seeded /\ r.download = d.download
       /\ r.cursor = [d.cursor EXCEPT ![key] = page.cursor]
  BY <1>2, <1>10 DEF Database
<1>12. r \in Database
  <2>1. z.entities \in Table /\ z.shown \in [Entities -> Record] /\ z.clock \in Nat
    BY <1>9 DEF StateOK, Database
  <2>2. d.known \cup Ops(ops) \in SUBSET Operation BY <1>0, <1>2, UptoPart
  <2>3. [d.cursor EXCEPT ![key] = page.cursor] \in [Epochs -> Cursor \cup {NoCursor}]
    BY <1>0, <1>2 DEF Database
  <2> QED BY <1>2, <1>10, <2>1, <2>2, <2>3 DEF Database
<1>13. DatabaseOK(r) BY <1>9, <1>11, <1>12 DEF DatabaseOK, StateOK
<1> QED BY <1>9, <1>11, <1>13 DEF Takes, r

-----------------------------------------------------------------------------
(* Snapshots.                                                              *)

\* Among finitely many numbers one is the greatest.
LEMMA GreatestOfMany ==
    ASSUME NEW n \in Nat, n > 0, NEW f \in [1 .. n -> Int]
    PROVE  \E i \in 1 .. n : \A j \in 1 .. n : f[j] <= f[i]
<1> DEFINE good == {m \in 0 .. n : m > 0 => \E i \in 1 .. m : \A j \in 1 .. m : f[j] <= f[i]}
<1>1. 0 \in good OBVIOUS
<1>2. ASSUME NEW m \in 0 .. n, m \in good, m < n PROVE m + 1 \in good
  <2>1. CASE m = 0
    <3>1. 1 .. (m + 1) = {1} /\ f[1] \in Int BY <2>1
    <3>2. 1 \in 1 .. (m + 1) /\ \A j \in 1 .. (m + 1) : f[j] <= f[1] BY <3>1
    <3> QED BY <1>2, <3>2
  <2>2. CASE m > 0
    <3>1. PICK i \in 1 .. m : \A j \in 1 .. m : f[j] <= f[i] BY <1>2, <2>2
    <3>2. f[i] \in Int /\ f[m + 1] \in Int BY <1>2
    <3>3. CASE f[m + 1] <= f[i]
      <4>1. \A j \in 1 .. (m + 1) : f[j] <= f[i] BY <3>1, <3>3
      <4> QED BY <1>2, <3>1, <4>1
    <3>4. CASE f[i] <= f[m + 1]
      <4>1. \A j \in 1 .. m : f[j] <= f[m + 1]
        <5>1. \A j \in 1 .. m : f[j] \in Int BY <1>2
        <5> QED BY <3>1, <3>2, <3>4, <5>1
      <4>2. f[m + 1] <= f[m + 1] BY <3>2
      <4>3. \A j \in 1 .. (m + 1) : f[j] <= f[m + 1] BY <4>1, <4>2
      <4>4. m + 1 \in 1 .. (m + 1) BY <1>2
      <4> QED BY <1>2, <4>3, <4>4
    <3> QED BY <3>2, <3>3, <3>4
  <2> QED BY <2>1, <2>2
<1> HIDE DEF good
<1>3. \A i \in 0 .. n : i \in good /\ i < n => i + 1 \in good BY <1>2
<1>4. \A i \in 0 .. n : i \in good BY <1>1, <1>3, StepByStep
<1>5. n \in good BY <1>4
<1> QED BY <1>5 DEF good

\* The same of a function on a finite set.
LEMMA GreatestValue ==
    ASSUME NEW S, IsFiniteSet(S), S # {}, NEW f \in [S -> Int]
    PROVE  \E x \in S : \A y \in S : f[y] <= f[x]
<1>1. PICK n \in Nat : ExistsSurjection(1 .. n, S) BY FS_NatSurjection
<1>2. PICK g \in [1 .. n -> S] : \A y \in S : \E j \in 1 .. n : g[j] = y
  BY <1>1 DEF ExistsSurjection, Surjection
<1> DEFINE h == [i \in 1 .. n |-> f[g[i]]]
<1>3. n > 0 /\ h \in [1 .. n -> Int] BY <1>2
<1>4. \A i \in 1 .. n : h[i] = f[g[i]] OBVIOUS
<1> HIDE DEF h
<1>5. PICK i \in 1 .. n : \A j \in 1 .. n : h[j] <= h[i] BY <1>3, GreatestOfMany
<1>6. \A y \in S : f[y] <= f[g[i]] BY <1>2, <1>4, <1>5
<1> QED BY <1>2, <1>6

\* The clock of a database after a snapshot is past every clock merged, because
\* there are finitely many of them.
LEMMA PassesOK ==
    ASSUME NEW d \in Database, NEW s \in Snapshot
    PROVE  /\ Passes(d.clock, MergedClocks(d, s)) \in Nat
           /\ d.clock <= Passes(d.clock, MergedClocks(d, s))
           /\ \A e \in Present(s), k \in Keys :
                 Merge(d.entities[e], s.entities[e]).fields[k].version.clock
                    <= Passes(d.clock, MergedClocks(d, s))
<1> DEFINE M(e) == Merge(d.entities[e], s.entities[e])
           C == MergedClocks(d, s)
           S == Present(s) \X Keys
           f == [x \in S |-> M(x[1]).fields[x[2]].version.clock]
<1>1. d.clock \in Nat /\ d.entities \in Table /\ s.entities \in Table
  BY DEF Database, Snapshot
<1>2. \A e \in Present(s) : M(e) \in EntityState
  BY <1>1, MergeType DEF Table, Present
<1>3. ASSUME NEW e \in Present(s), NEW k \in Keys
      PROVE  M(e).fields[k].version.clock \in Int
  <2> HIDE DEF M
  <2>1. M(e).fields[k].version \in AnyStamp BY <1>2 DEF EntityState, Field, AnyStamp
  <2> QED BY <2>1, StampComponents
<1>4. \A c : c \in C <=> \E e \in Present(s), k \in Keys : c = M(e).fields[k].version.clock
  BY DEF MergedClocks, FieldClocks
<1> HIDE DEF M
<1>5. f \in [S -> Int] BY <1>3
<1>6. \A c : c \in C <=> \E x \in S : c = f[x]
  <2>1. \A e \in Present(s), k \in Keys : <<e, k>> \in S /\ f[<<e, k>>] = M(e).fields[k].version.clock
    OBVIOUS
  <2>2. \A x \in S : /\ x[1] \in Present(s) /\ x[2] \in Keys
                     /\ f[x] = M(x[1]).fields[x[2]].version.clock
    OBVIOUS
  <2> HIDE DEF f, S, C
  <2> TAKE c
  <2>3. ASSUME c \in C PROVE \E x \in S : c = f[x]
    <3>1. PICK e \in Present(s), k \in Keys : c = M(e).fields[k].version.clock BY <1>4, <2>3
    <3> QED BY <2>1, <3>1
  <2>4. ASSUME NEW x \in S, c = f[x] PROVE c \in C BY <1>4, <2>2, <2>4
  <2> QED BY <2>3, <2>4
<1>7. IsFiniteSet(S)
  <2>1. IsFiniteSet(Present(s)) BY ServerAssumption, FS_Subset DEF ServerAssumption, Present
  <2> QED BY <2>1, BrowserAssumption, FS_Product DEF BrowserAssumption
<1>8. \A c \in C : c \in Int BY <1>5, <1>6
<1> HIDE DEF f, S, C
<1>9. CASE \A c \in C : c < d.clock
  <2>1. Passes(d.clock, C) = d.clock BY <1>9 DEF Passes
  <2>2. \A c \in C : c <= d.clock BY <1>1, <1>8, <1>9
  <2> QED BY <1>1, <1>4, <2>1, <2>2 DEF C, M
<1>10. CASE ~\A c \in C : c < d.clock
  <2> DEFINE top == CHOOSE c \in C : \A b \in C : b <= c
  <2>1. S # {} BY <1>6, <1>10
  <2>2. PICK x \in S : \A y \in S : f[y] <= f[x] BY <1>5, <1>7, <2>1, GreatestValue
  <2>3. f[x] \in C /\ \A b \in C : b <= f[x] BY <1>6, <2>2
  <2>4. top \in C /\ \A b \in C : b <= top BY <2>3
  <2>5. Passes(d.clock, C) = 1 + top BY <1>10 DEF Passes
  <2> HIDE DEF top
  <2>6. top \in Int /\ top >= d.clock BY <1>1, <1>8, <1>10, <2>4
  <2>7. 1 + top \in Nat /\ d.clock <= 1 + top /\ \A b \in C : b <= 1 + top
    BY <1>1, <1>8, <2>4, <2>6
  <2> QED BY <1>4, <2>5, <2>7 DEF C, M
<1> QED BY <1>9, <1>10

\* finishSnapshot: every entity of the snapshot is merged and shown, the others
\* stay, and the database then holds the operations the snapshot stands for.
LEMMA FinishedOK ==
    ASSUME NEW d, DatabaseOK(d), NEW key \in Epochs, d.download[key] # NoDownload,
           NEW n, NEW sent, Whole(n, d.download[key].snapshot, sent)
    PROVE  LET s == d.download[key].snapshot
           IN  /\ Takes(Finished(d, key), d, key, s.known, [epoch |-> s.epoch, seq |-> s.seq])
               /\ Finished(d, key).download = [d.download EXCEPT ![key] = NoDownload]
<1> DEFINE s == d.download[key].snapshot
           r == Finished(d, key)
           known == d.known \cup s.known
           M(e) == Merge(d.entities[e], s.entities[e])
           merged == [e \in Entities |-> IF e \in Present(s) THEN M(e) ELSE d.entities[e]]
           shown == [e \in Entities |-> IF e \in Present(s) THEN Materialized(merged[e])
                                        ELSE d.shown[e]]
           clock == Passes(d.clock, MergedClocks(d, s))
           place == [epoch |-> s.epoch, seq |-> s.seq]
<1>1. /\ d \in Database /\ StateOK(d, d.known) /\ d.outbox \subseteq d.known
  BY DEF DatabaseOK, StateOK
<1>2. /\ d.entities \in Table /\ d.shown \in [Entities -> Record] /\ d.clock \in Nat
      /\ d.known \in SUBSET Operation
  BY <1>1 DEF Database
<1>3. s \in Snapshot BY <1>1 DEF Database, Download
<1>4. /\ s.entities \in Table /\ s.known \in SUBSET Operation /\ place \in Cursor
  BY <1>3 DEF Snapshot, Cursor
<1>5. \A e \in Entities : IsView(s.entities[e], e, s.known) BY DEF Whole
<1>6. /\ clock \in Nat /\ d.clock <= clock
      /\ \A e \in Present(s), k \in Keys : M(e).fields[k].version.clock <= clock
  BY <1>1, <1>3, PassesOK
<1>7. r = [d EXCEPT !.entities = merged, !.shown = shown, !.clock = clock, !.known = known,
                    !.cursor[key] = place, !.download[key] = NoDownload]
  BY <1>1 DEF Finished, Database
<1> HIDE DEF clock, place, s
<1>8. \A e \in Present(s) : merged[e] = M(e) /\ shown[e] = Materialized(merged[e])
  BY DEF Present
<1>9. \A e \in Entities \ Present(s) : merged[e] = d.entities[e] /\ shown[e] = d.shown[e]
  OBVIOUS
<1>10. ASSUME NEW e \in Entities
       PROVE  /\ merged[e] \in EntityState /\ IsView(merged[e], e, known)
              /\ \A k \in Keys : merged[e].fields[k].version.clock <= clock
              /\ shown[e] \in Record /\ (shown[e].present \/ shown[e] = NoRecord)
              /\ \/ shown[e] = Materialized(merged[e])
                 \/ /\ shown[e] = d.shown[e] /\ merged[e] = d.entities[e]
                    /\ \A op \in s.known : op.entity # e
  <2>1. d.entities[e] \in EntityState /\ s.entities[e] \in EntityState
    BY <1>2, <1>4 DEF Table
  <2>2. IsView(d.entities[e], e, d.known) BY <1>1 DEF StateOK
  <2>3. CASE e \in Present(s)
    <3>1. M(e) \in EntityState BY <2>1, MergeType
    <3>2. IsView(M(e), e, known) BY <1>2, <1>4, <1>5, <2>1, <2>2, MergeView
    <3> HIDE DEF M, known, merged, shown
    <3>3. Materialized(M(e)) \in Record
          /\ (Materialized(M(e)).present \/ Materialized(M(e)) = NoRecord)
      BY <3>1, <3>2, MaterializedType
    <3> QED BY <1>6, <1>8, <2>3, <3>1, <3>2, <3>3
  <2>4. CASE e \notin Present(s)
    <3>1. About(s.known, e) = {} BY <1>5, <2>4 DEF IsView, Present
    <3>2. \A op \in s.known : op.entity # e BY <3>1 DEF About
    <3>3. IsView(d.entities[e], e, known) BY <2>2, <3>2, ViewElsewhere
    <3> HIDE DEF M, known, merged, shown
    <3>4. merged[e] = d.entities[e] /\ shown[e] = d.shown[e] BY <1>9, <2>4
    <3>5. ASSUME NEW k \in Keys PROVE d.entities[e].fields[k].version.clock <= clock
      <4>1. d.entities[e].fields[k].version.clock <= d.clock BY <1>1 DEF StateOK
      <4>2. d.entities[e].fields[k].version \in AnyStamp
        BY <2>1 DEF EntityState, Field, AnyStamp
      <4>3. d.entities[e].fields[k].version.clock \in Int BY <4>2, StampComponents
      <4> QED BY <1>2, <1>6, <4>1, <4>3
    <3>6. d.shown[e] \in Record /\ (d.shown[e].present \/ d.shown[e] = NoRecord)
      BY <1>1, <1>2 DEF StateOK
    <3> QED BY <2>1, <3>2, <3>3, <3>4, <3>5, <3>6
  <2> QED BY <2>3, <2>4
<1>11. merged \in Table /\ shown \in [Entities -> Record]
  <2>1. /\ merged = [e \in Entities |-> merged[e]] /\ shown = [e \in Entities |-> shown[e]]
    OBVIOUS
  <2> HIDE DEF merged, shown
  <2> QED BY <1>10, <2>1 DEF Table
<1>12. known \in SUBSET Operation BY <1>2, <1>4
<1> HIDE DEF merged, shown, known, r
<1>13. /\ r.entities = merged /\ r.shown = shown /\ r.clock = clock /\ r.known = known
       /\ r.outbox = d.outbox /\ r.paired = d.paired /\ r.seeded = d.seeded
       /\ r.download = [d.download EXCEPT ![key] = NoDownload]
       /\ r.cursor = [d.cursor EXCEPT ![key] = place]
  BY <1>1, <1>7 DEF Database
<1>14. r \in Database
  <2>1. /\ [d.download EXCEPT ![key] = NoDownload] \in [Epochs -> Download \cup {NoDownload}]
        /\ [d.cursor EXCEPT ![key] = place] \in [Epochs -> Cursor \cup {NoCursor}]
    BY <1>1, <1>4 DEF Database
  <2> QED BY <1>1, <1>6, <1>7, <1>11, <1>12, <2>1 DEF Database
<1>15. DatabaseOK(r)
  <2>1. r.outbox \subseteq r.known BY <1>1, <1>13 DEF known
  <2> QED BY <1>10, <1>13, <1>14, <2>1 DEF DatabaseOK, StateOK
<1> QED BY <1>10, <1>13, <1>15 DEF Takes, r, s, known, place

-----------------------------------------------------------------------------
(* The bookkeeping of an exchange, which no record is part of.             *)

\* The records, the states, the outbox and what is known are the same.
SameData(d, x) ==
    /\ x.entities = d.entities /\ x.shown = d.shown /\ x.known = d.known
    /\ x.outbox = d.outbox /\ x.clock = d.clock
    /\ x.paired = d.paired /\ x.seeded = d.seeded

\* Such a database is as sound as it was.
LEMMA SameDataOK ==
    ASSUME NEW d, DatabaseOK(d), NEW x \in Database, SameData(d, x)
    PROVE  DatabaseOK(x)
BY DEF DatabaseOK, StateOK, SameData

\* A download is begun, staged or abandoned.
LEMMA DownloadSet ==
    ASSUME NEW d, DatabaseOK(d), NEW key \in Epochs, NEW w \in Download \cup {NoDownload}
    PROVE  LET x == [d EXCEPT !.download[key] = w]
           IN  /\ DatabaseOK(x) /\ SameData(d, x) /\ x.cursor = d.cursor
               /\ x.download = [d.download EXCEPT ![key] = w]
<1> DEFINE x == [d EXCEPT !.download[key] = w]
           download == [d.download EXCEPT ![key] = w]
<1>1. d \in Database BY DEF DatabaseOK, StateOK
<1>2. download \in [Epochs -> Download \cup {NoDownload}] BY <1>1 DEF Database
<1>3. x = [d EXCEPT !.download = download] BY <1>1 DEF Database
<1> HIDE DEF x, download
<1>4. x \in Database /\ x.download = download /\ x.cursor = d.cursor /\ SameData(d, x)
  BY <1>1, <1>2, <1>3 DEF Database, SameData
<1> QED BY <1>4, SameDataOK DEF x, download

\* A position is forgotten together with the download.
LEMMA CursorForgotten ==
    ASSUME NEW d, DatabaseOK(d), NEW key \in Epochs
    PROVE  LET x == [Abandoned(d, key) EXCEPT !.cursor[key] = NoCursor]
           IN  /\ DatabaseOK(x) /\ SameData(d, x)
               /\ x.cursor = [d.cursor EXCEPT ![key] = NoCursor]
               /\ x.download = [d.download EXCEPT ![key] = NoDownload]
<1> DEFINE a == Abandoned(d, key)
           x == [a EXCEPT !.cursor[key] = NoCursor]
           cursor == [a.cursor EXCEPT ![key] = NoCursor]
<1>1. /\ DatabaseOK(a) /\ SameData(d, a) /\ a.cursor = d.cursor
      /\ a.download = [d.download EXCEPT ![key] = NoDownload]
  BY DownloadSet DEF Abandoned
<1> HIDE DEF a
<1>2. a \in Database BY <1>1 DEF DatabaseOK, StateOK
<1>3. cursor \in [Epochs -> Cursor \cup {NoCursor}] BY <1>2 DEF Database
<1>4. x = [a EXCEPT !.cursor = cursor] BY <1>2 DEF Database
<1> HIDE DEF x, cursor
<1>5. x \in Database /\ x.cursor = cursor /\ x.download = a.download /\ SameData(a, x)
  BY <1>2, <1>3, <1>4 DEF Database, SameData
<1>6. DatabaseOK(x) BY <1>1, <1>5, SameDataOK
<1>7. SameData(d, x) BY <1>1, <1>5 DEF SameData
<1> QED BY <1>1, <1>5, <1>6, <1>7 DEF x, cursor, a

\* Acknowledged operations leave the outbox.
LEMMA OutboxShrinks ==
    ASSUME NEW d, DatabaseOK(d), NEW gone
    PROVE  LET x == [d EXCEPT !.outbox = @ \ gone]
           IN  /\ DatabaseOK(x) /\ SamePlace(d, x) /\ x.outbox = d.outbox \ gone
               /\ x.known = d.known /\ x.entities = d.entities /\ x.shown = d.shown
<1> DEFINE x == [d EXCEPT !.outbox = @ \ gone]
<1>1. d \in Database BY DEF DatabaseOK, StateOK
<1>2. /\ x \in Database /\ x.outbox = d.outbox \ gone /\ x.known = d.known
      /\ x.entities = d.entities /\ x.shown = d.shown /\ x.clock = d.clock /\ SamePlace(d, x)
  BY <1>1 DEF Database, SamePlace
<1> HIDE DEF x
<1>3. DatabaseOK(x) BY <1>2 DEF DatabaseOK, StateOK
<1> QED BY <1>2, <1>3 DEF x

-----------------------------------------------------------------------------
(* Smaller facts.                                                          *)

\* Which snapshots are there has no part in what the log and the tables say.
LEMMA LostSet ==
    ASSUME NEW n, NodeOK(n), NEW lost \in SUBSET Snapshot
    PROVE  LET m == [n EXCEPT !.lost = lost]
           IN  NodeOK(m) /\ Grown(n, m) /\ m.log = n.log
<1> DEFINE m == [n EXCEPT !.lost = lost]
<1>1. n \in Node /\ n.log \in Seq(Operation) BY DEF NodeOK, Node
<1>2. m \in Node /\ m.epoch = n.epoch /\ m.log = n.log /\ m.tables = n.tables
  BY <1>1 DEF Node
<1> HIDE DEF m
<1>3. Begins(n.log, m.log) BY <1>1, <1>2 DEF Begins
<1> QED BY <1>2, <1>3 DEF NodeOK, Grown, m

\* A transaction of one write.
LEMMA WriteAllOne ==
    ASSUME NEW d \in Database, NEW op \in Operation
    PROVE  WriteAll(d, <<op>>) = Write(d, op)
<1> DEFINE ops == <<op>>
<1>1. ops \in Seq(Operation) /\ Len(ops) = 1 /\ ops[1] = op OBVIOUS
<1> HIDE DEF ops
<1>2. \A x \in Database, i \in 1 .. Len(ops) : Write(x, ops[i]) \in Database
  <2>1. \A x \in Database, o \in Operation : Write(x, o) \in Database BY WriteFields
  <2>2. \A i \in 1 .. Len(ops) : ops[i] \in Operation BY <1>1
  <2> QED BY <2>1, <2>2
<1>3. PICK run \in [0 .. Len(ops) -> Database] :
         /\ run[0] = d
         /\ \A i \in 1 .. Len(ops) : run[i] = Write(run[i - 1], ops[i])
         /\ WriteAll(d, ops) = run[Len(ops)]
  <2> DEFINE S == Database
  <2>1. d \in S /\ \A x \in S, i \in 1 .. Len(ops) : Write(x, ops[i]) \in S BY <1>2
  <2> HIDE DEF S
  <2>2. \E run \in [0 .. Len(ops) -> S] :
           /\ run[0] = d
           /\ \A i \in 1 .. Len(ops) : run[i] = Write(run[i - 1], ops[i])
           /\ WriteAll(d, ops) = run[Len(ops)]
    BY <1>1, <2>1, WriteRun
  <2> QED BY <2>2 DEF S
<1>4. 1 \in 1 .. Len(ops) /\ 1 - 1 = 0 BY <1>1
<1>5. run[1] = Write(run[0], op) BY <1>1, <1>3, <1>4
<1> QED BY <1>1, <1>3, <1>5 DEF ops

\* An operation writes every field it touches that is older.
LEMMA WriteWins ==
    ASSUME NEW d, StateOK(d, d.known), NEW op \in Operation, d.clock < op.clock,
           NEW k \in op.patch \cup op.unset
    PROVE  Write(d, op).entities[op.entity].fields[k] = FieldOf(op, k)
<1>1. d \in Database /\ d.clock \in Nat /\ d.entities \in Table BY DEF StateOK, Database
<1>2. k \in Keys /\ op.entity \in Entities /\ op.clock \in Nat /\ k \in Touched(op)
  BY DEF Operation, Touched
<1>3. Write(d, op).entities[op.entity] = Apply(d.entities[op.entity], op)
  <2>1. Write(d, op).entities = [d.entities EXCEPT ![op.entity] = Apply(@, op)]
    BY <1>1, WriteFields
  <2> QED BY <1>1, <1>2, <2>1 DEF Table
<1>4. d.entities[op.entity].fields[k].version.clock <= d.clock BY <1>2 DEF StateOK
<1>5. d.entities[op.entity].fields[k].version \in AnyStamp
  BY <1>1, <1>2 DEF Table, EntityState, Field, AnyStamp
<1>6. d.entities[op.entity].fields[k].version.clock \in Int BY <1>5, StampComponents
<1>7. d.entities[op.entity].fields[k].version.clock < StampOf(op).clock
  BY <1>1, <1>2, <1>4, <1>6 DEF StampOf
<1>8. Before(d.entities[op.entity].fields[k].version, StampOf(op)) BY <1>7 DEF Before
<1> QED BY <1>2, <1>3, <1>8 DEF Apply
=============================================================================
