--------------------------- MODULE BrowserSync_proofs ---------------------------
(***************************************************************************)
(* The exchange of a browser with its node is safe for any number of tabs, *)
(* operations, entities and fields, for every limit of a page, and however *)
(* often requests fail, snapshots expire and backups are restored.         *)
(***************************************************************************)
EXTENDS BrowserSync, BrowserStore_proofs

-----------------------------------------------------------------------------
(* The inductive invariant.                                                *)

\* What ever reached the node: its log, and what a restored backup lost.
Sent(n, gone) == Ops(n.log) \cup gone

\* A tab in an exchange has capabilities, and the answer it waited for.  What it
\* holds came from the node, and what it is going to send is known.
TabOK(x, known, n, gone) ==
    /\ x \in Tab
    /\ x.at # "idle" => x.epoch # 0
    /\ x.at = "begin" => x.snapshot # NoSnapshot
    /\ x.at = "receive" => x.page # NoPage
    /\ Whole(n, x.snapshot, Sent(n, gone))
    /\ Ops(x.page.ops) \subseteq Sent(n, gone)
    /\ Covered(n, x.page.cursor, known \cup Ops(x.page.ops))
    /\ x.batch \subseteq known
    /\ x.sending \subseteq Sent(n, gone)

\* The database and the node are sound, downloads are whole, cursors have passed
\* nothing unknown, and an operation of this browser is known if it reached the
\* node, and in the outbox if it did not.
ExchangeOK(d, n, gone) ==
    /\ DatabaseOK(d) /\ NodeOK(n) /\ gone \in SUBSET Operation
    /\ \A k \in Epochs : Whole(n, d.download[k].snapshot, Sent(n, gone))
    /\ \A k \in Epochs : Covered(n, d.cursor[k], d.known)
    /\ \A op \in Sent(n, gone) : op.replicaId = Device => op \in d.known
    /\ \A op \in d.known : op.replicaId = Device => op \in d.outbox \cup Sent(n, gone)

\* The operation is lost, or it has still to come in a page: no cursor has passed
\* it, and a page that ends behind it has it.
Unseen(op, d, n, tabs, gone) ==
    \/ op \in gone
    \/ /\ \A k \in Epochs :
             d.cursor[k].epoch = n.epoch => op \notin Upto(n.log, d.cursor[k].seq)
       /\ \A t \in Tabs :
             tabs[t].page.cursor.epoch = n.epoch /\ op \in Upto(n.log, tabs[t].page.cursor.seq)
                => op \in Ops(tabs[t].page.ops)

\* The edits of this browser that have still to come.
Waiting(d, n, tabs, gone) ==
    {op \in d.known : op.replicaId = Device /\ Unseen(op, d, n, tabs, gone)}

\* A record of a paired browser shows its state, unless it is deleted and was put
\* by an edit that has still to come.
ShownOK(e, d, n, tabs, gone) ==
    \/ ~d.paired
    \/ Shows(e, d, Waiting(d, n, tabs, gone))

\* The operations of this browser have the ids of its transactions.
OwnIds(d, c) == \A op \in d.known : op.replicaId = Device => op.operationId <= c.edits

Counts(s) == [edits : 0 .. s.edits, others : 0 .. s.others, faults : 0 .. s.faults]

Invariant(d, n, tabs, s, gone, c) ==
    /\ s \in Settings
    /\ c \in Counts(s)
    /\ tabs \in [Tabs -> Tab]
    /\ \A t \in Tabs : TabOK(tabs[t], d.known, n, gone)
    /\ ExchangeOK(d, n, gone)
    /\ \A e \in Entities : ShownOK(e, d, n, tabs, gone)
    /\ OwnIds(d, c)

IInv == Invariant(db, node, tab, setting, discarded, counts)

\* Before it is paired a browser has exchanged nothing: all it knows is what it
\* wrote, and that keeps it from being paired.
Early(d, tabs) ==
    /\ d.seeded = d.paired
    /\ ~d.paired => /\ d.known \subseteq d.outbox \cap d.unpaired
                    /\ \A t \in Tabs : tabs[t].at \in {"idle", "initialize"}

\* The invariant says all that is claimed of a state.
LEMMA InvariantImplies ==
    ASSUME IInv
    PROVE  TypeOK /\ Kept /\ CursorCovered /\ Views /\ Projected
<1> USE DEF IInv, Invariant
<1>1. TypeOK BY DEF TypeOK, ExchangeOK, DatabaseOK, StateOK, NodeOK, Counts
<1>2. Kept BY DEF Kept, Own, ExchangeOK, Sent
<1>3. CursorCovered BY DEF CursorCovered, ExchangeOK, Covered
<1>4. Views BY DEF Views, ExchangeOK, DatabaseOK, StateOK
<1>5. Projected
  <2> SUFFICES ASSUME db.paired, NEW e \in Entities,
                      db.shown[e] # Materialized(db.entities[e])
               PROVE  /\ db.entities[e].deleted
                      /\ \E op \in About(Own, e) :
                            /\ ~op.deleted
                            /\ \/ op \in discarded
                               \/ \A key \in Epochs : db.cursor[key].epoch = node.epoch =>
                                     op \notin Upto(node.log, db.cursor[key].seq)
    BY DEF Projected
  <2>1. /\ db.entities[e].deleted
        /\ \E op \in Waiting(db, node, tab, discarded) : op.entity = e /\ ~op.deleted
    BY DEF ShownOK, Shows
  <2>2. PICK op \in db.known : /\ op.replicaId = Device /\ op.entity = e /\ ~op.deleted
                               /\ Unseen(op, db, node, tab, discarded)
    BY <2>1 DEF Waiting
  <2>3. op \in About(Own, e) BY <2>2 DEF About, Own
  <2> QED BY <2>1, <2>2, <2>3 DEF Unseen
<1> QED BY <1>1, <1>2, <1>3, <1>4, <1>5

-----------------------------------------------------------------------------
(* Positions.                                                              *)

\* Cursors, pages and snapshots are positions.
LEMMA Positions ==
    /\ \A c \in Cursor \cup {NoCursor} : Place(c)
    /\ \A p \in Page \cup {NoPage} : Place(p.cursor)
    /\ \A s \in Snapshot \cup {NoSnapshot} : Place(s)
<1>1. \A k \in Epochs : k \in Nat BY DEF Epochs
<1> QED BY <1>1 DEF Cursor, NoCursor, Page, NoPage, Snapshot, NoSnapshot, Place

\* The positions that a database and a tab hold.
LEMMA Held ==
    /\ \A d \in Database, k \in Epochs :
          /\ d.cursor[k] \in Cursor \cup {NoCursor}
          /\ d.download[k].snapshot \in Snapshot \cup {NoSnapshot}
    /\ \A x \in Tab : /\ x.page \in Page \cup {NoPage}
                      /\ x.snapshot \in Snapshot \cup {NoSnapshot}
                      /\ x.copy.snapshot \in Snapshot \cup {NoSnapshot}
BY DEF Database, Download, NoDownload, Tab

\* A snapshot stays whole while the log grows, and after a restore.
LEMMA WholeGrown ==
    ASSUME NEW n \in Node, NEW m \in Node, Grown(n, m), NEW s, Place(s),
           NEW sent, NEW more, Whole(n, s, sent), sent \subseteq more
    PROVE  Whole(m, s, more)
BY CoveredGrown DEF Whole

LEMMA WholeRestored ==
    ASSUME NEW n \in Node, NEW m, m.epoch = n.epoch + 1, NEW s, Place(s),
           NEW sent, NEW more, Whole(n, s, sent), sent \subseteq more
    PROVE  Whole(m, s, more)
BY CoveredRestored DEF Whole

-----------------------------------------------------------------------------
(* The node changes.                                                       *)

\* The log grows: what it had it has, and positions have passed what they had.
LEMMA LogGrows ==
    ASSUME NEW n \in Node, NEW m \in Node, Grown(n, m), NEW gone
    PROVE  /\ Sent(n, gone) \subseteq Sent(m, gone)
           /\ \A c, ops : Place(c) /\ Covered(n, c, ops) /\ c.epoch = m.epoch =>
                 Upto(m.log, c.seq) = Upto(n.log, c.seq)
<1>1. /\ n.log \in Seq(Operation) /\ m.log \in Seq(Operation)
      /\ Begins(n.log, m.log) /\ m.epoch = n.epoch
  BY DEF Node, Grown
<1>2. Ops(n.log) \subseteq Ops(m.log) BY <1>1 DEF Begins, Ops
<1>3. ASSUME NEW c, NEW ops, Place(c), Covered(n, c, ops), c.epoch = m.epoch
      PROVE  Upto(m.log, c.seq) = Upto(n.log, c.seq)
  BY <1>1, <1>3, UptoBegins DEF Covered, Place
<1> QED BY <1>2, <1>3 DEF Sent

\* The node gets operations, of which those of this browser are known here.
LEMMA NodeGrows ==
    ASSUME NEW d, NEW n, NEW gone, ExchangeOK(d, n, gone), NEW m, NodeOK(m), Grown(n, m),
           \A op \in Ops(m.log) : op.replicaId = Device => op \in d.known,
           NEW tabs \in [Tabs -> Tab], \A t \in Tabs : TabOK(tabs[t], d.known, n, gone)
    PROVE  /\ ExchangeOK(d, m, gone)
           /\ \A t \in Tabs : TabOK(tabs[t], d.known, m, gone)
           /\ \A e \in Entities : ShownOK(e, d, n, tabs, gone) => ShownOK(e, d, m, tabs, gone)
<1>1. n \in Node /\ m \in Node /\ d \in Database
  BY DEF ExchangeOK, NodeOK, DatabaseOK, StateOK
<1>2. Sent(n, gone) \subseteq Sent(m, gone) BY <1>1, LogGrows
<1>3. \A k \in Epochs : Place(d.cursor[k]) /\ Place(d.download[k].snapshot)
  BY <1>1, Held, Positions
<1>4. ExchangeOK(d, m, gone)
  <2>1. \A k \in Epochs : Whole(m, d.download[k].snapshot, Sent(m, gone))
    BY <1>1, <1>2, <1>3, WholeGrown DEF ExchangeOK
  <2>2. \A k \in Epochs : Covered(m, d.cursor[k], d.known)
    BY <1>1, <1>3, CoveredGrown DEF ExchangeOK
  <2>3. \A op \in Sent(m, gone) : op.replicaId = Device => op \in d.known
    BY DEF ExchangeOK, Sent
  <2> QED BY <1>2, <2>1, <2>2, <2>3 DEF ExchangeOK
<1>5. ASSUME NEW t \in Tabs PROVE TabOK(tabs[t], d.known, m, gone)
  <2> DEFINE x == tabs[t]
  <2>1. x \in Tab /\ TabOK(x, d.known, n, gone) OBVIOUS
  <2> HIDE DEF x
  <2>2. Place(x.page.cursor) /\ Place(x.snapshot) BY <2>1, Held, Positions
  <2>3. Whole(m, x.snapshot, Sent(m, gone)) BY <1>1, <1>2, <2>1, <2>2, WholeGrown DEF TabOK
  <2>4. Covered(m, x.page.cursor, d.known \cup Ops(x.page.ops))
    BY <1>1, <2>1, <2>2, CoveredGrown DEF TabOK
  <2> QED BY <1>2, <2>1, <2>3, <2>4 DEF TabOK, x
<1>6. ASSUME NEW op, Unseen(op, d, n, tabs, gone) PROVE Unseen(op, d, m, tabs, gone)
  <2>1. m.epoch = n.epoch BY DEF Grown
  <2>2. \A k \in Epochs : d.cursor[k].epoch = m.epoch =>
           Upto(m.log, d.cursor[k].seq) = Upto(n.log, d.cursor[k].seq)
    BY <1>1, <1>3, LogGrows DEF ExchangeOK
  <2>3. \A t \in Tabs : tabs[t].page.cursor.epoch = m.epoch =>
           Upto(m.log, tabs[t].page.cursor.seq) = Upto(n.log, tabs[t].page.cursor.seq)
    <3>1. \A t \in Tabs : Place(tabs[t].page.cursor) BY Held, Positions
    <3> QED BY <1>1, <3>1, LogGrows DEF TabOK
  <2> QED BY <1>6, <2>1, <2>2, <2>3 DEF Unseen
<1>7. \A e \in Entities : ShownOK(e, d, n, tabs, gone) => ShownOK(e, d, m, tabs, gone)
  BY <1>6 DEF ShownOK, Shows, Waiting
<1> QED BY <1>4, <1>5, <1>7

\* A backup is restored: what the log loses is lost, and no position counts.
LEMMA NodeRestored ==
    ASSUME NEW d, NEW n, NEW gone, ExchangeOK(d, n, gone), n.epoch + 1 \in Epochs,
           NEW seq \in 0 .. Len(n.log), NEW later \in SUBSET Snapshot,
           NEW tabs \in [Tabs -> Tab], \A t \in Tabs : TabOK(tabs[t], d.known, n, gone)
    PROVE  LET m == Restored(n, seq, later)
               more == gone \cup (Ops(n.log) \ Upto(n.log, seq))
           IN  /\ ExchangeOK(d, m, more)
               /\ \A t \in Tabs : TabOK(tabs[t], d.known, m, more)
               /\ \A e \in Entities : ShownOK(e, d, n, tabs, gone) => ShownOK(e, d, m, tabs, more)
<1> DEFINE m == Restored(n, seq, later)
           more == gone \cup (Ops(n.log) \ Upto(n.log, seq))
<1>1. n \in Node /\ d \in Database /\ n.log \in Seq(Operation) /\ n.epoch \in Nat
  BY DEF ExchangeOK, NodeOK, DatabaseOK, StateOK, Node, Epochs
<1>2. NodeOK(m) /\ m.epoch = n.epoch + 1 /\ Ops(m.log) = Upto(n.log, seq)
  BY RestoredOK DEF ExchangeOK
<1>3. Upto(n.log, seq) \subseteq Ops(n.log) /\ Ops(n.log) \subseteq Operation
  BY <1>1, UptoPart
<1>4. Sent(m, more) = Sent(n, gone) /\ more \in SUBSET Operation
  BY <1>2, <1>3 DEF Sent, ExchangeOK
<1> HIDE DEF m, more
<1>5. \A k \in Epochs : Place(d.cursor[k]) /\ Place(d.download[k].snapshot)
  BY <1>1, Held, Positions
<1>6. ExchangeOK(d, m, more)
  <2>1. \A k \in Epochs : Whole(m, d.download[k].snapshot, Sent(m, more))
    BY <1>1, <1>2, <1>4, <1>5, WholeRestored DEF ExchangeOK
  <2>2. \A k \in Epochs : Covered(m, d.cursor[k], d.known)
    BY <1>1, <1>2, <1>5, CoveredRestored DEF ExchangeOK
  <2> QED BY <1>2, <1>4, <2>1, <2>2 DEF ExchangeOK
<1>7. ASSUME NEW t \in Tabs PROVE TabOK(tabs[t], d.known, m, more)
  <2> DEFINE x == tabs[t]
  <2>1. x \in Tab /\ TabOK(x, d.known, n, gone) OBVIOUS
  <2> HIDE DEF x
  <2>2. Place(x.page.cursor) /\ Place(x.snapshot) BY <2>1, Held, Positions
  <2>3. Whole(m, x.snapshot, Sent(m, more))
    BY <1>1, <1>2, <1>4, <2>1, <2>2, WholeRestored DEF TabOK
  <2>4. Covered(m, x.page.cursor, d.known \cup Ops(x.page.ops))
    BY <1>1, <1>2, <2>1, <2>2, CoveredRestored DEF TabOK
  <2> QED BY <1>4, <2>1, <2>3, <2>4 DEF TabOK, x
<1>8. ASSUME NEW op PROVE Unseen(op, d, m, tabs, more)
  <2>1. \A k \in Epochs : d.cursor[k].epoch # m.epoch
    BY <1>1, <1>2, <1>5 DEF ExchangeOK, Covered, Place
  <2>2. \A t \in Tabs : tabs[t].page.cursor.epoch # m.epoch
    <3>1. \A t \in Tabs : Place(tabs[t].page.cursor) BY Held, Positions
    <3> QED BY <1>1, <1>2, <3>1 DEF TabOK, Covered, Place
  <2> QED BY <2>1, <2>2 DEF Unseen
<1>9. \A e \in Entities : ShownOK(e, d, n, tabs, gone) => ShownOK(e, d, m, tabs, more)
  BY <1>8 DEF ShownOK, Shows, Waiting
<1> QED BY <1>6, <1>7, <1>9 DEF m, more

-----------------------------------------------------------------------------
(* A tab changes.                                                          *)

\* A tab moves on, and holds no page or the one it held.
LEMMA TabMoves ==
    ASSUME NEW d, NEW n, NEW gone, n \in Node,
           NEW tabs \in [Tabs -> Tab], \A u \in Tabs : TabOK(tabs[u], d.known, n, gone),
           NEW t \in Tabs, NEW x, TabOK(x, d.known, n, gone),
           x.page = NoPage \/ x.page = tabs[t].page
    PROVE  LET after == [tabs EXCEPT ![t] = x]
           IN  /\ after \in [Tabs -> Tab]
               /\ \A u \in Tabs : TabOK(after[u], d.known, n, gone)
               /\ \A e \in Entities : ShownOK(e, d, n, tabs, gone) => ShownOK(e, d, n, after, gone)
<1> DEFINE after == [tabs EXCEPT ![t] = x]
<1>1. x \in Tab BY DEF TabOK
<1>2. /\ after \in [Tabs -> Tab] /\ after[t] = x
      /\ \A u \in Tabs \ {t} : after[u] = tabs[u]
  BY <1>1
<1> HIDE DEF after
<1>3. \A u \in Tabs : TabOK(after[u], d.known, n, gone) BY <1>2
<1>4. ASSUME NEW op, Unseen(op, d, n, tabs, gone) PROVE Unseen(op, d, n, after, gone)
  <2>1. n.epoch # 0 BY DEF Node, Epochs
  <2>2. \A u \in Tabs : after[u].page = NoPage \/ after[u].page = tabs[u].page BY <1>2
  <2>3. NoPage.cursor.epoch = 0 BY DEF NoPage, NoCursor
  <2> QED BY <1>4, <2>1, <2>2, <2>3 DEF Unseen
<1>5. \A e \in Entities : ShownOK(e, d, n, tabs, gone) => ShownOK(e, d, n, after, gone)
  BY <1>4 DEF ShownOK, Shows, Waiting
<1> QED BY <1>2, <1>3, <1>5 DEF after

\* A tab that holds no answer of the node has nothing wrong.
HoldsNothing(x) ==
    /\ x \in Tab
    /\ x.at # "idle" => x.epoch # 0
    /\ x.at \notin {"begin", "receive"}
    /\ x.snapshot = NoSnapshot /\ x.page = NoPage /\ x.sending = {}

LEMMA EmptyHanded ==
    ASSUME NEW n \in Node, NEW gone, NEW known, NEW x, HoldsNothing(x), x.batch \subseteq known
    PROVE  TabOK(x, known, n, gone)
<1>1. Ops(NoPage.ops) = {} BY DEF NoPage, Ops
<1>2. Whole(n, NoSnapshot, Sent(n, gone)) BY NothingCovered
<1>3. Covered(n, NoPage.cursor, known \cup {}) BY NothingCovered DEF NoPage
<1> QED BY <1>1, <1>2, <1>3 DEF TabOK, HoldsNothing

\* More is known.
LEMMA TabKnowsMore ==
    ASSUME NEW x, NEW n, NEW gone, NEW known, NEW more, TabOK(x, known, n, gone),
           known \subseteq more
    PROVE  TabOK(x, more, n, gone)
BY DEF TabOK, Covered

-----------------------------------------------------------------------------
(* The database changes.                                                   *)

\* The bookkeeping changes, and sent operations leave the outbox: positions are
\* kept or forgotten, and downloads are whole.
LEMMA DataSame ==
    ASSUME NEW d, NEW n, NEW gone, ExchangeOK(d, n, gone), NEW x, DatabaseOK(x),
           x.known = d.known, x.entities = d.entities, x.shown = d.shown, x.paired = d.paired,
           d.outbox \subseteq x.outbox \cup Sent(n, gone),
           \A k \in Epochs : x.cursor[k] = d.cursor[k] \/ x.cursor[k] = NoCursor,
           \A k \in Epochs : Whole(n, x.download[k].snapshot, Sent(n, gone)),
           NEW tabs
    PROVE  /\ ExchangeOK(x, n, gone)
           /\ \A e \in Entities : ShownOK(e, d, n, tabs, gone) => ShownOK(e, x, n, tabs, gone)
<1>1. n \in Node /\ n.epoch # 0 BY DEF ExchangeOK, NodeOK, Node, Epochs
<1>2. \A k \in Epochs : Covered(n, x.cursor[k], x.known)
  BY <1>1, NothingCovered DEF ExchangeOK
<1>3. ExchangeOK(x, n, gone) BY <1>2 DEF ExchangeOK
<1>4. ASSUME NEW op, Unseen(op, d, n, tabs, gone) PROVE Unseen(op, x, n, tabs, gone)
  BY <1>1, <1>4 DEF Unseen, NoCursor
<1>5. \A e \in Entities : ShownOK(e, d, n, tabs, gone) => ShownOK(e, x, n, tabs, gone)
  BY <1>4 DEF ShownOK, Shows, Waiting
<1> QED BY <1>3, <1>5

\* The person's operations, which the node cannot have yet.
LEMMA WritesOK ==
    ASSUME NEW d, NEW n, NEW gone, ExchangeOK(d, n, gone),
           NEW ops \in Seq(Operation), LocalWrites(ops, d.clock),
           \A op \in Ops(ops) : op.replicaId = Device /\ op \notin Sent(n, gone),
           NEW tabs \in [Tabs -> Tab]
    PROVE  LET w == WriteAll(d, ops)
           IN  /\ ExchangeOK(w, n, gone)
               /\ w.known = d.known \cup Ops(ops)
               /\ \A e \in Entities : ShownOK(e, d, n, tabs, gone) => ShownOK(e, w, n, tabs, gone)
<1> DEFINE w == WriteAll(d, ops)
           waiting == Waiting(d, n, tabs, gone)
<1>1. /\ DatabaseOK(w) /\ SamePlace(d, w)
      /\ w.known = d.known \cup Ops(ops) /\ w.outbox = d.outbox \cup Ops(ops)
      /\ \A e \in Entities : Shows(e, d, waiting) => Shows(e, w, waiting \cup Ops(ops))
  BY WriteAllOK DEF ExchangeOK
<1> HIDE DEF w, waiting
<1>2. n \in Node /\ n.log \in Seq(Operation) /\ d \in Database
  BY DEF ExchangeOK, NodeOK, DatabaseOK, StateOK, Node
<1>3. w.cursor = d.cursor /\ w.download = d.download /\ w.paired = d.paired
  BY <1>1 DEF SamePlace
<1>4. \A k \in Epochs : Covered(n, w.cursor[k], w.known)
  BY <1>1, <1>3 DEF ExchangeOK, Covered
<1>5. ExchangeOK(w, n, gone) BY <1>1, <1>3, <1>4 DEF ExchangeOK
<1>6. ASSUME NEW op \in Ops(ops) PROVE Unseen(op, w, n, tabs, gone)
  <2>1. op \notin Ops(n.log) BY DEF Sent
  <2>2. \A k \in Epochs : Place(w.cursor[k]) BY <1>2, <1>3, Held, Positions
  <2>3. \A t \in Tabs : Place(tabs[t].page.cursor) BY Held, Positions
  <2>4. \A c : Place(c) => op \notin Upto(n.log, c.seq) BY <1>2, <2>1, UptoPart DEF Place
  <2> QED BY <2>2, <2>3, <2>4 DEF Unseen
<1>7. ASSUME NEW e \in Entities, ShownOK(e, d, n, tabs, gone) PROVE ShownOK(e, w, n, tabs, gone)
  <2>1. waiting \cup Ops(ops) \subseteq Waiting(w, n, tabs, gone)
    <3>1. \A op : Unseen(op, d, n, tabs, gone) => Unseen(op, w, n, tabs, gone)
      BY <1>3 DEF Unseen
    <3> QED BY <1>1, <1>6, <3>1 DEF Waiting, waiting
  <2>2. CASE ~d.paired BY <1>3, <2>2 DEF ShownOK
  <2>3. CASE Shows(e, d, waiting)
    <3>1. Shows(e, w, waiting \cup Ops(ops)) BY <1>1, <2>3
    <3>2. Shows(e, w, Waiting(w, n, tabs, gone)) BY <2>1, <3>1 DEF Shows
    <3> QED BY <3>2 DEF ShownOK
  <2> QED BY <1>7, <2>2, <2>3 DEF ShownOK, waiting
<1> QED BY <1>1, <1>5, <1>7 DEF w

\* A page or a snapshot of the operations news, which the node had, with the
\* position c behind it: what was unseen and is before c is among the news.
LEMMA NewsOK ==
    ASSUME NEW d, NEW n, NEW gone, ExchangeOK(d, n, gone), NEW x,
           NEW news, news \subseteq Sent(n, gone), NEW key \in Epochs, NEW c, NEW tabs,
           Takes(x, d, key, news, c), Covered(n, c, x.known),
           \A op : Unseen(op, d, n, tabs, gone) /\ c.epoch = n.epoch
                      /\ op \in Upto(n.log, c.seq) => op \in news \cup gone,
           \A k \in Epochs : Whole(n, x.download[k].snapshot, Sent(n, gone))
    PROVE  /\ ExchangeOK(x, n, gone)
           /\ \A op \in x.known : op.replicaId = Device => op \in d.known
           /\ \A e \in Entities : ShownOK(e, d, n, tabs, gone) => ShownOK(e, x, n, tabs, gone)
<1>1. d.cursor \in [Epochs -> Cursor \cup {NoCursor}]
  BY DEF ExchangeOK, DatabaseOK, StateOK, Database
<1>2. x.cursor[key] = c /\ \A k \in Epochs \ {key} : x.cursor[k] = d.cursor[k]
  BY <1>1 DEF Takes
<1>3. \A op \in x.known : op.replicaId = Device => op \in d.known
  BY DEF ExchangeOK, Takes
<1>4. \A k \in Epochs : Covered(n, x.cursor[k], x.known)
  BY <1>2 DEF ExchangeOK, Covered, Takes
<1>5. ExchangeOK(x, n, gone) BY <1>3, <1>4 DEF ExchangeOK, Takes
<1>6. ASSUME NEW op, op \notin news, Unseen(op, d, n, tabs, gone)
      PROVE  Unseen(op, x, n, tabs, gone)
  BY <1>2, <1>6 DEF Unseen
<1>7. ASSUME NEW e \in Entities, ShownOK(e, d, n, tabs, gone) PROVE ShownOK(e, x, n, tabs, gone)
  <2>1. CASE x.shown[e] = Materialized(x.entities[e]) BY <2>1 DEF ShownOK, Shows
  <2>2. CASE /\ x.shown[e] = d.shown[e] /\ x.entities[e] = d.entities[e]
             /\ \A op \in news : op.entity # e
    BY <1>6, <1>7, <2>2 DEF ShownOK, Shows, Waiting, Takes
  <2> QED BY <2>1, <2>2 DEF Takes
<1> QED BY <1>3, <1>5, <1>7

-----------------------------------------------------------------------------
(* The start.                                                              *)

\* Bounds and ids of a setting.
LEMMA SettingTypes ==
    ASSUME NEW s \in Settings
    PROVE  /\ s.edits \in Nat /\ s.others \in Nat /\ s.faults \in Nat /\ s.clock \in Nat
           /\ s.epochs \in Epochs /\ s.scope \in SUBSET Entities
           /\ 0 .. s.edits \subseteq Ids /\ 0 .. s.others \subseteq Ids
           /\ EditKeys \subseteq Keys
BY SettingsAssumption DEF SettingsAssumption, Setting

\* A tab between two exchanges, and one that goes on to a place where it holds
\* no answer.
LEMMA IdleFields ==
    ASSUME NEW epoch \in Epochs \cup {0}
    PROVE  /\ Idle(epoch) \in Tab /\ Idle(epoch).at = "idle" /\ Idle(epoch).epoch = epoch
           /\ Idle(epoch).snapshot = NoSnapshot /\ Idle(epoch).page = NoPage
           /\ Idle(epoch).batch = {} /\ Idle(epoch).sending = {}
BY DEF Idle, Tab, Places

LEMMA IdleOK ==
    ASSUME NEW epoch \in Epochs \cup {0}, NEW n \in Node, NEW gone, NEW known
    PROVE  TabOK(Idle(epoch), known, n, gone) /\ Idle(epoch).page = NoPage
BY IdleFields, EmptyHanded DEF HoldsNothing

LEMMA AtFields ==
    ASSUME NEW t \in Tabs, tab[t] \in Tab, NEW place \in Places
    PROVE  LET x == At(t, place)
           IN  /\ x \in Tab /\ x.at = place /\ x.epoch = tab[t].epoch
               /\ x.snapshot = NoSnapshot /\ x.page = NoPage
               /\ x.batch = {} /\ x.sending = {}
BY DEF Idle, Tab, At

\* The invariant holds at the start.
LEMMA InvariantInit ==
    ASSUME Init
    PROVE  IInv
<1>1. PICK old \in SUBSET setting.scope :
         db = [entities |-> Nothing,
               shown    |-> [e \in Entities |->
                               IF e \in old
                               THEN [present |-> TRUE,
                                     fields  |-> [k \in Keys |-> IF k \in EditKeys THEN Untracked
                                                                 ELSE NoStamp]]
                               ELSE NoRecord],
               outbox |-> {}, unpaired |-> {}, known |-> {}, clock |-> 0,
               paired |-> FALSE, seeded |-> FALSE,
               cursor |-> [k \in Epochs |-> NoCursor],
               download |-> [k \in Epochs |-> NoDownload]]
  BY DEF Init
<1>2. /\ setting \in Settings /\ node = EmptyNode /\ tab = [t \in Tabs |-> Idle(0)]
      /\ discarded = {} /\ counts = [edits |-> 0, others |-> 0, faults |-> 0]
  BY DEF Init
<1>3. counts \in Counts(setting) BY <1>2, SettingTypes DEF Counts
<1>4. NodeOK(node) /\ Ops(node.log) = {} /\ node \in Node BY <1>2, EmptyNodeOK DEF NodeOK
<1>5. \A t \in Tabs : tab[t] \in Tab /\ TabOK(tab[t], db.known, node, discarded)
  BY <1>2, <1>4, IdleOK DEF TabOK
<1>6. DatabaseOK(db)
  <2>1. Nothing \in Table /\ \A e \in Entities : Nothing[e] = NoEntity
    BY EmptyEntity DEF Nothing, Table
  <2> DEFINE shown == [e \in Entities |->
                         IF e \in old
                         THEN [present |-> TRUE,
                               fields  |-> [k \in Keys |-> IF k \in EditKeys THEN Untracked
                                                           ELSE NoStamp]]
                         ELSE NoRecord]
  <2>2. /\ shown \in [Entities -> Record]
        /\ \A e \in Entities : shown[e].present \/ shown[e] = NoRecord
    BY DEF Record, NoRecord
  <2> HIDE DEF shown
  <2>3. /\ db.entities = Nothing /\ db.shown = shown /\ db.known = {} /\ db.outbox = {}
        /\ db.clock = 0
    BY <1>1 DEF shown
  <2>4. db \in Database BY <1>1, <2>1, <2>2 DEF Database, shown
  <2>5. \A e \in Entities : IsView(db.entities[e], e, db.known) BY <2>1, <2>3, EmptyView
  <2>6. \A e \in Entities, k \in Keys : db.entities[e].fields[k].version.clock <= db.clock
    BY <2>1, <2>3 DEF NoEntity, NoField, NoStamp
  <2> QED BY <2>2, <2>3, <2>4, <2>5, <2>6 DEF DatabaseOK, StateOK
<1>7. ExchangeOK(db, node, discarded)
  <2>1. \A k \in Epochs : db.download[k].snapshot = NoSnapshot /\ db.cursor[k] = NoCursor
    BY <1>1 DEF NoDownload
  <2>2. db.known = {} BY <1>1
  <2>3. Sent(node, discarded) = {} BY <1>2, <1>4 DEF Sent
  <2> QED BY <1>2, <1>4, <1>6, <2>1, <2>2, <2>3, NothingCovered DEF ExchangeOK
<1>8. \A e \in Entities : ShownOK(e, db, node, tab, discarded)
  <2>1. ~db.paired BY <1>1
  <2> QED BY <2>1 DEF ShownOK
<1>9. OwnIds(db, counts) BY <1>1 DEF OwnIds
<1>10. tab \in [Tabs -> Tab] BY <1>2, <1>5
<1> QED BY <1>2, <1>3, <1>5, <1>7, <1>8, <1>9, <1>10 DEF IInv, Invariant

-----------------------------------------------------------------------------
(* The seeding of records that are older than the tracking.                *)

\* A record that was seeded has the state of its one operation.
LEMMA SeedOne ==
    ASSUME IInv, NEW e \in Untouched
    PROVE  LET op == SeedOp(e)
               st == Apply(NoEntity, op)
           IN  /\ op \in Operation /\ op.entity = e /\ op.replicaId = Device
               /\ op.operationId = 0 /\ op.clock = 0
               /\ st \in EntityState /\ IsView(st, e, db.known \cup {op})
               /\ \A k \in Keys : st.fields[k].version.clock <= db.clock
<1> DEFINE op == SeedOp(e)
           st == Apply(NoEntity, op)
<1>1. /\ db \in Database /\ StateOK(db, db.known) /\ setting \in Settings
      /\ db.known \in SUBSET Operation /\ db.clock \in Nat
  BY DEF IInv, Invariant, ExchangeOK, DatabaseOK, StateOK, Database
<1>2. e \in Entities /\ ~db.entities[e].present BY DEF Untouched, Visible
<1>3. 0 \in Ids BY <1>1, SettingTypes
<1>4. op \in Operation /\ op.entity = e /\ op.replicaId = Device
      /\ op.operationId = 0 /\ op.clock = 0
  BY <1>2, <1>3, BrowserAssumption DEF SeedOp, LocalOp, Operation, Shown, BrowserAssumption
<1>5. IsView(NoEntity, e, db.known)
  <2>1. About(db.known, e) = {} BY <1>1, <1>2 DEF StateOK, IsView
  <2>2. About({}, e) = {} BY DEF About
  <2> QED BY <1>2, <2>1, <2>2, EmptyView DEF IsView
<1> HIDE DEF op
<1>6. st \in EntityState BY <1>4, EmptyEntity, ApplyType
<1>7. IsView(st, e, db.known \cup {op}) BY <1>1, <1>4, <1>5, EmptyEntity, ApplyView
<1>8. \A k \in Keys : st.fields[k].version.clock <= db.clock
  <2>1. \A k \in Keys : NoEntity.fields[k].version.clock = -1
    BY DEF NoEntity, NoField, NoStamp
  <2>2. \A k \in Keys : NoEntity.fields[k].version.clock <= db.clock BY <1>1, <2>1
  <2>3. op.clock <= db.clock BY <1>1, <1>4
  <2> QED BY <1>1, <1>4, <2>2, <2>3, EmptyEntity, ApplyClock
<1> QED BY <1>4, <1>6, <1>7, <1>8 DEF op

\* Seeding keeps the database sound, and all records then show their state: nothing
\* else was known.
LEMMA SeededOK ==
    ASSUME IInv, Early(db, tab), db.outbox \cap db.unpaired = {}
    PROVE  /\ ExchangeOK(Seeded, node, discarded)
           /\ db.known \subseteq Seeded.known
           /\ Seeded.download = db.download /\ Seeded.cursor = db.cursor
           /\ \A e \in Entities : ShownOK(e, Seeded, node, tab, discarded)
           /\ OwnIds(Seeded, counts)
<1> DEFINE x == Seeded
           new == {SeedOp(e) : e \in Untouched}
           entities == [e \in Entities |-> IF e \in Untouched THEN Apply(NoEntity, SeedOp(e))
                                           ELSE db.entities[e]]
           shown == [e \in Entities |-> IF e \in Untouched
                                        THEN Materialized(Apply(NoEntity, SeedOp(e)))
                                        ELSE db.shown[e]]
<1>1. /\ db \in Database /\ StateOK(db, db.known) /\ ExchangeOK(db, node, discarded)
      /\ db.known \in SUBSET Operation /\ db.entities \in Table
      /\ db.shown \in [Entities -> Record] /\ db.outbox \subseteq db.known
      /\ counts.edits \in Nat
  BY SettingTypes DEF IInv, Invariant, ExchangeOK, DatabaseOK, StateOK, Database, Counts
<1>2. \A e \in Entities : ShownOK(e, db, node, tab, discarded) BY DEF IInv, Invariant
<1>3. OwnIds(db, counts) BY DEF IInv, Invariant
<1>4. CASE db.seeded
  <2>1. x = [db EXCEPT !.paired = TRUE] BY <1>4 DEF Seeded
  <2>2. /\ x \in Database /\ x.entities = db.entities /\ x.shown = db.shown
        /\ x.known = db.known /\ x.outbox = db.outbox /\ x.clock = db.clock
        /\ x.paired = db.paired /\ x.cursor = db.cursor /\ x.download = db.download
    BY <1>1, <1>4, <2>1 DEF Database, Early
  <2> HIDE DEF x
  <2>3. DatabaseOK(x) BY <1>1, <2>2 DEF DatabaseOK, StateOK
  <2>4. ExchangeOK(x, node, discarded) BY <1>1, <2>2, <2>3 DEF ExchangeOK
  <2>5. \A e \in Entities : ShownOK(e, x, node, tab, discarded)
    BY <1>2, <2>2 DEF ShownOK, Shows, Waiting, Unseen
  <2>6. OwnIds(x, counts) BY <1>3, <2>2 DEF OwnIds
  <2> QED BY <2>2, <2>4, <2>5, <2>6 DEF x
<1>5. CASE ~db.seeded
  <2>0. db.known = {} BY <1>5 DEF Early
  <2>1. x = [db EXCEPT !.entities = entities, !.shown = shown, !.outbox = db.outbox \cup new,
                       !.known = db.known \cup new, !.paired = TRUE, !.seeded = TRUE]
    BY <1>1, <1>5 DEF Seeded, Database
  <2>2. \A op \in new : /\ op \in Operation /\ op.replicaId = Device /\ op.operationId = 0
    <3>1. \A e \in Untouched : /\ SeedOp(e) \in Operation /\ SeedOp(e).replicaId = Device
                               /\ SeedOp(e).operationId = 0
      BY SeedOne
    <3> QED BY <3>1
  <2>3. ASSUME NEW e \in Entities
        PROVE  /\ entities[e] \in EntityState /\ IsView(entities[e], e, db.known \cup new)
               /\ \A k \in Keys : entities[e].fields[k].version.clock <= db.clock
               /\ shown[e] \in Record /\ (shown[e].present \/ shown[e] = NoRecord)
               /\ shown[e] = Materialized(entities[e])
    <3>1. CASE e \in Untouched
      <4> DEFINE st == Apply(NoEntity, SeedOp(e))
      <4>1. entities[e] = st /\ shown[e] = Materialized(st) BY <3>1
      <4>2. /\ st \in EntityState /\ IsView(st, e, db.known \cup {SeedOp(e)})
            /\ \A k \in Keys : st.fields[k].version.clock <= db.clock
        BY <3>1, SeedOne
      <4> HIDE DEF st, entities, shown
      <4>3. Materialized(st) \in Record
            /\ (Materialized(st).present \/ Materialized(st) = NoRecord)
        BY <4>2, MaterializedType
      <4> DEFINE others == {SeedOp(f) : f \in Untouched \ {e}}
      <4>4. \A op \in others : op.entity # e BY SeedOne
      <4>5. db.known \cup new = (db.known \cup {SeedOp(e)}) \cup others BY <3>1
      <4> HIDE DEF others, new
      <4>6. IsView(st, e, db.known \cup new) BY <4>2, <4>4, <4>5, ViewElsewhere
      <4> QED BY <4>1, <4>2, <4>3, <4>6
    <3>2. CASE e \notin Untouched
      <4>1. entities[e] = db.entities[e] /\ shown[e] = db.shown[e] BY <3>2
      <4>2. \A op \in new : op.entity # e BY <3>2, SeedOne
      <4> HIDE DEF new, entities, shown
      <4>3. /\ db.entities[e] \in EntityState /\ db.shown[e] \in Record
            /\ IsView(db.entities[e], e, db.known)
            /\ \A k \in Keys : db.entities[e].fields[k].version.clock <= db.clock
            /\ (db.shown[e].present \/ db.shown[e] = NoRecord)
        BY <1>1 DEF Table, StateOK
      <4>4. IsView(db.entities[e], e, db.known \cup new) BY <4>2, <4>3, ViewElsewhere
      <4>5. ~db.entities[e].present
        <5>1. About(db.known, e) = {} BY <2>0 DEF About
        <5> QED BY <4>3, <5>1 DEF IsView
      <4>6. db.shown[e] = Materialized(db.entities[e])
        <5>1. ~db.shown[e].present BY <3>2, <4>5 DEF Untouched, Visible
        <5>2. ~Materialized(db.entities[e]).present BY <4>5 DEF Materialized
        <5> QED BY <4>3, <5>1, <5>2, MaterializedType
      <4> QED BY <4>1, <4>3, <4>4, <4>6
    <3> QED BY <3>1, <3>2
  <2>4. entities \in Table /\ shown \in [Entities -> Record]
    <3>1. /\ entities = [e \in Entities |-> entities[e]] /\ shown = [e \in Entities |-> shown[e]]
      OBVIOUS
    <3> HIDE DEF entities, shown
    <3> QED BY <2>3, <3>1 DEF Table
  <2>5. db.known \cup new \in SUBSET Operation /\ db.outbox \cup new \in SUBSET Operation
    BY <1>1, <2>2
  <2> HIDE DEF entities, shown, new, x
  <2>6. /\ x \in Database /\ x.entities = entities /\ x.shown = shown
        /\ x.known = db.known \cup new /\ x.outbox = db.outbox \cup new
        /\ x.clock = db.clock /\ x.cursor = db.cursor /\ x.download = db.download
    BY <1>1, <2>1, <2>4, <2>5 DEF Database
  <2>7. DatabaseOK(x) BY <1>1, <2>3, <2>6 DEF DatabaseOK, StateOK
  <2>8. ExchangeOK(x, node, discarded)
    <3>1. \A k \in Epochs : Covered(node, x.cursor[k], x.known)
      BY <1>1, <2>6 DEF ExchangeOK, Covered
    <3> QED BY <1>1, <2>6, <2>7, <3>1 DEF ExchangeOK
  <2>9. \A e \in Entities : ShownOK(e, x, node, tab, discarded)
    BY <2>3, <2>6 DEF ShownOK, Shows
  <2>10. OwnIds(x, counts) BY <1>1, <1>3, <2>2, <2>6 DEF OwnIds
  <2> QED BY <2>6, <2>8, <2>9, <2>10 DEF x
<1> QED BY <1>4, <1>5

-----------------------------------------------------------------------------
(* The steps of an exchange.                                               *)

\* What the invariant says of a tab that is in an exchange.
LEMMA InExchange ==
    ASSUME IInv, NEW t \in Tabs
    PROVE  /\ tab[t] \in Tab /\ TabOK(tab[t], db.known, node, discarded)
           /\ tab[t].epoch \in Epochs \cup {0}
           /\ tab[t].at # "idle" => Key(t) \in Epochs
           /\ db \in Database /\ DatabaseOK(db) /\ node \in Node /\ NodeOK(node)
           /\ ExchangeOK(db, node, discarded)
<1>1. tab[t] \in Tab /\ TabOK(tab[t], db.known, node, discarded) BY DEF IInv, Invariant
<1>2. ExchangeOK(db, node, discarded) BY DEF IInv, Invariant
<1>3. tab[t].epoch \in Epochs \cup {0} BY <1>1 DEF Tab
<1>4. tab[t].at # "idle" => Key(t) \in Epochs BY <1>1, <1>3 DEF TabOK, Key
<1> QED BY <1>1, <1>2, <1>3, <1>4 DEF ExchangeOK, DatabaseOK, StateOK, NodeOK

\* A step of a tab that keeps everything else sound keeps the invariant.
LEMMA TabStep ==
    ASSUME IInv, NEW t \in Tabs, NEW x, tab' = [tab EXCEPT ![t] = x],
           TabOK(x, db'.known, node', discarded'), x.page = NoPage \/ x.page = tab[t].page,
           \A u \in Tabs : TabOK(tab[u], db'.known, node', discarded'),
           ExchangeOK(db', node', discarded'),
           \A e \in Entities : ShownOK(e, db', node', tab, discarded'),
           OwnIds(db', counts'), counts' \in Counts(setting'), setting' = setting
    PROVE  IInv'
<1>1. tab \in [Tabs -> Tab] /\ setting' \in Settings BY DEF IInv, Invariant
<1>2. node' \in Node BY DEF ExchangeOK, NodeOK
<1>3. /\ tab' \in [Tabs -> Tab]
      /\ \A u \in Tabs : TabOK(tab'[u], db'.known, node', discarded')
      /\ \A e \in Entities : ShownOK(e, db', node', tab', discarded')
  <2> DEFINE d == db'
             n == node'
             gone == discarded'
             after == [tab EXCEPT ![t] = x]
  <2>1. /\ n \in Node /\ TabOK(x, d.known, n, gone)
        /\ \A u \in Tabs : TabOK(tab[u], d.known, n, gone)
        /\ \A e \in Entities : ShownOK(e, d, n, tab, gone)
    BY <1>2
  <2> HIDE DEF d, n, gone
  <2>2. /\ after \in [Tabs -> Tab]
        /\ \A u \in Tabs : TabOK(after[u], d.known, n, gone)
        /\ \A e \in Entities : ShownOK(e, d, n, tab, gone) => ShownOK(e, d, n, after, gone)
    BY <1>1, <2>1, TabMoves
  <2> HIDE DEF after
  <2>3. \A e \in Entities : ShownOK(e, d, n, after, gone) BY <2>1, <2>2
  <2> QED BY <2>2, <2>3 DEF d, n, gone, after
<1> QED BY <1>1, <1>3 DEF IInv, Invariant

\* A step that only changes the tab, which then holds no answer.
LEMMA TabOnly ==
    ASSUME IInv, NEW t \in Tabs, NEW x, tab' = [tab EXCEPT ![t] = x],
           HoldsNothing(x), x.batch \subseteq db.known,
           db' = db, node' = node, discarded' = discarded, setting' = setting,
           counts' \in Counts(setting), counts'.edits = counts.edits
    PROVE  IInv'
<1>1. /\ \A u \in Tabs : TabOK(tab[u], db.known, node, discarded)
      /\ ExchangeOK(db, node, discarded)
      /\ \A e \in Entities : ShownOK(e, db, node, tab, discarded)
      /\ OwnIds(db, counts)
  BY DEF IInv, Invariant
<1>2. node \in Node BY <1>1 DEF ExchangeOK, NodeOK
<1>3. TabOK(x, db.known, node, discarded) /\ x.page = NoPage
  BY <1>2, EmptyHanded DEF HoldsNothing
<1>4. OwnIds(db', counts') BY <1>1 DEF OwnIds
<1> QED BY <1>1, <1>3, <1>4, TabStep

\* A step that changes the tab, which then holds no answer, and the bookkeeping.
LEMMA BookkeepingStep ==
    ASSUME IInv, NEW t \in Tabs, NEW x, tab' = [tab EXCEPT ![t] = x],
           HoldsNothing(x), x.batch \subseteq db.known,
           DatabaseOK(db'), db'.known = db.known, db'.entities = db.entities,
           db'.shown = db.shown, db'.paired = db.paired,
           db.outbox \subseteq db'.outbox \cup Sent(node, discarded),
           \A k \in Epochs : db'.cursor[k] = db.cursor[k] \/ db'.cursor[k] = NoCursor,
           \A k \in Epochs : Whole(node, db'.download[k].snapshot, Sent(node, discarded)),
           node' = node, discarded' = discarded, setting' = setting, counts' = counts
    PROVE  IInv'
<1>1. /\ \A u \in Tabs : TabOK(tab[u], db.known, node, discarded)
      /\ ExchangeOK(db, node, discarded)
      /\ \A e \in Entities : ShownOK(e, db, node, tab, discarded)
      /\ OwnIds(db, counts) /\ counts \in Counts(setting)
  BY DEF IInv, Invariant
<1>2. node \in Node BY <1>1 DEF ExchangeOK, NodeOK
<1>3. TabOK(x, db.known, node, discarded) /\ x.page = NoPage
  BY <1>2, EmptyHanded DEF HoldsNothing
<1>4. ExchangeOK(db', node, discarded)
      /\ \A e \in Entities : ShownOK(e, db', node, tab, discarded)
  BY <1>1, DataSame
<1>5. OwnIds(db', counts') BY <1>1 DEF OwnIds
<1> QED BY <1>1, <1>3, <1>4, <1>5, TabStep

\* The exchange throws, and nothing else happens.
LEMMA ThrowStep ==
    ASSUME IInv, NEW t \in Tabs, Throw(t), db' = db, UNCHANGED Environment
    PROVE  IInv'
<1>1. tab[t].epoch \in Epochs \cup {0} BY InExchange
<1>2. tab' = [tab EXCEPT ![t] = Idle(tab[t].epoch)] BY DEF Throw, Goto
<1>3. /\ node' = node /\ discarded' = discarded /\ setting' = setting /\ counts' = counts
      /\ counts \in Counts(setting)
  BY DEF Environment, IInv, Invariant
<1> QED BY <1>1, <1>2, <1>3, IdleFields, TabOnly DEF HoldsNothing

\* What a tab that goes on holds, with a checkpoint or a batch.
LEMMA GoneOn ==
    ASSUME IInv, NEW t \in Tabs, tab[t].at # "idle",
           NEW place \in Places \ {"begin", "receive"}
    PROVE  /\ HoldsNothing(At(t, place)) /\ At(t, place).batch = {}
           /\ \A copy \in Download \cup {NoDownload} :
                 LET x == [At(t, place) EXCEPT !.copy = copy]
                 IN  HoldsNothing(x) /\ x.batch = {}
           /\ \A batch \in SUBSET Operation :
                 LET x == [At(t, place) EXCEPT !.batch = batch]
                 IN  HoldsNothing(x) /\ x.batch = batch
<1> DEFINE at == At(t, place)
<1>1. Key(t) \in Epochs /\ tab[t] \in Tab BY InExchange
<1>2. /\ at \in Tab /\ at.at = place /\ at.epoch = Key(t) /\ Key(t) # 0
      /\ at.snapshot = NoSnapshot /\ at.page = NoPage /\ at.batch = {} /\ at.sending = {}
  BY <1>1, AtFields DEF Key, Epochs
<1> HIDE DEF at
<1>3. HoldsNothing(at) BY <1>2 DEF HoldsNothing
<1>4. ASSUME NEW copy \in Download \cup {NoDownload}
      PROVE  /\ HoldsNothing([at EXCEPT !.copy = copy])
             /\ [at EXCEPT !.copy = copy].batch = {}
  BY <1>2 DEF Tab, HoldsNothing
<1>5. ASSUME NEW batch \in SUBSET Operation
      PROVE  /\ HoldsNothing([at EXCEPT !.batch = batch])
             /\ [at EXCEPT !.batch = batch].batch = batch
  BY <1>2 DEF Tab, HoldsNothing
<1> QED BY <1>2, <1>3, <1>4, <1>5 DEF at

\* What is left to send, or the end of the exchange.
LEMMA RemainingOK ==
    ASSUME IInv, NEW t \in Tabs, tab[t].at # "idle",
           NEW batch \in SUBSET Operation, batch \subseteq db.known
    PROVE  HoldsNothing(Remaining(t, batch)) /\ Remaining(t, batch).batch \subseteq db.known
<1>1. CASE batch = {}
  <2>1. Remaining(t, batch) = Idle(tab[t].epoch) BY <1>1 DEF Remaining
  <2>2. tab[t].epoch \in Epochs \cup {0} BY InExchange
  <2> QED BY <2>1, <2>2, IdleFields DEF HoldsNothing
<1>2. CASE batch # {}
  <2> DEFINE x == [At(t, "push") EXCEPT !.batch = batch]
  <2>1. "push" \in Places \ {"begin", "receive"} BY DEF Places
  <2>2. HoldsNothing(x) /\ x.batch = batch BY <2>1, GoneOn
  <2>3. Remaining(t, batch) = x BY <1>2 DEF Remaining
  <2> HIDE DEF x
  <2> QED BY <2>2, <2>3
<1> QED BY <1>1, <1>2

LEMMA StartStep ==
    ASSUME IInv, NEW t \in Tabs, Start(t)
    PROVE  IInv'
<1> DEFINE epoch == IF tab[t].epoch = 0 THEN node.epoch ELSE tab[t].epoch
           x == [Idle(epoch) EXCEPT !.at = "initialize"]
<1>1. epoch \in Epochs BY InExchange DEF Node
<1>2. tab' = [tab EXCEPT ![t] = x] BY DEF Start, Goto
<1>3. /\ db' = db /\ node' = node /\ discarded' = discarded /\ setting' = setting
      /\ counts' = counts /\ counts \in Counts(setting)
  BY DEF Start, Environment, IInv, Invariant
<1> HIDE DEF epoch
<1>4. /\ x \in Tab /\ x.at = "initialize" /\ x.epoch = epoch /\ x.snapshot = NoSnapshot
      /\ x.page = NoPage /\ x.batch = {} /\ x.sending = {}
  BY <1>1 DEF Idle, Tab, Places
<1> HIDE DEF x
<1>5. HoldsNothing(x) BY <1>1, <1>4 DEF Epochs, HoldsNothing
<1> QED BY <1>2, <1>3, <1>4, <1>5, TabOnly

LEMMA InitializeStep ==
    ASSUME IInv, Early(db, tab), NEW t \in Tabs, Initialize(t)
    PROVE  IInv'
<1>1. /\ node' = node /\ discarded' = discarded /\ setting' = setting /\ counts' = counts
      /\ counts \in Counts(setting) /\ UNCHANGED Environment
  BY DEF Initialize, Environment, IInv, Invariant
<1>2. tab[t].at = "initialize" /\ tab[t].at # "idle" BY DEF Initialize
<1>3. CASE Throw(t) /\ UNCHANGED db BY <1>1, <1>3, ThrowStep
<1>4. CASE /\ db.outbox \cap db.unpaired = {} /\ db' = Seeded
           /\ IF db.download[Key(t)] # NoDownload
              THEN Goto(t, [At(t, "download") EXCEPT !.copy = db.download[Key(t)]])
              ELSE \/ Goto(t, At(t, "create"))
                   \/ db.cursor[Key(t)] # NoCursor /\ Goto(t, At(t, "pull"))
  <2>1. /\ ExchangeOK(db', node', discarded') /\ db.known \subseteq db'.known
        /\ \A e \in Entities : ShownOK(e, db', node', tab, discarded')
        /\ OwnIds(db', counts')
    BY <1>1, <1>4, SeededOK
  <2>2. \A u \in Tabs : TabOK(tab[u], db'.known, node', discarded')
    BY <1>1, <2>1, TabKnowsMore DEF IInv, Invariant
  <2>3. node' \in Node BY <2>1 DEF ExchangeOK, NodeOK
  <2>4. db.download[Key(t)] \in Download \cup {NoDownload}
    BY <1>2, InExchange DEF Database
  <2>5. \E x : /\ tab' = [tab EXCEPT ![t] = x]
               /\ HoldsNothing(x) /\ x.batch = {}
    <3>1. {"download", "create", "pull"} \subseteq Places \ {"begin", "receive"}
      BY DEF Places
    <3>2. CASE Goto(t, [At(t, "download") EXCEPT !.copy = db.download[Key(t)]])
      <4>1. "download" \in Places \ {"begin", "receive"} BY <3>1
      <4> QED BY <1>2, <2>4, <3>2, <4>1, GoneOn DEF Goto
    <3>3. CASE Goto(t, At(t, "create"))
      <4>1. "create" \in Places \ {"begin", "receive"} BY <3>1
      <4> QED BY <1>2, <2>4, <3>3, <4>1, GoneOn DEF Goto
    <3>4. CASE Goto(t, At(t, "pull"))
      <4>1. "pull" \in Places \ {"begin", "receive"} BY <3>1
      <4> QED BY <1>2, <2>4, <3>4, <4>1, GoneOn DEF Goto
    <3> QED BY <1>4, <3>2, <3>3, <3>4
  <2>6. PICK x : /\ tab' = [tab EXCEPT ![t] = x]
                 /\ HoldsNothing(x) /\ x.batch = {}
    BY <2>5
  <2>7. TabOK(x, db'.known, node', discarded') /\ x.page = NoPage
    BY <2>3, <2>6, EmptyHanded DEF HoldsNothing
  <2> QED BY <1>1, <2>1, <2>2, <2>6, <2>7, TabStep
<1> QED BY <1>3, <1>4 DEF Initialize

LEMMA CreateStep ==
    ASSUME IInv, NEW t \in Tabs, Create(t)
    PROVE  IInv'
<1> DEFINE s == Taken(node)
           at == At(t, "begin")
           x == [at EXCEPT !.snapshot = s]
<1>1. /\ tab[t].at = "create" /\ node' = Snap(node) /\ tab' = [tab EXCEPT ![t] = x]
      /\ db' = db /\ discarded' = discarded /\ setting' = setting /\ counts' = counts
      /\ counts \in Counts(setting) /\ OwnIds(db, counts) /\ tab \in [Tabs -> Tab]
  BY DEF Create, Goto, IInv, Invariant
<1>2. /\ NodeOK(node) /\ node \in Node /\ ExchangeOK(db, node, discarded)
      /\ Key(t) \in Epochs /\ tab[t] \in Tab
  BY <1>1, InExchange
<1>3. s \in Snapshot /\ Whole(node, s, Ops(node.log)) BY <1>2, TakenOK
<1>4. NodeOK(node') /\ Grown(node, node') /\ node'.log = node.log
  <2>1. node.lost \ {s} \in SUBSET Snapshot BY <1>2 DEF Node
  <2> QED BY <1>1, <1>2, <2>1, LostSet DEF Snap
<1>5. \A op \in Ops(node'.log) : op.replicaId = Device => op \in db.known
  BY <1>2, <1>4 DEF ExchangeOK, Sent
<1>6. /\ ExchangeOK(db', node', discarded')
      /\ \A u \in Tabs : TabOK(tab[u], db'.known, node', discarded')
      /\ \A e \in Entities : ShownOK(e, db', node', tab, discarded')
  BY <1>1, <1>2, <1>4, <1>5, NodeGrows DEF IInv, Invariant
<1>7. /\ x \in Tab /\ x.at = "begin" /\ x.epoch # 0 /\ x.snapshot = s /\ x.page = NoPage
      /\ x.batch = {} /\ x.sending = {}
  <2>1. "begin" \in Places BY DEF Places
  <2>2. /\ at \in Tab /\ at.at = "begin" /\ at.epoch = Key(t) /\ at.page = NoPage
        /\ at.batch = {} /\ at.sending = {}
    BY <1>2, <2>1, AtFields DEF Key
  <2>3. Key(t) # 0 BY <1>2 DEF Epochs
  <2> HIDE DEF at, s
  <2> QED BY <1>3, <2>2, <2>3 DEF Tab
<1> HIDE DEF x, s
<1>8. TabOK(x, db'.known, node', discarded')
  <2>1. node' \in Node BY <1>4 DEF NodeOK
  <2>2. Place(s) /\ s # NoSnapshot
    <3>1. s.epoch # 0 BY <1>3 DEF Snapshot, Epochs
    <3> QED BY <1>3, <3>1, Positions DEF NoSnapshot
  <2>3. Ops(node.log) \subseteq Sent(node', discarded') BY <1>4 DEF Sent
  <2>4. Whole(node', s, Sent(node', discarded'))
    BY <1>2, <1>3, <1>4, <2>1, <2>2, <2>3, WholeGrown
  <2>5. Ops(NoPage.ops) = {} BY DEF NoPage, Ops
  <2>6. Covered(node', NoPage.cursor, db'.known \cup {})
    BY <2>1, NothingCovered DEF NoPage
  <2> QED BY <1>7, <2>2, <2>4, <2>5, <2>6 DEF TabOK
<1> QED BY <1>1, <1>6, <1>7, <1>8, TabStep

LEMMA BeginStep ==
    ASSUME IInv, NEW t \in Tabs, Begin(t)
    PROVE  IInv'
<1>1. /\ node' = node /\ discarded' = discarded /\ setting' = setting /\ counts' = counts
      /\ UNCHANGED Environment /\ tab[t].at = "begin" /\ tab[t].at # "idle"
  BY DEF Begin, Environment
<1>2. CASE Throw(t) /\ UNCHANGED db BY <1>1, <1>2, ThrowStep
<1>3. CASE /\ db' = Begun(db, Key(t), tab[t].snapshot)
           /\ Goto(t, [At(t, "download") EXCEPT !.copy = db'.download[Key(t)]])
  <2> DEFINE w == [snapshot |-> tab[t].snapshot, pages |-> 0, expected |-> db.cursor[Key(t)]]
  <2>1. /\ Key(t) \in Epochs /\ tab[t] \in Tab /\ TabOK(tab[t], db.known, node, discarded)
        /\ db \in Database /\ DatabaseOK(db) /\ ExchangeOK(db, node, discarded)
    BY <1>1, InExchange
  <2>2. tab[t].snapshot \in Snapshot BY <1>1, <2>1 DEF TabOK, Tab
  <2>3. w \in Download BY <2>1, <2>2 DEF Download, Database
  <2>4. Whole(node, w.snapshot, Sent(node, discarded)) BY <2>1 DEF TabOK
  <2>5. db' = [db EXCEPT !.download[Key(t)] = w] BY <1>3 DEF Begun
  <2> HIDE DEF w
  <2>6. /\ DatabaseOK(db') /\ SameData(db, db') /\ db'.cursor = db.cursor
        /\ db'.download = [db.download EXCEPT ![Key(t)] = w]
    BY <2>1, <2>3, <2>5, DownloadSet
  <2>7. /\ db'.download[Key(t)] = w
        /\ \A k \in Epochs \ {Key(t)} : db'.download[k] = db.download[k]
    BY <2>1, <2>6 DEF Database
  <2>8. \A k \in Epochs : Whole(node, db'.download[k].snapshot, Sent(node, discarded))
    BY <2>1, <2>4, <2>7 DEF ExchangeOK
  <2> DEFINE x == [At(t, "download") EXCEPT !.copy = w]
  <2>9. HoldsNothing(x) /\ x.batch = {}
    <3>1. "download" \in Places \ {"begin", "receive"} BY DEF Places
    <3> QED BY <1>1, <2>3, <3>1, GoneOn
  <2>10. tab' = [tab EXCEPT ![t] = x] BY <1>3, <2>7 DEF Goto
  <2> HIDE DEF x
  <2> QED BY <1>1, <2>6, <2>8, <2>9, <2>10, BookkeepingStep DEF SameData
<1> QED BY <1>2, <1>3 DEF Begin

LEMMA StageStep ==
    ASSUME IInv, NEW t \in Tabs, Stage(t)
    PROVE  IInv'
<1>1. /\ node' = node /\ discarded' = discarded /\ setting' = setting /\ counts' = counts
      /\ UNCHANGED Environment /\ tab[t].at = "download" /\ tab[t].at # "idle"
  BY DEF Stage, Environment
<1>2. /\ Key(t) \in Epochs /\ tab[t] \in Tab /\ db \in Database /\ DatabaseOK(db)
      /\ node \in Node /\ ExchangeOK(db, node, discarded)
      /\ tab[t].epoch \in Epochs \cup {0}
  BY <1>1, InExchange
<1>3. CASE Throw(t) /\ UNCHANGED db BY <1>1, <1>3, ThrowStep
<1>4. ASSUME NEW w \in Download \cup {NoDownload}, db' = [db EXCEPT !.download[Key(t)] = w],
             Whole(node, w.snapshot, Sent(node, discarded)),
             NEW x, tab' = [tab EXCEPT ![t] = x], HoldsNothing(x), x.batch = {}
      PROVE  IInv'
  <2>1. /\ DatabaseOK(db') /\ SameData(db, db') /\ db'.cursor = db.cursor
        /\ db'.download = [db.download EXCEPT ![Key(t)] = w]
    BY <1>2, <1>4, DownloadSet
  <2>2. /\ db'.download[Key(t)] = w
        /\ \A k \in Epochs \ {Key(t)} : db'.download[k] = db.download[k]
    BY <1>2, <2>1 DEF Database
  <2>3. \A k \in Epochs : Whole(node, db'.download[k].snapshot, Sent(node, discarded))
    BY <1>2, <1>4, <2>2 DEF ExchangeOK
  <2> QED BY <1>1, <1>4, <2>1, <2>3, BookkeepingStep DEF SameData
<1>5. CASE db' = Abandoned(db, Key(t)) /\ Throw(t)
  <2>1. Whole(node, NoDownload.snapshot, Sent(node, discarded))
    BY <1>2, NothingCovered DEF NoDownload
  <2> QED BY <1>2, <1>4, <1>5, <2>1, IdleFields DEF Throw, Goto, Abandoned, HoldsNothing
<1>6. CASE /\ Expects(db, Key(t), tab[t].copy) /\ db' = Staged(db, Key(t))
           /\ Goto(t, [At(t, "download") EXCEPT !.copy = db'.download[Key(t)]])
  <2> DEFINE w == [db.download[Key(t)] EXCEPT !.pages = @ + 1]
             x == [At(t, "download") EXCEPT !.copy = w]
  <2>1. db.download[Key(t)] \in Download BY <1>2, <1>6 DEF Expects, Database
  <2>2. w \in Download /\ w.snapshot = db.download[Key(t)].snapshot BY <2>1 DEF Download
  <2>3. Whole(node, w.snapshot, Sent(node, discarded)) BY <1>2, <2>2 DEF ExchangeOK
  <2>4. db' = [db EXCEPT !.download[Key(t)] = w] /\ db'.download[Key(t)] = w
    BY <1>2, <1>6 DEF Staged, Database
  <2> HIDE DEF w
  <2>5. HoldsNothing(x) /\ x.batch = {}
    <3>1. "download" \in Places \ {"begin", "receive"} BY DEF Places
    <3> QED BY <1>1, <2>2, <3>1, GoneOn
  <2>6. tab' = [tab EXCEPT ![t] = x] BY <1>6, <2>4 DEF Goto
  <2> HIDE DEF x
  <2> QED BY <1>4, <2>2, <2>3, <2>4, <2>5, <2>6
<1> QED BY <1>3, <1>5, <1>6 DEF Stage

LEMMA FinishStep ==
    ASSUME IInv, NEW t \in Tabs, Finish(t)
    PROVE  IInv'
<1>1. /\ node' = node /\ discarded' = discarded /\ setting' = setting /\ counts' = counts
      /\ UNCHANGED Environment /\ tab[t].at = "download" /\ tab[t].at # "idle"
      /\ counts \in Counts(setting) /\ OwnIds(db, counts)
      /\ \A u \in Tabs : TabOK(tab[u], db.known, node, discarded)
      /\ \A e \in Entities : ShownOK(e, db, node, tab, discarded)
  BY DEF Finish, Environment, IInv, Invariant
<1>2. CASE Throw(t) /\ UNCHANGED db BY <1>1, <1>2, ThrowStep
<1>3. CASE Mergeable(db, Key(t)) /\ Goto(t, At(t, "pull")) /\ db' = Finished(db, Key(t))
  <2> DEFINE key == Key(t)
             s == db.download[key].snapshot
             c == [epoch |-> s.epoch, seq |-> s.seq]
             r == Finished(db, key)
  <2>1. /\ key \in Epochs /\ db \in Database /\ DatabaseOK(db) /\ node \in Node
        /\ ExchangeOK(db, node, discarded) /\ db.download[key] # NoDownload
    BY <1>1, <1>3, InExchange DEF Mergeable
  <2>2. Whole(node, s, Sent(node, discarded)) BY <2>1 DEF ExchangeOK
  <2> HIDE DEF key
  <2>3. /\ Takes(r, db, key, s.known, c)
        /\ r.download = [db.download EXCEPT ![key] = NoDownload]
    BY <2>1, <2>2, FinishedOK
  <2>4. s.known \subseteq Sent(node, discarded) /\ Covered(node, s, s.known)
    BY <2>2 DEF Whole
  <2>5. Covered(node, c, r.known) /\ (c.epoch = node.epoch => Upto(node.log, c.seq) \subseteq s.known)
    BY <2>3, <2>4 DEF Takes, Covered
  <2>6. \A k \in Epochs : Whole(node, r.download[k].snapshot, Sent(node, discarded))
    <3>1. Whole(node, NoDownload.snapshot, Sent(node, discarded))
      BY <2>1, NothingCovered DEF NoDownload
    <3>2. \A k \in Epochs : r.download[k] = NoDownload \/ r.download[k] = db.download[k]
      BY <2>1, <2>3 DEF Takes, Database
    <3> QED BY <2>1, <3>1, <3>2 DEF ExchangeOK
  <2> HIDE DEF s, r, c
  <2>7. /\ ExchangeOK(r, node, discarded)
        /\ \A op \in r.known : op.replicaId = Device => op \in db.known
        /\ \A e \in Entities : ShownOK(e, r, node, tab, discarded)
    BY <1>1, <2>1, <2>3, <2>4, <2>5, <2>6, NewsOK
  <2>8. \A u \in Tabs : TabOK(tab[u], r.known, node, discarded)
    BY <1>1, <2>3, TabKnowsMore DEF Takes
  <2> DEFINE x == At(t, "pull")
  <2>9. HoldsNothing(x) /\ x.batch = {}
    <3>1. "pull" \in Places \ {"begin", "receive"} BY DEF Places
    <3> QED BY <1>1, <3>1, GoneOn
  <2>10. tab' = [tab EXCEPT ![t] = x] BY <1>3 DEF Goto
  <2> HIDE DEF x
  <2>11. TabOK(x, r.known, node, discarded) /\ x.page = NoPage
    BY <2>1, <2>9, EmptyHanded DEF HoldsNothing
  <2>12. OwnIds(r, counts) BY <1>1, <2>7 DEF OwnIds
  <2>13. db' = r BY <1>3 DEF r, key
  <2> QED BY <1>1, <2>13, <2>7, <2>8, <2>9, <2>10, <2>11, <2>12, TabStep
<1> QED BY <1>2, <1>3 DEF Finish

LEMMA PullStep ==
    ASSUME IInv, NEW t \in Tabs, Pull(t)
    PROVE  IInv'
<1> DEFINE key == Key(t)
           sent == Sent(node, discarded)
<1>1. /\ node' = node /\ discarded' = discarded /\ setting' = setting /\ counts' = counts
      /\ tab[t].at = "pull" /\ tab[t].at # "idle"
      /\ setting \in Settings /\ counts \in Counts(setting) /\ OwnIds(db, counts)
      /\ tab \in [Tabs -> Tab]
      /\ \A u \in Tabs : TabOK(tab[u], db.known, node, discarded)
      /\ \A e \in Entities : ShownOK(e, db, node, tab, discarded)
  BY DEF Pull, Environment, IInv, Invariant
<1>2. /\ key \in Epochs /\ tab[t] \in Tab /\ db \in Database /\ DatabaseOK(db)
      /\ node \in Node /\ NodeOK(node) /\ ExchangeOK(db, node, discarded)
  BY <1>1, InExchange
<1>3. CASE /\ db' = [Abandoned(db, Key(t)) EXCEPT !.cursor[Key(t)] = NoCursor]
           /\ Goto(t, Recovering(t))
  <2>1. /\ DatabaseOK(db') /\ SameData(db, db')
        /\ db'.cursor = [db.cursor EXCEPT ![key] = NoCursor]
        /\ db'.download = [db.download EXCEPT ![key] = NoDownload]
    BY <1>2, <1>3, CursorForgotten
  <2>2. \A k \in Epochs : db'.cursor[k] = db.cursor[k] \/ db'.cursor[k] = NoCursor
    BY <1>2, <2>1 DEF Database
  <2>3. \A k \in Epochs : Whole(node, db'.download[k].snapshot, sent)
    <3>1. Whole(node, NoDownload.snapshot, sent) BY <1>2, NothingCovered DEF NoDownload
    <3>2. \A k \in Epochs : db'.download[k] = NoDownload \/ db'.download[k] = db.download[k]
      BY <1>2, <2>1 DEF Database
    <3> QED BY <1>2, <3>1, <3>2 DEF ExchangeOK
  <2> DEFINE x == Recovering(t)
  <2>4. HoldsNothing(x) /\ x.batch = {}
    <3>1. CASE tab[t].recovering
      <4>1. x = Idle(0) BY <3>1 DEF Recovering
      <4> QED BY <4>1, IdleFields DEF HoldsNothing
    <3>2. CASE ~tab[t].recovering
      <4>1. x = [Idle(node.epoch) EXCEPT !.at = "initialize", !.recovering = TRUE]
        BY <3>2 DEF Recovering
      <4>2. node.epoch \in Epochs BY <1>2 DEF Node
      <4>3. node.epoch # 0 BY <4>2 DEF Epochs
      <4> HIDE DEF x
      <4> QED BY <4>1, <4>2, <4>3 DEF Idle, Tab, Places, HoldsNothing
    <3> QED BY <3>1, <3>2
  <2>5. tab' = [tab EXCEPT ![t] = x] BY <1>3 DEF Goto
  <2> HIDE DEF x, sent, key
  <2> QED BY <1>1, <2>1, <2>2, <2>3, <2>4, <2>5, BookkeepingStep DEF SameData, sent
<1>4. CASE /\ ~CursorRefused(node, db.cursor[Key(t)])
           /\ Goto(t, [At(t, "receive") EXCEPT !.page = Changes(node, db.cursor[Key(t)])])
           /\ UNCHANGED db
  <2> DEFINE c == db.cursor[key]
             page == Changes(node, c)
             at == At(t, "receive")
             x == [at EXCEPT !.page = page]
  <2>1. c \in Cursor \cup {NoCursor} /\ Covered(node, c, db.known)
    BY <1>2 DEF Database, ExchangeOK
  <2>2. /\ page \in Page /\ page.cursor.epoch = node.epoch
        /\ page.cursor.seq <= Len(node.log) /\ Ops(page.ops) \subseteq Ops(node.log)
        /\ c.epoch = node.epoch \/ Upto(node.log, c.seq) = {}
        /\ Upto(node.log, page.cursor.seq) \subseteq Upto(node.log, c.seq) \cup Ops(page.ops)
    BY <1>2, <1>4, <2>1, ChangesOK
  <2>3. tab' = [tab EXCEPT ![t] = x] BY <1>4 DEF Goto
  <2>4. /\ at \in Tab /\ at.at = "receive" /\ at.epoch = key /\ at.snapshot = NoSnapshot
        /\ at.batch = {} /\ at.sending = {}
    <3>1. "receive" \in Places BY DEF Places
    <3> QED BY <1>2, <3>1, AtFields DEF Key
  <2>5. key # 0 BY <1>2 DEF Epochs
  <2>6. page # NoPage
    <3>1. page.cursor.epoch # 0 BY <1>2, <2>2 DEF Node, Epochs
    <3> QED BY <3>1 DEF NoPage, NoCursor
  <2> HIDE DEF at, page, key
  <2>7. /\ x \in Tab /\ x.at = "receive" /\ x.epoch = key /\ x.snapshot = NoSnapshot
        /\ x.page = page /\ x.batch = {} /\ x.sending = {}
    BY <2>2, <2>4 DEF Tab
  <2> HIDE DEF x, c
  <2>8. TabOK(x, db.known, node, discarded)
    <3>1. Whole(node, NoSnapshot, Sent(node, discarded)) BY <1>2, NothingCovered
    <3>2. Ops(page.ops) \subseteq Sent(node, discarded) BY <2>2 DEF Sent
    <3>3. Covered(node, page.cursor, db.known \cup Ops(page.ops))
      <4>1. node.epoch \in Nat BY <1>2 DEF Node, Epochs
      <4>2. Upto(node.log, c.seq) \subseteq db.known BY <2>1, <2>2 DEF Covered
      <4> QED BY <2>2, <4>1, <4>2 DEF Covered
    <3> QED BY <2>5, <2>6, <2>7, <3>1, <3>2, <3>3 DEF TabOK
  <2>9. /\ tab' \in [Tabs -> Tab] /\ tab'[t] = x
        /\ \A u \in Tabs \ {t} : tab'[u] = tab[u]
    BY <1>1, <2>3, <2>7
  <2>10. \A u \in Tabs : TabOK(tab'[u], db.known, node, discarded) BY <1>1, <2>8, <2>9
  <2>11. ASSUME NEW op, Unseen(op, db, node, tab, discarded)
         PROVE  Unseen(op, db, node, tab', discarded)
    <3>1. op \in discarded \/ (c.epoch = node.epoch => op \notin Upto(node.log, c.seq))
      BY <1>2, <2>11 DEF Unseen, c
    <3>2. op \in discarded \/ (op \in Upto(node.log, page.cursor.seq) => op \in Ops(page.ops))
      BY <2>2, <3>1
    <3> QED BY <2>7, <2>9, <2>11, <3>2 DEF Unseen
  <2>12. \A e \in Entities : ShownOK(e, db, node, tab', discarded)
    BY <1>1, <2>11 DEF ShownOK, Shows, Waiting
  <2> QED BY <1>1, <1>2, <1>4, <2>9, <2>10, <2>12 DEF IInv, Invariant
<1> QED BY <1>3, <1>4 DEF Pull

LEMMA ReceiveStep ==
    ASSUME IInv, NEW t \in Tabs, ReceiveChanges(t)
    PROVE  IInv'
<1> DEFINE key == Key(t)
           page == tab[t].page
           r == ReceivePage(db, key, page)
           x == IF page.more THEN At(t, "pull") ELSE Remaining(t, db.outbox)
<1>1. /\ node' = node /\ discarded' = discarded /\ setting' = setting /\ counts' = counts
      /\ tab[t].at = "receive" /\ tab[t].at # "idle" /\ db' = r
      /\ tab' = [tab EXCEPT ![t] = x]
      /\ counts \in Counts(setting) /\ OwnIds(db, counts)
      /\ \A u \in Tabs : TabOK(tab[u], db.known, node, discarded)
      /\ \A e \in Entities : ShownOK(e, db, node, tab, discarded)
  BY DEF ReceiveChanges, Environment, IInv, Invariant, Goto
<1>2. /\ key \in Epochs /\ tab[t] \in Tab /\ db \in Database /\ DatabaseOK(db)
      /\ node \in Node /\ ExchangeOK(db, node, discarded)
      /\ tab[t].epoch \in Epochs \cup {0}
  BY <1>1, InExchange
<1>3. /\ page \in Page /\ Ops(page.ops) \subseteq Sent(node, discarded)
      /\ Covered(node, page.cursor, db.known \cup Ops(page.ops))
  BY <1>1, <1>2 DEF TabOK, Tab
<1>4. db.outbox \subseteq db.known /\ db.outbox \in SUBSET Operation
  BY <1>2 DEF DatabaseOK, Database
<1>5. HoldsNothing(x) /\ x.batch \subseteq db.known
  <2>1. CASE page.more
    <3>1. "pull" \in Places \ {"begin", "receive"} BY DEF Places
    <3>2. HoldsNothing(At(t, "pull")) /\ At(t, "pull").batch = {} BY <1>1, <3>1, GoneOn
    <3> QED BY <2>1, <3>2
  <2>2. CASE ~page.more BY <1>1, <1>4, <2>2, RemainingOK
  <2> QED BY <2>1, <2>2
<1> HIDE DEF x, key
<1>6. /\ Takes(r, db, key, Ops(page.ops), page.cursor) /\ r.download = db.download
  BY <1>2, <1>3, ReceivePageOK
<1> HIDE DEF r
<1>7. Covered(node, page.cursor, r.known) BY <1>3, <1>6 DEF Takes
<1>8. \A op : Unseen(op, db, node, tab, discarded) /\ page.cursor.epoch = node.epoch
                 /\ op \in Upto(node.log, page.cursor.seq) => op \in Ops(page.ops) \cup discarded
  BY DEF Unseen
<1>9. \A k \in Epochs : Whole(node, r.download[k].snapshot, Sent(node, discarded))
  BY <1>2, <1>6 DEF ExchangeOK
<1> HIDE DEF page
<1>10. /\ ExchangeOK(r, node, discarded)
       /\ \A op \in r.known : op.replicaId = Device => op \in db.known
       /\ \A e \in Entities : ShownOK(e, r, node, tab, discarded)
  BY <1>1, <1>2, <1>3, <1>6, <1>7, <1>8, <1>9, NewsOK
<1>11. \A u \in Tabs : TabOK(tab[u], r.known, node, discarded)
  BY <1>1, <1>6, TabKnowsMore DEF Takes
<1>12. TabOK(x, r.known, node, discarded) /\ x.page = NoPage
  BY <1>2, <1>5, <1>6, EmptyHanded DEF HoldsNothing, Takes
<1>13. OwnIds(r, counts) BY <1>1, <1>10 DEF OwnIds
<1> QED BY <1>1, <1>10, <1>11, <1>12, <1>13, TabStep

LEMMA PushStep ==
    ASSUME IInv, NEW t \in Tabs, Push(t)
    PROVE  IInv'
<1>1. /\ db' = db /\ discarded' = discarded /\ setting' = setting /\ counts' = counts
      /\ tab[t].at = "push" /\ tab[t].at # "idle"
      /\ counts \in Counts(setting) /\ OwnIds(db, counts) /\ tab \in [Tabs -> Tab]
      /\ \A u \in Tabs : TabOK(tab[u], db.known, node, discarded)
      /\ \A e \in Entities : ShownOK(e, db, node, tab, discarded)
  BY DEF Push, IInv, Invariant
<1>2. /\ tab[t] \in Tab /\ NodeOK(node) /\ ExchangeOK(db, node, discarded)
  BY <1>1, InExchange
<1> DEFINE y(op) == [tab[t] EXCEPT !.at = "acknowledge", !.sending = {op}]
<1>3. PICK op \in tab[t].batch : node' = Accept(node, op) /\ tab' = [tab EXCEPT ![t] = y(op)]
  BY DEF Push, Goto
<1> DEFINE x == y(op)
<1>4. op \in Operation /\ op \in db.known BY <1>1, <1>2 DEF TabOK, Tab
<1>5. /\ NodeOK(node') /\ Grown(node, node') /\ Ops(node'.log) = Ops(node.log) \cup {op}
  BY <1>2, <1>3, <1>4, AcceptOK
<1>6. \A o \in Ops(node'.log) : o.replicaId = Device => o \in db.known
  BY <1>2, <1>4, <1>5 DEF ExchangeOK, Sent
<1>7. /\ ExchangeOK(db, node', discarded)
      /\ \A u \in Tabs : TabOK(tab[u], db.known, node', discarded)
      /\ \A e \in Entities : ShownOK(e, db, node', tab, discarded)
  BY <1>1, <1>2, <1>5, <1>6, NodeGrows
<1>8. /\ x \in Tab /\ x.at = "acknowledge" /\ x.epoch = tab[t].epoch
      /\ x.snapshot = tab[t].snapshot /\ x.page = tab[t].page /\ x.batch = tab[t].batch
      /\ x.sending = {op}
  BY <1>2, <1>4 DEF Tab, Places
<1> HIDE DEF x
<1>9. TabOK(x, db.known, node', discarded)
  <2>1. TabOK(tab[t], db.known, node', discarded) BY <1>7
  <2>2. {op} \subseteq Sent(node', discarded) BY <1>5 DEF Sent
  <2> QED BY <1>1, <1>8, <2>1, <2>2 DEF TabOK
<1> QED BY <1>1, <1>3, <1>7, <1>8, <1>9, TabStep DEF x

LEMMA AcknowledgeStep ==
    ASSUME IInv, NEW t \in Tabs, Acknowledge(t)
    PROVE  IInv'
<1> DEFINE gone == tab[t].sending
           left == tab[t].batch \ gone
           x == Remaining(t, left)
<1>1. /\ node' = node /\ discarded' = discarded /\ setting' = setting /\ counts' = counts
      /\ tab[t].at = "acknowledge" /\ tab[t].at # "idle"
      /\ db' = [db EXCEPT !.outbox = @ \ gone] /\ tab' = [tab EXCEPT ![t] = x]
  BY DEF Acknowledge, Environment, Goto
<1>2. /\ tab[t] \in Tab /\ DatabaseOK(db) /\ ExchangeOK(db, node, discarded)
      /\ TabOK(tab[t], db.known, node, discarded) /\ tab[t].epoch \in Epochs \cup {0}
  BY <1>1, InExchange
<1>3. gone \subseteq Sent(node, discarded) /\ left \subseteq db.known /\ left \in SUBSET Operation
  BY <1>2 DEF TabOK, Tab
<1> HIDE DEF gone, left
<1>4. /\ DatabaseOK(db') /\ SamePlace(db, db') /\ db'.outbox = db.outbox \ gone
      /\ db'.known = db.known /\ db'.entities = db.entities /\ db'.shown = db.shown
  BY <1>1, <1>2, OutboxShrinks
<1>5. HoldsNothing(x) /\ x.batch \subseteq db.known BY <1>1, <1>3, RemainingOK
<1> HIDE DEF x
<1>6. db.outbox \subseteq db'.outbox \cup Sent(node, discarded) BY <1>3, <1>4
<1>7. /\ db'.cursor = db.cursor /\ db'.download = db.download /\ db'.paired = db.paired
  BY <1>4 DEF SamePlace
<1>8. \A k \in Epochs : Whole(node, db'.download[k].snapshot, Sent(node, discarded))
  BY <1>2, <1>7 DEF ExchangeOK
<1> QED BY <1>1, <1>4, <1>5, <1>6, <1>7, <1>8, BookkeepingStep

LEMMA FailStep ==
    ASSUME IInv, NEW t \in Tabs, Fail(t)
    PROVE  IInv'
<1>1. /\ db' = db /\ node' = node /\ discarded' = discarded /\ setting' = setting
      /\ counts.faults < setting.faults /\ counts' = [counts EXCEPT !.faults = @ + 1]
      /\ setting \in Settings /\ counts \in Counts(setting)
  BY DEF Fail, IInv, Invariant
<1>2. PICK epoch \in {0, tab[t].epoch} : tab' = [tab EXCEPT ![t] = Idle(epoch)] BY DEF Fail
<1>3. epoch \in Epochs \cup {0} BY InExchange
<1>4. HoldsNothing(Idle(epoch)) /\ Idle(epoch).batch = {} BY <1>3, IdleFields DEF HoldsNothing
<1>5. counts' \in Counts(setting) /\ counts'.edits = counts.edits
  BY <1>1, SettingTypes DEF Counts
<1> QED BY <1>1, <1>2, <1>4, <1>5, TabOnly

-----------------------------------------------------------------------------
(* The person, the other devices, and the operator.                        *)

\* A transaction of the person: its operations are new, because no operation of
\* this browser has its id yet.
LEMMA CommitStep ==
    ASSUME IInv, counts.edits < setting.edits, NEW ops \in Seq(Operation),
           LocalWrites(ops, db.clock), Commit(ops),
           \A op \in Ops(ops) : op.replicaId = Device /\ op.operationId = counts.edits + 1
    PROVE  IInv'
<1> DEFINE w == WriteAll(db, ops)
<1>1. /\ db' = w /\ node' = node /\ tab' = tab /\ setting' = setting /\ discarded' = discarded
      /\ counts' = [counts EXCEPT !.edits = @ + 1]
      /\ setting \in Settings /\ counts \in Counts(setting) /\ tab \in [Tabs -> Tab]
      /\ ExchangeOK(db, node, discarded) /\ OwnIds(db, counts)
      /\ \A t \in Tabs : TabOK(tab[t], db.known, node, discarded)
      /\ \A e \in Entities : ShownOK(e, db, node, tab, discarded)
  BY DEF Commit, IInv, Invariant
<1>2. counts.edits \in Nat BY <1>1, SettingTypes DEF Counts
<1>3. \A op \in Ops(ops) : op \notin Sent(node, discarded)
  <2>1. \A op \in db.known : op.replicaId = Device => op.operationId # counts.edits + 1
    <3> SUFFICES ASSUME NEW op \in db.known, op.replicaId = Device,
                        op.operationId = counts.edits + 1
                 PROVE  FALSE
      OBVIOUS
    <3>1. op.operationId <= counts.edits BY <1>1 DEF OwnIds
    <3> QED BY <1>2, <3>1
  <2> QED BY <1>1, <2>1 DEF ExchangeOK
<1>4. /\ ExchangeOK(w, node, discarded) /\ w.known = db.known \cup Ops(ops)
      /\ \A e \in Entities : ShownOK(e, w, node, tab, discarded)
  BY <1>1, <1>3, WritesOK
<1> HIDE DEF w
<1>5. \A t \in Tabs : TabOK(tab[t], w.known, node, discarded) BY <1>1, <1>4, TabKnowsMore
<1>6. counts' \in Counts(setting) /\ counts'.edits = counts.edits + 1
  BY <1>1, <1>2, SettingTypes DEF Counts
<1>7. OwnIds(w, counts')
  <2> SUFFICES ASSUME NEW op \in w.known, op.replicaId = Device
               PROVE  op.operationId <= counts.edits + 1
    BY <1>6 DEF OwnIds
  <2>1. CASE op \in Ops(ops) BY <1>2, <2>1
  <2>2. CASE op \in db.known
    <3>1. op.operationId <= counts.edits BY <1>1, <2>2 DEF OwnIds
    <3>2. op.operationId \in Nat
      BY <1>1, <2>2, OrderAssumption DEF ExchangeOK, DatabaseOK, StateOK, Database, Operation
    <3> QED BY <1>2, <3>1, <3>2
  <2> QED BY <1>4, <2>1, <2>2
<1> QED BY <1>1, <1>4, <1>5, <1>6, <1>7 DEF IInv, Invariant

\* The operation op of this browser's next transaction writes e with this clock.
Writes(op, e, clock, patch, unset) ==
    /\ op \in Operation /\ op.replicaId = Device /\ op.operationId = counts.edits + 1
    /\ op.entity = e /\ op.clock = clock /\ op.patch = patch /\ op.unset = unset
    /\ ~op.progress

LEMMA LocalOpType ==
    ASSUME IInv, counts.edits < setting.edits, NEW e \in Entities, NEW clock \in Nat,
           NEW patch \in SUBSET Keys, NEW unset \in SUBSET Keys
    PROVE  LET op(deleted) == LocalOp(e, counts.edits + 1, clock, patch, unset, deleted)
           IN  Writes(op(FALSE), e, clock, patch, unset) /\ Writes(op(TRUE), e, clock, patch, unset)
<1>1. setting \in Settings /\ counts.edits \in 0 .. setting.edits
  BY DEF IInv, Invariant, Counts
<1>2. counts.edits + 1 \in 0 .. setting.edits /\ 0 .. setting.edits \subseteq Ids
  BY <1>1, SettingTypes
<1>3. counts.edits + 1 \in Ids BY <1>2
<1> QED BY <1>3, BrowserAssumption DEF BrowserAssumption, LocalOp, Operation, Writes

\* What a put commits.
LEMMA PutOne ==
    ASSUME IInv, NEW e \in Entities, Put(e)
    PROVE  \E op \in Operation :
              /\ Commit(<<op>>)
              /\ op.replicaId = Device /\ op.operationId = counts.edits + 1
              /\ op.entity = e /\ db.clock < op.clock /\ ~op.progress
              /\ counts.edits < setting.edits
<1>1. PICK clock \in db.clock + 1 .. setting.clock :
        \E patch \in SUBSET EditKeys, unset \in SUBSET (Shown(db, e) \cap EditKeys) :
           Commit(<<LocalOp(e, counts.edits + 1, clock, patch, unset, FALSE)>>)
  BY DEF Put
<1>2. PICK patch \in SUBSET EditKeys, unset \in SUBSET (Shown(db, e) \cap EditKeys) :
        Commit(<<LocalOp(e, counts.edits + 1, clock, patch, unset, FALSE)>>)
  BY <1>1
<1> DEFINE op == LocalOp(e, counts.edits + 1, clock, patch, unset, FALSE)
<1>3. counts.edits < setting.edits BY DEF Put
<1>4. db.clock \in Nat /\ setting \in Settings
  BY DEF IInv, Invariant, ExchangeOK, DatabaseOK, StateOK, Database
<1>5. clock \in Nat /\ db.clock < clock BY <1>4, SettingTypes
<1>6. patch \in SUBSET Keys /\ unset \in SUBSET Keys BY <1>4, SettingTypes
<1>7. Writes(op, e, clock, patch, unset) BY <1>3, <1>5, <1>6, LocalOpType
<1>8. Commit(<<op>>) BY <1>2
<1> HIDE DEF op
<1> QED BY <1>3, <1>5, <1>7, <1>8 DEF Writes

\* A transaction of one operation.
LEMMA OneWrite ==
    ASSUME NEW op \in Operation, NEW c \in Nat, c < op.clock, ~op.progress
    PROVE  <<op>> \in Seq(Operation) /\ Ops(<<op>>) = {op} /\ LocalWrites(<<op>>, c)
<1>1. op.clock \in Nat BY DEF Operation
<1> QED BY <1>1 DEF Ops, LocalWrites

LEMMA PutStep ==
    ASSUME IInv, NEW e \in Entities, Put(e)
    PROVE  IInv'
<1>1. PICK op \in Operation :
         /\ Commit(<<op>>)
         /\ op.replicaId = Device /\ op.operationId = counts.edits + 1
         /\ op.entity = e /\ db.clock < op.clock /\ ~op.progress
         /\ counts.edits < setting.edits
  BY PutOne
<1>2. db.clock \in Nat BY DEF IInv, Invariant, ExchangeOK, DatabaseOK, StateOK, Database
<1>3. <<op>> \in Seq(Operation) /\ Ops(<<op>>) = {op} /\ LocalWrites(<<op>>, db.clock)
  BY <1>1, <1>2, OneWrite
<1> QED BY <1>1, <1>3, CommitStep

\* What a deletion commits: operations without fields, with clocks that go up.
LEMMA DeleteAll ==
    ASSUME IInv, NEW e \in Entities, Delete(e)
    PROVE  \E ops \in Seq(Operation) :
              /\ Commit(ops) /\ LocalWrites(ops, db.clock) /\ counts.edits < setting.edits
              /\ \A op \in Ops(ops) : /\ op.replicaId = Device
                                      /\ op.operationId = counts.edits + 1
                                      /\ op.patch = {} /\ op.unset = {}
<1> DEFINE S == {e} \cup (Owned[e] \cap Visible(db))
<1>1. PICK order \in Orders(S) :
        \E clock \in db.clock + 1 .. setting.clock :
           Commit([i \in 1 .. Len(order) |->
                     LocalOp(order[i], counts.edits + 1, clock + i - 1, {}, {}, TRUE)])
  BY DEF Delete
<1>2. PICK clock \in db.clock + 1 .. setting.clock :
           Commit([i \in 1 .. Len(order) |->
                     LocalOp(order[i], counts.edits + 1, clock + i - 1, {}, {}, TRUE)])
  BY <1>1
<1> DEFINE ops == [i \in 1 .. Len(order) |->
                     LocalOp(order[i], counts.edits + 1, clock + i - 1, {}, {}, TRUE)]
<1>3. S \in SUBSET Entities BY ServerAssumption DEF ServerAssumption, Visible
<1>4. order \in Seq(Entities)
  <2>1. Cardinality(S) \in Nat
    BY <1>3, ServerAssumption, FS_Subset, FS_CardinalityType DEF ServerAssumption
  <2>2. order \in [1 .. Cardinality(S) -> Entities] BY <1>1, <1>3 DEF Orders
  <2> HIDE DEF S
  <2> QED BY <2>1, <2>2
<1>5. db.clock \in Nat /\ setting \in Settings
  BY DEF IInv, Invariant, ExchangeOK, DatabaseOK, StateOK, Database
<1>6. clock \in Nat /\ db.clock < clock BY <1>5, SettingTypes
<1>7. counts.edits < setting.edits BY DEF Delete
<1>8. Len(order) \in Nat /\ DOMAIN order = 1 .. Len(order) BY <1>4
<1>9. ASSUME NEW i \in 1 .. Len(order)
      PROVE  Writes(ops[i], order[i], clock + i - 1, {}, {})
  <2>1. order[i] \in Entities BY <1>4
  <2>2. clock + i - 1 \in Nat BY <1>6, <1>8
  <2>3. {} \in SUBSET Keys OBVIOUS
  <2>4. ops[i] = LocalOp(order[i], counts.edits + 1, clock + i - 1, {}, {}, TRUE) OBVIOUS
  <2> HIDE DEF ops
  <2> QED BY <1>7, <2>1, <2>2, <2>3, <2>4, LocalOpType
<1>10. ops \in Seq(Operation) /\ Len(ops) = Len(order) /\ DOMAIN ops = 1 .. Len(order)
  <2>1. ops = [i \in 1 .. Len(order) |-> ops[i]] OBVIOUS
  <2> HIDE DEF ops
  <2>2. ops \in [1 .. Len(order) -> Operation] BY <1>9, <2>1 DEF Writes
  <2> QED BY <1>8, <2>2
<1>11. Commit(ops) BY <1>2
<1> HIDE DEF ops
<1>12. LocalWrites(ops, db.clock) BY <1>5, <1>6, <1>8, <1>9, <1>10 DEF LocalWrites, Writes
<1>13. \A op \in Ops(ops) : /\ op.replicaId = Device /\ op.operationId = counts.edits + 1
                            /\ op.patch = {} /\ op.unset = {}
  BY <1>9, <1>10 DEF Ops, Writes
<1> QED BY <1>7, <1>10, <1>11, <1>12, <1>13

LEMMA DeleteStep ==
    ASSUME IInv, NEW e \in Entities, Delete(e)
    PROVE  IInv'
<1>1. PICK ops \in Seq(Operation) :
         /\ Commit(ops) /\ LocalWrites(ops, db.clock) /\ counts.edits < setting.edits
         /\ \A op \in Ops(ops) : /\ op.replicaId = Device
                                 /\ op.operationId = counts.edits + 1
                                 /\ op.patch = {} /\ op.unset = {}
  BY DeleteAll
<1> QED BY <1>1, CommitStep

\* A step of the node alone.
LEMMA NodeStep ==
    ASSUME IInv, db' = db, tab' = tab, setting' = setting, discarded' = discarded,
           counts' \in Counts(setting), counts'.edits = counts.edits,
           NodeOK(node'), Grown(node, node'),
           \A op \in Ops(node'.log) : op.replicaId = Device => op \in db.known
    PROVE  IInv'
<1>1. /\ setting \in Settings /\ tab \in [Tabs -> Tab]
      /\ ExchangeOK(db, node, discarded) /\ OwnIds(db, counts)
      /\ \A t \in Tabs : TabOK(tab[t], db.known, node, discarded)
      /\ \A e \in Entities : ShownOK(e, db, node, tab, discarded)
  BY DEF IInv, Invariant
<1>2. /\ ExchangeOK(db, node', discarded)
      /\ \A t \in Tabs : TabOK(tab[t], db.known, node', discarded)
      /\ \A e \in Entities : ShownOK(e, db, node', tab, discarded)
  BY <1>1, NodeGrows
<1>3. OwnIds(db, counts') BY <1>1 DEF OwnIds
<1> QED BY <1>1, <1>2, <1>3 DEF IInv, Invariant

\* An order of finitely many operations.
LEMMA OrderOK ==
    ASSUME NEW S \in SUBSET Operation, IsFiniteSet(S), NEW order \in Orders(S)
    PROVE  order \in Seq(S)
<1>1. Cardinality(S) \in Nat BY FS_CardinalityType
<1>2. order \in [1 .. Cardinality(S) -> S] BY DEF Orders
<1> QED BY <1>1, <1>2

\* The children that a deletion takes along are finitely many operations of the
\* replica that deletes.
LEMMA CascadeOK ==
    ASSUME NEW n \in Node, NEW op \in Operation
    PROVE  /\ IsFiniteSet(Cascade(n, op)) /\ Cascade(n, op) \in SUBSET Operation
           /\ \A child \in Cascade(n, op) : child.replicaId = op.replicaId
<1> DEFINE T == {y \in Owned[op.entity] \ {op.entity} :
                    Current(n)[y].present /\ ~Current(n)[y].deleted}
           child(x) == [op EXCEPT !.entity = x, !.patch = {}, !.unset = {}, !.progress = FALSE]
           S == {child(x) : x \in T}
<1>1. T \in SUBSET Entities BY ServerAssumption DEF ServerAssumption, Operation
<1>2. IsFiniteSet(T) BY <1>1, ServerAssumption, FS_Subset DEF ServerAssumption
<1> HIDE DEF T
<1>3. \A x \in T : child(x) \in Operation /\ child(x).replicaId = op.replicaId
  BY <1>1 DEF Operation
<1> HIDE DEF child
<1>4. IsFiniteSet(S)
  <2> DEFINE f == [x \in T |-> child(x)]
  <2>1. f \in Surjection(T, S) BY DEF Surjection
  <2> HIDE DEF f, S
  <2> QED BY <1>2, <2>1, FS_Surjection
<1>5. S \in SUBSET Operation /\ \A c \in S : c.replicaId = op.replicaId BY <1>3
<1>6. Cascade(n, op) = IF op.deleted THEN S ELSE {} BY DEF Cascade, S, T, child
<1> HIDE DEF S
<1> QED BY <1>4, <1>5, <1>6, FS_EmptySet

LEMMA OtherAccepted ==
    ASSUME IInv, NEW e \in Entities, Other(e)
    PROVE  /\ db' = db /\ tab' = tab /\ setting' = setting /\ discarded' = discarded
           /\ counts' \in Counts(setting) /\ counts'.edits = counts.edits
           /\ NodeOK(node') /\ Grown(node, node')
           /\ \A op \in Ops(node'.log) \ Ops(node.log) : op.replicaId # Device
<1>1. /\ db' = db /\ tab' = tab /\ setting' = setting /\ discarded' = discarded
      /\ counts.others < setting.others /\ counts' = [counts EXCEPT !.others = @ + 1]
      /\ setting \in Settings /\ counts \in Counts(setting)
      /\ ExchangeOK(db, node, discarded) /\ NodeOK(node) /\ node \in Node
  BY DEF Other, IInv, Invariant, ExchangeOK, NodeOK
<1>2. PICK r \in Replicas \ {Device}, clock \in 1 .. setting.clock, patch \in SUBSET EditKeys,
           deleted \in BOOLEAN :
              LET op == [operationId |-> counts.others + 1, replicaId |-> r,
                         entity |-> e, clock |-> clock, patch |-> patch, unset |-> {},
                         progress |-> FALSE, deleted |-> deleted]
              IN  /\ deleted <=> patch = {}
                  /\ \E children \in {{}, Cascade(node, op)} : \E order \in Orders(children) :
                        node' = AcceptAll(node, <<op>> \o order)
  BY Zenon DEF Other
<1> DEFINE o == [operationId |-> counts.others + 1, replicaId |-> r,
                 entity |-> e, clock |-> clock, patch |-> patch, unset |-> {},
                 progress |-> FALSE, deleted |-> deleted]
<1>3. \E children \in {{}, Cascade(node, o)} : \E order \in Orders(children) :
         node' = AcceptAll(node, <<o>> \o order)
  BY <1>2
<1>4. o \in Operation /\ o.replicaId = r
  <2>1. counts.others + 1 \in Ids
    <3>1. counts.others + 1 \in 0 .. setting.others BY <1>1, SettingTypes DEF Counts
    <3> QED BY <1>1, <3>1, SettingTypes
  <2>2. clock \in Nat /\ patch \in SUBSET Keys BY <1>1, SettingTypes
  <2> QED BY <2>1, <2>2 DEF Operation
<1> HIDE DEF o
<1>5. PICK children \in {{}, Cascade(node, o)} : \E order \in Orders(children) :
         node' = AcceptAll(node, <<o>> \o order)
  BY <1>3
<1>6. PICK order \in Orders(children) : node' = AcceptAll(node, <<o>> \o order) BY <1>5
<1> DEFINE ops == <<o>> \o order
<1>7. /\ children \in SUBSET Operation /\ IsFiniteSet(children)
      /\ \A c \in children : c.replicaId = r
  BY <1>1, <1>4, CascadeOK, FS_EmptySet
<1>8. order \in Seq(children) BY <1>7, OrderOK
<1>9. /\ ops \in Seq(Operation)
      /\ \A c \in Ops(ops) : c = o \/ c \in children
  <2>1. order \in Seq(Operation) BY <1>7, <1>8
  <2>2. ops \in Seq(Operation) BY <1>4, <2>1
  <2>3. ASSUME NEW i \in 1 .. Len(ops) PROVE ops[i] = o \/ ops[i] \in children
    BY <1>4, <1>8, <2>1, <2>3
  <2>4. DOMAIN ops = 1 .. Len(ops) BY <2>2
  <2> HIDE DEF ops
  <2> QED BY <2>2, <2>3, <2>4 DEF Ops
<1>10. node' = AcceptAll(node, ops) BY <1>6
<1> HIDE DEF ops
<1>11. /\ NodeOK(node') /\ Grown(node, node')
       /\ Ops(node'.log) \subseteq Ops(node.log) \cup Ops(ops)
  BY <1>1, <1>9, <1>10, AcceptAllOK
<1>12. \A c \in Ops(node'.log) \ Ops(node.log) : c.replicaId # Device
  BY <1>4, <1>7, <1>9, <1>11
<1>13. counts' \in Counts(setting) /\ counts'.edits = counts.edits
  BY <1>1, SettingTypes DEF Counts
<1> QED BY <1>1, <1>11, <1>12, <1>13

LEMMA OtherStep ==
    ASSUME IInv, NEW e \in Entities, Other(e)
    PROVE  IInv'
<1>1. \A op \in Ops(node'.log) : op.replicaId = Device => op \in db.known
  BY OtherAccepted DEF IInv, Invariant, ExchangeOK, Sent
<1> QED BY <1>1, OtherAccepted, NodeStep

\* The snapshots that may be asked for are snapshots of the node.
LEMMA WantedType ==
    ASSUME IInv
    PROVE  Wanted \subseteq Snapshot
<1>1. db \in Database /\ tab \in [Tabs -> Tab]
  BY DEF IInv, Invariant, ExchangeOK, DatabaseOK, StateOK
<1>2. \A k \in Epochs : db.download[k].snapshot \in Snapshot \cup {NoSnapshot} BY <1>1, Held
<1>3. \A t \in Tabs : /\ tab[t].copy.snapshot \in Snapshot \cup {NoSnapshot}
                      /\ tab[t].snapshot \in Snapshot \cup {NoSnapshot}
  BY <1>1, Held
<1> QED BY <1>2, <1>3 DEF Wanted

LEMMA ExpireStep ==
    ASSUME IInv, Expire
    PROVE  IInv'
<1>1. /\ db' = db /\ tab' = tab /\ setting' = setting /\ discarded' = discarded
      /\ counts.faults < setting.faults /\ counts' = [counts EXCEPT !.faults = @ + 1]
      /\ setting \in Settings /\ counts \in Counts(setting)
      /\ ExchangeOK(db, node, discarded) /\ NodeOK(node) /\ node \in Node
  BY DEF Expire, IInv, Invariant, ExchangeOK, NodeOK
<1>2. PICK s \in Wanted \ node.lost : node' = [node EXCEPT !.lost = @ \cup {s}] BY DEF Expire
<1> DEFINE lost == node.lost \cup {s}
<1>3. lost \in SUBSET Snapshot BY <1>1, WantedType DEF Node
<1>4. node' = [node EXCEPT !.lost = lost] BY <1>1, <1>2 DEF Node
<1> HIDE DEF lost
<1>5. NodeOK(node') /\ Grown(node, node') /\ node'.log = node.log BY <1>1, <1>3, <1>4, LostSet
<1>6. \A c \in Ops(node'.log) : c.replicaId = Device => c \in db.known
  BY <1>1, <1>5 DEF ExchangeOK, Sent
<1>7. counts' \in Counts(setting) /\ counts'.edits = counts.edits
  BY <1>1, SettingTypes DEF Counts
<1> QED BY <1>1, <1>5, <1>6, <1>7, NodeStep

LEMMA RestoreStep ==
    ASSUME IInv, Restore
    PROVE  IInv'
<1>1. /\ db' = db /\ tab' = tab /\ setting' = setting /\ counts' = counts
      /\ node.epoch < setting.epochs
      /\ setting \in Settings /\ counts \in Counts(setting) /\ tab \in [Tabs -> Tab]
      /\ ExchangeOK(db, node, discarded) /\ node \in Node /\ OwnIds(db, counts)
      /\ \A t \in Tabs : TabOK(tab[t], db.known, node, discarded)
      /\ \A e \in Entities : ShownOK(e, db, node, tab, discarded)
  BY DEF Restore, IInv, Invariant, ExchangeOK, NodeOK
<1>2. PICK seq \in 0 .. Len(node.log) :
         /\ \E later \in {Wanted, {s \in Wanted : s.epoch = node.epoch /\ s.seq > seq}} :
               node' = Restored(node, seq, later)
         /\ discarded' = discarded \cup (Ops(node.log) \ Upto(node.log, seq))
  BY DEF Restore
<1>3. PICK later \in {Wanted, {s \in Wanted : s.epoch = node.epoch /\ s.seq > seq}} :
         node' = Restored(node, seq, later)
  BY <1>2
<1>4. later \in SUBSET Snapshot BY WantedType
<1>5. node.epoch + 1 \in Epochs BY <1>1, SettingTypes, ServerAssumption DEF Node, Epochs, ServerAssumption
<1> DEFINE m == Restored(node, seq, later)
           more == discarded \cup (Ops(node.log) \ Upto(node.log, seq))
<1>6. /\ ExchangeOK(db, m, more)
      /\ \A t \in Tabs : TabOK(tab[t], db.known, m, more)
      /\ \A e \in Entities : ShownOK(e, db, m, tab, more)
  BY <1>1, <1>4, <1>5, NodeRestored
<1>7. node' = m /\ discarded' = more BY <1>2, <1>3
<1> HIDE DEF m, more
<1> QED BY <1>1, <1>6, <1>7 DEF IInv, Invariant

-----------------------------------------------------------------------------
(* Every step.                                                             *)

LEMMA InvariantNext ==
    ASSUME IInv, Early(db, tab), [Next]_vars
    PROVE  IInv'
<1>1. ASSUME NEW t \in Tabs, Exchange(t) PROVE IInv'
  BY <1>1, StartStep, InitializeStep, CreateStep, BeginStep, StageStep, FinishStep, PullStep,
     ReceiveStep, PushStep, AcknowledgeStep
  DEF Exchange
<1>2. ASSUME NEW t \in Tabs, Fail(t) PROVE IInv' BY <1>2, FailStep
<1>3. ASSUME NEW e \in Entities, Put(e) \/ Delete(e) \/ Other(e) PROVE IInv'
  BY <1>3, PutStep, DeleteStep, OtherStep
<1>4. CASE Expire BY <1>4, ExpireStep
<1>5. CASE Restore BY <1>5, RestoreStep
<1>6. CASE UNCHANGED vars BY <1>6 DEF vars, IInv
<1> QED BY <1>1, <1>2, <1>3, <1>4, <1>5, <1>6 DEF Next

\* A step of an exchange pairs the browser, or a tab past that step of its exchange
\* finds it paired and leaves it so.
LEMMA EarlyExchange ==
    ASSUME IInv, Early(db, tab), NEW t \in Tabs, Exchange(t)
    PROVE  Early(db', tab')
<1>1. db \in Database /\ tab \in [Tabs -> Tab] /\ DatabaseOK(db)
  BY InExchange DEF IInv, Invariant
<1>2. CASE Start(t)
  <2> DEFINE epoch == IF tab[t].epoch = 0 THEN node.epoch ELSE tab[t].epoch
             x == [Idle(epoch) EXCEPT !.at = "initialize"]
  <2>1. db' = db /\ tab' = [tab EXCEPT ![t] = x] BY <1>2 DEF Start, Goto
  <2>2. x.at = "initialize" BY DEF Idle
  <2> HIDE DEF x
  <2>3. \A u \in Tabs : tab'[u].at \in {tab[u].at, "initialize"} BY <1>1, <2>1, <2>2
  <2> QED BY <2>1, <2>3 DEF Early
<1>3. CASE Initialize(t)
  <2>1. CASE Throw(t) /\ UNCHANGED db
    <3>1. tab' = [tab EXCEPT ![t] = Idle(tab[t].epoch)] BY <2>1 DEF Throw, Goto
    <3>2. \A u \in Tabs : tab'[u].at \in {tab[u].at, "idle"} BY <1>1, <3>1 DEF Idle
    <3> QED BY <2>1, <3>2 DEF Early
  <2>2. CASE db' = Seeded
    <3>1. db'.paired = TRUE /\ db'.seeded = TRUE BY <1>1, <2>2 DEF Seeded, Database
    <3> QED BY <3>1 DEF Early
  <2> QED BY <1>3, <2>1, <2>2 DEF Initialize
<1>4. ASSUME tab[t].at \notin {"idle", "initialize"},
             db'.paired = db.paired, db'.seeded = db.seeded
      PROVE  Early(db', tab')
  BY <1>4 DEF Early
<1>5. CASE Create(t) \/ Push(t) BY <1>4, <1>5 DEF Create, Push
<1>6. CASE Begin(t)
  <2>1. tab[t].at = "begin" /\ (db' = db \/ db' = Begun(db, Key(t), tab[t].snapshot))
    BY <1>6 DEF Begin
  <2>2. db'.paired = db.paired /\ db'.seeded = db.seeded BY <1>1, <2>1 DEF Begun, Database
  <2> QED BY <1>4, <2>1, <2>2
<1>7. CASE Stage(t)
  <2>1. tab[t].at = "download"
        /\ (db' = db \/ db' = Abandoned(db, Key(t)) \/ db' = Staged(db, Key(t)))
    BY <1>7 DEF Stage
  <2>2. db'.paired = db.paired /\ db'.seeded = db.seeded
    BY <1>1, <2>1 DEF Abandoned, Staged, Database
  <2> QED BY <1>4, <2>1, <2>2
<1>8. CASE Finish(t)
  <2>1. tab[t].at = "download" /\ (db' = db \/ db' = Finished(db, Key(t))) BY <1>8 DEF Finish
  <2>2. db'.paired = db.paired /\ db'.seeded = db.seeded BY <1>1, <2>1 DEF Finished, Database
  <2> QED BY <1>4, <2>1, <2>2
<1>9. CASE Pull(t)
  <2>1. tab[t].at = "pull"
        /\ (db' = db \/ db' = [Abandoned(db, Key(t)) EXCEPT !.cursor[Key(t)] = NoCursor])
    BY <1>9 DEF Pull
  <2>2. db'.paired = db.paired /\ db'.seeded = db.seeded BY <1>1, <2>1 DEF Abandoned, Database
  <2> QED BY <1>4, <2>1, <2>2
<1>10. CASE ReceiveChanges(t)
  <2>1. tab[t].at = "receive" /\ db' = ReceivePage(db, Key(t), tab[t].page)
    BY <1>10 DEF ReceiveChanges
  <2>2. db'.paired = db.paired /\ db'.seeded = db.seeded
    BY <1>1, <2>1 DEF ReceivePage, Database
  <2> QED BY <1>4, <2>1, <2>2
<1>11. CASE Acknowledge(t)
  <2>1. tab[t].at = "acknowledge" /\ db' = [db EXCEPT !.outbox = @ \ tab[t].sending]
    BY <1>11 DEF Acknowledge
  <2>2. db'.paired = db.paired /\ db'.seeded = db.seeded BY <1>1, <2>1 DEF Database
  <2> QED BY <1>4, <2>1, <2>2
<1> QED BY <1>2, <1>3, <1>5, <1>6, <1>7, <1>8, <1>9, <1>10, <1>11 DEF Exchange

\* What is written before the browser is paired is unpaired, and waits.
LEMMA EarlyCommit ==
    ASSUME IInv, Early(db, tab), NEW ops \in Seq(Operation), Commit(ops),
           LocalWrites(ops, db.clock)
    PROVE  Early(db', tab')
<1>1. DatabaseOK(db) BY DEF IInv, Invariant, ExchangeOK
<1>2. db' = WriteAll(db, ops) /\ tab' = tab BY DEF Commit
<1>3. /\ SamePlace(db, db') /\ db'.known = db.known \cup Ops(ops)
      /\ db'.outbox = db.outbox \cup Ops(ops)
      /\ ~db.paired => db'.unpaired = db.unpaired \cup Ops(ops)
  BY <1>1, <1>2, WriteAllOK
<1> QED BY <1>2, <1>3 DEF Early, SamePlace

LEMMA EarlyNext ==
    ASSUME IInv, Early(db, tab), [Next]_vars
    PROVE  Early(db', tab')
<1>1. ASSUME NEW t \in Tabs, Exchange(t) PROVE Early(db', tab') BY <1>1, EarlyExchange
<1>2. ASSUME NEW t \in Tabs, Fail(t) PROVE Early(db', tab')
  <2>1. PICK epoch : tab' = [tab EXCEPT ![t] = Idle(epoch)] BY <1>2 DEF Fail
  <2>2. db' = db /\ tab \in [Tabs -> Tab] BY <1>2 DEF Fail, IInv, Invariant
  <2>3. \A u \in Tabs : tab'[u].at \in {tab[u].at, "idle"} BY <2>1, <2>2 DEF Idle
  <2> QED BY <2>2, <2>3 DEF Early
<1>3. ASSUME NEW e \in Entities, Put(e) PROVE Early(db', tab')
  <2>1. PICK op \in Operation : Commit(<<op>>) /\ db.clock < op.clock /\ ~op.progress
    BY <1>3, PutOne
  <2>2. db.clock \in Nat BY DEF IInv, Invariant, ExchangeOK, DatabaseOK, StateOK, Database
  <2> QED BY <2>1, <2>2, OneWrite, EarlyCommit
<1>4. ASSUME NEW e \in Entities, Delete(e) PROVE Early(db', tab')
  BY <1>4, DeleteAll, EarlyCommit
<1>5. CASE db' = db /\ tab' = tab BY <1>5
<1>6. CASE \E e \in Entities : Other(e) BY <1>5, <1>6 DEF Other
<1>7. CASE Expire \/ Restore \/ UNCHANGED vars BY <1>5, <1>7 DEF Expire, Restore, vars
<1> QED BY <1>1, <1>2, <1>3, <1>4, <1>6, <1>7 DEF Next

-----------------------------------------------------------------------------
(* What a step brings into the database.                                   *)

\* Of the operations of this browser a snapshot or a page brings none that was
\* not known: the node has only those that were sent to it.
LEMMA NothingOwnTaken ==
    ASSUME IInv, NEW news, news \subseteq Sent(node, discarded),
           db'.known = db.known \cup news
    PROVE  Own' \ Own = {}
<1>1. \A op \in Sent(node, discarded) : op.replicaId = Device => op \in db.known
  BY DEF IInv, Invariant, ExchangeOK
<1> QED BY <1>1 DEF Own

\* Seeding brings operations with the clock 0.
LEMMA SeedsHaveNoClock ==
    ASSUME IInv, db' = Seeded
    PROVE  \A op \in Own' \ Own : op.clock = 0
<1>1. \A e \in Untouched : SeedOp(e).clock = 0 BY SeedOne
<1>2. db \in Database BY DEF IInv, Invariant, ExchangeOK, DatabaseOK, StateOK
<1>3. db'.known \subseteq db.known \cup {SeedOp(e) : e \in Untouched}
  BY <1>2 DEF Seeded, Database
<1> QED BY <1>1, <1>3 DEF Own

\* No step of an exchange brings an operation of this browser with a clock.
LEMMA ExchangeBringsNone ==
    ASSUME IInv, NEW t \in Tabs, Exchange(t)
    PROVE  \A op \in Own' \ Own : op.clock = 0
<1>1. /\ db \in Database /\ DatabaseOK(db) /\ node \in Node
      /\ ExchangeOK(db, node, discarded)
  BY InExchange
<1>2. CASE db'.known = db.known BY <1>2 DEF Own
<1>3. CASE Start(t) \/ Create(t) \/ Push(t) BY <1>2, <1>3 DEF Start, Create, Push
<1>4. CASE Initialize(t) BY <1>2, <1>4, SeedsHaveNoClock DEF Initialize
<1>5. CASE Begin(t)
  <2>1. db' = db \/ db' = Begun(db, Key(t), tab[t].snapshot) BY <1>5 DEF Begin
  <2> QED BY <1>1, <1>2, <2>1 DEF Begun, Database
<1>6. CASE Stage(t)
  <2>1. db' = db \/ db' = Abandoned(db, Key(t)) \/ db' = Staged(db, Key(t)) BY <1>6 DEF Stage
  <2> QED BY <1>1, <1>2, <2>1 DEF Abandoned, Staged, Database
<1>7. CASE Finish(t)
  <2>1. CASE db' = db BY <1>2, <2>1
  <2>2. CASE Mergeable(db, Key(t)) /\ db' = Finished(db, Key(t))
    <3> DEFINE s == db.download[Key(t)].snapshot
    <3>1. tab[t].at # "idle" BY <1>7 DEF Finish
    <3>2. Key(t) \in Epochs BY <3>1, InExchange
    <3>3. s.known \subseteq Sent(node, discarded) BY <1>1, <3>2 DEF ExchangeOK, Whole
    <3>4. db'.known = db.known \cup s.known BY <1>1, <2>2 DEF Finished, Database
    <3> QED BY <3>3, <3>4, NothingOwnTaken
  <2> QED BY <1>7, <2>1, <2>2 DEF Finish
<1>8. CASE Pull(t)
  <2>1. db' = db \/ db' = [Abandoned(db, Key(t)) EXCEPT !.cursor[Key(t)] = NoCursor]
    BY <1>8 DEF Pull
  <2> QED BY <1>1, <1>2, <2>1 DEF Abandoned, Database
<1>9. CASE ReceiveChanges(t)
  <2> DEFINE key == Key(t)
             page == tab[t].page
  <2>1. tab[t].at = "receive" /\ db' = ReceivePage(db, key, page) BY <1>9 DEF ReceiveChanges
  <2>2. key \in Epochs /\ TabOK(tab[t], db.known, node, discarded) BY <2>1, InExchange
  <2>3. page \in Page /\ Ops(page.ops) \subseteq Sent(node, discarded)
    BY <2>1, <2>2 DEF TabOK, Tab
  <2> HIDE DEF key, page
  <2>4. Takes(ReceivePage(db, key, page), db, key, Ops(page.ops), page.cursor)
    BY <1>1, <2>2, <2>3, ReceivePageOK
  <2>5. db'.known = db.known \cup Ops(page.ops) BY <2>1, <2>4 DEF Takes
  <2> QED BY <2>3, <2>5, NothingOwnTaken
<1>10. CASE Acknowledge(t)
  <2>1. db' = [db EXCEPT !.outbox = @ \ tab[t].sending] BY <1>10 DEF Acknowledge
  <2> QED BY <1>1, <1>2, <2>1 DEF Database
<1> QED BY <1>3, <1>4, <1>5, <1>6, <1>7, <1>8, <1>9, <1>10 DEF Exchange

\* What a person puts is what the database then says.
LEMMA PutWins ==
    ASSUME IInv, NEW e \in Entities, Put(e), NEW op \in Own' \ Own,
           NEW k \in op.patch \cup op.unset
    PROVE  db'.entities[op.entity].fields[k] = FieldOf(op, k)
<1>1. PICK o \in Operation : Commit(<<o>>) /\ db.clock < o.clock BY PutOne
<1>2. db \in Database /\ StateOK(db, db.known)
  BY DEF IInv, Invariant, ExchangeOK, DatabaseOK, StateOK
<1>3. db' = Write(db, o) BY <1>1, <1>2, WriteAllOne DEF Commit
<1>4. op = o
  <2>1. db'.known = db.known \cup {o} BY <1>2, <1>3, WriteFields
  <2> QED BY <2>1 DEF Own
<1> QED BY <1>1, <1>2, <1>3, <1>4, WriteWins

\* A deletion writes no field.
LEMMA DeletePutsNothing ==
    ASSUME IInv, NEW e \in Entities, Delete(e), NEW op \in Own' \ Own
    PROVE  op.patch \cup op.unset = {}
<1>1. PICK ops \in Seq(Operation) :
         /\ Commit(ops) /\ LocalWrites(ops, db.clock)
         /\ \A o \in Ops(ops) : o.patch = {} /\ o.unset = {}
  BY DeleteAll
<1>2. DatabaseOK(db) BY DEF IInv, Invariant, ExchangeOK
<1>3. db'.known = db.known \cup Ops(ops) BY <1>1, <1>2, WriteAllOK DEF Commit
<1> QED BY <1>1, <1>3 DEF Own

\* EditWins of one step.
EditWon ==
    \A op \in Own' \ Own :
       op.clock > 0 => \A k \in op.patch \cup op.unset :
                          db'.entities[op.entity].fields[k] = FieldOf(op, k)

LEMMA EditWinsNext ==
    ASSUME IInv, [Next]_vars
    PROVE  EditWon
<1>1. ASSUME NEW t \in Tabs, Exchange(t) PROVE EditWon
  <2>1. \A op \in Own' \ Own : op.clock = 0 BY <1>1, ExchangeBringsNone
  <2> QED BY <2>1 DEF EditWon
<1>2. ASSUME NEW e \in Entities, Put(e) PROVE EditWon BY <1>2, PutWins DEF EditWon
<1>3. ASSUME NEW e \in Entities, Delete(e) PROVE EditWon BY <1>3, DeletePutsNothing DEF EditWon
<1>4. ASSUME db' = db PROVE EditWon BY <1>4 DEF EditWon, Own
<1>5. CASE \E t \in Tabs : Fail(t) BY <1>4, <1>5 DEF Fail
<1>6. CASE \E e \in Entities : Other(e) BY <1>4, <1>6 DEF Other
<1>7. CASE Expire \/ Restore \/ UNCHANGED vars BY <1>4, <1>7 DEF Expire, Restore, vars
<1> QED BY <1>1, <1>2, <1>3, <1>5, <1>6, <1>7 DEF Next

-----------------------------------------------------------------------------
(* The theorems.                                                           *)

LEMMA InvariantAlways == Spec => []IInv
<1> DEFINE Beginning == Early(db, tab)
<1>1. Init => IInv /\ Beginning
  <2>1. ASSUME Init PROVE Early(db, tab)
    <3>1. ~db.paired /\ ~db.seeded /\ db.seeded = db.paired /\ db.known = {} BY <2>1 DEF Init
    <3>2. \A t \in Tabs : tab[t].at = "idle" BY <2>1 DEF Init, Idle
    <3> QED BY <3>1, <3>2 DEF Early
  <2> QED BY <2>1, InvariantInit
<1>2. IInv /\ Beginning /\ [Next]_vars => IInv' /\ Beginning'
  BY InvariantNext, EarlyNext
<1> QED BY <1>1, <1>2, PTL DEF Spec

\* The database of the browser, the node and what the tabs hold are what the
\* code declares, in every reachable state.
THEOREM BrowserTypeOK == Spec => []TypeOK
<1>1. IInv => TypeOK BY InvariantImplies
<1> QED BY <1>1, InvariantAlways, PTL

\* Whatever fails, however many tabs interleave, and whichever backups are
\* restored, an operation written in this browser is in the outbox or reached
\* the node (initialize, exchange, syncRequest and the outbox of syncDatabase.ts).
THEOREM NoEditIsDropped == Spec => []Kept
<1>1. IInv => Kept BY InvariantImplies
<1> QED BY <1>1, InvariantAlways, PTL

\* The cursor of the present epoch has never passed an operation that the local
\* state lacks, although tabs pull and receive pages at the same time, answers
\* arrive late, and a snapshot may finish in between (receiveOperations,
\* finishSnapshot).
THEOREM CursorNeverPasses == Spec => []CursorCovered
<1>1. IInv => CursorCovered BY InvariantImplies
<1> QED BY <1>1, InvariantAlways, PTL

\* The local state is the view of the operations known here, whichever pages,
\* snapshots and edits came in which order, and what waits in the outbox is part
\* of it.
THEOREM LocalStateIsView == Spec => []Views
<1>1. IInv => Views BY InvariantImplies
<1> QED BY <1>1, InvariantAlways, PTL

\* A paired browser shows what its state says, however pages, snapshots and edits
\* interleave, but for a deleted record that one of its own edits wrote which has
\* still to come back or was lost (trackDatabase writes the record as the caller
\* gave it, materialize is applied when operations are received).
THEOREM ShownIsProjected == Spec => []Projected
<1>1. IInv => Projected BY InvariantImplies
<1> QED BY <1>1, InvariantAlways, PTL

\* A person's edit is what the database says after it, because the clock of the
\* browser is past every clock in the local state: of its own edits, of received
\* operations and of merged snapshots.
THEOREM EditsWin == Spec => EditWins
<1>1. IInv /\ [Next]_vars => EditWon BY EditWinsNext
<1>2. EditWins <=> [][EditWon]_vars BY PTL DEF EditWins, EditWon
<1> QED BY <1>1, <1>2, InvariantAlways, PTL DEF Spec
-----------------------------------------------------------------------------
(* The exchange implements Outbox.                                         *)

\* The data model of the outbox is that of the browser.
LEMMA SameModel ==
    /\ Copy!Operation = Operation /\ Copy!NoEntity = NoEntity
    /\ \A st, e, ops : Copy!IsView(st, e, ops) <=> IsView(st, e, ops)
<1>1. Copy!Operation = Operation BY DEF Copy!Operation, Operation
<1>2. Copy!NoField = NoField
  BY DEF Copy!NoField, NoField, Copy!NoStamp, NoStamp
<1>3. Copy!NoEntity = NoEntity BY <1>2 DEF Copy!NoEntity, NoEntity
<1>4. \A op : Copy!StampOf(op) = StampOf(op) BY DEF Copy!StampOf, StampOf
<1>5. \A op, k : Copy!FieldOf(op, k) = FieldOf(op, k) BY <1>4 DEF Copy!FieldOf, FieldOf
<1>6. \A op : Copy!Touched(op) = Touched(op) BY DEF Copy!Touched, Touched
<1>7. \A a, b : Copy!Before(a, b) <=> Before(a, b) BY DEF Copy!Before, Before
<1>8. \A field, k, ops : Copy!Newest(field, k, ops) <=> Newest(field, k, ops)
  BY <1>2, <1>4, <1>5, <1>6, <1>7 DEF Copy!Newest, Newest
<1>9. \A ops, e : Copy!About(ops, e) = About(ops, e) BY DEF Copy!About, About
<1>10. \A st, e, ops : Copy!IsView(st, e, ops) <=> IsView(st, e, ops)
  BY <1>8, <1>9 DEF Copy!IsView, IsView
<1> QED BY <1>1, <1>3, <1>10

\* What browser and node hold after a step is what they have absorbed.
LEMMA CopyShown ==
    ASSUME IInv'
    PROVE  Copy!Shown
<1>1. \A e \in Entities : IsView(db'.entities[e], e, db'.known)
  BY DEF IInv, Invariant, ExchangeOK, DatabaseOK, StateOK
<1>2. \A e \in Entities : IsView(Current(node')[e], e, Ops(node'.log))
  BY CurrentView DEF IInv, Invariant, ExchangeOK
<1> QED BY <1>1, <1>2, SameModel DEF Copy!Shown

\* A step that brings the browser nothing but what the node has or had.
LEMMA CopyLearns ==
    ASSUME NEW news, news \subseteq Sent(node, discarded), db'.known = db.known \cup news,
           db'.outbox = db.outbox, Ops(node'.log) = Ops(node.log), discarded' = discarded
    PROVE  Copy!Learn
BY DEF Copy!Learn, Sent

\* A step that changes none of what is promised.
LEMMA CopySame ==
    ASSUME db'.known = db.known, db'.outbox = db.outbox,
           Ops(node'.log) = Ops(node.log), discarded' = discarded
    PROVE  Copy!Learn
BY DEF Copy!Learn

\* A transaction of the person.
LEMMA CopyCommits ==
    ASSUME IInv, NEW ops \in Seq(Operation), Commit(ops), LocalWrites(ops, db.clock),
           \A op \in Ops(ops) : op.replicaId = Device /\ op.operationId = counts.edits + 1
    PROVE  Copy!Write
<1>1. /\ db' = WriteAll(db, ops) /\ node' = node /\ discarded' = discarded
      /\ DatabaseOK(db) /\ ExchangeOK(db, node, discarded) /\ OwnIds(db, counts)
      /\ counts.edits \in Nat /\ db.known \in SUBSET Operation
  BY SettingTypes DEF Commit, IInv, Invariant, ExchangeOK, DatabaseOK, StateOK, Database, Counts
<1>2. db'.known = db.known \cup Ops(ops) /\ db'.outbox = db.outbox \cup Ops(ops)
  BY <1>1, WriteAllOK
<1>3. Ops(ops) \subseteq Operation BY DEF Ops
<1>4. \A op \in Ops(ops) : op \notin db.known
  <2> SUFFICES ASSUME NEW op \in Ops(ops), op \in db.known PROVE FALSE
    OBVIOUS
  <2>1. op.operationId <= counts.edits /\ op.operationId = counts.edits + 1 BY <1>1 DEF OwnIds
  <2> QED BY <1>1, <2>1
<1>5. \A op \in Ops(ops) : op \notin Sent(node, discarded) BY <1>1, <1>4 DEF ExchangeOK
<1>6. db'.known \ db.known = Ops(ops) BY <1>2, <1>4
<1> QED BY <1>1, <1>2, <1>3, <1>5, <1>6, SameModel DEF Copy!Write, Sent

\* Seeding writes the operations of the records that are older than the tracking.
LEMMA CopySeeds ==
    ASSUME IInv, db' = Seeded, node' = node, discarded' = discarded
    PROVE  Copy!Write \/ Copy!Learn
<1> DEFINE new == {SeedOp(e) : e \in Untouched}
<1>1. /\ db \in Database /\ StateOK(db, db.known) /\ ExchangeOK(db, node, discarded)
  BY DEF IInv, Invariant, ExchangeOK, DatabaseOK, StateOK
<1>2. CASE db.seeded
  <2>1. db'.known = db.known /\ db'.outbox = db.outbox BY <1>1, <1>2 DEF Seeded, Database
  <2> QED BY <2>1, CopySame
<1>3. CASE ~db.seeded
  <2>1. db'.known = db.known \cup new /\ db'.outbox = db.outbox \cup new
    BY <1>1, <1>3 DEF Seeded, Database
  <2>2. \A op \in new : op \in Operation /\ op.replicaId = Device BY SeedOne
  <2>3. \A op \in new : op \notin db.known
    <3> SUFFICES ASSUME NEW e \in Untouched, SeedOp(e) \in db.known PROVE FALSE
      OBVIOUS
    <3>1. SeedOp(e).entity = e BY SeedOne
    <3>2. e \in Entities /\ ~db.entities[e].present BY DEF Untouched, Visible
    <3>3. About(db.known, e) = {} BY <1>1, <3>2 DEF StateOK, IsView
    <3> QED BY <3>1, <3>3 DEF About
  <2>4. \A op \in new : op \notin Sent(node, discarded) BY <1>1, <2>2, <2>3 DEF ExchangeOK
  <2> HIDE DEF new
  <2>5. db'.known \ db.known = new BY <2>1, <2>3
  <2> QED BY <2>1, <2>2, <2>4, <2>5, SameModel DEF Copy!Write, Sent
<1> QED BY <1>2, <1>3

\* A step of an exchange.
LEMMA CopyExchange ==
    ASSUME IInv, NEW t \in Tabs, Exchange(t)
    PROVE  Copy!Write \/ Copy!Deliver \/ Copy!Confirm \/ Copy!Learn
<1>1. /\ db \in Database /\ DatabaseOK(db) /\ node \in Node /\ NodeOK(node)
      /\ ExchangeOK(db, node, discarded) /\ TabOK(tab[t], db.known, node, discarded)
  BY InExchange DEF IInv, Invariant, ExchangeOK
<1>2. CASE Start(t) BY <1>2, CopySame DEF Start, Environment
<1>3. CASE Initialize(t)
  <2>1. node' = node /\ discarded' = discarded /\ (db' = db \/ db' = Seeded)
    BY <1>3 DEF Initialize, Environment
  <2> QED BY <2>1, CopySame, CopySeeds
<1>4. CASE Create(t)
  <2>1. node' = Snap(node) /\ db' = db /\ discarded' = discarded BY <1>4 DEF Create
  <2>2. Snap(node).log = node.log BY <1>1 DEF Snap, Node
  <2> QED BY <2>1, <2>2, CopySame
<1>5. CASE Begin(t)
  <2>1. /\ node' = node /\ discarded' = discarded
        /\ db' = db \/ db' = Begun(db, Key(t), tab[t].snapshot)
    BY <1>5 DEF Begin, Environment
  <2>2. db'.known = db.known /\ db'.outbox = db.outbox BY <1>1, <2>1 DEF Begun, Database
  <2> QED BY <2>1, <2>2, CopySame
<1>6. CASE Stage(t)
  <2>1. /\ node' = node /\ discarded' = discarded
        /\ db' = db \/ db' = Abandoned(db, Key(t)) \/ db' = Staged(db, Key(t))
    BY <1>6 DEF Stage, Environment
  <2>2. db'.known = db.known /\ db'.outbox = db.outbox
    BY <1>1, <2>1 DEF Abandoned, Staged, Database
  <2> QED BY <2>1, <2>2, CopySame
<1>7. CASE Finish(t)
  <2>1. node' = node /\ discarded' = discarded BY <1>7 DEF Finish, Environment
  <2>2. CASE db' = db BY <2>1, <2>2, CopySame
  <2>3. CASE db' = Finished(db, Key(t))
    <3> DEFINE s == db.download[Key(t)].snapshot
    <3>1. Key(t) \in Epochs BY <1>7, InExchange DEF Finish
    <3>2. s.known \subseteq Sent(node, discarded) BY <1>1, <3>1 DEF ExchangeOK, Whole
    <3>3. db'.known = db.known \cup s.known /\ db'.outbox = db.outbox
      BY <1>1, <2>3 DEF Finished, Database
    <3> QED BY <2>1, <3>2, <3>3, CopyLearns
  <2> QED BY <1>7, <2>2, <2>3 DEF Finish
<1>8. CASE Pull(t)
  <2>1. /\ node' = node /\ discarded' = discarded
        /\ db' = db \/ db' = [Abandoned(db, Key(t)) EXCEPT !.cursor[Key(t)] = NoCursor]
    BY <1>8 DEF Pull, Environment
  <2>2. db'.known = db.known /\ db'.outbox = db.outbox BY <1>1, <2>1 DEF Abandoned, Database
  <2> QED BY <2>1, <2>2, CopySame
<1>9. CASE ReceiveChanges(t)
  <2> DEFINE key == Key(t)
             page == tab[t].page
  <2>1. /\ tab[t].at = "receive" /\ db' = ReceivePage(db, key, page)
        /\ node' = node /\ discarded' = discarded
    BY <1>9 DEF ReceiveChanges, Environment
  <2>2. key \in Epochs BY <2>1, InExchange
  <2>3. page \in Page /\ Ops(page.ops) \subseteq Sent(node, discarded)
    BY <1>1, <2>1 DEF TabOK, Tab
  <2> HIDE DEF key, page
  <2>4. Takes(ReceivePage(db, key, page), db, key, Ops(page.ops), page.cursor)
    BY <1>1, <2>2, <2>3, ReceivePageOK
  <2>5. db'.known = db.known \cup Ops(page.ops) /\ db'.outbox = db.outbox
    BY <2>1, <2>4 DEF Takes
  <2> QED BY <2>1, <2>3, <2>5, CopyLearns
<1>10. CASE Push(t)
  <2>1. PICK op \in tab[t].batch : node' = Accept(node, op) BY <1>10 DEF Push
  <2>2. db' = db /\ discarded' = discarded BY <1>10 DEF Push
  <2>3. op \in db.known /\ op \in Operation BY <1>1, <2>1 DEF TabOK, Tab
  <2>4. Ops(node'.log) = Ops(node.log) \cup {op} BY <1>1, <2>1, <2>3, AcceptOK
  <2> QED BY <2>2, <2>3, <2>4 DEF Copy!Deliver
<1>11. CASE Acknowledge(t)
  <2>1. /\ db' = [db EXCEPT !.outbox = @ \ tab[t].sending]
        /\ node' = node /\ discarded' = discarded
    BY <1>11 DEF Acknowledge, Environment
  <2>2. db'.known = db.known /\ db'.outbox = db.outbox \ tab[t].sending
    BY <1>1, <2>1 DEF Database
  <2> QED BY <1>1, <2>1, <2>2 DEF Copy!Confirm, TabOK, Sent
<1> QED BY <1>2, <1>3, <1>4, <1>5, <1>6, <1>7, <1>8, <1>9, <1>10, <1>11 DEF Exchange

\* Every step of browser, node and other devices is one of the outbox.
LEMMA CopyStep ==
    ASSUME IInv, IInv', Next
    PROVE  Copy!Next
<1>1. Copy!Shown BY CopyShown
<1>2. ASSUME NEW t \in Tabs, Exchange(t) PROVE Copy!Next
  BY <1>1, <1>2, CopyExchange DEF Copy!Next
<1>3. ASSUME NEW t \in Tabs, Fail(t) PROVE Copy!Learn BY <1>3, CopySame DEF Fail
<1>4. ASSUME NEW e \in Entities, Put(e) PROVE Copy!Write
  <2>1. PICK op \in Operation :
           Commit(<<op>>) /\ op.replicaId = Device /\ op.operationId = counts.edits + 1
           /\ db.clock < op.clock /\ ~op.progress
    BY <1>4, PutOne
  <2>2. db.clock \in Nat BY DEF IInv, Invariant, ExchangeOK, DatabaseOK, StateOK, Database
  <2>3. <<op>> \in Seq(Operation) /\ Ops(<<op>>) = {op} /\ LocalWrites(<<op>>, db.clock)
    BY <2>1, <2>2, OneWrite
  <2> QED BY <2>1, <2>3, CopyCommits
<1>5. ASSUME NEW e \in Entities, Delete(e) PROVE Copy!Write
  BY <1>5, DeleteAll, CopyCommits
<1>6. ASSUME NEW e \in Entities, Other(e) PROVE Copy!Elsewhere
  <2>1. /\ node \in Node /\ NodeOK(node') /\ Grown(node, node') /\ node' \in Node
        /\ db' = db /\ discarded' = discarded
        /\ \A op \in Ops(node'.log) \ Ops(node.log) : op.replicaId # Device
    BY <1>6, OtherAccepted DEF IInv, Invariant, ExchangeOK, NodeOK
  <2>2. Sent(node, {}) \subseteq Sent(node', {}) BY <2>1, LogGrows
  <2>3. node'.log \in Seq(Operation) BY <2>1 DEF Node
  <2>4. Ops(node'.log) \subseteq Operation BY <2>3 DEF Ops
  <2> QED BY <2>1, <2>2, <2>4, SameModel DEF Copy!Elsewhere, Sent
<1>7. CASE Expire
  <2>1. /\ db' = db /\ discarded' = discarded
        /\ \E s \in Wanted \ node.lost : node' = [node EXCEPT !.lost = @ \cup {s}]
    BY <1>7 DEF Expire
  <2>2. node'.log = node.log BY <2>1 DEF IInv, Invariant, ExchangeOK, NodeOK, Node
  <2>3. Copy!Learn BY <2>1, <2>2, CopySame
  <2> QED BY <1>1, <2>3 DEF Copy!Next
<1>8. CASE Restore
  <2>1. PICK seq \in 0 .. Len(node.log) :
           /\ \E later \in {Wanted, {s \in Wanted : s.epoch = node.epoch /\ s.seq > seq}} :
                 node' = Restored(node, seq, later)
           /\ discarded' = discarded \cup (Ops(node.log) \ Upto(node.log, seq))
    BY <1>8 DEF Restore
  <2>2. /\ db' = db /\ NodeOK(node) /\ node.log \in Seq(Operation) /\ node.epoch + 1 \in Epochs
    BY <1>8, SettingTypes, ServerAssumption
    DEF Restore, IInv, Invariant, ExchangeOK, NodeOK, Node, Epochs, ServerAssumption
  <2>3. Ops(node'.log) = Upto(node.log, seq) BY <2>1, <2>2, WantedType, RestoredOK
  <2>4. Upto(node.log, seq) \subseteq Ops(node.log) BY <2>2, UptoPart
  <2>5. Copy!Restore BY <2>1, <2>2, <2>3, <2>4 DEF Copy!Restore
  <2> QED BY <1>1, <2>5 DEF Copy!Next
<1> QED BY <1>1, <1>2, <1>3, <1>4, <1>5, <1>6, <1>7, <1>8 DEF Next, Copy!Next

\* The exchange implements Outbox: whatever is lost, delayed or restored, an edit
\* waits until the node has it, the browser takes only what the node has or had and
\* never forgets, and both hold what they have absorbed.
THEOREM BrowserImplements == Spec => Promise
<1>1. Init => Copy!Init
  <2>1. /\ Current(EmptyNode) = Nothing /\ Ops(EmptyNode.log) = {}
    BY EmptyNodeOK DEF Current, TableAt, EmptyNode
  <2> QED BY <2>1, SameModel DEF Init, Nothing, Copy!Init
<1>2. IInv /\ IInv' /\ [Next]_vars => [Copy!Next]_(Copy!vars)
  <2>1. UNCHANGED vars => UNCHANGED Copy!vars BY DEF vars, Copy!vars
  <2> QED BY <2>1, CopyStep
<1> QED BY <1>1, <1>2, InvariantAlways, PTL DEF Spec, Promise, Copy!Spec
=============================================================================
