----------------------------- MODULE BrowserStore -----------------------------
(***************************************************************************)
(* The IndexedDB of the web application: the records a person sees, the    *)
(* synchronised state behind them, the outbox, and the bookkeeping of the  *)
(* exchange (app/src/lib/syncDatabase.ts and syncSnapshots.ts).  Every     *)
(* operator is one read-write transaction and yields the database after it.*)
(***************************************************************************)
EXTENDS SyncServer

CONSTANT Device     \* the replica id of this browser

ASSUME BrowserAssumption == Device \in Replicas /\ IsFiniteSet(Keys)

\* A record shows of every key the version of its value.  A record that is
\* older than the tracking of changes shows values without a version.
Untracked == [clock |-> 0, replica |-> 0, operation |-> 0]
Record == [present : BOOLEAN, fields : [Keys -> Stamp \cup {NoStamp, Untracked}]]
NoRecord == [present |-> FALSE, fields |-> [k \in Keys |-> NoStamp]]

\* A download names its snapshot, the pages staged, and the cursor at the start.
Download == [snapshot : Snapshot, pages : Nat, expected : Cursor \cup {NoCursor}]
NoSnapshot == [epoch |-> 0, seq |-> 0, entities |-> Nothing, known |-> {}]
NoDownload == [snapshot |-> NoSnapshot, pages |-> 0, expected |-> NoCursor]

\* unpaired: the operations written before the browser was paired.  known is a
\* history component: the operations whose effects the state contains.
Database == [entities : Table, shown : [Entities -> Record],
             outbox : SUBSET Operation, unpaired : SUBSET Operation,
             known : SUBSET Operation, clock : Nat,
             paired : BOOLEAN, seeded : BOOLEAN,
             cursor : [Epochs -> Cursor \cup {NoCursor}],
             download : [Epochs -> Download \cup {NoDownload}]]

\* materialize: what a state shows.
Materialized(st) ==
    [present |-> st.present /\ ~st.deleted,
     fields  |-> [k \in Keys |-> IF ~st.deleted /\ k \in Live(st)
                                 THEN st.fields[k].version ELSE NoStamp]]

Shown(db, e) == {k \in Keys : db.shown[e].fields[k] # NoStamp}
Visible(db) == {e \in Entities : db.shown[e].present}

-----------------------------------------------------------------------------
(* Local writes (trackDatabase).                                           *)

\* What the store holds after a put or a delete, whatever the state says.
Written(record, op) ==
    IF op.deleted THEN NoRecord
    ELSE [present |-> TRUE,
          fields  |-> [k \in Keys |-> IF k \in op.unset THEN NoStamp
                                      ELSE IF k \in op.patch THEN StampOf(op)
                                      ELSE record.fields[k]]]

Write(db, op) ==
    [db EXCEPT !.entities[op.entity] = Apply(@, op),
               !.shown[op.entity]    = Written(@, op),
               !.outbox              = @ \cup {op},
               !.unpaired            = IF db.paired THEN @ ELSE @ \cup {op},
               !.known               = @ \cup {op},
               !.clock               = op.clock]

WriteAll(db, ops) ==
    LET after[i \in 0 .. Len(ops)] == IF i = 0 THEN db ELSE Write(after[i - 1], ops[i])
    IN  after[Len(ops)]

-----------------------------------------------------------------------------
(* Received operations and snapshots.                                      *)

\* receiveOperations: identity.clock passes a clock that is not before it.
Passed(clock, c) == IF c >= clock THEN c + 1 ELSE clock

\* Slips: the clock stays; what is shown stays.
ReceiveKeepsClock(db, op) ==
    [db EXCEPT !.entities[op.entity] = Apply(@, op),
               !.shown[op.entity]    = Materialized(Apply(db.entities[op.entity], op))]

ReceiveHidden(db, op) ==
    [db EXCEPT !.entities[op.entity] = Apply(@, op),
               !.clock               = Passed(@, op.clock)]

ReceiveOne(db, op) ==
    [db EXCEPT !.entities[op.entity] = Apply(@, op),
               !.shown[op.entity]    = Materialized(Apply(db.entities[op.entity], op)),
               !.clock               = Passed(@, op.clock)]

\* The operations of a page and the cursor behind them are one transaction.
ReceivePage(db, key, page) ==
    LET after[i \in 0 .. Len(page.ops)] ==
            IF i = 0 THEN db ELSE ReceiveOne(after[i - 1], page.ops[i])
        last == after[Len(page.ops)]
    IN  [db EXCEPT !.entities    = last.entities,
                   !.shown       = last.shown,
                   !.clock       = last.clock,
                   !.known       = @ \cup Ops(page.ops),
                   !.cursor[key] = page.cursor]

\* beginSnapshot.
Begun(db, key, snapshot) ==
    [db EXCEPT !.download[key] = [snapshot |-> snapshot, pages |-> 0,
                                  expected |-> db.cursor[key]]]

\* Slip: the download goes on.
NotAbandoned(db, key) == db

Abandoned(db, key) == [db EXCEPT !.download[key] = NoDownload]

\* stageSnapshot: the page is the one that comes next in this download.
Expects(db, key, copy) ==
    /\ db.download[key] # NoDownload
    /\ db.download[key].snapshot = copy.snapshot
    /\ db.download[key].pages = copy.pages
    /\ copy.pages < Pages(copy.snapshot)
Staged(db, key) == [db EXCEPT !.download[key].pages = @ + 1]

Complete(download) == download.pages = Pages(download.snapshot)

\* finishSnapshot refuses when the cursor has moved since the download began.
Mergeable(db, key) ==
    /\ db.download[key] # NoDownload
    /\ Complete(db.download[key])
    /\ db.cursor[key] = db.download[key].expected

FieldClocks(st) == {st.fields[k].version.clock : k \in Keys}
MergedClocks(db, s) ==
    UNION {FieldClocks(Merge(db.entities[e], s.entities[e])) : e \in Present(s)}
\* Slip: the clock is the newest in the snapshot, the browser's own or not.
PassesOver(clock, clocks) == IF clocks = {} THEN clock
                             ELSE CHOOSE c \in clocks : \A d \in clocks : d <= c

Passes(clock, clocks) == IF \A c \in clocks : c < clock THEN clock
                         ELSE 1 + CHOOSE c \in clocks : \A d \in clocks : d <= c

\* Slip: the snapshot replaces the state.
FinishReplaces(db, key) ==
    LET s == db.download[key].snapshot
    IN  [db EXCEPT
            !.entities      = [e \in Entities |-> IF e \in Present(s) THEN s.entities[e] ELSE @[e]],
            !.shown         = [e \in Entities |-> IF e \in Present(s) THEN Materialized(s.entities[e]) ELSE @[e]],
            !.clock         = Passes(@, MergedClocks(db, s)),
            !.known         = @ \cup s.known,
            !.cursor[key]   = [epoch |-> s.epoch, seq |-> s.seq],
            !.download[key] = NoDownload]

Finished(db, key) ==
    LET s == db.download[key].snapshot
        merged == [e \in Entities |-> IF e \in Present(s) THEN Merge(db.entities[e], s.entities[e])
                                      ELSE db.entities[e]]
    IN  [db EXCEPT
            !.entities      = merged,
            !.shown         = [e \in Entities |-> IF e \in Present(s) THEN Materialized(merged[e]) ELSE @[e]],
            !.clock         = Passes(@, MergedClocks(db, s)),
            !.known         = @ \cup s.known,
            !.cursor[key]   = [epoch |-> s.epoch, seq |-> s.seq],
            !.download[key] = NoDownload]
=============================================================================
