------------------------------ MODULE BrowserSync ------------------------------
(***************************************************************************)
(* The web application synchronising with its node: the tabs of a browser  *)
(* share one IndexedDB (BrowserStore), each runs exchanges with the node   *)
(* (SyncServer) while the person goes on editing, and other devices write  *)
(* to the node (app/src/lib/workspaceSync.ts, app/api/sync/api.ts).        *)
(*                                                                         *)
(* An exchange is a sequence of steps, one for each request it awaits and  *)
(* each transaction it commits.  Between two steps anything may happen.    *)
(***************************************************************************)
EXTENDS BrowserStore

CONSTANTS
    Tabs,       \* the tabs of the browser
    EditKeys,   \* the fields an edit may write
    Settings    \* the settings explored

\* locks: the browser has Web Locks.  tabs are open, scope are the entities
\* written to.  The others are bounds: on the transactions the person commits,
\* the operations other devices write to the node, the failures (lost answers,
\* closed tabs, expired snapshots), the epochs of the node, and the clocks.
Setting == [locks : BOOLEAN, tabs : SUBSET Tabs, scope : SUBSET Entities,
            edits : Nat, others : Nat, faults : Nat, epochs : Epochs, clock : Nat]

ASSUME SettingsAssumption ==
    /\ EditKeys \subseteq Keys
    /\ \A s \in Settings : s \in Setting /\ 0 .. s.edits \cup 0 .. s.others \subseteq Ids

VARIABLES
    db,         \* the database of the browser
    node,       \* the node
    tab,        \* tab[t]: where the exchange of tab t is, and what it holds
    setting,    \* the setting
    discarded,  \* history: operations the node lost when a backup was restored
    counts      \* the transactions, operations and faults so far

vars == <<db, node, tab, setting, discarded, counts>>

NoPage == [ops |-> <<>>, cursor |-> NoCursor, more |-> FALSE]

\* epoch: the capabilities the tab holds, 0 when it has none.  copy: the
\* checkpoint of the download it read.  snapshot and page: an answer it holds.
\* batch: the outbox it read, of which sending is under way.
Idle(epoch) == [at |-> "idle", epoch |-> epoch, recovering |-> FALSE, copy |-> NoDownload,
                snapshot |-> NoSnapshot, page |-> NoPage, batch |-> {}, sending |-> {}]

Places == {"idle", "initialize", "create", "begin", "download", "pull", "receive", "push",
           "acknowledge"}

Tab == [at : Places, epoch : Epochs \cup {0}, recovering : BOOLEAN,
        copy : Download \cup {NoDownload}, snapshot : Snapshot \cup {NoSnapshot},
        page : Page \cup {NoPage}, batch : SUBSET Operation, sending : SUBSET Operation]

\* The key of the bookkeeping, cursor:<nodeId>:<epoch>.
Key(t) == tab[t].epoch

\* The exchange of tab t goes on; what it held is forgotten unless it is set again.
At(t, place) == [Idle(tab[t].epoch) EXCEPT !.at = place, !.recovering = tab[t].recovering]
Goto(t, state) == tab' = [tab EXCEPT ![t] = state]

\* The exchange throws, and the tab is ready for the next one.
Throw(t) == Goto(t, Idle(tab[t].epoch))

Environment == <<node, setting, discarded, counts>>

-----------------------------------------------------------------------------
Init ==
    /\ setting \in Settings
    /\ \E old \in SUBSET setting.scope :
          db = [entities |-> Nothing,
                shown    |-> [e \in Entities |->
                                IF e \in old
                                THEN [present |-> TRUE,
                                      fields  |-> [k \in Keys |-> IF k \in EditKeys THEN Untracked
                                                                  ELSE NoStamp]]
                                ELSE NoRecord],
                outbox |-> {}, unpaired |-> {}, known |-> {}, clock |-> 0,
                paired |-> FALSE, seeded |-> FALSE,
                cursor |-> [k \in Epochs |-> NoCursor],
                download |-> [k \in Epochs |-> NoDownload]]
    /\ node = EmptyNode
    /\ tab = [t \in Tabs |-> Idle(0)]
    /\ discarded = {}
    /\ counts = [edits |-> 0, others |-> 0, faults |-> 0]

-----------------------------------------------------------------------------
(* The person.                                                             *)

LocalOp(e, id, clock, patch, unset, deleted) ==
    [operationId |-> id, replicaId |-> Device, entity |-> e, clock |-> clock,
     patch |-> patch, unset |-> unset, progress |-> FALSE, deleted |-> deleted]

Commit(ops) ==
    /\ db' = WriteAll(db, ops)
    /\ counts' = [counts EXCEPT !.edits = @ + 1]
    /\ UNCHANGED <<node, tab, setting, discarded>>

\* A record is put, with some values changed and some removed.
Put(e) ==
    /\ e \in setting.scope /\ counts.edits < setting.edits
    /\ \E clock \in db.clock + 1 .. setting.clock, patch \in SUBSET EditKeys,
          unset \in SUBSET (Shown(db, e) \cap EditKeys) :
          /\ patch \cup unset # {} /\ patch \cap unset = {}
          /\ db.shown[e].present \/ unset = {}
          /\ Commit(<<LocalOp(e, counts.edits + 1, clock, patch, unset, FALSE)>>)

\* A record is deleted with the visible ones it owns, in one transaction.  Each
\* operation has the clock after the one before it.
Delete(e) ==
    /\ e \in setting.scope /\ counts.edits < setting.edits
    /\ db.shown[e].present
    /\ \E order \in Orders({e} \cup (Owned[e] \cap Visible(db))),
          clock \in db.clock + 1 .. setting.clock :
          /\ clock + Len(order) - 1 <= setting.clock
          /\ Commit([i \in 1 .. Len(order) |->
                        LocalOp(order[i], counts.edits + 1, clock + i - 1, {}, {}, TRUE)])

-----------------------------------------------------------------------------
(* An exchange: start.                                                     *)

\* trySyncWorkspace: one exchange at a time in a tab, and with Web Locks one in
\* all tabs.  The capabilities are asked for once.
Start(t) ==
    /\ t \in setting.tabs /\ tab[t].at = "idle"
    /\ setting.locks => \A u \in Tabs : tab[u].at = "idle"
    /\ Goto(t, [Idle(IF tab[t].epoch = 0 THEN node.epoch ELSE tab[t].epoch) EXCEPT !.at = "initialize"])
    /\ UNCHANGED <<db, Environment>>

\* A record older than the tracking is queued with the clock 0.
Untouched == {e \in Visible(db) : ~db.entities[e].present}
SeedOp(e) == LocalOp(e, 0, 0, Shown(db, e), {}, FALSE)
Seeded ==
    IF db.seeded THEN [db EXCEPT !.paired = TRUE]
    ELSE [db EXCEPT
            !.entities = [e \in Entities |-> IF e \in Untouched THEN Apply(NoEntity, SeedOp(e)) ELSE @[e]],
            !.shown    = [e \in Entities |->
                            IF e \in Untouched THEN Materialized(Apply(NoEntity, SeedOp(e))) ELSE @[e]],
            !.outbox   = @ \cup {SeedOp(e) : e \in Untouched},
            !.known    = @ \cup {SeedOp(e) : e \in Untouched},
            !.paired   = TRUE,
            !.seeded   = TRUE]

\* initialize aborts when the outbox has an operation written before pairing.
\* Then the position is read: a download that is under way goes on, and one is
\* begun when there is no position or the last snapshot is 300 seconds old,
\* which it may be at any time.
Initialize(t) ==
    /\ tab[t].at = "initialize"
    /\ \/ /\ db.outbox \cap db.unpaired # {}
          /\ Throw(t)
          /\ UNCHANGED db
       \/ /\ db.outbox \cap db.unpaired = {}
          /\ db' = Seeded
          /\ IF db.download[Key(t)] # NoDownload
             THEN Goto(t, [At(t, "download") EXCEPT !.copy = db.download[Key(t)]])
             ELSE \/ Goto(t, At(t, "create"))
                  \/ db.cursor[Key(t)] # NoCursor /\ Goto(t, At(t, "pull"))
    /\ UNCHANGED Environment

-----------------------------------------------------------------------------
(* An exchange: the snapshot.                                              *)

Create(t) ==
    /\ tab[t].at = "create"
    /\ node' = Snap(node)
    /\ Goto(t, [At(t, "begin") EXCEPT !.snapshot = Taken(node)])
    /\ UNCHANGED <<db, setting, discarded, counts>>

\* beginSnapshot refuses when another tab has begun one meanwhile.
Begin(t) ==
    /\ tab[t].at = "begin"
    /\ IF db.download[Key(t)] # NoDownload
       THEN Throw(t) /\ UNCHANGED db
       ELSE /\ db' = Begun(db, Key(t), tab[t].snapshot)
            /\ Goto(t, [At(t, "download") EXCEPT !.copy = db'.download[Key(t)]])
    /\ UNCHANGED Environment

\* A page of the snapshot is fetched, staged, and the checkpoint read again.  A
\* snapshot the node does not have any more is abandoned.
Stage(t) ==
    /\ tab[t].at = "download" /\ ~Complete(tab[t].copy)
    /\ \/ /\ tab[t].copy.snapshot \in node.lost
          /\ db' = Abandoned(db, Key(t))
          /\ Throw(t)
       \/ /\ tab[t].copy.snapshot \notin node.lost
          /\ IF Expects(db, Key(t), tab[t].copy)
             THEN /\ db' = Staged(db, Key(t))
                  /\ Goto(t, [At(t, "download") EXCEPT !.copy = db'.download[Key(t)]])
             ELSE Throw(t) /\ UNCHANGED db
    /\ UNCHANGED Environment

Finish(t) ==
    /\ tab[t].at = "download" /\ Complete(tab[t].copy)
    /\ IF Mergeable(db, Key(t))
       THEN Goto(t, At(t, "pull")) /\ db' = Finished(db, Key(t))
       ELSE Throw(t) /\ UNCHANGED db
    /\ UNCHANGED Environment

-----------------------------------------------------------------------------
(* An exchange: changes.                                                   *)

\* The exchange when the cursor was refused: it starts over with the present
\* capabilities, once.
Recovering(t) ==
    IF tab[t].recovering THEN Idle(0)
    ELSE [Idle(node.epoch) EXCEPT !.at = "initialize", !.recovering = TRUE]

\* When the node refuses the cursor, syncRequest forgets it, the download and
\* the capabilities.
Pull(t) ==
    /\ tab[t].at = "pull"
    /\ \/ /\ CursorRefused(node, db.cursor[Key(t)])
          /\ db' = [Abandoned(db, Key(t)) EXCEPT !.cursor[Key(t)] = NoCursor]
          /\ Goto(t, Recovering(t))
       \/ /\ ~CursorRefused(node, db.cursor[Key(t)])
          /\ Goto(t, [At(t, "receive") EXCEPT !.page = Changes(node, db.cursor[Key(t)])])
          /\ UNCHANGED db
    /\ UNCHANGED Environment

\* What is left to send; the exchange ends when nothing is.
Remaining(t, batch) ==
    IF batch = {} THEN Idle(tab[t].epoch) ELSE [At(t, "push") EXCEPT !.batch = batch]

\* After the last page the outbox is read.
ReceiveChanges(t) ==
    /\ tab[t].at = "receive"
    /\ db' = ReceivePage(db, Key(t), tab[t].page)
    /\ Goto(t, IF tab[t].page.more THEN At(t, "pull") ELSE Remaining(t, db.outbox))
    /\ UNCHANGED Environment

-----------------------------------------------------------------------------
(* An exchange: the outbox.                                                *)

\* Operations are sent one by one, in the order of their ids, which are random.
Push(t) ==
    /\ tab[t].at = "push"
    /\ \E op \in tab[t].batch :
          /\ node' = Accept(node, op)
          /\ Goto(t, [tab[t] EXCEPT !.at = "acknowledge", !.sending = {op}])
    /\ UNCHANGED <<db, setting, discarded, counts>>

\* Slip: the outbox is cleared.
AcknowledgeAll(t) ==
    /\ tab[t].at = "acknowledge"
    /\ db' = [db EXCEPT !.outbox = {}]
    /\ Goto(t, Remaining(t, tab[t].batch \ tab[t].sending))
    /\ UNCHANGED Environment

\* The receipt has come: the operation leaves the outbox.
Acknowledge(t) ==
    /\ tab[t].at = "acknowledge"
    /\ db' = [db EXCEPT !.outbox = @ \ tab[t].sending]
    /\ Goto(t, Remaining(t, tab[t].batch \ tab[t].sending))
    /\ UNCHANGED Environment

\* A request fails or its answer is lost, or the tab is closed and opened again.
\* What the node did remains done.
Fail(t) ==
    /\ counts.faults < setting.faults
    /\ tab[t].at # "idle"
    /\ \E epoch \in {0, tab[t].epoch} : tab' = [tab EXCEPT ![t] = Idle(epoch)]
    /\ counts' = [counts EXCEPT !.faults = @ + 1]
    /\ UNCHANGED <<db, node, setting, discarded>>

-----------------------------------------------------------------------------
(* The node and the other devices.                                         *)

\* Another device's operation reaches the node, with the children a deletion
\* takes along when it came through the command interface.
Other(e) ==
    /\ e \in setting.scope /\ counts.others < setting.others
    /\ \E r \in Replicas \ {Device}, clock \in 1 .. setting.clock, patch \in SUBSET EditKeys,
          deleted \in BOOLEAN :
          LET op == [operationId |-> counts.others + 1, replicaId |-> r,
                     entity |-> e, clock |-> clock, patch |-> patch, unset |-> {},
                     progress |-> FALSE, deleted |-> deleted]
          IN  /\ deleted <=> patch = {}
              /\ \E children \in {{}, Cascade(node, op)} : \E order \in Orders(children) :
                    node' = AcceptAll(node, <<op>> \o order)
    /\ counts' = [counts EXCEPT !.others = @ + 1]
    /\ UNCHANGED <<db, tab, setting, discarded>>

\* The snapshots a browser may still ask for.
Wanted == ({db.download[k].snapshot : k \in Epochs}
             \cup {tab[t].copy.snapshot : t \in Tabs} \cup {tab[t].snapshot : t \in Tabs})
          \ {NoSnapshot}

\* A snapshot is removed a day after it was taken.
Expire ==
    /\ counts.faults < setting.faults
    /\ \E s \in Wanted \ node.lost : node' = [node EXCEPT !.lost = @ \cup {s}]
    /\ counts' = [counts EXCEPT !.faults = @ + 1]
    /\ UNCHANGED <<db, tab, setting, discarded>>

Restore ==
    /\ node.epoch < setting.epochs
    /\ \E seq \in 0 .. Len(node.log) :
          /\ \E later \in {Wanted, {s \in Wanted : s.epoch = node.epoch /\ s.seq > seq}} :
                node' = Restored(node, seq, later)
          /\ discarded' = discarded \cup (Ops(node.log) \ Upto(node.log, seq))
    /\ UNCHANGED <<db, tab, setting, counts>>

-----------------------------------------------------------------------------
Exchange(t) ==
    \/ Start(t) \/ Initialize(t)
    \/ Create(t) \/ Begin(t) \/ Stage(t) \/ Finish(t)
    \/ Pull(t) \/ ReceiveChanges(t)
    \/ Push(t) \/ Acknowledge(t)

Next ==
    \/ \E t \in Tabs : Exchange(t) \/ Fail(t)
    \/ \E e \in Entities : Put(e) \/ Delete(e) \/ Other(e)
    \/ Expire \/ Restore

Spec == Init /\ [][Next]_vars

\* A timer of every tab starts exchanges as long as it is open, and each of its
\* steps ends.  Nobody has to edit, and nothing has to fail.
FairSpec == Spec /\ \A t \in Tabs : WF_vars(Exchange(t))

-----------------------------------------------------------------------------
TypeOK ==
    /\ db \in Database
    /\ node \in Node
    /\ tab \in [Tabs -> Tab]
    /\ setting \in Settings
    /\ discarded \in SUBSET Operation
    /\ counts \in [edits : 0 .. setting.edits, others : 0 .. setting.others,
                  faults : 0 .. setting.faults]

\* The operations that were written in this browser.
Own == {op \in db.known : op.replicaId = Device}

\* Whatever fails and however the tabs interleave, an operation written in this
\* browser is in the outbox, or the node has it, or the node had it before a
\* backup was restored (initialize, exchange and syncRequest never drop it).
Kept == \A op \in Own : op \in db.outbox \/ op \in Ops(node.log) \/ op \in discarded

\* The cursor never passes an operation whose effect is not in the local state:
\* what it has passed is never asked for again.
CursorCovered ==
    \A key \in Epochs :
        db.cursor[key].epoch = node.epoch => Upto(node.log, db.cursor[key].seq) \subseteq db.known

\* The local state is what the operations known here determine, edits that wait
\* in the outbox included: neither a page nor a snapshot that is older than an
\* edit takes it back, and no interleaving of tabs counts for anything.
Views ==
    /\ db.outbox \subseteq db.known
    /\ \A e \in Entities : IsView(db.entities[e], e, db.known)

\* What a paired browser shows is what the state says.  The one exception is an edit
\* of a record that was deleted elsewhere, seen or not: the record stays on the
\* screen until the edit has come back from the node, or for good when the node
\* lost it in a restore.
Projected ==
    db.paired =>
        \A e \in Entities :
            \/ db.shown[e] = Materialized(db.entities[e])
            \/ /\ db.entities[e].deleted
               /\ \E op \in About(Own, e) :
                     /\ ~op.deleted
                     /\ \/ op \in discarded
                        \/ \A key \in Epochs : db.cursor[key].epoch = node.epoch =>
                                                  op \notin Upto(node.log, db.cursor[key].seq)

\* A person's edit is what the database then says, however far ahead the clocks
\* of received operations and snapshots are.
EditWins ==
    [][\A op \in Own' \ Own :
          op.clock > 0 => \A k \in op.patch \cup op.unset :
                             db'.entities[op.entity].fields[k] = FieldOf(op, k)]_vars

\* Nothing is left to send, and browser and node have and show the same, except
\* for entities of which the node lost operations.
Settled ==
    /\ db.outbox = {}
    /\ \A e \in Entities :
          About(discarded, e) = {} =>
              /\ db.entities[e] = Current(node)[e]
              /\ db.shown[e] = Materialized(Current(node)[e])

\* With Web Locks every edit reaches the node and everything on the node the
\* browser, once the person and the other devices pause; unless something was
\* edited before the browser was paired.
Converges == <>[](setting.locks => db.unpaired # {} \/ Settled)

\* The same of a paired browser without Web Locks.
ConvergesAnywhere == <>[](db.unpaired # {} \/ Settled)

\* What the browser's copy and its outbox promise, however the exchange is made:
\* browser and node hold what they have absorbed, an operation waits until the node
\* has it, the browser takes nothing that the node never had and forgets nothing,
\* and the node loses operations in a restore and at no other time.
Copy == INSTANCE Outbox WITH
            entities <- db.entities,
            known    <- db.known,
            waiting  <- db.outbox,
            table    <- Current(node),
            held     <- Ops(node.log),
            lost     <- discarded
Promise == Copy!Spec
=============================================================================
