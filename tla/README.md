# TLA+ models of Shufang

Shufang is a reading and study library that keeps one workspace of books, notes,
highlights, cards and reviews on several devices. Every device is a writable
replica; replicas exchange field-level operations and entity snapshots. These
modules model that replicated workspace, check it with TLC on small instances
and prove its main guarantees with TLAPS for all instances.

All source paths below are relative to `src/`; `crates/` stands for
`src/base/crates/`. The Rust workspace `src/base` is the implementation in
production (`docs/current-status.md:15`). The TypeScript under `src/app` is the web
application: React over IndexedDB in the browser, and a Hono server that is an older
sync node and, for a library that is not paired with a node, a mirror in MySQL that
other programs read and write over REST. Both web systems are modelled too.

## 1. The system and its parts

### Components

| Component | Where | State it keeps | Operations | What makes it correct |
|---|---|---|---|---|
| Field versions | `crates/domain/src/sync.rs` | none (pure) | `apply_operation`, `merge_states`, `materialize`, `next_clock` | order-independent, idempotent, ties decided the same everywhere |
| Store | `crates/sqlite/src` (and `crates/mysql/src`) | entity rows, outbox = log, clock, local values | `commit_local_batch`, `receive_batch`, `finish_snapshot` | entities, log, clock and cursor move together |
| Library commands | `crates/application/src/library.rs` | none of its own | save, delete with cascade, review | what a person saves is what is shown; nothing else is lost |
| Replica commands | `crates/application/src/replication.rs` | none of its own | `mutate_replica_entity`, `restore_replica_entity`, `receive_operations`, `acknowledge_sync` | client clocks cannot disturb the node |
| Replication worker | `crates/native/src/replication.rs`, `incoming_snapshot.rs`, `crates/service/src/replication.rs` | per peer: identity, send, receive and history cursor, complete mark, staged snapshot | tick: capabilities, snapshot, history, push, pull | cursors never pass what did not arrive; everything arrives |
| Sync handlers | `crates/service/src/sync_v2.rs` | none of their own | `push`, `changes`, `snapshot` | receipts tell the truth, pages are contiguous |
| Backup and restore | `crates/native/src/backup.rs`, `crates/sqlite/src/lib.rs` | the archive; the replication generation (`sync_epoch`) | `create`, `prepare_restored_database` | a restored node and its peers agree again |
| Guarded sync | `crates/native/src/offline_sync.rs`, `crates/application/src/offline_conflicts.rs` | base copies, edit records, conflicts | guarded push, detect, resolve | no silent overwrite, no lost conflict |
| Snapshot paging | `crates/application/src/incoming_snapshot.rs`, `crates/sqlite/src/incoming_snapshot.rs` | staged pages, next page, fingerprints | begin, stage, finish, abandon | resumes after a restart, never mixes two snapshots |
| Webhooks, reader events | `crates/service/src/webhooks.rs`, `reader_event.rs`, `crates/application/src/lib.rs:126` | cursor, deliveries, receipts | select, attempt, record; `with_receipt` | each event once, in order, effect and receipt together |
| Blobs | `crates/native/src/sync_blobs.rs`, `replication_files.rs`, `storage.rs`, `attachments.rs` | chunks, uploads, files by hash | begin, put, complete, fetch | a reference names a complete file |
| Browser copy and outbox | `app/src/lib/syncDatabase.ts`, `syncSnapshots.ts`, `workspaceSync.ts` | IndexedDB: shown records, entity states, outbox, clock, cursor and download per node and epoch | tracked writes, exchange: snapshot, pull, push | no edit lost or taken back; what is shown is what the state says |
| TypeScript sync node | `app/api/sync` | operation log, entities, fixed snapshots, epoch | push, changes, snapshots, mutations | as the Rust handlers |
| Mirror | `app/api/v1.ts`, `app/api/lib/book-*.ts` | books, uploads, highlights, notes, associations, digests, tombstones, receipts | one transaction per event or REST request | what is deleted stays deleted; titles, citations and digests agree with the rows |
| Event delivery | `app/src/lib/events.ts`, `mirrorSync.ts`, `app/src/hooks/useLibrary.ts` | a chain of deliveries per record and tab | report, retry, give up | what was confirmed is on the server |
| Accounts, OAuth, MCP, AI, HTTP | `crates/service/src` | sessions, grants | login, call | who may call |
| Automation, deployment, platform shells | `automation`, `deploy`, `platforms`, `ios` | ledgers, releases | run, update | outside the product's data |

### How they interact

A process holds one core behind a mutex: the store with the commands on it. HTTP
handlers and the worker take the mutex for a short time and never hold it across
an await. The worker is one loop: for each configured peer it runs a *tick*,
which calls the peer's handlers over HTTP:

1. `capabilities` tells the peer's epoch. Local values are kept under a hash of
   peer id, URL and epoch, so a peer that was restored is a stranger.
2. *restore*: with no receive cursor, or every five minutes, a snapshot of the
   peer's entities is created there, staged page by page here, and merged in one
   transaction that also sets the receive cursor to the snapshot's watermark.
3. *history*: until it is marked complete, the peer's log is read from its
   beginning with a cursor of its own.
4. *push*: the node's log after the send cursor, a page at a time; the peer
   receives each operation in a transaction of its own and answers with receipts.
5. *pull*: the peer's log after the receive cursor, a page at a time, each
   received with its cursor in one transaction. A refused cursor leads, once per
   tick, to a forced snapshot.

Between two calls of a tick, anything else may happen at both ends: commands,
the other direction's tick, pushes from further clients, crashes, restores.

A browser has no worker: a timer of each open tab starts an *exchange* every five
seconds. All tabs share one IndexedDB; Web Locks, where the browser has them, let one
tab at a time exchange. An exchange initialises (pairs, and queues the records that
are older than the tracking of changes), takes up or begins a paged snapshot, pulls
until the head, and pushes the outbox operation by operation. Each step is a request
that is awaited or an IndexedDB transaction; the person edits between any two.

A browser without a node keeps its library in IndexedDB and reports what the person
does to the mirror as events: one at a time for each record and tab, up to three
attempts under one delivery id, after which the event is forgotten. Imported books go
up in chunks. The server handles each event and each REST request in one transaction
and keeps the delivery id in it.

### What is hard

- Two orders of arrival, ties of clocks, repeated deliveries, and a second way in
  (snapshots) that must agree with the first (operations).
- Three cursors per peer, moved by different steps, that must never pass something
  missing although the logs grow while calls are in flight.
- Crashes and lost answers between "the peer has it" and "I know that it has".
- Backups: a node that goes back in time, issues new operations under clocks and
  log positions it already used, and meets peers who remember the lost future.
- Partial failure of a page or a push.
- Commands that change several entities: a deletion cascades to what *this* node
  knows.
- Tabs that share a database and not their variables: checkpoints, cursors and pages
  read before an await are used after it.
- Requests to the mirror that were given up for lost and are handled late, after a
  retry, after the next event, or after the record was deleted by somebody else.

`PROJECT.json` lists each hazard at its line with the property that would show it
going wrong, or the reason why none does yet.

## 2. The modules

```
FieldVersions ── LocalStore ── Commands ──┬── Workspace      (any network)
      │                                   └── Replication    (the protocol)
      └────────── SharedWorkspace  <──── implemented by ─────┘
```

```
FieldVersions ──┬── SyncServer ── BrowserStore ── BrowserSync    (browser and node)
                └── Outbox  <─────────── implemented by ─┘
MirrorStore ── MirrorSync                                        (browser and mirror)
```

Those with theorems have them in `<module>_proofs`, except that the lemmas about LocalStore are
in `Commands_proofs` and those about SyncServer in `BrowserStore_proofs`; `MCWorkspace`, `MCReplication`,
`MCBrowserSync` and `MCMirrorSync` give instances for TLC.

**FieldVersions** translates `domain/src/sync.rs`. An operation has an id, a
replica, an entity, a clock, the keys it patches and those it unsets, and whether
it deletes. A field is the version of the operation that wrote it and whether it
removed the field; the value is not modelled because the version names its
writer. `Before` is the comparison of version texts (clock, then replica, then
operation), `Apply` is `apply_operation` with the position field of the device a
book is read on, `Merge` is `merge_states`. `IsView(st, e, ops)` is the reference
definition: what a *set* of operations means, without any order. Ids and replicas
are numbers in the order of their UTF-16 texts; a clock (wall, counter) is one
number in the order of the pair.

**LocalStore** has the database of one node as a record `entities`, `log`
(the outbox, which is also the change log), `clock`, and the history variable
`known`: the operations whose effect the entities contain. `known` exceeds the log
when a snapshot brought effects without operations. Each transaction of the code
is an operator from store to store: `CommitBatch`, `Receive`, `MergeSnapshot`. The
batches of the commands are built as the code builds them: `ValuesOp` unsets all
stored fields the new record lacks and leaves unchanged values out of the patch;
`SaveBatch` and `DeleteBatch` stamp consecutive clocks, `MutateBatch` one clock.

**Commands** has the variables `store` and `issued` (history) and one action per
command: `Save` (with the notes that cite a highlight), `Delete` (owned entities
deleted, references taken out or, in the older API, their holders deleted, citations
rewritten), `Review` (with its card),
`RestoreEntity`, `Mutate` (a client's operation under the client's clock). It also
states the invariants that hold whichever way operations travel.

**Workspace** lets operations travel in any way: any node may receive any issued
operation at any time and repeatedly (`Deliver`) and merge any other node's
entities (`MergeFrom`). What holds here cannot depend on the protocol.

**Replication** is the protocol. `worker[n]` is the place in the tick; `link[n][p]`
the local values about peer `p`; `reply[n]` the page in hand; `txn[n]` the states
computed by `receive_operations` before the transaction; `serve[n]` a push being
applied at `n`; `backup[n]`, `epoch[n]` the archive and the generation. One action
stands for one stretch of code between two awaits or two lock acquisitions, and a
call is answered in the step that sends it while the answer is used later. The
mutex is `Unlocked(n)`. `Fail` is a lost answer or any error of a call, `Crash` a
process that stops (its peer's call breaks), `ExpireSnapshot` a snapshot the peer
dropped, `TakeBackup`/`RestoreBackup` the way back in time.

**SharedWorkspace** is the abstract specification: no log, no clock, no cursor.
A node issues operations in its own name under new ids, learns of operations
others issued, may be set back to what a backup knew, and always shows exactly the
view of what it knows. `Replication` implements it under the mapping `entities`,
`known`, `saved` to the stores and backups (property `Promise`).

**SyncServer** is the TypeScript node as a record: epoch, `log`, and `tables`, the
entity table after each operation, of which a restored backup takes an earlier one. A
request is an operator: `Accept` (push; a known operation is a duplicate), `Cascade`
(a deletion through `/mutations`), `Changes` and `CursorRefused`, `Taken` and `Pages`
(snapshots), `Restored`. It uses FieldVersions, because the TypeScript calls the same
core, compiled to WebAssembly (`app/contracts/core-runtime.ts`).

**BrowserStore** is the IndexedDB: `shown` (what the object stores hold, by the version
of each value), `entities`, `outbox`, `clock`, and per epoch a `cursor` and a
`download`. Each operator is one transaction: `Write` (trackDatabase), `ReceivePage`,
`Begun`, `Staged`, `Abandoned`, `Finished`. A put writes what it was given, whatever the
state says; only a received operation or snapshot projects the state onto the store.

**BrowserSync** composes the two. `tab[t]` is the place of tab `t` in its exchange with
what it read before the last await: the capabilities, the checkpoint `copy`, a
`snapshot` or `page` in hand, the `batch` of the outbox. Actions `Start`, `Initialize`,
`Create`, `Begin`, `Stage`, `Finish`, `Pull`, `ReceiveChanges`, `Push`, `Acknowledge` are the
steps of `exchange` between awaits; `Put` and `Delete` are the person; `Other` another
device at the node; `Fail` a lost answer or a closed tab; `Expire` and `Restore` the node's
operator and its clean-up. `discarded` is history: what a restore lost.

**Outbox** is the abstract specification of the two: no tab, request, page, snapshot, cursor
or epoch. `Write` adds operations of the browser to `known` and `waiting`; `Deliver` gives the
node what is known; `Confirm` takes from `waiting` what the node has or lost; `Learn` takes into `known`
what the node has or lost; `Elsewhere` adds operations of others to `held`; `Restore` moves
operations from `held` to `lost`. In every step `Shown` has both sides hold the view of what they
absorbed. BrowserSync implements it with `waiting` mapped to the outbox, `held` to the log and
`lost` to `discarded` (property `Promise`). SharedWorkspace would not fit here: a restored node takes
any beginning of its log, not one backup, and the other devices are seen only through the node.

**MirrorStore** is the mirror as a record of tables with one operator per transaction of
`v1.ts`, `book-mirror-upload.ts` and `book-digest-lifecycle.ts`, each giving the answer
(ok, refused for 4xx, failed for 503) and the mirror after it. A title stands for title
and author, a hash for the content of a book, a note for its version and the generated
citation blocks in it; `Synced` and `Rewritten` are `syncHighlightCitationNotes` and
`rewriteBookCitationNotes`. A snapshot of a note carries any blocks, of highlights that are there
or not, and may create the row; `carried` remembers the blocks a client wrote last, and `replaced` that
the server has not gone over the citations since a client replaced the content.

**MirrorSync** has the mirror, the library of the browser, `queue[t][r]` (the deliveries of a
tab about a record), `flight` (requests under way) and `removals` (deletions under way).
`Answer` handles a request; if its tab still waits, the answer confirms, refuses or is retried.
`Lose` is a failed attempt: handled, lost, or still to be handled. `Close` is a closed tab,
`Expire` the clean-up of uploads. `SaveHighlight`, `SaveNote`, `SaveLink`, `Rename`, `Upload`
are the person. So is `Remove`, which begins a removal: `Report` sends one deletion, `Proceed`
the next after its confirmation (the mere citations of a note in any order, then the note), and
`Commit` is the transaction of IndexedDB that follows the last (`dbDeleteNote`, `dbDeleteBook`,
`deleteHighlightsWithCitationCleanup`, `dbDeleteAssociation`). A deletion that fails for good,
or a closed tab, breaks the removal off wherever it is, with the library untouched. `confirmed`
and `uploaded` are history. An upload in `Described` ends with the `book.updated` of a book with
metadata. `RestBook`, `RestHighlight`, `RestNote`, `Digest` other programs. `strayed` is
history: the records about which a delivery failed for good, that were written over REST, or
that two tabs wrote; only the others are promised to be in step.

Some definitions are marked *Slip*: they are variants of the definition that
follows, each a plausible mistake in the code, and are used by no specification.
They document what the properties are able to notice.

## 3. What is checked

Named constants are defined in the MC modules; bounds are in the `.cfg` files.
Run `references` starts from `Started`, a library both nodes have received; all
others start from empty databases.

| Run | Instance | Shows |
|---|---|---|
| `merge` | two nodes; book, its highlight and source, a study set, a review; position fields of two devices; 2 ids, clocks to 2 | `TypeOK`, `Views`, `Convergence`, `ClockCovers`, `LogOnce`, `LocalWriteWins`, `NeverBack` with every command, delivery and merge |
| `references` | two nodes that already share a book, its highlight and the note citing it; two further commands, all ties of clocks | `Views`, `Convergence`, `ClockCovers` |
| `pair` | client and server, 3 ids, page size 1, 2 pages per tick, one fault | `SendDelivered`, `ReceiveAbsorbed`, `HistoryLogged`, `OnlyRestoresGoBack`, `Promise` |
| `mutual` | two nodes that are each other's client, a book and a review that one may refuse | `SendDelivered`, `OnlyRestoresGoBack`, no deadlock |
| `restore` | client and server, each restorable once from a backup at any moment | `SendDelivered`, `ReceiveAbsorbed`, `Convergence` |
| `eventual` | client and server, one fault, fair worker | `TypeOK`, `EventuallyConsistent` |
| `browser` | a browser of two tabs and its node; book and highlight, one field, page size 1; nine settings (below) | `TypeOK`, `Kept`, `CursorCovered`, `Views`, `Projected`, `EditWins`, `Promise`, `Converges` |
| `mirror` | two tabs, two books, a highlight, two notes, an association, two uploads of one book with other titles and contents, 2 attempts; eight settings (below) | `TypeOK`, `Buried`, `Titled`, `Cited`, `DigestsOwned`, `InStep`, `Confirmations`, `NotesForward`, `Drains` |
| `progress_by_device` | book with positions of two devices | violates `PositionShown` |
| `history` | client and server, no fault | violates `HistoryKept` |
| `review_events` | client and server, a review, no fault, fair worker | violates `EventuallyConsistent` |
| `tabs_without_locks` | two tabs without Web Locks, one operation of another device, fair tabs | violates `ConvergesAnywhere` |

What the properties of the web systems say:

- `Kept`: an operation written in the browser is in the outbox or on the node, or was there
  before a restore. `CursorCovered`: the cursor passes nothing that the state lacks. `Views`:
  the state is the view of the known operations. `Projected`: what is shown in a paired browser
  is what the state says, except that a tombstone may be hidden by an edit that no cursor of the
  node's epoch has passed yet, or that a restore discarded: an edit of a live record, pending or
  not, excuses nothing. `EditWins`: an edit is what the database says after it. `Promise`: every
  step is one of Outbox, so that an operation leaves the outbox only when the node has or had
  it, the browser never forgets and takes nothing else, and only a restore takes from the node.
  `Converges`: with Web Locks, browser and node end up equal.
- `Buried`: of a deleted book or note nothing is left and nothing comes back. `Titled`: a
  highlight has its book's title. `Cited`: a citation in a note is that of a highlight linked to
  it, under its title, or was in the content a client wrote last (a snapshot that creates the
  note included), and no linked highlight is without one unless a client replaced the content
  since. `DigestsOwned`: a digest has a book. `NotesForward`: a note that changes gets a newer
  version. `InStep`: a highlight whose events were all delivered is in the mirror as in the
  library; if it is absent there, the server confirmed its own deletion (not yet done here, or
  the removal broke off), or deleted its book, or it was a mere citation in a note the server
  deleted. So the library may keep what the mirror deleted; the code has no rollback, and
  the person can repeat the deletion. (`dbDeleteBook` takes along, in the library alone, notes
  that cite no other book: `CitingOnly`.) `Confirmations`: the library lets go
  only of books that are deleted for good, and a confirmed deletion is one. `Drains`: no
  delivery waits and no removal stays half done for ever.

The settings of these two runs (`Various` in the MC modules) are explored in one run
each; every one opens another part of the behaviour so that the product stays small.
`browser`: one edit and one operation of another device, and besides that a fault; a
second edit; a second tab; a restore; two entities; deletions here; deletions elsewhere;
two tabs without locks that edit, or receive. `mirror`, as edits / requests of others /
faults: highlights 3/0/2, highlights and notes 3/0/1, renames 3/0/0, uploads and
deletions 2/0/2, associations 2/0/1, REST alone 0/4/0, REST and reader 2/2/0, uploads
and digests 2/2/0.

### The bounds and why they are enough

- *Two nodes.* The protocol is between pairs: cursors of a link mention two logs.
  Two nodes already give concurrent writes, ties, both directions and restores of
  either side. The proofs are for any number.
- *Two or three operation ids.* A lost write needs two concurrent operations; a
  cursor that passes something needs one operation before and one after a page
  end. Every id is one command, which may be a batch over several entities.
- *Clocks to 1 or 2* (`references`: two after the two of its start). Enough for
  equal, smaller and greater stamps, and for a deletion of two entities at
  consecutive clocks; with `MaxClock = 1` a restored node repeats its clocks, so
  that ids alone decide.
- *`PageSize = 1`, `MaxPages = 2`* stand for 100 and 100: every page is full, and
  the tick ends for lack of pages as well as for lack of operations.
- *`MaxFaults = 1`*: one failure, crash or expired snapshot, at any step.
- *`MaxRestores = 1`* for each node: the order of backup, edits, exchange and
  restore is free.

- *Browser.* Clocks to 2 (1 where there is a fault, a restore, or several entities and
  other devices) give ties and an edit that is behind; one fault may hit any
  step, and is followed by as many exchanges as it takes. Two epochs give one restore.
- *Mirror.* Two attempts stand for three: an attempt fails and another follows, and the
  last fails for good; with two faults a late request meets both. One chunk already gives
  an upload of three requests.

Mutants: each property of each passing run is paired in `PROJECT.json` with a
changed definition under which the same run finds it violated.

### Fairness

`FairSpec` assumes weak fairness of `ServeStep`: a handler that holds the lock runs
to its end. It assumes strong fairness of `BeginTick` and `WorkerStep`:
`service/src/replication.rs:36-113` loops over the peers for as long as the
process runs, sleeping and backing off but never giving up, and each step waits
for a mutex that others hold only briefly; strong fairness says that a waiter is
not passed over for ever. Commands and disturbances have no fairness: nobody has
to edit, nothing has to fail. Faults are bounded, so a peer is reachable again
from some point on.

`BrowserSync`: weak fairness of `Exchange(t)` for every tab. Every five seconds the timer of
each open tab (`app/src/hooks/useLibrary.ts:298`) calls `flushReaderStates`, which in a paired
browser is `trySyncWorkspace` (`app/src/lib/librarySync.ts:238-243`); and a request or
transaction ends, or fails, which is `Fail` and bounded. A closed tab is `Fail` too: it is
opened again.

`MirrorSync`: weak fairness, for every tab, of `Waited(t)`, the answer of a request it waits
for, and of `GoesOn(t)`, the next step of a removal whose report was confirmed.
`deliverMirrorEvent` awaits a fetch that the browser ends one way or the other, and the code
after an await runs when it ends. The person, the other programs and the late requests nobody
waits for have no fairness.

`mirror` has `CHECK_DEADLOCK FALSE`: when the person and the others have done what the
bounds allow and everything is delivered, nothing has to happen any more.

### Deviations between code and documents

1. **Device positions** (`progress_by_device`). `app/docs/workspace-sync.md:24`
   says the reading position also keeps `progressByDevice`. A save of the book
   (`application/src/library.rs:511`) unsets every stored field the flattened
   record lacks, the hidden `@progress:<replica>` fields included. After a save the
   positions of other devices are gone.
2. **History gaps** (`history`). `docs/current-status.md:63` says snapshots do not
   make up operations and history is fetched and kept separately. Once
   `sync:history-complete` is set (`native/src/replication.rs:257`), operations
   that a later anti-entropy snapshot covers are never fetched.
3. **Reviews and the first snapshot** (`review_events`). A review that arrives
   with the snapshot makes `receive_operations` refuse its own operation
   (`application/src/replication.rs:464`), so the history phase fails in every tick
   and the node neither pushes nor pulls, against the eventual consistency of
   `app/docs/workspace-sync.md:27`. Between anti-entropy snapshots nothing arrives,
   and nothing the node wrote ever leaves it.
4. **Tabs without Web Locks** (`tabs_without_locks`). `app/docs/workspace-sync.md:32` says
   that browsers without Web Locks rely on the idempotent protocol. A tab can begin a
   snapshot while another holds a page it fetched; storing the page moves the cursor,
   and `finishSnapshot` (`app/src/lib/syncSnapshots.ts:156`) refuses the complete download
   in this and every later exchange of every tab. `exchange` abandons a download only
   when the node does not have the snapshot any more, which a complete download never
   asks. Pull and push are not reached again.

## 4. What is proved

For every value of the constants that satisfies the named assumptions
(`OrderAssumption`, `KeysAssumption`, `EntitiesAssumption`, `MutationsAssumption`,
`ProtocolAssumption`, `ServerAssumption`, `BrowserAssumption`, `MirrorAssumption`,
`SettingsAssumption`: subsets and functions of the right shape, replicas and ids
numbered, finitely many entities and, for the browser, fields):

- **FieldVersions_proofs** — `Before` is a strict total order of stamps. `ApplyView`:
  applying an operation to the view of `ops` gives the view of `ops ∪ {op}`,
  whatever came before and however often. `MergeView`: merging views gives the view
  of the union. `ViewUnique`: a set of operations with unique ids has one view. All
  of convergence rests on these three.
- **Commands_proofs** — `StoreOK` (well typed, every entity the view of `known`,
  the clock covers `known`, the log is without repetition and within `known`) is
  preserved by `Receive`, `MergeSnapshot` and `CommitBatch` of LocalStore. Each of them
  `Grows` the store as well: the log is continued at its end, what is known stays known,
  and no entity goes back (`ReceiveGrows`, `MergeGrows`, `CommitGrows`). And what each
  command commits: batches over distinct entities, with new ids, in the node's name
  (`CommandIssues`).
- **Workspace_proofs** — `Inv` is inductive under any network, and gives
  `TypeCorrect`, `ViewsHold`, `Converges`, `ClockHolds`, `LogHolds`; `LocalWrites` and
  `NeverGoesBack` are the action properties, the second from `Grows`.
- **Replication_proofs** — `RInv` is inductive for the protocol with crashes and restores. It
  adds to `Inv` what the parts in flight contain: a page, a push, a staged snapshot, a backup
  and an open transaction hold only issued operations; each store among them is `StoreOK`; an
  open transaction extends the store it was copied from, which is true only because of the lock
  (`LockInv`, `TxnInv`). From it: `ProtocolTypes`, `ProtocolViews`, `ProtocolConverges`,
  `ProtocolClock`, and `ProtocolImplements`: `Spec => Promise`. `CInv`, inductive together with
  `RInv`, says for every cursor, page, push, staged snapshot and backup that what it has passed
  has arrived, as long as it belongs to the present generation of the peer. From it:
  `SendCursor`, `ReceiveCursor`, `HistoryCursor`, and the action property `OnlyRestores`.

- **MirrorStore_proofs** — for each transaction of the mirror, that it preserves the parts
  of `Sound`: `Mirror` (well typed), `Gone` (nothing of what is buried), `Bound` (a highlight
  has its book, that book's title, and an existing note or none), `Owned` (digests),
  `Cites` (citations).
- **BrowserStore_proofs** — what the requests of the node and the transactions of the browser
  do, for pages and batches of any length. `AcceptAll`, `WriteAll` and `ReceivePage` are
  recursive functions over their operations; that their values are a run of single steps
  is proved by the least number at which it would fail (`LeastNatural`, from the library's
  well-foundedness of `<`, then `StepByStep` and `RunExists`), and every property by one
  step of the run. Results: the node's tables are the views of the beginnings of its log
  (`AcceptAllOK`, `RestoredOK`), and the browser's state the view of `known` after a batch
  of writes, a page and a merged snapshot (`WriteAllOK`, `ReceivePageOK`, `FinishedOK`).
- **BrowserSync_proofs** — `IInv` is inductive for any number of tabs, with Web Locks or
  without, and for any limits of pages, failures, expired snapshots and restores. It gives every
  safety property of the browser: `BrowserTypeOK`, `NoEditIsDropped`, `CursorNeverPasses`,
  `LocalStateIsView`, `ShownIsProjected`, the action property `EditsWin`, and
  `BrowserImplements`: `Spec => Promise`. For the last, a step of an exchange is `Learn`,
  `Deliver`, `Confirm` or, when it seeds, `Write` (`CopyExchange`); what a page or a snapshot
  brings was on the node because `IInv` says so since it was asked for.
- **MirrorSync_proofs** — `IInv == TypeOK /\ Sound(mirror) /\ Numbered /\ Receipted /\
  Asked /\ Confirmations` is inductive for any number of tabs, attempts, chunks, books, notes,
  late requests and REST requests. From it: `MirrorTyped`, `BuriedStays`, `TitlesAgree`,
  `CitationsFollow`, `DigestsStayOwned`, `ConfirmationsHold`, and the action property
  `NotesGoForward`. The assumptions are `MirrorAssumption` and `SettingsAssumption`: kinds of
  records are disjoint and manifests name a book, a title and a hash. With `Tracked`, below,
  it gives `MirrorInStep`.

`Numbered`, `Receipted` and `Asked` are what `Confirmations` needs: a duplicate is acknowledged
without being handled, so a receipt must mean that the deletion of *this* delivery was done;
hence ids of deliveries are below `issued`, name one event each, and a receipt of a deletion
implies its tombstone. `Asked`: a removal that has nothing left to report waits for the deletion
of its own record, or has its confirmation, so that `Commit` lets go only of what is confirmed.
`Cites` needs `Bound`: the blocks a rename rewrites are those under the former title only
because the titles agreed before.

`InStep` speaks only of records with nothing left to deliver, so what makes it true must be said
while deliveries are queued and under way. `Tracked` says it. `Lined`: the queue of a record is
in the order of ids, no request under way is newer than anything still held, and only the first
that is held can have a receipt; so a request that comes late is either the first, a duplicate
of what was handled, or of a record that strayed. `Trail`: among the events of a highlight that
the mirror has not handled, the last to set the text sets that of the library; when there is
none, the mirror has the text, unless the highlight went with its book, a note or a deletion. It
needs `Owner` and `Single`: the texts are told by one tab, and the creation is queued before the
deletion in the same tab, or two queues would race. `Deleted`: after a handled deletion nothing
is left that creates the highlight again. `Told`: a note is in the mirror in a version not below
the library's, or an event with the library's version is still to come. `Known` and `Plain` say
which events there are at all. A record *strays* when the code itself lets go of the order: a
tab is closed with its queue, an event is given up, two tabs tell of one highlight, or a REST
client writes a highlight.

Why the strengthening is needed for the browser: `Kept` follows from the step that removes an
operation from the outbox only if what is being sent has reached the node (`TabOK`), and
`CursorCovered` from the step that stores a cursor only if the page, the staged download or the
snapshot that cursor belongs to is known to be whole (`Covered`, `Whole`), from the moment the
node answered and through whatever the node and other tabs do before it is stored. A restore
opens a new epoch, and cursors, pages and snapshots of the former one say nothing any more. A
record may show something other than its state after a write onto a tombstone; `ShownOK` says
(through `Shows`) that its state is then deleted and that the operation which will set it right
has not been passed by any cursor, nor by a page that does not have it (`Unseen`): the tombstone
is projected when that operation comes back. For a live record there is no such excuse: a local
write is stamped above every field (`WriteShows` needs the clock to cover the state), so it
shows what the state then says, and every received operation and merged snapshot projects the
record it touches. `Early` is about the time before pairing, when nothing was received and
everything known was written here. `OwnIds` keeps the ids of own operations apart from what the
node has.

Why the strengthening is needed for the replicas: `Views` alone is not inductive. `FinishSnapshot`
merges a staged store taken long ago, `CommitPage` installs a store computed several
steps before, `RestoreBackup` one from the past; each must be known to be a view of
issued operations, and ids must be unique across all of them.

The properties of the cursors are not inductive either, because a cursor is what a reply in
flight becomes. Four facts carry `CInv`. Within a generation a log only grows, so a position in
it never comes to mean something else. A page or a push is right when it is taken, and an
operation it leaves out is one the node had. The lock makes an open transaction a growth of the
store of the moment (`TxnSound`), so that committing it takes nothing back. A restore gives the
node a new generation, above all that were recorded of it, so that nothing recorded of
the former one counts; and its own cursors come back with the store they were saved
with (`BackupSound`).

Only model-checked: liveness under fairness (`EventuallyConsistent` of the replicas, `Converges`
of the browser, `Drains` of the mirror), which the prover does not do. Every safety property
that a passing run checks is stated by a theorem.

## 5. What is left out, and why

- Values of fields, texts of notes, SM-2 numbers, `updatedAt`: no property tells
  them apart; the version of a field names its writer.
- The ids of a command's changes: the code gives each change an id of its own (a
  cascade derives them); the model has one id per command, and (id, entity) stands
  for the change. Ids are assumed unique, so `operation_id_reused` never happens.
- The expected revision of a command and of cursors: a command reads and commits
  under one lock acquisition in these handlers.
- Kinds other than books, notes, study sets, sources and reviews are one kind: no
  command treats them apart except by the relations `Owned`, `Referring` and
  `Companions`. In run `references` the book carries no reading position and counts
  among them.
- Clocks too far ahead, operations too large, byte limits of pages, read-only mode.
- A snapshot is staged in one step and its age is not kept: with a receive cursor
  the model may or may not take a new one. `snapshot-at` is part of
  `FinishSnapshot`.
- Files and attachments travel beside the operations and are not modelled; nor are the
  browser's field objects, preferences, pinned books and EPUB layouts.
- In the browser a put writes any of its fields, whether the person meant them or not;
  the order in which the outbox is sent is any order, because ids are random. Which
  entities a deletion takes along is `Owned`, as for the node.
- A cursor of a browser belongs to one node; pairing with another node is a new key of
  the same bookkeeping and is not a case of its own.
- Interleavings inside a transaction of the mirror: rows are read `FOR UPDATE` and a
  deadlock reruns the transaction. Folders, study sets, translations, mind maps, reviews
  and tags; webhooks; the purge of receipts after seven days.
- The content of a note written over REST carries no generated blocks (that of an event carries
  any). After a removal, `deleteHighlightsWithCitationCleanup` and `dbDeleteBook` also rewrite
  notes of the library; nothing reports that by itself, and the next `SaveNote` carries any
  blocks. That `citePassage` saves a bare highlight again under the same id is left out.
- Associations over REST, `association.updated`, and the conflict of two associations of one
  pair of books (409, `app/api/v1.ts:1224-1232`): `LinkCreated` knows an association by its id
  alone.
- `SyncServer.Changes` is one answer; the code reads the head and then the page, without a lock
  (`app/api/sync/store.ts:261-307`). In between the log may grow, and then the page may end past
  that head.
- `Cascade`, which deletes through `/mutations`, deletes the owned records and leaves out that
  `mutate` also unsets fields of the records that refer to them
  (`app/api/sync/store.ts:191-208`); to the browser those are further operations of another
  device. In the same way `BrowserSync.Delete` leaves out the notes and study sets that
  `deleteBook` rewrites in its transaction (`app/src/lib/db.ts:559-638`); `WriteAllOK` is proved
  for any batch of writes, puts among them.
- `projectable` (`app/src/lib/syncDatabase.ts:278`, `syncSnapshots.ts:188`) keeps a state that
  lacks required fields from being put into its object store. The model has records without
  required fields, so every state that is not deleted is put; that a partial state stays
  invisible until its creation arrives is not modelled.
- In run `references` no client mutates entities (`Mutations` is empty); run `merge` has
  mutations, and the proofs are for any.
- The conflict guard (conditions on pushes, local copies).
- MySQL: the traits are the same; its transactions are not modelled separately.

## 6. Plan

Done: FieldVersions, LocalStore, Commands, Workspace, Replication, SharedWorkspace;
SyncServer, BrowserStore, BrowserSync, Outbox; MirrorStore, MirrorSync; and the proofs of all
their safety properties.

Next, in order of what matters most:

1. **GuardedSync** (`offline_sync.rs`, `offline_conflicts.rs`, `offline_copy.rs`): base
   copies, edit records, conditions checked at the server, conflicts and their
   resolution. Composes LocalStore twice.
2. **IncomingSnapshot**: pages, fingerprints, restarts; shown to implement the single
   step of Replication.
3. **Webhooks** with `with_receipt` and **reader events** of the Rust service, and the
   fanout of the mirror: attempts, repeated deliveries, crash between effect and answer.
4. **Further rows of the mirror**: translations and mind maps, whose titles REST writes as
   it is told; folders.
5. **References**: parents and children under concurrent deletion and creation.
6. **LogicalClock**: wall clocks per node, next_clock at the counter's limit, the day's
   allowance.
7. **BlobUpload**, the update service's swap of releases, the automation ledger.
