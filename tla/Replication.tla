------------------------------ MODULE Replication ------------------------------
(***************************************************************************)
(* The workspace-v2 replication protocol without the conflict guard: the   *)
(* worker that synchronises one peer after another                         *)
(* (crates/native/src/replication.rs, incoming_snapshot.rs), the handlers  *)
(* it calls (crates/service/src/sync_v2.rs) and the transactions both      *)
(* commit (crates/sqlite/src).                                             *)
(*                                                                         *)
(* A network call is answered in the step that sends it and the answer is  *)
(* used in later ones, so anything may happen in between; Fail is a lost   *)
(* answer, a timeout or any error of the call.  The mutex around a node's  *)
(* core is modelled by Unlocked: while a page is received or a push is     *)
(* served, nothing else touches that node's store.                         *)
(***************************************************************************)
EXTENDS Commands

CONSTANTS
    Peers,        \* Peers[n]: the peers node n's worker is configured with
    PageSize,     \* operations in a page or push (100 in the code)
    MaxPages,     \* pages per tick and phase (100 in the code)
    MaxFaults,    \* bound on failures, crashes and expired snapshots
    MaxRestores   \* MaxRestores[n]: bound on restores of n from a backup

VARIABLES
    epoch,   \* epoch[n]: the replication generation of n's database
    link,    \* link[n][p]: what n has recorded about peer p
    worker,  \* worker[n]: where n's replication worker is
    reply,   \* reply[n]: the page of operations n's worker is handling
    txn,     \* txn[n]: the uncommitted result of receive_operations
    serve,   \* serve[n]: the push that n is applying for a peer
    backup,  \* backup[n]: what a backup of n contains
    faults   \* faults so far

ASSUME ProtocolAssumption ==
    /\ Peers \in [Replicas -> SUBSET Replicas]
    /\ \A n \in Replicas : n \notin Peers[n]
    /\ PageSize \in Nat \ {0} /\ MaxPages \in Nat \ {0}
    /\ MaxFaults \in Nat /\ MaxRestores \in [Replicas -> Nat]

protocol == <<epoch, link, worker, reply, txn, serve, backup, faults>>
vars == <<store, issued, protocol>>

-----------------------------------------------------------------------------
(* Records.                                                                *)

\* A cursor names a position in the log of one generation of a peer.
Cursor == [epoch : Nat, seq : Nat]
NoCursor == [epoch |-> -1, seq |-> 0]

\* What a snapshot holds is the entity table of its moment; its clock and log
\* are not sent, and stand here for the peer's store at that moment.
Snapshot == [store : Store, cursor : Cursor]
NoSnapshot == [store |-> EmptyStore, cursor |-> NoCursor]

\* The local values kept under the identity of a peer: a hash of its id, its
\* url and its epoch.
Link == [identity : Nat \cup {-1}, send : Nat,
         receive : Cursor \cup {NoCursor},
         history : Cursor \cup {NoCursor}, complete : BOOLEAN,
         staged : Snapshot \cup {NoSnapshot}]

NewLink(identity) ==
    [identity |-> identity, send |-> 0, receive |-> NoCursor,
     history |-> NoCursor, complete |-> FALSE, staged |-> NoSnapshot]

Phases == {"idle", "restore", "history", "push", "pushing", "acking", "pull",
           "reply", "apply", "complete"}
\* forced: the restore in progress was provoked by a rejected cursor;
\* recovered: this tick has already been through one; upto: the log position
\* the pushed batch ends at; into: the cursor the page in hand moves.
Worker == [phase : Phases, peer : Replicas \cup {-1}, pages : Nat, upto : Nat,
           forced : BOOLEAN, recovered : BOOLEAN, into : {"history", "receive"}]
Idle == [phase |-> "idle", peer |-> -1, pages |-> 0, upto |-> 0,
         forced |-> FALSE, recovered |-> FALSE, into |-> "history"]

Page == [ops : Seq(Operation), cursor : Cursor \cup {NoCursor}, more : BOOLEAN]
NoPage == [ops |-> <<>>, cursor |-> NoCursor, more |-> FALSE]

Serve == [client : Replicas \cup {-1}, todo : Seq(Operation), ok : BOOLEAN]
NoServe == [client |-> -1, todo |-> <<>>, ok |-> TRUE]

Backup == [store : Store, link : [Replicas -> Link], taken : BOOLEAN]
NoBackup == [store |-> EmptyStore, link |-> [p \in Replicas |-> NewLink(-1)],
             taken |-> FALSE]

Init ==
    /\ StoreInit
    /\ epoch = [n \in Replicas |-> 0]
    /\ link = [n \in Replicas |-> [p \in Replicas |-> NewLink(-1)]]
    /\ worker = [n \in Replicas |-> Idle]
    /\ reply = [n \in Replicas |-> NoPage]
    /\ txn = [n \in Replicas |-> EmptyStore]
    /\ serve = [n \in Replicas |-> NoServe]
    /\ backup = [n \in Replicas |-> NoBackup]
    /\ faults = 0

-----------------------------------------------------------------------------
(* The server's handlers.                                                  *)

\* Slip: no lock.
NeverLocked(n) == n \in Replicas

Unlocked(n) ==
    /\ serve[n] = NoServe
    /\ worker[n].phase \notin {"apply", "complete"}

\* sequence(): a cursor of another generation, or beyond the head, is refused;
\* no cursor is the beginning.
\* Slip: the generation is not looked at.
AcceptsAnyEpoch(p, cursor) == cursor.seq <= Len(store[p].log)

Accepts(p, cursor) ==
    \/ cursor = NoCursor
    \/ cursor.epoch = epoch[p] /\ cursor.seq <= Len(store[p].log)

Reach(from, n) == IF from + PageSize < Len(store[n].log)
                  THEN from + PageSize ELSE Len(store[n].log)

\* Slip: the cursor of a bounded page is that of the head.
ChangesToHead(p, cursor) ==
    [ops    |-> SubSeq(store[p].log, cursor.seq + 1, Reach(cursor.seq, p)),
     cursor |-> [epoch |-> epoch[p], seq |-> Len(store[p].log)],
     more   |-> Reach(cursor.seq, p) < Len(store[p].log)]

\* changes(): the operations after the cursor, at most a page of them.
Changes(p, cursor) ==
    [ops    |-> SubSeq(store[p].log, cursor.seq + 1, Reach(cursor.seq, p)),
     cursor |-> [epoch |-> epoch[p], seq |-> Reach(cursor.seq, p)],
     more   |-> Reach(cursor.seq, p) < Len(store[p].log)]

-----------------------------------------------------------------------------
(* A tick: restore, history, push, pull.                                   *)

peer(n) == worker[n].peer
here(n) == link[n][worker[n].peer]

SetLink(n, l) == link' = [link EXCEPT ![n][peer(n)] = l]
Goto(n, w) == worker' = [worker EXCEPT ![n] = w]
To(n, phase) == [worker[n] EXCEPT !.phase = phase]

\* The tick ends, well or with an error: whatever it had in memory is gone.
Stop(n) ==
    /\ Goto(n, Idle)
    /\ reply' = [reply EXCEPT ![n] = NoPage]
    /\ txn' = [txn EXCEPT ![n] = EmptyStore]

\* capabilities() tells the peer's epoch, and with it which local values count.
BeginTick(n, p) ==
    /\ worker[n].phase = "idle" /\ p \in Peers[n] /\ Unlocked(p)
    /\ Goto(n, [Idle EXCEPT !.phase = "restore", !.peer = p])
    /\ link' = [link EXCEPT ![n][p] = IF @.identity = epoch[p] THEN @ ELSE NewLink(epoch[p])]
    /\ UNCHANGED <<store, issued, epoch, reply, txn, serve, backup, faults>>

\* restore(): a snapshot less than five minutes old is enough.  The age of the
\* last one is not kept: with a cursor, either may be the case.
SkipRestore(n) ==
    /\ worker[n].phase = "restore" /\ ~worker[n].forced
    /\ here(n).staged = NoSnapshot /\ here(n).receive # NoCursor
    /\ Goto(n, To(n, "history"))
    /\ UNCHANGED <<store, issued, epoch, link, reply, txn, serve, backup, faults>>

\* snapshot() freezes the peer's entities and head, begin_snapshot and
\* stage_snapshot_page keep them until they are merged or abandoned.
RequestSnapshot(n) ==
    /\ worker[n].phase = "restore" /\ here(n).staged = NoSnapshot
    /\ Unlocked(peer(n))
    /\ SetLink(n, [here(n) EXCEPT !.staged =
                      [store  |-> store[peer(n)],
                       cursor |-> [epoch |-> epoch[peer(n)],
                                   seq   |-> Len(store[peer(n)].log)]]])
    /\ UNCHANGED <<store, issued, epoch, worker, reply, txn, serve, backup, faults>>

\* Slip: the history counts as fetched up to the watermark.
LandedWithHistory(l) == [l EXCEPT !.receive = l.staged.cursor, !.history = l.staged.cursor,
                                  !.staged = NoSnapshot]

Landed(l) == [l EXCEPT !.receive = l.staged.cursor, !.staged = NoSnapshot]

\* finish_snapshot: one transaction merges the entities, moves the receive
\* cursor to the watermark and drops the staged pages.
FinishSnapshot(n) ==
    /\ worker[n].phase = "restore" /\ here(n).staged # NoSnapshot
    /\ Unlocked(n)
    /\ LET staged == here(n).staged.store IN
       \E c \in MergedClocks(store[n], staged) :
          /\ Highest(c, MergedClocks(store[n], staged))
          /\ store' = [store EXCEPT ![n] = MergeSnapshot(@, staged, c)]
    /\ SetLink(n, Landed(here(n)))
    /\ Goto(n, IF ~worker[n].forced THEN To(n, "history")
               ELSE IF worker[n].pages + 1 = MaxPages THEN Idle
               ELSE [To(n, "pull") EXCEPT !.forced = FALSE, !.recovered = TRUE,
                                          !.pages = @ + 1])
    /\ UNCHANGED <<issued, epoch, reply, txn, serve, backup, faults>>

\* A snapshot the peer no longer has is abandoned, and the tick with it.
ExpireSnapshot(n) ==
    /\ worker[n].phase = "restore" /\ here(n).staged # NoSnapshot
    /\ faults < MaxFaults /\ faults' = faults + 1
    /\ SetLink(n, [here(n) EXCEPT !.staged = NoSnapshot])
    /\ Stop(n)
    /\ UNCHANGED <<store, issued, epoch, serve, backup>>

\* pull_history, once the whole log has been read: nothing more to do
SkipHistory(n) ==
    /\ worker[n].phase = "history"
    /\ here(n).complete \/ worker[n].pages = MaxPages
    /\ Goto(n, [To(n, "push") EXCEPT !.pages = 0])
    /\ UNCHANGED <<store, issued, epoch, link, reply, txn, serve, backup, faults>>

RequestHistory(n) ==
    /\ worker[n].phase = "history" /\ ~here(n).complete /\ worker[n].pages < MaxPages
    /\ Unlocked(peer(n)) /\ Accepts(peer(n), here(n).history)
    /\ reply' = [reply EXCEPT ![n] = Changes(peer(n), here(n).history)]
    /\ Goto(n, [To(n, "reply") EXCEPT !.into = "history"])
    /\ UNCHANGED <<store, issued, epoch, link, txn, serve, backup, faults>>

RefuseHistory(n) ==
    /\ worker[n].phase = "history" /\ ~here(n).complete /\ worker[n].pages < MaxPages
    /\ Unlocked(peer(n)) /\ ~Accepts(peer(n), here(n).history)
    /\ Stop(n)
    /\ UNCHANGED <<store, issued, epoch, link, serve, backup, faults>>

\* The push loop ends when nothing is left to send.
EndPush(n) ==
    /\ worker[n].phase = "push"
    /\ here(n).send >= Len(store[n].log) \/ worker[n].pages = MaxPages
    /\ Unlocked(n)
    /\ Goto(n, [To(n, "pull") EXCEPT !.pages = 0])
    /\ UNCHANGED <<store, issued, epoch, link, reply, txn, serve, backup, faults>>

RequestPush(n) ==
    /\ worker[n].phase = "push"
    /\ here(n).send < Len(store[n].log) /\ worker[n].pages < MaxPages
    /\ Unlocked(n) /\ Unlocked(peer(n))
    /\ serve' = [serve EXCEPT ![peer(n)] =
                    [client |-> n, ok |-> TRUE,
                     todo |-> SubSeq(store[n].log, here(n).send + 1, Reach(here(n).send, n))]]
    /\ Goto(n, [To(n, "pushing") EXCEPT !.upto = Reach(here(n).send, n)])
    /\ UNCHANGED <<store, issued, epoch, link, reply, txn, backup, faults>>

\* Slip: a receipt for every operation.
AlwaysPersisted(p, op) == p \in Replicas /\ op \in issued

Persisted(p, op) == ~Rejected(store[p], op)

\* push(): every operation is received on its own; a refused one is reported
\* and the rest go on.
ServeOne(p) ==
    /\ serve[p] # NoServe /\ serve[p].todo # <<>>
    /\ LET op == Head(serve[p].todo) IN
       /\ store' = IF Rejected(store[p], op) THEN store
                   ELSE [store EXCEPT ![p] = Receive(@, op)]
       /\ serve' = [serve EXCEPT ![p].todo = Tail(@), ![p].ok = @ /\ Persisted(p, op)]
    /\ UNCHANGED <<issued, epoch, link, worker, reply, txn, backup, faults>>

\* The receipts come back if the client still waits for them.  One operation
\* that is not persisted fails the client's tick.
ServeDone(p) ==
    /\ serve[p] # NoServe /\ serve[p].todo = <<>>
    /\ serve' = [serve EXCEPT ![p] = NoServe]
    /\ LET n == serve[p].client IN
       IF worker[n].phase = "pushing" /\ peer(n) = p
       THEN Goto(n, IF serve[p].ok THEN To(n, "acking") ELSE Idle)
       ELSE UNCHANGED worker
    /\ UNCHANGED <<store, issued, epoch, link, reply, txn, backup, faults>>

\* Slip: everything in the log counts as sent.
AckedToHead(n) == Len(store[n].log)

\* The position of the last operation of the batch that was pushed.
Acked(n) == worker[n].upto

\* acknowledge_sync
AckPush(n) ==
    /\ worker[n].phase = "acking" /\ Unlocked(n)
    /\ SetLink(n, [here(n) EXCEPT !.send = Acked(n)])
    /\ Goto(n, [To(n, "push") EXCEPT !.pages = @ + 1, !.upto = 0])
    /\ UNCHANGED <<store, issued, epoch, reply, txn, serve, backup, faults>>

RequestPull(n) ==
    /\ worker[n].phase = "pull"
    /\ Unlocked(peer(n)) /\ Accepts(peer(n), here(n).receive)
    /\ reply' = [reply EXCEPT ![n] = Changes(peer(n), here(n).receive)]
    /\ Goto(n, [To(n, "reply") EXCEPT !.into = "receive"])
    /\ UNCHANGED <<store, issued, epoch, link, txn, serve, backup, faults>>

\* The first refused cursor of a tick leads to a new snapshot, the second ends it.
RefusePull(n) ==
    /\ worker[n].phase = "pull" /\ Unlocked(peer(n))
    /\ ~Accepts(peer(n), here(n).receive)
    /\ Goto(n, IF worker[n].recovered THEN Idle
               ELSE [To(n, "restore") EXCEPT !.forced = TRUE])
    /\ UNCHANGED <<store, issued, epoch, link, reply, txn, serve, backup, faults>>

\* receive_operations: the lock is taken, the operations of the page are
\* applied to a copy one after the other, and one refused operation aborts all.
OpenPage(n) ==
    /\ worker[n].phase = "reply" /\ Unlocked(n)
    /\ txn' = [txn EXCEPT ![n] = store[n]]
    /\ Goto(n, To(n, "apply"))
    /\ UNCHANGED <<store, issued, epoch, link, reply, serve, backup, faults>>

ApplyOne(n) ==
    /\ worker[n].phase = "apply" /\ reply[n].ops # <<>>
    /\ LET op == Head(reply[n].ops) IN
       IF Rejected(txn[n], op) THEN Stop(n)
       ELSE /\ txn' = [txn EXCEPT ![n] = Receive(@, op)]
            /\ reply' = [reply EXCEPT ![n].ops = Tail(@)]
            /\ UNCHANGED worker
    /\ UNCHANGED <<store, issued, epoch, link, serve, backup, faults>>

\* receive_batch commits the entities, the log and the cursor together.
CommitPage(n) ==
    /\ worker[n].phase = "apply" /\ reply[n].ops = <<>>
    /\ store' = [store EXCEPT ![n] = txn[n]]
    /\ LET w == worker[n] IN
       IF w.into = "history"
       THEN /\ SetLink(n, [here(n) EXCEPT !.history = reply[n].cursor])
            /\ Goto(n, IF reply[n].more
                       THEN [To(n, "history") EXCEPT !.pages = @ + 1]
                       ELSE To(n, "complete"))
       ELSE /\ SetLink(n, [here(n) EXCEPT !.receive = reply[n].cursor])
            /\ Goto(n, IF reply[n].more /\ w.pages + 1 < MaxPages
                       THEN [To(n, "pull") EXCEPT !.pages = @ + 1]
                       ELSE Idle)
    /\ reply' = [reply EXCEPT ![n] = NoPage]
    /\ txn' = [txn EXCEPT ![n] = EmptyStore]
    /\ UNCHANGED <<issued, epoch, serve, backup, faults>>

\* After the last page, under the same lock but in a transaction of its own.
SetComplete(n) ==
    /\ worker[n].phase = "complete"
    /\ SetLink(n, [here(n) EXCEPT !.complete = TRUE])
    /\ Goto(n, [To(n, "push") EXCEPT !.pages = 0])
    /\ UNCHANGED <<store, issued, epoch, reply, txn, serve, backup, faults>>

-----------------------------------------------------------------------------
(* What goes wrong.                                                        *)

\* A call of the tick fails.  Under the lock nothing is awaited.
Fail(n) ==
    /\ worker[n].phase \notin {"idle", "apply", "complete"}
    /\ faults < MaxFaults /\ faults' = faults + 1
    /\ Stop(n)
    /\ UNCHANGED <<store, issued, epoch, link, serve, backup>>

\* The process of n stops: its tick and the push it serves are gone, and who
\* waits for it sees the connection break.
Disconnected(n) ==
    [m \in Replicas |->
        IF m = n \/ (worker[m].phase = "pushing" /\ worker[m].peer = n) THEN Idle
        ELSE worker[m]]

Crash(n) ==
    /\ worker[n] # Idle \/ serve[n] # NoServe
    /\ faults < MaxFaults /\ faults' = faults + 1
    /\ worker' = Disconnected(n)
    /\ serve' = [serve EXCEPT ![n] = NoServe]
    /\ reply' = [reply EXCEPT ![n] = NoPage]
    /\ txn' = [txn EXCEPT ![n] = EmptyStore]
    /\ UNCHANGED <<store, issued, epoch, link, backup>>

TakeBackup(n) ==
    /\ epoch[n] < MaxRestores[n] /\ Unlocked(n)
    /\ backup' = [backup EXCEPT ![n] = [store |-> store[n], link |-> link[n], taken |-> TRUE]]
    /\ UNCHANGED <<store, issued, epoch, link, worker, reply, txn, serve, faults>>

\* Slip: the restored database keeps its generation.
SameGeneration(n) == epoch[n]

NextGeneration(n) == epoch[n] + 1

\* prepare_restored_database: a new generation; what was received from peers
\* is to be fetched again, what was sent to them and the history are not.
RestoreBackup(n) ==
    /\ backup[n].taken /\ epoch[n] < MaxRestores[n]
    /\ store' = [store EXCEPT ![n] = backup[n].store]
    /\ epoch' = [epoch EXCEPT ![n] = NextGeneration(n)]
    /\ link' = [link EXCEPT ![n] =
                   [p \in Replicas |->
                       [backup[n].link[p] EXCEPT !.receive = NoCursor, !.staged = NoSnapshot]]]
    /\ worker' = Disconnected(n)
    /\ serve' = [serve EXCEPT ![n] = NoServe]
    /\ reply' = [reply EXCEPT ![n] = NoPage]
    /\ txn' = [txn EXCEPT ![n] = EmptyStore]
    /\ UNCHANGED <<issued, backup, faults>>

-----------------------------------------------------------------------------
WorkerStep(n) ==
    \/ SkipRestore(n) \/ RequestSnapshot(n) \/ FinishSnapshot(n)
    \/ SkipHistory(n) \/ RequestHistory(n) \/ RefuseHistory(n)
    \/ EndPush(n) \/ RequestPush(n) \/ AckPush(n)
    \/ RequestPull(n) \/ RefusePull(n)
    \/ OpenPage(n) \/ ApplyOne(n) \/ CommitPage(n) \/ SetComplete(n)

ServeStep(n) == ServeOne(n) \/ ServeDone(n)

Disturbance(n) ==
    \/ ExpireSnapshot(n) \/ Fail(n) \/ Crash(n)
    \/ TakeBackup(n) \/ RestoreBackup(n)

Next ==
    \E n \in Replicas :
        \/ Command(n) /\ Unlocked(n) /\ UNCHANGED protocol
        \/ \E p \in Peers[n] : BeginTick(n, p)
        \/ WorkerStep(n)
        \/ ServeStep(n)
        \/ Disturbance(n)

Spec == Init /\ [][Next]_vars

\* The worker loop goes round its peers for as long as the process runs, and a
\* handler that has the lock runs to its end.
Fairness ==
    \A n \in Replicas :
        /\ \A p \in Peers[n] : SF_vars(BeginTick(n, p))
        /\ SF_vars(WorkerStep(n))
        /\ WF_vars(ServeStep(n))

FairSpec == Spec /\ Fairness

-----------------------------------------------------------------------------
TypeOK ==
    /\ store \in [Replicas -> Store] /\ issued \in SUBSET Operation
    /\ epoch \in [Replicas -> Nat] /\ faults \in Nat
    /\ link \in [Replicas -> [Replicas -> Link]]
    /\ worker \in [Replicas -> Worker]
    /\ reply \in [Replicas -> Page] /\ txn \in [Replicas -> Store]
    /\ serve \in [Replicas -> Serve] /\ backup \in [Replicas -> Backup]

Positions(n, seq) == 1 .. (IF seq < Len(store[n].log) THEN seq ELSE Len(store[n].log))

\* A send cursor never passes an operation the peer does not have: what a node
\* considers sent is in the log of the generation it was sent to, so that lost
\* receipts, crashes and edits made during a push lose nothing.
SendDelivered ==
    \A n \in Replicas : \A p \in Peers[n] :
        link[n][p].identity = epoch[p] =>
            /\ link[n][p].send <= Len(store[n].log)
            /\ \A i \in Positions(n, link[n][p].send) : Logged(store[p], store[n].log[i])

\* A receive cursor never passes an operation whose effect is missing, whether
\* it was moved by a page or by a snapshot.
ReceiveAbsorbed ==
    \A n \in Replicas : \A p \in Peers[n] :
        link[n][p].receive.epoch = epoch[p] =>
            /\ link[n][p].receive.seq <= Len(store[p].log)
            /\ \A i \in Positions(p, link[n][p].receive.seq) :
                   store[p].log[i] \in store[n].known

\* A history cursor never passes an operation missing from the log.
HistoryLogged ==
    \A n \in Replicas : \A p \in Peers[n] :
        link[n][p].history.epoch = epoch[p] =>
            \A i \in Positions(p, link[n][p].history.seq) :
                Logged(store[n], store[p].log[i])

\* Unless it is restored from a backup no node goes back: tombstones and newest
\* versions stay, and the log, which the cursors of the peers point into, only
\* grows at its end.
OnlyRestoresGoBack ==
    [][\A n \in Replicas : epoch'[n] = epoch[n] =>
          /\ Len(store[n].log) <= Len(store'[n].log)
          /\ SubSeq(store'[n].log, 1, Len(store[n].log)) = store[n].log
          /\ \A e \in Entities :
                /\ store[n].entities[e].deleted => store'[n].entities[e].deleted
                /\ \A k \in Keys : ~Before(store'[n].entities[e].fields[k].version,
                                            store[n].entities[e].fields[k].version)]_vars

\* Every node ends up with every operation that is not lost: from some point on
\* all nodes have absorbed the same ones (workspace-sync.md: eventual
\* consistency).
EventuallyConsistent ==
    <>[](\A m, n \in Replicas : store[m].known = store[n].known)

\* Snapshots create no operations; the history is fetched and kept separately
\* (current-status.md).  With the history complete, everything received is in
\* the log.
HistoryKept ==
    \A n \in Replicas : \A p \in Peers[n] :
        /\ link[n][p].identity = epoch[p] /\ link[n][p].complete
        /\ link[n][p].receive.epoch = epoch[p]
        => \A i \in Positions(p, link[n][p].receive.seq) :
               Logged(store[n], store[p].log[i])

\* What the users of the workspace are promised.
Shared == INSTANCE SharedWorkspace WITH
              entities <- [n \in Replicas |-> store[n].entities],
              known    <- [n \in Replicas |-> store[n].known],
              saved    <- [n \in Replicas |-> backup[n].store.known]
Promise == Shared!Spec
=============================================================================
