--------------------------- MODULE Replication_proofs ---------------------------
(***************************************************************************)
(* What the replication protocol keeps true for any replicas, peers, page  *)
(* sizes and bounds.  The invariant says that every store the protocol     *)
(* holds, be it a node's, staged, uncommitted or in a backup, is in order  *)
(* and absorbed issued operations only, that what is on its way was issued,*)
(* and that a page is applied under the lock, to a copy of the store no    *)
(* one else changes meanwhile.                                             *)
(*                                                                         *)
(* The second half proves that no cursor ever passes an operation whose    *)
(* effect is missing.  A cursor points into the log of one generation of a *)
(* peer.  Within a generation logs only grow, and what a node has absorbed *)
(* is only lost with its generation; so what has to be known is that every *)
(* cursor, and every page, push and snapshot on its way to become one, is  *)
(* right at the moment it is taken.                                        *)
(***************************************************************************)
EXTENDS Replication, Commands_proofs

Carried(s, ops) == StoreOK(s) /\ s.known \subseteq ops

Among(seq, ops) == \A i \in DOMAIN seq : seq[i] \in ops

LinkInv ==
    /\ link \in [Replicas -> [Replicas -> Link]]
    /\ \A n, p \in Replicas : Carried(link[n][p].staged.store, issued)

WorkerInv ==
    /\ worker \in [Replicas -> Worker]
    /\ \A n \in Replicas : worker[n].phase # "idle" => worker[n].peer \in Replicas

ReplyInv ==
    /\ reply \in [Replicas -> Page]
    /\ \A n \in Replicas : Among(reply[n].ops, issued)

TxnInv ==
    /\ txn \in [Replicas -> Store]
    /\ \A n \in Replicas : Carried(txn[n], issued)

ServeInv ==
    /\ serve \in [Replicas -> Serve]
    /\ \A n \in Replicas : Among(serve[n].todo, issued)
    /\ \A n \in Replicas : serve[n] # NoServe => serve[n].client \in Replicas

BackupInv ==
    /\ backup \in [Replicas -> Backup]
    /\ \A n \in Replicas : Carried(backup[n].store, issued)

CountInv == epoch \in [Replicas -> Nat] /\ faults \in Nat

\* Who applies a page holds the lock, and the copy contains the store.
LockInv ==
    \A n \in Replicas :
        /\ worker[n].phase \in {"apply", "complete"} => serve[n] = NoServe
        /\ worker[n].phase = "apply" => store[n].known \subseteq txn[n].known

RInv == /\ Inv /\ CountInv /\ LinkInv /\ WorkerInv /\ ReplyInv /\ TxnInv /\ ServeInv
        /\ BackupInv /\ LockInv

-----------------------------------------------------------------------------
(* The parts of the invariant a step leaves alone, and those it sets.      *)

\* What a step leaves unchanged keeps its part of the invariant.
LEMMA Frame ==
    ASSUME RInv, issued' = issued
    PROVE  /\ store' = store => Inv'
           /\ UNCHANGED <<epoch, faults>> => CountInv'
           /\ link' = link => LinkInv'
           /\ worker' = worker => WorkerInv'
           /\ reply' = reply => ReplyInv'
           /\ txn' = txn => TxnInv'
           /\ serve' = serve => ServeInv'
           /\ backup' = backup => BackupInv'
           /\ UNCHANGED <<store, worker, txn, serve>> => LockInv'
BY DEF RInv, Inv, CountInv, LinkInv, WorkerInv, ReplyInv, TxnInv, ServeInv, BackupInv, LockInv

\* A store in order may replace a node's.
LEMMA StoreSet ==
    ASSUME Inv, issued' = issued, NEW n \in Replicas, NEW s, Carried(s, issued),
           store' = [store EXCEPT ![n] = s]
    PROVE  Inv'
<1>1. s \in Store BY DEF Carried, StoreOK
<1> QED BY <1>1 DEF Inv, Carried

\* A record of a peer whose staged pages are in order may replace another.
LEMMA LinkSet ==
    ASSUME LinkInv, issued' = issued, NEW n \in Replicas, NEW p \in Replicas,
           NEW l \in Link, Carried(l.staged.store, issued),
           link' = [link EXCEPT ![n][p] = l]
    PROVE  LinkInv'
<1>1. link' \in [Replicas -> [Replicas -> Link]] BY DEF LinkInv
<1>2. ASSUME NEW m \in Replicas, NEW q \in Replicas
      PROVE  link'[m][q] = IF m = n /\ q = p THEN l ELSE link[m][q]
  BY DEF LinkInv
<1>3. ASSUME NEW m \in Replicas, NEW q \in Replicas
      PROVE  Carried(link'[m][q].staged.store, issued')
  BY <1>2 DEF LinkInv
<1> QED BY <1>1, <1>3 DEF LinkInv

\* A worker that has a peer may replace another.
LEMMA WorkerSet ==
    ASSUME WorkerInv, NEW n \in Replicas, NEW w \in Worker,
           w.phase = "idle" \/ w.peer \in Replicas,
           worker' = [worker EXCEPT ![n] = w]
    PROVE  WorkerInv'
BY DEF WorkerInv

\* A page of issued operations may be a node's reply.
LEMMA ReplySet ==
    ASSUME ReplyInv, issued' = issued, NEW n \in Replicas, NEW page \in Page,
           Among(page.ops, issued), reply' = [reply EXCEPT ![n] = page]
    PROVE  ReplyInv'
BY DEF ReplyInv

\* A store in order may be an uncommitted result.
LEMMA TxnSet ==
    ASSUME TxnInv, issued' = issued, NEW n \in Replicas, NEW s, Carried(s, issued),
           txn' = [txn EXCEPT ![n] = s]
    PROVE  TxnInv'
<1>1. s \in Store BY DEF Carried, StoreOK
<1> QED BY <1>1 DEF TxnInv

\* A push of issued operations may be served.
LEMMA ServeSet ==
    ASSUME ServeInv, issued' = issued, NEW n \in Replicas, NEW s \in Serve,
           Among(s.todo, issued), s = NoServe \/ s.client \in Replicas,
           serve' = [serve EXCEPT ![n] = s]
    PROVE  ServeInv'
BY DEF ServeInv

\* The empty records.
LEMMA Nothings ==
    /\ Carried(EmptyStore, issued) /\ EmptyStore \in Store
    /\ NoPage \in Page /\ Among(NoPage.ops, issued)
    /\ NoServe \in Serve /\ Among(NoServe.todo, issued)
    /\ Idle \in Worker /\ Idle.phase = "idle"
    /\ NoSnapshot.store = EmptyStore
    /\ \A i \in Nat \cup {-1} : NewLink(i) \in Link /\ NewLink(i).staged = NoSnapshot
    /\ NoBackup \in Backup /\ NoBackup.store = EmptyStore
<1>1. Carried(EmptyStore, issued) BY EmptyStoreOK DEF Carried, EmptyStore
<1>2. EmptyStore \in Store BY EmptyStoreOK DEF StoreOK
<1>3. NoPage \in Page /\ Among(NoPage.ops, issued) BY DEF NoPage, Page, Among
<1>4. NoServe \in Serve /\ Among(NoServe.todo, issued) BY DEF NoServe, Serve, Among
<1>5. Idle \in Worker /\ Idle.phase = "idle" BY DEF Idle, Worker, Phases
<1>6. NoSnapshot.store = EmptyStore BY DEF NoSnapshot
<1>7. ASSUME NEW i \in Nat \cup {-1}
      PROVE  NewLink(i) \in Link /\ NewLink(i).staged = NoSnapshot
  BY DEF NewLink, Link
<1>8. NoBackup \in Backup /\ NoBackup.store = EmptyStore
  <2>1. NewLink(-1) \in Link BY <1>7
  <2>2. [p \in Replicas |-> NewLink(-1)] \in [Replicas -> Link] BY <2>1
  <2> QED BY <1>2, <2>2 DEF NoBackup, Backup
<1> QED BY <1>1, <1>2, <1>3, <1>4, <1>5, <1>6, <1>7, <1>8

\* The initial state satisfies the invariant.
LEMMA RInitInv == Init => RInv
<1> SUFFICES ASSUME Init PROVE RInv OBVIOUS
<1>1. Inv BY StoreInitInv DEF Init
<1>2. CountInv BY DEF Init, CountInv
<1>3. LinkInv
  <2>1. NewLink(-1) \in Link /\ NewLink(-1).staged.store = EmptyStore BY Nothings
  <2> QED BY <2>1, Nothings DEF Init, LinkInv
<1>4. WorkerInv /\ ReplyInv BY Nothings DEF Init, WorkerInv, ReplyInv
<1>5. TxnInv /\ ServeInv /\ BackupInv BY Nothings DEF Init, TxnInv, ServeInv, BackupInv
<1>6. LockInv BY DEF Init, LockInv, Idle
<1> QED BY <1>1, <1>2, <1>3, <1>4, <1>5, <1>6 DEF RInv

-----------------------------------------------------------------------------
(* The steps of a tick.                                                    *)

\* A step that moves the worker of n, and no lock, to phase w.
LEMMA LockKept ==
    ASSUME RInv, NEW n \in Replicas, NEW w \in Worker,
           w.phase \notin {"apply", "complete"}, worker' = [worker EXCEPT ![n] = w],
           serve' = serve, store' = store \/ (\E s : store' = [store EXCEPT ![n] = s]),
           txn' = txn \/ (\E s : txn' = [txn EXCEPT ![n] = s])
    PROVE  LockInv'
<1>1. ASSUME NEW m \in Replicas, m # n
      PROVE  store'[m] = store[m] /\ txn'[m] = txn[m] /\ worker'[m] = worker[m]
  BY <1>1 DEF RInv, Inv, TxnInv, WorkerInv
<1>2. worker'[n] = w BY DEF RInv, WorkerInv
<1> QED BY <1>1, <1>2 DEF RInv, LockInv

\* A tick that ends leaves nothing behind that was in memory.
LEMMA StopInv ==
    ASSUME RInv, NEW n \in Replicas, Stop(n), issued' = issued, store' = store, serve' = serve
    PROVE  WorkerInv' /\ ReplyInv' /\ TxnInv' /\ LockInv'
<1>1. WorkerInv' BY Nothings, WorkerSet DEF RInv, Stop, Goto
<1>2. ReplyInv' BY Nothings, ReplySet DEF RInv, Stop
<1>3. TxnInv' BY Nothings, TxnSet DEF RInv, Stop
<1>4. LockInv'
  <2>1. Idle \in Worker /\ Idle.phase \notin {"apply", "complete"} BY Nothings
  <2> QED BY <2>1, LockKept DEF Stop, Goto
<1> QED BY <1>1, <1>2, <1>3, <1>4

\* The record of the peer a worker is at, and the moves of its phase.
LEMMA AtPeer ==
    ASSUME RInv, NEW n \in Replicas, worker[n].phase # "idle"
    PROVE  /\ peer(n) \in Replicas /\ worker[n] \in Worker
           /\ here(n) \in Link /\ Carried(here(n).staged.store, issued)
           /\ \A phase \in Phases : /\ To(n, phase) \in Worker /\ To(n, phase).phase = phase
                                    /\ To(n, phase).peer = peer(n)
<1>1. peer(n) \in Replicas /\ worker[n] \in Worker BY DEF RInv, WorkerInv, peer
<1>2. here(n) = link[n][peer(n)] BY DEF here, peer
<1>3. here(n) \in Link /\ Carried(here(n).staged.store, issued)
  BY <1>1, <1>2 DEF RInv, LinkInv
<1>4. ASSUME NEW phase \in Phases
      PROVE  /\ To(n, phase) \in Worker /\ To(n, phase).phase = phase
             /\ To(n, phase).peer = peer(n)
  BY <1>1 DEF To, Worker, peer
<1> QED BY <1>1, <1>3, <1>4

\* A step that only moves the worker and the record of its peer.
LEMMA WorkInv ==
    ASSUME RInv, NEW n \in Replicas, NEW w \in Worker, w.peer \in Replicas \/ w.phase = "idle",
           w.phase \notin {"apply", "complete"}, Goto(n, w), LinkInv', ReplyInv',
           UNCHANGED <<store, issued, epoch, txn, serve, backup, faults>>
    PROVE  RInv'
<1>1. WorkerInv' BY WorkerSet DEF RInv, Goto
<1>2. LockInv' BY LockKept DEF Goto
<1> QED BY <1>1, <1>2, Frame DEF RInv

\* The elements of a stretch of a sequence.
LEMMA Stretch ==
    ASSUME NEW S, NEW seq \in Seq(S), NEW a \in Nat, NEW b \in Nat, b <= Len(seq)
    PROVE  /\ SubSeq(seq, a + 1, b) \in Seq(S)
           /\ \A i \in DOMAIN SubSeq(seq, a + 1, b) :
                 a + i \in DOMAIN seq /\ SubSeq(seq, a + 1, b)[i] = seq[a + i]
<1>1. CASE b < a + 1
  <2>1. SubSeq(seq, a + 1, b) = << >> BY <1>1
  <2> QED BY <2>1
<1>2. CASE a + 1 <= b
  <2>1. /\ SubSeq(seq, a + 1, b) \in Seq(S)
        /\ Len(SubSeq(seq, a + 1, b)) = b - a
        /\ \A i \in 1 .. b - a : SubSeq(seq, a + 1, b)[i] = seq[a + i]
    BY <1>2
  <2> QED BY <1>2, <2>1
<1> QED BY <1>1, <1>2

\* A page of changes() holds issued operations, within the log.
LEMMA ChangesPage ==
    ASSUME RInv, NEW p \in Replicas, NEW cursor \in Cursor \cup {NoCursor},
           Accepts(p, cursor)
    PROVE  Changes(p, cursor) \in Page /\ Among(Changes(p, cursor).ops, issued)
<1> DEFINE log == store[p].log
           ops == SubSeq(log, cursor.seq + 1, Reach(cursor.seq, p))
<1>1. /\ log \in Seq(Operation) /\ \A i \in DOMAIN log : log[i] \in issued
      /\ epoch[p] \in Nat
  BY DEF RInv, Inv, StoreOK, Store, CountInv
<1>2. cursor.seq \in Nat /\ cursor.seq <= Len(log)
  BY <1>1 DEF Accepts, Cursor, NoCursor
<1>3. Reach(cursor.seq, p) \in Nat /\ Reach(cursor.seq, p) <= Len(log)
  BY <1>1, <1>2, ProtocolAssumption DEF Reach, ProtocolAssumption
<1>4. ops \in Seq(Operation) /\ Among(ops, issued)
  <2> HIDE DEF log
  <2>1. /\ ops \in Seq(Operation)
        /\ \A i \in DOMAIN ops : cursor.seq + i \in DOMAIN log /\ ops[i] = log[cursor.seq + i]
    BY <1>1, <1>2, <1>3, Stretch
  <2> QED BY <1>1, <2>1 DEF Among
<1> HIDE DEF ops
<1>5. Changes(p, cursor) = [ops    |-> ops,
                            cursor |-> [epoch |-> epoch[p], seq |-> Reach(cursor.seq, p)],
                            more   |-> Reach(cursor.seq, p) < Len(store[p].log)]
  BY DEF Changes, ops
<1> QED BY <1>1, <1>3, <1>4, <1>5 DEF Page, Cursor

\* BeginTick keeps the invariant.
LEMMA BeginTickInv ==
    ASSUME RInv, NEW n \in Replicas, NEW p \in Peers[n], BeginTick(n, p)
    PROVE  RInv'
<1> DEFINE w == [Idle EXCEPT !.phase = "restore", !.peer = p]
           l == IF link[n][p].identity = epoch[p] THEN link[n][p] ELSE NewLink(epoch[p])
<1>1. p \in Replicas BY ProtocolAssumption DEF ProtocolAssumption
<1>2. w \in Worker /\ w.peer \in Replicas /\ w.phase = "restore"
  BY <1>1 DEF Idle, Worker, Phases
<1>3. l \in Link /\ Carried(l.staged.store, issued)
  <2>1. epoch[p] \in Nat BY <1>1 DEF RInv, CountInv
  <2>2. link[n][p] \in Link /\ Carried(link[n][p].staged.store, issued)
    BY <1>1 DEF RInv, LinkInv
  <2> QED BY <2>1, <2>2, Nothings
<1>4. link' = [link EXCEPT ![n][p] = l]
  BY <1>1 DEF BeginTick, RInv, LinkInv
<1>5. Goto(n, w) /\ UNCHANGED <<store, issued, epoch, reply, txn, serve, backup, faults>>
  BY DEF BeginTick
<1> HIDE DEF w, l
<1>6. LinkInv' BY <1>1, <1>3, <1>4, <1>5, LinkSet DEF RInv
<1>7. ReplyInv' BY <1>5, Frame
<1> QED BY <1>2, <1>5, <1>6, <1>7, WorkInv

\* SkipRestore keeps the invariant.
LEMMA SkipRestoreInv ==
    ASSUME RInv, NEW n \in Replicas, SkipRestore(n)
    PROVE  RInv'
<1>1. "history" \in Phases BY DEF Phases
<1>2. LinkInv' /\ ReplyInv' BY Frame DEF SkipRestore
<1> QED BY <1>1, <1>2, AtPeer, WorkInv DEF SkipRestore

\* RequestSnapshot keeps the invariant.
LEMMA RequestSnapshotInv ==
    ASSUME RInv, NEW n \in Replicas, RequestSnapshot(n)
    PROVE  RInv'
<1> DEFINE p == peer(n)
           snapshot == [store  |-> store[p],
                        cursor |-> [epoch |-> epoch[p], seq |-> Len(store[p].log)]]
           l == [here(n) EXCEPT !.staged = snapshot]
<1>1. p \in Replicas /\ here(n) \in Link BY AtPeer DEF RequestSnapshot
<1>2. Carried(store[p], issued) /\ store[p] \in Store /\ epoch[p] \in Nat
  BY <1>1 DEF RInv, Inv, CountInv, Carried
<1>3. snapshot \in Snapshot /\ snapshot.store = store[p]
  BY <1>2 DEF Snapshot, Cursor, Store
<1> HIDE DEF snapshot
<1>4. l \in Link /\ l.staged = snapshot BY <1>1, <1>3 DEF Link
<1>5. link' = [link EXCEPT ![n][p] = l] BY DEF RequestSnapshot, SetLink, p, snapshot
<1>6. UNCHANGED <<store, issued, epoch, worker, reply, txn, serve, backup, faults>>
  BY DEF RequestSnapshot
<1> HIDE DEF l, p
<1>7. LinkInv' BY <1>1, <1>2, <1>3, <1>4, <1>5, <1>6, LinkSet DEF RInv
<1> QED BY <1>6, <1>7, Frame DEF RInv

\* FinishSnapshot keeps the invariant.
LEMMA FinishSnapshotInv ==
    ASSUME RInv, NEW n \in Replicas, FinishSnapshot(n)
    PROVE  RInv'
<1>1. worker[n].phase = "restore" BY DEF FinishSnapshot
<1>2. /\ peer(n) \in Replicas /\ here(n) \in Link /\ worker[n] \in Worker
      /\ Carried(here(n).staged.store, issued)
  BY <1>1, AtPeer
<1>3. Inv'
  <2>1. PICK c : /\ Highest(c, MergedClocks(store[n], here(n).staged.store))
                 /\ store' = [store EXCEPT ![n] =
                                 MergeSnapshot(store[n], here(n).staged.store, c)]
    BY DEF FinishSnapshot
  <2> DEFINE t == MergeSnapshot(store[n], here(n).staged.store, c)
  <2>2. Carried(store[n], issued) BY DEF RInv, Inv, Carried
  <2>3. Carried(t, issued) BY <1>2, <2>1, <2>2, MergeOK DEF Carried
  <2>4. store' = [store EXCEPT ![n] = t] /\ issued' = issued BY <2>1 DEF FinishSnapshot
  <2> HIDE DEF t
  <2> QED BY <2>3, <2>4, StoreSet DEF RInv
<1>4. LinkInv'
  <2>1. Landed(here(n)) \in Link /\ Landed(here(n)).staged = NoSnapshot
    <3>1. here(n).staged.cursor \in Cursor \cup {NoCursor}
      BY <1>2 DEF Link, Snapshot, NoSnapshot
    <3> QED BY <1>2, <3>1 DEF Landed, Link
  <2>2. Carried(Landed(here(n)).staged.store, issued) BY <2>1, Nothings
  <2>3. link' = [link EXCEPT ![n][peer(n)] = Landed(here(n))] /\ issued' = issued
    BY DEF FinishSnapshot, SetLink
  <2> QED BY <1>2, <2>1, <2>2, <2>3, LinkSet DEF RInv
<1> DEFINE w == IF ~worker[n].forced THEN To(n, "history")
                ELSE IF worker[n].pages + 1 = MaxPages THEN Idle
                ELSE [To(n, "pull") EXCEPT !.forced = FALSE, !.recovered = TRUE, !.pages = @ + 1]
<1>5. /\ w \in Worker /\ w.phase \in {"history", "pull", "idle"}
      /\ w.phase = "idle" \/ w.peer \in Replicas
  <2>1. To(n, "history") \in Worker /\ To(n, "history").phase = "history"
        /\ To(n, "history").peer = peer(n)
    BY <1>1, AtPeer DEF Phases
  <2>2. /\ To(n, "pull") \in Worker /\ To(n, "pull").phase = "pull"
        /\ To(n, "pull").peer = peer(n)
    BY <1>1, AtPeer DEF Phases
  <2> HIDE DEF To
  <2> DEFINE v == To(n, "pull")
             u == [v EXCEPT !.forced = FALSE, !.recovered = TRUE, !.pages = @ + 1]
  <2>3. v.pages + 1 \in Nat BY <2>2 DEF Worker
  <2>4. u \in Worker /\ u.phase = "pull" /\ u.peer = peer(n)
    <3>1. v \in Worker /\ v.phase = "pull" /\ v.peer = peer(n) BY <2>2
    <3> HIDE DEF v
    <3> QED BY <2>3, <3>1 DEF Worker
  <2> QED BY <1>2, <2>1, <2>4, Nothings
<1>6. worker' = [worker EXCEPT ![n] = w] BY DEF FinishSnapshot, Goto
<1>7. UNCHANGED <<issued, epoch, reply, txn, serve, backup, faults>> BY DEF FinishSnapshot
<1>8. \E s : store' = [store EXCEPT ![n] = s] BY DEF FinishSnapshot
<1> HIDE DEF w
<1>9. WorkerInv' BY <1>5, <1>6, WorkerSet DEF RInv
<1>10. LockInv' BY <1>5, <1>6, <1>7, <1>8, LockKept
<1> QED BY <1>3, <1>4, <1>7, <1>9, <1>10, Frame DEF RInv

\* A worker in hand keeps its type when a counter of it is set.
LEMMA CountersSet ==
    ASSUME NEW w \in Worker, NEW i \in Nat
    PROVE  /\ [w EXCEPT !.pages = i] \in Worker
           /\ [w EXCEPT !.pages = i].phase = w.phase /\ [w EXCEPT !.pages = i].peer = w.peer
           /\ [w EXCEPT !.upto = i] \in Worker
           /\ [w EXCEPT !.upto = i].phase = w.phase /\ [w EXCEPT !.upto = i].peer = w.peer
BY DEF Worker

\* SkipHistory keeps the invariant.
LEMMA SkipHistoryInv ==
    ASSUME RInv, NEW n \in Replicas, SkipHistory(n)
    PROVE  RInv'
<1> DEFINE v == To(n, "push")
           w == [v EXCEPT !.pages = 0]
<1>1. v \in Worker /\ v.phase = "push" /\ v.peer \in Replicas
  BY AtPeer DEF SkipHistory, Phases
<1>2. Goto(n, w) /\ UNCHANGED <<store, issued, epoch, link, reply, txn, serve, backup, faults>>
  BY DEF SkipHistory
<1> HIDE DEF v
<1>3. w \in Worker /\ w.phase = "push" /\ w.peer \in Replicas BY <1>1, CountersSet
<1> HIDE DEF w
<1>4. LinkInv' /\ ReplyInv' BY <1>2, Frame
<1> QED BY <1>2, <1>3, <1>4, WorkInv

\* The two calls of changes().
LEMMA RequestPageInv ==
    ASSUME RInv, NEW n \in Replicas, worker[n].phase # "idle",
           NEW cursor \in Cursor \cup {NoCursor}, Accepts(peer(n), cursor),
           NEW into \in {"history", "receive"},
           reply' = [reply EXCEPT ![n] = Changes(peer(n), cursor)],
           Goto(n, [To(n, "reply") EXCEPT !.into = into]),
           UNCHANGED <<store, issued, epoch, link, txn, serve, backup, faults>>
    PROVE  RInv'
<1> DEFINE v == To(n, "reply")
           w == [v EXCEPT !.into = into]
<1>1. v \in Worker /\ v.phase = "reply" /\ v.peer \in Replicas /\ peer(n) \in Replicas
  BY AtPeer DEF Phases
<1>2. Goto(n, w) OBVIOUS
<1> HIDE DEF v
<1>3. w \in Worker /\ w.phase = "reply" /\ w.peer \in Replicas BY <1>1 DEF Worker
<1> HIDE DEF w
<1>4. LinkInv' BY Frame
<1>5. ReplyInv' BY <1>1, ChangesPage, ReplySet DEF RInv
<1> QED BY <1>2, <1>3, <1>4, <1>5, WorkInv

\* RequestHistory keeps the invariant.
LEMMA RequestHistoryInv ==
    ASSUME RInv, NEW n \in Replicas, RequestHistory(n)
    PROVE  RInv'
<1>1. here(n).history \in Cursor \cup {NoCursor} BY AtPeer DEF RequestHistory, Link
<1> QED BY <1>1, RequestPageInv DEF RequestHistory

\* RequestPull keeps the invariant.
LEMMA RequestPullInv ==
    ASSUME RInv, NEW n \in Replicas, RequestPull(n)
    PROVE  RInv'
<1>1. here(n).receive \in Cursor \cup {NoCursor} BY AtPeer DEF RequestPull, Link
<1> QED BY <1>1, RequestPageInv DEF RequestPull

\* RefuseHistory keeps the invariant.
LEMMA RefuseHistoryInv ==
    ASSUME RInv, NEW n \in Replicas, RefuseHistory(n)
    PROVE  RInv'
BY StopInv, Frame DEF RefuseHistory, RInv

\* EndPush keeps the invariant.
LEMMA EndPushInv ==
    ASSUME RInv, NEW n \in Replicas, EndPush(n)
    PROVE  RInv'
<1> DEFINE v == To(n, "pull")
           w == [v EXCEPT !.pages = 0]
<1>1. v \in Worker /\ v.phase = "pull" /\ v.peer \in Replicas
  BY AtPeer DEF EndPush, Phases
<1>2. Goto(n, w) /\ UNCHANGED <<store, issued, epoch, link, reply, txn, serve, backup, faults>>
  BY DEF EndPush
<1> HIDE DEF v
<1>3. w \in Worker /\ w.phase = "pull" /\ w.peer \in Replicas BY <1>1, CountersSet
<1> HIDE DEF w
<1>4. LinkInv' /\ ReplyInv' BY <1>2, Frame
<1> QED BY <1>2, <1>3, <1>4, WorkInv

\* RequestPush keeps the invariant.
LEMMA RequestPushInv ==
    ASSUME RInv, NEW n \in Replicas, RequestPush(n)
    PROVE  RInv'
<1> DEFINE p == peer(n)
           v == To(n, "pushing")
           w == [v EXCEPT !.upto = Reach(here(n).send, n)]
           todo == SubSeq(store[n].log, here(n).send + 1, Reach(here(n).send, n))
           s == [client |-> n, ok |-> TRUE, todo |-> todo]
<1>1. /\ v \in Worker /\ v.phase = "pushing" /\ v.peer \in Replicas
      /\ p \in Replicas /\ here(n).send \in Nat
  BY AtPeer DEF RequestPush, Phases, Link
<1>2. /\ store[n].log \in Seq(Operation)
      /\ \A i \in DOMAIN store[n].log : store[n].log[i] \in issued
  BY DEF RInv, Inv, StoreOK, Store
<1>3. /\ Reach(here(n).send, n) \in Nat /\ Reach(here(n).send, n) <= Len(store[n].log)
  BY <1>1, <1>2, ProtocolAssumption DEF Reach, ProtocolAssumption
<1>4. /\ serve' = [serve EXCEPT ![p] = s] /\ Goto(n, w)
      /\ UNCHANGED <<store, issued, epoch, link, reply, txn, backup, faults>>
      /\ Unlocked(p)
  BY DEF RequestPush
<1>5. todo \in Seq(Operation) /\ Among(todo, issued)
  <2> DEFINE log == store[n].log
             from == here(n).send
             end == Reach(from, n)
             sent == SubSeq(log, from + 1, end)
  <2>1. /\ log \in Seq(Operation) /\ from \in Nat /\ end \in Nat /\ end <= Len(log)
        /\ \A i \in DOMAIN log : log[i] \in issued
        /\ todo = sent
    BY <1>1, <1>2, <1>3
  <2> HIDE DEF log, from, end, todo
  <2>2. /\ sent \in Seq(Operation)
        /\ \A i \in DOMAIN sent : from + i \in DOMAIN log /\ sent[i] = log[from + i]
    BY <2>1, Stretch
  <2> QED BY <2>1, <2>2 DEF Among
<1> HIDE DEF todo
<1>6. s \in Serve /\ s.todo = todo /\ s.client = n BY <1>5 DEF Serve
<1> HIDE DEF v, p
<1>7. w \in Worker /\ w.phase = "pushing" /\ w.peer \in Replicas BY <1>1, <1>3, CountersSet
<1> HIDE DEF w, s
<1>8. ServeInv' BY <1>1, <1>4, <1>5, <1>6, ServeSet DEF RInv
<1>9. WorkerInv' BY <1>4, <1>7, WorkerSet DEF RInv, Goto
<1>10. LockInv'
  <2>1. ASSUME NEW m \in Replicas, worker'[m].phase \in {"apply", "complete"}
        PROVE  m # n /\ m # p /\ worker'[m] = worker[m] /\ serve'[m] = serve[m]
    <3>1. m # n BY <1>4, <1>7, <2>1 DEF RInv, WorkerInv, Goto
    <3>2. worker'[m] = worker[m] BY <1>4, <3>1 DEF RInv, WorkerInv, Goto
    <3>3. m # p BY <1>4, <2>1, <3>2 DEF Unlocked
    <3> QED BY <1>4, <3>1, <3>2, <3>3 DEF RInv, ServeInv
  <2>2. store' = store /\ txn' = txn BY <1>4
  <2> QED BY <2>1, <2>2 DEF RInv, LockInv
<1> QED BY <1>4, <1>8, <1>9, <1>10, Frame DEF RInv

\* AckPush keeps the invariant.
LEMMA AckPushInv ==
    ASSUME RInv, NEW n \in Replicas, AckPush(n)
    PROVE  RInv'
<1> DEFINE v == To(n, "push")
           w == [v EXCEPT !.pages = @ + 1, !.upto = 0]
           l == [here(n) EXCEPT !.send = Acked(n)]
<1>1. /\ v \in Worker /\ v.phase = "push" /\ v.peer \in Replicas
      /\ peer(n) \in Replicas /\ here(n) \in Link /\ worker[n] \in Worker
      /\ Carried(here(n).staged.store, issued)
  BY AtPeer DEF AckPush, Phases
<1>2. Acked(n) \in Nat BY <1>1 DEF Acked, Worker
<1>3. l \in Link /\ l.staged = here(n).staged BY <1>1, <1>2 DEF Link
<1>4. /\ link' = [link EXCEPT ![n][peer(n)] = l] /\ Goto(n, w)
      /\ UNCHANGED <<store, issued, epoch, reply, txn, serve, backup, faults>>
  BY DEF AckPush, SetLink
<1> HIDE DEF v, l
<1>5. w \in Worker /\ w.phase = "push" /\ w.peer \in Replicas
  <2>1. v.pages + 1 \in Nat BY <1>1 DEF Worker
  <2> QED BY <1>1, <2>1 DEF Worker
<1> HIDE DEF w
<1>6. LinkInv' BY <1>1, <1>3, <1>4, LinkSet DEF RInv
<1>7. ReplyInv' BY <1>4, Frame
<1> QED BY <1>4, <1>5, <1>6, <1>7, WorkInv

\* RefusePull keeps the invariant.
LEMMA RefusePullInv ==
    ASSUME RInv, NEW n \in Replicas, RefusePull(n)
    PROVE  RInv'
<1> DEFINE v == To(n, "restore")
           u == [v EXCEPT !.forced = TRUE]
           w == IF worker[n].recovered THEN Idle ELSE u
<1>1. v \in Worker /\ v.phase = "restore" /\ v.peer \in Replicas
  BY AtPeer DEF RefusePull, Phases
<1>2. Goto(n, w) /\ UNCHANGED <<store, issued, epoch, link, reply, txn, serve, backup, faults>>
  BY DEF RefusePull
<1> HIDE DEF v
<1>3. u \in Worker /\ u.phase = "restore" /\ u.peer \in Replicas BY <1>1 DEF Worker
<1> HIDE DEF u
<1>4. /\ w \in Worker /\ w.phase \in {"idle", "restore"}
      /\ w.peer \in Replicas \/ w.phase = "idle"
  BY <1>3, Nothings
<1> HIDE DEF w
<1>5. LinkInv' /\ ReplyInv' BY <1>2, Frame
<1> QED BY <1>2, <1>4, <1>5, WorkInv

-----------------------------------------------------------------------------
(* Applying what arrived.                                                  *)

\* The head and the tail of what is on its way.
LEMMA HeadTail ==
    ASSUME NEW seq \in Seq(Operation), Among(seq, issued), seq # << >>
    PROVE  /\ Head(seq) \in Operation /\ Head(seq) \in issued
           /\ Tail(seq) \in Seq(Operation) /\ Among(Tail(seq), issued)
<1>1. Len(seq) > 0 /\ Head(seq) = seq[1] /\ 1 \in DOMAIN seq OBVIOUS
<1>2. Tail(seq) \in Seq(Operation) OBVIOUS
<1>3. \A i \in DOMAIN Tail(seq) : i + 1 \in DOMAIN seq /\ Tail(seq)[i] = seq[i + 1] OBVIOUS
<1> QED BY <1>1, <1>2, <1>3 DEF Among

\* ServeOne keeps the invariant.
LEMMA ServeOneInv ==
    ASSUME RInv, NEW p \in Replicas, ServeOne(p)
    PROVE  RInv'
<1> DEFINE op == Head(serve[p].todo)
           t == Receive(store[p], op)
           s == [serve[p] EXCEPT !.todo = Tail(@), !.ok = @ /\ Persisted(p, op)]
<1>1. /\ serve[p] \in Serve /\ Among(serve[p].todo, issued) /\ serve[p].todo # << >>
      /\ serve[p].client \in Replicas /\ serve[p] # NoServe
  BY DEF ServeOne, RInv, ServeInv
<1>2. /\ op \in Operation /\ op \in issued
      /\ Tail(serve[p].todo) \in Seq(Operation) /\ Among(Tail(serve[p].todo), issued)
  BY <1>1, HeadTail DEF Serve
<1>3. Carried(store[p], issued) BY DEF RInv, Inv, Carried
<1>4. /\ store' = store \/ store' = [store EXCEPT ![p] = t]
      /\ UNCHANGED <<issued, epoch, link, worker, reply, txn, backup, faults>>
  BY DEF ServeOne
<1>5. serve' = [serve EXCEPT ![p] = s] BY DEF ServeOne, RInv, ServeInv
<1>6. Carried(t, issued) BY <1>2, <1>3, ReceiveOK DEF Carried
<1>7. s \in Serve /\ s.todo = Tail(serve[p].todo) /\ s.client = serve[p].client
  <2>1. (serve[p].ok /\ Persisted(p, op)) \in BOOLEAN OBVIOUS
  <2> HIDE DEF op
  <2> QED BY <1>1, <1>2, <2>1 DEF Serve
<1> HIDE DEF t, s, op
<1>8. Inv'
  <2>1. CASE store' = store BY <1>4, <2>1, Frame
  <2>2. CASE store' = [store EXCEPT ![p] = t] BY <1>4, <1>6, <2>2, StoreSet DEF RInv
  <2> QED BY <1>4, <2>1, <2>2
<1>9. ServeInv' BY <1>1, <1>2, <1>4, <1>5, <1>7, ServeSet DEF RInv
<1>10. LockInv'
  <2>1. worker[p].phase \notin {"apply", "complete"} BY <1>1 DEF RInv, LockInv
  <2>2. ASSUME NEW m \in Replicas, m # p PROVE serve'[m] = serve[m] /\ store'[m] = store[m]
    BY <1>4, <1>5, <2>2 DEF RInv, ServeInv, Inv
  <2> QED BY <1>4, <2>1, <2>2 DEF RInv, LockInv
<1> QED BY <1>4, <1>8, <1>9, <1>10, Frame DEF RInv

\* ServeDone keeps the invariant.
LEMMA ServeDoneInv ==
    ASSUME RInv, NEW p \in Replicas, ServeDone(p)
    PROVE  RInv'
<1> DEFINE n == serve[p].client
           w == IF serve[p].ok THEN To(n, "acking") ELSE Idle
<1>1. n \in Replicas BY DEF ServeDone, RInv, ServeInv
<1>2. /\ serve' = [serve EXCEPT ![p] = NoServe]
      /\ UNCHANGED <<store, issued, epoch, link, reply, txn, backup, faults>>
  BY DEF ServeDone
<1>3. ServeInv' BY <1>2, Nothings, ServeSet DEF RInv
<1>4. \/ worker' = worker
      \/ worker[n].phase = "pushing" /\ worker' = [worker EXCEPT ![n] = w]
  BY DEF ServeDone, Goto
<1>5. ASSUME NEW m \in Replicas, serve[m] = NoServe PROVE serve'[m] = NoServe
  BY <1>2, <1>5 DEF RInv, ServeInv
<1>6. CASE worker' = worker
  <2>1. WorkerInv' BY <1>2, <1>6, Frame
  <2>2. LockInv' BY <1>2, <1>5, <1>6 DEF RInv, LockInv
  <2> QED BY <1>2, <1>3, <2>1, <2>2, Frame DEF RInv
<1>7. CASE worker[n].phase = "pushing" /\ worker' = [worker EXCEPT ![n] = w]
  <2>1. /\ To(n, "acking") \in Worker /\ To(n, "acking").phase = "acking"
        /\ To(n, "acking").peer \in Replicas
    BY <1>1, <1>7, AtPeer DEF Phases
  <2>2. w \in Worker /\ w.phase \in {"acking", "idle"} /\ (w.phase = "idle" \/ w.peer \in Replicas)
    BY <2>1, Nothings
  <2> HIDE DEF w
  <2>3. WorkerInv' BY <1>1, <1>7, <2>2, WorkerSet DEF RInv
  <2>4. LockInv'
    <3>1. worker'[n] = w BY <1>1, <1>7 DEF RInv, WorkerInv
    <3>2. ASSUME NEW m \in Replicas, m # n PROVE worker'[m] = worker[m]
      BY <1>7, <3>2 DEF RInv, WorkerInv
    <3> QED BY <1>2, <1>5, <2>2, <3>1, <3>2 DEF RInv, LockInv
  <2> QED BY <1>2, <1>3, <2>3, <2>4, Frame DEF RInv
<1> QED BY <1>4, <1>6, <1>7

\* OpenPage keeps the invariant.
LEMMA OpenPageInv ==
    ASSUME RInv, NEW n \in Replicas, OpenPage(n)
    PROVE  RInv'
<1> DEFINE w == To(n, "apply")
<1>1. w \in Worker /\ w.phase = "apply" /\ w.peer \in Replicas
  BY AtPeer DEF OpenPage, Phases
<1>2. /\ txn' = [txn EXCEPT ![n] = store[n]] /\ worker' = [worker EXCEPT ![n] = w]
      /\ UNCHANGED <<store, issued, epoch, link, reply, serve, backup, faults>>
      /\ serve[n] = NoServe
  BY DEF OpenPage, Goto, Unlocked
<1> HIDE DEF w
<1>3. Carried(store[n], issued) BY DEF RInv, Inv, Carried
<1>4. TxnInv' BY <1>2, <1>3, TxnSet DEF RInv
<1>5. WorkerInv' BY <1>1, <1>2, WorkerSet DEF RInv
<1>6. LockInv'
  <2>1. txn'[n] = store[n] BY <1>2 DEF RInv, TxnInv
  <2>2. ASSUME NEW m \in Replicas, m # n PROVE worker'[m] = worker[m] /\ txn'[m] = txn[m]
    BY <1>2, <2>2 DEF RInv, WorkerInv, TxnInv
  <2> QED BY <1>2, <2>1, <2>2 DEF RInv, LockInv
<1> QED BY <1>2, <1>4, <1>5, <1>6, Frame DEF RInv

\* Receiving an operation forgets none.
LEMMA ReceiveKnown ==
    ASSUME NEW s, NEW op
    PROVE  s.known \subseteq Receive(s, op).known
BY DEF Receive

\* ApplyOne keeps the invariant.
LEMMA ApplyOneInv ==
    ASSUME RInv, NEW n \in Replicas, ApplyOne(n)
    PROVE  RInv'
<1> DEFINE op == Head(reply[n].ops)
           t == Receive(txn[n], op)
           page == [reply[n] EXCEPT !.ops = Tail(@)]
<1>1. UNCHANGED <<store, issued, epoch, link, serve, backup, faults>> BY DEF ApplyOne
<1>2. CASE Stop(n) BY <1>1, <1>2, StopInv, Frame DEF RInv
<1>3. CASE /\ txn' = [txn EXCEPT ![n] = t] /\ reply' = [reply EXCEPT ![n].ops = Tail(@)]
           /\ UNCHANGED worker
  <2>1. reply[n] \in Page /\ Among(reply[n].ops, issued) /\ reply[n].ops # << >>
    BY DEF ApplyOne, RInv, ReplyInv
  <2>2. /\ op \in Operation /\ op \in issued
        /\ Tail(reply[n].ops) \in Seq(Operation) /\ Among(Tail(reply[n].ops), issued)
    BY <2>1, HeadTail DEF Page
  <2>3. Carried(txn[n], issued) BY DEF RInv, TxnInv
  <2>4. Carried(t, issued) BY <2>2, <2>3, ReceiveOK DEF Carried
  <2>5. txn[n].known \subseteq t.known BY ReceiveKnown
  <2>6. page \in Page /\ page.ops = Tail(reply[n].ops) BY <2>1, <2>2 DEF Page
  <2>7. reply' = [reply EXCEPT ![n] = page] BY <1>3 DEF RInv, ReplyInv
  <2> HIDE DEF op, t, page
  <2>8. ReplyInv' BY <1>1, <2>2, <2>6, <2>7, ReplySet DEF RInv
  <2>9. TxnInv' BY <1>1, <1>3, <2>4, TxnSet DEF RInv
  <2>10. LockInv'
    <3>1. txn'[n] = t BY <1>3 DEF RInv, TxnInv
    <3>2. ASSUME NEW m \in Replicas, m # n PROVE txn'[m] = txn[m]
      BY <1>3, <3>2 DEF RInv, TxnInv
    <3> QED BY <1>1, <1>3, <2>5, <3>1, <3>2 DEF RInv, LockInv
  <2> QED BY <1>1, <1>3, <2>8, <2>9, <2>10, Frame DEF RInv
<1> QED BY <1>2, <1>3 DEF ApplyOne

\* CommitPage keeps the invariant.
LEMMA CommitPageInv ==
    ASSUME RInv, NEW n \in Replicas, CommitPage(n)
    PROVE  RInv'
<1> DEFINE old == worker[n]
           more == reply[n].more
           onward == [To(n, "history") EXCEPT !.pages = @ + 1]
           again == [To(n, "pull") EXCEPT !.pages = @ + 1]
           w == IF old.into = "history"
                THEN IF more THEN onward ELSE To(n, "complete")
                ELSE IF more /\ old.pages + 1 < MaxPages THEN again ELSE Idle
           l == IF old.into = "history"
                THEN [here(n) EXCEPT !.history = reply[n].cursor]
                ELSE [here(n) EXCEPT !.receive = reply[n].cursor]
<1>1. /\ old.phase = "apply" /\ store' = [store EXCEPT ![n] = txn[n]]
      /\ reply' = [reply EXCEPT ![n] = NoPage] /\ txn' = [txn EXCEPT ![n] = EmptyStore]
      /\ UNCHANGED <<issued, epoch, serve, backup, faults>>
  BY DEF CommitPage
<1>2. /\ peer(n) \in Replicas /\ old \in Worker /\ here(n) \in Link
      /\ Carried(here(n).staged.store, issued)
  BY <1>1, AtPeer
<1>3. link' = [link EXCEPT ![n][peer(n)] = l] BY DEF CommitPage, SetLink
<1>4. worker' = [worker EXCEPT ![n] = w] BY DEF CommitPage, Goto
<1>5. l \in Link /\ l.staged = here(n).staged
  <2>1. reply[n].cursor \in Cursor \cup {NoCursor} BY DEF RInv, ReplyInv, Page
  <2> QED BY <1>2, <2>1 DEF Link
<1>6. /\ w \in Worker /\ w.phase \in {"history", "complete", "pull", "idle"}
      /\ w.phase = "idle" \/ w.peer \in Replicas
  <2>1. ASSUME NEW phase \in {"history", "complete", "pull"}
        PROVE  To(n, phase) \in Worker /\ To(n, phase).phase = phase /\ To(n, phase).peer = peer(n)
    BY <1>1, AtPeer DEF Phases
  <2> HIDE DEF To
  <2>2. ASSUME NEW v \in Worker
        PROVE  /\ [v EXCEPT !.pages = @ + 1] \in Worker
               /\ [v EXCEPT !.pages = @ + 1].phase = v.phase
               /\ [v EXCEPT !.pages = @ + 1].peer = v.peer
    <3>1. v.pages + 1 \in Nat BY DEF Worker
    <3> QED BY <3>1, CountersSet
  <2>3. onward \in Worker /\ onward.phase = "history" /\ onward.peer = peer(n)
    BY <2>1, <2>2
  <2>4. again \in Worker /\ again.phase = "pull" /\ again.peer = peer(n)
    BY <2>1, <2>2
  <2> HIDE DEF onward, again
  <2> QED BY <1>2, <2>1, <2>3, <2>4, Nothings
<1> HIDE DEF l, w
<1>7. Inv'
  <2>1. Carried(txn[n], issued) BY DEF RInv, TxnInv
  <2> QED BY <1>1, <2>1, StoreSet DEF RInv
<1>8. LinkInv' BY <1>1, <1>2, <1>3, <1>5, LinkSet DEF RInv
<1>9. WorkerInv' BY <1>4, <1>6, WorkerSet DEF RInv
<1>10. ReplyInv' /\ TxnInv' BY <1>1, Nothings, ReplySet, TxnSet DEF RInv
<1>11. LockInv'
  <2>1. worker'[n] = w /\ serve[n] = NoServe BY <1>1, <1>4 DEF RInv, WorkerInv, LockInv
  <2>2. ASSUME NEW m \in Replicas, m # n
        PROVE  store'[m] = store[m] /\ txn'[m] = txn[m] /\ worker'[m] = worker[m]
    BY <1>1, <1>4, <2>2 DEF RInv, Inv, TxnInv, WorkerInv
  <2> QED BY <1>1, <1>6, <2>1, <2>2 DEF RInv, LockInv
<1> QED BY <1>1, <1>7, <1>8, <1>9, <1>10, <1>11, Frame DEF RInv

\* SetComplete keeps the invariant.
LEMMA SetCompleteInv ==
    ASSUME RInv, NEW n \in Replicas, SetComplete(n)
    PROVE  RInv'
<1> DEFINE v == To(n, "push")
           w == [v EXCEPT !.pages = 0]
           l == [here(n) EXCEPT !.complete = TRUE]
<1>1. /\ v \in Worker /\ v.phase = "push" /\ v.peer \in Replicas
      /\ peer(n) \in Replicas /\ here(n) \in Link /\ Carried(here(n).staged.store, issued)
  BY AtPeer DEF SetComplete, Phases
<1>2. /\ link' = [link EXCEPT ![n][peer(n)] = l] /\ Goto(n, w)
      /\ UNCHANGED <<store, issued, epoch, reply, txn, serve, backup, faults>>
  BY DEF SetComplete, SetLink
<1> HIDE DEF v
<1>3. w \in Worker /\ w.phase = "push" /\ w.peer \in Replicas BY <1>1, CountersSet
<1>4. l \in Link /\ l.staged = here(n).staged BY <1>1 DEF Link
<1> HIDE DEF w, l
<1>5. LinkInv' BY <1>1, <1>2, <1>4, LinkSet DEF RInv
<1>6. ReplyInv' BY <1>2, Frame
<1> QED BY <1>2, <1>3, <1>5, <1>6, WorkInv

-----------------------------------------------------------------------------
(* What goes wrong.                                                        *)

\* Failures and restores are counted.
LEMMA FaultCount ==
    ASSUME RInv, faults' = faults \/ faults' = faults + 1,
           epoch' = epoch \/ (\E n \in Replicas : epoch' = [epoch EXCEPT ![n] = epoch[n] + 1])
    PROVE  CountInv'
BY DEF RInv, CountInv

\* ExpireSnapshot keeps the invariant.
LEMMA ExpireSnapshotInv ==
    ASSUME RInv, NEW n \in Replicas, ExpireSnapshot(n)
    PROVE  RInv'
<1> DEFINE l == [here(n) EXCEPT !.staged = NoSnapshot]
<1>1. peer(n) \in Replicas /\ here(n) \in Link BY AtPeer DEF ExpireSnapshot
<1>2. /\ link' = [link EXCEPT ![n][peer(n)] = l] /\ Stop(n) /\ faults' = faults + 1
      /\ UNCHANGED <<store, issued, epoch, serve, backup>>
  BY DEF ExpireSnapshot, SetLink
<1>3. l \in Link /\ l.staged = NoSnapshot BY <1>1 DEF Link
<1> HIDE DEF l
<1>4. LinkInv' BY <1>1, <1>2, <1>3, LinkSet, Nothings DEF RInv
<1>5. WorkerInv' /\ ReplyInv' /\ TxnInv' /\ LockInv' BY <1>2, StopInv
<1> QED BY <1>2, <1>4, <1>5, FaultCount, Frame DEF RInv

\* Fail keeps the invariant.
LEMMA FailInv ==
    ASSUME RInv, NEW n \in Replicas, Fail(n)
    PROVE  RInv'
<1>1. /\ Stop(n) /\ faults' = faults + 1 /\ UNCHANGED <<store, issued, epoch, link, serve, backup>>
  BY DEF Fail
<1>2. WorkerInv' /\ ReplyInv' /\ TxnInv' /\ LockInv' BY <1>1, StopInv
<1> QED BY <1>1, <1>2, FaultCount, Frame DEF RInv

\* The process of n is gone, with what it had in memory.
LEMMA GoneInv ==
    ASSUME RInv, NEW n \in Replicas, issued' = issued,
           worker' = Disconnected(n), serve' = [serve EXCEPT ![n] = NoServe],
           reply' = [reply EXCEPT ![n] = NoPage], txn' = [txn EXCEPT ![n] = EmptyStore],
           \A m \in Replicas : m # n => store'[m] = store[m]
    PROVE  WorkerInv' /\ ServeInv' /\ ReplyInv' /\ TxnInv' /\ LockInv'
<1>1. ASSUME NEW m \in Replicas
      PROVE  worker'[m] = Idle \/ (m # n /\ worker'[m] = worker[m])
  BY DEF Disconnected
<1>2. WorkerInv'
  <2>1. worker' \in [Replicas -> Worker]
    BY Nothings DEF Disconnected, RInv, WorkerInv
  <2> QED BY <1>1, <2>1, Nothings DEF RInv, WorkerInv
<1>3. ServeInv' /\ ReplyInv' /\ TxnInv'
  BY Nothings, ServeSet, ReplySet, TxnSet DEF RInv
<1>4. LockInv'
  <2>1. ASSUME NEW m \in Replicas, worker'[m].phase \in {"apply", "complete"}
        PROVE  /\ worker'[m] = worker[m] /\ serve'[m] = serve[m] /\ store'[m] = store[m]
               /\ txn'[m] = txn[m]
    BY <1>1, <2>1, Nothings DEF RInv, ServeInv, TxnInv
  <2> QED BY <2>1 DEF RInv, LockInv
<1> QED BY <1>2, <1>3, <1>4

\* Crash keeps the invariant.
LEMMA CrashInv ==
    ASSUME RInv, NEW n \in Replicas, Crash(n)
    PROVE  RInv'
<1>1. WorkerInv' /\ ServeInv' /\ ReplyInv' /\ TxnInv' /\ LockInv'
  BY GoneInv DEF Crash
<1>2. faults' = faults + 1 /\ UNCHANGED <<store, issued, epoch, link, backup>> BY DEF Crash
<1> QED BY <1>1, <1>2, FaultCount, Frame DEF RInv

\* TakeBackup keeps the invariant.
LEMMA TakeBackupInv ==
    ASSUME RInv, NEW n \in Replicas, TakeBackup(n)
    PROVE  RInv'
<1> DEFINE b == [store |-> store[n], link |-> link[n], taken |-> TRUE]
<1>1. /\ backup' = [backup EXCEPT ![n] = b]
      /\ UNCHANGED <<store, issued, epoch, link, worker, reply, txn, serve, faults>>
  BY DEF TakeBackup
<1>2. b \in Backup /\ b.store = store[n] BY DEF RInv, Inv, LinkInv, Backup
<1> HIDE DEF b
<1>3. Carried(store[n], issued) BY DEF RInv, Inv, Carried
<1>4. BackupInv' BY <1>1, <1>2, <1>3 DEF RInv, BackupInv
<1> QED BY <1>1, <1>4, Frame DEF RInv

\* RestoreBackup keeps the invariant.
LEMMA RestoreBackupInv ==
    ASSUME RInv, NEW n \in Replicas, RestoreBackup(n)
    PROVE  RInv'
<1> DEFINE fresh(p) == [backup[n].link[p] EXCEPT !.receive = NoCursor, !.staged = NoSnapshot]
<1>1. /\ store' = [store EXCEPT ![n] = backup[n].store]
      /\ epoch' = [epoch EXCEPT ![n] = epoch[n] + 1]
      /\ link' = [link EXCEPT ![n] = [p \in Replicas |-> fresh(p)]]
      /\ UNCHANGED <<issued, backup, faults>>
  BY DEF RestoreBackup, NextGeneration
<1>2. Carried(backup[n].store, issued) /\ backup[n] \in Backup BY DEF RInv, BackupInv
<1>3. ASSUME NEW p \in Replicas
      PROVE  fresh(p) \in Link /\ fresh(p).staged = NoSnapshot
  <2>1. backup[n].link[p] \in Link BY <1>2 DEF Backup
  <2> QED BY <2>1 DEF Link
<1> HIDE DEF fresh
<1>4. LinkInv'
  <2>1. link' \in [Replicas -> [Replicas -> Link]] BY <1>1, <1>3 DEF RInv, LinkInv
  <2>2. ASSUME NEW m \in Replicas, NEW p \in Replicas
        PROVE  Carried(link'[m][p].staged.store, issued')
    <3>1. CASE m = n BY <1>1, <1>3, <3>1, Nothings DEF RInv, LinkInv
    <3>2. CASE m # n BY <1>1, <3>2 DEF RInv, LinkInv
    <3> QED BY <3>1, <3>2
  <2> QED BY <2>1, <2>2 DEF LinkInv
<1>5. Inv' BY <1>1, <1>2, StoreSet DEF RInv
<1>6. \A m \in Replicas : m # n => store'[m] = store[m] BY <1>1 DEF RInv, Inv
<1>7. WorkerInv' /\ ServeInv' /\ ReplyInv' /\ TxnInv' /\ LockInv'
  BY <1>1, <1>6, GoneInv DEF RestoreBackup
<1> QED BY <1>1, <1>4, <1>5, <1>7, FaultCount, Frame DEF RInv

-----------------------------------------------------------------------------
(* Commands, and all steps together.                                       *)

\* A command runs under the lock, and what it issues disturbs nothing on its way.
LEMMA CommandInv ==
    ASSUME RInv, NEW n \in Replicas, Command(n), Unlocked(n), UNCHANGED protocol
    PROVE  RInv'
<1>1. PICK id \in FreshIds, batch \in Seq(Operation), c \in Nat :
          CommandBatch(batch, n, id, c) /\ Commit(n, batch, c)
  BY CommandIssues DEF RInv
<1>2. Inv' BY <1>1, CommitInv DEF RInv
<1>3. issued \subseteq issued' /\ \E s : store' = [store EXCEPT ![n] = s]
  BY <1>1 DEF Commit
<1>4. UNCHANGED <<epoch, link, worker, reply, txn, serve, backup, faults>> BY DEF protocol
<1>5. /\ \A s : Carried(s, issued) => Carried(s, issued')
      /\ \A seq : Among(seq, issued) => Among(seq, issued')
  BY <1>3 DEF Carried, Among
<1>6. CountInv' /\ WorkerInv' BY <1>4 DEF RInv, CountInv, WorkerInv
<1>7. LinkInv' /\ TxnInv' /\ BackupInv' BY <1>4, <1>5 DEF RInv, LinkInv, TxnInv, BackupInv
<1>8. ReplyInv' /\ ServeInv' BY <1>4, <1>5 DEF RInv, ReplyInv, ServeInv
<1>9. LockInv'
  <2>1. ASSUME NEW m \in Replicas, m # n PROVE store'[m] = store[m]
    BY <1>3, <2>1 DEF RInv, Inv
  <2> QED BY <1>4, <2>1 DEF RInv, LockInv, Unlocked
<1> QED BY <1>2, <1>6, <1>7, <1>8, <1>9 DEF RInv

\* The invariant is inductive.
LEMMA RNextInv == RInv /\ [Next]_vars => RInv'
<1> SUFFICES ASSUME RInv, [Next]_vars PROVE RInv' OBVIOUS
<1>1. CASE UNCHANGED vars BY <1>1, Frame DEF RInv, vars, protocol
<1>2. ASSUME NEW n \in Replicas, Command(n), Unlocked(n), UNCHANGED protocol PROVE RInv'
  BY <1>2, CommandInv
<1>3. ASSUME NEW n \in Replicas, NEW p \in Peers[n], BeginTick(n, p) PROVE RInv'
  BY <1>3, BeginTickInv
<1>4. ASSUME NEW n \in Replicas, WorkerStep(n) PROVE RInv'
  BY <1>4, SkipRestoreInv, RequestSnapshotInv, FinishSnapshotInv, SkipHistoryInv,
     RequestHistoryInv, RefuseHistoryInv, EndPushInv, RequestPushInv, AckPushInv,
     RequestPullInv, RefusePullInv, OpenPageInv, ApplyOneInv, CommitPageInv, SetCompleteInv
     DEF WorkerStep
<1>5. ASSUME NEW n \in Replicas, ServeStep(n) PROVE RInv'
  BY <1>5, ServeOneInv, ServeDoneInv DEF ServeStep
<1>6. ASSUME NEW n \in Replicas, Disturbance(n) PROVE RInv'
  BY <1>6, ExpireSnapshotInv, FailInv, CrashInv, TakeBackupInv, RestoreBackupInv
     DEF Disturbance
<1> QED BY <1>1, <1>2, <1>3, <1>4, <1>5, <1>6 DEF Next

\* The invariant holds in every reachable state of the protocol.
THEOREM ProtocolInvariance == Spec => []RInv
BY RInitInv, RNextInv, PTL DEF Spec

-----------------------------------------------------------------------------
(* The properties of Replication.                                          *)

\* Every variable of the protocol keeps its type.
THEOREM ProtocolTypes == Spec => []TypeOK
<1>1. RInv => TypeOK
  BY DEF RInv, Inv, CountInv, LinkInv, WorkerInv, ReplyInv, TxnInv, ServeInv, BackupInv, TypeOK
<1> QED BY <1>1, ProtocolInvariance, PTL

\* However operations and snapshots travel, and whatever fails, is lost or is
\* restored, the entity table is the view of the absorbed operations.
THEOREM ProtocolViews == Spec => []Views
<1>1. RInv => Views BY InvViews DEF RInv
<1> QED BY <1>1, ProtocolInvariance, PTL

\* Nodes that have absorbed the same operations hold the same entities.
THEOREM ProtocolConverges == Spec => []Convergence
<1>1. RInv => Convergence BY InvConvergence DEF RInv
<1> QED BY <1>1, ProtocolInvariance, PTL

\* The clock of a node covers its fields, after a restore as well.
THEOREM ProtocolClock == Spec => []ClockCovers
<1>1. RInv => ClockCovers BY InvClock DEF RInv
<1> QED BY <1>1, ProtocolInvariance, PTL

-----------------------------------------------------------------------------
(* The protocol implements SharedWorkspace.                                *)

\* A step in which only what n has absorbed grows.
Learns(n) ==
    /\ \E s : store' = [store EXCEPT ![n] = s] /\ store[n].known \subseteq s.known
    /\ UNCHANGED <<issued, backup>>

\* What a step can do to the stores, the issued operations and the backups.
LEMMA StepKinds ==
    ASSUME RInv, [Next]_vars
    PROVE  \/ UNCHANGED <<store, issued, backup>>
           \/ \E n \in Replicas : \/ Learns(n)
                                  \/ Command(n) /\ UNCHANGED protocol
                                  \/ TakeBackup(n)
                                  \/ RestoreBackup(n)
<1> DEFINE Still == UNCHANGED <<store, issued, backup>>
<1>1. UNCHANGED vars => Still BY DEF vars, protocol
<1>2. \A n \in Replicas : \A p \in Peers[n] : BeginTick(n, p) => Still BY DEF BeginTick
<1>3. ASSUME NEW n \in Replicas, FinishSnapshot(n) PROVE Learns(n)
  <2>1. PICK c : store' = [store EXCEPT ![n] =
                              MergeSnapshot(store[n], here(n).staged.store, c)]
    BY <1>3 DEF FinishSnapshot
  <2>2. store[n].known \subseteq MergeSnapshot(store[n], here(n).staged.store, c).known
    BY DEF MergeSnapshot
  <2>3. UNCHANGED <<issued, backup>> BY <1>3 DEF FinishSnapshot
  <2> QED BY <2>1, <2>2, <2>3 DEF Learns
<1>4. ASSUME NEW n \in Replicas, CommitPage(n) PROVE Learns(n)
  <2>1. /\ store' = [store EXCEPT ![n] = txn[n]] /\ worker[n].phase = "apply"
        /\ UNCHANGED <<issued, backup>>
    BY <1>4 DEF CommitPage
  <2>2. store[n].known \subseteq txn[n].known BY <2>1 DEF RInv, LockInv
  <2> QED BY <2>1, <2>2 DEF Learns
<1>5. ASSUME NEW n \in Replicas, WorkerStep(n) PROVE Still \/ Learns(n)
  BY <1>3, <1>4, <1>5
     DEF WorkerStep, SkipRestore, RequestSnapshot, SkipHistory, RequestHistory, RefuseHistory,
         EndPush, RequestPush, AckPush, RequestPull, RefusePull, OpenPage, ApplyOne, SetComplete
<1>6. ASSUME NEW n \in Replicas, ServeOne(n) PROVE Still \/ Learns(n)
  <2>1. /\ \/ store' = store
           \/ store' = [store EXCEPT ![n] = Receive(store[n], Head(serve[n].todo))]
        /\ UNCHANGED <<issued, backup>>
    BY <1>6 DEF ServeOne
  <2> QED BY <2>1, ReceiveKnown DEF Learns
<1>7. ASSUME NEW n \in Replicas, ServeStep(n) PROVE Still \/ Learns(n)
  BY <1>6, <1>7 DEF ServeStep, ServeDone
<1>8. ASSUME NEW n \in Replicas, Disturbance(n)
      PROVE  Still \/ TakeBackup(n) \/ RestoreBackup(n)
  BY <1>8 DEF Disturbance, ExpireSnapshot, Fail, Crash
<1> HIDE DEF Still
<1>9. Next => \/ Still
              \/ \E n \in Replicas : \/ Learns(n)
                                     \/ Command(n) /\ UNCHANGED protocol
                                     \/ TakeBackup(n)
                                     \/ RestoreBackup(n)
  BY <1>2, <1>5, <1>7, <1>8 DEF Next
<1> QED BY <1>1, <1>9 DEF Still

\* The data model of the shared workspace is that of the stores.
LEMMA SameModel ==
    /\ Shared!Operation = Operation /\ Shared!NoEntity = NoEntity
    /\ \A st, e, ops : Shared!IsView(st, e, ops) <=> IsView(st, e, ops)
<1>1. Shared!Operation = Operation BY DEF Shared!Operation, Operation
<1>2. Shared!NoField = NoField
  BY DEF Shared!NoField, NoField, Shared!NoStamp, NoStamp
<1>3. Shared!NoEntity = NoEntity BY <1>2 DEF Shared!NoEntity, NoEntity
<1>4. \A op : Shared!StampOf(op) = StampOf(op) BY DEF Shared!StampOf, StampOf
<1>5. \A op, k : Shared!FieldOf(op, k) = FieldOf(op, k)
  BY <1>4 DEF Shared!FieldOf, FieldOf
<1>6. \A op : Shared!Touched(op) = Touched(op) BY DEF Shared!Touched, Touched
<1>7. \A a, b : Shared!Before(a, b) <=> Before(a, b) BY DEF Shared!Before, Before
<1>8. \A field, k, ops : Shared!Newest(field, k, ops) <=> Newest(field, k, ops)
  BY <1>2, <1>4, <1>5, <1>6, <1>7 DEF Shared!Newest, Newest
<1>9. \A ops, e : Shared!About(ops, e) = About(ops, e) BY DEF Shared!About, About
<1>10. \A st, e, ops : Shared!IsView(st, e, ops) <=> IsView(st, e, ops)
  BY <1>8, <1>9 DEF Shared!IsView, IsView
<1> QED BY <1>1, <1>3, <1>10

\* What the nodes show after a step.
LEMMA ShownAfter ==
    ASSUME RInv'
    PROVE  Shared!Shown
<1>1. ASSUME NEW n \in Replicas, NEW e \in Entities
      PROVE  IsView(store'[n].entities[e], e, store'[n].known)
  BY DEF RInv, Inv, StoreOK
<1> QED BY <1>1, SameModel DEF Shared!Shown

\* A store that grows is a Learn of the shared workspace.
LEMMA LearnsStep ==
    ASSUME RInv, RInv', NEW n \in Replicas, Learns(n)
    PROVE  Shared!Learn(n)
<1>1. PICK s : store' = [store EXCEPT ![n] = s] /\ store[n].known \subseteq s.known
  BY DEF Learns
<1>2. issued' = issued /\ backup' = backup BY DEF Learns
<1>3. store'[n] = s /\ \A m \in Replicas : m # n => store'[m] = store[m]
  BY <1>1 DEF RInv, Inv
<1>4. store'[n].known \subseteq issued BY <1>2 DEF RInv, Inv
<1>5. [m \in Replicas |-> store'[m].known]
      = [[m \in Replicas |-> store[m].known] EXCEPT ![n] = store'[n].known]
  BY <1>3
<1> QED BY <1>1, <1>2, <1>3, <1>4, <1>5 DEF Shared!Learn

\* A command is an Issue of the shared workspace, or nothing if it changes nothing.
LEMMA CommandStep ==
    ASSUME RInv, RInv', NEW n \in Replicas, Command(n), UNCHANGED protocol
    PROVE  Shared!Issue(n) \/ UNCHANGED Shared!vars
<1>1. PICK id \in FreshIds, batch \in Seq(Operation), c \in Nat :
          CommandBatch(batch, n, id, c) /\ Commit(n, batch, c)
  BY CommandIssues DEF RInv
<1> DEFINE new == {batch[i] : i \in DOMAIN batch}
           fresh == issued' \ issued
<1>2. /\ issued' = issued \cup new /\ backup' = backup
      /\ store' = [store EXCEPT ![n] = CommitBatch(store[n], batch, c)]
  BY <1>1 DEF Commit, protocol
<1>3. /\ \A op \in new : op \in Operation /\ op.replicaId = n /\ op.operationId = id
      /\ \A a, b \in new : a.entity = b.entity => a = b
  BY <1>1 DEF CommandBatch
<1>4. \A op \in issued : op.operationId # id BY DEF FreshIds
<1>5. fresh = new BY <1>2, <1>3, <1>4
<1>6. store'[n].known = store[n].known \cup new
  BY <1>2 DEF RInv, Inv, CommitBatch
<1>7. \A m \in Replicas : m # n => store'[m] = store[m] BY <1>2 DEF RInv, Inv
<1>8. CASE new = {}
  <2>1. issued' = issued /\ store'[n].known = store[n].known BY <1>2, <1>6, <1>8
  <2>2. store'[n].entities = store[n].entities
    <3>1. UniqueIds(issued) /\ StoreOK(store[n]) /\ store[n].known \subseteq issued
      BY DEF RInv, Inv
    <3>2. StoreOK(store'[n]) BY DEF RInv, Inv
    <3> QED BY <2>1, <3>1, <3>2, SameEntities
  <2>3. /\ [m \in Replicas |-> store'[m].entities] = [m \in Replicas |-> store[m].entities]
        /\ [m \in Replicas |-> store'[m].known] = [m \in Replicas |-> store[m].known]
        /\ [m \in Replicas |-> backup'[m].store.known] = [m \in Replicas |-> backup[m].store.known]
    BY <1>2, <1>7, <2>1, <2>2
  <2> QED BY <2>1, <2>3 DEF Shared!vars
<1>9. CASE new # {}
  <2>1. [m \in Replicas |-> store'[m].known]
        = [[m \in Replicas |-> store[m].known] EXCEPT ![n] =
              [m \in Replicas |-> store[m].known][n] \cup fresh]
    BY <1>5, <1>6, <1>7
  <2>2. [m \in Replicas |-> backup'[m].store.known] = [m \in Replicas |-> backup[m].store.known]
    BY <1>2
  <2> HIDE DEF new
  <2>3. Shared!Absorb(n, fresh) BY <2>1 DEF Shared!Absorb
  <2> QED BY <1>2, <1>3, <1>4, <1>5, <1>9, <2>2, <2>3, SameModel DEF Shared!Issue
<1> QED BY <1>8, <1>9

\* Every behaviour of the protocol is one of the shared workspace: a command is
\* an Issue, a page, a push or a snapshot a Learn, and all else is invisible.
THEOREM ProtocolImplements == Spec => Promise
<1>1. Init => Shared!Init
  BY SameModel DEF Init, StoreInit, EmptyStore, NoBackup, Shared!Init
<1>2. ASSUME RInv, RInv', [Next]_vars
      PROVE  [Shared!Next]_(Shared!vars)
  <2>1. Shared!Shown BY <1>2, ShownAfter
  <2>2. CASE UNCHANGED <<store, issued, backup>> BY <2>2 DEF Shared!vars
  <2>3. ASSUME NEW n \in Replicas, Learns(n) PROVE Shared!Next
    BY <1>2, <2>1, <2>3, LearnsStep DEF Shared!Next
  <2>4. ASSUME NEW n \in Replicas, Command(n), UNCHANGED protocol
        PROVE  [Shared!Next]_(Shared!vars)
    BY <1>2, <2>1, <2>4, CommandStep DEF Shared!Next
  <2>5. ASSUME NEW n \in Replicas, TakeBackup(n) PROVE Shared!Save(n)
    BY <1>2, <2>5 DEF TakeBackup, Shared!Save, RInv, BackupInv
  <2>6. ASSUME NEW n \in Replicas, RestoreBackup(n) PROVE Shared!Restore(n)
    BY <1>2, <2>6 DEF RestoreBackup, Shared!Restore, RInv, Inv
  <2> QED BY <1>2, <2>1, <2>2, <2>3, <2>4, <2>5, <2>6, StepKinds DEF Shared!Next
<1> QED BY <1>1, <1>2, ProtocolInvariance, PTL DEF Spec, Promise, Shared!Spec

-----------------------------------------------------------------------------
(* The cursors.                                                             *)

Entries(log) == {log[i] : i \in DOMAIN log}

\* The first seq operations of a log are among ops.
Within(log, seq, ops) == seq <= Len(log) /\ \A i \in 1 .. seq : log[i] \in ops

\* What a node with store s has recorded of a peer in generation e with store t.
Sound(l, s, e, t) ==
    /\ l.identity <= e /\ l.receive.epoch <= e /\ l.history.epoch <= e
    /\ l.staged.cursor.epoch <= e
    /\ l.identity = e => Within(s.log, l.send, Entries(t.log))
    /\ l.receive.epoch = e => Within(t.log, l.receive.seq, s.known)
    /\ l.history.epoch = e => Within(t.log, l.history.seq, Entries(s.log))
    /\ l.staged.cursor.epoch = e =>
          Within(t.log, l.staged.cursor.seq, l.staged.store.known)

\* What the cursor of kind into speaks of, in a store.
Got(into, s) == IF into = "receive" THEN s.known ELSE Entries(s.log)

\* A page on its way into store s.
Fetched(page, into, s, e, t) ==
    /\ page.cursor.epoch <= e
    /\ page.cursor.epoch = e =>
          Within(t.log, page.cursor.seq, Got(into, s) \cup Entries(page.ops))

LinkSound(n, p) == Sound(link[n][p], store[n], epoch[p], store[p])

BackupSound(n, p) == Sound(backup[n].link[p], backup[n].store, epoch[p], store[p])

PageSound(n) ==
    /\ worker[n].phase = "reply" =>
          Fetched(reply[n], worker[n].into, store[n], epoch[peer(n)], store[peer(n)])
    /\ worker[n].phase = "apply" =>
          Fetched(reply[n], worker[n].into, txn[n], epoch[peer(n)], store[peer(n)])

\* What an uncommitted page is applied to is the store of the moment.
TxnSound(n) == worker[n].phase = "apply" => Grows(store[n], txn[n])

\* A push is served for as long as its client waits, and leaves out nothing.
PushSound(n) ==
    /\ worker[n].phase = "pushing" =>
          /\ serve[peer(n)].client = n
          /\ here(n).identity = epoch[peer(n)] /\ serve[peer(n)].ok =>
                Within(store[n].log, worker[n].upto,
                       Entries(store[peer(n)].log) \cup Entries(serve[peer(n)].todo))
    /\ worker[n].phase = "acking" /\ here(n).identity = epoch[peer(n)] =>
          Within(store[n].log, worker[n].upto, Entries(store[peer(n)].log))

CInv == \A n \in Replicas :
           /\ PageSound(n) /\ TxnSound(n) /\ PushSound(n)
           /\ \A p \in Replicas : LinkSound(n, p) /\ BackupSound(n, p)

-----------------------------------------------------------------------------
(* Positions in logs that grow.                                            *)

\* A log that is continued holds what it held.
LEMMA EntriesKept ==
    ASSUME NEW log \in Seq(Operation), NEW longer \in Seq(Operation), Continues(log, longer)
    PROVE  Entries(log) \subseteq Entries(longer)
BY DEF Entries, Continues

\* The first operations of a log stay where they are.
LEMMA WithinKept ==
    ASSUME NEW log \in Seq(Operation), NEW longer \in Seq(Operation), Continues(log, longer),
           NEW seq \in Nat, NEW ops, NEW more, ops \subseteq more, Within(log, seq, ops)
    PROVE  Within(longer, seq, more)
<1>1. Len(log) \in Nat /\ Len(longer) \in Nat OBVIOUS
<1> QED BY <1>1 DEF Within, Continues

\* What a cursor speaks of stays.
LEMMA GotKept ==
    ASSUME NEW s \in Store, NEW t \in Store, Grows(s, t), NEW into
    PROVE  Got(into, s) \subseteq Got(into, t)
BY EntriesKept DEF Got, Grows, Store

\* The parts of a recorded link that are numbers.
LEMMA LinkNumbers ==
    ASSUME NEW l \in Link
    PROVE  /\ l.identity \in Int /\ l.send \in Nat
           /\ l.receive.epoch \in Int /\ l.receive.seq \in Nat
           /\ l.history.epoch \in Int /\ l.history.seq \in Nat
           /\ l.staged.cursor.epoch \in Int /\ l.staged.cursor.seq \in Nat
<1>1. \A c \in Cursor \cup {NoCursor} : c.epoch \in Int /\ c.seq \in Nat
  BY DEF Cursor, NoCursor
<1>2. l.staged.cursor \in Cursor \cup {NoCursor}
  BY DEF Link, Snapshot, NoSnapshot
<1> QED BY <1>1, <1>2 DEF Link

\* A link that is right stays right while both stores grow.
LEMMA SoundKept ==
    ASSUME NEW l \in Link, NEW e \in Nat, NEW s \in Store, NEW t \in Store,
           NEW s2 \in Store, NEW t2 \in Store, Grows(s, s2), Grows(t, t2), Sound(l, s, e, t)
    PROVE  Sound(l, s2, e, t2)
<1>1. /\ s.log \in Seq(Operation) /\ s2.log \in Seq(Operation) /\ Continues(s.log, s2.log)
      /\ t.log \in Seq(Operation) /\ t2.log \in Seq(Operation) /\ Continues(t.log, t2.log)
      /\ s.known \subseteq s2.known
  BY DEF Store, Grows
<1>2. Entries(s.log) \subseteq Entries(s2.log) /\ Entries(t.log) \subseteq Entries(t2.log)
  BY <1>1, EntriesKept
<1>3. l.identity = e => Within(s2.log, l.send, Entries(t2.log))
  BY <1>1, <1>2, LinkNumbers, WithinKept DEF Sound
<1>4. l.receive.epoch = e => Within(t2.log, l.receive.seq, s2.known)
  BY <1>1, LinkNumbers, WithinKept DEF Sound
<1>5. l.history.epoch = e => Within(t2.log, l.history.seq, Entries(s2.log))
  BY <1>1, <1>2, LinkNumbers, WithinKept DEF Sound
<1>6. l.staged.cursor.epoch = e => Within(t2.log, l.staged.cursor.seq, l.staged.store.known)
  BY <1>1, LinkNumbers, WithinKept DEF Sound
<1> QED BY <1>3, <1>4, <1>5, <1>6 DEF Sound

\* In a new generation of the peer nothing that was recorded of it counts.
LEMMA SoundLater ==
    ASSUME NEW l \in Link, NEW e \in Nat, NEW s, NEW t, NEW s2, NEW t2, Sound(l, s, e, t)
    PROVE  Sound(l, s2, e + 1, t2)
BY LinkNumbers DEF Sound

\* A page that is right stays right while both stores grow.
LEMMA FetchedKept ==
    ASSUME NEW page \in Page, NEW into, NEW e \in Nat, NEW s \in Store, NEW t \in Store,
           NEW s2 \in Store, NEW t2 \in Store, Grows(s, s2), Grows(t, t2),
           Fetched(page, into, s, e, t)
    PROVE  Fetched(page, into, s2, e, t2)
<1>1. page.cursor.seq \in Nat BY DEF Page, Cursor, NoCursor
<1>2. t.log \in Seq(Operation) /\ t2.log \in Seq(Operation) /\ Continues(t.log, t2.log)
  BY DEF Store, Grows
<1>3. Got(into, s) \cup Entries(page.ops) \subseteq Got(into, s2) \cup Entries(page.ops)
  BY GotKept
<1> QED BY <1>1, <1>2, <1>3, WithinKept DEF Fetched

\* In a new generation of the peer a page of the former one moves no cursor that counts.
LEMMA FetchedLater ==
    ASSUME NEW page \in Page, NEW into, NEW e \in Nat, NEW s, NEW t, NEW s2, NEW t2,
           Fetched(page, into, s, e, t)
    PROVE  Fetched(page, into, s2, e + 1, t2)
<1>1. page.cursor.epoch \in Int BY DEF Page, Cursor, NoCursor
<1> QED BY <1>1 DEF Fetched

\* The operations of a stretch of a log are in it.
LEMMA StretchEntries ==
    ASSUME NEW log \in Seq(Operation), NEW a \in Nat, NEW b \in Nat, b <= Len(log)
    PROVE  \A i \in a + 1 .. b : log[i] \in Entries(SubSeq(log, a + 1, b))
<1> SUFFICES ASSUME NEW i \in a + 1 .. b PROVE log[i] \in Entries(SubSeq(log, a + 1, b))
  OBVIOUS
<1> DEFINE part == SubSeq(log, a + 1, b)
<1>1. Len(part) = b - a /\ part \in Seq(Operation) /\ \A j \in 1 .. b - a : part[j] = log[a + j]
  OBVIOUS
<1>2. i - a \in 1 .. b - a /\ a + (i - a) = i OBVIOUS
<1> HIDE DEF part
<1>3. i - a \in DOMAIN part /\ part[i - a] = log[i] BY <1>1, <1>2
<1> QED BY <1>3 DEF Entries, part

\* What is on its way is its head and its tail.
LEMMA HeadTailEntries ==
    ASSUME NEW seq \in Seq(Operation), seq # << >>
    PROVE  Entries(seq) = {Head(seq)} \cup Entries(Tail(seq))
<1>1. /\ Len(seq) \in Nat /\ Len(seq) > 0 /\ DOMAIN seq = 1 .. Len(seq) /\ Head(seq) = seq[1]
      /\ DOMAIN Tail(seq) = 1 .. Len(seq) - 1
      /\ \A i \in 1 .. Len(seq) - 1 : Tail(seq)[i] = seq[i + 1]
  OBVIOUS
<1>2. \A i \in DOMAIN seq : i = 1 \/ (i - 1 \in DOMAIN Tail(seq) /\ Tail(seq)[i - 1] = seq[i])
  BY <1>1
<1>3. \A i \in DOMAIN Tail(seq) : i + 1 \in DOMAIN seq /\ Tail(seq)[i] = seq[i + 1]
  BY <1>1
<1>4. 1 \in DOMAIN seq BY <1>1
<1>5. ASSUME NEW x \in Entries(seq) PROVE x \in {Head(seq)} \cup Entries(Tail(seq))
  <2>1. PICK i \in DOMAIN seq : x = seq[i] BY DEF Entries
  <2> QED BY <1>1, <1>2, <2>1 DEF Entries
<1>6. ASSUME NEW x \in Entries(Tail(seq)) PROVE x \in Entries(seq)
  <2>1. PICK i \in DOMAIN Tail(seq) : x = Tail(seq)[i] BY DEF Entries
  <2> QED BY <1>3, <2>1 DEF Entries
<1>7. Head(seq) \in Entries(seq) BY <1>1, <1>4 DEF Entries
<1> QED BY <1>5, <1>6, <1>7

\* An operation that is received is in the log.
LEMMA ReceiveLogs ==
    ASSUME NEW s \in Store, NEW op \in Operation
    PROVE  op \in Entries(Receive(s, op).log)
<1>1. CASE Logged(s, op) BY <1>1 DEF Receive, Logged, Entries
<1>2. CASE ~Logged(s, op)
  <2>1. Receive(s, op).log = Append(s.log, op) BY <1>2 DEF Receive
  <2>2. s.log \in Seq(Operation) BY DEF Store
  <2>3. /\ Len(s.log) + 1 \in DOMAIN Append(s.log, op)
        /\ Append(s.log, op)[Len(s.log) + 1] = op
    BY <2>2
  <2> QED BY <2>1, <2>3 DEF Entries
<1> QED BY <1>1, <1>2

\* A log holds absorbed operations only.
LEMMA EntriesKnown ==
    ASSUME NEW s, StoreOK(s)
    PROVE  Entries(s.log) \subseteq s.known
BY DEF StoreOK, Entries

-----------------------------------------------------------------------------
(* Steps that go forward: all but the restore of a backup.                 *)

Forward ==
    /\ epoch' = epoch
    /\ \A n \in Replicas : Grows(store[n], store'[n])

\* A step that leaves the stores alone, or makes one of them grow.
LEMMA OneGrows ==
    ASSUME RInv, epoch' = epoch,
           \/ store' = store
           \/ \E n \in Replicas : \E s : store' = [store EXCEPT ![n] = s] /\ Grows(store[n], s)
    PROVE  Forward
<1>1. store \in [Replicas -> Store] BY DEF RInv, Inv
<1>2. \A n \in Replicas : Grows(store[n], store[n]) BY <1>1, GrowsSelf
<1> QED BY <1>1, <1>2 DEF Forward

\* No step but a restore takes a node back.
LEMMA StepForward ==
    ASSUME RInv, CInv, [Next]_vars
    PROVE  Forward \/ \E n \in Replicas : RestoreBackup(n)
<1> DEFINE Still == store' = store /\ epoch' = epoch
<1>1. \A n \in Replicas : store[n] \in Store BY DEF RInv, Inv
<1>2. UNCHANGED vars => Still BY DEF vars, protocol
<1>3. \A n \in Replicas : \A p \in Peers[n] : BeginTick(n, p) => Still BY DEF BeginTick
<1>4. ASSUME NEW n \in Replicas, Command(n), UNCHANGED protocol PROVE Forward
  <2>1. PICK id \in FreshIds, batch \in Seq(Operation), c \in Nat : Commit(n, batch, c)
    BY <1>4, CommandIssues DEF RInv
  <2>2. store' = [store EXCEPT ![n] = CommitBatch(store[n], batch, c)] BY <2>1 DEF Commit
  <2>3. epoch' = epoch BY <1>4 DEF protocol
  <2> QED BY <1>1, <2>2, <2>3, CommitGrows, OneGrows
<1>5. ASSUME NEW n \in Replicas, FinishSnapshot(n) PROVE Forward
  <2>1. PICK c : store' = [store EXCEPT ![n] =
                              MergeSnapshot(store[n], here(n).staged.store, c)]
    BY <1>5 DEF FinishSnapshot
  <2>2. here(n).staged.store \in Store
    BY <1>5, AtPeer DEF FinishSnapshot, Carried, StoreOK
  <2>3. Grows(store[n], MergeSnapshot(store[n], here(n).staged.store, c))
    BY <1>1, <2>2, MergeGrows
  <2>4. epoch' = epoch BY <1>5 DEF FinishSnapshot
  <2> QED BY <2>1, <2>3, <2>4, OneGrows
<1>6. ASSUME NEW n \in Replicas, CommitPage(n) PROVE Forward
  <2>1. store' = [store EXCEPT ![n] = txn[n]] /\ epoch' = epoch BY <1>6 DEF CommitPage
  <2>2. Grows(store[n], txn[n]) BY <1>6 DEF CommitPage, CInv, TxnSound
  <2> QED BY <2>1, <2>2, OneGrows
<1>7. ASSUME NEW n \in Replicas, WorkerStep(n) PROVE Still \/ Forward
  BY <1>5, <1>6, <1>7
     DEF WorkerStep, SkipRestore, RequestSnapshot, SkipHistory, RequestHistory, RefuseHistory,
         EndPush, RequestPush, AckPush, RequestPull, RefusePull, OpenPage, ApplyOne, SetComplete
<1>8. ASSUME NEW n \in Replicas, ServeOne(n) PROVE Still \/ Forward
  <2>1. /\ \/ store' = store
           \/ store' = [store EXCEPT ![n] = Receive(store[n], Head(serve[n].todo))]
        /\ epoch' = epoch
    BY <1>8 DEF ServeOne
  <2>2. Head(serve[n].todo) \in Operation
    BY <1>8, HeadTail DEF ServeOne, RInv, ServeInv, Serve
  <2>3. Grows(store[n], Receive(store[n], Head(serve[n].todo))) BY <1>1, <2>2, ReceiveGrows
  <2> QED BY <2>1, <2>3, OneGrows
<1>9. ASSUME NEW n \in Replicas, ServeStep(n) PROVE Still \/ Forward
  BY <1>8, <1>9 DEF ServeStep, ServeDone
<1>10. ASSUME NEW n \in Replicas, Disturbance(n) PROVE Still \/ RestoreBackup(n)
  BY <1>10 DEF Disturbance, ExpireSnapshot, Fail, Crash, TakeBackup
<1>11. Still => Forward BY OneGrows
<1> HIDE DEF Still
<1> QED BY <1>2, <1>3, <1>4, <1>7, <1>9, <1>10, <1>11 DEF Next

-----------------------------------------------------------------------------
(* What a step forward leaves alone stays right.                           *)

\* A link that is not written.
LEMMA LinkKept ==
    ASSUME RInv, RInv', CInv, Forward, NEW n \in Replicas, NEW p \in Replicas,
           link'[n][p] = link[n][p]
    PROVE  LinkSound(n, p)'
<1>1. /\ link[n][p] \in Link /\ epoch[p] \in Nat
      /\ store[n] \in Store /\ store[p] \in Store /\ store'[n] \in Store /\ store'[p] \in Store
  BY DEF RInv, Inv, CountInv, LinkInv
<1>2. Sound(link[n][p], store[n], epoch[p], store[p]) BY DEF CInv, LinkSound
<1>3. Grows(store[n], store'[n]) /\ Grows(store[p], store'[p]) /\ epoch'[p] = epoch[p]
  BY DEF Forward
<1>4. Sound(link[n][p], store'[n], epoch[p], store'[p]) BY <1>1, <1>2, <1>3, SoundKept
<1> QED BY <1>3, <1>4 DEF LinkSound

\* A backup that is not written.
LEMMA BackupKept ==
    ASSUME RInv, RInv', CInv, Forward, NEW n \in Replicas, NEW p \in Replicas,
           backup'[n] = backup[n]
    PROVE  BackupSound(n, p)'
<1>1. /\ backup[n].link[p] \in Link /\ epoch[p] \in Nat
      /\ backup[n].store \in Store /\ store[p] \in Store /\ store'[p] \in Store
  BY DEF RInv, Inv, CountInv, BackupInv, Backup
<1>2. Sound(backup[n].link[p], backup[n].store, epoch[p], store[p]) BY DEF CInv, BackupSound
<1>3. Grows(store[p], store'[p]) /\ epoch'[p] = epoch[p] BY DEF Forward
<1>4. Sound(backup[n].link[p], backup[n].store, epoch[p], store'[p])
  BY <1>1, <1>2, <1>3, GrowsSelf, SoundKept
<1> QED BY <1>3, <1>4 DEF BackupSound

\* A page in the hands of a worker that does not move.
LEMMA PageKept ==
    ASSUME RInv, RInv', CInv, Forward, NEW n \in Replicas,
           worker'[n] = worker[n], reply'[n] = reply[n], txn'[n] = txn[n]
    PROVE  PageSound(n)'
<1> DEFINE p == worker[n].peer
<1>1. SUFFICES ASSUME worker[n].phase \in {"reply", "apply"} PROVE PageSound(n)'
  BY DEF PageSound
<1>2. /\ p \in Replicas /\ epoch[p] \in Nat /\ reply[n] \in Page
      /\ store[n] \in Store /\ store'[n] \in Store /\ store[p] \in Store /\ store'[p] \in Store
      /\ txn[n] \in Store
  BY <1>1 DEF RInv, Inv, CountInv, WorkerInv, ReplyInv, TxnInv
<1>3. /\ Grows(store[n], store'[n]) /\ Grows(store[p], store'[p]) /\ epoch'[p] = epoch[p]
      /\ Grows(txn[n], txn[n])
  BY <1>2, GrowsSelf DEF Forward
<1>4. CASE worker[n].phase = "reply"
  <2>1. Fetched(reply[n], worker[n].into, store[n], epoch[p], store[p])
    BY <1>4 DEF CInv, PageSound, peer
  <2>2. Fetched(reply[n], worker[n].into, store'[n], epoch[p], store'[p])
    BY <1>2, <1>3, <2>1, FetchedKept
  <2> QED BY <1>3, <1>4, <2>2 DEF PageSound, peer
<1>5. CASE worker[n].phase = "apply"
  <2>1. Fetched(reply[n], worker[n].into, txn[n], epoch[p], store[p])
    BY <1>5 DEF CInv, PageSound, peer
  <2>2. Fetched(reply[n], worker[n].into, txn[n], epoch[p], store'[p])
    BY <1>2, <1>3, <2>1, FetchedKept
  <2> QED BY <1>3, <1>5, <2>2 DEF PageSound, peer
<1> QED BY <1>1, <1>4, <1>5

\* A push whose client and server do not move.
LEMMA PushKept ==
    ASSUME RInv, RInv', CInv, Forward, NEW n \in Replicas,
           worker'[n] = worker[n], link'[n] = link[n],
           worker[n].phase = "pushing" => serve'[worker[n].peer] = serve[worker[n].peer]
    PROVE  PushSound(n)'
<1> DEFINE p == worker[n].peer
<1>1. SUFFICES ASSUME worker[n].phase \in {"pushing", "acking"} PROVE PushSound(n)'
  BY DEF PushSound
<1>2. /\ p \in Replicas /\ worker[n].upto \in Nat
      /\ store[n].log \in Seq(Operation) /\ store'[n].log \in Seq(Operation)
      /\ store[p].log \in Seq(Operation) /\ store'[p].log \in Seq(Operation)
  BY <1>1 DEF RInv, Inv, WorkerInv, Worker, Store
<1>3. /\ Continues(store[n].log, store'[n].log) /\ Continues(store[p].log, store'[p].log)
      /\ epoch'[p] = epoch[p]
  BY <1>2 DEF Forward, Grows
<1>4. Entries(store[p].log) \subseteq Entries(store'[p].log) BY <1>2, <1>3, EntriesKept
<1>5. ASSUME NEW ops, Within(store[n].log, worker[n].upto, Entries(store[p].log) \cup ops)
      PROVE  Within(store'[n].log, worker[n].upto, Entries(store'[p].log) \cup ops)
  BY <1>2, <1>3, <1>4, <1>5, WithinKept
<1>6. CASE worker[n].phase = "pushing"
  <2>1. /\ serve[p].client = n
        /\ link[n][p].identity = epoch[p] /\ serve[p].ok =>
              Within(store[n].log, worker[n].upto,
                     Entries(store[p].log) \cup Entries(serve[p].todo))
    BY <1>6 DEF CInv, PushSound, peer, here
  <2> QED BY <1>3, <1>5, <1>6, <2>1 DEF PushSound, peer, here
<1>7. CASE worker[n].phase = "acking"
  <2>1. link[n][p].identity = epoch[p] =>
           Within(store[n].log, worker[n].upto, Entries(store[p].log))
    BY <1>7 DEF CInv, PushSound, peer, here
  <2>2. \A log, i, ops : Within(log, i, ops \cup {}) <=> Within(log, i, ops) BY DEF Within
  <2>3. link[n][p].identity = epoch[p] =>
           Within(store'[n].log, worker[n].upto, Entries(store'[p].log))
    BY <1>5, <2>1, <2>2
  <2> QED BY <1>3, <1>7, <2>3 DEF PushSound, peer, here
<1> QED BY <1>1, <1>6, <1>7

\* An uncommitted page whose store nobody changes.
LEMMA TxnKept ==
    ASSUME CInv, NEW n \in Replicas, worker'[n] = worker[n], txn'[n] = txn[n],
           worker[n].phase = "apply" => store'[n] = store[n]
    PROVE  TxnSound(n)'
BY DEF CInv, TxnSound

\* A worker with nothing in hand.
LEMMA Unhanded ==
    ASSUME NEW n, worker'[n].phase \notin {"reply", "apply", "pushing", "acking"}
    PROVE  PageSound(n)' /\ TxnSound(n)' /\ PushSound(n)'
BY DEF PageSound, TxnSound, PushSound

\* A step of n that changes nothing of the others.
Own(n) ==
    /\ \A m \in Replicas \ {n} :
          /\ worker'[m] = worker[m] /\ reply'[m] = reply[m] /\ txn'[m] = txn[m]
          /\ link'[m] = link[m] /\ store'[m] = store[m]
          /\ worker[m].phase = "pushing" => serve'[worker[m].peer] = serve[worker[m].peer]
    /\ backup' = backup

\* Then only what n has in hand has to be looked at.
LEMMA OwnStep ==
    ASSUME RInv, RInv', CInv, Forward, NEW n \in Replicas, Own(n),
           PageSound(n)', TxnSound(n)', PushSound(n)',
           \A p \in Replicas : LinkSound(n, p)'
    PROVE  CInv'
<1>1. ASSUME NEW m \in Replicas, m # n
      PROVE  PageSound(m)' /\ TxnSound(m)' /\ PushSound(m)'
             /\ \A p \in Replicas : LinkSound(m, p)'
  BY <1>1, PageKept, TxnKept, PushKept, LinkKept DEF Own
<1>2. \A m, p \in Replicas : BackupSound(m, p)' BY BackupKept DEF Own
<1> QED BY <1>1, <1>2 DEF CInv

\* The links of n when the one of the peer it is at is written.
LEMMA LinkWritten ==
    ASSUME RInv, RInv', CInv, Forward, NEW n \in Replicas, NEW q \in Replicas, NEW l,
           link' = [link EXCEPT ![n][q] = l], Sound(l, store'[n], epoch'[q], store'[q])
    PROVE  \A p \in Replicas : LinkSound(n, p)'
<1>1. ASSUME NEW p \in Replicas
      PROVE  link'[n][p] = IF p = q THEN l ELSE link[n][p]
  BY DEF RInv, LinkInv
<1>2. LinkSound(n, q)' BY <1>1 DEF LinkSound
<1>3. \A p \in Replicas : p # q => LinkSound(n, p)' BY <1>1, LinkKept
<1> QED BY <1>2, <1>3

\* A step that writes only what belongs to n.
LEMMA Alone ==
    ASSUME RInv, NEW n \in Replicas, NEW w, worker' = [worker EXCEPT ![n] = w],
           reply' = reply \/ (\E r : reply' = [reply EXCEPT ![n] = r]),
           txn' = txn \/ (\E t : txn' = [txn EXCEPT ![n] = t]),
           store' = store \/ (\E s : store' = [store EXCEPT ![n] = s]),
           link' = link \/ (\E q, l : link' = [link EXCEPT ![n][q] = l]),
           serve' = serve, backup' = backup
    PROVE  Own(n) /\ worker'[n] = w
<1>1. worker'[n] = w /\ \A m \in Replicas \ {n} : worker'[m] = worker[m]
  BY DEF RInv, WorkerInv
<1>2. \A m \in Replicas \ {n} : reply'[m] = reply[m] /\ txn'[m] = txn[m] /\ store'[m] = store[m]
  BY DEF RInv, ReplyInv, TxnInv, Inv
<1>3. \A m \in Replicas \ {n} : link'[m] = link[m] BY DEF RInv, LinkInv
<1> QED BY <1>1, <1>2, <1>3 DEF Own

\* The record of the peer n is at, before it is written, is right after the step.
LEMMA HereSound ==
    ASSUME RInv, RInv', CInv, Forward, NEW n \in Replicas, worker[n].phase # "idle"
    PROVE  /\ peer(n) \in Replicas /\ here(n) \in Link /\ here(n) = link[n][peer(n)]
           /\ epoch'[peer(n)] = epoch[peer(n)] /\ epoch[peer(n)] \in Nat
           /\ Sound(here(n), store'[n], epoch[peer(n)], store'[peer(n)])
<1> DEFINE p == peer(n)
<1>1. /\ p \in Replicas /\ here(n) \in Link /\ here(n) = link[n][p] BY AtPeer DEF here, peer
<1>2. /\ epoch[p] \in Nat /\ store[n] \in Store /\ store[p] \in Store
      /\ store'[n] \in Store /\ store'[p] \in Store
  BY <1>1 DEF RInv, Inv, CountInv
<1>3. Grows(store[n], store'[n]) /\ Grows(store[p], store'[p]) /\ epoch'[p] = epoch[p]
  BY <1>1 DEF Forward
<1>4. Sound(here(n), store[n], epoch[p], store[p]) BY <1>1 DEF CInv, LinkSound
<1> HIDE DEF p
<1>5. Sound(here(n), store'[n], epoch[p], store'[p]) BY <1>1, <1>2, <1>3, <1>4, SoundKept
<1> QED BY <1>1, <1>2, <1>3, <1>5 DEF p

\* A worker that goes on with nothing in hand.
LEMMA QuietStep ==
    ASSUME RInv, RInv', CInv, Forward, NEW n \in Replicas, NEW w, Goto(n, w),
           w.phase \notin {"reply", "apply", "pushing", "acking"}, link' = link,
           reply' = reply \/ (\E r : reply' = [reply EXCEPT ![n] = r]),
           txn' = txn \/ (\E t : txn' = [txn EXCEPT ![n] = t]),
           store' = store, serve' = serve, backup' = backup
    PROVE  CInv'
<1>1. Own(n) /\ worker'[n] = w BY Alone DEF Goto
<1>2. \A p \in Replicas : LinkSound(n, p)' BY LinkKept
<1> QED BY <1>1, <1>2, Unhanded, OwnStep

\* SkipRestore, SkipHistory, RefuseHistory, EndPush, RefusePull and Fail.
LEMMA QuietActions ==
    ASSUME RInv, RInv', CInv, Forward, NEW n \in Replicas,
           \/ SkipRestore(n) \/ SkipHistory(n) \/ RefuseHistory(n) \/ EndPush(n)
           \/ RefusePull(n) \/ Fail(n)
    PROVE  CInv'
<1> DEFINE Quiet(w) == w.phase \in {"history", "push", "pull", "idle", "restore"}
<1>1. worker[n].phase # "idle"
  BY DEF SkipRestore, SkipHistory, RefuseHistory, EndPush, RefusePull, Fail
<1>2. \A phase \in Phases : To(n, phase) \in Worker /\ To(n, phase).phase = phase
  BY <1>1, AtPeer
<1>3. \A phase \in Phases : [To(n, phase) EXCEPT !.pages = 0].phase = phase
                             /\ [To(n, phase) EXCEPT !.forced = TRUE].phase = phase
  BY <1>2 DEF Worker
<1>4. {"history", "push", "pull", "restore"} \subseteq Phases /\ Idle.phase = "idle"
  BY DEF Phases, Idle
<1>5. CASE SkipRestore(n)
  BY <1>2, <1>4, <1>5, QuietStep DEF SkipRestore
<1>6. CASE SkipHistory(n)
  BY <1>3, <1>4, <1>6, QuietStep DEF SkipHistory
<1>7. CASE RefuseHistory(n)
  BY <1>4, <1>7, QuietStep DEF RefuseHistory, Stop
<1>8. CASE EndPush(n)
  BY <1>3, <1>4, <1>8, QuietStep DEF EndPush
<1>9. CASE RefusePull(n)
  BY <1>3, <1>4, <1>9, QuietStep DEF RefusePull
<1>10. CASE Fail(n)
  BY <1>4, <1>10, QuietStep DEF Fail, Stop
<1> QED BY <1>5, <1>6, <1>7, <1>8, <1>9, <1>10

\* A worker that records something of its peer and goes on with nothing in hand.
LEMMA RecordStep ==
    ASSUME RInv, RInv', CInv, Forward, NEW n \in Replicas, NEW w, NEW l,
           NEW q \in Replicas, worker' = [worker EXCEPT ![n] = w],
           w.phase \notin {"reply", "apply", "pushing", "acking"},
           link' = [link EXCEPT ![n][q] = l], Sound(l, store'[n], epoch'[q], store'[q]),
           reply' = reply \/ (\E r : reply' = [reply EXCEPT ![n] = r]),
           txn' = txn \/ (\E t : txn' = [txn EXCEPT ![n] = t]),
           store' = store \/ (\E s : store' = [store EXCEPT ![n] = s]),
           serve' = serve, backup' = backup
    PROVE  CInv'
<1>1. Own(n) /\ worker'[n] = w BY Alone
<1>2. \A p \in Replicas : LinkSound(n, p)' BY LinkWritten
<1> QED BY <1>1, <1>2, Unhanded, OwnStep

\* A peer of which nothing is recorded.
LEMMA NewLinkSound ==
    ASSUME NEW s \in Store, NEW t \in Store, NEW e \in Nat, NEW i \in Int, i <= e
    PROVE  Sound(NewLink(i), s, e, t)
<1>1. Len(s.log) \in Nat BY DEF Store
<1> QED BY <1>1 DEF Sound, NewLink, NoCursor, NoSnapshot, Within

\* BeginTick forgets what was recorded of another generation.
LEMMA BeginTickSound ==
    ASSUME RInv, RInv', CInv, Forward, NEW n \in Replicas, NEW p \in Peers[n], BeginTick(n, p)
    PROVE  CInv'
<1> DEFINE w == [Idle EXCEPT !.phase = "restore", !.peer = p]
           l == IF link[n][p].identity = epoch[p] THEN link[n][p] ELSE NewLink(epoch[p])
<1>1. p \in Replicas BY ProtocolAssumption DEF ProtocolAssumption
<1>2. link' = [link EXCEPT ![n][p] = l] BY <1>1 DEF BeginTick, RInv, LinkInv
<1>3. /\ worker' = [worker EXCEPT ![n] = w] /\ w.phase = "restore"
      /\ UNCHANGED <<store, epoch, reply, txn, serve, backup>>
  BY DEF BeginTick, Goto, Idle
<1>4. /\ store[n] \in Store /\ store[p] \in Store /\ epoch[p] \in Nat
      /\ Sound(link[n][p], store[n], epoch[p], store[p])
  BY <1>1 DEF RInv, Inv, CountInv, CInv, LinkSound
<1>5. Sound(l, store[n], epoch[p], store[p]) BY <1>4, NewLinkSound
<1> HIDE DEF w, l
<1> QED BY <1>1, <1>2, <1>3, <1>5, RecordStep

\* RequestSnapshot: at its watermark the peer has absorbed its whole log.
LEMMA RequestSnapshotSound ==
    ASSUME RInv, RInv', CInv, Forward, NEW n \in Replicas, RequestSnapshot(n)
    PROVE  CInv'
<1> DEFINE p == peer(n)
           cursor == [epoch |-> epoch[p], seq |-> Len(store[p].log)]
           l == [here(n) EXCEPT !.staged = [store |-> store[p], cursor |-> cursor]]
<1>1. /\ p \in Replicas /\ here(n) \in Link /\ epoch'[p] = epoch[p] /\ epoch[p] \in Nat
      /\ Sound(here(n), store'[n], epoch[p], store'[p])
  BY HereSound DEF RequestSnapshot
<1>2. link' = [link EXCEPT ![n][p] = l] BY DEF RequestSnapshot, SetLink
<1>3. UNCHANGED <<store, epoch, worker, reply, txn, serve, backup>> BY DEF RequestSnapshot
<1>4. Within(store[p].log, Len(store[p].log), store[p].known)
  <2>1. Entries(store[p].log) \subseteq store[p].known /\ store[p].log \in Seq(Operation)
    BY <1>1, EntriesKnown DEF RInv, Inv, Store
  <2> QED BY <2>1 DEF Within, Entries
<1>5. Sound(l, store'[n], epoch'[p], store'[p])
  <2>1. /\ l.identity = here(n).identity /\ l.send = here(n).send
        /\ l.receive = here(n).receive /\ l.history = here(n).history
        /\ l.staged.cursor = cursor /\ l.staged.store = store[p]
    BY <1>1 DEF Link
  <2> HIDE DEF l, p
  <2> QED BY <1>1, <1>3, <1>4, <2>1 DEF Sound
<1>6. worker' = [worker EXCEPT ![n] = worker[n]] /\ worker[n].phase = "restore"
  BY <1>3 DEF RequestSnapshot, RInv, WorkerInv
<1> HIDE DEF l, p
<1> QED BY <1>1, <1>2, <1>3, <1>5, <1>6, RecordStep

\* FinishSnapshot: what the watermark covers is absorbed with the snapshot.
LEMMA FinishSnapshotSound ==
    ASSUME RInv, RInv', CInv, Forward, NEW n \in Replicas, FinishSnapshot(n)
    PROVE  CInv'
<1> DEFINE p == peer(n)
           l == Landed(here(n))
           w == IF ~worker[n].forced THEN To(n, "history")
                ELSE IF worker[n].pages + 1 = MaxPages THEN Idle
                ELSE [To(n, "pull") EXCEPT !.forced = FALSE, !.recovered = TRUE, !.pages = @ + 1]
<1>1. /\ p \in Replicas /\ here(n) \in Link /\ epoch'[p] = epoch[p] /\ epoch[p] \in Nat
      /\ Sound(here(n), store'[n], epoch[p], store'[p])
  BY HereSound DEF FinishSnapshot
<1>2. /\ link' = [link EXCEPT ![n][p] = l] /\ worker' = [worker EXCEPT ![n] = w]
      /\ UNCHANGED <<epoch, reply, txn, serve, backup>>
  BY DEF FinishSnapshot, SetLink, Goto
<1>3. PICK c : store' = [store EXCEPT ![n] =
                            MergeSnapshot(store[n], here(n).staged.store, c)]
  BY DEF FinishSnapshot
<1>4. here(n).staged.store.known \subseteq store'[n].known
  BY <1>3 DEF RInv, Inv, MergeSnapshot
<1>5. Sound(l, store'[n], epoch'[p], store'[p])
  <2>1. /\ l.identity = here(n).identity /\ l.send = here(n).send
        /\ l.receive = here(n).staged.cursor /\ l.history = here(n).history
        /\ l.staged.cursor.epoch = -1
    BY <1>1 DEF Link, Landed, NoSnapshot, NoCursor
  <2> HIDE DEF l, p
  <2>2. l.receive.epoch = epoch[p] => Within(store'[p].log, l.receive.seq, store'[n].known)
    BY <1>1, <1>4, <2>1 DEF Sound, Within
  <2> QED BY <1>1, <2>1, <2>2 DEF Sound
<1>6. w.phase \in {"history", "idle", "pull"}
  <2>1. \A phase \in Phases : To(n, phase) \in Worker /\ To(n, phase).phase = phase
    BY AtPeer DEF FinishSnapshot
  <2>2. {"history", "pull"} \subseteq Phases /\ Idle.phase = "idle" BY DEF Phases, Idle
  <2> HIDE DEF To
  <2>3. To(n, "pull") \in Worker /\ To(n, "pull").phase = "pull" BY <2>1, <2>2
  <2>4. [To(n, "pull") EXCEPT !.forced = FALSE, !.recovered = TRUE, !.pages = @ + 1].phase = "pull"
    BY <2>3 DEF Worker
  <2> QED BY <2>1, <2>2, <2>4
<1> HIDE DEF l, p, w
<1> QED BY <1>1, <1>2, <1>3, <1>5, <1>6, RecordStep

\* ExpireSnapshot drops the staged pages.
LEMMA ExpireSnapshotSound ==
    ASSUME RInv, RInv', CInv, Forward, NEW n \in Replicas, ExpireSnapshot(n)
    PROVE  CInv'
<1> DEFINE p == peer(n)
           l == [here(n) EXCEPT !.staged = NoSnapshot]
<1>1. /\ p \in Replicas /\ here(n) \in Link /\ epoch'[p] = epoch[p] /\ epoch[p] \in Nat
      /\ Sound(here(n), store'[n], epoch[p], store'[p])
  BY HereSound DEF ExpireSnapshot
<1>2. /\ link' = [link EXCEPT ![n][p] = l] /\ Stop(n)
      /\ UNCHANGED <<store, epoch, serve, backup>>
  BY DEF ExpireSnapshot, SetLink
<1>3. Sound(l, store'[n], epoch'[p], store'[p])
  <2>1. /\ l.identity = here(n).identity /\ l.send = here(n).send
        /\ l.receive = here(n).receive /\ l.history = here(n).history
        /\ l.staged.cursor.epoch = -1
    BY <1>1 DEF Link, NoSnapshot, NoCursor
  <2> HIDE DEF l, p
  <2> QED BY <1>1, <2>1 DEF Sound
<1>4. Idle.phase = "idle" BY DEF Idle
<1> HIDE DEF l, p
<1> QED BY <1>1, <1>2, <1>3, <1>4, RecordStep DEF Stop, Goto

-----------------------------------------------------------------------------
(* Pages: what changes() answers, and what becomes of it.                  *)

\* changes() goes on where the cursor is: nothing is skipped.
LEMMA ChangesFetched ==
    ASSUME RInv, NEW p \in Replicas, NEW cursor \in Cursor \cup {NoCursor}, Accepts(p, cursor),
           NEW into, NEW s,
           cursor.epoch = epoch[p] => Within(store[p].log, cursor.seq, Got(into, s))
    PROVE  Fetched(Changes(p, cursor), into, s, epoch[p], store[p])
<1> DEFINE log == store[p].log
           a == cursor.seq
           b == Reach(cursor.seq, p)
           ops == SubSeq(log, a + 1, b)
<1>1. log \in Seq(Operation) /\ Len(log) \in Nat /\ epoch[p] \in Nat
  BY DEF RInv, Inv, Store, CountInv
<1>2. a \in Nat /\ a <= Len(log) /\ (cursor = NoCursor => a = 0)
  BY <1>1 DEF Accepts, Cursor, NoCursor
<1>3. b \in Nat /\ b <= Len(log)
  BY <1>1, <1>2, ProtocolAssumption DEF Reach, ProtocolAssumption
<1>4. ASSUME NEW i \in 1 .. a PROVE log[i] \in Got(into, s)
  BY <1>2, <1>4 DEF Accepts, Within
<1>5. \A i \in a + 1 .. b : log[i] \in Entries(ops)
  <2> HIDE DEF log, a, b
  <2> QED BY <1>1, <1>2, <1>3, StretchEntries
<1>6. /\ Changes(p, cursor).ops = ops /\ Changes(p, cursor).cursor.epoch = epoch[p]
      /\ Changes(p, cursor).cursor.seq = b
  BY DEF Changes
<1> HIDE DEF a, b, ops
<1>7. ASSUME NEW i \in 1 .. b PROVE log[i] \in Got(into, s) \cup Entries(ops)
  BY <1>2, <1>3, <1>4, <1>5
<1>8. Within(log, b, Got(into, s) \cup Entries(ops)) BY <1>3, <1>7 DEF Within
<1> QED BY <1>1, <1>6, <1>8 DEF Fetched

\* The two calls of changes().
LEMMA RequestPageSound ==
    ASSUME RInv, RInv', CInv, Forward, NEW n \in Replicas, worker[n].phase # "idle",
           NEW cursor \in Cursor \cup {NoCursor}, Accepts(peer(n), cursor),
           NEW into \in {"history", "receive"},
           cursor.epoch = epoch[peer(n)] =>
               Within(store[peer(n)].log, cursor.seq, Got(into, store[n])),
           reply' = [reply EXCEPT ![n] = Changes(peer(n), cursor)],
           Goto(n, [To(n, "reply") EXCEPT !.into = into]),
           UNCHANGED <<store, epoch, link, txn, serve, backup>>
    PROVE  CInv'
<1> DEFINE p == peer(n)
           v == To(n, "reply")
           w == [v EXCEPT !.into = into]
           page == Changes(p, cursor)
<1>1. v \in Worker /\ v.phase = "reply" /\ v.peer = p /\ p \in Replicas
  BY AtPeer DEF Phases
<1>2. Fetched(page, into, store[n], epoch[p], store[p]) BY <1>1, ChangesFetched
<1> HIDE DEF page, v, p
<1>3. w.phase = "reply" /\ w.peer = p /\ w.into = into BY <1>1 DEF Worker
<1>4. worker' = [worker EXCEPT ![n] = w] /\ reply' = [reply EXCEPT ![n] = page]
  BY DEF Goto, v, page, p
<1> HIDE DEF w
<1>5. Own(n) /\ worker'[n] = w BY <1>4, Alone
<1>6. reply'[n] = page BY <1>4 DEF RInv, ReplyInv
<1>7. PageSound(n)' BY <1>2, <1>3, <1>5, <1>6 DEF PageSound, peer
<1>8. TxnSound(n)' /\ PushSound(n)' BY <1>3, <1>5 DEF TxnSound, PushSound
<1>9. \A q \in Replicas : LinkSound(n, q)' BY LinkKept
<1> QED BY <1>5, <1>7, <1>8, <1>9, OwnStep

\* RequestHistory and RequestPull.
LEMMA RequestSound ==
    ASSUME RInv, RInv', CInv, Forward, NEW n \in Replicas,
           RequestHistory(n) \/ RequestPull(n)
    PROVE  CInv'
<1>1. /\ worker[n].phase # "idle" /\ UNCHANGED <<store, epoch, link, txn, serve, backup>>
  BY DEF RequestHistory, RequestPull
<1>2. /\ peer(n) \in Replicas /\ here(n) \in Link /\ here(n) = link[n][peer(n)]
  BY <1>1, HereSound
<1>3. /\ here(n).history \in Cursor \cup {NoCursor} /\ here(n).receive \in Cursor \cup {NoCursor}
  BY <1>2 DEF Link
<1>4. Sound(here(n), store[n], epoch[peer(n)], store[peer(n)]) BY <1>2 DEF CInv, LinkSound
<1>5. CASE RequestHistory(n)
  <2>1. here(n).history.epoch = epoch[peer(n)] =>
           Within(store[peer(n)].log, here(n).history.seq, Got("history", store[n]))
    BY <1>4 DEF Sound, Got
  <2> QED BY <1>1, <1>3, <1>5, <2>1, RequestPageSound DEF RequestHistory
<1>6. CASE RequestPull(n)
  <2>1. here(n).receive.epoch = epoch[peer(n)] =>
           Within(store[peer(n)].log, here(n).receive.seq, Got("receive", store[n]))
    BY <1>4 DEF Sound, Got
  <2> QED BY <1>1, <1>3, <1>6, <2>1, RequestPageSound DEF RequestPull
<1> QED BY <1>5, <1>6

\* OpenPage starts from the store of the moment.
LEMMA OpenPageSound ==
    ASSUME RInv, RInv', CInv, Forward, NEW n \in Replicas, OpenPage(n)
    PROVE  CInv'
<1> DEFINE w == To(n, "apply")
<1>1. /\ w \in Worker /\ w.phase = "apply" /\ w.peer = peer(n) /\ w.into = worker[n].into
  <2>1. w \in Worker /\ w.phase = "apply" /\ w.peer = peer(n) /\ worker[n] \in Worker
    BY AtPeer DEF OpenPage, Phases
  <2> QED BY <2>1 DEF To, Worker
<1>2. /\ txn' = [txn EXCEPT ![n] = store[n]] /\ worker' = [worker EXCEPT ![n] = w]
      /\ UNCHANGED <<store, epoch, link, reply, serve, backup>> /\ worker[n].phase = "reply"
  BY DEF OpenPage, Goto
<1> HIDE DEF w
<1>3. Own(n) /\ worker'[n] = w BY <1>2, Alone
<1>4. txn'[n] = store[n] /\ store[n] \in Store BY <1>2 DEF RInv, TxnInv, Inv
<1>5. TxnSound(n)' BY <1>2, <1>4, GrowsSelf DEF TxnSound
<1>6. Fetched(reply[n], worker[n].into, store[n], epoch[peer(n)], store[peer(n)])
  BY <1>2 DEF CInv, PageSound
<1>7. PageSound(n)' BY <1>1, <1>2, <1>3, <1>4, <1>6 DEF PageSound, peer
<1>8. PushSound(n)' BY <1>1, <1>3 DEF PushSound
<1>9. \A q \in Replicas : LinkSound(n, q)' BY <1>2, LinkKept
<1> QED BY <1>3, <1>5, <1>7, <1>8, <1>9, OwnStep

\* An operation of the page in hand moves from the page to the copy.
LEMMA ApplyFetched ==
    ASSUME NEW page \in Page, page.ops # << >>, NEW into, NEW s, StoreOK(s), NEW e, NEW t,
           Fetched(page, into, s, e, t)
    PROVE  Fetched([page EXCEPT !.ops = Tail(@)], into, Receive(s, Head(page.ops)), e, t)
<1> DEFINE op == Head(page.ops)
           u == Receive(s, op)
           rest == [page EXCEPT !.ops = Tail(@)]
<1>1. page.ops \in Seq(Operation) /\ s \in Store BY DEF Page, StoreOK
<1>2. op \in Operation BY <1>1
<1>3. Entries(page.ops) = {op} \cup Entries(Tail(page.ops)) BY <1>1, HeadTailEntries
<1>4. rest.ops = Tail(page.ops) /\ rest.cursor = page.cursor BY DEF Page
<1> HIDE DEF op, rest
<1>5. StoreOK(u) BY <1>2, ReceiveOK
<1>6. op \in Entries(u.log) /\ op \in u.known
  <2>1. op \in Entries(u.log) BY <1>1, <1>2, ReceiveLogs
  <2> QED BY <1>5, <2>1, EntriesKnown
<1>7. Got(into, s) \subseteq Got(into, u)
  <2>1. Grows(s, u) /\ u \in Store BY <1>1, <1>2, <1>5, ReceiveGrows DEF StoreOK
  <2> QED BY <1>1, <2>1, GotKept
<1> HIDE DEF u
<1>8. Got(into, s) \cup Entries(page.ops) \subseteq Got(into, u) \cup Entries(rest.ops)
  BY <1>3, <1>4, <1>6, <1>7 DEF Got
<1>9. Fetched(rest, into, u, e, t) BY <1>4, <1>8 DEF Fetched, Within
<1> QED BY <1>9 DEF op, rest, u

\* ApplyOne takes one operation of the page, or gives the page up.
LEMMA ApplyOneSound ==
    ASSUME RInv, RInv', CInv, Forward, NEW n \in Replicas, ApplyOne(n)
    PROVE  CInv'
<1> DEFINE op == Head(reply[n].ops)
           t == Receive(txn[n], op)
           page == [reply[n] EXCEPT !.ops = Tail(@)]
<1>1. /\ UNCHANGED <<store, epoch, link, serve, backup>>
      /\ worker[n].phase = "apply" /\ reply[n].ops # << >>
  BY DEF ApplyOne
<1>2. CASE Stop(n)
  <2>1. Idle.phase = "idle" BY DEF Idle
  <2> QED BY <1>1, <1>2, <2>1, QuietStep DEF Stop
<1>3. CASE /\ txn' = [txn EXCEPT ![n] = t] /\ reply' = [reply EXCEPT ![n].ops = Tail(@)]
           /\ UNCHANGED worker
  <2>1. reply[n] \in Page /\ StoreOK(txn[n]) /\ txn[n] \in Store /\ store[n] \in Store
    BY DEF RInv, ReplyInv, TxnInv, Carried, Inv
  <2>2. op \in Operation BY <1>1, <2>1 DEF Page
  <2>3. reply' = [reply EXCEPT ![n] = page] BY <1>3 DEF RInv, ReplyInv
  <2>4. reply'[n] = page /\ txn'[n] = t BY <1>3, <2>3 DEF RInv, ReplyInv, TxnInv
  <2>5. Fetched(reply[n], worker[n].into, txn[n], epoch[peer(n)], store[peer(n)])
    BY <1>1 DEF CInv, PageSound
  <2>6. Fetched(page, worker[n].into, t, epoch[peer(n)], store[peer(n)])
    BY <1>1, <2>1, <2>5, ApplyFetched
  <2>7. Grows(store[n], t)
    <3>1. Grows(store[n], txn[n]) BY <1>1 DEF CInv, TxnSound
    <3>2. Grows(txn[n], t) /\ t \in Store BY <2>1, <2>2, ReceiveGrows, ReceiveOK DEF StoreOK
    <3> QED BY <2>1, <3>1, <3>2, GrowsThrough
  <2> HIDE DEF page, t
  <2>8. worker' = [worker EXCEPT ![n] = worker[n]] BY <1>3 DEF RInv, WorkerInv
  <2>9. Own(n) BY <1>1, <1>3, <2>3, <2>8, Alone
  <2>10. PageSound(n)' BY <1>1, <1>3, <2>4, <2>6 DEF PageSound, peer
  <2>11. TxnSound(n)' BY <1>1, <2>4, <2>7 DEF TxnSound
  <2>12. PushSound(n)' BY <1>1, <1>3 DEF PushSound
  <2>13. \A q \in Replicas : LinkSound(n, q)' BY <1>1, LinkKept
  <2> QED BY <2>9, <2>10, <2>11, <2>12, <2>13, OwnStep
<1> QED BY <1>2, <1>3 DEF ApplyOne

\* CommitPage moves the cursor in the transaction that keeps what it covers.
LEMMA CommitPageSound ==
    ASSUME RInv, RInv', CInv, Forward, NEW n \in Replicas, CommitPage(n)
    PROVE  CInv'
<1> DEFINE p == peer(n)
           into == worker[n].into
           l == IF into = "history" THEN [here(n) EXCEPT !.history = reply[n].cursor]
                ELSE [here(n) EXCEPT !.receive = reply[n].cursor]
           onward == [To(n, "history") EXCEPT !.pages = @ + 1]
           again == [To(n, "pull") EXCEPT !.pages = @ + 1]
           w == IF into = "history"
                THEN IF reply[n].more THEN onward ELSE To(n, "complete")
                ELSE IF reply[n].more /\ worker[n].pages + 1 < MaxPages THEN again ELSE Idle
<1>1. /\ worker[n].phase = "apply" /\ reply[n].ops = << >>
      /\ store' = [store EXCEPT ![n] = txn[n]]
      /\ reply' = [reply EXCEPT ![n] = NoPage] /\ txn' = [txn EXCEPT ![n] = EmptyStore]
      /\ link' = [link EXCEPT ![n][p] = l] /\ worker' = [worker EXCEPT ![n] = w]
      /\ UNCHANGED <<epoch, serve, backup>>
  BY DEF CommitPage, SetLink, Goto
<1>2. /\ p \in Replicas /\ here(n) \in Link /\ epoch'[p] = epoch[p] /\ epoch[p] \in Nat
      /\ Sound(here(n), store'[n], epoch[p], store'[p])
  BY <1>1, HereSound
<1>3. /\ store'[n] = txn[n] /\ into \in {"history", "receive"}
      /\ reply[n].cursor.epoch \in Int /\ reply[n].cursor.seq \in Nat
  BY <1>1 DEF RInv, Inv, WorkerInv, Worker, ReplyInv, Page, Cursor, NoCursor
<1>4. /\ reply[n].cursor.epoch <= epoch[p]
      /\ reply[n].cursor.epoch = epoch[p] =>
            Within(store'[p].log, reply[n].cursor.seq, Got(into, store'[n]))
  <2>1. Fetched(reply[n], into, txn[n], epoch[p], store[p])
    BY <1>1 DEF CInv, PageSound
  <2>2. Entries(reply[n].ops) = {} BY <1>1 DEF Entries
  <2>3. /\ store[p].log \in Seq(Operation) /\ store'[p].log \in Seq(Operation)
        /\ Continues(store[p].log, store'[p].log)
    BY <1>2 DEF RInv, Inv, Store, Forward, Grows
  <2>4. reply[n].cursor.epoch = epoch[p] =>
            Within(store[p].log, reply[n].cursor.seq, Got(into, txn[n]))
    BY <2>1, <2>2 DEF Fetched, Within
  <2>5. reply[n].cursor.epoch = epoch[p] =>
            Within(store'[p].log, reply[n].cursor.seq, Got(into, txn[n]))
    BY <1>3, <2>3, <2>4, WithinKept
  <2> QED BY <1>3, <2>1, <2>5 DEF Fetched
<1>5. Sound(l, store'[n], epoch'[p], store'[p])
  <2>1. CASE into = "history"
    <3>1. /\ l.identity = here(n).identity /\ l.send = here(n).send
          /\ l.receive = here(n).receive /\ l.history = reply[n].cursor
          /\ l.staged = here(n).staged
      BY <1>2, <2>1 DEF Link
    <3> HIDE DEF l, p, into
    <3> QED BY <1>2, <1>4, <2>1, <3>1 DEF Sound, Got
  <2>2. CASE into = "receive"
    <3>1. /\ l.identity = here(n).identity /\ l.send = here(n).send
          /\ l.receive = reply[n].cursor /\ l.history = here(n).history
          /\ l.staged = here(n).staged
      BY <1>2, <2>2 DEF Link
    <3> HIDE DEF l, p, into
    <3> QED BY <1>2, <1>4, <2>2, <3>1 DEF Sound, Got
  <2> QED BY <1>3, <2>1, <2>2
<1>6. w.phase \in {"history", "complete", "pull", "idle"}
  <2>1. \A phase \in Phases : To(n, phase) \in Worker /\ To(n, phase).phase = phase
    BY <1>1, AtPeer
  <2>2. {"history", "complete", "pull"} \subseteq Phases /\ Idle.phase = "idle"
    BY DEF Phases, Idle
  <2> HIDE DEF To
  <2>3. onward.phase = "history" /\ again.phase = "pull" BY <2>1, <2>2 DEF Worker
  <2> QED BY <2>1, <2>2, <2>3
<1> HIDE DEF l, p, w, into
<1> QED BY <1>1, <1>2, <1>5, <1>6, RecordStep

\* SetComplete moves no cursor.
LEMMA SetCompleteSound ==
    ASSUME RInv, RInv', CInv, Forward, NEW n \in Replicas, SetComplete(n)
    PROVE  CInv'
<1> DEFINE p == peer(n)
           l == [here(n) EXCEPT !.complete = TRUE]
           w == [To(n, "push") EXCEPT !.pages = 0]
<1>1. /\ p \in Replicas /\ here(n) \in Link /\ epoch'[p] = epoch[p] /\ epoch[p] \in Nat
      /\ Sound(here(n), store'[n], epoch[p], store'[p])
  BY HereSound DEF SetComplete
<1>2. /\ link' = [link EXCEPT ![n][p] = l] /\ worker' = [worker EXCEPT ![n] = w]
      /\ UNCHANGED <<store, epoch, reply, txn, serve, backup>>
  BY DEF SetComplete, SetLink, Goto
<1>3. Sound(l, store'[n], epoch'[p], store'[p])
  <2>1. /\ l.identity = here(n).identity /\ l.send = here(n).send
        /\ l.receive = here(n).receive /\ l.history = here(n).history
        /\ l.staged = here(n).staged
    BY <1>1 DEF Link
  <2> HIDE DEF l, p
  <2> QED BY <1>1, <2>1 DEF Sound
<1>4. w.phase = "push"
  <2>1. To(n, "push") \in Worker /\ To(n, "push").phase = "push"
    BY AtPeer DEF SetComplete, Phases
  <2> QED BY <2>1 DEF Worker
<1> HIDE DEF l, p, w
<1> QED BY <1>1, <1>2, <1>3, <1>4, RecordStep

-----------------------------------------------------------------------------
(* Pushes.                                                                 *)

\* RequestPush sends what is in the log after the send cursor, and nobody else's
\* push is replaced by it.
LEMMA RequestPushSound ==
    ASSUME RInv, RInv', CInv, Forward, NEW n \in Replicas, RequestPush(n)
    PROVE  CInv'
<1> DEFINE p == peer(n)
           a == here(n).send
           b == Reach(a, n)
           v == To(n, "pushing")
           w == [v EXCEPT !.upto = b]
           todo == SubSeq(store[n].log, a + 1, b)
           s == [client |-> n, ok |-> TRUE, todo |-> todo]
<1>1. /\ p \in Replicas /\ here(n) \in Link /\ here(n) = link[n][p] /\ a \in Nat
      /\ v \in Worker /\ v.phase = "pushing" /\ v.peer = p
  BY HereSound, AtPeer, LinkNumbers DEF RequestPush, Phases
<1>2. store[n].log \in Seq(Operation) /\ a < Len(store[n].log)
  BY DEF RequestPush, RInv, Inv, Store
<1>3. b \in Nat /\ b <= Len(store[n].log)
  BY <1>1, <1>2, ProtocolAssumption DEF Reach, ProtocolAssumption
<1>4. /\ serve' = [serve EXCEPT ![p] = s] /\ worker' = [worker EXCEPT ![n] = w]
      /\ UNCHANGED <<store, epoch, link, reply, txn, backup>> /\ serve[p] = NoServe
  BY DEF RequestPush, Goto, Unlocked
<1>5. ASSUME link[n][p].identity = epoch[p]
      PROVE  Within(store[n].log, b, Entries(store[p].log) \cup Entries(todo))
  <2> DEFINE log == store[n].log
  <2>1. Within(log, a, Entries(store[p].log))
    BY <1>1, <1>5 DEF CInv, LinkSound, Sound
  <2>2. \A i \in a + 1 .. b : log[i] \in Entries(todo)
    <3> HIDE DEF a, b
    <3> QED BY <1>1, <1>2, <1>3, StretchEntries
  <2> HIDE DEF a, b, todo
  <2> QED BY <1>1, <1>3, <2>1, <2>2 DEF Within
<1> HIDE DEF v, b, todo, p
<1>6. w.phase = "pushing" /\ w.peer = p /\ w.upto = b BY <1>1, <1>3 DEF Worker
<1> HIDE DEF w
<1>7. worker'[n] = w /\ serve'[p] = s BY <1>1, <1>4 DEF RInv, WorkerInv, ServeInv
<1>8. Own(n)
  <2>1. ASSUME NEW m \in Replicas \ {n}
        PROVE  worker'[m] = worker[m] /\ (worker[m].phase = "pushing" => worker[m].peer # p)
    <3>1. worker'[m] = worker[m] BY <1>4 DEF RInv, WorkerInv
    <3>2. worker[m].phase = "pushing" => serve[worker[m].peer].client = m
      BY DEF CInv, PushSound, peer
    <3>3. NoServe.client # m BY OrderAssumption DEF NoServe, OrderAssumption
    <3> QED BY <1>4, <3>1, <3>2, <3>3
  <2>2. \A q : q # p => serve'[q] = serve[q]
    BY <1>4 DEF RInv, ServeInv
  <2> QED BY <1>4, <2>1, <2>2 DEF Own
<1>9. PushSound(n)' BY <1>1, <1>4, <1>5, <1>6, <1>7 DEF PushSound, peer, here
<1>10. PageSound(n)' /\ TxnSound(n)' BY <1>6, <1>7 DEF PageSound, TxnSound
<1>11. \A q \in Replicas : LinkSound(n, q)' BY <1>4, LinkKept
<1> QED BY <1>8, <1>9, <1>10, <1>11, OwnStep

\* AckPush moves the send cursor over what the peer has in its log.
LEMMA AckPushSound ==
    ASSUME RInv, RInv', CInv, Forward, NEW n \in Replicas, AckPush(n)
    PROVE  CInv'
<1> DEFINE p == peer(n)
           l == [here(n) EXCEPT !.send = Acked(n)]
           w == [To(n, "push") EXCEPT !.pages = @ + 1, !.upto = 0]
<1>1. /\ p \in Replicas /\ here(n) \in Link /\ epoch'[p] = epoch[p] /\ epoch[p] \in Nat
      /\ Sound(here(n), store'[n], epoch[p], store'[p])
  BY HereSound DEF AckPush
<1>2. /\ link' = [link EXCEPT ![n][p] = l] /\ worker' = [worker EXCEPT ![n] = w]
      /\ UNCHANGED <<store, epoch, reply, txn, serve, backup>> /\ worker[n].phase = "acking"
  BY DEF AckPush, SetLink, Goto
<1>3. here(n).identity = epoch[p] => Within(store[n].log, Acked(n), Entries(store[p].log))
  BY <1>2 DEF CInv, PushSound, Acked
<1>4. Sound(l, store'[n], epoch'[p], store'[p])
  <2>1. /\ l.identity = here(n).identity /\ l.send = Acked(n)
        /\ l.receive = here(n).receive /\ l.history = here(n).history
        /\ l.staged = here(n).staged
    BY <1>1 DEF Link
  <2> HIDE DEF l, p
  <2> QED BY <1>1, <1>2, <1>3, <2>1 DEF Sound
<1>5. w.phase = "push"
  <2>1. To(n, "push") \in Worker /\ To(n, "push").phase = "push"
    BY AtPeer DEF AckPush, Phases
  <2> HIDE DEF To
  <2> QED BY <2>1 DEF Worker
<1> HIDE DEF l, p, w
<1> QED BY <1>1, <1>2, <1>4, <1>5, RecordStep

\* A step of a server p that leaves the workers and their links alone.
LEMMA ServerStep ==
    ASSUME RInv, RInv', CInv, Forward, NEW p \in Replicas,
           UNCHANGED <<worker, link, reply, txn, backup>>,
           \A m \in Replicas : m # p => store'[m] = store[m] /\ serve'[m] = serve[m],
           store' = store \/ serve[p] # NoServe,
           \A n \in Replicas :
              worker[n].phase = "pushing" /\ worker[n].peer = p => PushSound(n)'
    PROVE  CInv'
<1> SUFFICES ASSUME NEW n \in Replicas
             PROVE  /\ PageSound(n)' /\ TxnSound(n)' /\ PushSound(n)'
                    /\ \A q \in Replicas : LinkSound(n, q)' /\ BackupSound(n, q)'
  BY DEF CInv
<1>1. PageSound(n)' BY PageKept
<1>2. TxnSound(n)'
  <2>1. worker[n].phase = "apply" => store'[n] = store[n] BY DEF RInv, LockInv
  <2> QED BY <2>1, TxnKept
<1>3. PushSound(n)'
  <2>1. CASE worker[n].phase = "pushing" /\ worker[n].peer = p BY <2>1
  <2>2. CASE ~(worker[n].phase = "pushing" /\ worker[n].peer = p)
    <3>1. worker[n].phase = "pushing" => worker[n].peer \in Replicas BY DEF RInv, WorkerInv
    <3> QED BY <2>2, <3>1, PushKept
  <2> QED BY <2>1, <2>2
<1>4. \A q \in Replicas : LinkSound(n, q)' /\ BackupSound(n, q)' BY LinkKept, BackupKept
<1> QED BY <1>1, <1>2, <1>3, <1>4

\* An operation that is not refused is in the log after it was served.
LEMMA ServeOneSound ==
    ASSUME RInv, RInv', CInv, Forward, NEW p \in Replicas, ServeOne(p)
    PROVE  CInv'
<1> DEFINE op == Head(serve[p].todo)
           s == [serve[p] EXCEPT !.todo = Tail(@), !.ok = @ /\ Persisted(p, op)]
<1>1. /\ serve[p] \in Serve /\ serve[p].todo # << >> /\ serve[p] # NoServe
      /\ store[p] \in Store /\ serve[p].todo \in Seq(Operation)
  BY DEF ServeOne, RInv, ServeInv, Inv, Serve
<1>2. op \in Operation BY <1>1
<1>3. /\ store' = IF Rejected(store[p], op) THEN store
                  ELSE [store EXCEPT ![p] = Receive(store[p], op)]
      /\ UNCHANGED <<epoch, link, worker, reply, txn, backup>>
  BY DEF ServeOne
<1>4. serve' = [serve EXCEPT ![p] = s] BY DEF ServeOne, RInv, ServeInv
<1>5. s.client = serve[p].client /\ s.todo = Tail(serve[p].todo)
      /\ (s.ok => serve[p].ok /\ Persisted(p, op))
  <2>1. (serve[p].ok /\ Persisted(p, op)) \in BOOLEAN OBVIOUS
  <2> HIDE DEF op
  <2> QED BY <1>1, <2>1 DEF Serve
<1>6. Entries(serve[p].todo) = {op} \cup Entries(Tail(serve[p].todo))
  BY <1>1, HeadTailEntries
<1> HIDE DEF op, s
<1>7. s.ok => op \in Entries(store'[p].log)
  <2>1. s.ok => store'[p] = Receive(store[p], op)
    BY <1>3, <1>5 DEF Persisted, RInv, Inv
  <2> QED BY <1>1, <1>2, <2>1, ReceiveLogs
<1>8. ASSUME NEW n \in Replicas, worker[n].phase = "pushing", worker[n].peer = p
      PROVE  PushSound(n)'
  <2>1. /\ serve[p].client = n
        /\ link[n][p].identity = epoch[p] /\ serve[p].ok =>
              Within(store[n].log, worker[n].upto,
                     Entries(store[p].log) \cup Entries(serve[p].todo))
    BY <1>8 DEF CInv, PushSound, peer, here
  <2>2. /\ store[n].log \in Seq(Operation) /\ store'[n].log \in Seq(Operation)
        /\ store[p].log \in Seq(Operation) /\ store'[p].log \in Seq(Operation)
        /\ Continues(store[n].log, store'[n].log) /\ Continues(store[p].log, store'[p].log)
        /\ worker[n].upto \in Nat
    BY DEF RInv, Inv, Store, Forward, Grows, WorkerInv, Worker
  <2>3. Entries(store[p].log) \subseteq Entries(store'[p].log) BY <2>2, EntriesKept
  <2>4. s.ok => Entries(store[p].log) \cup Entries(serve[p].todo)
                   \subseteq Entries(store'[p].log) \cup Entries(s.todo)
    BY <1>5, <1>6, <1>7, <2>3
  <2>5. link[n][p].identity = epoch[p] /\ s.ok =>
           Within(store'[n].log, worker[n].upto, Entries(store'[p].log) \cup Entries(s.todo))
    BY <1>5, <2>1, <2>2, <2>4, WithinKept
  <2>6. serve'[p] = s BY <1>4 DEF RInv, ServeInv
  <2> QED BY <1>3, <1>5, <1>8, <2>1, <2>5, <2>6 DEF PushSound, peer, here
<1>9. \A m \in Replicas : m # p => store'[m] = store[m] /\ serve'[m] = serve[m]
  BY <1>3, <1>4 DEF RInv, Inv, ServeInv
<1> QED BY <1>1, <1>3, <1>8, <1>9, ServerStep

\* Who is told that all was persisted finds all of it in the peer's log.
LEMMA ServeDoneSound ==
    ASSUME RInv, RInv', CInv, Forward, NEW p \in Replicas, ServeDone(p)
    PROVE  CInv'
<1>1. PICK n \in Replicas : n = serve[p].client BY DEF ServeDone, RInv, ServeInv
<1> DEFINE w == IF serve[p].ok THEN To(n, "acking") ELSE Idle
<1>2. /\ serve' = [serve EXCEPT ![p] = NoServe]
      /\ UNCHANGED <<store, epoch, link, reply, txn, backup>>
  BY DEF ServeDone
<1>3. \A m \in Replicas : m # p => serve'[m] = serve[m] BY <1>2 DEF RInv, ServeInv
<1>4. \A m \in Replicas : worker[m].phase = "pushing" /\ worker[m].peer = p => n = m
  BY <1>1 DEF CInv, PushSound, peer
<1>5. CASE ~(worker[n].phase = "pushing" /\ peer(n) = p)
  <2>1. worker' = worker BY <1>1, <1>5 DEF ServeDone
  <2> QED BY <1>2, <1>3, <1>4, <1>5, <2>1, ServerStep DEF peer
<1>6. CASE worker[n].phase = "pushing" /\ peer(n) = p
  <2>1. worker' = [worker EXCEPT ![n] = w] BY <1>1, <1>6 DEF ServeDone, Goto
  <2>2. /\ To(n, "acking").phase = "acking" /\ To(n, "acking").peer = p
        /\ To(n, "acking").upto = worker[n].upto
    <3>1. /\ To(n, "acking").phase = "acking" /\ To(n, "acking").peer = p
          /\ worker[n] \in Worker
      BY <1>6, AtPeer DEF Phases, RInv, WorkerInv
    <3> QED BY <3>1 DEF To, Worker
  <2>3. link[n][p].identity = epoch[p] /\ serve[p].ok =>
           Within(store[n].log, worker[n].upto, Entries(store[p].log))
    <3>1. link[n][p].identity = epoch[p] /\ serve[p].ok =>
             Within(store[n].log, worker[n].upto,
                    Entries(store[p].log) \cup Entries(serve[p].todo))
      BY <1>6 DEF CInv, PushSound, peer, here
    <3>2. Entries(serve[p].todo) = {} BY DEF ServeDone, Entries
    <3> QED BY <3>1, <3>2 DEF Within
  <2>4. Idle.phase = "idle" BY DEF Idle
  <2>5. \/ serve[p].ok /\ w.phase = "acking" /\ w.peer = p /\ w.upto = worker[n].upto
        \/ w.phase = "idle"
    BY <2>2, <2>4
  <2> HIDE DEF w
  <2>6. worker'[n] = w /\ \A m \in Replicas \ {n} : worker'[m] = worker[m]
    BY <2>1 DEF RInv, WorkerInv
  <2>7. Own(n)
    <3>1. \A m \in Replicas \ {n} :
             worker[m].phase = "pushing" => serve'[worker[m].peer] = serve[worker[m].peer]
      BY <1>3, <1>4 DEF RInv, WorkerInv
    <3> QED BY <1>2, <2>6, <3>1 DEF Own
  <2>8. PushSound(n)' BY <1>2, <2>3, <2>5, <2>6 DEF PushSound, peer, here
  <2>9. PageSound(n)' /\ TxnSound(n)' BY <2>5, <2>6 DEF PageSound, TxnSound
  <2>10. \A q \in Replicas : LinkSound(n, q)' BY <1>2, LinkKept
  <2> QED BY <2>7, <2>8, <2>9, <2>10, OwnStep
<1> QED BY <1>5, <1>6

-----------------------------------------------------------------------------
(* What goes wrong, and commands.                                          *)

\* A crash takes what was in hand with it, and the push of a client that waits.
LEMMA CrashSound ==
    ASSUME RInv, RInv', CInv, Forward, NEW n \in Replicas, Crash(n)
    PROVE  CInv'
<1>1. /\ worker' = Disconnected(n) /\ serve' = [serve EXCEPT ![n] = NoServe]
      /\ reply' = [reply EXCEPT ![n] = NoPage] /\ txn' = [txn EXCEPT ![n] = EmptyStore]
      /\ UNCHANGED <<store, epoch, link, backup>>
  BY DEF Crash
<1> SUFFICES ASSUME NEW m \in Replicas
             PROVE  /\ PageSound(m)' /\ TxnSound(m)' /\ PushSound(m)'
                    /\ \A q \in Replicas : LinkSound(m, q)' /\ BackupSound(m, q)'
  BY DEF CInv
<1>2. \A q \in Replicas : LinkSound(m, q)' /\ BackupSound(m, q)'
  BY <1>1, LinkKept, BackupKept
<1>3. CASE worker'[m] = Idle
  <2>1. Idle.phase = "idle" BY DEF Idle
  <2> QED BY <1>2, <1>3, <2>1, Unhanded
<1>4. CASE worker'[m] # Idle
  <2>1. /\ m # n /\ worker'[m] = worker[m]
        /\ ~(worker[m].phase = "pushing" /\ worker[m].peer = n)
    BY <1>1, <1>4 DEF Disconnected
  <2>2. reply'[m] = reply[m] /\ txn'[m] = txn[m]
    BY <1>1, <2>1 DEF RInv, ReplyInv, TxnInv
  <2>3. worker[m].phase = "pushing" => serve'[worker[m].peer] = serve[worker[m].peer]
    BY <1>1, <2>1 DEF RInv, ServeInv, WorkerInv
  <2> QED BY <1>1, <1>2, <2>1, <2>2, <2>3, PageKept, TxnKept, PushKept
<1> QED BY <1>3, <1>4

\* A backup contains the links with the store they are right for.
LEMMA TakeBackupSound ==
    ASSUME RInv, RInv', CInv, Forward, NEW n \in Replicas, TakeBackup(n)
    PROVE  CInv'
<1> DEFINE b == [store |-> store[n], link |-> link[n], taken |-> TRUE]
<1>1. /\ backup' = [backup EXCEPT ![n] = b]
      /\ UNCHANGED <<store, epoch, link, worker, reply, txn, serve>>
  BY DEF TakeBackup
<1> SUFFICES ASSUME NEW m \in Replicas
             PROVE  /\ PageSound(m)' /\ TxnSound(m)' /\ PushSound(m)'
                    /\ \A q \in Replicas : LinkSound(m, q)' /\ BackupSound(m, q)'
  BY DEF CInv
<1>2. \A q \in Replicas : LinkSound(m, q)' BY <1>1, LinkKept
<1>3. PageSound(m)' /\ TxnSound(m)' /\ PushSound(m)'
  BY <1>1, PageKept, TxnKept, PushKept
<1>4. ASSUME NEW q \in Replicas PROVE BackupSound(m, q)'
  <2>1. CASE m = n
    <3>1. backup'[n] = b BY <1>1 DEF RInv, BackupInv
    <3>2. Sound(link[n][q], store[n], epoch[q], store[q]) BY DEF CInv, LinkSound
    <3> QED BY <1>1, <2>1, <3>1, <3>2 DEF BackupSound
  <2>2. CASE m # n
    <3>1. backup'[m] = backup[m] BY <1>1, <2>2 DEF RInv, BackupInv
    <3> QED BY <3>1, BackupKept
  <2> QED BY <2>1, <2>2
<1> QED BY <1>2, <1>3, <1>4

\* A restore starts a new generation of n: what others recorded of n counts no
\* more, and what n has recorded of others is from when the backup was taken.
LEMMA RestoreBackupSound ==
    ASSUME RInv, RInv', CInv, NEW n \in Replicas, RestoreBackup(n)
    PROVE  CInv'
<1> DEFINE fresh(p) == [backup[n].link[p] EXCEPT !.receive = NoCursor, !.staged = NoSnapshot]
<1>1. /\ store' = [store EXCEPT ![n] = backup[n].store]
      /\ epoch' = [epoch EXCEPT ![n] = epoch[n] + 1]
      /\ link' = [link EXCEPT ![n] = [p \in Replicas |-> fresh(p)]]
      /\ worker' = Disconnected(n) /\ serve' = [serve EXCEPT ![n] = NoServe]
      /\ reply' = [reply EXCEPT ![n] = NoPage] /\ txn' = [txn EXCEPT ![n] = EmptyStore]
      /\ backup' = backup
  BY DEF RestoreBackup, NextGeneration
<1>2. /\ store'[n] = backup[n].store /\ epoch'[n] = epoch[n] + 1
      /\ \A p \in Replicas : link'[n][p] = fresh(p)
      /\ \A m \in Replicas \ {n} :
            /\ store'[m] = store[m] /\ epoch'[m] = epoch[m] /\ link'[m] = link[m]
            /\ reply'[m] = reply[m] /\ txn'[m] = txn[m] /\ serve'[m] = serve[m]
  <2>1. \A m \in Replicas : store'[m] = IF m = n THEN backup[n].store ELSE store[m]
    BY <1>1 DEF RInv, Inv
  <2>2. \A m \in Replicas : epoch'[m] = IF m = n THEN epoch[n] + 1 ELSE epoch[m]
    BY <1>1 DEF RInv, CountInv
  <2>3. \A m \in Replicas : link'[m] = IF m = n THEN [p \in Replicas |-> fresh(p)] ELSE link[m]
    BY <1>1 DEF RInv, LinkInv
  <2>4. \A m \in Replicas \ {n} : reply'[m] = reply[m] /\ txn'[m] = txn[m] /\ serve'[m] = serve[m]
    BY <1>1 DEF RInv, ReplyInv, TxnInv, ServeInv
  <2> HIDE DEF fresh
  <2> QED BY <2>1, <2>2, <2>3, <2>4
<1>3. \A p \in Replicas : epoch[p] \in Nat /\ store[p] \in Store
  BY DEF RInv, CountInv, Inv
<1>4. ASSUME NEW p \in Replicas
      PROVE  /\ backup[n].link[p] \in Link
             /\ fresh(p).identity = backup[n].link[p].identity
             /\ fresh(p).send = backup[n].link[p].send
             /\ fresh(p).receive.epoch = -1
             /\ fresh(p).history = backup[n].link[p].history
             /\ fresh(p).staged.cursor.epoch = -1
  <2>1. backup[n].link[p] \in Link BY DEF RInv, BackupInv, Backup
  <2> QED BY <2>1 DEF Link, NoCursor, NoSnapshot
<1> HIDE DEF fresh
<1>5. ASSUME NEW p \in Replicas PROVE LinkSound(n, p)'
  <2>1. Sound(backup[n].link[p], backup[n].store, epoch[p], store[p])
    BY DEF CInv, BackupSound
  <2>2. Sound(backup[n].link[p], backup[n].store, epoch'[p], store'[p])
    <3>1. CASE p = n BY <1>2, <1>3, <1>4, <2>1, <3>1, SoundLater
    <3>2. CASE p # n BY <1>2, <2>1, <3>2
    <3> QED BY <3>1, <3>2
  <2>3. epoch'[p] \in Nat BY <1>2, <1>3
  <2>4. Sound(fresh(p), backup[n].store, epoch'[p], store'[p])
    BY <1>4, <2>2, <2>3 DEF Sound
  <2> QED BY <1>2, <2>4 DEF LinkSound
<1>6. ASSUME NEW m \in Replicas, NEW p \in Replicas, m # n PROVE LinkSound(m, p)'
  <2>1. Sound(link[m][p], store[m], epoch[p], store[p]) /\ link[m][p] \in Link
    BY DEF CInv, LinkSound, RInv, LinkInv
  <2>2. CASE p = n
    <3>1. Sound(link[m][p], store[m], epoch[p] + 1, store'[p])
      BY <1>3, <2>1, SoundLater
    <3> QED BY <1>2, <1>6, <2>2, <3>1 DEF LinkSound
  <2>3. CASE p # n BY <1>2, <1>6, <2>1, <2>3 DEF LinkSound
  <2> QED BY <2>2, <2>3
<1>7. ASSUME NEW m \in Replicas, NEW p \in Replicas PROVE BackupSound(m, p)'
  <2>1. /\ Sound(backup[m].link[p], backup[m].store, epoch[p], store[p])
        /\ backup[m].link[p] \in Link
    BY DEF CInv, BackupSound, RInv, BackupInv, Backup
  <2>2. CASE p = n
    <3>1. Sound(backup[m].link[p], backup[m].store, epoch[p] + 1, store'[p])
      BY <1>3, <2>1, SoundLater
    <3> QED BY <1>1, <1>2, <2>2, <3>1 DEF BackupSound
  <2>3. CASE p # n BY <1>1, <1>2, <2>1, <2>3 DEF BackupSound
  <2> QED BY <2>2, <2>3
<1>8. ASSUME NEW m \in Replicas PROVE PageSound(m)' /\ TxnSound(m)' /\ PushSound(m)'
  <2>1. CASE worker'[m] = Idle
    <3>1. Idle.phase = "idle" BY DEF Idle
    <3> QED BY <2>1, <3>1, Unhanded
  <2>2. CASE worker'[m] # Idle
    <3> DEFINE p == worker[m].peer
    <3>1. /\ m # n /\ worker'[m] = worker[m] /\ ~(worker[m].phase = "pushing" /\ p = n)
      BY <1>1, <2>2 DEF Disconnected
    <3>2. /\ store'[m] = store[m] /\ link'[m] = link[m] /\ reply'[m] = reply[m]
          /\ txn'[m] = txn[m]
      BY <1>2, <3>1
    <3>3. worker[m].phase # "idle" => p \in Replicas BY DEF RInv, WorkerInv
    <3>4. TxnSound(m)' BY <3>1, <3>2 DEF CInv, TxnSound
    <3>5. CASE p = n
      <4>1. reply[m] \in Page /\ link[m][n] \in Link BY DEF RInv, ReplyInv, LinkInv
      <4>2. \A into, s : Fetched(reply[m], into, s, epoch[n], store[n])
                            => Fetched(reply[m], into, s, epoch[n] + 1, store'[n])
        BY <1>3, <4>1, FetchedLater
      <4>3. PageSound(m)'
        BY <1>2, <3>1, <3>2, <3>5, <4>2 DEF CInv, PageSound, peer
      <4>4. link[m][n].identity # epoch[n] + 1
        <5>1. link[m][n].identity <= epoch[n] BY DEF CInv, LinkSound, Sound
        <5> QED BY <1>3, <4>1, <5>1, LinkNumbers
      <4>5. PushSound(m)' BY <1>2, <3>1, <3>2, <3>5, <4>4 DEF PushSound, peer, here
      <4> QED BY <3>4, <4>3, <4>5
    <3>6. CASE p # n
      <4>1. PageSound(m)'
        BY <1>2, <3>1, <3>2, <3>3, <3>6 DEF CInv, PageSound, peer
      <4>2. PushSound(m)'
        BY <1>2, <3>1, <3>2, <3>3, <3>6 DEF CInv, PushSound, peer, here
      <4> QED BY <3>4, <4>1, <4>2
    <3> QED BY <3>5, <3>6
  <2> QED BY <2>1, <2>2
<1> QED BY <1>5, <1>6, <1>7, <1>8 DEF CInv

\* A command adds to the end of a log that nobody has a copy of in hand.
LEMMA CommandSound ==
    ASSUME RInv, RInv', CInv, Forward, NEW n \in Replicas, Command(n), Unlocked(n),
           UNCHANGED protocol
    PROVE  CInv'
<1>1. UNCHANGED <<epoch, link, worker, reply, txn, serve, backup>> BY DEF protocol
<1>2. PICK id \in FreshIds, batch \in Seq(Operation), c \in Nat : Commit(n, batch, c)
  BY CommandIssues DEF RInv
<1>3. \A m \in Replicas : m # n => store'[m] = store[m] BY <1>2 DEF Commit, RInv, Inv
<1>4. ASSUME NEW m \in Replicas
      PROVE  /\ PageSound(m)' /\ TxnSound(m)' /\ PushSound(m)'
             /\ \A q \in Replicas : LinkSound(m, q)' /\ BackupSound(m, q)'
  <2>1. worker[m].phase = "apply" => store'[m] = store[m] BY <1>3 DEF Unlocked
  <2> QED BY <1>1, <2>1, PageKept, TxnKept, PushKept, LinkKept, BackupKept
<1> QED BY <1>4 DEF CInv

-----------------------------------------------------------------------------
(* All steps together.                                                     *)

\* Nothing is recorded, in hand or in a backup at the beginning.
LEMMA CursorInit == Init => CInv
<1> SUFFICES ASSUME Init, NEW n \in Replicas
             PROVE  /\ PageSound(n) /\ TxnSound(n) /\ PushSound(n)
                    /\ \A p \in Replicas : LinkSound(n, p) /\ BackupSound(n, p)
  BY DEF CInv
<1>1. worker[n].phase = "idle" BY DEF Init, Idle
<1>2. ASSUME NEW p \in Replicas PROVE LinkSound(n, p) /\ BackupSound(n, p)
  <2>1. /\ link[n][p] = NewLink(-1) /\ epoch[p] = 0
        /\ store[n] = EmptyStore /\ store[p] = EmptyStore
        /\ backup[n].link[p] = NewLink(-1) /\ backup[n].store = EmptyStore
    BY DEF Init, StoreInit, NoBackup
  <2>2. Sound(NewLink(-1), EmptyStore, 0, EmptyStore) BY Nothings, NewLinkSound
  <2> QED BY <2>1, <2>2 DEF LinkSound, BackupSound
<1> QED BY <1>1, <1>2 DEF PageSound, TxnSound, PushSound

\* The invariant of the cursors is inductive.
LEMMA CursorNext == RInv /\ RInv' /\ CInv /\ [Next]_vars => CInv'
<1> SUFFICES ASSUME RInv, RInv', CInv, [Next]_vars PROVE CInv' OBVIOUS
<1>1. ASSUME NEW n \in Replicas, RestoreBackup(n) PROVE CInv'
  BY <1>1, RestoreBackupSound
<1>2. CASE Forward
  <2>1. CASE UNCHANGED vars
    <3>1. UNCHANGED <<store, epoch, link, worker, reply, txn, serve, backup>>
      BY <2>1 DEF vars, protocol
    <3>2. ASSUME NEW n \in Replicas
          PROVE  /\ PageSound(n)' /\ TxnSound(n)' /\ PushSound(n)'
                 /\ \A p \in Replicas : LinkSound(n, p)' /\ BackupSound(n, p)'
      BY <1>2, <3>1, PageKept, TxnKept, PushKept, LinkKept, BackupKept
    <3> QED BY <3>2 DEF CInv
  <2>2. ASSUME NEW n \in Replicas, Command(n), Unlocked(n), UNCHANGED protocol PROVE CInv'
    BY <1>2, <2>2, CommandSound
  <2>3. ASSUME NEW n \in Replicas, NEW p \in Peers[n], BeginTick(n, p) PROVE CInv'
    BY <1>2, <2>3, BeginTickSound
  <2>4. ASSUME NEW n \in Replicas, WorkerStep(n) PROVE CInv'
    BY <1>2, <2>4, QuietActions, RequestSnapshotSound, FinishSnapshotSound, RequestSound,
       RequestPushSound, AckPushSound, OpenPageSound, ApplyOneSound, CommitPageSound,
       SetCompleteSound DEF WorkerStep
  <2>5. ASSUME NEW n \in Replicas, ServeStep(n) PROVE CInv'
    BY <1>2, <2>5, ServeOneSound, ServeDoneSound DEF ServeStep
  <2>6. ASSUME NEW n \in Replicas, Disturbance(n) PROVE CInv'
    BY <1>1, <1>2, <2>6, ExpireSnapshotSound, QuietActions, CrashSound, TakeBackupSound
       DEF Disturbance
  <2> QED BY <2>1, <2>2, <2>3, <2>4, <2>5, <2>6 DEF Next
<1> QED BY <1>1, <1>2, StepForward

\* No cursor of a node, of its backup or on its way ever passes an operation
\* that is missing.
THEOREM CursorInvariance == Spec => [](RInv /\ CInv)
<1>1. Init => RInv /\ CInv BY RInitInv, CursorInit
<1>2. (RInv /\ CInv) /\ [Next]_vars => (RInv /\ CInv)' BY RNextInv, CursorNext
<1> QED BY <1>1, <1>2, PTL DEF Spec

-----------------------------------------------------------------------------
(* The properties of Replication.                                          *)

\* A log holds exactly its entries.
LEMMA LoggedEntries ==
    ASSUME NEW s, NEW op, op \in Entries(s.log)
    PROVE  Logged(s, op)
BY DEF Entries, Logged

\* The positions before a cursor are among its first ones.
LEMMA PositionsWithin ==
    ASSUME RInv, NEW p \in Replicas, NEW seq \in Nat, NEW ops, Within(store[p].log, seq, ops)
    PROVE  seq <= Len(store[p].log) /\ \A i \in Positions(p, seq) : store[p].log[i] \in ops
<1>1. Len(store[p].log) \in Nat BY DEF RInv, Inv, Store
<1> QED BY <1>1 DEF Within, Positions

\* Whatever receipts are lost, whoever crashes or goes back to a backup, what a
\* node considers sent is in the log of the generation it was sent to.
THEOREM SendCursor == Spec => []SendDelivered
<1>1. ASSUME RInv, CInv PROVE SendDelivered
  <2> SUFFICES ASSUME NEW n \in Replicas, NEW p \in Peers[n], link[n][p].identity = epoch[p]
               PROVE  /\ link[n][p].send <= Len(store[n].log)
                      /\ \A i \in Positions(n, link[n][p].send) :
                            Logged(store[p], store[n].log[i])
    BY DEF SendDelivered
  <2>1. p \in Replicas BY ProtocolAssumption DEF ProtocolAssumption
  <2>2. Within(store[n].log, link[n][p].send, Entries(store[p].log))
    BY <1>1, <2>1 DEF CInv, LinkSound, Sound
  <2>3. link[n][p].send \in Nat BY <1>1, <2>1, LinkNumbers DEF RInv, LinkInv
  <2> QED BY <1>1, <2>2, <2>3, PositionsWithin, LoggedEntries
<1> QED BY <1>1, CursorInvariance, PTL

\* A receive cursor never passes an operation whose effect is missing, whether a
\* page moved it or a snapshot taken while the peer went on changing.
THEOREM ReceiveCursor == Spec => []ReceiveAbsorbed
<1>1. ASSUME RInv, CInv PROVE ReceiveAbsorbed
  <2> SUFFICES ASSUME NEW n \in Replicas, NEW p \in Peers[n],
                      link[n][p].receive.epoch = epoch[p]
               PROVE  /\ link[n][p].receive.seq <= Len(store[p].log)
                      /\ \A i \in Positions(p, link[n][p].receive.seq) :
                            store[p].log[i] \in store[n].known
    BY DEF ReceiveAbsorbed
  <2>1. p \in Replicas BY ProtocolAssumption DEF ProtocolAssumption
  <2>2. Within(store[p].log, link[n][p].receive.seq, store[n].known)
    BY <1>1, <2>1 DEF CInv, LinkSound, Sound
  <2>3. link[n][p].receive.seq \in Nat BY <1>1, <2>1, LinkNumbers DEF RInv, LinkInv
  <2> QED BY <1>1, <2>1, <2>2, <2>3, PositionsWithin
<1> QED BY <1>1, CursorInvariance, PTL

\* A history cursor never passes an operation missing from the log, after a
\* restore as well, which keeps it.
THEOREM HistoryCursor == Spec => []HistoryLogged
<1>1. ASSUME RInv, CInv PROVE HistoryLogged
  <2> SUFFICES ASSUME NEW n \in Replicas, NEW p \in Peers[n],
                      link[n][p].history.epoch = epoch[p]
               PROVE  \A i \in Positions(p, link[n][p].history.seq) :
                         Logged(store[n], store[p].log[i])
    BY DEF HistoryLogged
  <2>1. p \in Replicas BY ProtocolAssumption DEF ProtocolAssumption
  <2>2. Within(store[p].log, link[n][p].history.seq, Entries(store[n].log))
    BY <1>1, <2>1 DEF CInv, LinkSound, Sound
  <2>3. link[n][p].history.seq \in Nat BY <1>1, <2>1, LinkNumbers DEF RInv, LinkInv
  <2> QED BY <1>1, <2>1, <2>2, <2>3, PositionsWithin, LoggedEntries
<1> QED BY <1>1, CursorInvariance, PTL

\* A log that is continued begins with what it was.
LEMMA ContinuesPrefix ==
    ASSUME NEW log \in Seq(Operation), NEW longer \in Seq(Operation), Continues(log, longer)
    PROVE  Len(log) <= Len(longer) /\ SubSeq(longer, 1, Len(log)) = log
<1> DEFINE part == SubSeq(longer, 1, Len(log))
<1>1. Len(log) \in Nat /\ Len(longer) \in Nat /\ Len(log) <= Len(longer)
  BY DEF Continues
<1>2. /\ part \in Seq(Operation) /\ Len(part) = Len(log)
      /\ \A i \in 1 .. Len(log) : part[i] = longer[i]
  BY <1>1
<1>3. \A i \in 1 .. Len(log) : longer[i] = log[i] BY DEF Continues
<1> HIDE DEF part
<1>4. part = log BY <1>2, <1>3
<1> QED BY <1>1, <1>4 DEF part

\* Only a restore, which starts a new generation, takes a node back.
THEOREM OnlyRestores == Spec => OnlyRestoresGoBack
<1> DEFINE Goes == \A n \in Replicas : epoch'[n] = epoch[n] =>
          /\ Len(store[n].log) <= Len(store'[n].log)
          /\ SubSeq(store'[n].log, 1, Len(store[n].log)) = store[n].log
          /\ \A e \in Entities :
                /\ store[n].entities[e].deleted => store'[n].entities[e].deleted
                /\ \A k \in Keys : ~Before(store'[n].entities[e].fields[k].version,
                                            store[n].entities[e].fields[k].version)
<1>1. ASSUME RInv, RInv', CInv, [Next]_vars PROVE Goes
  <2>1. ASSUME NEW n \in Replicas, epoch'[n] = epoch[n] PROVE Grows(store[n], store'[n])
    <3>1. CASE Forward BY <3>1 DEF Forward
    <3>2. ASSUME NEW m \in Replicas, RestoreBackup(m) PROVE Grows(store[n], store'[n])
      <4>1. epoch' = [epoch EXCEPT ![m] = epoch[m] + 1]
            /\ store' = [store EXCEPT ![m] = backup[m].store]
        BY <3>2 DEF RestoreBackup, NextGeneration
      <4>2. n # m BY <1>1, <2>1, <4>1 DEF RInv, CountInv
      <4>3. store'[n] = store[n] /\ store[n] \in Store BY <1>1, <4>1, <4>2 DEF RInv, Inv
      <4> QED BY <4>3, GrowsSelf
    <3> QED BY <1>1, <3>1, <3>2, StepForward
  <2>2. ASSUME NEW n \in Replicas, Grows(store[n], store'[n])
        PROVE  /\ Len(store[n].log) <= Len(store'[n].log)
               /\ SubSeq(store'[n].log, 1, Len(store[n].log)) = store[n].log
               /\ \A e \in Entities : NotBack(store[n].entities[e], store'[n].entities[e])
    <3>1. store[n].log \in Seq(Operation) /\ store'[n].log \in Seq(Operation)
      BY <1>1 DEF RInv, Inv, Store
    <3> QED BY <2>2, <3>1, ContinuesPrefix DEF Grows
  <2> QED BY <2>1, <2>2 DEF NotBack
<1> HIDE DEF Goes
<1>2. RInv /\ CInv /\ (RInv /\ CInv)' /\ [Next]_vars => [Goes]_vars BY <1>1
<1>3. Spec => [][Goes]_vars BY <1>2, CursorInvariance, PTL DEF Spec
<1> QED BY <1>3 DEF Goes, OnlyRestoresGoBack
=============================================================================
