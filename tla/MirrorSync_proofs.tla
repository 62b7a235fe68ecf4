-------------------------- MODULE MirrorSync_proofs --------------------------
(***************************************************************************)
(* What holds of the mirror and of the browser in every state: whatever is *)
(* lost, comes late or comes twice.                                        *)
(***************************************************************************)
EXTENDS MirrorSync, MirrorStore_proofs, SequenceTheorems

\* The deliveries that are under way or wait.
Pending == flight \cup UNION {Range(queue[t][r]) : t \in Tabs, r \in Records}

\* A delivery has a number of its own, and a receipt says that its event is done.
Numbered ==
    /\ \A d \in Pending : d.id \in 1 .. counts.issued
    /\ mirror.receipts \subseteq 1 .. counts.issued
    /\ \A d, e \in Pending : d.id = e.id => d.event = e.event /\ d.tab = e.tab
Receipted ==
    \A d \in Pending :
        d.id \in mirror.receipts /\ d.event.type = "delete" /\ d.event.record \in Books \cup Notes
            => d.event.record \in mirror.buried

\* A removal waits at last for the deletion of its record, and then has it.
Asked ==
    \A p \in removals :
        /\ p.waits \in 0 .. counts.issued
        /\ p.left # {} => p.record \in p.left
        /\ p.left = {} /\ p.waits = 0 => p.record \in library.confirmed
        /\ \A d \in Pending : d.id = p.waits /\ p.left = {} =>
              d.event.type = "delete" /\ d.event.record = p.record

IInv == TypeOK /\ Sound(mirror) /\ Numbered /\ Receipted /\ Asked /\ Confirmations

\* The types, apart from the mirror's.
Queues == queue \in [Tabs -> [Records -> Seq(Delivery)]] /\ flight \in SUBSET Delivery

\* The deliveries after a step are attempts of those before it.
Repeated == \A d \in Pending' : \E e \in Pending : e.id = d.id /\ e.tab = d.tab /\ e.event = d.event
-----------------------------------------------------------------------------
(* The server.                                                             *)

\* An event does to the mirror what it should, and a deletion is for good.
LEMMA HandledGood ==
    ASSUME NEW m, Sound(m), NEW e \in Events, counts.edits \in Nat
    PROVE  LET done == Handled(m, e)
           IN  /\ Good(m, done.mirror)
               /\ e.type = "delete" /\ e.record \in Books \cup Notes => e.record \in done.mirror.buried
               /\ e.type = "complete" /\ done.answer = "ok"
                    => Manifest[e.record].book \in DOMAIN done.mirror.books
<1> DEFINE done == Handled(m, e)
<1>0. Now \in Nat BY DEF Now
<1> USE SettingsAssumption, MirrorAssumption
<1>1. CASE e \in [type : {"create"}, record : Highlights, row : Draft]
  <2>1. done = HighlightCreated(m, e.record, e.row, Now) BY <1>1 DEF Handled
  <2>2. e.record \in Highlights /\ e.row \in Draft /\ e.type = "create" BY <1>1
  <2> QED BY <1>0, <2>1, <2>2, HighlightCreatedGood
<1>2. CASE e \in [type : {"update"}, record : Highlights, row : Patch]
  <2>1. done = HighlightUpdated(m, e.record, e.row, Now) BY <1>2 DEF Handled
  <2>2. e.record \in Highlights /\ e.row \in Patch /\ e.type = "update" BY <1>2
  <2> QED BY <1>0, <2>1, <2>2, HighlightUpdatedGood
<1>3. CASE e \in [type : {"update"}, record : Books, title : Titles]
  <2>1. done = BookUpdated(m, e.record, e.title, Now) BY <1>3 DEF Handled
  <2>2. e.record \in Books /\ e.title \in Titles /\ e.type = "update" BY <1>3
  <2> QED BY <1>0, <2>1, <2>2, BookUpdatedGood
<1>4. CASE e \in [type : {"write"}, record : Notes, version : Nat, blocks : SUBSET Block]
  <2>1. done = NoteWritten(m, e.record, e.version, e.blocks) BY <1>4 DEF Handled
  <2>2. e.record \in Notes /\ e.version \in Nat /\ e.blocks \in SUBSET Block /\ e.type = "write"
    BY <1>4
  <2> QED BY <2>1, <2>2, NoteWrittenGood
<1>5. CASE e \in [type : {"create"}, record : Links]
  <2>1. done = LinkCreated(m, e.record) BY <1>5 DEF Handled
  <2>2. e.record \in Links /\ e.type = "create" BY <1>5
  <2> QED BY <2>1, <2>2, LinksGood
<1>6. CASE e \in [type : {"delete"}, record : Books \cup Highlights \cup Notes \cup Links]
  <2>0. e.type = "delete" /\ e.record \in Books \cup Highlights \cup Notes \cup Links BY <1>6
  <2>1. CASE e.record \in Books
    <3>1. done = BookDeleted(m, e.record, TRUE, Now) BY <2>0, <2>1 DEF Handled
    <3> QED BY <1>0, <2>0, <2>1, <3>1, BookDeletedGood
  <2>2. CASE e.record \in Highlights
    <3>1. done = HighlightDeleted(m, e.record, Now) BY <2>0, <2>2 DEF Handled
    <3> QED BY <1>0, <2>0, <2>2, <3>1, HighlightDeletedGood
  <2>3. CASE e.record \in Notes
    <3>1. done = NoteDeleted(m, e.record, TRUE) BY <2>0, <2>3 DEF Handled
    <3> QED BY <2>0, <2>3, <3>1, NoteDeletedGood
  <2>4. CASE e.record \in Links
    <3>1. done = Done([m EXCEPT !.links = @ \ {e.record}]) BY <2>0, <2>4 DEF Handled
    <3> QED BY <2>0, <2>4, <3>1, LinksGood DEF Done
  <2> QED BY <2>0, <2>1, <2>2, <2>3, <2>4
<1>7. CASE e \in [type : {"start", "complete", "describe"}, record : Uploads]
  <2>0. e.type \in {"start", "complete", "describe"} /\ e.record \in Uploads BY <1>7
  <2>1. CASE e.type = "start"
    <3>1. done = UploadStarted(m, e.record) BY <2>0, <2>1 DEF Handled
    <3> QED BY <2>0, <2>1, <3>1, UploadStartedGood
  <2>2. CASE e.type = "complete"
    <3>1. done = UploadCompleted(m, e.record, Now) BY <2>0, <2>2 DEF Handled
    <3> QED BY <1>0, <2>0, <2>2, <3>1, UploadCompletedGood
  <2>3. CASE e.type = "describe"
    <3>1. done = BookUpdated(m, Manifest[e.record].book, Manifest[e.record].title, Now)
      BY <2>0, <2>3 DEF Handled
    <3>2. Manifest[e.record].book \in Books /\ Manifest[e.record].title \in Titles BY <2>0
    <3> QED BY <1>0, <2>3, <3>1, <3>2, BookUpdatedGood
  <2> QED BY <2>0, <2>1, <2>2, <2>3
<1>8. CASE e \in [type : {"chunk"}, record : Uploads, index : 0 .. Chunks - 1]
  <2>1. done = ChunkPut(m, e.record, e.index) BY <1>8 DEF Handled
  <2>2. e.record \in Uploads /\ e.index \in 0 .. Chunks - 1 /\ e.type = "chunk" BY <1>8
  <2> QED BY <2>1, <2>2, ChunkPutGood
<1> QED BY <1>1, <1>2, <1>3, <1>4, <1>5, <1>6, <1>7, <1>8 DEF Events

\* So does a delivery, which leaves a receipt.
LEMMA ReceivedGood ==
    ASSUME NEW m, Sound(m), NEW d \in Delivery, counts.edits \in Nat,
           d.id \in m.receipts /\ d.event.type = "delete" /\ d.event.record \in Books \cup Notes
               => d.event.record \in m.buried
    PROVE  LET result == Received(m, d)
               k == result.mirror
           IN  /\ Sound(k) /\ m.buried \subseteq k.buried
               /\ DOMAIN m.books \subseteq DOMAIN k.books \cup k.buried
               /\ DOMAIN m.notes \subseteq DOMAIN k.notes \cup k.buried
               /\ Forward(m.notes, k.notes)
               /\ m.receipts \subseteq k.receipts /\ k.receipts \subseteq m.receipts \cup {d.id}
               /\ (d.id \in k.receipts \/ result.answer = "ok")
                    /\ d.event.type = "delete" /\ d.event.record \in Books \cup Notes
                    => d.event.record \in k.buried
               /\ result.answer = "ok" /\ d.event.type = "complete"
                    => Manifest[d.event.record].book \in DOMAIN k.books
<1> DEFINE done == Handled(m, d.event)
           result == Received(m, d)
<1>0. d.event \in Events /\ d.id \in Nat BY DEF Delivery
<1>1. /\ Good(m, done.mirror)
      /\ d.event.type = "delete" /\ d.event.record \in Books \cup Notes
            => d.event.record \in done.mirror.buried
      /\ d.event.type = "complete" /\ done.answer = "ok"
            => Manifest[d.event.record].book \in DOMAIN done.mirror.books
  BY <1>0, HandledGood
<1> DEFINE plain == d.event.type \notin {"start", "chunk", "complete"}
<1>2. /\ d.event.type = "complete" => ~plain
      /\ d.event.type = "delete" => plain
  OBVIOUS
<1> HIDE DEF done
<1>3. CASE ~plain
  <2>1. result = done BY <1>3 DEF Received, done
  <2> QED BY <1>1, <1>2, <2>1 DEF Good, Later
<1>4. CASE plain /\ d.id \in m.receipts
  <2>1. result = Done(m) BY <1>4 DEF Received
  <2>2. Good(m, m) BY SameGood
  <2> QED BY <1>2, <1>4, <2>1, <2>2 DEF Done, Good, Later
<1>5. CASE plain /\ d.id \notin m.receipts /\ done.answer # "ok"
  <2>1. result = done BY <1>5 DEF Received, done
  <2> QED BY <1>1, <1>5, <2>1 DEF Good, Later
<1>6. CASE plain /\ d.id \notin m.receipts /\ done.answer = "ok"
  <2> DEFINE n == done.mirror
             k == [n EXCEPT !.receipts = @ \cup {d.id}]
  <2>1. result = Done(k) BY <1>6 DEF Received, done
  <2>2. Good(m, n) BY <1>1
  <2> HIDE DEF n
  <2>3. /\ k.books = n.books /\ k.notes = n.notes /\ k.highlights = n.highlights
        /\ k.digests = n.digests /\ k.links = n.links /\ k.buried = n.buried
        /\ k.staged = n.staged /\ k.promoted = n.promoted
        /\ k.receipts = n.receipts \cup {d.id} /\ DOMAIN k = DOMAIN n
    BY <2>2 DEF Good, Sound, Mirror, EmptyMirror
  <2> HIDE DEF k
  <2>4. Sound(k) BY <1>0, <2>2, <2>3, SameBlocks
    DEF Good, Sound, Mirror, Gone, Bound, Owned, Cites, Citing
  <2> QED BY <1>1, <1>2, <1>6, <2>1, <2>2, <2>3, <2>4 DEF Done, Good, Later, n
<1> QED BY <1>3, <1>4, <1>5, <1>6
-----------------------------------------------------------------------------
(* The queues.                                                             *)

\* A queue is replaced by one of attempts of what it held.
LEMMA QueueStep ==
    ASSUME Queues, NEW t \in Tabs, NEW r \in Records, NEW rest \in Seq(Delivery),
           queue' = [queue EXCEPT ![t][r] = rest], flight' \in SUBSET Delivery,
           \A d \in flight' \cup Range(rest) : \E e \in Pending : e.id = d.id /\ e.tab = d.tab /\ e.event = d.event
    PROVE  Queues' /\ Repeated
<1>1. queue' \in [Tabs -> [Records -> Seq(Delivery)]] BY DEF Queues
<1>2. \A t1 \in Tabs, r1 \in Records :
         queue'[t1][r1] = IF t1 = t /\ r1 = r THEN rest ELSE queue[t1][r1]
  BY DEF Queues
<1>3. ASSUME NEW d \in Pending' PROVE \E e \in Pending : e.id = d.id /\ e.tab = d.tab /\ e.event = d.event
  <2>1. CASE d \in flight' BY <2>1
  <2>2. CASE d \notin flight'
    <3>1. PICK t1 \in Tabs, r1 \in Records : d \in Range(queue'[t1][r1]) BY <2>2 DEF Pending
    <3>2. CASE t1 = t /\ r1 = r BY <1>2, <3>1, <3>2
    <3>3. CASE ~(t1 = t /\ r1 = r)
      <4>1. d \in Range(queue[t1][r1]) BY <1>2, <3>1, <3>3
      <4>2. d \in Pending BY <4>1 DEF Pending
      <4> QED BY <4>2
    <3> QED BY <3>2, <3>3
  <2> QED BY <2>1, <2>2
<1> QED BY <1>1, <1>3 DEF Queues, Repeated

\* What is in a queue is pending.
LEMMA QueuePending ==
    ASSUME Queues, NEW t \in Tabs, NEW r \in Records, queue[t][r] # <<>>
    PROVE  /\ queue[t][r] \in Seq(Delivery) /\ Head(queue[t][r]) \in Delivery
           /\ Head(queue[t][r]) \in Pending
           /\ Tail(queue[t][r]) \in Seq(Delivery)
           /\ Range(queue[t][r]) \subseteq Pending
           /\ Range(Tail(queue[t][r])) \subseteq Range(queue[t][r])
<1> DEFINE q == queue[t][r]
<1>1. q \in Seq(Delivery) BY DEF Queues
<1>2. Range(q) \subseteq Pending BY DEF Pending
<1> HIDE DEF q
<1>3. Head(q) \in Delivery /\ Head(q) \in Range(q) /\ Tail(q) \in Seq(Delivery)
      /\ Range(Tail(q)) \subseteq Range(q)
  <2>0. q # <<>> BY DEF q
  <2>1. Len(q) \in Nat \ {0} /\ DOMAIN q = 1 .. Len(q) BY <1>1, <2>0
  <2>2. Head(q) = q[1] /\ q[1] \in Delivery BY <1>1, <2>0, <2>1
  <2>3. Tail(q) \in Seq(Delivery) /\ DOMAIN Tail(q) = 1 .. Len(q) - 1
        /\ \A i \in 1 .. Len(q) - 1 : Tail(q)[i] = q[i + 1]
    BY <1>1, <2>0, <2>1
  <2>4. \A i \in 1 .. Len(q) - 1 : i + 1 \in 1 .. Len(q) BY <2>1
  <2>5. Range(Tail(q)) \subseteq Range(q)
    <3> DEFINE rest == Tail(q)
    <3>1. DOMAIN rest = 1 .. Len(q) - 1 /\ \A i \in DOMAIN rest : rest[i] = q[i + 1] BY <2>3
    <3> HIDE DEF rest
    <3> QED BY <2>1, <2>4, <3>1 DEF Range
  <2>6. Head(q) \in Range(q)
    <3>1. 1 \in DOMAIN q BY <2>1
    <3> QED BY <2>2, <3>1 DEF Range
  <2> QED BY <2>2, <2>3, <2>5, <2>6
<1> QED BY <1>1, <1>2, <1>3 DEF q

\* The next request of a queue is one of it.
LEMMA HeadsOf ==
    ASSUME NEW q \in Seq(Delivery)
    PROVE  Heads(q) \subseteq Range(q) /\ Range(q) \subseteq Delivery
<1>1. \A d \in Range(q) : d \in Delivery BY DEF Range
<1>2. CASE q = <<>> BY <1>1, <1>2 DEF Heads
<1>3. CASE q # <<>>
  <2>1. Head(q) = q[1] /\ 1 \in DOMAIN q BY <1>3
  <2> QED BY <1>1, <1>3, <2>1 DEF Heads, Range
<1> QED BY <1>2, <1>3

\* A delivery is over, or given up.
LEMMA OverStep ==
    ASSUME Queues, NEW t \in Tabs, NEW r \in Records, queue[t][r] # <<>>,
           NEW requests \in SUBSET flight, NEW rest \in {Tail(queue[t][r]), <<>>},
           Over(t, r, requests, rest)
    PROVE  Queues' /\ Repeated
<1>1. rest \in Seq(Delivery) /\ Range(rest) \subseteq Pending
  <2>1. CASE rest = <<>> BY <2>1 DEF Range
  <2>2. CASE rest = Tail(queue[t][r]) BY <2>2, QueuePending
  <2> QED BY <2>1, <2>2
<1>2. Heads(rest) \subseteq Range(rest) /\ Range(rest) \subseteq Delivery BY <1>1, HeadsOf
<1>3. flight \subseteq Pending BY DEF Pending
<1>4. flight' \in SUBSET Delivery /\ flight' \cup Range(rest) \subseteq Pending
  BY <1>1, <1>2, <1>3 DEF Over, Queues
<1>5. queue' = [queue EXCEPT ![t][r] = rest] BY DEF Over
<1> QED BY <1>1, <1>4, <1>5, QueueStep

LEMMA GivenUpStep ==
    ASSUME Queues, NEW t \in Tabs, NEW r \in Records, queue[t][r] # <<>>,
           NEW requests \in SUBSET flight, GivenUp(t, r, requests)
    PROVE  Queues' /\ Repeated
BY OverStep DEF GivenUp

\* A delivery is tried again, or given up.
LEMMA AgainStep ==
    ASSUME Queues, NEW t \in Tabs, NEW r \in Records, queue[t][r] # <<>>,
           NEW requests \in SUBSET flight, Again(t, r, requests)
    PROVE  Queues' /\ Repeated
<1> DEFINE q == queue[t][r]
           d == Head(q)
           next == [d EXCEPT !.attempt = @ + 1]
           rest == [q EXCEPT ![1] = next]
<1>1. CASE d.attempt = MaxAttempts BY <1>1, GivenUpStep DEF Again
<1>2. CASE d.attempt # MaxAttempts
  <2>1. q \in Seq(Delivery) /\ d \in Delivery /\ d \in Pending /\ Range(q) \subseteq Pending
    BY QueuePending
  <2>2. /\ queue' = [queue EXCEPT ![t][r][1] = next]
        /\ flight' = requests \cup {next}
    BY <1>2 DEF Again
  <2>3. queue' = [queue EXCEPT ![t][r] = rest] BY <2>2 DEF Queues
  <2> HIDE DEF d
  <2>4. next \in Delivery /\ next.id = d.id /\ next.tab = d.tab /\ next.event = d.event
    <3>1. d.attempt + 1 \in 1 .. MaxAttempts BY <1>2, <2>1, SettingsAssumption DEF Delivery
    <3> DEFINE a == d.attempt + 1
    <3> HIDE DEF a
    <3>2. a \in 1 .. MaxAttempts BY <3>1 DEF a
    <3>3. next = [d EXCEPT !.attempt = a] BY DEF a
    <3> QED BY <2>1, <3>2, <3>3 DEF Delivery
  <2> HIDE DEF next
  <2>5. rest \in Seq(Delivery) BY <2>1, <2>4
  <2>6. Range(rest) \subseteq Range(q) \cup {next}
    <3>1. DOMAIN rest = DOMAIN q /\ \A i \in DOMAIN q : rest[i] = q[i] \/ rest[i] = next OBVIOUS
    <3> HIDE DEF rest, q
    <3> QED BY <3>1 DEF Range
  <2>7. flight \subseteq Pending BY DEF Pending
  <2>8. \A e \in flight' \cup Range(rest) : e \in Pending \/ e = next BY <2>1, <2>2, <2>6, <2>7
  <2>9. \A e \in flight' \cup Range(rest) : \E f \in Pending : f.id = e.id /\ f.tab = e.tab /\ f.event = e.event
    BY <2>1, <2>4, <2>8
  <2>10. flight' \in SUBSET Delivery BY <2>2, <2>4 DEF Queues
  <2> HIDE DEF rest
  <2> QED BY <2>3, <2>5, <2>9, <2>10, QueueStep
<1> QED BY <1>1, <1>2

\* What two sequences hold together.
LEMMA AppendRange ==
    ASSUME NEW q \in Seq(Delivery), NEW new \in Seq(Delivery)
    PROVE  Range(q \o new) \subseteq Range(q) \cup Range(new)
<1> DEFINE s == q \o new
<1>1. /\ Len(q) \in Nat /\ Len(new) \in Nat /\ DOMAIN q = 1 .. Len(q) /\ DOMAIN new = 1 .. Len(new)
      /\ DOMAIN s = 1 .. Len(q) + Len(new)
      /\ \A i \in DOMAIN s : s[i] = IF i <= Len(q) THEN q[i] ELSE new[i - Len(q)]
  OBVIOUS
<1> HIDE DEF s
<1>2. \A i \in DOMAIN s : i \in DOMAIN q \/ i - Len(q) \in DOMAIN new BY <1>1
<1>3. \A i \in DOMAIN s : (i \in DOMAIN q /\ s[i] = q[i])
                        \/ (i - Len(q) \in DOMAIN new /\ s[i] = new[i - Len(q)])
  BY <1>1, <1>2
<1> QED BY <1>3 DEF s, Range

\* Events wait behind those that wait, and have new numbers.
LEMMA PostStep ==
    ASSUME Queues, Numbered, Receipted, counts.issued \in Nat, NEW t \in Tabs, NEW r \in Records,
           NEW events \in Seq(Events), NEW acts, Post(t, r, events, acts), mirror' = mirror,
           DOMAIN counts = {"edits", "others", "faults", "issued"}
    PROVE  /\ Queues' /\ Numbered' /\ Receipted'
           /\ counts'.issued = counts.issued + Len(events)
           /\ \A d \in Pending' \ Pending :
                 \E i \in DOMAIN events : d.id = counts.issued + i /\ d.event = events[i]
<1> DEFINE N == counts.issued
           new == [i \in DOMAIN events |->
                      [id |-> N + i, tab |-> t, attempt |-> 1, event |-> events[i]]]
           q == queue[t][r]
           rest == q \o new
<1>1. /\ queue' = [queue EXCEPT ![t][r] = rest]
      /\ flight' = flight \cup (IF q = <<>> THEN Heads(new) ELSE {})
      /\ counts'.issued = N + Len(events)
  BY DEF Post, Queues
<1>2. DOMAIN events = 1 .. Len(events) /\ Len(events) \in Nat
      /\ \A i \in DOMAIN events : events[i] \in Events
  OBVIOUS
<1>3. new \in Seq(Delivery) /\ Len(new) = Len(events)
  <2>1. \A i \in 1 .. Len(events) : new[i] \in Delivery
    BY <1>2, SettingsAssumption DEF Delivery
  <2>2. new \in [1 .. Len(events) -> Delivery] BY <1>2, <2>1
  <2> HIDE DEF new
  <2> QED BY <1>2, <2>2
<1>4. \A d \in Range(new) : /\ d.id \in N + 1 .. N + Len(events)
                            /\ \A e \in Range(new) : d.id = e.id => d.event = e.event /\ d.tab = e.tab
  <2>1. \A i \in 1 .. Len(events) : new[i].id = N + i /\ new[i].event = events[i] /\ new[i].tab = t BY <1>2
  <2>2. DOMAIN new = 1 .. Len(events) BY <1>2
  <2> HIDE DEF new
  <2>3. ASSUME NEW d \in Range(new), NEW e \in Range(new)
        PROVE  /\ d.id \in N + 1 .. N + Len(events)
               /\ d.id = e.id => d.event = e.event /\ d.tab = e.tab
    <3>1. PICK i \in 1 .. Len(events) : d = new[i] BY <2>2 DEF Range
    <3>2. PICK j \in 1 .. Len(events) : e = new[j] BY <2>2 DEF Range
    <3>3. d.id = N + i /\ e.id = N + j /\ d.event = events[i] /\ e.event = events[j]
          /\ d.tab = t /\ e.tab = t
      BY <2>1, <3>1, <3>2
    <3>4. N + i = N + j => i = j BY <1>2
    <3>5. N + i \in N + 1 .. N + Len(events) BY <1>2
    <3> QED BY <3>3, <3>4, <3>5
  <2> QED BY <2>3
<1>41. \A d \in Range(new) : \E i \in DOMAIN events : d.id = N + i /\ d.event = events[i]
  <2>1. \A i \in DOMAIN new : i \in DOMAIN events /\ new[i].id = N + i /\ new[i].event = events[i]
    OBVIOUS
  <2> HIDE DEF new
  <2> QED BY <2>1 DEF Range
<1> HIDE DEF new
<1>5. q \in Seq(Delivery) /\ Range(q) \subseteq Pending BY DEF Queues, Pending
<1>6. rest \in Seq(Delivery) /\ Range(rest) \subseteq Range(q) \cup Range(new)
  BY <1>3, <1>5, AppendRange
<1> HIDE DEF q, rest
<1>7. Heads(new) \subseteq Range(new) /\ Range(new) \subseteq Delivery BY <1>3, HeadsOf
<1>8. Queues' BY <1>1, <1>6, <1>7 DEF Queues
<1>9. Pending' \subseteq Pending \cup Range(new)
  <2>1. \A t1 \in Tabs, r1 \in Records :
           queue'[t1][r1] = IF t1 = t /\ r1 = r THEN rest ELSE queue[t1][r1]
    BY <1>1 DEF Queues
  <2>2. ASSUME NEW d \in Pending' PROVE d \in Pending \cup Range(new)
    <3>1. CASE d \in flight' BY <1>1, <1>7, <3>1 DEF Pending
    <3>2. CASE d \notin flight'
      <4>1. PICK t1 \in Tabs, r1 \in Records : d \in Range(queue'[t1][r1]) BY <3>2 DEF Pending
      <4>2. CASE t1 = t /\ r1 = r BY <1>5, <1>6, <2>1, <4>1, <4>2
      <4>3. CASE ~(t1 = t /\ r1 = r)
        <5>1. d \in Range(queue[t1][r1]) BY <2>1, <4>1, <4>3
        <5> QED BY <5>1 DEF Pending
      <4> QED BY <4>2, <4>3
    <3> QED BY <3>1, <3>2
  <2> QED BY <2>2
<1>10. Numbered'
  <2>1. \A n \in 1 .. N : n \in 1 .. N + Len(events) /\ n \notin N + 1 .. N + Len(events) BY <1>2
  <2>2. \A n \in N + 1 .. N + Len(events) : n \in 1 .. N + Len(events) BY <1>2
  <2>3. \A d \in Pending : d.id \in 1 .. N BY DEF Numbered
  <2>4. \A d \in Pending' : d.id \in 1 .. N + Len(events) BY <1>4, <1>9, <2>1, <2>2, <2>3
  <2>5. \A d, e \in Pending' : d.id = e.id => d.event = e.event /\ d.tab = e.tab
    BY <1>4, <1>9, <2>1, <2>3 DEF Numbered
  <2>6. mirror'.receipts \subseteq 1 .. N + Len(events) BY <2>1 DEF Numbered
  <2> HIDE DEF N
  <2> QED BY <1>1, <2>4, <2>5, <2>6 DEF Numbered, N
<1>11. Receipted'
  <2>1. \A n \in 1 .. N : n \notin N + 1 .. N + Len(events) BY <1>2
  <2>2. \A d \in Range(new) : d.id \notin mirror.receipts BY <1>4, <2>1 DEF Numbered
  <2> QED BY <1>9, <2>2 DEF Receipted
<1> QED BY <1>1, <1>41, <1>8, <1>9, <1>10, <1>11
-----------------------------------------------------------------------------
(* The actions.                                                            *)

Bounded ==
    /\ setting \in Settings
    /\ counts \in [edits : 0 .. setting.edits, others : 0 .. setting.others,
                   faults : 0 .. setting.faults, issued : Nat]

\* The parts of the invariant.
LEMMA Parts ==
    IInv <=> /\ Mirror(mirror) /\ Library(library) /\ Queues /\ strayed \in SUBSET Records
             /\ removals \in SUBSET Removal /\ Asked
             /\ Bounded /\ Sound(mirror) /\ Numbered /\ Receipted /\ Confirmations
BY DEF IInv, TypeOK, Queues, Bounded

\* The numbers that are counted.
LEMMA Counted ==
    ASSUME Bounded
    PROVE  /\ counts.edits \in Nat /\ counts.issued \in Nat
           /\ DOMAIN counts = {"edits", "others", "faults", "issued"}
           /\ setting.edits \in Nat /\ setting.others \in Nat /\ setting.faults \in Nat
BY SettingsAssumption DEF Bounded, Setting

\* A failure is counted.
LEMMA FaultStep == ASSUME Bounded, Fault, setting' = setting PROVE Bounded' /\ counts'.issued = counts.issued
<1>1. counts.faults + 1 \in 0 .. setting.faults BY Counted DEF Bounded, Fault
<1>2. counts' = [counts EXCEPT !.faults = counts.faults + 1] BY DEF Fault
<1> DEFINE f == counts.faults + 1
<1> HIDE DEF f
<1>3. f \in 0 .. setting.faults /\ counts' = [counts EXCEPT !.faults = f] BY <1>1, <1>2 DEF f
<1> QED BY <1>3 DEF Bounded

\* Attempts of the same deliveries, with the receipt of one of them.
LEMMA ReceiptStep ==
    ASSUME Numbered, Receipted, Repeated, counts'.issued = counts.issued,
           mirror.buried \subseteq mirror'.buried, NEW d \in Pending,
           mirror'.receipts \subseteq mirror.receipts \cup {d.id},
           d.id \in mirror'.receipts /\ d.event.type = "delete" /\ d.event.record \in Books \cup Notes
               => d.event.record \in mirror'.buried
    PROVE  Numbered' /\ Receipted'
<1>1. Numbered'
  <2>1. \A e \in Pending' : e.id \in 1 .. counts'.issued BY DEF Numbered, Repeated
  <2>2. mirror'.receipts \subseteq 1 .. counts'.issued BY DEF Numbered
  <2>3. ASSUME NEW e \in Pending', NEW f \in Pending', e.id = f.id
        PROVE  e.event = f.event /\ e.tab = f.tab
    <3>1. PICK g \in Pending : g.id = e.id /\ g.tab = e.tab /\ g.event = e.event BY DEF Repeated
    <3>2. PICK i \in Pending : i.id = f.id /\ i.tab = f.tab /\ i.event = f.event BY DEF Repeated
    <3> QED BY <2>3, <3>1, <3>2 DEF Numbered
  <2> QED BY <2>1, <2>2, <2>3 DEF Numbered
<1>2. ASSUME NEW e \in Pending', e.id \in mirror'.receipts, e.event.type = "delete",
             e.event.record \in Books \cup Notes
      PROVE  e.event.record \in mirror'.buried
  <2>1. PICK f \in Pending : f.id = e.id /\ f.event = e.event BY DEF Repeated
  <2>2. CASE f.id \in mirror.receipts BY <1>2, <2>1, <2>2 DEF Receipted
  <2>3. CASE f.id = d.id
    <3>1. f.event = d.event BY <2>3 DEF Numbered
    <3> QED BY <1>2, <2>1, <2>3, <3>1
  <2> QED BY <1>2, <2>1, <2>2, <2>3
<1> QED BY <1>1, <1>2 DEF Receipted

\* Removals go on, or end.
LEMMA RemovalsKept ==
    ASSUME removals \in SUBSET Removal, Asked, Repeated, counts'.issued = counts.issued,
           library.confirmed \subseteq library'.confirmed, removals' \subseteq removals
    PROVE  removals' \in SUBSET Removal /\ Asked'
<1>1. ASSUME NEW p \in removals', NEW d \in Pending', d.id = p.waits, p.left = {}
      PROVE  d.event.type = "delete" /\ d.event.record = p.record
  <2>1. PICK e \in Pending : e.id = d.id /\ e.event = d.event BY DEF Repeated
  <2> QED BY <1>1, <2>1 DEF Asked
<1> QED BY <1>1 DEF Asked

\* A removal goes on when its report has succeeded.
LEMMA RemovalsResumed ==
    ASSUME removals \in SUBSET Removal, Asked, Numbered, Repeated, counts'.issued = counts.issued,
           counts.issued \in Nat, library.confirmed \subseteq library'.confirmed, NEW d \in Pending,
           removals' = Resumed(d.id),
           d.event.type = "delete" => d.event.record \in library'.confirmed
    PROVE  removals' \in SUBSET Removal /\ Asked'
<1>0. d.id \in 1 .. counts.issued BY DEF Numbered
<1>1. ASSUME NEW p \in removals'
      PROVE  /\ p \in Removal /\ p.waits \in 0 .. counts.issued
             /\ p.left # {} => p.record \in p.left
             /\ p.left = {} /\ p.waits = 0 => p.record \in library'.confirmed
             /\ \A e \in Pending : e.id = p.waits /\ p.left = {} =>
                   e.event.type = "delete" /\ e.event.record = p.record
  <2>1. PICK q \in removals : p = IF q.waits = d.id THEN [q EXCEPT !.waits = 0] ELSE q
    BY DEF Resumed
  <2>2. q \in Removal OBVIOUS
  <2>3. CASE q.waits # d.id BY <2>1, <2>2, <2>3 DEF Asked
  <2>4. CASE q.waits = d.id
    <3>1. /\ p \in Removal /\ p.waits = 0 /\ p.left = q.left /\ p.record = q.record
      BY <2>1, <2>2, <2>4 DEF Removal
    <3>2. q.left = {} => d.event.type = "delete" /\ d.event.record = q.record BY <2>4 DEF Asked
    <3>3. \A e \in Pending : e.id # 0 BY DEF Numbered
    <3>4. 0 \in 0 .. counts.issued OBVIOUS
    <3>5. q.left # {} => q.record \in q.left BY DEF Asked
    <3> QED BY <3>1, <3>2, <3>3, <3>4, <3>5
  <2> QED BY <2>3, <2>4
<1>2. ASSUME NEW p \in removals', NEW e \in Pending', e.id = p.waits, p.left = {}
      PROVE  e.event.type = "delete" /\ e.event.record = p.record
  <2>1. PICK f \in Pending : f.id = e.id /\ f.event = e.event BY DEF Repeated
  <2> QED BY <1>1, <1>2, <2>1
<1> QED BY <1>1, <1>2 DEF Asked

\* The mirror keeps what was confirmed.
LEMMA ConfirmedStep ==
    ASSUME Confirmations, mirror.buried \subseteq mirror'.buried,
           DOMAIN mirror.books \subseteq DOMAIN mirror'.books \cup mirror'.buried,
           library'.books = library.books,
           (library'.confirmed \ library.confirmed) \cap (Books \cup Notes) \subseteq mirror'.buried,
           \A u \in library'.uploaded \ library.uploaded : Manifest[u].book \in DOMAIN mirror'.books
    PROVE  Confirmations'
BY DEF Confirmations

\* The library after an answer: only what is confirmed changes.
LEMMA LibraryStep ==
    ASSUME Library(library), NEW e \in Events
    PROVE  LET l == Confirmed(e)
           IN  /\ Library(l) /\ l.books = library.books /\ l.highlights = library.highlights
               /\ l.notes = library.notes /\ l.links = library.links /\ l.used = library.used
               /\ l.confirmed = library.confirmed \cup {r \in {e.record} : e.type = "delete"}
               /\ l.uploaded = library.uploaded \cup {r \in {e.record} : e.type = "complete"}
<1> DEFINE l == Confirmed(e)
<1>0. e.record \in Records /\ (e.type = "complete" => e.record \in Uploads) BY DEF Events, Records
<1>1. /\ l.books = library.books /\ l.highlights = library.highlights
      /\ l.notes = library.notes /\ l.links = library.links /\ l.used = library.used
      /\ l.confirmed = library.confirmed \cup {r \in {e.record} : e.type = "delete"}
      /\ l.uploaded = library.uploaded \cup {r \in {e.record} : e.type = "complete"}
      /\ DOMAIN l = DOMAIN library
  <2>1. CASE e.type = "delete" BY <2>1 DEF Confirmed, Library
  <2>2. CASE e.type = "complete" BY <2>2 DEF Confirmed, Library
  <2>3. CASE e.type # "delete" /\ e.type # "complete" BY <2>3 DEF Confirmed
  <2> QED BY <2>1, <2>2, <2>3
<1> HIDE DEF l
<1>2. Library(l) BY <1>0, <1>1 DEF Library
<1> QED BY <1>1, <1>2 DEF l

\* The record of an event.
LEMMA EventRecord == ASSUME NEW e \in Events PROVE e.record \in Records
BY DEF Events, Records

\* A request is handled.
LEMMA AnswerStep ==
    ASSUME IInv, NEW d \in flight, Answer(d)
    PROVE  IInv' /\ Forward(mirror.notes, mirror'.notes)
<1> DEFINE t == d.tab
           r == d.event.record
           result == Received(mirror, d)
           waiting == queue[t][r] # <<>> /\ Head(queue[t][r]) = d
<1>0. /\ Mirror(mirror) /\ Library(library) /\ Queues /\ strayed \in SUBSET Records
      /\ removals \in SUBSET Removal /\ Asked
      /\ Bounded /\ Sound(mirror) /\ Numbered /\ Receipted /\ Confirmations
  BY Parts
<1>1. d \in Delivery /\ d \in Pending BY <1>0 DEF Queues, Pending
<1>2. t \in Tabs /\ r \in Records /\ d.event \in Events BY <1>1, EventRecord DEF Delivery
<1>3. /\ Sound(result.mirror) /\ mirror.buried \subseteq result.mirror.buried
      /\ DOMAIN mirror.books \subseteq DOMAIN result.mirror.books \cup result.mirror.buried
      /\ Forward(mirror.notes, result.mirror.notes)
      /\ result.mirror.receipts \subseteq mirror.receipts \cup {d.id}
      /\ (d.id \in result.mirror.receipts \/ result.answer = "ok")
            /\ d.event.type = "delete" /\ d.event.record \in Books \cup Notes
            => d.event.record \in result.mirror.buried
      /\ result.answer = "ok" /\ d.event.type = "complete"
            => Manifest[d.event.record].book \in DOMAIN result.mirror.books
  BY <1>0, <1>1, Counted, ReceivedGood DEF Receipted
<1>4. mirror' = result.mirror /\ setting' = setting /\ counts' = counts BY DEF Answer
<1>5. /\ Queues' /\ Repeated /\ strayed' \in SUBSET Records
      /\ \/ library' = library /\ removals' \subseteq removals
         \/ result.answer = "ok" /\ library' = Confirmed(d.event) /\ removals' = Resumed(d.id)
  <2> HIDE DEF result
  <2>1. CASE waiting /\ result.answer = "ok" /\ library' = Confirmed(d.event)
               /\ Over(t, r, flight \ {d}, Tail(queue[t][r])) /\ removals' = Resumed(d.id)
               /\ UNCHANGED strayed
    BY <1>0, <1>2, <2>1, OverStep
  <2>2. CASE waiting /\ GivenUp(t, r, flight \ {d}) /\ UNCHANGED library
    <3>1. strayed' = strayed \cup {r} /\ removals' \subseteq removals BY <2>2 DEF GivenUp, Abandoned
    <3> QED BY <1>0, <1>2, <2>2, <3>1, GivenUpStep
  <2>3. CASE waiting /\ Again(t, r, flight \ {d}) /\ UNCHANGED library
    <3>1. strayed' \in SUBSET Records /\ removals' \subseteq removals
      BY <1>0, <1>2, <2>3 DEF Again, GivenUp, Abandoned
    <3> QED BY <1>0, <1>2, <2>3, <3>1, AgainStep
  <2>4. CASE flight' = flight \ {d} /\ UNCHANGED <<library, queue, removals, strayed>>
    <3>1. Pending' \subseteq Pending BY <2>4 DEF Pending
    <3> QED BY <1>0, <2>4, <3>1 DEF Queues, Repeated
  <2> QED BY <2>1, <2>2, <2>3, <2>4 DEF Answer, result
<1> HIDE DEF result
<1>6. Numbered' /\ Receipted' BY <1>0, <1>1, <1>3, <1>4, <1>5, ReceiptStep
<1>7. Library(library)' /\ Confirmations' /\ removals' \in SUBSET Removal /\ Asked'
  <2>1. CASE library' = library /\ removals' \subseteq removals
    BY <1>0, <1>3, <1>4, <1>5, <2>1, ConfirmedStep, RemovalsKept
  <2>2. CASE result.answer = "ok" /\ library' = Confirmed(d.event) /\ removals' = Resumed(d.id)
    <3>1. /\ Library(library') /\ library'.books = library.books
          /\ library'.confirmed = library.confirmed \cup {x \in {r} : d.event.type = "delete"}
          /\ library'.uploaded = library.uploaded \cup {x \in {r} : d.event.type = "complete"}
      BY <1>0, <1>2, <2>2, LibraryStep
    <3>2. (library'.confirmed \ library.confirmed) \cap (Books \cup Notes) \subseteq mirror'.buried
      BY <1>3, <1>4, <2>2, <3>1
    <3>3. \A u \in library'.uploaded \ library.uploaded : Manifest[u].book \in DOMAIN mirror'.books
      BY <1>3, <1>4, <2>2, <3>1
    <3>4. Confirmations' BY <1>0, <1>3, <1>4, <3>1, <3>2, <3>3, ConfirmedStep
    <3>5. removals' \in SUBSET Removal /\ Asked'
      BY <1>0, <1>1, <1>4, <1>5, <2>2, <3>1, Counted, RemovalsResumed
    <3> QED BY <3>1, <3>4, <3>5
  <2> QED BY <1>5, <2>1, <2>2
<1>8. Bounded' BY <1>0, <1>4 DEF Bounded
<1>9. Mirror(mirror)' /\ Sound(mirror)' BY <1>3, <1>4 DEF Sound
<1>10. IInv' BY <1>5, <1>6, <1>7, <1>8, <1>9 DEF IInv, TypeOK, Queues, Bounded
<1> QED BY <1>3, <1>4, <1>10

\* An attempt fails.
LEMMA LoseStep ==
    ASSUME IInv, NEW d \in flight, Lose(d)
    PROVE  IInv' /\ Forward(mirror.notes, mirror'.notes)
<1> DEFINE t == d.tab
           r == d.event.record
<1>0. /\ Mirror(mirror) /\ Library(library) /\ Queues /\ strayed \in SUBSET Records
      /\ removals \in SUBSET Removal /\ Asked
      /\ Bounded /\ Sound(mirror) /\ Numbered /\ Receipted /\ Confirmations
  BY Parts
<1>1. d \in Delivery /\ d \in Pending BY <1>0 DEF Queues, Pending
<1>2. t \in Tabs /\ r \in Records BY <1>1, EventRecord DEF Delivery
<1>3. queue[t][r] # <<>> BY DEF Lose, Heads
<1>4. Bounded' /\ counts'.issued = counts.issued BY <1>0, FaultStep DEF Lose
<1>5. Queues' /\ Repeated /\ strayed' \in SUBSET Records /\ removals' \subseteq removals
  <2>1. PICK requests \in SUBSET flight : Again(t, r, requests) BY DEF Lose
  <2>2. strayed' \in SUBSET Records /\ removals' \subseteq removals
    BY <1>0, <1>2, <2>1 DEF Again, GivenUp, Abandoned
  <2> QED BY <1>0, <1>2, <1>3, <2>1, <2>2, AgainStep
<1>6. /\ Sound(mirror') /\ mirror.buried \subseteq mirror'.buried
      /\ DOMAIN mirror.books \subseteq DOMAIN mirror'.books \cup mirror'.buried
      /\ Forward(mirror.notes, mirror'.notes)
      /\ mirror'.receipts \subseteq mirror.receipts \cup {d.id}
      /\ d.id \in mirror'.receipts /\ d.event.type = "delete" /\ d.event.record \in Books \cup Notes
            => d.event.record \in mirror'.buried
  <2>1. CASE mirror' = mirror BY <1>0, <1>1, <2>1 DEF Receipted, Forward, Onward
  <2>2. CASE mirror' = Received(mirror, d).mirror
    BY <1>0, <1>1, <2>2, Counted, ReceivedGood DEF Receipted
  <2> QED BY <2>1, <2>2 DEF Lose
<1>7. library' = library BY DEF Lose
<1>8. Numbered' /\ Receipted' BY <1>0, <1>1, <1>4, <1>5, <1>6, ReceiptStep
<1>9. Library(library)' /\ Confirmations' /\ removals' \in SUBSET Removal /\ Asked'
  BY <1>0, <1>4, <1>5, <1>6, <1>7, ConfirmedStep, RemovalsKept
<1>10. Mirror(mirror)' /\ Sound(mirror)' BY <1>6 DEF Sound
<1>11. IInv' BY <1>4, <1>5, <1>8, <1>9, <1>10 DEF IInv, TypeOK, Queues, Bounded
<1> QED BY <1>6, <1>11

\* A tab is closed.
LEMMA CloseStep ==
    ASSUME IInv, NEW t \in Tabs, Close(t)
    PROVE  IInv' /\ Forward(mirror.notes, mirror'.notes)
<1>0. /\ Mirror(mirror) /\ Library(library) /\ Queues /\ strayed \in SUBSET Records
      /\ removals \in SUBSET Removal /\ Asked
      /\ Bounded /\ Sound(mirror) /\ Numbered /\ Receipted /\ Confirmations
  BY Parts
<1>1. /\ queue' = [queue EXCEPT ![t] = [r \in Records |-> <<>>]] /\ flight' = flight
      /\ mirror' = mirror /\ library' = library /\ setting' = setting
      /\ strayed' = strayed \cup {r \in Records : queue[t][r] # <<>>}
      /\ removals' \subseteq removals
  BY DEF Close
<1>2. Bounded' /\ counts'.issued = counts.issued BY <1>0, <1>1, FaultStep DEF Close
<1>3. \A t1 \in Tabs, r1 \in Records :
         queue'[t1][r1] = IF t1 = t THEN <<>> ELSE queue[t1][r1]
  BY <1>0, <1>1 DEF Queues
<1>4. Range(<<>>) = {} BY DEF Range
<1>5. Pending' \subseteq Pending BY <1>1, <1>3, <1>4 DEF Pending
<1>6. Queues' BY <1>0, <1>1 DEF Queues
<1>7. Numbered' /\ Receipted' BY <1>0, <1>1, <1>2, <1>5 DEF Numbered, Receipted
<1>8. Confirmations' BY <1>0, <1>1 DEF Confirmations
<1>81. removals' \in SUBSET Removal /\ Asked'
  BY <1>0, <1>1, <1>2, <1>5, RemovalsKept DEF Repeated
<1>9. IInv' BY <1>0, <1>1, <1>2, <1>6, <1>7, <1>8, <1>81 DEF IInv, TypeOK, Queues, Bounded
<1> QED BY <1>1, <1>9 DEF Forward, Onward

\* Something is reported.
LEMMA PostedStep ==
    ASSUME IInv, NEW t \in Tabs, NEW r \in Records, NEW events \in Seq(Events), NEW acts \in {0, 1},
           Post(t, r, events, acts), counts.edits + acts <= setting.edits,
           mirror' = mirror, setting' = setting, Library(library'),
           library'.books = library.books, library'.confirmed = library.confirmed,
           library'.uploaded = library.uploaded, strayed' \in SUBSET Records,
           removals' \in SUBSET Removal,
           \A p \in removals' \ removals :
               /\ p.waits = counts.issued + 1 /\ (p.left # {} => p.record \in p.left)
               /\ Len(events) = 1
               /\ p.left = {} => events[1].type = "delete" /\ events[1].record = p.record
    PROVE  IInv'
<1>0. /\ Mirror(mirror) /\ Library(library) /\ Queues /\ strayed \in SUBSET Records
      /\ removals \in SUBSET Removal /\ Asked
      /\ Bounded /\ Sound(mirror) /\ Numbered /\ Receipted /\ Confirmations
  BY Parts
<1>1. /\ Queues' /\ Numbered' /\ Receipted' /\ counts'.issued = counts.issued + Len(events)
      /\ \A d \in Pending' \ Pending :
            \E i \in DOMAIN events : d.id = counts.issued + i /\ d.event = events[i]
  BY <1>0, Counted, PostStep
<1>2. Bounded'
  <2> DEFINE edits == counts.edits + acts
             issued == counts.issued + Len(events)
  <2>1. edits \in 0 .. setting.edits BY <1>0, Counted DEF Bounded
  <2>2. issued \in Nat BY <1>0, Counted
  <2>3. counts' = [counts EXCEPT !.edits = edits, !.issued = issued] BY DEF Post
  <2> HIDE DEF edits, issued
  <2> QED BY <1>0, <2>1, <2>2, <2>3 DEF Bounded
<1>3. Confirmations' BY <1>0 DEF Confirmations
<1>4. Asked'
  <2>0. counts.issued \in Nat /\ Len(events) \in Nat /\ DOMAIN events = 1 .. Len(events)
    BY <1>0, Counted
  <2>1. ASSUME NEW p \in removals' PROVE p.waits \in 0 .. counts'.issued
    <3>1. CASE p \in removals
      <4>1. p.waits \in 0 .. counts.issued BY <1>0, <3>1 DEF Asked
      <4> QED BY <1>1, <2>0, <4>1
    <3>2. CASE p \notin removals BY <1>1, <2>0, <3>2
    <3> QED BY <3>1, <3>2
  <2>2. ASSUME NEW p \in removals'
        PROVE  /\ p.left # {} => p.record \in p.left
               /\ p.left = {} /\ p.waits = 0 => p.record \in library'.confirmed
    <3>1. counts.issued + 1 # 0 BY <2>0
    <3> QED BY <1>0, <3>1 DEF Asked
  <2>3. ASSUME NEW p \in removals', NEW d \in Pending', d.id = p.waits, p.left = {}
        PROVE  d.event.type = "delete" /\ d.event.record = p.record
    <3>1. CASE p \in removals /\ d \in Pending BY <1>0, <2>3, <3>1 DEF Asked
    <3>2. CASE p \in removals /\ d \notin Pending
      <4>1. p.waits \in 0 .. counts.issued BY <1>0, <3>2 DEF Asked
      <4>2. PICK i \in DOMAIN events : d.id = counts.issued + i BY <1>1, <3>2
      <4> QED BY <2>0, <2>3, <4>1, <4>2
    <3>3. CASE p \notin removals /\ d \in Pending
      <4>1. d.id \in 1 .. counts.issued BY <1>0, <3>3 DEF Numbered
      <4>2. d.id = counts.issued + 1 BY <2>3, <3>3
      <4> QED BY <2>0, <4>1, <4>2
    <3>4. CASE p \notin removals /\ d \notin Pending
      <4>1. PICK i \in DOMAIN events : d.id = counts.issued + i /\ d.event = events[i] BY <1>1, <3>4
      <4>2. i = 1 BY <2>0, <2>3, <3>4, <4>1
      <4> QED BY <2>3, <3>4, <4>1, <4>2
    <3> QED BY <3>1, <3>2, <3>3, <3>4
  <2> QED BY <2>1, <2>2, <2>3 DEF Asked
<1> QED BY <1>0, <1>1, <1>2, <1>3, <1>4 DEF IInv, TypeOK, Queues, Bounded

\* The person does something that is reported.
LEMMA PersonStep ==
    ASSUME IInv, NEW t \in Tabs, NEW r \in Records, NEW events \in Seq(Events), Post(t, r, events, 1),
           counts.edits < setting.edits, mirror' = mirror, setting' = setting, removals' = removals,
           Library(library'), library'.books = library.books,
           library'.confirmed = library.confirmed,
           library'.uploaded = library.uploaded, strayed' \in SUBSET Records
    PROVE  IInv'
<1>1. removals \in SUBSET Removal /\ Bounded BY Parts
<1>2. counts.edits + 1 <= setting.edits BY <1>1, Counted
<1> QED BY <1>1, <1>2, PostedStep

\* Another program, or the server by itself, changes the mirror.
LEMMA OtherStep ==
    ASSUME IInv, NEW act, NEW result, Other(act, result), Good(mirror, result.mirror),
           strayed' \in SUBSET Records
    PROVE  IInv' /\ Forward(mirror.notes, mirror'.notes)
<1>0. /\ Mirror(mirror) /\ Library(library) /\ Queues /\ strayed \in SUBSET Records
      /\ removals \in SUBSET Removal /\ Asked
      /\ Bounded /\ Sound(mirror) /\ Numbered /\ Receipted /\ Confirmations
  BY Parts
<1>1. /\ mirror' = result.mirror /\ library' = library /\ queue' = queue /\ flight' = flight
      /\ removals' = removals /\ setting' = setting
  BY DEF Other
<1>2. Bounded' /\ counts'.issued = counts.issued
  <2> DEFINE others == counts.others + 1
  <2>1. others \in 0 .. setting.others BY <1>0, Counted DEF Bounded, Other
  <2>2. counts' = [counts EXCEPT !.others = others] BY DEF Other
  <2> HIDE DEF others
  <2> QED BY <1>0, <1>1, <2>1, <2>2 DEF Bounded
<1>3. Sound(mirror') /\ Mirror(mirror') /\ Later(mirror, mirror') BY <1>1 DEF Good, Sound
<1>4. Pending' = Pending BY <1>1 DEF Pending
<1>5. Numbered' /\ Receipted' BY <1>0, <1>2, <1>3, <1>4 DEF Numbered, Receipted, Later
<1>6. Confirmations' BY <1>0, <1>1, <1>3, ConfirmedStep DEF Later
<1>61. Asked' BY <1>0, <1>1, <1>2, <1>4 DEF Asked
<1>7. IInv' BY <1>0, <1>1, <1>2, <1>3, <1>5, <1>6, <1>61 DEF IInv, TypeOK, Queues, Bounded
<1> QED BY <1>3, <1>7 DEF Later

\* Rows of uploads are deleted when they are old.
LEMMA ExpireStep ==
    ASSUME IInv, Expire
    PROVE  IInv' /\ Forward(mirror.notes, mirror'.notes)
<1>0. /\ Mirror(mirror) /\ Library(library) /\ Queues /\ strayed \in SUBSET Records
      /\ removals \in SUBSET Removal /\ Asked
      /\ Bounded /\ Sound(mirror) /\ Numbered /\ Receipted /\ Confirmations
  BY Parts
<1>1. /\ library' = library /\ queue' = queue /\ flight' = flight /\ strayed' = strayed
      /\ removals' = removals /\ setting' = setting
  BY DEF Expire
<1>2. PICK rows \in SUBSET mirror.staged :
        mirror' = [mirror EXCEPT !.staged = @ \ rows,
                                 !.promoted = {u \in @ : <<u, Manifested>> \notin rows}]
  BY DEF Expire
<1>3. /\ mirror'.books = mirror.books /\ mirror'.notes = mirror.notes
      /\ mirror'.highlights = mirror.highlights /\ mirror'.digests = mirror.digests
      /\ mirror'.links = mirror.links /\ mirror'.buried = mirror.buried
      /\ mirror'.staged \subseteq mirror.staged /\ mirror'.promoted \subseteq mirror.promoted
      /\ mirror'.receipts = mirror.receipts /\ DOMAIN mirror' = DOMAIN mirror
  BY <1>0, <1>2 DEF Mirror, EmptyMirror
<1>4. Bounded' /\ counts'.issued = counts.issued BY <1>0, <1>1, FaultStep DEF Expire
<1>5. Mirror(mirror') BY <1>0, <1>3 DEF Mirror
<1>6. Sound(mirror')
  BY <1>0, <1>3, <1>5, SameBlocks DEF Sound, Gone, Bound, Owned, Cites, Citing
<1>7. Pending' = Pending BY <1>1 DEF Pending
<1>8. Numbered' /\ Receipted' BY <1>0, <1>3, <1>4, <1>7 DEF Numbered, Receipted
<1>9. Confirmations' BY <1>0, <1>1, <1>3, ConfirmedStep
<1>91. Asked' BY <1>0, <1>1, <1>4, <1>7 DEF Asked
<1>10. IInv' BY <1>0, <1>1, <1>4, <1>5, <1>6, <1>8, <1>9, <1>91 DEF IInv, TypeOK, Queues, Bounded
<1> QED BY <1>3, <1>10 DEF Forward, Onward

\* A highlight is saved.
LEMMA SaveHighlightStep ==
    ASSUME IInv, NEW t \in Tabs, NEW h \in Highlights, SaveHighlight(t, h)
    PROVE  IInv'
<1>0. Library(library) /\ Bounded /\ strayed \in SUBSET Records BY Parts
<1>1. h \in Records /\ Now \in Nat BY <1>0, Counted DEF Records, Now
<1>2. counts.edits < setting.edits /\ mirror' = mirror /\ setting' = setting /\ removals' = removals
  BY DEF SaveHighlight, Act
<1>21. ASSUME NEW highlights, Table(highlights, Highlights, Saved),
              library' = [library EXCEPT !.highlights = highlights]
                \/ library' = [library EXCEPT !.highlights = highlights, !.used = @ \cup {h}],
              NEW event \in Events, Post(t, h, <<event>>, 1), strayed' \in SUBSET Records
       PROVE  IInv'
  <2> DEFINE events == <<event>>
  <2>1. events \in Seq(Events) BY <1>21
  <2>2. Post(t, h, events, 1) BY <1>21
  <2> HIDE DEF events
  <2>3. /\ library'.books = library.books /\ library'.highlights = highlights
        /\ library'.notes = library.notes /\ library'.links = library.links
        /\ library'.used \subseteq library.used \cup {h} /\ library'.confirmed = library.confirmed
        /\ library'.uploaded = library.uploaded /\ DOMAIN library' = DOMAIN library
    BY <1>0, <1>21 DEF Library
  <2>4. Library(library') BY <1>0, <1>1, <1>21, <2>3 DEF Library
  <2> QED BY <1>1, <1>2, <1>21, <2>1, <2>2, <2>3, <2>4, PersonStep
<1>3. CASE /\ UNCHANGED strayed
           /\ \E b \in library.books, note \in DOMAIN library.notes \cup {NoNote}, bare \in BOOLEAN :
                 /\ library' = [library EXCEPT
                                  !.highlights = With(@, h, [book |-> b, text |-> Now, note |-> note,
                                                             bare |-> bare, tab |-> t]),
                                  !.used = @ \cup {h}]
                 /\ Post(t, h, <<[type |-> "create", record |-> h,
                                  row |-> [book |-> b, text |-> Now, note |-> note, bare |-> bare]]>>, 1)
  <2>1. PICK b \in library.books, note \in DOMAIN library.notes \cup {NoNote}, bare \in BOOLEAN :
          /\ library' = [library EXCEPT
                           !.highlights = With(@, h, [book |-> b, text |-> Now, note |-> note,
                                                      bare |-> bare, tab |-> t]),
                           !.used = @ \cup {h}]
          /\ Post(t, h, <<[type |-> "create", record |-> h,
                           row |-> [book |-> b, text |-> Now, note |-> note, bare |-> bare]]>>, 1)
    BY <1>3
  <2> DEFINE row == [book |-> b, text |-> Now, note |-> note, bare |-> bare]
             saved == [book |-> b, text |-> Now, note |-> note, bare |-> bare, tab |-> t]
             highlights == With(library.highlights, h, saved)
             event == [type |-> "create", record |-> h, row |-> row]
  <2>2. row \in Draft BY <1>0, <1>1 DEF Draft, Library, Table
  <2>3. saved \in Saved BY <1>0, <1>1 DEF Saved, Library, Table
  <2> HIDE DEF row, saved
  <2>4. event \in Events BY <2>2 DEF Events
  <2>5. Table(highlights, Highlights, Saved) BY <1>0, <2>3 DEF Library, Table, With
  <2>6. library' = [library EXCEPT !.highlights = highlights, !.used = @ \cup {h}]
    BY <2>1 DEF saved
  <2>7. Post(t, h, <<event>>, 1) BY <2>1 DEF row
  <2>8. strayed' \in SUBSET Records BY <1>0, <1>3
  <2> HIDE DEF highlights, event
  <2> QED BY <1>21, <2>4, <2>5, <2>6, <2>7, <2>8
<1>4. CASE /\ h \in DOMAIN library.highlights
           /\ library' = [library EXCEPT !.highlights[h].text = Now, !.highlights[h].bare = FALSE]
           /\ Post(t, h, <<[type |-> "update", record |-> h, row |-> [text |-> Now, bare |-> FALSE]]>>, 1)
           /\ strayed' = strayed \cup {x \in {h} : library.highlights[h].tab # t}
  <2> DEFINE now == Now
             patch == [text |-> now, bare |-> FALSE]
             event == [type |-> "update", record |-> h, row |-> patch]
             highlights == [library.highlights EXCEPT ![h].text = now, ![h].bare = FALSE]
  <2>1. now \in Nat BY <1>1
  <2>2. Post(t, h, <<event>>, 1) BY <1>4
  <2>3. library' = [library EXCEPT !.highlights = highlights] BY <1>0, <1>4 DEF Library
  <2> HIDE DEF now
  <2>4. patch \in Patch BY <2>1 DEF Patch
  <2> HIDE DEF patch
  <2>5. event \in Events BY <2>4 DEF Events
  <2>6. Table(highlights, Highlights, Saved)
    <3>1. Table(library.highlights, Highlights, Saved) BY <1>0 DEF Library
    <3> QED BY <1>4, <2>1, <3>1 DEF Table, Saved
  <2>7. strayed' \in SUBSET Records BY <1>0, <1>1, <1>4
  <2> HIDE DEF event, highlights
  <2> QED BY <1>21, <2>2, <2>3, <2>5, <2>6, <2>7
<1>5. CASE /\ h \in DOMAIN library.highlights
           /\ \E note \in DOMAIN library.notes \cup {NoNote} :
                 /\ library' = [library EXCEPT !.highlights[h].note = note]
                 /\ Post(t, h, <<[type |-> "update", record |-> h, row |-> [note |-> note]]>>, 1)
           /\ UNCHANGED strayed
  <2>1. PICK note \in DOMAIN library.notes \cup {NoNote} :
          /\ library' = [library EXCEPT !.highlights[h].note = note]
          /\ Post(t, h, <<[type |-> "update", record |-> h, row |-> [note |-> note]]>>, 1)
    BY <1>5
  <2> DEFINE patch == [note |-> note]
             event == [type |-> "update", record |-> h, row |-> patch]
             highlights == [library.highlights EXCEPT ![h].note = note]
  <2>2. note \in Notes \cup {NoNote} BY <1>0 DEF Library, Table
  <2>3. patch \in Patch BY <2>2 DEF Patch
  <2>4. Post(t, h, <<event>>, 1) BY <2>1
  <2>5. library' = [library EXCEPT !.highlights = highlights] BY <1>0, <2>1 DEF Library
  <2> HIDE DEF patch
  <2>6. event \in Events BY <2>3 DEF Events
  <2>7. Table(highlights, Highlights, Saved)
    <3>1. Table(library.highlights, Highlights, Saved) BY <1>0 DEF Library
    <3> QED BY <1>5, <2>2, <3>1 DEF Table, Saved
  <2>8. strayed' \in SUBSET Records BY <1>0, <1>5
  <2> HIDE DEF event, highlights
  <2> QED BY <1>21, <2>4, <2>5, <2>6, <2>7, <2>8
<1> QED BY <1>3, <1>4, <1>5 DEF SaveHighlight

\* A note is saved.
LEMMA SaveNoteStep ==
    ASSUME IInv, NEW t \in Tabs, NEW n \in Notes, SaveNote(t, n)
    PROVE  IInv'
<1>0. Library(library) /\ Bounded /\ strayed \in SUBSET Records BY Parts
<1>1. n \in Records /\ Now + 1 \in Nat BY <1>0, Counted DEF Records, Now
<1>11. PICK cited \in SUBSET (Highlights \cap library.used), title \in Titles :
         Post(t, n, <<[type |-> "write", record |-> n, version |-> Now + 1,
                       blocks |-> cited \X {title}]>>, 1)
  BY DEF SaveNote
<1> DEFINE version == Now + 1
           blocks == cited \X {title}
           notes == With(library.notes, n, version)
           e == [type |-> "write", record |-> n, version |-> version, blocks |-> blocks]
           events == <<e>>
<1>2. /\ counts.edits < setting.edits /\ mirror' = mirror /\ setting' = setting /\ strayed' = strayed
      /\ removals' = removals
      /\ library' = [library EXCEPT !.notes = notes, !.used = @ \cup {n}]
      /\ Post(t, n, events, 1)
  BY <1>11 DEF SaveNote, Act
<1>3. version \in Nat BY <1>1
<1>31. blocks \in SUBSET Block BY DEF Block
<1> HIDE DEF version, blocks
<1>4. e \in Events BY <1>3, <1>31 DEF Events
<1> HIDE DEF e
<1>5. events \in Seq(Events) BY <1>4
<1>6. Table(notes, Notes, Nat) BY <1>0, <1>3 DEF Library, Table, With
<1> HIDE DEF notes, events
<1>7. /\ library'.books = library.books /\ library'.highlights = library.highlights
      /\ library'.notes = notes /\ library'.links = library.links
      /\ library'.used = library.used \cup {n} /\ library'.confirmed = library.confirmed
      /\ library'.uploaded = library.uploaded /\ DOMAIN library' = DOMAIN library
  BY <1>0, <1>2 DEF Library
<1>8. Library(library') BY <1>0, <1>1, <1>6, <1>7 DEF Library
<1> QED BY <1>0, <1>1, <1>2, <1>5, <1>7, <1>8, PersonStep

\* An association is saved.
LEMMA SaveLinkStep ==
    ASSUME IInv, NEW t \in Tabs, NEW l \in Links, SaveLink(t, l)
    PROVE  IInv'
<1>0. Library(library) /\ Bounded /\ strayed \in SUBSET Records BY Parts
<1>1. l \in Records BY DEF Records
<1> DEFINE e == [type |-> "create", record |-> l]
           events == <<e>>
<1>2. /\ counts.edits < setting.edits /\ mirror' = mirror /\ setting' = setting /\ strayed' = strayed
      /\ removals' = removals /\ library' = [library EXCEPT !.links = @ \cup {l}, !.used = @ \cup {l}]
      /\ Post(t, l, events, 1)
  BY DEF SaveLink, Act
<1>3. e \in Events BY DEF Events
<1> HIDE DEF e
<1>4. events \in Seq(Events) BY <1>3
<1> HIDE DEF events
<1>5. /\ library'.books = library.books /\ library'.highlights = library.highlights
      /\ library'.notes = library.notes /\ library'.links = library.links \cup {l}
      /\ library'.used = library.used \cup {l} /\ library'.confirmed = library.confirmed
      /\ library'.uploaded = library.uploaded /\ DOMAIN library' = DOMAIN library
  BY <1>0, <1>2 DEF Library
<1>6. Library(library') BY <1>0, <1>1, <1>5 DEF Library
<1> QED BY <1>0, <1>1, <1>2, <1>4, <1>5, <1>6, PersonStep

\* The next deletion of a removal is reported.
LEMMA ReportStep ==
    ASSUME IInv, NEW p \in Removal, NEW acts \in {0, 1}, Report(p, acts),
           counts.edits + acts <= setting.edits, p.left # {} => p.record \in p.left
    PROVE  IInv'
<1>0. Library(library) /\ Bounded /\ strayed \in SUBSET Records /\ removals \in SUBSET Removal
  BY Parts
<1>1. PICK r \in p.left :
        /\ r = p.record => p.left = {r}
        /\ Post(p.tab, r, <<[type |-> "delete", record |-> r]>>, acts)
        /\ removals' = (removals \ {p})
                          \cup {[p EXCEPT !.left = @ \ {r}, !.waits = counts.issued + 1]}
        /\ strayed' = strayed \cup
              {h \in {r} \cap Highlights : h \in DOMAIN library.highlights => library.highlights[h].tab # p.tab}
        /\ mirror' = mirror /\ library' = library /\ setting' = setting
  BY DEF Report
<1>2. p.tab \in Tabs /\ r \in Records \ Uploads BY DEF Removal
<1> DEFINE e == [type |-> "delete", record |-> r]
           events == <<e>>
           next == counts.issued + 1
           left == p.left \ {r}
           q == [p EXCEPT !.left = left, !.waits = next]
<1>3. e \in Events BY <1>2 DEF Events, Records
<1>4. e.type = "delete" /\ e.record = r OBVIOUS
<1>5. Post(p.tab, r, events, acts) BY <1>1
<1>6. removals' = (removals \ {p}) \cup {q} BY <1>1
<1> HIDE DEF e
<1>7. events \in Seq(Events) /\ Len(events) = 1 /\ events[1] = e BY <1>3
<1> HIDE DEF events
<1>8. next \in Nat /\ left \in SUBSET (Records \ Uploads) BY <1>0, Counted DEF Removal
<1>81. left # {} => p.record \in left BY <1>1
<1>82. left = {} => r = p.record OBVIOUS
<1> HIDE DEF next, left
<1>9. q \in Removal /\ q.waits = next /\ q.left = left /\ q.record = p.record BY <1>8 DEF Removal
<1> HIDE DEF q
<1>10. strayed' \in SUBSET Records BY <1>0, <1>1, <1>2
<1>11. removals' \in SUBSET Removal BY <1>0, <1>6, <1>9
<1>12. ASSUME NEW x \in removals' \ removals
       PROVE  /\ x.waits = counts.issued + 1 /\ (x.left # {} => x.record \in x.left)
              /\ Len(events) = 1
              /\ x.left = {} => events[1].type = "delete" /\ events[1].record = x.record
  BY <1>4, <1>6, <1>7, <1>81, <1>82, <1>9 DEF next
<1>13. /\ mirror' = mirror /\ setting' = setting /\ Library(library')
       /\ library'.books = library.books /\ library'.confirmed = library.confirmed
       /\ library'.uploaded = library.uploaded
  BY <1>0, <1>1
<1>14. \A x \in removals' \ removals :
          /\ x.waits = counts.issued + 1 /\ (x.left # {} => x.record \in x.left)
          /\ Len(events) = 1
          /\ x.left = {} => events[1].type = "delete" /\ events[1].record = x.record
  BY <1>12
<1>15. p.tab \in Tabs /\ r \in Records /\ events \in Seq(Events) BY <1>2, <1>7
<1> QED BY <1>5, <1>10, <1>11, <1>13, <1>14, <1>15, PostedStep

\* A removal begins.
LEMMA RemoveStep ==
    ASSUME IInv, NEW t \in Tabs, NEW r \in Records, Remove(t, r)
    PROVE  IInv'
<1>0. Library(library) /\ Bounded BY Parts
<1> DEFINE left == Only(r) \cup {r}
           p == [tab |-> t, record |-> r, left |-> left, waits |-> 0]
<1>1. counts.edits < setting.edits /\ Report(p, 1) BY DEF Remove, Act
<1>2. r \in Records \ Uploads
  <2>1. r \in Books \cup Highlights \cup Notes \cup Links BY <1>0 DEF Remove, Library, Table
  <2> QED BY <2>1, SettingsAssumption DEF Records
<1>3. left \in SUBSET (Records \ Uploads)
  <2>1. Only(r) \in SUBSET Highlights BY <1>0 DEF Only, Library, Table
  <2> QED BY <1>2, <2>1, SettingsAssumption DEF Records
<1>4. r \in left OBVIOUS
<1> HIDE DEF left
<1>5. p \in Removal /\ p.record = r /\ p.left = left BY <1>2, <1>3 DEF Removal
<1> HIDE DEF p
<1>6. counts.edits + 1 <= setting.edits BY <1>0, <1>1, Counted
<1> QED BY <1>1, <1>4, <1>5, <1>6, ReportStep

\* A removal goes on.
LEMMA ProceedStep ==
    ASSUME IInv, NEW p \in removals, Proceed(p)
    PROVE  IInv'
<1>1. Bounded /\ removals \in SUBSET Removal /\ Asked BY Parts
<1>2. counts.edits + 0 <= setting.edits BY <1>1, Counted DEF Bounded
<1>3. p \in Removal /\ (p.left # {} => p.record \in p.left) /\ Report(p, 0) BY <1>1 DEF Asked, Proceed
<1> QED BY <1>2, <1>3, ReportStep

\* What the library is without a record.
LEMMA LetGoLibrary ==
    ASSUME Library(library), NEW r, NEW gone
    PROVE  LET l == LetGo(r, gone)
           IN  /\ Library(l) /\ l.books = library.books \ {r} /\ l.used = library.used
               /\ l.confirmed = library.confirmed /\ l.uploaded = library.uploaded
               /\ DOMAIN l.highlights \subseteq DOMAIN library.highlights
               /\ \A h \in DOMAIN l.highlights :
                     /\ Alike(l.highlights[h], library.highlights[h])
                     /\ l.highlights[h].tab = library.highlights[h].tab
               /\ DOMAIN l.notes \subseteq DOMAIN library.notes
               /\ \A n \in DOMAIN l.notes : l.notes[n] = library.notes[n]
<1> DEFINE l == LetGo(r, gone)
           away == Only(r) \cup {h \in DOMAIN library.highlights : h = r \/ library.highlights[h].book = r}
           rest == Without(library.highlights, away)
           highlights == [h \in DOMAIN rest |->
                            IF rest[h].note = r THEN [rest[h] EXCEPT !.note = NoNote] ELSE rest[h]]
           notes == Without(library.notes, {r} \cup gone)
<1>1. /\ l.books = library.books \ {r} /\ l.highlights = highlights /\ l.notes = notes
      /\ l.links \subseteq library.links /\ l.used = library.used
      /\ l.confirmed = library.confirmed /\ l.uploaded = library.uploaded
      /\ DOMAIN l = DOMAIN library
  BY DEF LetGo, Library
<1>2. /\ Table(library.highlights, Highlights, Saved) /\ Table(library.notes, Notes, Nat)
  BY DEF Library
<1>3. DOMAIN rest = DOMAIN library.highlights \ away /\ \A h \in DOMAIN rest : rest[h] = library.highlights[h]
  BY DEF Without, Restrict
<1>4. \A h \in DOMAIN library.highlights \ away :
         library.highlights[h].note = r => ~library.highlights[h].bare
  BY DEF Only
<1> HIDE DEF away, rest
<1>5. ASSUME NEW h \in DOMAIN highlights
      PROVE  /\ h \in DOMAIN library.highlights /\ highlights[h] \in Saved
             /\ Alike(highlights[h], library.highlights[h])
             /\ highlights[h].tab = library.highlights[h].tab
  <2>1. h \in DOMAIN library.highlights \ away /\ rest[h] = library.highlights[h] BY <1>3
  <2>2. library.highlights[h] \in Saved BY <1>2, <2>1 DEF Table
  <2>3. CASE library.highlights[h].note = r
    <3>1. highlights[h] = [library.highlights[h] EXCEPT !.note = NoNote] BY <2>1, <2>3
    <3> HIDE DEF highlights
    <3> QED BY <1>4, <2>1, <2>2, <2>3, <3>1 DEF Saved, Alike
  <2>4. CASE library.highlights[h].note # r
    <3>1. highlights[h] = library.highlights[h] BY <2>1, <2>4
    <3> HIDE DEF highlights
    <3> QED BY <2>1, <2>2, <3>1 DEF Alike
  <2> QED BY <2>3, <2>4
<1>6. DOMAIN notes \subseteq DOMAIN library.notes /\ \A n \in DOMAIN notes : notes[n] = library.notes[n]
  BY DEF Without, Restrict
<1> HIDE DEF l, highlights, notes
<1>7. Table(highlights, Highlights, Saved) /\ Table(notes, Notes, Nat) BY <1>2, <1>5, <1>6 DEF Table
<1>8. Library(l) BY <1>1, <1>7 DEF Library
<1> QED BY <1>1, <1>5, <1>6, <1>8 DEF l

\* A removal ends in the library.
LEMMA CommitStep ==
    ASSUME IInv, NEW p \in removals, Commit(p)
    PROVE  IInv'
<1>0. /\ Mirror(mirror) /\ Library(library) /\ Queues /\ strayed \in SUBSET Records
      /\ removals \in SUBSET Removal /\ Asked
      /\ Bounded /\ Sound(mirror) /\ Numbered /\ Receipted /\ Confirmations
  BY Parts
<1>1. PICK gone : library' = LetGo(p.record, gone) BY DEF Commit
<1>2. /\ mirror' = mirror /\ queue' = queue /\ flight' = flight /\ strayed' = strayed
      /\ setting' = setting /\ counts' = counts /\ removals' \subseteq removals
  BY DEF Commit
<1>3. /\ Library(library') /\ library'.books = library.books \ {p.record}
      /\ library'.confirmed = library.confirmed /\ library'.uploaded = library.uploaded
  BY <1>0, <1>1, LetGoLibrary
<1>4. p.record \in library.confirmed BY <1>0 DEF Commit, Asked
<1>5. Pending' = Pending BY <1>2 DEF Pending
<1>6. Numbered' /\ Receipted' BY <1>0, <1>2, <1>5 DEF Numbered, Receipted
<1>7. removals' \in SUBSET Removal /\ Asked' BY <1>0, <1>2, <1>3, <1>5, RemovalsKept DEF Repeated
<1>8. Confirmations' BY <1>0, <1>2, <1>3, <1>4 DEF Confirmations
<1> QED BY <1>0, <1>2, <1>3, <1>6, <1>7, <1>8 DEF IInv, TypeOK, Queues, Bounded

\* A book is renamed.
LEMMA RenameStep ==
    ASSUME IInv, NEW t \in Tabs, NEW b \in Books, Rename(t, b)
    PROVE  IInv'
<1>0. Library(library) /\ Bounded /\ strayed \in SUBSET Records BY Parts
<1>1. b \in Records BY DEF Records
<1>2. PICK title \in Titles : Post(t, b, <<[type |-> "update", record |-> b, title |-> title]>>, 1)
  BY DEF Rename
<1> DEFINE e == [type |-> "update", record |-> b, title |-> title]
           events == <<e>>
<1>3. /\ counts.edits < setting.edits /\ mirror' = mirror /\ setting' = setting /\ library' = library
      /\ strayed' = strayed /\ removals' = removals
  BY DEF Rename, Act
<1>4. e \in Events BY DEF Events
<1>5. Post(t, b, events, 1) BY <1>2
<1> HIDE DEF e
<1>6. events \in Seq(Events) BY <1>4
<1> HIDE DEF events
<1> QED BY <1>0, <1>1, <1>3, <1>5, <1>6, PersonStep

\* A book is uploaded.
LEMMA UploadStep ==
    ASSUME IInv, NEW t \in Tabs, NEW u \in Uploads, Upload(t, u)
    PROVE  IInv'
<1>0. Library(library) /\ Bounded /\ strayed \in SUBSET Records BY Parts
<1>1. u \in Records BY DEF Records
<1> DEFINE first == [type |-> "start", record |-> u]
           chunks == [i \in 1 .. Chunks |-> [type |-> "chunk", record |-> u, index |-> i - 1]]
           last == [type |-> "complete", record |-> u]
           more == [type |-> "describe", record |-> u]
           tail == IF u \in Described THEN <<more>> ELSE <<>>
           events == <<first>> \o chunks \o <<last>> \o tail
<1>2. /\ counts.edits < setting.edits /\ mirror' = mirror /\ setting' = setting /\ strayed' = strayed
      /\ removals' = removals /\ library' = [library EXCEPT !.used = @ \cup {u}] /\ Post(t, u, events, 1)
  BY DEF Upload, Act
<1>3. first \in Events /\ last \in Events /\ more \in Events BY DEF Events
<1>4. chunks \in Seq(Events)
  <2>1. ASSUME NEW i \in 1 .. Chunks
        PROVE  [type |-> "chunk", record |-> u, index |-> i - 1] \in Events
    <3> DEFINE j == i - 1
    <3>1. j \in 0 .. Chunks - 1 BY MirrorAssumption
    <3> HIDE DEF j
    <3>2. [type |-> "chunk", record |-> u, index |-> j] \in Events BY <3>1 DEF Events
    <3> QED BY <3>2 DEF j
  <2>2. chunks \in [1 .. Chunks -> Events] BY <2>1
  <2> HIDE DEF chunks
  <2> QED BY <2>2, MirrorAssumption
<1> HIDE DEF first, chunks, last, more
<1>41. tail \in Seq(Events) BY <1>3
<1> HIDE DEF tail
<1>42. <<first>> \in Seq(Events) /\ <<last>> \in Seq(Events) BY <1>3
<1>5. events \in Seq(Events) BY <1>4, <1>41, <1>42
<1> HIDE DEF events
<1>6. /\ library'.books = library.books /\ library'.highlights = library.highlights
      /\ library'.notes = library.notes /\ library'.links = library.links
      /\ library'.used = library.used \cup {u} /\ library'.confirmed = library.confirmed
      /\ library'.uploaded = library.uploaded /\ DOMAIN library' = DOMAIN library
  BY <1>0, <1>2 DEF Library
<1>7. Library(library') BY <1>0, <1>1, <1>6 DEF Library
<1> QED BY <1>0, <1>1, <1>2, <1>5, <1>6, <1>7, PersonStep

\* Another program writes.
LEMMA RestStep ==
    ASSUME IInv, \/ \E b \in Books : RestBook(b)
                 \/ \E h \in Highlights : RestHighlight(h)
                 \/ \E n \in Notes : RestNote(n)
                 \/ \E hash \in Hashes : Digest(hash)
    PROVE  IInv' /\ Forward(mirror.notes, mirror'.notes)
<1>0. Sound(mirror) /\ Bounded /\ strayed \in SUBSET Records BY Parts
<1>1. Now \in Nat BY <1>0, Counted DEF Now
<1>2. ASSUME NEW b \in Books, RestBook(b) PROVE IInv' /\ Forward(mirror.notes, mirror'.notes)
  <2>0. strayed' \in SUBSET Records BY <1>0, <1>2 DEF RestBook
  <2>1. ASSUME NEW title \in Titles, NEW hash \in Hashes,
               Other("rest book", BookImported(mirror, b, title, hash, Now))
        PROVE  IInv' /\ Forward(mirror.notes, mirror'.notes)
    BY <1>0, <1>1, <2>0, <2>1, BookImportedGood, OtherStep
  <2>2. ASSUME NEW title \in Titles, Other("rest book", BookUpdated(mirror, b, title, Now))
        PROVE  IInv' /\ Forward(mirror.notes, mirror'.notes)
    BY <1>0, <1>1, <2>0, <2>2, BookUpdatedGood, OtherStep
  <2>3. ASSUME Other("rest book", BookDeleted(mirror, b, FALSE, Now))
        PROVE  IInv' /\ Forward(mirror.notes, mirror'.notes)
    BY <1>0, <1>1, <2>0, <2>3, BookDeletedGood, OtherStep
  <2> QED BY <1>2, <2>1, <2>2, <2>3 DEF RestBook
<1>3. ASSUME NEW h \in Highlights, RestHighlight(h) PROVE IInv' /\ Forward(mirror.notes, mirror'.notes)
  <2>0. strayed' \in SUBSET Records BY <1>0, <1>3 DEF RestHighlight, Records
  <2>1. ASSUME NEW b \in Books, NEW note \in Notes \cup {NoNote}, NEW bare \in BOOLEAN,
               Other("rest highlight", HighlightCreated(mirror, h,
                   [book |-> b, text |-> Now, note |-> note, bare |-> bare /\ note # NoNote], Now))
        PROVE  IInv' /\ Forward(mirror.notes, mirror'.notes)
    <3> DEFINE row == [book |-> b, text |-> Now, note |-> note, bare |-> bare /\ note # NoNote]
    <3>1. row \in Draft BY <1>1 DEF Draft
    <3>2. Other("rest highlight", HighlightCreated(mirror, h, row, Now)) BY <2>1
    <3> HIDE DEF row
    <3> QED BY <1>0, <1>1, <2>0, <3>1, <3>2, HighlightCreatedGood, OtherStep
  <2>2. ASSUME NEW patch \in Patch, Other("rest highlight", HighlightUpdated(mirror, h, patch, Now))
        PROVE  IInv' /\ Forward(mirror.notes, mirror'.notes)
    BY <1>0, <1>1, <2>0, <2>2, HighlightUpdatedGood, OtherStep
  <2>3. ASSUME Other("rest highlight", HighlightDeleted(mirror, h, Now))
        PROVE  IInv' /\ Forward(mirror.notes, mirror'.notes)
    BY <1>0, <1>1, <2>0, <2>3, HighlightDeletedGood, OtherStep
  <2>4. \A note \in Notes \cup {NoNote} : [note |-> note] \in Patch BY DEF Patch
  <2>5. \A b \in Books : [book |-> b] \in Patch BY DEF Patch
  <2> QED BY <1>3, <2>1, <2>2, <2>3, <2>4, <2>5 DEF RestHighlight
<1>4. ASSUME NEW n \in Notes, RestNote(n) PROVE IInv' /\ Forward(mirror.notes, mirror'.notes)
  <2>0. strayed' \in SUBSET Records BY <1>0, <1>4 DEF RestNote
  <2>1. CASE Other("rest note", NotePosted(mirror, n, Now))
    BY <1>0, <1>1, <2>0, <2>1, NotePostedGood, OtherStep
  <2>2. CASE Other("rest note", NoteDeleted(mirror, n, FALSE))
    BY <1>0, <2>0, <2>2, NoteDeletedGood, OtherStep
  <2>3. CASE Other("rest note", NoteRetitled(mirror, n, Now))
    BY <1>0, <1>1, <2>0, <2>3, NoteRetitledGood, OtherStep
  <2> QED BY <1>4, <2>1, <2>2, <2>3 DEF RestNote
<1>5. ASSUME NEW hash \in Hashes, Digest(hash) PROVE IInv' /\ Forward(mirror.notes, mirror'.notes)
  <2>1. strayed' \in SUBSET Records /\ Other("digest", DigestSaved(mirror, hash))
    BY <1>0, <1>5 DEF Digest
  <2> QED BY <1>0, <2>1, DigestSavedGood, OtherStep
<1> QED BY <1>2, <1>3, <1>4, <1>5

\* Whatever happens.
LEMMA NextStep ==
    ASSUME IInv, [Next]_vars
    PROVE  IInv' /\ Forward(mirror.notes, mirror'.notes)
<1>1. ASSUME NEW d \in flight, Answer(d) PROVE IInv' /\ Forward(mirror.notes, mirror'.notes)
  BY <1>1, AnswerStep
<1>2. ASSUME NEW d \in flight, Lose(d) PROVE IInv' /\ Forward(mirror.notes, mirror'.notes)
  BY <1>2, LoseStep
<1>3. ASSUME NEW t \in Tabs, Close(t) PROVE IInv' /\ Forward(mirror.notes, mirror'.notes)
  BY <1>3, CloseStep
<1>4. ASSUME NEW t \in Tabs,
             \/ \E h \in Highlights : SaveHighlight(t, h)
             \/ \E n \in Notes : SaveNote(t, n)
             \/ \E l \in Links : SaveLink(t, l)
             \/ \E r \in Records : Remove(t, r)
             \/ \E b \in Books : Rename(t, b)
             \/ \E u \in Uploads : Upload(t, u)
      PROVE  IInv' /\ Forward(mirror.notes, mirror'.notes)
  <2>1. mirror' = mirror
    BY <1>4 DEF SaveHighlight, SaveNote, SaveLink, Remove, Report, Rename, Upload
  <2>2. IInv'
    BY <1>4, SaveHighlightStep, SaveNoteStep, SaveLinkStep, RemoveStep, RenameStep, UploadStep
  <2> QED BY <2>1, <2>2 DEF Forward, Onward
<1>41. ASSUME NEW p \in removals, Proceed(p) \/ Commit(p)
       PROVE  IInv' /\ Forward(mirror.notes, mirror'.notes)
  <2>1. mirror' = mirror BY <1>41 DEF Proceed, Report, Commit
  <2>2. IInv' BY <1>41, ProceedStep, CommitStep
  <2> QED BY <2>1, <2>2 DEF Forward, Onward
<1>5. CASE UNCHANGED vars
  <2>0. /\ mirror' = mirror /\ library' = library /\ queue' = queue /\ flight' = flight
        /\ removals' = removals /\ strayed' = strayed /\ setting' = setting /\ counts' = counts
    BY <1>5 DEF vars
  <2>1. TypeOK' BY <2>0 DEF IInv, TypeOK
  <2>2. Pending' = Pending BY <2>0 DEF Pending
  <2>3. Sound(mirror)' /\ Numbered' /\ Receipted' /\ Asked' /\ Confirmations'
    BY <2>0, <2>2 DEF IInv, Numbered, Receipted, Asked, Confirmations
  <2> QED BY <2>0, <2>1, <2>3 DEF IInv, Forward, Onward
<1> QED BY <1>1, <1>2, <1>3, <1>4, <1>41, <1>5, RestStep, ExpireStep DEF Next

\* At the start nothing is pending, and the mirror has at most books.
LEMMA InitHolds == Init => IInv
<1> SUFFICES ASSUME Init PROVE IInv
  OBVIOUS
<1>1. Setting(setting) BY SettingsAssumption DEF Init
<1>2. /\ mirror.books = setting.mirrored /\ mirror.highlights = <<>> /\ mirror.notes = <<>>
      /\ mirror.links = {} /\ mirror.buried = {} /\ mirror.staged = {} /\ mirror.promoted = {}
      /\ mirror.digests = {} /\ mirror.receipts = {} /\ DOMAIN mirror = DOMAIN EmptyMirror
  BY DEF Init, EmptyMirror
<1>3. DOMAIN mirror.highlights = {} /\ DOMAIN mirror.notes = {} BY <1>2
<1>4. Mirror(mirror) BY <1>1, <1>2, <1>3 DEF Mirror, Table, Setting
<1>5. Sound(mirror) BY <1>2, <1>3, <1>4 DEF Sound, Gone, Bound, Owned, Cites, Citing
<1>6. Library(library)
  <2>1. DOMAIN library.highlights = {} /\ DOMAIN library.notes = {} BY DEF Init
  <2> QED BY <2>1 DEF Init, Library, Table
<1>7. Queues BY DEF Init, Queues
<1>8. Bounded BY <1>1 DEF Init, Bounded, Setting
<1>9. Pending = {}
  <2>1. Range(<<>>) = {} BY DEF Range
  <2> QED BY <2>1 DEF Init, Pending
<1>10. Numbered /\ Receipted BY <1>2, <1>9 DEF Numbered, Receipted
<1>11. Confirmations BY DEF Init, Confirmations
<1>12. Asked BY DEF Init, Asked
<1> QED BY <1>4, <1>5, <1>6, <1>7, <1>8, <1>10, <1>11, <1>12, Parts DEF Init

\* The invariant holds of every behaviour.
LEMMA Invariant == Spec => []IInv
<1>1. IInv /\ [Next]_vars => IInv' BY NextStep
<1> QED BY <1>1, InitHolds, PTL DEF Spec

\* Every state of the mirror, the library, the queues and the requests has its type.
THEOREM MirrorTyped == Spec => []TypeOK
<1>1. IInv => TypeOK BY DEF IInv
<1> QED BY <1>1, Invariant, PTL

\* Nothing is left of a book or a note that was deleted, and nothing comes back
\* with a late or a repeated request.
THEOREM BuriedStays == Spec => []Buried
<1>1. IInv => Buried
  <2> SUFFICES ASSUME IInv PROVE Buried
    OBVIOUS
  <2>1. Mirror(mirror) /\ Gone(mirror) /\ Bound(mirror) BY DEF IInv, Sound
  <2>2. \A n \in Notes \cap mirror.buried : n # NoNote BY MirrorAssumption
  <2> QED BY <2>1, <2>2 DEF Buried, Gone, Bound, Staged, Linked
<1> QED BY <1>1, Invariant, PTL

\* A highlight is stored under the title that its book has.
THEOREM TitlesAgree == Spec => []Titled
<1>1. IInv => Titled BY DEF IInv, Sound, Bound, Titled
<1> QED BY <1>1, Invariant, PTL

\* A note has the citations of the highlights linked to it, and no others but those
\* that came with what a client wrote; one that a client has replaced has at most these.
THEOREM CitationsFollow == Spec => []Cited
<1>1. IInv => Cited BY DEF IInv, Sound, Cites, Citing, Quoting, Cited
<1> QED BY <1>1, Invariant, PTL

\* A digest belongs to a book, though its author answers late.
THEOREM DigestsStayOwned == Spec => []DigestsOwned
<1>1. IInv => DigestsOwned BY DEF IInv, Sound, Owned, DigestsOwned
<1> QED BY <1>1, Invariant, PTL

\* No step takes a note back to an older version.
THEOREM NotesGoForward == Spec => NotesForward
<1> DEFINE Step == \A n \in DOMAIN mirror.notes \cap DOMAIN mirror'.notes :
                     LET old == mirror.notes[n]
                         new == mirror'.notes[n]
                     IN  <<new.version, new.blocks, new.carried>> # <<old.version, old.blocks, old.carried>>
                            => new.version > old.version
<1>1. IInv /\ [Next]_vars => [Step]_vars BY NextStep DEF Forward, Onward
<1> QED BY <1>1, Invariant, PTL DEF Spec, NotesForward

\* A book that the library lets go of, and what it takes for deleted or uploaded, the
\* server has deleted or has, whatever was lost or came twice.
THEOREM ConfirmationsHold == Spec => []Confirmations
<1>1. IInv => Confirmations BY DEF IInv
<1> QED BY <1>1, Invariant, PTL

-----------------------------------------------------------------------------
(* The mirror in step with the library.  What an event does to a highlight *)
(* or a note.                                                              *)

\* Events that carry the text of a highlight, or end it.
Texts(e) == e.type = "create" \/ (e.type = "update" /\ "text" \in DOMAIN e.row)
Telling(e) == Texts(e) \/ e.type = "delete"

\* The events about a highlight and about a note.
LEMMA HighlightEvent ==
    ASSUME NEW e \in Events, e.record \in Highlights
    PROVE  \/ e.type = "create" /\ e.row \in Draft
           \/ e.type = "update" /\ e.row \in Patch
           \/ e.type = "delete"
BY SettingsAssumption DEF Events

\* A patch that moves nothing to another book.
LEMMA PatchEvent ==
    ASSUME NEW e \in Events, e.record \in Highlights, e.type = "update", "book" \notin DOMAIN e.row
    PROVE  \/ DOMAIN e.row = {"text", "bare"} /\ e.row.bare = FALSE
           \/ DOMAIN e.row = {"note"}
<1>1. e.row \in Patch BY HighlightEvent
<1> QED BY <1>1 DEF Patch

LEMMA NoteEvent ==
    ASSUME NEW e \in Events, e.record \in Notes
    PROVE  (e.type = "write" /\ e.version \in Nat) \/ e.type = "delete"
BY SettingsAssumption, MirrorAssumption DEF Events

\* An event leaves the highlights aside that it is not about.
LEMMA HandledAside ==
    ASSUME NEW m, Mirror(m), NEW e \in Events, NEW h \in Highlights, e.record # h
    PROVE  Aside(m, Handled(m, e).mirror, h)
<1> DEFINE k == Handled(m, e).mirror
<1> USE SettingsAssumption, MirrorAssumption
<1>0. \A x : x.highlights = m.highlights => Aside(m, x, h) BY DEF Aside, Alike
<1>1. CASE e \in [type : {"create"}, record : Highlights, row : Draft]
  <2>1. k = HighlightCreated(m, e.record, e.row, Now).mirror BY <1>1 DEF Handled
  <2>2. \A x : x # e.record => Aside(m, HighlightCreated(m, e.record, e.row, Now).mirror, x)
    BY CreatedHighlights
  <2> QED BY <2>1, <2>2
<1>2. CASE e \in [type : {"update"}, record : Highlights, row : Patch]
  <2>1. k = HighlightUpdated(m, e.record, e.row, Now).mirror BY <1>2 DEF Handled
  <2>2. \A x : x # e.record => Aside(m, HighlightUpdated(m, e.record, e.row, Now).mirror, x)
    BY UpdatedHighlights
  <2> QED BY <2>1, <2>2
<1>3. CASE e \in [type : {"update"}, record : Books, title : Titles]
  <2>1. k = BookUpdated(m, e.record, e.title, Now).mirror /\ e.record \in Books
    BY <1>3 DEF Handled
  <2> QED BY <2>1, BooksAside
<1>4. CASE e \in [type : {"write"}, record : Notes, version : Nat, blocks : SUBSET Block]
  <2>1. k = NoteWritten(m, e.record, e.version, e.blocks).mirror /\ e.record \in Notes
    BY <1>4 DEF Handled
  <2> QED BY <2>1, NotesAside
<1>5. CASE e \in [type : {"create"}, record : Links]
  <2>1. k = LinkCreated(m, e.record).mirror BY <1>5 DEF Handled
  <2>2. k.highlights = m.highlights
    BY <2>1 DEF LinkCreated, Done, Failed, Mirror, EmptyMirror
  <2> QED BY <1>0, <2>2
<1>6. CASE e \in [type : {"delete"}, record : Books \cup Highlights \cup Notes \cup Links]
  <2>0. e.type = "delete" /\ e.record \in Books \cup Highlights \cup Notes \cup Links BY <1>6
  <2>1. CASE e.record \in Books
    <3>1. k = BookDeleted(m, e.record, TRUE, Now).mirror BY <2>0, <2>1 DEF Handled
    <3> QED BY <2>1, <3>1, BooksAside
  <2>2. CASE e.record \in Highlights
    <3>1. k = HighlightDeleted(m, e.record, Now).mirror BY <2>0, <2>2 DEF Handled
    <3> QED BY <3>1, DeletedHighlights
  <2>3. CASE e.record \in Notes
    <3>1. k = NoteDeleted(m, e.record, TRUE).mirror BY <2>0, <2>3 DEF Handled
    <3> QED BY <2>3, <3>1, NotesAside
  <2>4. CASE e.record \in Links
    <3>1. k = [m EXCEPT !.links = @ \ {e.record}] BY <2>0, <2>4 DEF Handled, Done
    <3>2. k.highlights = m.highlights BY <3>1 DEF Mirror, EmptyMirror
    <3> QED BY <1>0, <3>2
  <2> QED BY <2>0, <2>1, <2>2, <2>3, <2>4
<1>7. CASE e \in [type : {"start", "complete", "describe"}, record : Uploads]
  <2>0. e.type \in {"start", "complete", "describe"} /\ e.record \in Uploads BY <1>7
  <2>1. CASE e.type = "start"
    <3>1. k = UploadStarted(m, e.record).mirror BY <2>0, <2>1 DEF Handled
    <3> QED BY <3>1, UploadsAside
  <2>2. CASE e.type = "complete"
    <3>1. k = UploadCompleted(m, e.record, Now).mirror BY <2>0, <2>2 DEF Handled
    <3> QED BY <3>1, UploadsAside
  <2>3. CASE e.type = "describe"
    <3>1. k = BookUpdated(m, Manifest[e.record].book, Manifest[e.record].title, Now).mirror
      BY <2>0, <2>3 DEF Handled
    <3>2. Manifest[e.record].book \in Books BY <2>0
    <3> QED BY <3>1, <3>2, BooksAside
  <2> QED BY <2>0, <2>1, <2>2, <2>3
<1>8. CASE e \in [type : {"chunk"}, record : Uploads, index : 0 .. Chunks - 1]
  <2>1. k = ChunkPut(m, e.record, e.index).mirror BY <1>8 DEF Handled
  <2> QED BY <2>1, UploadsAside
<1> QED BY <1>1, <1>2, <1>3, <1>4, <1>5, <1>6, <1>7, <1>8 DEF Events

\* What an event makes of its own highlight.
Fields == {"book", "text", "note", "bare"}
Made(m, k, e, h) ==
    /\ e.type = "create" =>
          h \in DOMAIN k.highlights /\ \A f \in Fields : k.highlights[h][f] = e.row[f]
    /\ e.type = "update" =>
          /\ h \in DOMAIN m.highlights /\ h \in DOMAIN k.highlights
          /\ \A f \in Fields :
                k.highlights[h][f] = IF f \in DOMAIN e.row THEN e.row[f] ELSE m.highlights[h][f]
    /\ e.type = "delete" => h \notin DOMAIN k.highlights

LEMMA HandledOwn ==
    ASSUME NEW m, Mirror(m), NEW e \in Events, e.record \in Highlights
    PROVE  LET done == Handled(m, e)
           IN  /\ done.answer = "ok" => Made(m, done.mirror, e, e.record)
               /\ done.answer # "ok" => done.mirror = m
<1> DEFINE done == Handled(m, e)
<1> USE SettingsAssumption
<1>1. CASE e.type = "create"
  <2>1. done = HighlightCreated(m, e.record, e.row, Now) BY <1>1 DEF Handled
  <2> QED BY <1>1, <2>1, CreatedHighlights DEF Made, Fields
<1>2. CASE e.type = "update"
  <2>1. done = HighlightUpdated(m, e.record, e.row, Now) BY <1>2 DEF Handled
  <2> QED BY <1>2, <2>1, UpdatedHighlights DEF Made, Fields
<1>3. CASE e.type = "delete"
  <2>1. done = HighlightDeleted(m, e.record, Now) BY <1>3 DEF Handled
  <2>2. done.answer = "ok" BY <2>1 DEF HighlightDeleted, Done
  <2> QED BY <1>3, <2>1, <2>2, DeletedHighlights DEF Made
<1> QED BY <1>1, <1>2, <1>3, HighlightEvent

\* What a request makes of a highlight: nothing, or what its event says, with its
\* receipt.
Effect(m, k, d, h) ==
    \/ /\ Aside(m, k, h)
       /\ d.event.record = h => d.id \in m.receipts \/ d.id \notin k.receipts
    \/ /\ d.event.record = h
       /\ d.id \notin m.receipts /\ d.id \in k.receipts
       /\ Made(m, k, d.event, h)

LEMMA ReceivedEffect ==
    ASSUME NEW m, Sound(m), counts.edits \in Nat, NEW d \in Delivery, NEW h \in Highlights
    PROVE  Effect(m, Received(m, d).mirror, d, h)
<1> DEFINE done == Handled(m, d.event)
           n == done.mirror
           k == Received(m, d).mirror
           plain == d.event.type \notin {"start", "chunk", "complete"}
<1>0. d.event \in Events /\ d.id \in Nat /\ Mirror(m) BY DEF Delivery, Sound
<1>1. Aside(m, m, h) BY DEF Aside, Alike
<1>9. Mirror(n) /\ n.receipts = m.receipts BY <1>0, HandledGood DEF Good, Sound, Later
<1>2. d.event.record # h => Aside(m, n, h) BY <1>0, HandledAside
<1>3. d.event.record = h =>
         /\ done.answer = "ok" => Made(m, n, d.event, h)
         /\ done.answer # "ok" => n = m
  BY <1>0, HandledOwn
<1>4. d.event.record = h => plain BY <1>0, HighlightEvent
<1>5. CASE ~plain
  <2>1. k = n BY <1>5 DEF Received
  <2> QED BY <1>2, <1>4, <1>5, <2>1 DEF Effect
<1>6. CASE plain /\ d.id \in m.receipts
  <2>1. k = m BY <1>6 DEF Received, Done
  <2> QED BY <1>1, <1>6, <2>1 DEF Effect
<1>7. CASE plain /\ d.id \notin m.receipts /\ done.answer # "ok"
  <2>1. k = n BY <1>7 DEF Received
  <2>2. Aside(m, n, h) BY <1>1, <1>2, <1>3, <1>7
  <2> HIDE DEF n
  <2> QED BY <1>7, <1>9, <2>1, <2>2 DEF Effect
<1>8. CASE plain /\ d.id \notin m.receipts /\ done.answer = "ok"
  <2>1. k = [n EXCEPT !.receipts = @ \cup {d.id}] BY <1>8 DEF Received, Done
  <2> HIDE DEF n, k
  <2>2. k.highlights = n.highlights /\ k.buried = n.buried /\ d.id \in k.receipts
    BY <1>9, <2>1 DEF Mirror, EmptyMirror
  <2>3. CASE d.event.record # h
    <3>1. Aside(m, k, h) BY <1>2, <2>2, <2>3 DEF Aside, n
    <3> QED BY <2>3, <3>1 DEF Effect, k
  <2>4. CASE d.event.record = h
    <3>1. Made(m, n, d.event, h) BY <1>3, <1>8, <2>4 DEF n
    <3> HIDE DEF done
    <3>2. Made(m, k, d.event, h) BY <2>2, <3>1 DEF Made
    <3> QED BY <1>8, <2>2, <2>4, <3>2 DEF Effect, k
  <2> QED BY <2>3, <2>4
<1> QED BY <1>5, <1>6, <1>7, <1>8

\* A request that leaves a receipt of a write has brought the note.
LEMMA ReceivedNote ==
    ASSUME NEW m, Sound(m), counts.edits \in Nat, NEW d \in Delivery,
           d.event.record \in Notes, d.event.type = "write"
    PROVE  LET k == Received(m, d).mirror
               n == d.event.record
           IN  \/ d.id \in m.receipts \/ n \in k.buried
               \/ n \in DOMAIN k.notes /\ k.notes[n].version >= d.event.version
<1> DEFINE n == d.event.record
           done == Handled(m, d.event)
           k == Received(m, d).mirror
<1> SUFFICES ASSUME d.id \notin m.receipts
             PROVE  n \in k.buried \/ (n \in DOMAIN k.notes /\ k.notes[n].version >= d.event.version)
  OBVIOUS
<1>1. d.event \in Events /\ Mirror(m) BY DEF Delivery, Sound
<1>2. d.event.version \in Nat BY <1>1, NoteEvent
<1>3. done = NoteWritten(m, n, d.event.version, d.event.blocks)
  BY <1>1, SettingsAssumption, MirrorAssumption DEF Handled
<1>4. Mirror(done.mirror) BY <1>1, HandledGood DEF Good, Sound
<1>5. done.answer = "ok" BY <1>3 DEF NoteWritten, Replaced, Done
<1>6. k = [done.mirror EXCEPT !.receipts = @ \cup {d.id}] BY <1>1, <1>5 DEF Received, Done
<1>7. \/ n \in done.mirror.buried
      \/ n \in DOMAIN done.mirror.notes /\ done.mirror.notes[n].version >= d.event.version
  BY <1>1, <1>2, <1>3, WrittenNote
<1> HIDE DEF done, k
<1>8. k.notes = done.mirror.notes /\ k.buried = done.mirror.buried
  BY <1>4, <1>6 DEF Mirror, EmptyMirror
<1> QED BY <1>7, <1>8

\* A request that is answered ok has a receipt, but for uploads.
LEMMA ReceivedReceipt ==
    ASSUME NEW m, Sound(m), counts.edits \in Nat, NEW d \in Delivery,
           d.event.record \notin Uploads, Received(m, d).answer = "ok"
    PROVE  d.id \in Received(m, d).mirror.receipts
<1> DEFINE done == Handled(m, d.event)
<1>1. d.event \in Events /\ d.event.type \notin {"start", "chunk", "complete"}
  BY DEF Delivery, Events
<1>2. Mirror(done.mirror) BY <1>1, HandledGood DEF Good, Sound
<1>3. CASE d.id \in m.receipts BY <1>1, <1>3 DEF Received, Done
<1>4. CASE d.id \notin m.receipts
  <2>1. done.answer = "ok" BY <1>1, <1>4 DEF Received
  <2>2. Received(m, d).mirror = [done.mirror EXCEPT !.receipts = @ \cup {d.id}]
    BY <1>1, <1>4, <2>1 DEF Received, Done
  <2> HIDE DEF done
  <2> QED BY <1>2, <2>2 DEF Mirror, EmptyMirror
<1> QED BY <1>3, <1>4
-----------------------------------------------------------------------------
(* The order of the deliveries.                                            *)

Pair(d) == <<d.id, d.event>>
Pairs(q) == {Pair(d) : d \in Range(q)}

\* What tab t still holds about record r, and what of it has no receipt.
All(t, r) == Pairs(queue[t][r])
Todo(t, r) == {p \in All(t, r) : p[1] \notin mirror.receipts}

\* The deliveries of a tab about a record, in the order of their numbers.
Filed(q, t, r) ==
    \A i \in DOMAIN q :
        /\ q[i].tab = t /\ q[i].event.record = r
        /\ \A j \in DOMAIN q : i < j => q[i].id < q[j].id

\* Nothing that is held is older than a request under way; only the first has
\* a receipt; and a request without one is held, unless the record strayed.
Filing == \A t \in Tabs, r \in Records : Filed(queue[t][r], t, r)
Leading == \A d \in flight : \A p \in All(d.tab, d.event.record) : d.id <= p[1]
Waiting ==
    \A t \in Tabs, r \in Records :
        \A p, q \in All(t, r) : p[1] \in mirror.receipts => p[1] <= q[1]
InFlight ==
    \A d \in flight :
        d.event.record \in (Highlights \cup Notes) \ strayed /\ d.id \notin mirror.receipts
            => Pair(d) \in All(d.tab, d.event.record)
Lined == Filing /\ Leading /\ Waiting /\ InFlight

\* The first is over.
LEMMA TailFiled ==
    ASSUME NEW q \in Seq(Delivery), q # <<>>, NEW t, NEW r, Filed(q, t, r)
    PROVE  /\ Filed(Tail(q), t, r) /\ Pairs(Tail(q)) = Pairs(q) \ {Pair(Head(q))}
           /\ Pair(Head(q)) \in Pairs(q)
           /\ \A p \in Pairs(q) : Head(q).id <= p[1]
           /\ \A p \in Pairs(Tail(q)) : Head(q).id < p[1]
<1> DEFINE s == Tail(q)
           d == Head(q)
<1>1. /\ Len(q) \in Nat \ {0} /\ DOMAIN q = 1 .. Len(q) /\ d = q[1]
      /\ DOMAIN s = 1 .. Len(q) - 1 /\ \A i \in DOMAIN s : s[i] = q[i + 1]
      /\ \A i \in DOMAIN q : q[i] \in Delivery
  OBVIOUS
<1> HIDE DEF s, d
<1>2. \A i \in DOMAIN s : i + 1 \in DOMAIN q /\ 1 < i + 1 BY <1>1
<1>3. 1 \in DOMAIN q /\ \A i \in DOMAIN q : i # 1 => 1 < i /\ i - 1 \in DOMAIN s /\ (i - 1) + 1 = i
  BY <1>1
<1>4. \A i, j \in DOMAIN s : i < j => i + 1 < j + 1 BY <1>1
<1>5. Filed(s, t, r) BY <1>1, <1>2, <1>4 DEF Filed
<1>6. \A i \in DOMAIN q : i # 1 => d.id < q[i].id BY <1>1, <1>3 DEF Filed
<1>7. \A i \in DOMAIN q : q[i].id \in Nat BY <1>1 DEF Delivery
<1>8. \A p \in Pairs(s) : p \in Pairs(q) /\ d.id < p[1]
  BY <1>1, <1>2, <1>6 DEF Pairs, Pair, Range
<1>9. \A p \in Pairs(q) : d.id <= p[1] /\ (p = Pair(d) \/ p \in Pairs(s))
  <2> SUFFICES ASSUME NEW p \in Pairs(q) PROVE d.id <= p[1] /\ (p = Pair(d) \/ p \in Pairs(s))
    OBVIOUS
  <2>1. PICK i \in DOMAIN q : p = Pair(q[i]) BY DEF Pairs, Range
  <2>2. p[1] = q[i].id BY <2>1 DEF Pair
  <2>3. CASE i = 1 BY <1>1, <1>7, <2>1, <2>2, <2>3
  <2>4. CASE i # 1
    <3>1. q[i] = s[i - 1] BY <1>1, <1>3, <2>4
    <3>2. p \in Pairs(s) BY <1>3, <2>1, <2>4, <3>1 DEF Pairs, Range
    <3>3. d.id < q[i].id BY <1>6, <2>4
    <3>4. d.id \in Nat /\ q[i].id \in Nat BY <1>1, <1>3, <1>7
    <3>5. d.id <= q[i].id BY <3>3, <3>4
    <3> QED BY <2>2, <3>2, <3>5
  <2> QED BY <2>3, <2>4
<1>10. Pair(d) \in Pairs(q) BY <1>1, <1>3 DEF Pairs, Range
<1>11. Pair(d) \notin Pairs(s)
  <2>1. Pair(d)[1] = d.id /\ d.id \in Nat BY <1>1, <1>3, <1>7 DEF Pair
  <2> QED BY <1>8, <2>1
<1>12. Pairs(s) = Pairs(q) \ {Pair(d)} BY <1>8, <1>9, <1>11
<1> QED BY <1>5, <1>8, <1>9, <1>10, <1>12 DEF s, d

\* The first is tried again.
LEMMA RetryFiled ==
    ASSUME NEW q \in Seq(Delivery), q # <<>>, NEW t, NEW r, Filed(q, t, r), NEW next,
           next.id = Head(q).id, next.tab = Head(q).tab, next.event = Head(q).event
    PROVE  LET s == [q EXCEPT ![1] = next]
           IN  Filed(s, t, r) /\ Pairs(s) = Pairs(q)
<1> DEFINE s == [q EXCEPT ![1] = next]
<1>1. /\ DOMAIN s = DOMAIN q /\ 1 \in DOMAIN q /\ Head(q) = q[1] /\ s[1] = next
      /\ \A i \in DOMAIN q : i # 1 => s[i] = q[i]
  OBVIOUS
<1> HIDE DEF s
<1>2. \A i \in DOMAIN q : s[i].id = q[i].id /\ s[i].tab = q[i].tab /\ s[i].event = q[i].event
  BY <1>1
<1>3. Filed(s, t, r) BY <1>1, <1>2 DEF Filed
<1>4. \A i \in DOMAIN q : Pair(s[i]) = Pair(q[i]) BY <1>2 DEF Pair
<1>5. Pairs(s) = Pairs(q) BY <1>1, <1>4 DEF Pairs, Range
<1> QED BY <1>3, <1>5 DEF s

\* Later ones follow.
LEMMA AppendFiled ==
    ASSUME NEW q \in Seq(Delivery), NEW new \in Seq(Delivery), NEW t, NEW r,
           Filed(q, t, r), Filed(new, t, r),
           \A i \in DOMAIN q, j \in DOMAIN new : q[i].id < new[j].id
    PROVE  Filed(q \o new, t, r) /\ Pairs(q \o new) = Pairs(q) \cup Pairs(new)
<1> DEFINE s == q \o new
<1>1. /\ Len(q) \in Nat /\ Len(new) \in Nat /\ DOMAIN q = 1 .. Len(q) /\ DOMAIN new = 1 .. Len(new)
      /\ DOMAIN s = 1 .. Len(q) + Len(new)
      /\ \A i \in DOMAIN s : s[i] = IF i <= Len(q) THEN q[i] ELSE new[i - Len(q)]
  OBVIOUS
<1> HIDE DEF s
<1>2. \A i \in DOMAIN s : \/ i \in DOMAIN q /\ s[i] = q[i]
                          \/ i \notin DOMAIN q /\ i - Len(q) \in DOMAIN new /\ s[i] = new[i - Len(q)]
  BY <1>1
<1>3. \A i, j \in DOMAIN s : i < j =>
         /\ j \in DOMAIN q => i \in DOMAIN q
         /\ i - Len(q) < j - Len(q)
  BY <1>1
<1>4. Filed(s, t, r)
  <2> SUFFICES ASSUME NEW i \in DOMAIN s
               PROVE  /\ s[i].tab = t /\ s[i].event.record = r
                      /\ \A j \in DOMAIN s : i < j => s[i].id < s[j].id
    BY DEF Filed
  <2>1. s[i].tab = t /\ s[i].event.record = r BY <1>2 DEF Filed
  <2>2. ASSUME NEW j \in DOMAIN s, i < j PROVE s[i].id < s[j].id
    <3>1. CASE j \in DOMAIN q
      <4>1. i \in DOMAIN q /\ s[i] = q[i] /\ s[j] = q[j] BY <1>2, <1>3, <2>2, <3>1
      <4> QED BY <2>2, <3>1, <4>1 DEF Filed
    <3>2. CASE i \in DOMAIN q /\ j \notin DOMAIN q BY <1>2, <3>2
    <3>3. CASE i \notin DOMAIN q /\ j \notin DOMAIN q
      <4> DEFINE a == i - Len(q)
                 b == j - Len(q)
      <4>1. a \in DOMAIN new /\ b \in DOMAIN new /\ s[i] = new[a] /\ s[j] = new[b] /\ a < b
        BY <1>2, <1>3, <2>2, <3>3
      <4> HIDE DEF a, b
      <4> QED BY <4>1 DEF Filed
    <3> QED BY <3>1, <3>2, <3>3
  <2> QED BY <2>1, <2>2
<1>5. \A p \in Pairs(s) : p \in Pairs(q) \cup Pairs(new) BY <1>2 DEF Pairs, Range
<1>6. \A i \in DOMAIN q : i \in DOMAIN s /\ s[i] = q[i] BY <1>1
<1>7. \A i \in DOMAIN new : i + Len(q) \in DOMAIN s /\ s[i + Len(q)] = new[i] BY <1>1
<1>8. \A p \in Pairs(q) : p \in Pairs(s) BY <1>6 DEF Pairs, Range
<1>9. \A p \in Pairs(new) : p \in Pairs(s) BY <1>7 DEF Pairs, Range
<1>10. Pairs(s) = Pairs(q) \cup Pairs(new) BY <1>5, <1>8, <1>9
<1> QED BY <1>4, <1>10 DEF s

\* What is held is pending.
LEMMA AllPending ==
    ASSUME Filing, NEW t \in Tabs, NEW r \in Records, NEW p \in All(t, r)
    PROVE  \E x \in Pending : /\ p = Pair(x) /\ p[1] = x.id /\ p[2] = x.event
                              /\ x.tab = t /\ x.event.record = r
<1>1. PICK x \in Range(queue[t][r]) : p = Pair(x) BY DEF All, Pairs
<1>2. x \in Pending BY DEF Pending
<1>3. x.tab = t /\ x.event.record = r BY DEF Range, Filing, Filed
<1> QED BY <1>1, <1>2, <1>3 DEF Pair

\* The delivery was confirmed.
Acked(d) ==
    /\ Received(mirror, d).answer = "ok" /\ mirror' = Received(mirror, d).mirror
    /\ library' = Confirmed(d.event)

\* Nothing is held that was not held, and nothing is let go of but what was confirmed,
\* unless the record strays; a new request is one that was first, or is now.
Copied(e) == \E f \in flight : f.id = e.id /\ f.tab = e.tab /\ f.event = e.event
Following(d, e) ==
    /\ e.tab = d.tab /\ e.event.record = d.event.record /\ d.id < e.id
    /\ Pair(d) \in All(d.tab, d.event.record)
    /\ Pair(e) \in All(d.tab, d.event.record)'
    /\ \A p \in All(d.tab, d.event.record)' : e.id <= p[1]
Moved(d) ==
    /\ strayed \subseteq strayed'
    /\ Filing'
    /\ \A t \in Tabs, r \in Records : All(t, r)' \subseteq All(t, r)
    /\ \A t \in Tabs, r \in Records : r \notin strayed' =>
          \A p \in All(t, r) :
              p \in All(t, r)' \/ (p = Pair(d) /\ r = d.event.record /\ Acked(d))
    /\ \A e \in flight' : Copied(e) \/ Following(d, e)

\* The first delivery is over: confirmed, or lost.
LEMMA OverMoved ==
    ASSUME Queues, Filing, NEW d \in Delivery, d.event.record \in Records,
           queue[d.tab][d.event.record] # <<>>, Head(queue[d.tab][d.event.record]) = d,
           NEW requests \in SUBSET flight,
           NEW rest \in {Tail(queue[d.tab][d.event.record]), <<>>},
           Over(d.tab, d.event.record, requests, rest), strayed \subseteq strayed',
           \/ d.event.record \in strayed'
           \/ rest = Tail(queue[d.tab][d.event.record]) /\ Acked(d)
    PROVE  Moved(d)
<1> DEFINE t == d.tab
           r == d.event.record
           q == queue[t][r]
<1>0. t \in Tabs BY DEF Delivery
<1>1. queue' = [queue EXCEPT ![t][r] = rest] /\ flight' = requests \cup Heads(rest) BY DEF Over
<1>2. /\ q \in Seq(Delivery) /\ queue'[t][r] = rest
      /\ \A t1 \in Tabs, r1 \in Records : t1 # t \/ r1 # r => queue'[t1][r1] = queue[t1][r1]
  BY <1>0, <1>1 DEF Queues
<1>3. Filed(q, t, r) BY <1>0 DEF Filing
<1>4. /\ Filed(Tail(q), t, r) /\ Pairs(Tail(q)) = Pairs(q) \ {Pair(d)} /\ Pair(d) \in Pairs(q)
      /\ \A p \in Pairs(Tail(q)) : d.id < p[1]
      /\ Tail(q) \in Seq(Delivery)
  BY <1>2, <1>3, TailFiled
<1>5. Filed(<<>>, t, r) /\ Pairs(<<>>) = {} BY DEF Filed, Pairs, Range
<1>6. Filed(rest, t, r) /\ Pairs(rest) \subseteq Pairs(q) /\ rest \in Seq(Delivery)
  <2>1. CASE rest = Tail(q) BY <1>4, <2>1
  <2>2. CASE rest = <<>> BY <1>5, <2>2
  <2> QED BY <2>1, <2>2
<1>7. ASSUME NEW e \in Heads(rest) PROVE Following(d, e)
  <2>1. rest # <<>> /\ e = Head(rest) BY <1>7 DEF Heads
  <2>2. /\ Pair(e) \in Pairs(rest) /\ \A p \in Pairs(rest) : e.id <= p[1]
    BY <1>6, <2>1, TailFiled
  <2>3. rest[1] = e /\ 1 \in DOMAIN rest BY <1>6, <2>1
  <2>4. e.tab = t /\ e.event.record = r BY <1>6, <2>3 DEF Filed
  <2>5. d.id < Pair(e)[1] BY <1>4, <2>1, <2>2
  <2>6. d.id < e.id BY <2>5 DEF Pair
  <2>7. All(t, r)' = Pairs(rest) BY <1>2 DEF All
  <2> HIDE DEF q
  <2> QED BY <1>4, <2>2, <2>4, <2>6, <2>7 DEF Following, All, q
<1> HIDE DEF q
<1>8. \A t1 \in Tabs, r1 \in Records :
         /\ Filed(queue'[t1][r1], t1, r1) /\ All(t1, r1)' \subseteq All(t1, r1)
         /\ t1 # t \/ r1 # r => All(t1, r1)' = All(t1, r1)
  BY <1>2, <1>6 DEF Filing, All, q
<1>9. Filing' BY <1>8 DEF Filing
<1>10. \A t1 \in Tabs, r1 \in Records : r1 \notin strayed' =>
          \A p \in All(t1, r1) :
              p \in All(t1, r1)' \/ (p = Pair(d) /\ r1 = d.event.record /\ Acked(d))
  BY <1>2, <1>4, <1>8 DEF All, q
<1>11. \A e \in flight' : Copied(e) \/ Following(d, e) BY <1>1, <1>7 DEF Copied
<1> QED BY <1>8, <1>9, <1>10, <1>11 DEF Moved

\* The first delivery is tried again, or lost.
LEMMA AgainMoved ==
    ASSUME Queues, Filing, NEW d \in flight, d \in Delivery, d.event.record \in Records,
           queue[d.tab][d.event.record] # <<>>, Head(queue[d.tab][d.event.record]) = d,
           NEW requests \in SUBSET flight, Again(d.tab, d.event.record, requests)
    PROVE  Moved(d)
<1> DEFINE t == d.tab
           r == d.event.record
           q == queue[t][r]
           next == [d EXCEPT !.attempt = @ + 1]
           rest == [q EXCEPT ![1] = next]
<1>0. t \in Tabs BY DEF Delivery
<1>1. CASE d.attempt = MaxAttempts
  <2>1. GivenUp(t, r, requests) BY <1>1 DEF Again
  <2>2. r \in strayed' /\ strayed \subseteq strayed' BY <2>1 DEF GivenUp
  <2> DEFINE after == IF r \in Uploads THEN <<>> ELSE Tail(q)
  <2>3. Over(t, r, requests, after) BY <2>1 DEF GivenUp
  <2>4. after \in {Tail(q), <<>>} OBVIOUS
  <2> HIDE DEF after
  <2> QED BY <2>2, <2>3, <2>4, OverMoved
<1>2. CASE d.attempt # MaxAttempts
  <2>1. /\ queue' = [queue EXCEPT ![t][r][1] = next] /\ flight' = requests \cup {next}
        /\ strayed' = strayed
    BY <1>2 DEF Again
  <2>2. queue' = [queue EXCEPT ![t][r] = rest] BY <1>0, <2>1 DEF Queues
  <2>3. next.id = d.id /\ next.tab = d.tab /\ next.event = d.event BY DEF Delivery
  <2> HIDE DEF next
  <2>4. Filed(q, t, r) /\ q \in Seq(Delivery) BY <1>0 DEF Filing, Queues
  <2>5. Filed(rest, t, r) /\ Pairs(rest) = Pairs(q) BY <2>3, <2>4, RetryFiled
  <2> HIDE DEF rest
  <2>6. /\ queue'[t][r] = rest
        /\ \A t1 \in Tabs, r1 \in Records : t1 # t \/ r1 # r => queue'[t1][r1] = queue[t1][r1]
    BY <1>0, <2>2 DEF Queues
  <2>7. \A t1 \in Tabs, r1 \in Records :
           Filed(queue'[t1][r1], t1, r1) /\ All(t1, r1)' = All(t1, r1)
    BY <2>5, <2>6 DEF Filing, All
  <2>8. Filing' BY <2>7 DEF Filing
  <2>9. \A e \in flight' : Copied(e) BY <2>1, <2>3 DEF Copied
  <2> QED BY <2>1, <2>7, <2>8, <2>9 DEF Moved
<1> QED BY <1>1, <1>2

\* A request that is answered.
LEMMA AnswerMoved ==
    ASSUME Queues, Filing, NEW d \in flight, Answer(d)
    PROVE  /\ Moved(d) /\ mirror' = Received(mirror, d).mirror
           /\ library' = library \/ (library' = Confirmed(d.event) /\ Received(mirror, d).answer = "ok")
<1> DEFINE t == d.tab
           r == d.event.record
           result == Received(mirror, d)
           waiting == queue[t][r] # <<>> /\ Head(queue[t][r]) = d
<1>1. d \in Delivery /\ r \in Records BY EventRecord DEF Queues, Delivery
<1>2. mirror' = result.mirror BY DEF Answer
<1>3. flight \ {d} \in SUBSET flight OBVIOUS
<1> HIDE DEF result
<1>4. CASE waiting /\ result.answer = "ok" /\ library' = Confirmed(d.event)
           /\ Over(t, r, flight \ {d}, Tail(queue[t][r])) /\ UNCHANGED strayed
  <2>1. Acked(d) BY <1>2, <1>4 DEF Acked, result
  <2> QED BY <1>1, <1>2, <1>3, <1>4, <2>1, OverMoved DEF result
<1>5. CASE waiting /\ GivenUp(t, r, flight \ {d}) /\ UNCHANGED library
  <2>1. r \in strayed' /\ strayed \subseteq strayed' BY <1>5 DEF GivenUp
  <2> DEFINE after == IF r \in Uploads THEN <<>> ELSE Tail(queue[t][r])
  <2>2. Over(t, r, flight \ {d}, after) BY <1>5 DEF GivenUp
  <2>3. after \in {Tail(queue[t][r]), <<>>} OBVIOUS
  <2> HIDE DEF after
  <2> QED BY <1>1, <1>2, <1>3, <1>5, <2>1, <2>2, <2>3, OverMoved DEF result
<1>6. CASE waiting /\ Again(t, r, flight \ {d}) /\ UNCHANGED library
  BY <1>1, <1>2, <1>3, <1>6, AgainMoved DEF result
<1>7. CASE flight' = flight \ {d} /\ UNCHANGED <<library, queue, strayed>>
  <2>1. \A t1, r1 : All(t1, r1)' = All(t1, r1) BY <1>7 DEF All
  <2>2. Filing' BY <1>7 DEF Filing
  <2>3. \A e \in flight' : Copied(e) BY <1>7 DEF Copied
  <2> QED BY <1>2, <1>7, <2>1, <2>2, <2>3 DEF Moved, result
<1> QED BY <1>4, <1>5, <1>6, <1>7 DEF Answer, result

\* A request that is lost.
LEMMA LoseMoved ==
    ASSUME Queues, Filing, NEW d \in flight, Lose(d)
    PROVE  /\ Moved(d) /\ mirror' \in {mirror, Received(mirror, d).mirror} /\ library' = library
<1>1. d \in Delivery /\ d.event.record \in Records BY EventRecord DEF Queues, Delivery
<1>2. queue[d.tab][d.event.record] # <<>> /\ Head(queue[d.tab][d.event.record]) = d
  BY DEF Lose, Heads
<1>3. PICK requests \in SUBSET flight : Again(d.tab, d.event.record, requests) BY DEF Lose
<1>4. Moved(d) BY <1>1, <1>2, <1>3, AgainMoved
<1> QED BY <1>4 DEF Lose

\* The order is kept.
LEMMA MovedLined ==
    ASSUME Numbered, Lined, \A x \in Pending : x.id \in Nat /\ x.tab \in Tabs /\ x.event.record \in Records,
           NEW d \in flight, Moved(d),
           mirror.receipts \subseteq mirror'.receipts,
           mirror'.receipts \subseteq mirror.receipts \cup {d.id},
           Acked(d) /\ d.event.record \notin Uploads => d.id \in mirror'.receipts
    PROVE  Lined'
<1>0. flight \subseteq Pending BY DEF Pending
<1>1. Filing' BY DEF Moved
<1>2. Leading'
  <2> SUFFICES ASSUME NEW e \in flight', NEW p \in All(e.tab, e.event.record)'
               PROVE  e.id <= p[1]
    BY DEF Leading
  <2>1. CASE Following(d, e) BY <2>1 DEF Following
  <2>2. CASE Copied(e)
    <3>1. PICK f \in flight : f.id = e.id /\ f.tab = e.tab /\ f.event = e.event BY <2>2 DEF Copied
    <3>2. f.tab \in Tabs /\ f.event.record \in Records BY <1>0
    <3>3. p \in All(f.tab, f.event.record) BY <3>1, <3>2 DEF Moved
    <3> QED BY <3>1, <3>3 DEF Lined, Leading
  <2> QED BY <2>1, <2>2 DEF Moved
<1>3. Waiting'
  <2> SUFFICES ASSUME NEW t \in Tabs, NEW r \in Records, NEW p \in All(t, r)', NEW q \in All(t, r)',
                      p[1] \in mirror'.receipts
               PROVE  p[1] <= q[1]
    BY DEF Waiting
  <2>1. p \in All(t, r) /\ q \in All(t, r) BY DEF Moved
  <2>2. CASE p[1] \in mirror.receipts BY <2>1, <2>2 DEF Lined, Waiting
  <2>3. CASE p[1] = d.id
    <3>1. PICK x \in Pending : x.id = d.id /\ x.tab = t /\ x.event.record = r
      BY <2>1, <2>3, AllPending DEF Lined
    <3>2. d.tab = t /\ d.event.record = r BY <1>0, <3>1 DEF Numbered
    <3> QED BY <2>1, <2>3, <3>2 DEF Lined, Leading
  <2> QED BY <2>2, <2>3
<1>4. InFlight'
  <2> SUFFICES ASSUME NEW e \in flight', e.event.record \in (Highlights \cup Notes) \ strayed',
                      e.id \notin mirror'.receipts
               PROVE  Pair(e) \in All(e.tab, e.event.record)'
    BY DEF InFlight
  <2>1. CASE Following(d, e) BY <2>1 DEF Following
  <2>2. CASE Copied(e)
    <3>1. PICK f \in flight : f.id = e.id /\ f.tab = e.tab /\ f.event = e.event BY <2>2 DEF Copied
    <3>2. f.tab \in Tabs /\ f.event.record \in Records BY <1>0
    <3>3. Pair(f) \in All(f.tab, f.event.record) BY <3>1 DEF Lined, InFlight, Moved
    <3>4. Pair(f) = Pair(e) BY <3>1 DEF Pair
    <3>5. e.event.record \notin Uploads BY SettingsAssumption
    <3>6. Pair(e) = Pair(d) /\ e.event.record = d.event.record /\ Acked(d) => e.id \in mirror'.receipts
      BY <3>5 DEF Pair
    <3> QED BY <3>1, <3>2, <3>3, <3>4, <3>6 DEF Moved
  <2> QED BY <2>1, <2>2 DEF Moved
<1> QED BY <1>1, <1>2, <1>3, <1>4 DEF Lined
-----------------------------------------------------------------------------
(* What is tracked of a record that did not stray.                         *)

\* A highlight that was reported is used, and no event moves it to another book.
Known ==
    /\ \A d \in Pending : d.event.record \in Highlights => d.event.record \in library.used
    /\ DOMAIN library.highlights \subseteq library.used
    /\ library.confirmed \cap Highlights \subseteq library.used
    /\ \A p \in removals : p.left \cap Highlights \subseteq library.used
Plain ==
    \A d \in Pending : d.event.record \in Highlights /\ d.event.type = "update"
        => "book" \notin DOMAIN d.event.row

\* A highlight is created by the tab that deletes it, and before.
Single(h) ==
    \A d, e \in Pending :
        d.event.record = h /\ d.event.type = "create" /\ e.event.record = h /\ e.event.type = "delete"
            => d.tab = e.tab /\ d.id < e.id

\* A highlight whose deletion was handled is gone, and nothing creates it again.
Undone(h) ==
    \/ h \in library.confirmed
    \/ \E d \in flight : /\ d.event.record = h /\ d.event.type = "delete"
                         /\ d.id \in mirror.receipts
Deleted(h) ==
    Undone(h) => /\ h \notin DOMAIN mirror.highlights
                 /\ \A t \in Tabs : \A p \in Todo(t, h) : p[2].type # "create"

\* One tab tells the text of a highlight; one that is only a citation is not edited.
Owner(h) ==
    \A d \in Pending : d.event.record = h =>
        /\ Telling(d.event) => d.tab = library.highlights[h].tab
        /\ d.event.type = "create" => d.event.row.book = library.highlights[h].book
        /\ d.event.type = "update" => ~library.highlights[h].bare

\* The last text it still has to tell is that of the library; when there is none the
\* mirror has it, or the highlight went with its book, with its note, or by a deletion.
Matches(x, row) ==
    /\ x.text = row.text /\ x.bare = row.bare
    /\ row.bare => x.note = row.note
Telltale(h) == {p \in Todo(library.highlights[h].tab, h) : Texts(p[2])}
Ended(h) ==
    \E p \in All(library.highlights[h].tab, h) : p[2].type = "delete" /\ p[1] \in mirror.receipts
Lost(buried, row) == row.book \in buried \/ (row.bare /\ row.note \in buried)
Newest(X, row) == \E p \in X : Matches(p[2].row, row) /\ \A q \in X : q[1] <= p[1]
Trail(h) ==
    /\ Telltale(h) # {} => Newest(Telltale(h), library.highlights[h])
    /\ Telltale(h) = {} /\ h \in DOMAIN mirror.highlights =>
          Matches(mirror.highlights[h], library.highlights[h])
    /\ Telltale(h) = {} /\ h \notin DOMAIN mirror.highlights =>
          Lost(mirror.buried, library.highlights[h]) \/ h \in library.confirmed \/ Ended(h)
    /\ (\A p \in Telltale(h) : p[2].type # "create") /\ h \in DOMAIN mirror.highlights =>
          mirror.highlights[h].book = library.highlights[h].book

\* A note is in the mirror at least as new as in the library, or will be told.
Told(n) ==
    \/ n \in mirror.buried
    \/ n \in DOMAIN mirror.notes /\ mirror.notes[n].version >= library.notes[n]
    \/ \E t \in Tabs : \E p \in Todo(t, n) : p[2].type = "write" /\ p[2].version = library.notes[n]

Tracked ==
    /\ Known /\ Plain /\ Lined
    /\ \A h \in Highlights \ strayed : Single(h) /\ Deleted(h)
    /\ \A h \in DOMAIN library.highlights \ strayed : Owner(h) /\ Trail(h)
    /\ \A n \in DOMAIN library.notes \ strayed : Told(n)

\* What a delivery does to the mirror and the library.
Delivered(d) ==
    /\ mirror.receipts \subseteq mirror'.receipts
    /\ mirror'.receipts \subseteq mirror.receipts \cup {d.id}
    /\ Acked(d) /\ d.event.record \notin Uploads => d.id \in mirror'.receipts
    /\ mirror.buried \subseteq mirror'.buried
    /\ DOMAIN mirror.notes \subseteq DOMAIN mirror'.notes \cup mirror'.buried
    /\ Forward(mirror.notes, mirror'.notes)
    /\ \A h \in Highlights : Effect(mirror, mirror', d, h)
    /\ d.event.record \in Notes /\ d.event.type = "write"
          /\ d.id \in mirror'.receipts /\ d.id \notin mirror.receipts =>
          \/ d.event.record \in mirror'.buried
          \/ /\ d.event.record \in DOMAIN mirror'.notes
             /\ mirror'.notes[d.event.record].version >= d.event.version

LEMMA DeliveredMirror ==
    ASSUME Sound(mirror), counts.edits \in Nat, Receipted, NEW d \in flight, d \in Delivery,
           mirror' = mirror \/ mirror' = Received(mirror, d).mirror
    PROVE  Delivered(d)
<1>1. d \in Pending BY DEF Pending
<1>3. d.event.record \notin Uploads /\ Received(mirror, d).answer = "ok"
        => d.id \in Received(mirror, d).mirror.receipts
  BY ReceivedReceipt
<1>4. Acked(d) /\ d.event.record \notin Uploads => d.id \in mirror'.receipts BY <1>3 DEF Acked
<1>5. CASE mirror' = mirror
  <2>1. \A h : Aside(mirror, mirror, h) BY DEF Aside, Alike
  <2>2. \A h \in Highlights : Effect(mirror, mirror, d, h) BY <2>1 DEF Effect
  <2> QED BY <1>4, <1>5, <2>2 DEF Delivered, Forward, Onward
<1>6. CASE mirror' = Received(mirror, d).mirror
  <2> DEFINE k == Received(mirror, d).mirror
  <2>1. /\ mirror.buried \subseteq k.buried
        /\ DOMAIN mirror.notes \subseteq DOMAIN k.notes \cup k.buried
        /\ Forward(mirror.notes, k.notes)
        /\ mirror.receipts \subseteq k.receipts /\ k.receipts \subseteq mirror.receipts \cup {d.id}
    BY <1>1, ReceivedGood DEF Receipted
  <2>2. \A h \in Highlights : Effect(mirror, k, d, h) BY ReceivedEffect
  <2>3. d.event.record \in Notes /\ d.event.type = "write" =>
           \/ d.id \in mirror.receipts \/ d.event.record \in k.buried
           \/ d.event.record \in DOMAIN k.notes /\ k.notes[d.event.record].version >= d.event.version
    BY ReceivedNote
  <2>4. mirror' = k BY <1>6
  <2> HIDE DEF k
  <2> QED BY <1>4, <2>1, <2>2, <2>3, <2>4 DEF Delivered
<1> QED BY <1>5, <1>6

\* Deliveries are attempts of those before.
LEMMA MovedRepeated ==
    ASSUME Filing, NEW d \in Delivery, d.event.record \in Records, Moved(d)
    PROVE  Repeated
<1>0. d.tab \in Tabs BY DEF Delivery
<1>1. ASSUME NEW t \in Tabs, NEW r \in Records, NEW x, x.tab = t, Pair(x) \in All(t, r)'
      PROVE  \E e \in Pending : e.id = x.id /\ e.tab = x.tab /\ e.event = x.event
  <2>1. Pair(x) \in All(t, r) BY <1>1 DEF Moved
  <2>2. PICK y \in Pending : y.id = Pair(x)[1] /\ y.event = Pair(x)[2] /\ y.tab = t
    BY <2>1, AllPending
  <2> QED BY <1>1, <2>2 DEF Pair
<1>2. ASSUME NEW x \in flight' PROVE \E e \in Pending : e.id = x.id /\ e.tab = x.tab /\ e.event = x.event
  <2>1. CASE Copied(x) BY <2>1 DEF Copied, Pending
  <2>2. CASE Following(d, x)
    <3>1. x.tab = d.tab /\ Pair(x) \in All(d.tab, d.event.record)' BY <2>2 DEF Following
    <3> QED BY <1>0, <1>1, <3>1
  <2> QED BY <2>1, <2>2 DEF Moved
<1>3. ASSUME NEW t \in Tabs, NEW r \in Records, NEW x \in Range(queue'[t][r])
      PROVE  \E e \in Pending : e.id = x.id /\ e.tab = x.tab /\ e.event = x.event
  <2>1. Filed(queue'[t][r], t, r) BY DEF Moved, Filing
  <2>2. x.tab = t BY <2>1 DEF Filed, Range
  <2>3. Pair(x) \in All(t, r)' BY DEF All, Pairs
  <2> QED BY <1>1, <2>2, <2>3
<1>4. ASSUME NEW x \in Pending' PROVE \E e \in Pending : e.id = x.id /\ e.tab = x.tab /\ e.event = x.event
  <2>1. x \in flight' \/ \E t \in Tabs, r \in Records : x \in Range(queue'[t][r]) BY DEF Pending
  <2> QED BY <1>2, <1>3, <2>1
<1> QED BY <1>4 DEF Repeated

\* What still has to be handled is what had to, but what has a receipt now.
LEMMA MovedTodo ==
    ASSUME NEW d, Moved(d), Delivered(d), NEW t \in Tabs, NEW r \in Records, r \notin strayed', r \notin Uploads
    PROVE  Todo(t, r)' = {p \in Todo(t, r) : p[1] \notin mirror'.receipts}
<1>1. ASSUME NEW p \in Todo(t, r)' PROVE p \in Todo(t, r) /\ p[1] \notin mirror'.receipts
  <2>1. p \in All(t, r)' /\ p[1] \notin mirror'.receipts BY DEF Todo
  <2> QED BY <2>1 DEF Moved, Delivered, Todo
<1>2. ASSUME NEW p \in Todo(t, r), p[1] \notin mirror'.receipts PROVE p \in Todo(t, r)'
  <2>1. p \in All(t, r) BY DEF Todo
  <2>2. p = Pair(d) /\ r = d.event.record /\ Acked(d) => p[1] \in mirror'.receipts
    BY DEF Delivered, Pair
  <2>3. p \in All(t, r)' BY <1>2, <2>1, <2>2 DEF Moved
  <2> QED BY <1>2, <2>3 DEF Todo
<1> QED BY <1>1, <1>2

\* The pieces of state that a delivery is judged by.
Judged(d) ==
    /\ Queues /\ Numbered /\ Plain /\ Lined /\ d \in flight /\ d \in Delivery
    /\ \A x \in Pending : x.id \in Nat /\ x.tab \in Tabs /\ x.event \in Events
    /\ Library(library) /\ Moved(d) /\ Delivered(d)
    /\ library' = library \/ Acked(d)

\* A confirmation is all that the library learns.
LEMMA JudgedLibrary ==
    ASSUME NEW d, Judged(d)
    PROVE  /\ library'.highlights = library.highlights /\ library'.notes = library.notes
           /\ library'.used = library.used
           /\ library.confirmed \subseteq library'.confirmed
           /\ library'.confirmed = library.confirmed
              \/ (Acked(d) /\ library'.confirmed \subseteq
                     library.confirmed \cup {r \in {d.event.record} : d.event.type = "delete"})
           /\ Acked(d) /\ d.event.type = "delete" => d.event.record \in library'.confirmed
<1>1. d.event \in Events BY DEF Judged, Delivery
<1>2. CASE library' = library /\ ~Acked(d) BY <1>2
<1>3. CASE Acked(d)
  <2>1. library' = Confirmed(d.event) BY <1>3 DEF Acked
  <2> QED BY <1>1, <1>3, <2>1, LibraryStep DEF Judged
<1> QED BY <1>2, <1>3 DEF Judged

\* A pair with the number of the delivery is its pair.
LEMMA SamePair ==
    ASSUME NEW d, Judged(d), NEW t \in Tabs, NEW r \in Records, NEW p \in All(t, r), p[1] = d.id
    PROVE  p = Pair(d) /\ p[2] = d.event /\ t = d.tab /\ r = d.event.record
<1>1. d \in Pending BY DEF Judged, Pending
<1>2. PICK x \in Pending : /\ p = Pair(x) /\ p[1] = x.id /\ p[2] = x.event
                           /\ x.tab = t /\ x.event.record = r
  BY AllPending DEF Judged, Lined
<1>3. x.event = d.event /\ x.tab = d.tab BY <1>1, <1>2 DEF Judged, Numbered
<1> QED BY <1>2, <1>3 DEF Pair

\* A deleted highlight stays gone.
LEMMA DeliveredDeleted ==
    ASSUME NEW d, Judged(d), NEW h \in Highlights, h \notin strayed', Single(h), Deleted(h)
    PROVE  Deleted(h)'
<1>0. /\ h \in Records /\ h \notin Uploads /\ h \notin strayed /\ d.tab \in Tabs /\ d.id \in Nat
      /\ d \in Pending /\ d.event \in Events
  BY SettingsAssumption DEF Records, Judged, Moved, Delivery, Pending
<1>1. \A t \in Tabs : Todo(t, h)' = {p \in Todo(t, h) : p[1] \notin mirror'.receipts}
  BY <1>0, MovedTodo DEF Judged
<1>2. Effect(mirror, mirror', d, h) BY DEF Judged, Delivered
<1>3. CASE Undone(h)
  <2>1. h \notin DOMAIN mirror.highlights /\ \A t \in Tabs : \A p \in Todo(t, h) : p[2].type # "create"
    BY <1>3 DEF Deleted
  <2>2. ASSUME h \in DOMAIN mirror'.highlights PROVE FALSE
    <3>1. /\ d.event.record = h /\ d.id \notin mirror.receipts /\ Made(mirror, mirror', d.event, h)
      BY <1>2, <2>1, <2>2 DEF Effect, Aside
    <3>2. d.event.type = "create" BY <1>0, <2>1, <2>2, <3>1, HighlightEvent DEF Made
    <3>3. Pair(d) \in All(d.tab, h) BY <1>0, <3>1 DEF Judged, Lined, InFlight
    <3>4. Pair(d) \in Todo(d.tab, h) /\ Pair(d)[2].type = "create" BY <3>1, <3>2, <3>3 DEF Todo, Pair
    <3> QED BY <1>0, <2>1, <3>4
  <2> QED BY <1>1, <2>1, <2>2 DEF Deleted
<1>4. CASE ~Undone(h) /\ Undone(h)'
  <2>1. d.event.record = h /\ d.event.type = "delete" /\ d.id \in mirror'.receipts
    <3>1. CASE h \in library'.confirmed
      <4>1. Acked(d) /\ h = d.event.record /\ d.event.type = "delete"
        BY <1>4, <3>1, JudgedLibrary DEF Undone
      <4> QED BY <1>0, <4>1 DEF Judged, Delivered
    <3>2. ASSUME NEW e \in flight', e.event.record = h, e.event.type = "delete",
                 e.id \in mirror'.receipts
          PROVE  d.event.record = h /\ d.event.type = "delete" /\ d.id \in mirror'.receipts
      <4>1. CASE Copied(e)
        <5>1. PICK f \in flight : f.id = e.id /\ f.event = e.event BY <4>1 DEF Copied
        <5>2. f.id \notin mirror.receipts BY <1>4, <3>2, <5>1 DEF Undone
        <5>3. f.id = d.id BY <3>2, <5>1, <5>2 DEF Judged, Delivered
        <5>4. f \in Pending BY DEF Pending
        <5>5. f.event = d.event BY <1>0, <5>3, <5>4 DEF Judged, Numbered
        <5> QED BY <3>2, <5>1, <5>3, <5>5
      <4>2. CASE Following(d, e)
        <5>1. /\ d.event.record = h /\ d.id < e.id /\ Pair(d) \in All(d.tab, h)
              /\ Pair(e) \in All(d.tab, h)'
          BY <3>2, <4>2 DEF Following
        <5>2. Pair(e) \in All(d.tab, h) BY <1>0, <5>1 DEF Judged, Moved
        <5>3. PICK x \in Pending : x.id = Pair(e)[1]
          BY <1>0, <5>2, AllPending DEF Judged, Lined
        <5>4. e.id \in Nat BY <5>3 DEF Judged, Pair
        <5>5. e.id \in mirror.receipts BY <1>0, <3>2, <5>1, <5>4 DEF Judged, Delivered
        <5>6. Pair(e)[1] <= Pair(d)[1] BY <1>0, <5>1, <5>2, <5>5 DEF Judged, Lined, Waiting, Pair
        <5> QED BY <1>0, <5>1, <5>4, <5>6 DEF Pair
      <4> QED BY <3>2, <4>1, <4>2 DEF Judged, Moved
    <3> QED BY <1>4, <3>1, <3>2 DEF Undone
  <2>2. d.id \notin mirror.receipts BY <1>4, <2>1 DEF Undone, Judged
  <2>3. Made(mirror, mirror', d.event, h) BY <1>2, <2>1, <2>2 DEF Effect
  <2>4. h \notin DOMAIN mirror'.highlights BY <2>1, <2>3 DEF Made
  <2>5. ASSUME NEW t \in Tabs, NEW p \in Todo(t, h), p[2].type = "create" PROVE FALSE
    <3>1. p \in All(t, h) BY DEF Todo
    <3>2. PICK x \in Pending : /\ p[1] = x.id /\ p[2] = x.event
                               /\ x.tab = t /\ x.event.record = h
      BY <1>0, <3>1, AllPending DEF Judged, Lined
    <3>3. x.tab = d.tab /\ x.id < d.id BY <1>0, <2>1, <2>5, <3>2 DEF Single
    <3>4. d.id <= x.id BY <2>1, <3>1, <3>2, <3>3 DEF Judged, Lined, Leading
    <3>5. x.id \in Nat BY DEF Judged
    <3> QED BY <1>0, <3>3, <3>4, <3>5
  <2> QED BY <1>1, <2>4, <2>5 DEF Deleted
<1> QED BY <1>3, <1>4 DEF Deleted

\* A note that was told is kept, and one that is told is there.
LEMMA DeliveredTold ==
    ASSUME NEW d, Judged(d), Mirror(mirror), Mirror(mirror'), NEW n \in Notes, n \notin strayed',
           n \in DOMAIN library.notes, Told(n)
    PROVE  Told(n)'
<1>0. n \in Records /\ n \notin Uploads /\ library'.notes[n] = library.notes[n]
  BY SettingsAssumption, JudgedLibrary DEF Records
<1>1. library.notes[n] \in Nat BY <1>0 DEF Judged, Library, Table
<1>2. CASE n \in mirror.buried BY <1>2 DEF Told, Judged, Delivered
<1>3. CASE n \in DOMAIN mirror.notes /\ mirror.notes[n].version >= library.notes[n]
  <2>1. n \in DOMAIN mirror'.notes \/ n \in mirror'.buried BY <1>3 DEF Judged, Delivered
  <2>2. n \in DOMAIN mirror'.notes =>
           \/ mirror'.notes[n].version = mirror.notes[n].version
           \/ mirror'.notes[n].version > mirror.notes[n].version
    BY <1>3 DEF Judged, Delivered, Forward, Onward
  <2>3. /\ mirror.notes[n].version \in Nat
        /\ n \in DOMAIN mirror'.notes => mirror'.notes[n].version \in Nat
    BY <1>3 DEF Mirror, Table, Note
  <2>4. n \in DOMAIN mirror'.notes => mirror'.notes[n].version >= library.notes[n]
    BY <1>1, <1>3, <2>2, <2>3
  <2> QED BY <1>0, <2>1, <2>4 DEF Told
<1>4. ASSUME NEW t \in Tabs, NEW p \in Todo(t, n), p[2].type = "write", p[2].version = library.notes[n]
      PROVE  Told(n)'
  <2>1. CASE p[1] \notin mirror'.receipts
    <3>1. p \in Todo(t, n)' BY <1>0, <2>1, MovedTodo DEF Judged
    <3> QED BY <1>0, <1>4, <3>1 DEF Told
  <2>2. CASE p[1] \in mirror'.receipts
    <3>1. p \in All(t, n) /\ p[1] \notin mirror.receipts /\ p[1] = d.id
      BY <2>2 DEF Todo, Judged, Delivered
    <3>2. p[2] = d.event /\ n = d.event.record BY <1>0, <3>1, SamePair
    <3>3. \/ n \in mirror'.buried
          \/ n \in DOMAIN mirror'.notes /\ mirror'.notes[n].version >= library.notes[n]
      BY <1>4, <2>2, <3>1, <3>2 DEF Judged, Delivered
    <3> QED BY <1>0, <3>3 DEF Told
  <2> QED BY <2>1, <2>2
<1> QED BY <1>2, <1>3, <1>4 DEF Told

\* A highlight goes on following its trail.
LEMMA DeliveredTrail ==
    ASSUME NEW d, Judged(d), NEW h \in Highlights, h \notin strayed',
           h \in DOMAIN library.highlights, Owner(h), Trail(h)
    PROVE  Trail(h)'
<1>0. /\ h \in Records /\ h \notin Uploads /\ h \notin strayed /\ d.tab \in Tabs /\ d.id \in Nat
      /\ d \in Pending /\ d.event \in Events
  BY SettingsAssumption DEF Records, Judged, Moved, Delivery, Pending
<1>1. PICK s \in Saved : library.highlights[h] = s /\ library'.highlights[h] = s
  BY JudgedLibrary DEF Judged, Library, Table
<1>2. PICK t \in Tabs : t = s.tab BY DEF Saved
<1> DEFINE X == Telltale(h)
           Y == Telltale(h)'
           ended == \/ h \in library.confirmed
                    \/ \E p \in All(t, h) : p[2].type = "delete" /\ p[1] \in mirror.receipts
           ended2 == \/ h \in library'.confirmed
                     \/ \E p \in All(t, h)' : p[2].type = "delete" /\ p[1] \in mirror'.receipts
           Done2 ==
              /\ Y # {} => Newest(Y, s)
              /\ Y = {} /\ h \in DOMAIN mirror'.highlights => Matches(mirror'.highlights[h], s)
              /\ Y = {} /\ h \notin DOMAIN mirror'.highlights => Lost(mirror'.buried, s) \/ ended2
              /\ (\A p \in Y : p[2].type # "create") /\ h \in DOMAIN mirror'.highlights =>
                    mirror'.highlights[h].book = s.book
<1>3. Todo(t, h)' = {p \in Todo(t, h) : p[1] \notin mirror'.receipts}
  BY <1>0, <1>2, MovedTodo DEF Judged
<1>4. X = {p \in Todo(t, h) : Texts(p[2])} BY <1>1, <1>2 DEF Telltale
<1>5. Y = {p \in X : p[1] \notin mirror'.receipts}
  <2>1. Y = {p \in Todo(t, h)' : Texts(p[2])} BY <1>1, <1>2 DEF Telltale
  <2> QED BY <1>3, <1>4, <2>1
<1>6. Effect(mirror, mirror', d, h) BY DEF Judged, Delivered
<1>7. /\ X # {} => Newest(X, s)
      /\ X = {} /\ h \in DOMAIN mirror.highlights => Matches(mirror.highlights[h], s)
      /\ X = {} /\ h \notin DOMAIN mirror.highlights => Lost(mirror.buried, s) \/ ended
      /\ (\A p \in X : p[2].type # "create") /\ h \in DOMAIN mirror.highlights =>
            mirror.highlights[h].book = s.book
  BY <1>1, <1>2 DEF Trail, Ended
<1>8. SUFFICES Done2 BY <1>1, <1>2 DEF Trail, Ended
<1>9. X \subseteq Todo(t, h) /\ X \subseteq All(t, h) BY <1>4 DEF Todo
<1>10. Acked(d) /\ d.event.type = "delete" /\ d.event.record = h => h \in library'.confirmed
  BY JudgedLibrary
<1>11. ended => ended2
  <2>1. CASE h \in library.confirmed BY <2>1, JudgedLibrary
  <2>2. ASSUME NEW p \in All(t, h), p[2].type = "delete", p[1] \in mirror.receipts PROVE ended2
    <3>1. p = Pair(d) => p[2] = d.event BY DEF Pair
    <3>2. p \in All(t, h)' \/ h \in library'.confirmed
      BY <1>0, <1>2, <1>10, <2>2, <3>1 DEF Judged, Moved
    <3>3. p[1] \in mirror'.receipts BY <2>2 DEF Judged, Delivered
    <3> QED BY <2>2, <3>2, <3>3
  <2> QED BY <2>1, <2>2
<1>12. mirror.buried \subseteq mirror'.buried BY DEF Judged, Delivered
<1>121. Lost(mirror.buried, s) => Lost(mirror'.buried, s) BY <1>12 DEF Lost
<1> HIDE DEF X, Y, ended, ended2
<1>13. ASSUME Y = X, Aside(mirror, mirror', h)
       PROVE  Done2
  <2>1. CASE h \in DOMAIN mirror'.highlights
    BY <1>7, <1>13, <2>1 DEF Aside, Alike, Matches
  <2>2. CASE h \in DOMAIN mirror.highlights \ DOMAIN mirror'.highlights
    <3>1. X = {} => Lost(mirror'.buried, s) BY <1>7, <1>13, <2>2 DEF Aside, Matches, Lost
    <3> QED BY <1>7, <1>13, <2>2, <3>1
  <2>3. CASE h \notin DOMAIN mirror.highlights /\ h \notin DOMAIN mirror'.highlights
    BY <1>7, <1>11, <1>121, <1>13, <2>3
  <2> QED BY <2>1, <2>2, <2>3
<1>14. CASE /\ Aside(mirror, mirror', h)
            /\ d.event.record = h => d.id \in mirror.receipts \/ d.id \notin mirror'.receipts
  <2>1. ASSUME NEW p \in X, p[1] \in mirror'.receipts PROVE FALSE
    <3>1. p \in All(t, h) /\ p[1] \notin mirror.receipts BY <1>9 DEF Todo
    <3>2. p[1] = d.id BY <2>1, <3>1 DEF Judged, Delivered
    <3>3. h = d.event.record BY <1>0, <1>2, <3>1, <3>2, SamePair
    <3> QED BY <1>14, <2>1, <3>1, <3>2, <3>3
  <2>2. Y = X BY <1>5, <2>1
  <2> QED BY <1>13, <1>14, <2>2
<1>15. CASE /\ d.event.record = h
            /\ d.id \notin mirror.receipts /\ d.id \in mirror'.receipts
            /\ Made(mirror, mirror', d.event, h)
  <2>0. Pair(d)[1] = d.id /\ Pair(d)[2] = d.event BY DEF Pair
  <2>1. /\ Telling(d.event) => d.tab = t
        /\ d.event.type = "create" => d.event.row.book = s.book
        /\ d.event.type = "update" => ~s.bare
    BY <1>0, <1>1, <1>2, <1>15 DEF Owner
  <2>2. CASE ~Telling(d.event)
    <3>1. d.event.type = "update" /\ "text" \notin DOMAIN d.event.row
      BY <1>0, <1>15, <2>2, HighlightEvent DEF Telling, Texts
    <3>2. "book" \notin DOMAIN d.event.row BY <1>0, <1>15, <3>1 DEF Judged, Plain
    <3>3. "bare" \notin DOMAIN d.event.row
      <4>1. d.event.record \in Highlights BY <1>15
      <4>2. DOMAIN d.event.row = {"text", "bare"} \/ DOMAIN d.event.row = {"note"}
        BY <1>0, <3>1, <3>2, <4>1, PatchEvent
      <4> QED BY <3>1, <4>2
    <3>4. /\ h \in DOMAIN mirror.highlights /\ h \in DOMAIN mirror'.highlights
          /\ mirror'.highlights[h].text = mirror.highlights[h].text
          /\ mirror'.highlights[h].bare = mirror.highlights[h].bare
          /\ mirror'.highlights[h].book = mirror.highlights[h].book
      BY <1>15, <3>1, <3>2, <3>3 DEF Made, Fields
    <3>5. ASSUME NEW p \in X, p[1] \in mirror'.receipts PROVE FALSE
      <4>1. p \in All(t, h) /\ p[1] \notin mirror.receipts /\ Texts(p[2]) BY <1>4, <1>9 DEF Todo
      <4>2. p[1] = d.id BY <3>5, <4>1 DEF Judged, Delivered
      <4>3. p[2] = d.event BY <1>0, <1>2, <4>1, <4>2, SamePair
      <4> QED BY <2>2, <4>1, <4>3 DEF Telling
    <3>6. Y = X BY <1>5, <3>5
    <3>7. Matches(mirror.highlights[h], s) => Matches(mirror'.highlights[h], s)
      BY <2>1, <3>1, <3>4 DEF Matches
    <3> QED BY <1>7, <3>4, <3>6, <3>7
  <2>3. CASE Telling(d.event)
    <3>1. Pair(d) \in All(t, h) BY <1>0, <1>15, <2>1, <2>3 DEF Judged, Lined, InFlight
    <3>2. Pair(d) \in Todo(t, h) BY <1>15, <2>0, <3>1 DEF Todo
    <3>3. \A p \in X : d.id <= p[1] /\ (p[1] = d.id => p = Pair(d))
      <4>1. \A p \in All(t, h) : d.id <= p[1] BY <1>15, <2>1, <2>3 DEF Judged, Lined, Leading
      <4>2. \A p \in All(t, h) : p[1] = d.id => p = Pair(d) BY <1>0, <1>2, SamePair
      <4> QED BY <1>9, <4>1, <4>2
    <3>4. \A p \in X : p[1] \in Nat
      <4>1. \A p \in All(t, h) : \E x \in Pending : p[1] = x.id
        BY <1>0, <1>2, AllPending DEF Judged, Lined
      <4> QED BY <1>9, <4>1 DEF Judged
    <3>5. Y = X \ {Pair(d)}
      <4>1. \A p \in X : p[1] \notin mirror.receipts BY <1>9 DEF Todo
      <4>2. \A p \in X : p[1] \in mirror'.receipts <=> p[1] = d.id
        BY <1>15, <4>1 DEF Judged, Delivered
      <4> QED BY <1>5, <2>0, <3>3, <4>2
    <3>6. CASE d.event.type = "delete"
      <4>1. Pair(d) \notin X BY <1>4, <2>0, <3>6 DEF Texts
      <4>2. h \notin DOMAIN mirror'.highlights BY <1>15, <3>6 DEF Made
      <4>3. Pair(d) \in All(t, h)' \/ h \in library'.confirmed
        BY <1>0, <1>2, <1>10, <1>15, <3>1, <3>6 DEF Judged, Moved
      <4>4. ended2 BY <1>15, <2>0, <3>6, <4>3 DEF ended2
      <4> QED BY <1>7, <3>5, <4>1, <4>2, <4>4
    <3>7. CASE d.event.type # "delete"
      <4>1. Texts(d.event) BY <2>3, <3>7 DEF Telling
      <4>2. Pair(d) \in X BY <1>4, <2>0, <3>2, <4>1
      <4>3. PICK p \in X : Matches(p[2].row, s) /\ \A q \in X : q[1] <= p[1]
        BY <1>7, <4>2 DEF Newest
      <4>4. /\ h \in DOMAIN mirror'.highlights
            /\ Matches(d.event.row, s) => Matches(mirror'.highlights[h], s)
            /\ (\A q \in Y : q[2].type # "create") => mirror'.highlights[h].book = s.book
        <5>1. CASE d.event.type = "create" BY <1>15, <2>1, <5>1 DEF Made, Fields, Matches
        <5>2. CASE d.event.type = "update" /\ "text" \in DOMAIN d.event.row
          <6>1. "book" \notin DOMAIN d.event.row BY <1>0, <1>15, <5>2 DEF Judged, Plain
          <6>2. "bare" \in DOMAIN d.event.row
            <7>1. d.event.record \in Highlights BY <1>15
            <7>2. DOMAIN d.event.row = {"text", "bare"} \/ DOMAIN d.event.row = {"note"}
              BY <1>0, <5>2, <6>1, <7>1, PatchEvent
            <7> QED BY <5>2, <7>2
          <6>3. /\ h \in DOMAIN mirror.highlights /\ h \in DOMAIN mirror'.highlights
                /\ mirror'.highlights[h].text = d.event.row.text
                /\ mirror'.highlights[h].bare = d.event.row.bare
                /\ mirror'.highlights[h].book = mirror.highlights[h].book
            BY <1>15, <5>2, <6>1, <6>2 DEF Made, Fields
          <6>4. (\A q \in Y : q[2].type # "create") => \A q \in X : q[2].type # "create"
            BY <2>0, <3>5, <5>2
          <6> QED BY <1>7, <2>1, <5>2, <6>3, <6>4 DEF Matches
        <5> QED BY <4>1, <5>1, <5>2 DEF Texts
      <4>5. CASE p = Pair(d)
        <5>1. \A q \in X : q = Pair(d)
          <6>1. \A q \in X : q[1] <= d.id /\ d.id <= q[1] /\ q[1] \in Nat BY <2>0, <3>3, <3>4, <4>3, <4>5
          <6>2. \A q \in X : q[1] = d.id BY <1>0, <6>1
          <6> QED BY <3>3, <6>2
        <5>2. Y = {} BY <3>5, <5>1
        <5>3. Matches(d.event.row, s) BY <2>0, <4>3, <4>5
        <5> QED BY <4>4, <5>2, <5>3
      <4>6. CASE p # Pair(d)
        <5>1. p \in Y /\ \A q \in Y : q[1] <= p[1] BY <3>5, <4>3, <4>6
        <5>2. Newest(Y, s) BY <4>3, <5>1 DEF Newest
        <5> QED BY <4>4, <5>1, <5>2
      <4> QED BY <4>5, <4>6
    <3> QED BY <3>6, <3>7
  <2> QED BY <2>2, <2>3
<1> QED BY <1>6, <1>14, <1>15 DEF Effect

\* A delivery keeps everything tracked.
LEMMA DeliveredTracked ==
    ASSUME IInv, Tracked, NEW d \in flight, Moved(d),
           mirror' = mirror \/ mirror' = Received(mirror, d).mirror,
           library' = library \/ Acked(d), Mirror(mirror'),
           \A p \in removals' : \E q \in removals : p.left = q.left
    PROVE  Tracked'
<1>0. /\ Library(library) /\ Queues /\ Bounded /\ Sound(mirror) /\ Mirror(mirror)
      /\ Numbered /\ Receipted
  BY Parts
<1>1. d \in Delivery BY <1>0 DEF Queues
<1>2. Delivered(d) BY <1>0, <1>1, Counted, DeliveredMirror
<1>3. \A x \in Pending : x \in Delivery
  <2>1. \A t \in Tabs, r \in Records : \A x \in Range(queue[t][r]) : x \in Delivery
    BY <1>0 DEF Queues, Range
  <2> QED BY <1>0, <2>1 DEF Pending, Queues
<1>4. \A x \in Pending : x.id \in Nat /\ x.tab \in Tabs /\ x.event \in Events BY <1>3 DEF Delivery
<1>5. Judged(d) BY <1>0, <1>1, <1>2, <1>4 DEF Judged, Tracked
<1>6. d.event.record \in Records /\ \A x \in Pending : x.event.record \in Records
  BY <1>1, <1>4, EventRecord DEF Delivery
<1>7. Repeated BY <1>1, <1>6, MovedRepeated DEF Tracked, Lined
<1>8. Lined' BY <1>0, <1>2, <1>4, <1>6, MovedLined DEF Tracked, Delivered
<1>9. d \in Pending BY DEF Pending
<1>10. Known'
  <2>1. \A x \in Pending' : x.event.record \in Highlights => x.event.record \in library'.used
    BY <1>5, <1>7, JudgedLibrary DEF Tracked, Known, Repeated
  <2>2. DOMAIN library'.highlights \subseteq library'.used
    BY <1>5, JudgedLibrary DEF Tracked, Known
  <2>3. library'.confirmed \cap Highlights \subseteq library'.used
    BY <1>5, <1>9, JudgedLibrary DEF Tracked, Known
  <2>4. \A p \in removals' : p.left \cap Highlights \subseteq library'.used
    BY <1>5, JudgedLibrary DEF Tracked, Known
  <2> QED BY <2>1, <2>2, <2>3, <2>4 DEF Known
<1>11. Plain' BY <1>7 DEF Tracked, Plain, Repeated
<1>12. ASSUME NEW h \in Highlights, h \notin strayed' PROVE Single(h)' /\ Deleted(h)'
  <2>1. Single(h) /\ Deleted(h) BY <1>12 DEF Tracked, Moved
  <2>2. Single(h)'
    <3> SUFFICES ASSUME NEW x \in Pending', NEW y \in Pending',
                        x.event.record = h, x.event.type = "create",
                        y.event.record = h, y.event.type = "delete"
                 PROVE  x.tab = y.tab /\ x.id < y.id
      BY DEF Single
    <3>1. PICK a \in Pending : a.id = x.id /\ a.tab = x.tab /\ a.event = x.event
      BY <1>7 DEF Repeated
    <3>2. PICK b \in Pending : b.id = y.id /\ b.tab = y.tab /\ b.event = y.event
      BY <1>7 DEF Repeated
    <3> QED BY <2>1, <3>1, <3>2 DEF Single
  <2> QED BY <1>5, <1>12, <2>1, <2>2, DeliveredDeleted
<1>13. ASSUME NEW h \in DOMAIN library'.highlights, h \notin strayed' PROVE Owner(h)' /\ Trail(h)'
  <2>1. /\ h \in DOMAIN library.highlights /\ library'.highlights[h] = library.highlights[h]
    BY <1>5, JudgedLibrary
  <2>2. Owner(h) /\ Trail(h) /\ h \in Highlights
    BY <1>0, <1>13, <2>1 DEF Tracked, Moved, Library, Table
  <2>3. Owner(h)'
    <3> SUFFICES ASSUME NEW x \in Pending', x.event.record = h
                 PROVE  /\ Telling(x.event) => x.tab = library'.highlights[h].tab
                        /\ x.event.type = "create" => x.event.row.book = library'.highlights[h].book
                        /\ x.event.type = "update" => ~library'.highlights[h].bare
      BY DEF Owner
    <3>1. PICK a \in Pending : a.id = x.id /\ a.tab = x.tab /\ a.event = x.event
      BY <1>7 DEF Repeated
    <3> QED BY <2>1, <2>2, <3>1 DEF Owner
  <2> QED BY <1>5, <1>13, <2>1, <2>2, <2>3, DeliveredTrail
<1>14. ASSUME NEW n \in DOMAIN library'.notes, n \notin strayed' PROVE Told(n)'
  <2>1. n \in DOMAIN library.notes BY <1>5, JudgedLibrary
  <2>2. Told(n) /\ n \in Notes BY <1>0, <1>14, <2>1 DEF Tracked, Moved, Library, Table
  <2> QED BY <1>0, <1>5, <1>14, <2>1, <2>2, DeliveredTold
<1> QED BY <1>8, <1>10, <1>11, <1>12, <1>13, <1>14 DEF Tracked

-----------------------------------------------------------------------------
(* Steps that deliver nothing.                                             *)

\* The library keeps a highlight, but for the note it belongs to.
Untouched(h) ==
    /\ h \in DOMAIN library.highlights
    /\ Alike(library'.highlights[h], library.highlights[h])
    /\ library'.highlights[h].tab = library.highlights[h].tab

\* A step that is about the records in R: it leaves the others aside.
About(R) ==
    /\ Lined' /\ strayed \subseteq strayed'
    /\ mirror'.receipts = mirror.receipts /\ mirror.buried \subseteq mirror'.buried
    /\ DOMAIN mirror.notes \subseteq DOMAIN mirror'.notes \cup mirror'.buried
    /\ Forward(mirror.notes, mirror'.notes)
    /\ \A h \in Highlights \ strayed' : Aside(mirror, mirror', h)
    /\ library'.confirmed = library.confirmed /\ library.used \subseteq library'.used
    /\ \A h \in DOMAIN library'.highlights \ R : Untouched(h)
    /\ \A n \in DOMAIN library'.notes \ R :
          n \in DOMAIN library.notes /\ library'.notes[n] = library.notes[n]
    /\ \A t \in Tabs, r \in Records \ (R \cup strayed') : All(t, r)' = All(t, r)
    /\ \A d \in Pending' \ Pending : d.event.record \in R
    /\ \A d \in flight' \ flight : d.event.record \in R

\* A highlight that was left aside follows its trail.
LEMMA AsideTrail ==
    ASSUME Library(library), Library(library'), NEW R, About(R), NEW h \in Highlights \ (R \cup strayed'),
           h \in DOMAIN library'.highlights, Trail(h)
    PROVE  Trail(h)'
<1>0. h \in Records BY DEF Records
<1>1. /\ h \in DOMAIN library.highlights /\ Alike(library'.highlights[h], library.highlights[h])
      /\ library'.highlights[h].tab = library.highlights[h].tab
  BY DEF About, Untouched
<1>01. library.highlights[h] \in Saved /\ library'.highlights[h] \in Saved
  BY <1>1 DEF Library, Table
<1>2. PICK s \in Saved, z \in Saved :
         library.highlights[h] = s /\ library'.highlights[h] = z /\ Alike(z, s) /\ z.tab = s.tab
  BY <1>1, <1>01
<1>3. PICK t \in Tabs : t = s.tab BY DEF Saved
<1>4. All(t, h)' = All(t, h) /\ mirror'.receipts = mirror.receipts BY <1>0 DEF About
<1>5. Todo(t, h)' = Todo(t, h) BY <1>4 DEF Todo
<1> DEFINE X == {p \in Todo(t, h) : Texts(p[2])}
           ended == h \in library.confirmed \/ \E p \in All(t, h) : p[2].type = "delete" /\ p[1] \in mirror.receipts
<1>6. Telltale(h) = X /\ Telltale(h)' = X BY <1>2, <1>3, <1>5 DEF Telltale
<1>7. library'.confirmed = library.confirmed BY DEF About
<1>8. /\ h \in library.confirmed \/ Ended(h) <=> ended
      /\ (h \in library'.confirmed \/ Ended(h)') <=> ended
  BY <1>2, <1>3, <1>4, <1>7 DEF Ended
<1> HIDE DEF X, ended
<1>9. Aside(mirror, mirror', h) /\ mirror.buried \subseteq mirror'.buried BY DEF About
<1>10. /\ X # {} => Newest(X, s)
       /\ X = {} /\ h \in DOMAIN mirror.highlights => Matches(mirror.highlights[h], s)
       /\ X = {} /\ h \notin DOMAIN mirror.highlights => Lost(mirror.buried, s) \/ ended
       /\ (\A p \in X : p[2].type # "create") /\ h \in DOMAIN mirror.highlights =>
             mirror.highlights[h].book = s.book
  BY <1>2, <1>6, <1>8 DEF Trail
<1>11. \A x : Matches(x, s) => Matches(x, z) BY <1>2 DEF Alike, Matches
<1>12. Lost(mirror.buried, s) => Lost(mirror'.buried, z)
  BY <1>2, <1>9 DEF Alike, Lost
<1>13. X # {} => Newest(X, z) BY <1>10, <1>11 DEF Newest
<1>14. X = {} /\ h \in DOMAIN mirror'.highlights => Matches(mirror'.highlights[h], z)
  BY <1>9, <1>10, <1>11 DEF Aside, Alike, Matches
<1>15. X = {} /\ h \notin DOMAIN mirror'.highlights => Lost(mirror'.buried, z) \/ ended
  <2>1. CASE X = {} /\ h \in DOMAIN mirror.highlights \ DOMAIN mirror'.highlights
    <3>1. Matches(mirror.highlights[h], z) /\ mirror.highlights[h].book = z.book
      BY <1>2, <1>10, <1>11, <2>1 DEF Alike
    <3> QED BY <1>9, <2>1, <3>1 DEF Aside, Matches, Lost
  <2>2. CASE h \notin DOMAIN mirror.highlights BY <1>10, <1>12, <2>2
  <2> QED BY <2>1, <2>2
<1>16. (\A p \in X : p[2].type # "create") /\ h \in DOMAIN mirror'.highlights =>
          mirror'.highlights[h].book = z.book
  BY <1>2, <1>9, <1>10 DEF Aside, Alike
<1> QED BY <1>2, <1>6, <1>8, <1>13, <1>14, <1>15, <1>16 DEF Trail

\* A note that is told stays told.
LEMMA AsideTold ==
    ASSUME Library(library), Mirror(mirror), Mirror(mirror'), NEW n \in Notes,
           n \in DOMAIN library.notes, n \in DOMAIN library'.notes,
           library'.notes[n] = library.notes[n],
           mirror'.receipts = mirror.receipts, mirror.buried \subseteq mirror'.buried,
           DOMAIN mirror.notes \subseteq DOMAIN mirror'.notes \cup mirror'.buried,
           Forward(mirror.notes, mirror'.notes),
           \A t \in Tabs : All(t, n) \subseteq All(t, n)', Told(n)
    PROVE  Told(n)'
<1>1. library.notes[n] \in Nat BY DEF Library, Table
<1>2. CASE n \in mirror.buried BY <1>2 DEF Told
<1>3. CASE n \in DOMAIN mirror.notes /\ mirror.notes[n].version >= library.notes[n]
  <2>1. n \in DOMAIN mirror'.notes =>
           \/ mirror'.notes[n].version = mirror.notes[n].version
           \/ mirror'.notes[n].version > mirror.notes[n].version
    BY <1>3 DEF Forward, Onward
  <2>2. /\ mirror.notes[n].version \in Nat
        /\ n \in DOMAIN mirror'.notes => mirror'.notes[n].version \in Nat
    BY <1>3 DEF Mirror, Table, Note
  <2>3. n \in DOMAIN mirror'.notes => mirror'.notes[n].version >= library.notes[n]
    BY <1>1, <1>3, <2>1, <2>2
  <2> QED BY <1>3, <2>3 DEF Told
<1>4. ASSUME NEW t \in Tabs, NEW p \in Todo(t, n), p[2].type = "write", p[2].version = library.notes[n]
      PROVE  Told(n)'
  <2>1. p \in Todo(t, n)' BY DEF Todo
  <2> QED BY <1>4, <2>1 DEF Told
<1> QED BY <1>2, <1>3, <1>4 DEF Told

\* The records that a step leaves aside stay tracked.
LEMMA AboutTracked ==
    ASSUME Library(library), Library(library'), Mirror(mirror), Mirror(mirror'), Tracked, NEW R, About(R), Known', Plain',
           \A h \in (Highlights \cap R) \ strayed' :
               Single(h)' /\ Deleted(h)' /\ (h \in DOMAIN library'.highlights => Owner(h)' /\ Trail(h)'),
           \A n \in (Notes \cap R) \ strayed' : n \in DOMAIN library'.notes => Told(n)'
    PROVE  Tracked'
<1>0. Highlights \subseteq Records /\ Notes \subseteq Records BY DEF Records
<1>1. ASSUME NEW h \in Highlights \ (R \cup strayed') PROVE Single(h)' /\ Deleted(h)'
  <2>1. h \in Highlights \ strayed /\ Single(h) /\ Deleted(h) BY DEF Tracked, About
  <2>2. \A d \in Pending' : d.event.record = h => d \in Pending BY DEF About
  <2>3. \A d \in flight' : d.event.record = h => d \in flight BY DEF About
  <2>4. Single(h)' BY <2>1, <2>2 DEF Single
  <2>5. Undone(h)' => Undone(h) BY <2>3 DEF Undone, About
  <2>6. \A t \in Tabs : Todo(t, h)' = Todo(t, h) BY <1>0 DEF Todo, About
  <2>7. h \notin DOMAIN mirror.highlights => h \notin DOMAIN mirror'.highlights BY DEF About, Aside
  <2> QED BY <2>1, <2>4, <2>5, <2>6, <2>7 DEF Deleted
<1>2. ASSUME NEW h \in DOMAIN library'.highlights \ (R \cup strayed') PROVE Owner(h)' /\ Trail(h)'
  <2>1. h \in DOMAIN library.highlights \ strayed /\ h \in Highlights /\ Untouched(h)
    BY DEF About, Untouched, Library, Table
  <2>2. Owner(h) /\ Trail(h) BY <2>1 DEF Tracked
  <2>3. \A d \in Pending' : d.event.record = h => d \in Pending BY DEF About
  <2>4. Owner(h)' BY <2>1, <2>2, <2>3 DEF Owner, Untouched, Alike
  <2> QED BY <2>1, <2>2, <2>4, AsideTrail
<1>3. ASSUME NEW n \in DOMAIN library'.notes \ (R \cup strayed') PROVE Told(n)'
  <2>1. /\ n \in DOMAIN library.notes \ strayed /\ library'.notes[n] = library.notes[n] /\ n \in Notes
    BY DEF About, Library, Table
  <2>2. Told(n) BY <2>1 DEF Tracked
  <2>3. \A t \in Tabs : All(t, n) \subseteq All(t, n)' BY <1>0, <2>1 DEF About
  <2> QED BY <2>1, <2>2, <2>3, AsideTold DEF About
<1>4. DOMAIN library'.highlights \subseteq Highlights /\ DOMAIN library'.notes \subseteq Notes
  BY DEF Library, Table
<1>5. \A h \in Highlights \ strayed' : Single(h)' /\ Deleted(h)' BY <1>1
<1>6. \A h \in DOMAIN library'.highlights \ strayed' : Owner(h)' /\ Trail(h)' BY <1>2, <1>4
<1>7. \A n \in DOMAIN library'.notes \ strayed' : Told(n)' BY <1>3, <1>4
<1>8. Lined' BY DEF About
<1> QED BY <1>5, <1>6, <1>7, <1>8 DEF Tracked

\* What is reported is filed behind what is held.
LEMMA PostLined ==
    ASSUME Queues, Numbered, Lined, counts.issued \in Nat, NEW t \in Tabs, NEW r \in Records,
           NEW events \in Seq(Events), \A i \in DOMAIN events : events[i].record = r,
           NEW acts, Post(t, r, events, acts), mirror' = mirror, strayed \subseteq strayed'
    PROVE  LET new == {<<counts.issued + i, events[i]>> : i \in DOMAIN events}
           IN  /\ Lined' /\ All(t, r)' = All(t, r) \cup new
               /\ \A t1 \in Tabs, r1 \in Records : t1 # t \/ r1 # r => All(t1, r1)' = All(t1, r1)
               /\ flight \subseteq flight'
               /\ \A d \in Pending' : d \in Pending \/ (d.tab = t /\ Pair(d) \in new)
               /\ \A d \in flight' : d \in flight \/ (d.tab = t /\ Pair(d) \in new)
<1> DEFINE N == counts.issued
           new == [i \in DOMAIN events |->
                      [id |-> N + i, tab |-> t, attempt |-> 1, event |-> events[i]]]
           q == queue[t][r]
           rest == q \o new
           pairs == {<<N + i, events[i]>> : i \in DOMAIN events}
<1>0. N \in Nat OBVIOUS
<1>1. /\ queue' = [queue EXCEPT ![t][r] = rest]
      /\ flight' = flight \cup (IF q = <<>> THEN Heads(new) ELSE {})
  BY DEF Post, Queues
<1>2. /\ DOMAIN events = 1 .. Len(events) /\ Len(events) \in Nat
      /\ \A i \in DOMAIN events : events[i] \in Events
  OBVIOUS
<1>3. new \in Seq(Delivery) /\ DOMAIN new = 1 .. Len(events)
      /\ \A i \in 1 .. Len(events) :
            new[i].id = N + i /\ new[i].tab = t /\ new[i].event = events[i]
  <2>1. \A i \in 1 .. Len(events) : new[i] \in Delivery
    BY <1>0, <1>2, SettingsAssumption DEF Delivery
  <2>2. new \in [1 .. Len(events) -> Delivery] BY <1>2, <2>1
  <2>3. \A i \in 1 .. Len(events) : new[i].id = N + i /\ new[i].tab = t /\ new[i].event = events[i]
    BY <1>2
  <2> HIDE DEF new
  <2> QED BY <1>2, <2>2, <2>3
<1>4. pairs = {<<N + i, events[i]>> : i \in DOMAIN events} OBVIOUS
<1> HIDE DEF new, pairs
<1>5. \A i \in 1 .. Len(events) : Pair(new[i]) = <<N + i, events[i]>> BY <1>3 DEF Pair
<1>6. Pairs(new) = pairs
  <2>1. \A p \in Pairs(new) : p \in pairs BY <1>2, <1>3, <1>4, <1>5 DEF Pairs, Range
  <2>2. \A p \in pairs : p \in Pairs(new) BY <1>2, <1>3, <1>4, <1>5 DEF Pairs, Range
  <2> QED BY <2>1, <2>2
<1>7. q \in Seq(Delivery) /\ Range(q) \subseteq Pending BY DEF Queues, Pending
<1>8. Filed(q, t, r) BY DEF Lined, Filing
<1> HIDE DEF N
<1>9. Filed(new, t, r)
  <2>1. \A i, j \in 1 .. Len(events) : i < j => N + i < N + j BY <1>0, <1>2
  <2> QED BY <1>2, <1>3, <2>1 DEF Filed
<1>10. \A p \in pairs : p[1] \in Nat /\ N < p[1] BY <1>0, <1>2, <1>4
<1>11. \A x \in Pending : x.id \in Nat /\ x.id <= N
  <2>1. \A x \in Pending : x.id \in 1 .. N BY DEF Numbered, N
  <2> QED BY <1>0, <2>1
<1> HIDE DEF q
<1>12. \A i \in DOMAIN q, j \in DOMAIN new : q[i].id < new[j].id
  <2>1. ASSUME NEW i \in DOMAIN q, NEW j \in DOMAIN new PROVE q[i].id < new[j].id
    <3>1. q[i] \in Pending BY <1>7 DEF Range
    <3>2. j \in Nat /\ 1 <= j /\ new[j].id = N + j BY <1>3
    <3>3. N < N + j BY <1>0, <3>2
    <3>4. q[i].id \in Nat /\ q[i].id <= N BY <1>11, <3>1
    <3> QED BY <1>0, <3>2, <3>3, <3>4
  <2> QED BY <2>1
<1>13. Filed(rest, t, r) /\ Pairs(rest) = Pairs(q) \cup pairs
  BY <1>3, <1>6, <1>7, <1>8, <1>9, <1>12, AppendFiled
<1> HIDE DEF rest
<1>14. \A t1 \in Tabs, r1 \in Records :
          queue'[t1][r1] = IF t1 = t /\ r1 = r THEN rest ELSE queue[t1][r1]
  BY <1>1 DEF Queues
<1>15. All(t, r)' = All(t, r) \cup pairs
  <2>1. queue'[t][r] = rest BY <1>14
  <2> QED BY <1>13, <2>1 DEF All, q
<1>16. \A t1 \in Tabs, r1 \in Records : t1 # t \/ r1 # r => All(t1, r1)' = All(t1, r1)
  BY <1>14 DEF All
<1>17. \A t1 \in Tabs, r1 \in Records :
          /\ All(t1, r1) \subseteq All(t1, r1)'
          /\ \A p \in All(t1, r1)' : p \in All(t1, r1) \/ (t1 = t /\ r1 = r /\ p \in pairs)
  BY <1>15, <1>16
<1>18. Filing'
  <2>1. \A t1 \in Tabs, r1 \in Records : Filed(queue'[t1][r1], t1, r1)
    BY <1>13, <1>14 DEF Lined, Filing
  <2> QED BY <2>1 DEF Filing
<1>19. ASSUME NEW d \in flight', d \notin flight
       PROVE  /\ d.tab = t /\ Pair(d) \in pairs /\ d.event.record = r /\ All(t, r) = {}
              /\ \A p \in pairs : d.id <= p[1]
  <2>1. q = <<>> /\ d \in Heads(new) BY <1>1, <1>19
  <2>2. new # <<>> /\ d = Head(new) BY <2>1 DEF Heads
  <2>3. d = new[1] /\ 1 \in 1 .. Len(events) BY <1>2, <1>3, <2>2
  <2>4. Pair(d) \in pairs BY <1>3, <1>6, <2>3 DEF Pairs, Range
  <2>5. All(t, r) = {} BY <2>1 DEF All, Pairs, Range, q
  <2>6. d.tab = t /\ d.event.record = r /\ d.id = N + 1 BY <1>2, <1>3, <2>3
  <2>7. \A i \in 1 .. Len(events) : N + 1 <= N + i BY <1>0, <1>2
  <2> QED BY <1>2, <1>4, <2>4, <2>5, <2>6, <2>7
<1>20. \A t1 \in Tabs, r1 \in Records : \A p \in All(t1, r1) : \E x \in Pending : p[1] = x.id
  BY AllPending DEF Lined
<1>21. \A x \in flight : x \in Pending /\ x.tab \in Tabs /\ x.event.record \in Records
  BY EventRecord DEF Queues, Delivery, Pending
<1>22. Leading'
  <2> SUFFICES ASSUME NEW d \in flight', NEW p \in All(d.tab, d.event.record)' PROVE d.id <= p[1]
    BY DEF Leading
  <2>1. CASE d \in flight
    <3>1. CASE p \in All(d.tab, d.event.record) BY <2>1, <3>1 DEF Lined, Leading
    <3>2. CASE p \in pairs
      <4>1. d.id \in Nat /\ d.id <= N BY <1>11, <1>21, <2>1
      <4>2. p[1] \in Nat /\ N < p[1] BY <1>10, <3>2
      <4> QED BY <1>0, <4>1, <4>2
    <3> QED BY <1>17, <1>21, <2>1, <3>1, <3>2
  <2>2. CASE d \notin flight BY <1>15, <1>19, <2>2
  <2> QED BY <2>1, <2>2
<1>23. Waiting'
  <2> SUFFICES ASSUME NEW t1 \in Tabs, NEW r1 \in Records, NEW p \in All(t1, r1)', NEW o \in All(t1, r1)',
                      p[1] \in mirror.receipts
               PROVE  p[1] <= o[1]
    BY DEF Waiting
  <2>1. p[1] \in 1 .. N BY DEF Numbered, N
  <2>2. p[1] \in Nat /\ p[1] <= N BY <1>0, <2>1
  <2>3. CASE o \in pairs
    <3>1. o[1] \in Nat /\ N < o[1] BY <1>10, <2>3
    <3> QED BY <1>0, <2>2, <3>1
  <2>4. CASE o \in All(t1, r1)
    <3>1. p \notin pairs
      <4>1. p \in pairs => p[1] \in Nat /\ N < p[1] BY <1>10
      <4> QED BY <1>0, <2>2, <4>1
    <3>2. p \in All(t1, r1) BY <1>17, <3>1
    <3> QED BY <2>4, <3>2 DEF Lined, Waiting
  <2> QED BY <1>17, <2>3, <2>4
<1>24. InFlight'
  <2> SUFFICES ASSUME NEW d \in flight', d.event.record \in (Highlights \cup Notes) \ strayed',
                      d.id \notin mirror.receipts
               PROVE  Pair(d) \in All(d.tab, d.event.record)'
    BY DEF InFlight
  <2>1. CASE d \in flight
    <3>1. Pair(d) \in All(d.tab, d.event.record) BY <2>1 DEF Lined, InFlight
    <3> QED BY <1>17, <1>21, <2>1, <3>1
  <2>2. CASE d \notin flight BY <1>15, <1>19, <2>2
  <2> QED BY <2>1, <2>2
<1>25. ASSUME NEW d \in Pending' PROVE d \in Pending \/ (d.tab = t /\ Pair(d) \in pairs)
  <2>1. CASE d \in flight' BY <1>19, <1>21, <2>1
  <2>2. ASSUME NEW t1 \in Tabs, NEW r1 \in Records, d \in Range(queue'[t1][r1])
        PROVE  d \in Pending \/ (d.tab = t /\ Pair(d) \in pairs)
    <3>1. CASE t1 = t /\ r1 = r
      <4>1. d \in Range(rest) BY <1>14, <2>2, <3>1
      <4>2. d \in Range(q) \cup Range(new) BY <1>3, <1>7, <4>1, AppendRange DEF rest
      <4>3. d \in Range(new) => d.tab = t /\ Pair(d) \in pairs BY <1>3, <1>6 DEF Pairs, Range
      <4> QED BY <1>7, <4>2, <4>3
    <3>2. CASE t1 # t \/ r1 # r
      <4>1. d \in Range(queue[t1][r1]) BY <1>14, <2>2, <3>2
      <4> QED BY <4>1 DEF Pending
    <3> QED BY <3>1, <3>2
  <2>3. d \in flight' \/ \E t1 \in Tabs, r1 \in Records : d \in Range(queue'[t1][r1])
    BY DEF Pending
  <2> QED BY <2>1, <2>2, <2>3
<1>26. \A d \in flight' : d \in flight \/ (d.tab = t /\ Pair(d) \in pairs) BY <1>19
<1>27. flight \subseteq flight' BY <1>1
<1>28. Lined' BY <1>18, <1>22, <1>23, <1>24 DEF Lined
<1> QED BY <1>15, <1>16, <1>25, <1>26, <1>27, <1>28 DEF pairs, N

\* What is reported has no receipt, and comes last.
LEMMA Reported ==
    ASSUME IInv, Tracked, NEW t \in Tabs, NEW r \in Records, NEW e \in Events, e.record = r,
           NEW acts, Post(t, r, <<e>>, acts), mirror' = mirror, strayed \subseteq strayed'
    PROVE  LET N == counts.issued + 1
               new == <<N, e>>
           IN  /\ Lined' /\ All(t, r)' = All(t, r) \cup {new} /\ Todo(t, r)' = Todo(t, r) \cup {new}
               /\ \A t1 \in Tabs, r1 \in Records : t1 # t \/ r1 # r =>
                     All(t1, r1)' = All(t1, r1) /\ Todo(t1, r1)' = Todo(t1, r1)
               /\ N \in Nat /\ N \notin mirror.receipts /\ \A x \in Pending : x.id < N
               /\ \A t1 \in Tabs, r1 \in Records : \A p \in All(t1, r1) : p[1] < N
               /\ flight \subseteq flight'
               /\ \A d \in Pending' : d \in Pending \/ (d.tab = t /\ d.id = N /\ d.event = e)
               /\ \A d \in flight' : d \in flight \/ (d.tab = t /\ d.id = N /\ d.event = e)
<1> DEFINE N == counts.issued + 1
           new == <<N, e>>
           events == <<e>>
           pairs == {<<counts.issued + i, events[i]>> : i \in DOMAIN events}
<1>0. Queues /\ Numbered /\ counts.issued \in Nat /\ Lined BY Parts, Counted DEF Tracked
<1>1. events \in Seq(Events) /\ DOMAIN events = {1} /\ events[1] = e OBVIOUS
<1>2. pairs = {new} BY <1>1
<1>3. \A i \in DOMAIN events : events[i].record = r BY <1>1
<1>4. Post(t, r, events, acts) OBVIOUS
<1>5. pairs = {<<counts.issued + i, events[i]>> : i \in DOMAIN events} OBVIOUS
<1> HIDE DEF events, pairs
<1>6. /\ Lined' /\ All(t, r)' = All(t, r) \cup {new}
      /\ \A t1 \in Tabs, r1 \in Records : t1 # t \/ r1 # r => All(t1, r1)' = All(t1, r1)
      /\ flight \subseteq flight'
      /\ \A d \in Pending' : d \in Pending \/ (d.tab = t /\ Pair(d) = new)
      /\ \A d \in flight' : d \in flight \/ (d.tab = t /\ Pair(d) = new)
  <2>1. /\ Lined' /\ All(t, r)' = All(t, r) \cup pairs
        /\ \A t1 \in Tabs, r1 \in Records : t1 # t \/ r1 # r => All(t1, r1)' = All(t1, r1)
        /\ flight \subseteq flight'
        /\ \A d \in Pending' : d \in Pending \/ (d.tab = t /\ Pair(d) \in pairs)
        /\ \A d \in flight' : d \in flight \/ (d.tab = t /\ Pair(d) \in pairs)
    BY <1>0, <1>1, <1>3, <1>4, <1>5, PostLined
  <2> QED BY <1>2, <2>1
<1>7. \A d : Pair(d) = new => d.id = N /\ d.event = e BY DEF Pair
<1>8. new[1] = N OBVIOUS
<1>9. N \in Nat /\ \A n \in 1 .. counts.issued : n < N /\ n # N BY <1>0
<1> HIDE DEF N, new
<1>10. N \notin mirror.receipts /\ \A x \in Pending : x.id < N BY <1>9, <1>0 DEF Numbered
<1>11. \A t1 \in Tabs, r1 \in Records : \A p \in All(t1, r1) : p[1] < N
  BY <1>0, <1>10, AllPending DEF Lined
<1>12. Todo(t, r)' = Todo(t, r) \cup {new} BY <1>6, <1>8, <1>10 DEF Todo
<1>13. \A t1 \in Tabs, r1 \in Records : t1 # t \/ r1 # r => Todo(t1, r1)' = Todo(t1, r1)
  BY <1>6 DEF Todo
<1> QED BY <1>6, <1>7, <1>9, <1>10, <1>11, <1>12, <1>13 DEF N, new

\* A report leaves the other records aside.
LEMMA ReportedAbout ==
    ASSUME IInv, Tracked, NEW t \in Tabs, NEW r \in Records, NEW events \in Seq(Events),
           \A i \in DOMAIN events : events[i].record = r,
           NEW acts, Post(t, r, events, acts), mirror' = mirror, strayed \subseteq strayed',
           library'.confirmed = library.confirmed, library.used \subseteq library'.used,
           \A h \in DOMAIN library'.highlights \ {r} :
               h \in DOMAIN library.highlights /\ library'.highlights[h] = library.highlights[h],
           \A n \in DOMAIN library'.notes \ {r} :
               n \in DOMAIN library.notes /\ library'.notes[n] = library.notes[n]
    PROVE  About({r})
<1> DEFINE pairs == {<<counts.issued + i, events[i]>> : i \in DOMAIN events}
<1>0. Queues /\ Numbered /\ counts.issued \in Nat /\ Lined BY Parts, Counted DEF Tracked
<1>1. /\ Lined'
      /\ \A t1 \in Tabs, r1 \in Records : t1 # t \/ r1 # r => All(t1, r1)' = All(t1, r1)
      /\ \A d \in Pending' : d \in Pending \/ Pair(d) \in pairs
      /\ \A d \in flight' : d \in flight \/ Pair(d) \in pairs
  BY <1>0, PostLined
<1>2. \A d : Pair(d) \in pairs => d.event.record = r BY DEF Pair
<1> HIDE DEF pairs
<1>3. \A h : Aside(mirror, mirror, h) BY DEF Aside, Alike
<1>4. Forward(mirror.notes, mirror.notes) BY DEF Forward, Onward
<1>8. \A h \in DOMAIN library'.highlights \ {r} : Untouched(h) BY DEF Untouched, Alike
<1>5. \A t1 \in Tabs, r1 \in Records \ ({r} \cup strayed') : All(t1, r1)' = All(t1, r1) BY <1>1
<1>6. \A d \in Pending' \ Pending : d.event.record \in {r} BY <1>1, <1>2
<1>7. \A d \in flight' \ flight : d.event.record \in {r} BY <1>1, <1>2
<1> QED BY <1>1, <1>3, <1>4, <1>5, <1>6, <1>7, <1>8 DEF About

\* Saving what is neither a highlight nor a note.
LEMMA OtherTracked ==
    ASSUME IInv, IInv', Tracked, NEW t \in Tabs, NEW r \in Records \ (Highlights \cup Notes),
           NEW events \in Seq(Events), \A i \in DOMAIN events : events[i].record = r,
           NEW acts, Post(t, r, events, acts), mirror' = mirror, strayed \subseteq strayed',
           library'.confirmed = library.confirmed, library.used \subseteq library'.used,
           library'.highlights = library.highlights, library'.notes = library.notes,
           \A p \in removals' : p.left \cap Highlights \subseteq library'.used
    PROVE  Tracked'
<1>0. Library(library) /\ Library(library') /\ Mirror(mirror) /\ Mirror(mirror') BY DEF IInv, TypeOK
<1>1. About({r}) BY ReportedAbout
<1>2. \A d \in Pending' : d.event.record \in Highlights => d \in Pending BY <1>1 DEF About
<1>3. Known' /\ Plain' BY <1>2 DEF Tracked, Known, Plain
<1> QED BY <1>0, <1>1, <1>3, AboutTracked

\* A new highlight.
LEMMA CreateTracked ==
    ASSUME IInv, IInv', Tracked, NEW t \in Tabs, NEW h \in Highlights, h \notin library.used,
           NEW s \in Saved, s.tab = t, NEW e \in Events, e.record = h, e.type = "create",
           Matches(e.row, s), e.row.book = s.book, Post(t, h, <<e>>, 1),
           library'.highlights = With(library.highlights, h, s), library'.notes = library.notes,
           library'.used = library.used \cup {h}, library'.confirmed = library.confirmed,
           mirror' = mirror, removals' = removals, strayed' = strayed
    PROVE  Tracked'
<1> DEFINE N == counts.issued + 1
           new == <<N, e>>
<1>0. /\ Library(library) /\ Library(library') /\ Mirror(mirror) /\ Mirror(mirror')
      /\ h \in Records /\ Filing
  BY DEF IInv, TypeOK, Records, Tracked, Lined
<1>1. /\ \A t1 \in Tabs, r1 \in Records : t1 # t \/ r1 # h =>
            All(t1, r1)' = All(t1, r1) /\ Todo(t1, r1)' = Todo(t1, r1)
      /\ Todo(t, h)' = Todo(t, h) \cup {new} /\ N \notin mirror.receipts
      /\ \A d \in Pending' : d \in Pending \/ (d.tab = t /\ d.id = N /\ d.event = e)
      /\ \A d \in flight' : d \in flight \/ (d.tab = t /\ d.id = N /\ d.event = e)
  BY <1>0, Reported
<1>2. new[1] = N /\ new[2] = e OBVIOUS
<1> HIDE DEF N, new
<1>3. DOMAIN library'.highlights = DOMAIN library.highlights \cup {h} /\ library'.highlights[h] = s
      /\ \A x \in DOMAIN library.highlights \ {h} : library'.highlights[x] = library.highlights[x]
  BY <1>0 DEF With
<1>4. About({h})
  <2> DEFINE events == <<e>>
  <2>1. events \in Seq(Events) /\ \A i \in DOMAIN events : events[i].record = h OBVIOUS
  <2>2. Post(t, h, events, 1) OBVIOUS
  <2> HIDE DEF events
  <2> QED BY <1>0, <1>3, <2>1, <2>2, ReportedAbout
<1>5. \A d \in Pending' : d.event.record = h => d.tab = t /\ d.id = N /\ d.event = e
  BY <1>1 DEF Tracked, Known
<1>6. \A x \in Tabs : Todo(x, h) = {} /\ All(x, h) = {}
  <2>1. \A d \in Pending : d.event.record # h BY DEF Tracked, Known
  <2>2. \A x \in Tabs : All(x, h) = {} BY <1>0, <2>1, AllPending
  <2> QED BY <2>2 DEF Todo
<1>7. Known' /\ Plain'
  <2>1. \A d \in Pending' : d \in Pending \/ d.event = e BY <1>1
  <2>2. \A d \in Pending' : d.event.record \in Highlights => d.event.record \in library'.used
    BY <2>1 DEF Tracked, Known
  <2>3. Known' BY <1>3, <2>2 DEF Tracked, Known
  <2>4. Plain' BY <2>1 DEF Tracked, Plain
  <2> QED BY <2>3, <2>4
<1>8. Single(h)' BY <1>5 DEF Single
<1>9. Deleted(h)'
  <2>1. h \notin library'.confirmed BY DEF Tracked, Known
  <2>2. \A d \in flight' : d.event.record = h => d.event.type # "delete" BY <1>5 DEF Pending
  <2> QED BY <2>1, <2>2 DEF Deleted, Undone
<1>10. Owner(h)' BY <1>3, <1>5 DEF Owner
<1>11. Trail(h)'
  <2>1. Telltale(h)' = {p \in Todo(t, h)' : Texts(p[2])} BY <1>3 DEF Telltale
  <2>2. Telltale(h)' = {new} BY <1>1, <1>2, <1>6, <2>1 DEF Texts
  <2>3. N <= N BY Parts, Counted DEF N
  <2>4. Newest(Telltale(h)', s) BY <1>2, <2>2, <2>3 DEF Newest
  <2> QED BY <1>2, <1>3, <2>2, <2>4 DEF Trail
<1>12. Notes \cap {h} = {} BY SettingsAssumption
<1> QED BY <1>0, <1>4, <1>7, <1>8, <1>9, <1>10, <1>11, <1>12, AboutTracked

\* A highlight is changed or deleted.
LEMMA ChangeTracked ==
    ASSUME IInv, IInv', Tracked, NEW t \in Tabs, NEW h \in DOMAIN library.highlights,
           NEW e \in Events, e.record = h, e.type \in {"update", "delete"},
           e.type = "update" => "book" \notin DOMAIN e.row /\ ~library'.highlights[h].bare,
           NEW acts, Post(t, h, <<e>>, acts),
           DOMAIN library'.highlights = DOMAIN library.highlights,
           \A x \in DOMAIN library.highlights \ {h} : library'.highlights[x] = library.highlights[x],
           library'.highlights[h].tab = library.highlights[h].tab,
           library'.highlights[h].book = library.highlights[h].book,
           Texts(e) => Matches(e.row, library'.highlights[h]),
           ~Texts(e) => Alike(library'.highlights[h], library.highlights[h]),
           library'.notes = library.notes, library'.used = library.used,
           library'.confirmed = library.confirmed, mirror' = mirror, strayed \subseteq strayed',
           Telling(e) /\ library.highlights[h].tab # t => h \in strayed',
           \A p \in removals' : p.left \cap Highlights \subseteq library'.used
    PROVE  Tracked'
<1> DEFINE N == counts.issued + 1
           new == <<N, e>>
<1>0. /\ Library(library) /\ Library(library') /\ Mirror(mirror) /\ Mirror(mirror')
      /\ h \in Records /\ h \in Highlights /\ Filing
  BY DEF IInv, TypeOK, Records, Tracked, Lined, Library, Table
<1>1. /\ \A t1 \in Tabs, r1 \in Records : t1 # t \/ r1 # h =>
            All(t1, r1)' = All(t1, r1) /\ Todo(t1, r1)' = Todo(t1, r1)
      /\ All(t, h)' = All(t, h) \cup {new} /\ Todo(t, h)' = Todo(t, h) \cup {new}
      /\ N \in Nat /\ N \notin mirror.receipts /\ \A x \in Pending : x.id < N
      /\ \A t1 \in Tabs, r1 \in Records : \A p \in All(t1, r1) : p[1] < N
      /\ \A d \in Pending' : d \in Pending \/ (d.tab = t /\ d.id = N /\ d.event = e)
      /\ \A d \in flight' : d \in flight \/ (d.tab = t /\ d.id = N /\ d.event = e)
  BY <1>0, Reported
<1>2. new[1] = N /\ new[2] = e OBVIOUS
<1> HIDE DEF N, new
<1>3. About({h})
  <2> DEFINE events == <<e>>
  <2>1. events \in Seq(Events) /\ \A i \in DOMAIN events : events[i].record = h OBVIOUS
  <2>2. Post(t, h, events, acts) OBVIOUS
  <2> HIDE DEF events
  <2> QED BY <1>0, <2>1, <2>2, ReportedAbout
<1>4. Known' /\ Plain'
  <2>1. \A d \in Pending' : d \in Pending \/ d.event = e BY <1>1
  <2>2. h \in library.used BY DEF Tracked, Known
  <2>3. \A d \in Pending' : d.event.record \in Highlights => d.event.record \in library'.used
    BY <2>1, <2>2 DEF Tracked, Known
  <2>4. Known' BY <2>3 DEF Tracked, Known
  <2>5. Plain' BY <2>1 DEF Tracked, Plain
  <2> QED BY <2>4, <2>5
<1>5. ASSUME h \notin strayed' PROVE Single(h)' /\ Deleted(h)' /\ Owner(h)' /\ Trail(h)'
  <2>1. Single(h) /\ Deleted(h) /\ Owner(h) /\ Trail(h) BY <1>0, <1>5 DEF Tracked
  <2>2. Telling(e) => library.highlights[h].tab = t BY <1>5
  <2>3. Single(h)'
    <3> SUFFICES ASSUME NEW x \in Pending', NEW y \in Pending',
                        x.event.record = h, x.event.type = "create",
                        y.event.record = h, y.event.type = "delete"
                 PROVE  x.tab = y.tab /\ x.id < y.id
      BY DEF Single
    <3>1. x \in Pending BY <1>1
    <3>2. CASE y \in Pending BY <2>1, <3>1, <3>2 DEF Single
    <3>3. CASE y.tab = t /\ y.id = N /\ y.event = e
      <4>1. Telling(e) /\ Telling(x.event) BY <3>3 DEF Telling, Texts
      <4>2. x.tab = t BY <2>1, <2>2, <3>1, <4>1 DEF Owner
      <4> QED BY <1>1, <3>1, <3>3, <4>2
    <3> QED BY <1>1, <3>2, <3>3
  <2>4. Undone(h)' => Undone(h) BY <1>1 DEF Undone
  <2>5. ASSUME NEW x \in Tabs, NEW p \in Todo(x, h)' PROVE p \in Todo(x, h) \/ p = new
    BY <1>0, <1>1
  <2>6. Deleted(h)' BY <1>2, <2>1, <2>4, <2>5 DEF Deleted
  <2>7. Owner(h)'
    <3> SUFFICES ASSUME NEW x \in Pending', x.event.record = h
                 PROVE  /\ Telling(x.event) => x.tab = library'.highlights[h].tab
                        /\ x.event.type = "create" => x.event.row.book = library'.highlights[h].book
                        /\ x.event.type = "update" => ~library'.highlights[h].bare
      BY DEF Owner
    <3>1. CASE x \in Pending
      <4>1. ~library.highlights[h].bare => ~library'.highlights[h].bare
        BY DEF Alike, Texts, Patch
      <4> QED BY <2>1, <3>1, <4>1 DEF Owner
    <3>2. CASE x.tab = t /\ x.event = e BY <2>2, <3>2
    <3> QED BY <1>1, <3>1, <3>2
  <2>8. Trail(h)'
    <3>1. PICK u \in Tabs : u = library.highlights[h].tab BY <1>0 DEF Library, Table, Saved
    <3>2. library'.highlights[h].tab = u BY <3>1
    <3>3. /\ Telltale(h) = {p \in Todo(u, h) : Texts(p[2])}
          /\ Telltale(h)' = {p \in Todo(u, h)' : Texts(p[2])}
      BY <3>1, <3>2 DEF Telltale
    <3>4. /\ All(u, h) \subseteq All(u, h)' /\ Todo(u, h) \subseteq Todo(u, h)'
          /\ \A p \in Todo(u, h)' : p \in Todo(u, h) \/ p = new
      BY <1>0, <1>1
    <3>5. Ended(h) => Ended(h)' BY <3>1, <3>2, <3>4 DEF Ended
    <3>6. CASE ~Texts(e)
      <4>1. Telltale(h)' = Telltale(h) BY <1>2, <3>3, <3>4, <3>6
      <4>2. \A x : Matches(x, library.highlights[h]) => Matches(x, library'.highlights[h])
        BY <3>6 DEF Alike, Matches
      <4>3. Lost(mirror.buried, library.highlights[h]) => Lost(mirror.buried, library'.highlights[h])
        BY <3>6 DEF Alike, Lost
      <4>4. Newest(Telltale(h), library.highlights[h]) => Newest(Telltale(h)', library'.highlights[h])
        BY <4>1, <4>2 DEF Newest
      <4> QED BY <2>1, <3>5, <3>6, <4>1, <4>2, <4>3, <4>4 DEF Trail
    <3>7. CASE Texts(e)
      <4>1. u = t BY <2>2, <3>1, <3>7 DEF Telling
      <4>2. Telltale(h)' = Telltale(h) \cup {new} BY <1>1, <1>2, <3>3, <3>7, <4>1
      <4>3. \A p \in Telltale(h) : p \in All(u, h) BY <3>3 DEF Todo
      <4>4. \A p \in Telltale(h) : p[1] <= N
        <5>1. \A p \in All(u, h) : \E x \in Pending : p[1] = x.id BY <1>0, AllPending
        <5>2. \A x \in Pending : x.id \in Nat
          <6>1. \A x \in Pending : x.id \in 1 .. counts.issued BY DEF IInv, Numbered
          <6> QED BY <6>1, Parts, Counted
        <5>3. \A a \in Nat : a < N => a <= N BY <1>1
        <5> QED BY <1>0, <1>1, <4>3, <5>1, <5>2, <5>3
      <4>5. N <= N BY <1>1
      <4>6. \A p \in Telltale(h)' : p[1] <= new[1] BY <1>2, <4>2, <4>4, <4>5
      <4>7. Newest(Telltale(h)', library'.highlights[h]) BY <1>2, <3>7, <4>2, <4>6 DEF Newest
      <4>8. e.type # "create" BY <1>0
      <4>9. (\A p \in Telltale(h)' : p[2].type # "create") => \A p \in Telltale(h) : p[2].type # "create"
        BY <4>2
      <4>10. Telltale(h)' # {} BY <4>2
      <4> QED BY <2>1, <4>7, <4>9, <4>10 DEF Trail
    <3> QED BY <3>6, <3>7
  <2> QED BY <2>3, <2>6, <2>7, <2>8
<1>6. Notes \cap {h} = {} BY <1>0, SettingsAssumption
<1> QED BY <1>0, <1>3, <1>4, <1>5, <1>6, AboutTracked

\* A note is written or deleted.
LEMMA NoteTracked ==
    ASSUME IInv, IInv', Tracked, NEW t \in Tabs, NEW n \in Notes, NEW e \in Events, e.record = n,
           NEW acts, Post(t, n, <<e>>, acts), mirror' = mirror, strayed' = strayed,
           library'.highlights = library.highlights, library.used \subseteq library'.used,
           library'.confirmed = library.confirmed,
           \A p \in removals' : p.left \cap Highlights \subseteq library'.used,
           DOMAIN library'.notes \subseteq DOMAIN library.notes \cup {n},
           \A x \in DOMAIN library'.notes \ {n} : library'.notes[x] = library.notes[x],
           \/ library'.notes = library.notes
           \/ e.type = "write" /\ e.version = library'.notes[n]
    PROVE  Tracked'
<1> DEFINE N == counts.issued + 1
           new == <<N, e>>
<1>0. /\ Library(library) /\ Library(library') /\ Mirror(mirror) /\ Mirror(mirror')
      /\ n \in Records
  BY DEF IInv, TypeOK, Records
<1>1. /\ \A t1 \in Tabs, r1 \in Records : t1 # t \/ r1 # n =>
            All(t1, r1)' = All(t1, r1) /\ Todo(t1, r1)' = Todo(t1, r1)
      /\ All(t, n)' = All(t, n) \cup {new} /\ Todo(t, n)' = Todo(t, n) \cup {new}
  BY <1>0, Reported
<1>2. new[2] = e OBVIOUS
<1> HIDE DEF new
<1>3. About({n})
  <2> DEFINE events == <<e>>
  <2>1. events \in Seq(Events) /\ \A i \in DOMAIN events : events[i].record = n OBVIOUS
  <2>2. Post(t, n, events, acts) OBVIOUS
  <2> HIDE DEF events
  <2> QED BY <1>0, <2>1, <2>2, ReportedAbout
<1>4. {n} \cap Highlights = {} BY SettingsAssumption
<1>5. \A d \in Pending' : d.event.record \in Highlights => d \in Pending BY <1>3, <1>4 DEF About
<1>6. Known' /\ Plain' BY <1>5 DEF Tracked, Known, Plain
<1>7. ASSUME n \notin strayed', n \in DOMAIN library'.notes PROVE Told(n)'
  <2>1. CASE e.type = "write" /\ e.version = library'.notes[n] BY <1>1, <1>2, <2>1 DEF Told
  <2>2. CASE library'.notes = library.notes
    <3>1. n \in DOMAIN library.notes /\ Told(n) BY <1>7, <2>2 DEF Tracked
    <3>2. \A t1 \in Tabs : All(t1, n) \subseteq All(t1, n)' BY <1>0, <1>1
    <3> QED BY <1>0, <1>3, <1>7, <2>2, <3>1, <3>2, AsideTold DEF About
  <2> QED BY <2>1, <2>2
<1> QED BY <1>0, <1>3, <1>4, <1>6, <1>7, AboutTracked

\* The actions of the person.
LEMMA SaveHighlightTracked ==
    ASSUME IInv, IInv', Tracked, NEW t \in Tabs, NEW h \in Highlights, SaveHighlight(t, h)
    PROVE  Tracked'
<1>0. Library(library) /\ Now \in Nat BY Parts, Counted DEF Now
<1>1. mirror' = mirror /\ removals' = removals BY DEF SaveHighlight
<1>2. ASSUME h \notin library.used, UNCHANGED strayed,
             NEW b \in library.books, NEW note \in DOMAIN library.notes \cup {NoNote}, NEW bare \in BOOLEAN,
             library' = [library EXCEPT
                           !.highlights = With(@, h, [book |-> b, text |-> Now, note |-> note,
                                                      bare |-> bare, tab |-> t]),
                           !.used = @ \cup {h}],
             Post(t, h, <<[type |-> "create", record |-> h,
                           row |-> [book |-> b, text |-> Now, note |-> note, bare |-> bare]]>>, 1)
      PROVE  Tracked'
  <2> DEFINE s == [book |-> b, text |-> Now, note |-> note, bare |-> bare, tab |-> t]
             row == [book |-> b, text |-> Now, note |-> note, bare |-> bare]
             e == [type |-> "create", record |-> h, row |-> row]
  <2>1. s \in Saved /\ row \in Draft BY <1>0 DEF Saved, Draft, Library, Table
  <2>2. s.tab = t /\ Matches(row, s) /\ row.book = s.book BY DEF Matches
  <2>3. library' = [library EXCEPT !.highlights = With(@, h, s), !.used = @ \cup {h}] /\ Post(t, h, <<e>>, 1)
    BY <1>2
  <2> HIDE DEF s, row
  <2>4. e \in Events /\ e.record = h /\ e.type = "create" /\ e.row = row BY <2>1 DEF Events
  <2> HIDE DEF e
  <2>5. /\ library'.highlights = With(library.highlights, h, s) /\ library'.notes = library.notes
        /\ library'.used = library.used \cup {h} /\ library'.confirmed = library.confirmed
    BY <1>0, <2>3 DEF Library
  <2> QED BY <1>1, <1>2, <2>1, <2>2, <2>3, <2>4, <2>5, CreateTracked
<1>3. ASSUME h \in DOMAIN library.highlights,
             library' = [library EXCEPT !.highlights[h].text = Now, !.highlights[h].bare = FALSE],
             Post(t, h, <<[type |-> "update", record |-> h, row |-> [text |-> Now, bare |-> FALSE]]>>, 1),
             strayed' = strayed \cup {x \in {h} : library.highlights[h].tab # t}
      PROVE  Tracked'
  <2> DEFINE row == [text |-> Now, bare |-> FALSE]
             e == [type |-> "update", record |-> h, row |-> row]
  <2>0. row \in Patch /\ row.text = Now /\ row.bare = FALSE /\ DOMAIN row = {"text", "bare"}
    BY <1>0 DEF Patch
  <2>01. Post(t, h, <<e>>, 1) BY <1>3
  <2> HIDE DEF row
  <2>1. e \in Events /\ e.record = h /\ e.type = "update" /\ e.row = row BY <2>0 DEF Events
  <2> HIDE DEF e
  <2>2. "book" \notin DOMAIN e.row /\ Texts(e) BY <2>0, <2>1 DEF Texts
  <2>3. library.highlights[h] \in Saved BY <1>0, <1>3 DEF Library, Table
  <2> DEFINE z == [library.highlights[h] EXCEPT !.text = Now, !.bare = FALSE]
  <2>4. library'.highlights = [library.highlights EXCEPT ![h] = z]
        /\ library'.notes = library.notes /\ library'.used = library.used
        /\ library'.confirmed = library.confirmed
    BY <1>0, <1>3 DEF Library
  <2>5. /\ z.tab = library.highlights[h].tab /\ z.book = library.highlights[h].book
        /\ z.text = Now /\ z.bare = FALSE
    BY <2>3 DEF Saved
  <2> HIDE DEF z
  <2>6. /\ DOMAIN library'.highlights = DOMAIN library.highlights
        /\ \A x \in DOMAIN library.highlights \ {h} : library'.highlights[x] = library.highlights[x]
        /\ library'.highlights[h] = z
    BY <1>3, <2>4
  <2>7. strayed \subseteq strayed' /\ (library.highlights[h].tab # t => h \in strayed') BY <1>3
  <2>8. Matches(e.row, library'.highlights[h]) /\ ~library'.highlights[h].bare
    BY <2>0, <2>1, <2>5, <2>6 DEF Matches
  <2>9. \A p \in removals' : p.left \cap Highlights \subseteq library'.used
    BY <1>1, <2>4 DEF Tracked, Known
  <2>10. /\ library'.highlights[h].tab = library.highlights[h].tab
         /\ library'.highlights[h].book = library.highlights[h].book
         /\ library'.notes = library.notes /\ library'.used = library.used
         /\ library'.confirmed = library.confirmed
    BY <2>4, <2>5, <2>6
  <2>11. h \in DOMAIN library.highlights /\ e \in Events /\ e.record = h /\ e.type \in {"update", "delete"}
    BY <1>3, <2>1
  <2>12. /\ DOMAIN library'.highlights = DOMAIN library.highlights
         /\ \A x \in DOMAIN library.highlights \ {h} : library'.highlights[x] = library.highlights[x]
    BY <2>6
  <2> QED BY <1>1, <2>01, <2>2, <2>7, <2>8, <2>9, <2>10, <2>11, <2>12, ChangeTracked
<1>4. ASSUME h \in DOMAIN library.highlights, ~library.highlights[h].bare, UNCHANGED strayed,
             NEW note \in DOMAIN library.notes \cup {NoNote},
             library' = [library EXCEPT !.highlights[h].note = note],
             Post(t, h, <<[type |-> "update", record |-> h, row |-> [note |-> note]]>>, 1)
      PROVE  Tracked'
  <2> DEFINE e == [type |-> "update", record |-> h, row |-> [note |-> note]]
  <2>1. note \in Notes \cup {NoNote} BY <1>0 DEF Library, Table
  <2>2. e \in Events /\ e.record = h /\ e.type = "update" /\ "book" \notin DOMAIN e.row
        /\ ~Texts(e) /\ ~Telling(e)
    BY <2>1 DEF Events, Patch, Texts, Telling
  <2>3. Post(t, h, <<e>>, 1) BY <1>4
  <2> HIDE DEF e
  <2>4. library.highlights[h] \in Saved BY <1>0, <1>4 DEF Library, Table
  <2> DEFINE z == [library.highlights[h] EXCEPT !.note = note]
  <2>5. library'.highlights = [library.highlights EXCEPT ![h] = z]
        /\ library'.notes = library.notes /\ library'.used = library.used
        /\ library'.confirmed = library.confirmed
    BY <1>0, <1>4 DEF Library
  <2>6. z.tab = library.highlights[h].tab /\ ~z.bare /\ z.book = library.highlights[h].book
        /\ Alike(z, library.highlights[h])
    BY <1>4, <2>4 DEF Saved, Alike
  <2> HIDE DEF z
  <2>7. /\ DOMAIN library'.highlights = DOMAIN library.highlights
        /\ \A x \in DOMAIN library.highlights \ {h} : library'.highlights[x] = library.highlights[x]
        /\ library'.highlights[h] = z
    BY <1>4, <2>5
  <2>8. \A p \in removals' : p.left \cap Highlights \subseteq library'.used
    BY <1>1, <2>5 DEF Tracked, Known
  <2> QED BY <1>1, <1>4, <2>2, <2>3, <2>5, <2>6, <2>7, <2>8, ChangeTracked
<1> QED BY <1>2, <1>3, <1>4 DEF SaveHighlight

LEMMA SaveNoteTracked ==
    ASSUME IInv, IInv', Tracked, NEW t \in Tabs, NEW n \in Notes, SaveNote(t, n)
    PROVE  Tracked'
<1> DEFINE v == Now + 1
<1>0. Library(library) /\ v \in Nat BY Parts, Counted DEF Now
<1>1. PICK cited \in SUBSET (Highlights \cap library.used), title \in Titles :
         Post(t, n, <<[type |-> "write", record |-> n, version |-> v, blocks |-> cited \X {title}]>>, 1)
  BY DEF SaveNote
<1>2. /\ mirror' = mirror /\ strayed' = strayed /\ removals' = removals
      /\ library' = [library EXCEPT !.notes = With(@, n, v), !.used = @ \cup {n}]
  BY DEF SaveNote
<1> DEFINE blocks == cited \X {title}
           e == [type |-> "write", record |-> n, version |-> v, blocks |-> blocks]
<1>3. blocks \in SUBSET Block BY DEF Block
<1>4. Post(t, n, <<e>>, 1) BY <1>1
<1> HIDE DEF v, blocks
<1>5. e \in Events /\ e.record = n /\ e.type = "write" /\ e.version = v BY <1>0, <1>3 DEF Events
<1> HIDE DEF e
<1>6. /\ library'.highlights = library.highlights /\ library'.notes = With(library.notes, n, v)
      /\ library'.used = library.used \cup {n} /\ library'.confirmed = library.confirmed
  BY <1>0, <1>2 DEF Library
<1>7. /\ DOMAIN library'.notes = DOMAIN library.notes \cup {n} /\ library'.notes[n] = v
      /\ \A x \in DOMAIN library'.notes \ {n} : library'.notes[x] = library.notes[x]
  BY <1>6 DEF With
<1>8. \A p \in removals' : p.left \cap Highlights \subseteq library'.used
  BY <1>2, <1>6 DEF Tracked, Known
<1> QED BY <1>2, <1>4, <1>5, <1>6, <1>7, <1>8, NoteTracked

\* The deletion of one record is reported.
LEMMA ReportTracked ==
    ASSUME IInv, IInv', Tracked, NEW p \in Removal, NEW acts, Report(p, acts),
           p.left \cap Highlights \subseteq library.used
    PROVE  Tracked'
<1>0. /\ Library(library) /\ Library(library') /\ Mirror(mirror) /\ Mirror(mirror')
  BY DEF IInv, TypeOK
<1>1. PICK r \in p.left :
        /\ Post(p.tab, r, <<[type |-> "delete", record |-> r]>>, acts)
        /\ removals' = (removals \ {p})
                          \cup {[p EXCEPT !.left = @ \ {r}, !.waits = counts.issued + 1]}
        /\ strayed' = strayed \cup
              {h \in {r} \cap Highlights : h \in DOMAIN library.highlights => library.highlights[h].tab # p.tab}
        /\ mirror' = mirror /\ library' = library
  BY DEF Report
<1> DEFINE e == [type |-> "delete", record |-> r]
           q == [p EXCEPT !.left = @ \ {r}, !.waits = counts.issued + 1]
<1>2. p.tab \in Tabs /\ r \in Records \ Uploads BY DEF Removal
<1>3. e \in Events /\ e.record = r /\ e.type = "delete" BY <1>2 DEF Events, Records
<1>4. Post(p.tab, r, <<e>>, acts) BY <1>1
<1> HIDE DEF e
<1>5. ~Texts(e) BY <1>3 DEF Texts
<1>6. \A x \in removals' : x.left \cap Highlights \subseteq library'.used
  <2>1. q.left \subseteq p.left BY DEF Removal
  <2>2. removals' = (removals \ {p}) \cup {q} BY <1>1
  <2> HIDE DEF q
  <2> QED BY <1>1, <2>1, <2>2 DEF Tracked, Known
<1>7. strayed \subseteq strayed' BY <1>1
<1>8. CASE r \in DOMAIN library.highlights
  <2>1. library.highlights[r].tab # p.tab => r \in strayed' BY <1>0, <1>1, <1>8 DEF Library, Table
  <2>2. Alike(library.highlights[r], library.highlights[r]) BY DEF Alike
  <2> QED BY <1>1, <1>2, <1>3, <1>4, <1>5, <1>6, <1>7, <1>8, <2>1, <2>2, ChangeTracked
<1>9. CASE r \in Highlights \ DOMAIN library.highlights
  <2>1. r \in strayed' BY <1>1, <1>9
  <2> DEFINE events == <<e>>
  <2>2. events \in Seq(Events) /\ \A i \in DOMAIN events : events[i].record = r BY <1>3
  <2>3. Post(p.tab, r, events, acts) BY <1>4
  <2> HIDE DEF events
  <2>4. About({r}) BY <1>1, <1>2, <1>7, <2>2, <2>3, ReportedAbout
  <2>5. \A d \in Pending' : d \in Pending \/ d.event = e
    BY <1>1, <1>2, <1>3, <1>4, <1>7, Reported
  <2>6. r \in library.used BY <1>9
  <2>7. Known'
    <3>1. \A d \in Pending' : d.event.record \in Highlights => d.event.record \in library'.used
      BY <1>1, <1>3, <2>5, <2>6 DEF Tracked, Known
    <3> QED BY <1>1, <1>6, <3>1 DEF Tracked, Known
  <2>8. Plain' BY <1>3, <2>5 DEF Tracked, Plain
  <2>9. Notes \cap {r} = {} BY <1>9, SettingsAssumption
  <2> QED BY <1>0, <2>1, <2>4, <2>7, <2>8, <2>9, AboutTracked
<1>10. CASE r \in Notes
  <2>1. {r} \cap Highlights = {} BY <1>10, SettingsAssumption
  <2>2. strayed' = strayed BY <1>1, <2>1
  <2> QED BY <1>1, <1>2, <1>3, <1>4, <1>6, <1>10, <2>2, NoteTracked
<1>11. CASE r \notin Highlights \cup Notes
  <2> DEFINE events == <<e>>
  <2>1. events \in Seq(Events) /\ \A i \in DOMAIN events : events[i].record = r BY <1>3
  <2>2. Post(p.tab, r, events, acts) BY <1>4
  <2> HIDE DEF events
  <2> QED BY <1>1, <1>2, <1>6, <1>7, <1>11, <2>1, <2>2, OtherTracked
<1> QED BY <1>8, <1>9, <1>10, <1>11

LEMMA RemoveTracked ==
    ASSUME IInv, IInv', Tracked, NEW t \in Tabs, NEW r \in Records, Remove(t, r)
    PROVE  Tracked'
<1>0. Library(library) BY Parts
<1> DEFINE left == Only(r) \cup {r}
           p == [tab |-> t, record |-> r, left |-> left, waits |-> 0]
<1>1. Report(p, 1) BY DEF Remove
<1>2. r \in Records \ Uploads
  <2>1. r \in Books \cup Highlights \cup Notes \cup Links BY <1>0 DEF Remove, Library, Table
  <2> QED BY <2>1, SettingsAssumption DEF Records
<1>3. left \in SUBSET (Records \ Uploads)
  <2>1. Only(r) \in SUBSET Highlights BY <1>0 DEF Only, Library, Table
  <2> QED BY <1>2, <2>1, SettingsAssumption DEF Records
<1>4. left \cap Highlights \subseteq library.used
  <2>1. r \in Highlights => r \in DOMAIN library.highlights
    BY <1>0, SettingsAssumption DEF Remove, Library, Table
  <2> QED BY <2>1 DEF Only, Tracked, Known
<1> HIDE DEF left
<1>5. p \in Removal /\ p.left = left BY <1>2, <1>3 DEF Removal
<1> HIDE DEF p
<1> QED BY <1>1, <1>4, <1>5, ReportTracked

LEMMA ProceedTracked ==
    ASSUME IInv, IInv', Tracked, NEW p \in removals, Proceed(p)
    PROVE  Tracked'
<1>1. p \in Removal /\ p.left \cap Highlights \subseteq library.used BY Parts DEF Tracked, Known
<1> QED BY <1>1, ReportTracked DEF Proceed

\* A removal ends in the library.
LEMMA CommitTracked ==
    ASSUME IInv, IInv', Tracked, NEW p \in removals, Commit(p)
    PROVE  Tracked'
<1>0. Library(library) /\ Library(library') /\ Mirror(mirror) /\ Mirror(mirror') BY DEF IInv, TypeOK
<1>1. /\ mirror' = mirror /\ queue' = queue /\ flight' = flight /\ strayed' = strayed
      /\ removals' \subseteq removals
  BY DEF Commit
<1>2. PICK gone : library' = LetGo(p.record, gone) BY DEF Commit
<1>3. /\ library'.used = library.used /\ library'.confirmed = library.confirmed
      /\ DOMAIN library'.highlights \subseteq DOMAIN library.highlights
      /\ \A h \in DOMAIN library'.highlights : Untouched(h)
      /\ DOMAIN library'.notes \subseteq DOMAIN library.notes
      /\ \A n \in DOMAIN library'.notes : library'.notes[n] = library.notes[n]
  BY <1>0, <1>2, LetGoLibrary DEF Untouched
<1>4. \A t, r : All(t, r)' = All(t, r) BY <1>1 DEF All
<1>5. Pending' = Pending BY <1>1 DEF Pending
<1>6. Lined' BY <1>1, <1>4 DEF Tracked, Lined, Filing, Leading, Waiting, InFlight
<1>7. \A h : Aside(mirror, mirror, h) BY DEF Aside, Alike
<1>8. Forward(mirror.notes, mirror.notes) BY DEF Forward, Onward
<1>9. About({}) BY <1>1, <1>3, <1>4, <1>5, <1>6, <1>7, <1>8 DEF About
<1>10. Known' /\ Plain' BY <1>1, <1>3, <1>5 DEF Tracked, Known, Plain
<1> QED BY <1>0, <1>9, <1>10, AboutTracked

LEMMA SaveLinkTracked ==
    ASSUME IInv, IInv', Tracked, NEW t \in Tabs, NEW l \in Links, SaveLink(t, l)
    PROVE  Tracked'
<1> DEFINE e == [type |-> "create", record |-> l]
           events == <<e>>
<1>0. Library(library) BY Parts
<1>1. l \in Records \ (Highlights \cup Notes)
  BY SettingsAssumption, MirrorAssumption DEF Records
<1>2. /\ mirror' = mirror /\ strayed' = strayed /\ Post(t, l, events, 1)
      /\ removals' = removals
      /\ library' = [library EXCEPT !.links = @ \cup {l}, !.used = @ \cup {l}]
  BY DEF SaveLink
<1>3. e \in Events /\ e.record = l BY DEF Events
<1> HIDE DEF e
<1>4. events \in Seq(Events) /\ \A i \in DOMAIN events : events[i].record = l BY <1>3
<1> HIDE DEF events
<1>5. /\ library'.highlights = library.highlights /\ library'.notes = library.notes
      /\ library'.used = library.used \cup {l} /\ library'.confirmed = library.confirmed
  BY <1>0, <1>2 DEF Library
<1>9. \A p \in removals' : p.left \cap Highlights \subseteq library'.used BY <1>2, <1>5 DEF Tracked, Known
<1> QED BY <1>1, <1>2, <1>4, <1>5, <1>9, OtherTracked

LEMMA RenameTracked ==
    ASSUME IInv, IInv', Tracked, NEW t \in Tabs, NEW b \in Books, Rename(t, b)
    PROVE  Tracked'
<1>1. b \in Records \ (Highlights \cup Notes)
  BY SettingsAssumption, MirrorAssumption DEF Records
<1>2. PICK title \in Titles : Post(t, b, <<[type |-> "update", record |-> b, title |-> title]>>, 1)
  BY DEF Rename
<1> DEFINE e == [type |-> "update", record |-> b, title |-> title]
           events == <<e>>
<1>3. mirror' = mirror /\ strayed' = strayed /\ library' = library /\ removals' = removals BY DEF Rename
<1>4. Post(t, b, events, 1) /\ e \in Events /\ e.record = b BY <1>2 DEF Events
<1> HIDE DEF e
<1>5. events \in Seq(Events) /\ \A i \in DOMAIN events : events[i].record = b BY <1>4
<1> HIDE DEF events
<1>9. \A p \in removals' : p.left \cap Highlights \subseteq library'.used BY <1>3 DEF Tracked, Known
<1> QED BY <1>1, <1>3, <1>4, <1>5, <1>9, OtherTracked

LEMMA UploadTracked ==
    ASSUME IInv, IInv', Tracked, NEW t \in Tabs, NEW u \in Uploads, Upload(t, u)
    PROVE  Tracked'
<1> DEFINE first == [type |-> "start", record |-> u]
           chunks == [i \in 1 .. Chunks |-> [type |-> "chunk", record |-> u, index |-> i - 1]]
           last == [type |-> "complete", record |-> u]
           more == [type |-> "describe", record |-> u]
           tail == IF u \in Described THEN <<more>> ELSE <<>>
           events == <<first>> \o chunks \o <<last>> \o tail
           own == {e \in Events : e.record = u}
<1>0. Library(library) BY Parts
<1>1. u \in Records \ (Highlights \cup Notes) BY SettingsAssumption DEF Records
<1>2. /\ mirror' = mirror /\ strayed' = strayed /\ removals' = removals /\ Post(t, u, events, 1)
      /\ library' = [library EXCEPT !.used = @ \cup {u}]
  BY DEF Upload
<1>3. first \in own /\ last \in own /\ more \in own BY DEF Events
<1>4. chunks \in Seq(own)
  <2>1. ASSUME NEW i \in 1 .. Chunks
        PROVE  [type |-> "chunk", record |-> u, index |-> i - 1] \in own
    <3> DEFINE j == i - 1
    <3>1. j \in 0 .. Chunks - 1 BY MirrorAssumption
    <3> HIDE DEF j
    <3>2. [type |-> "chunk", record |-> u, index |-> j] \in own BY <3>1 DEF Events
    <3> QED BY <3>2 DEF j
  <2> HIDE DEF own
  <2>2. chunks \in [1 .. Chunks -> own] BY <2>1
  <2> HIDE DEF chunks
  <2> QED BY <2>2, MirrorAssumption
<1>5. \A e \in own : e \in Events /\ e.record = u OBVIOUS
<1> HIDE DEF first, chunks, last, more, own
<1>55. tail \in Seq(own) BY <1>3
<1> HIDE DEF tail
<1>6. events \in Seq(own) BY <1>3, <1>4, <1>55
<1> HIDE DEF events
<1>7. events \in Seq(Events) /\ \A i \in DOMAIN events : events[i].record = u BY <1>5, <1>6
<1>8. /\ library'.highlights = library.highlights /\ library'.notes = library.notes
      /\ library'.used = library.used \cup {u} /\ library'.confirmed = library.confirmed
  BY <1>0, <1>2 DEF Library
<1>9. \A p \in removals' : p.left \cap Highlights \subseteq library'.used BY <1>2, <1>8 DEF Tracked, Known
<1> QED BY <1>1, <1>2, <1>7, <1>8, <1>9, OtherTracked

\* A closed tab forgets what it has not delivered.
LEMMA CloseTracked ==
    ASSUME IInv, IInv', Tracked, NEW t \in Tabs, Close(t)
    PROVE  Tracked'
<1>0. /\ Library(library) /\ Library(library') /\ Mirror(mirror) /\ Mirror(mirror')
      /\ Queues /\ Lined /\ strayed \in SUBSET Records
  BY DEF IInv, TypeOK, Queues, Tracked
<1>1. /\ flight' = flight /\ mirror' = mirror /\ library' = library /\ removals' \subseteq removals
      /\ strayed' = strayed \cup {r \in Records : queue[t][r] # <<>>}
  BY DEF Close
<1>2. \A t1 \in Tabs, r1 \in Records :
         queue'[t1][r1] = IF t1 = t THEN <<>> ELSE queue[t1][r1]
  BY <1>0 DEF Close, Queues
<1>3. \A t1 \in Tabs, r1 \in Records : All(t1, r1)' \subseteq All(t1, r1)
  <2>1. Pairs(<<>>) = {} BY DEF Pairs, Range
  <2> QED BY <1>2, <2>1 DEF All
<1>4. \A t1 \in Tabs, r1 \in Records \ strayed' : All(t1, r1)' = All(t1, r1)
  <2>1. \A t1 \in Tabs, r1 \in Records \ strayed' : queue'[t1][r1] = queue[t1][r1] BY <1>1, <1>2
  <2> QED BY <2>1 DEF All
<1>5. \A d \in flight : d.tab \in Tabs /\ d.event.record \in Records
  BY <1>0, EventRecord DEF Queues, Delivery
<1>6. Filing'
  <2>1. \A t1, r1 : Filed(<<>>, t1, r1) BY DEF Filed
  <2> QED BY <1>0, <1>2, <2>1 DEF Lined, Filing
<1>7. Leading' BY <1>0, <1>1, <1>3, <1>5 DEF Lined, Leading
<1>8. Waiting' BY <1>0, <1>1, <1>3 DEF Lined, Waiting
<1>9. InFlight' BY <1>0, <1>1, <1>4, <1>5 DEF Lined, InFlight
<1>10. Lined' BY <1>6, <1>7, <1>8, <1>9 DEF Lined
<1>11. Pending' \subseteq Pending
  <2>1. Range(<<>>) = {} BY DEF Range
  <2> QED BY <1>1, <1>2, <2>1 DEF Pending
<1>12. \A h : Aside(mirror, mirror, h) BY DEF Aside, Alike
<1>15. \A h \in DOMAIN library.highlights : Untouched(h) BY <1>1 DEF Untouched, Alike
<1>13. About({}) BY <1>1, <1>4, <1>10, <1>11, <1>12, <1>15 DEF About, Forward, Onward
<1>14. Known' /\ Plain' BY <1>1, <1>11 DEF Tracked, Known, Plain
<1> QED BY <1>0, <1>13, <1>14, AboutTracked

\* The mirror changes, and no highlight but those that stray.
LEMMA MirrorTracked ==
    ASSUME IInv, IInv', Tracked, Later(mirror, mirror'), library' = library, queue' = queue,
           flight' = flight, removals' = removals, strayed \subseteq strayed',
           \A h \in Highlights \ strayed' : Aside(mirror, mirror', h)
    PROVE  Tracked'
<1>0. Library(library) /\ Library(library') /\ Mirror(mirror) /\ Mirror(mirror') BY DEF IInv, TypeOK
<1>1. \A t1, r1 : All(t1, r1)' = All(t1, r1) BY DEF All
<1>2. Pending' = Pending BY DEF Pending
<1>3. mirror'.receipts = mirror.receipts BY DEF Later
<1>4. Lined' BY <1>1, <1>3 DEF Tracked, Lined, Filing, Leading, Waiting, InFlight
<1>7. \A h \in DOMAIN library.highlights : Untouched(h) BY DEF Untouched, Alike
<1>5. About({}) BY <1>1, <1>2, <1>4, <1>7 DEF About, Later
<1>6. Known' /\ Plain' BY <1>2 DEF Tracked, Known, Plain
<1> QED BY <1>0, <1>5, <1>6, AboutTracked

\* Other programs, and the server by itself.
LEMMA RestTracked ==
    ASSUME IInv, IInv', Tracked, \/ \E b \in Books : RestBook(b)
                                 \/ \E h \in Highlights : RestHighlight(h)
                                 \/ \E n \in Notes : RestNote(n)
                                 \/ \E hash \in Hashes : Digest(hash)
    PROVE  Tracked'
<1>0. Sound(mirror) /\ Mirror(mirror) /\ Now \in Nat BY Parts, Counted DEF Now
<1>1. ASSUME NEW act, NEW result, Other(act, result), Good(mirror, result.mirror),
             strayed \subseteq strayed',
             \A h \in Highlights \ strayed' : Aside(mirror, result.mirror, h)
      PROVE  Tracked'
  BY <1>1, MirrorTracked DEF Other, Good
<1>2. ASSUME NEW b \in Books, RestBook(b) PROVE Tracked'
  <2>0. strayed' = strayed BY <1>2 DEF RestBook
  <2>1. ASSUME NEW title \in Titles, NEW hash \in Hashes,
               Other("rest book", BookImported(mirror, b, title, hash, Now))
        PROVE  Tracked'
    BY <1>0, <1>1, <2>0, <2>1, BookImportedGood, BooksAside
  <2>2. ASSUME NEW title \in Titles, Other("rest book", BookUpdated(mirror, b, title, Now))
        PROVE  Tracked'
    BY <1>0, <1>1, <2>0, <2>2, BookUpdatedGood, BooksAside
  <2>3. ASSUME Other("rest book", BookDeleted(mirror, b, FALSE, Now))
        PROVE  Tracked'
    BY <1>0, <1>1, <2>0, <2>3, BookDeletedGood, BooksAside
  <2> QED BY <1>2, <2>1, <2>2, <2>3 DEF RestBook
<1>3. ASSUME NEW h \in Highlights, RestHighlight(h) PROVE Tracked'
  <2>0. strayed' = strayed \cup {h} BY <1>3 DEF RestHighlight
  <2>1. ASSUME NEW b \in Books, NEW note \in Notes \cup {NoNote}, NEW bare \in BOOLEAN,
               Other("rest highlight", HighlightCreated(mirror, h,
                   [book |-> b, text |-> Now, note |-> note, bare |-> bare /\ note # NoNote], Now))
        PROVE  Tracked'
    <3> DEFINE row == [book |-> b, text |-> Now, note |-> note, bare |-> bare /\ note # NoNote]
    <3>1. row \in Draft BY <1>0 DEF Draft
    <3>2. Other("rest highlight", HighlightCreated(mirror, h, row, Now)) BY <2>1
    <3> HIDE DEF row
    <3>3. \A x : x # h => Aside(mirror, HighlightCreated(mirror, h, row, Now).mirror, x)
      BY <1>0, <3>1, CreatedHighlights
    <3> QED BY <1>0, <1>1, <2>0, <3>1, <3>2, <3>3, HighlightCreatedGood
  <2>2. ASSUME NEW patch \in Patch, Other("rest highlight", HighlightUpdated(mirror, h, patch, Now))
        PROVE  Tracked'
    <3>1. \A x : x # h => Aside(mirror, HighlightUpdated(mirror, h, patch, Now).mirror, x)
      BY <1>0, UpdatedHighlights
    <3> QED BY <1>0, <1>1, <2>0, <2>2, <3>1, HighlightUpdatedGood
  <2>3. ASSUME Other("rest highlight", HighlightDeleted(mirror, h, Now))
        PROVE  Tracked'
    <3>1. \A x : x # h => Aside(mirror, HighlightDeleted(mirror, h, Now).mirror, x)
      BY <1>0, DeletedHighlights
    <3> QED BY <1>0, <1>1, <2>0, <2>3, <3>1, HighlightDeletedGood
  <2>4. \A note \in Notes \cup {NoNote} : [note |-> note] \in Patch BY DEF Patch
  <2>5. \A b \in Books : [book |-> b] \in Patch BY DEF Patch
  <2> QED BY <1>3, <2>1, <2>2, <2>3, <2>4, <2>5 DEF RestHighlight
<1>4. ASSUME NEW n \in Notes, RestNote(n) PROVE Tracked'
  <2>0. strayed' = strayed BY <1>4 DEF RestNote
  <2>1. CASE Other("rest note", NotePosted(mirror, n, Now))
    BY <1>0, <1>1, <2>0, <2>1, NotePostedGood, NotesAside
  <2>2. CASE Other("rest note", NoteDeleted(mirror, n, FALSE))
    BY <1>0, <1>1, <2>0, <2>2, NoteDeletedGood, NotesAside
  <2>3. CASE Other("rest note", NoteRetitled(mirror, n, Now))
    BY <1>0, <1>1, <2>0, <2>3, NoteRetitledGood, NotesAside
  <2> QED BY <1>4, <2>1, <2>2, <2>3 DEF RestNote
<1>5. ASSUME NEW hash \in Hashes, Digest(hash) PROVE Tracked'
  <2>1. strayed' = strayed /\ Other("digest", DigestSaved(mirror, hash)) BY <1>5 DEF Digest
  <2>2. DigestSaved(mirror, hash).mirror.highlights = mirror.highlights
    BY <1>0 DEF DigestSaved, Done, Refused, Mirror, EmptyMirror
  <2>3. \A h : Aside(mirror, DigestSaved(mirror, hash).mirror, h) BY <2>2 DEF Aside, Alike
  <2> QED BY <1>0, <1>1, <2>1, <2>3, DigestSavedGood
<1> QED BY <1>2, <1>3, <1>4, <1>5

LEMMA ExpireTracked ==
    ASSUME IInv, IInv', Tracked, Expire
    PROVE  Tracked'
<1>0. Mirror(mirror) BY Parts
<1>1. /\ library' = library /\ queue' = queue /\ flight' = flight /\ strayed' = strayed
      /\ removals' = removals
  BY DEF Expire
<1>2. /\ mirror'.books = mirror.books /\ mirror'.notes = mirror.notes
      /\ mirror'.highlights = mirror.highlights /\ mirror'.buried = mirror.buried
      /\ mirror'.receipts = mirror.receipts
  BY <1>0 DEF Expire, Mirror, EmptyMirror
<1>3. Later(mirror, mirror') BY <1>2 DEF Later, Forward, Onward
<1>4. \A h : Aside(mirror, mirror', h) BY <1>2 DEF Aside, Alike
<1> QED BY <1>1, <1>3, <1>4, MirrorTracked

\* Deliveries.
LEMMA AnswerTracked ==
    ASSUME IInv, IInv', Tracked, NEW d \in flight, Answer(d)
    PROVE  Tracked'
<1>1. /\ Moved(d) /\ mirror' = Received(mirror, d).mirror
      /\ library' = library \/ (library' = Confirmed(d.event) /\ Received(mirror, d).answer = "ok")
  BY Parts, AnswerMoved DEF Tracked, Lined
<1>2. library' = library \/ Acked(d) BY <1>1 DEF Acked
<1>3. Mirror(mirror') BY DEF IInv, TypeOK
<1>4. removals \in SUBSET Removal BY Parts
<1>5. \A p \in removals' : \E q \in removals : p.left = q.left
  <2>1. removals' \subseteq removals \/ removals' = Resumed(d.id)
    BY DEF Answer, GivenUp, Again, Abandoned
  <2>2. \A p \in Resumed(d.id) : \E q \in removals : p.left = q.left
    BY <1>4 DEF Resumed, Removal
  <2> QED BY <2>1, <2>2
<1> QED BY <1>1, <1>2, <1>3, <1>5, DeliveredTracked

LEMMA LoseTracked ==
    ASSUME IInv, IInv', Tracked, NEW d \in flight, Lose(d)
    PROVE  Tracked'
<1>1. Moved(d) /\ mirror' \in {mirror, Received(mirror, d).mirror} /\ library' = library
  BY Parts, LoseMoved DEF Tracked, Lined
<1>2. Mirror(mirror') BY DEF IInv, TypeOK
<1>3. removals' \subseteq removals BY DEF Lose, Again, GivenUp, Abandoned
<1> QED BY <1>1, <1>2, <1>3, DeliveredTracked

\* Whatever happens, everything stays tracked.
LEMMA TrackedStep ==
    ASSUME IInv, Tracked, [Next]_vars
    PROVE  Tracked'
<1>0. IInv' BY NextStep
<1>1. ASSUME NEW d \in flight, Answer(d) \/ Lose(d) PROVE Tracked'
  BY <1>0, <1>1, AnswerTracked, LoseTracked
<1>2. ASSUME NEW t \in Tabs,
             \/ \E h \in Highlights : SaveHighlight(t, h)
             \/ \E n \in Notes : SaveNote(t, n)
             \/ \E l \in Links : SaveLink(t, l)
             \/ \E r \in Records : Remove(t, r)
             \/ \E b \in Books : Rename(t, b)
             \/ \E u \in Uploads : Upload(t, u)
             \/ Close(t)
      PROVE  Tracked'
  BY <1>0, <1>2, SaveHighlightTracked, SaveNoteTracked, SaveLinkTracked, RemoveTracked,
     RenameTracked, UploadTracked, CloseTracked
<1>21. ASSUME NEW p \in removals, Proceed(p) \/ Commit(p) PROVE Tracked'
  BY <1>0, <1>21, ProceedTracked, CommitTracked
<1>3. CASE UNCHANGED vars
  <2>0. /\ mirror' = mirror /\ library' = library /\ queue' = queue /\ flight' = flight
        /\ removals' = removals /\ strayed' = strayed
    BY <1>3 DEF vars
  <2>1. \A h : Aside(mirror, mirror, h) BY DEF Aside, Alike
  <2> QED BY <1>0, <2>0, <2>1, MirrorTracked DEF Later, Forward, Onward
<1> QED BY <1>0, <1>1, <1>2, <1>21, <1>3, RestTracked, ExpireTracked DEF Next

LEMMA InitTracked == Init => Tracked
<1> SUFFICES ASSUME Init PROVE Tracked
  OBVIOUS
<1>1. /\ DOMAIN library.highlights = {} /\ DOMAIN library.notes = {} /\ library.confirmed = {}
      /\ removals = {} /\ flight = {} /\ mirror.receipts = {} /\ strayed = {}
  BY DEF Init, EmptyMirror
<1>2. \A t \in Tabs, r \in Records : queue[t][r] = <<>> BY DEF Init
<1>3. Pending = {}
  <2>1. Range(<<>>) = {} BY DEF Range
  <2> QED BY <1>1, <1>2, <2>1 DEF Pending
<1>4. Known /\ Plain BY <1>1, <1>3 DEF Known, Plain
<1>5. Lined
  <2>1. \A t, r : Filed(<<>>, t, r) BY DEF Filed
  <2> QED BY <1>1, <1>2, <2>1 DEF Lined, Filing, Leading, Waiting, InFlight
<1>6. \A h : Single(h) /\ Deleted(h) BY <1>1, <1>3 DEF Single, Deleted, Undone
<1> QED BY <1>1, <1>4, <1>5, <1>6 DEF Tracked

\* What is tracked and settled is in step.
LEMMA TrackedInStep ==
    ASSUME Library(library), Tracked
    PROVE  InStep
<1>0. Highlights \subseteq Records /\ Notes \subseteq Records BY DEF Records
<1>1. ASSUME NEW r \in Records, Settled(r), NEW t \in Tabs PROVE All(t, r) = {} /\ Todo(t, r) = {}
  <2>1. All(t, r) = {} BY <1>1 DEF Settled, All, Pairs, Range
  <2> QED BY <2>1 DEF Todo
<1>2. ASSUME NEW h \in Highlights, Settled(h), h \in DOMAIN library.highlights
      PROVE  LET row == library.highlights[h]
             IN  \/ h \in DOMAIN mirror.highlights /\ mirror.highlights[h].text = row.text
                 \/ /\ h \notin DOMAIN mirror.highlights
                    /\ \/ h \in library.confirmed
                       \/ row.book \in mirror.buried
                       \/ row.bare /\ row.note \in mirror.buried
  <2>1. Trail(h) BY <1>2 DEF Settled, Tracked
  <2>2. PICK t \in Tabs : t = library.highlights[h].tab BY <1>2 DEF Library, Table, Saved
  <2>3. Telltale(h) = {} /\ ~Ended(h) BY <1>0, <1>1, <1>2, <2>2 DEF Telltale, Ended
  <2> QED BY <2>1, <2>3 DEF Trail, Matches, Lost
<1>3. ASSUME NEW h \in Highlights, Settled(h), h \in library.confirmed
      PROVE  h \notin DOMAIN mirror.highlights
  BY <1>3 DEF Settled, Tracked, Deleted, Undone
<1>4. ASSUME NEW n \in Notes, Settled(n), n \in DOMAIN library.notes
      PROVE  \/ n \in mirror.buried
             \/ n \in DOMAIN mirror.notes /\ mirror.notes[n].version >= library.notes[n]
  <2>1. Told(n) BY <1>4 DEF Settled, Tracked
  <2> QED BY <1>0, <1>1, <1>4, <2>1 DEF Told
<1> QED BY <1>2, <1>3, <1>4 DEF InStep

\* When everything about a highlight was confirmed, the mirror has what the library has,
\* or lost it by the highlight's own confirmed deletion, with its book, or with the note it
\* only cited in; and of a note it has what was confirmed, or something newer: for any number
\* of tabs, records, failures, retries, late requests and removals that break off half done
\* (the receipts of app/api/v1.ts, the queues of app/src/lib/events.ts, the order of
\* deletion and commit in app/src/lib/highlightDeletion.ts and app/src/hooks/useLibrary.ts).
THEOREM MirrorInStep == Spec => []InStep
<1>1. IInv /\ Tracked /\ [Next]_vars => IInv' /\ Tracked' BY NextStep, TrackedStep
<1>2. IInv /\ Tracked => InStep BY TrackedInStep, Parts
<1> QED BY <1>1, <1>2, InitHolds, InitTracked, PTL DEF Spec
=============================================================================
