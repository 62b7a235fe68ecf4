------------------------------ MODULE MirrorSync ------------------------------
(***************************************************************************)
(* The web application keeping the mirror (MirrorStore) up to date: the    *)
(* tabs of a browser report what the person does as events, one at a time  *)
(* for each record, with retries (app/src/lib/events.ts, mirrorSync.ts,    *)
(* app/src/hooks/useLibrary.ts), while other programs write over REST.     *)
(***************************************************************************)
EXTENDS MirrorStore, Sequences

CONSTANTS
    Tabs,
    MaxAttempts,    \* the attempts to deliver an event
    Described,      \* the uploads of a book with metadata
    Settings        \* the settings explored

\* acts: what is done in this setting.  mirrored: the books the mirror has at the
\* start.  The others are bounds: on what the person
\* does, on the requests of other programs, and on the failures (answers or
\* requests lost, closed tabs, uploads that are a day old).
Acts == {"book", "upload", "highlight", "note", "link", "rest book", "rest highlight",
         "rest note", "digest"}
Setting(s) ==
    /\ s.acts \subseteq Acts
    /\ Table(s.mirrored, Books, Book)
    /\ s.edits \in Nat /\ s.others \in Nat /\ s.faults \in Nat

ASSUME SettingsAssumption ==
    /\ \A r \in Highlights : r \notin Books \cup Notes \cup Links \cup Uploads
    /\ \A r \in Links : r \notin Books \cup Notes \cup Uploads
    /\ \A r \in Uploads : r \notin Books \cup Notes
    /\ MaxAttempts \in Nat \ {0}
    /\ Described \subseteq Uploads
    /\ \A s \in Settings : Setting(s)

Records == Books \cup Highlights \cup Notes \cup Links \cup Uploads

VARIABLES
    mirror,
    library,    \* what the browser has (IndexedDB), and what the server has confirmed
    queue,      \* queue[t][r]: the deliveries of tab t about record r
    flight,     \* the requests under way
    removals,   \* the deletions under way, which end in the library
    strayed,    \* history: the records the mirror may have lost track of
    setting, counts

vars == <<mirror, library, queue, flight, removals, strayed, setting, counts>>

\* Events about a record.  Those of an upload are start, chunk, complete and describe.
Events ==
    [type : {"create"}, record : Highlights, row : Draft]
      \cup [type : {"update"}, record : Highlights, row : Patch]
      \cup [type : {"update"}, record : Books, title : Titles]
      \cup [type : {"write"}, record : Notes, version : Nat, blocks : SUBSET Block]
      \cup [type : {"create"}, record : Links]
      \cup [type : {"delete"}, record : Books \cup Highlights \cup Notes \cup Links]
      \cup [type : {"start", "complete", "describe"}, record : Uploads]
      \cup [type : {"chunk"}, record : Uploads, index : 0 .. Chunks - 1]

\* The id of a delivery is the same in all its attempts.
Delivery == [id : Nat, tab : Tabs, attempt : 1 .. MaxAttempts, event : Events]

\* A removal reports a deletion of each record in left, one after the other, and
\* then takes record from the library.  waits is the delivery it waits for, or 0.
Removal == [tab : Tabs, record : Records \ Uploads, left : SUBSET (Records \ Uploads), waits : Nat]

\* tab is the tab that has saved the highlight first.
Saved == [book : Books, text : Nat, note : Notes \cup {NoNote}, bare : BOOLEAN, tab : Tabs]
Library(l) ==
    /\ DOMAIN l = {"books", "highlights", "notes", "links", "used", "confirmed", "uploaded"}
    /\ l.books \subseteq Books
    /\ Table(l.highlights, Highlights, Saved)
    /\ Table(l.notes, Notes, Nat)
    /\ l.links \subseteq Links
    /\ l.used \subseteq Records
    /\ l.confirmed \subseteq Records
    /\ l.uploaded \subseteq Uploads

\* Time passes between two things a person does.
Now == counts.edits

-----------------------------------------------------------------------------
Init ==
    /\ setting \in Settings
    /\ mirror = [EmptyMirror EXCEPT !.books = setting.mirrored]
    /\ library = [books |-> Books, highlights |-> <<>>, notes |-> <<>>, links |-> {},
                  used |-> {}, confirmed |-> {}, uploaded |-> {}]
    /\ queue = [t \in Tabs |-> [r \in Records |-> <<>>]]
    /\ flight = {}
    /\ removals = {}
    /\ strayed = {}
    /\ counts = [edits |-> 0, others |-> 0, faults |-> 0, issued |-> 0]

-----------------------------------------------------------------------------
(* Deliveries.                                                             *)

Heads(q) == IF q = <<>> THEN {} ELSE {Head(q)}

\* createMirrorEventEmitter: events about one record wait for each other, and an
\* event that waits for nothing is sent at once.  acts is 0 when the browser goes on by
\* itself, and 1 otherwise.
Post(t, r, events, acts) ==
    LET new == [i \in DOMAIN events |->
                  [id |-> counts.issued + i, tab |-> t, attempt |-> 1, event |-> events[i]]]
    IN  /\ queue' = [queue EXCEPT ![t][r] = @ \o new]
        /\ flight' = flight \cup (IF queue[t][r] = <<>> THEN Heads(new) ELSE {})
        /\ counts' = [counts EXCEPT !.edits = @ + acts, !.issued = @ + Len(events)]

\* The first delivery about r is over.
Over(t, r, requests, rest) ==
    /\ queue' = [queue EXCEPT ![t][r] = rest]
    /\ flight' = requests \cup Heads(rest)

\* The removals after the delivery with this id has succeeded, or has failed.
Resumed(id) == {IF p.waits = id THEN [p EXCEPT !.waits = 0] ELSE p : p \in removals}
Abandoned(id) == {p \in removals : p.waits # id}

\* Slip: what waits behind a delivery that failed goes on waiting.
GivenUpStuck(t, r, requests) ==
    /\ queue' = queue
    /\ flight' = requests
    /\ removals' = Abandoned(Head(queue[t][r]).id)
    /\ strayed' = strayed \cup {r}

\* Slip: a removal goes on although its report has failed.
GivenUpUnnoticed(t, r, requests) ==
    /\ Over(t, r, requests, IF r \in Uploads THEN <<>> ELSE Tail(queue[t][r]))
    /\ removals' = Resumed(Head(queue[t][r]).id)
    /\ strayed' = strayed \cup {r}

\* A delivery fails for good.  The emitter goes on with the next; an upload ends, and so
\* does the removal that waited for it.
GivenUp(t, r, requests) ==
    /\ Over(t, r, requests, IF r \in Uploads THEN <<>> ELSE Tail(queue[t][r]))
    /\ removals' = Abandoned(Head(queue[t][r]).id)
    /\ strayed' = strayed \cup {r}

\* Slip: an attempt too many.
AgainOnceMore(t, r, requests) ==
    LET d == Head(queue[t][r])
        next == [d EXCEPT !.attempt = @ + 1]
    IN  IF d.attempt > MaxAttempts THEN GivenUp(t, r, requests)
        ELSE /\ queue' = [queue EXCEPT ![t][r][1] = next]
             /\ flight' = requests \cup {next}
             /\ UNCHANGED <<removals, strayed>>

\* deliverMirrorEvent: an attempt failed, and may be followed by another.
Again(t, r, requests) ==
    LET d == Head(queue[t][r])
        next == [d EXCEPT !.attempt = @ + 1]
    IN  IF d.attempt = MaxAttempts THEN GivenUp(t, r, requests)
        ELSE /\ queue' = [queue EXCEPT ![t][r][1] = next]
             /\ flight' = requests \cup {next}
             /\ UNCHANGED <<removals, strayed>>

-----------------------------------------------------------------------------
(* The server: POST /events.                                               *)

Handled(m, e) ==
    LET r == e.record
    IN  CASE r \in Books /\ e.type = "update" -> BookUpdated(m, r, e.title, Now)
          [] r \in Books /\ e.type = "delete" -> BookDeleted(m, r, TRUE, Now)
          [] r \in Highlights /\ e.type = "create" -> HighlightCreated(m, r, e.row, Now)
          [] r \in Highlights /\ e.type = "update" -> HighlightUpdated(m, r, e.row, Now)
          [] r \in Highlights /\ e.type = "delete" -> HighlightDeleted(m, r, Now)
          [] r \in Notes /\ e.type = "write" -> NoteWritten(m, r, e.version, e.blocks)
          [] r \in Notes /\ e.type = "delete" -> NoteDeleted(m, r, TRUE)
          [] r \in Links /\ e.type = "create" -> LinkCreated(m, r)
          [] r \in Links /\ e.type = "delete" -> Done([m EXCEPT !.links = @ \ {r}])
          [] e.type = "start" -> UploadStarted(m, r)
          [] e.type = "chunk" -> ChunkPut(m, r, e.index)
          [] e.type = "complete" -> UploadCompleted(m, r, Now)
          [] e.type = "describe" -> BookUpdated(m, Manifest[r].book, Manifest[r].title, Now)

\* Slip: there are no receipts.
ReceivedAgain(m, d) == Handled(m, d.event)

\* The receipt of a delivery is written in the transaction of its effect; a
\* delivery that has one is acknowledged.  The steps of an upload have no receipts.
Received(m, d) ==
    LET done == Handled(m, d.event)
    IN  IF d.event.type \in {"start", "chunk", "complete"} THEN done
        ELSE IF d.id \in m.receipts THEN Done(m)
        ELSE IF done.answer # "ok" THEN done
        ELSE Done([done.mirror EXCEPT !.receipts = @ \cup {d.id}])

\* history: the deletions and the uploads that the server has confirmed.
Confirmed(e) ==
    CASE e.type = "delete" -> [library EXCEPT !.confirmed = @ \cup {e.record}]
      [] e.type = "complete" -> [library EXCEPT !.uploaded = @ \cup {e.record}]
      [] OTHER -> library

\* A request is handled.  Its answer counts if the tab still waits for it.
Answer(d) ==
    LET t == d.tab
        r == d.event.record
        result == Received(mirror, d)
        waiting == queue[t][r] # <<>> /\ Head(queue[t][r]) = d
    IN  /\ d \in flight
        /\ mirror' = result.mirror
        /\ \/ /\ waiting /\ result.answer = "ok"
              /\ library' = Confirmed(d.event)
              /\ Over(t, r, flight \ {d}, Tail(queue[t][r]))
              /\ removals' = Resumed(d.id)
              /\ UNCHANGED strayed
           \/ /\ waiting /\ result.answer = "refused"
              /\ GivenUp(t, r, flight \ {d})
              /\ UNCHANGED library
           \/ /\ waiting /\ result.answer = "failed"
              /\ Again(t, r, flight \ {d})
              /\ UNCHANGED library
           \/ /\ ~waiting
              /\ flight' = flight \ {d}
              /\ UNCHANGED <<library, queue, removals, strayed>>
        /\ UNCHANGED <<setting, counts>>

Fault ==
    /\ counts.faults < setting.faults
    /\ counts' = [counts EXCEPT !.faults = @ + 1]

\* The attempt fails on the way: the request may be handled late, or be lost, or
\* have been handled with its answer lost.
Lose(d) ==
    /\ Fault
    /\ d \in flight /\ Heads(queue[d.tab][d.event.record]) = {d}
    /\ \/ /\ mirror' = mirror
          /\ \E requests \in {flight, flight \ {d}} : Again(d.tab, d.event.record, requests)
       \/ /\ mirror' = Received(mirror, d).mirror
          /\ Again(d.tab, d.event.record, flight \ {d})
    /\ UNCHANGED <<library, setting>>

\* A tab is closed: what it has not delivered, or not done yet, is forgotten.
Close(t) ==
    /\ Fault
    /\ (\E r \in Records : queue[t][r] # <<>>) \/ (\E p \in removals : p.tab = t)
    /\ queue' = [queue EXCEPT ![t] = [r \in Records |-> <<>>]]
    /\ removals' = {p \in removals : p.tab # t}
    /\ strayed' = strayed \cup {r \in Records : queue[t][r] # <<>>}
    /\ UNCHANGED <<mirror, library, flight, setting>>

-----------------------------------------------------------------------------
(* The person.                                                             *)

Act(act) == act \in setting.acts /\ counts.edits < setting.edits

\* A highlight is saved in the library and then reported.  Once it was edited it is
\* more than a citation; one that is only a citation does not move to another note.
SaveHighlight(t, h) ==
    /\ Act("highlight")
    /\ \/ /\ h \notin library.used
          /\ \E b \in library.books, note \in DOMAIN library.notes \cup {NoNote}, bare \in BOOLEAN :
                /\ bare => note # NoNote
                /\ library' = [library EXCEPT
                                 !.highlights = With(@, h, [book |-> b, text |-> Now, note |-> note,
                                                            bare |-> bare, tab |-> t]),
                                 !.used = @ \cup {h}]
                /\ Post(t, h, <<[type |-> "create", record |-> h,
                                 row |-> [book |-> b, text |-> Now, note |-> note, bare |-> bare]]>>, 1)
          /\ UNCHANGED strayed
       \/ /\ h \in DOMAIN library.highlights
          /\ \/ /\ library' = [library EXCEPT !.highlights[h].text = Now, !.highlights[h].bare = FALSE]
                /\ Post(t, h, <<[type |-> "update", record |-> h,
                                 row |-> [text |-> Now, bare |-> FALSE]]>>, 1)
                /\ strayed' = strayed \cup {x \in {h} : library.highlights[h].tab # t}
             \/ /\ ~library.highlights[h].bare
                /\ \E note \in DOMAIN library.notes \cup {NoNote} :
                      /\ library' = [library EXCEPT !.highlights[h].note = note]
                      /\ Post(t, h, <<[type |-> "update", record |-> h, row |-> [note |-> note]]>>, 1)
                /\ UNCHANGED strayed
    /\ UNCHANGED <<mirror, removals, setting>>

\* A note is saved in the library, and reported as a whole.  Its content may have the
\* citation of any highlight that there is or was.
SaveNote(t, n) ==
    /\ Act("note")
    /\ n \in DOMAIN library.notes \/ n \notin library.used
    /\ library' = [library EXCEPT !.notes = With(@, n, Now + 1), !.used = @ \cup {n}]
    /\ \E cited \in SUBSET (Highlights \cap library.used), title \in Titles :
          Post(t, n, <<[type |-> "write", record |-> n, version |-> Now + 1,
                        blocks |-> cited \X {title}]>>, 1)
    /\ UNCHANGED <<mirror, removals, strayed, setting>>

SaveLink(t, l) ==
    /\ Act("link")
    /\ l \notin library.used /\ Ends[l] \subseteq library.books
    /\ library' = [library EXCEPT !.links = @ \cup {l}, !.used = @ \cup {l}]
    /\ Post(t, l, <<[type |-> "create", record |-> l]>>, 1)
    /\ UNCHANGED <<mirror, removals, strayed, setting>>

Rename(t, b) ==
    /\ Act("book")
    /\ b \in library.books
    /\ \E title \in Titles : Post(t, b, <<[type |-> "update", record |-> b, title |-> title]>>, 1)
    /\ UNCHANGED <<mirror, library, removals, strayed, setting>>

\* syncBookMirror: every upload of a book has an id of its own.  A book with metadata is
\* described at last.
Upload(t, u) ==
    /\ Act("upload")
    /\ Manifest[u].book \in library.books /\ u \notin library.used
    /\ library' = [library EXCEPT !.used = @ \cup {u}]
    /\ Post(t, u, <<[type |-> "start", record |-> u]>>
                     \o [i \in 1 .. Chunks |-> [type |-> "chunk", record |-> u, index |-> i - 1]]
                     \o <<[type |-> "complete", record |-> u]>>
                     \o (IF u \in Described THEN <<[type |-> "describe", record |-> u]>> ELSE <<>>), 1)
    /\ UNCHANGED <<mirror, removals, strayed, setting>>

-----------------------------------------------------------------------------
(* Removals: deleteHighlightsWithMirror, removeNote, removeBook and        *)
(* removeAssociation.  The library changes only when the server has        *)
(* confirmed every deletion.                                               *)

\* The next deletion of removal p is reported: the record itself comes last.
Report(p, acts) ==
    \E r \in p.left :
        /\ r = p.record => p.left = {r}
        /\ Post(p.tab, r, <<[type |-> "delete", record |-> r]>>, acts)
        /\ removals' = (removals \ {p})
                          \cup {[p EXCEPT !.left = @ \ {r}, !.waits = counts.issued + 1]}
        /\ strayed' = strayed \cup
              {h \in {r} \cap Highlights : h \in DOMAIN library.highlights => library.highlights[h].tab # p.tab}
        /\ UNCHANGED <<mirror, library, setting>>

\* The highlights that are nothing but a citation in note n.
Only(n) == {h \in DOMAIN library.highlights : library.highlights[h].note = n /\ library.highlights[h].bare}

Remove(t, r) ==
    /\ \/ Act("book") /\ r \in library.books
       \/ Act("highlight") /\ r \in DOMAIN library.highlights
       \/ Act("note") /\ r \in DOMAIN library.notes
       \/ Act("link") /\ r \in library.links
    /\ Report([tab |-> t, record |-> r, left |-> Only(r) \cup {r}, waits |-> 0], 1)

Proceed(p) == p.waits = 0 /\ Report(p, 0)

\* The notes that cite book b and no other.
CitingOnly(b) ==
    {n \in DOMAIN library.notes :
        {library.highlights[h].book : h \in {x \in DOMAIN library.highlights : library.highlights[x].note = n}} = {b}}

\* What the library has without record r: deleteBook, deleteNote, and the deletion
\* of highlights and associations.  gone has the notes that go with a book.
LetGo(r, gone) ==
    LET rest == Without(library.highlights,
                        Only(r) \cup {h \in DOMAIN library.highlights : h = r \/ library.highlights[h].book = r})
    IN  [library EXCEPT
            !.books      = @ \ {r},
            !.highlights = [h \in DOMAIN rest |->
                              IF rest[h].note = r THEN [rest[h] EXCEPT !.note = NoNote] ELSE rest[h]],
            !.notes      = Without(@, {r} \cup gone),
            !.links      = {l \in @ : l # r /\ r \notin Ends[l]}]

\* Everything is confirmed: one transaction of IndexedDB.
Commit(p) ==
    /\ p.waits = 0 /\ p.left = {}
    /\ \E gone \in SUBSET CitingOnly(p.record) : library' = LetGo(p.record, gone)
    /\ removals' = removals \ {p}
    /\ UNCHANGED <<mirror, queue, flight, strayed, setting, counts>>

-----------------------------------------------------------------------------
(* Other programs, and the server by itself.                               *)

Other(act, result) ==
    /\ act \in setting.acts /\ counts.others < setting.others
    /\ mirror' = result.mirror /\ mirror' # mirror
    /\ counts' = [counts EXCEPT !.others = @ + 1]
    /\ UNCHANGED <<library, queue, flight, removals, setting>>

\* POST, PATCH and DELETE /books.
RestBook(b) ==
    /\ \/ \E title \in Titles, hash \in Hashes :
             Other("rest book", BookImported(mirror, b, title, hash, Now))
       \/ \E title \in Titles : Other("rest book", BookUpdated(mirror, b, title, Now))
       \/ Other("rest book", BookDeleted(mirror, b, FALSE, Now))
    /\ UNCHANGED strayed

\* POST, PATCH and DELETE /highlights.
RestHighlight(h) ==
    /\ \/ \E b \in Books, note \in Notes \cup {NoNote}, bare \in BOOLEAN :
             Other("rest highlight", HighlightCreated(mirror, h,
                       [book |-> b, text |-> Now, note |-> note, bare |-> bare /\ note # NoNote], Now))
       \/ \E note \in Notes \cup {NoNote} :
             Other("rest highlight", HighlightUpdated(mirror, h, [note |-> note], Now))
       \/ \E b \in Books :
             Other("rest highlight", HighlightUpdated(mirror, h, [book |-> b], Now))
       \/ Other("rest highlight", HighlightDeleted(mirror, h, Now))
    /\ strayed' = strayed \cup {h}

\* POST, PATCH and DELETE /notes.
RestNote(n) ==
    /\ \/ Other("rest note", NotePosted(mirror, n, Now))
       \/ Other("rest note", NoteRetitled(mirror, n, Now))
       \/ Other("rest note", NoteDeleted(mirror, n, FALSE))
    /\ UNCHANGED strayed

\* POST /ask and saveDigest: the answer of an AI about a content comes at last.
Digest(hash) == Other("digest", DigestSaved(mirror, hash)) /\ UNCHANGED strayed

\* cleanupExpiredBookMirrorUploads: rows that were written a day ago go, those of
\* an upload under way too.
Expire ==
    /\ Fault
    /\ \E rows \in SUBSET mirror.staged \ {{}} :
          mirror' = [mirror EXCEPT
                        !.staged = @ \ rows,
                        !.promoted = {u \in @ : <<u, Manifested>> \notin rows}]
    /\ UNCHANGED <<library, queue, flight, removals, strayed, setting>>

-----------------------------------------------------------------------------
Next ==
    \/ \E d \in flight : Answer(d) \/ Lose(d)
    \/ \E t \in Tabs :
          \/ \E h \in Highlights : SaveHighlight(t, h)
          \/ \E n \in Notes : SaveNote(t, n)
          \/ \E l \in Links : SaveLink(t, l)
          \/ \E r \in Records : Remove(t, r)
          \/ \E b \in Books : Rename(t, b)
          \/ \E u \in Uploads : Upload(t, u)
          \/ Close(t)
    \/ \E p \in removals : Proceed(p) \/ Commit(p)
    \/ \E b \in Books : RestBook(b)
    \/ \E h \in Highlights : RestHighlight(h)
    \/ \E n \in Notes : RestNote(n)
    \/ \E hash \in Hashes : Digest(hash)
    \/ Expire

Spec == Init /\ [][Next]_vars

\* The requests that a tab waits for are answered in the end, or fail; and a removal
\* goes on when what it waited for has come.
Waited(t) == \E d \in flight : d.tab = t /\ Heads(queue[t][d.event.record]) = {d} /\ Answer(d)
GoesOn(t) == \E p \in removals : p.tab = t /\ (Proceed(p) \/ Commit(p))
FairSpec == Spec /\ \A t \in Tabs : WF_vars(Waited(t)) /\ WF_vars(GoesOn(t))

-----------------------------------------------------------------------------
TypeOK ==
    /\ Mirror(mirror)
    /\ Library(library)
    /\ queue \in [Tabs -> [Records -> Seq(Delivery)]]
    /\ flight \in SUBSET Delivery
    /\ removals \in SUBSET Removal
    /\ strayed \in SUBSET Records
    /\ setting \in Settings
    /\ counts \in [edits : 0 .. setting.edits, others : 0 .. setting.others,
                  faults : 0 .. setting.faults, issued : Nat]

\* Whatever comes late: of a book that was deleted nothing is left, neither a
\* row, nor an upload, nor anything that refers to it, and the same of a note.
Buried ==
    /\ \A b \in Books \cap mirror.buried :
          /\ b \notin DOMAIN mirror.books /\ Staged(mirror, b) = {}
          /\ \A h \in DOMAIN mirror.highlights : mirror.highlights[h].book # b
          /\ \A l \in mirror.links : b \notin Ends[l]
    /\ \A n \in Notes \cap mirror.buried : n \notin DOMAIN mirror.notes /\ Linked(mirror, n) = {}

\* The title that is stored with a highlight is the title of its book, whichever
\* way either was written.
Titled ==
    \A h \in DOMAIN mirror.highlights :
        /\ mirror.highlights[h].book \in DOMAIN mirror.books
        /\ mirror.highlights[h].title = mirror.books[mirror.highlights[h].book].title

\* A citation in a note belongs to a highlight that is linked to the note, under its
\* title, or came with the content that a client wrote; and no linked highlight is
\* missing, unless a client has replaced the content since the server went over it.
Cited ==
    \A n \in DOMAIN mirror.notes :
        LET note == mirror.notes[n]
            due == Blocks(mirror, Linked(mirror, n))
        IN  note.blocks \subseteq due \cup note.carried /\ (note.replaced \/ due \subseteq note.blocks)

\* There is no digest of a content that no book has, though AIs answer late.
DigestsOwned == \A hash \in mirror.digests : ~Unreferenced(mirror.books, hash)

\* A note never goes back: what replaces its content or its citations is newer.
NotesForward ==
    [][\A n \in DOMAIN mirror.notes \cap DOMAIN mirror'.notes :
          LET old == mirror.notes[n]
              new == mirror'.notes[n]
          IN  <<new.version, new.blocks, new.carried>> # <<old.version, old.blocks, old.carried>>
                 => new.version > old.version]_vars

Settled(r) == r \notin strayed /\ \A t \in Tabs : queue[t][r] = <<>>

\* When everything about a highlight was confirmed, the mirror has what the library
\* has; the highlight is missing there only when its own deletion was confirmed (and is
\* not done here, or the removal broke off), when its book was deleted there, or when it
\* was only a citation in a note that was.  A highlight whose deletion was confirmed is
\* not there.  Of a note the mirror has what was confirmed, or something newer.
InStep ==
    /\ \A h \in Highlights : Settled(h) =>
          /\ h \in DOMAIN library.highlights =>
                LET row == library.highlights[h]
                IN  \/ h \in DOMAIN mirror.highlights /\ mirror.highlights[h].text = row.text
                    \/ /\ h \notin DOMAIN mirror.highlights
                       /\ \/ h \in library.confirmed
                          \/ row.book \in mirror.buried
                          \/ row.bare /\ row.note \in mirror.buried
          /\ h \in library.confirmed => h \notin DOMAIN mirror.highlights
    /\ \A n \in Notes : Settled(n) /\ n \in DOMAIN library.notes =>
          \/ n \in mirror.buried
          \/ n \in DOMAIN mirror.notes /\ mirror.notes[n].version >= library.notes[n]

\* The library lets go of a book only when the server has deleted it for good, and a
\* confirmed deletion of a book or a note is one; a book whose upload was confirmed is
\* on the server, or deleted there.
Confirmations ==
    /\ (Books \ library.books) \cup (library.confirmed \cap (Books \cup Notes)) \subseteq mirror.buried
    /\ \A u \in library.uploaded : Manifest[u].book \in DOMAIN mirror.books \cup mirror.buried

\* No delivery waits forever and no removal stays half done for ever, whatever fails.
Drains == <>[](removals = {} /\ \A t \in Tabs, r \in Records : queue[t][r] = <<>>)
=============================================================================
