----------------------------- MODULE MirrorStore -----------------------------
(***************************************************************************)
(* The mirror of a library in MySQL that the web application keeps when it *)
(* is not paired with a sync node, and that other programs read and write  *)
(* over REST (app/api/v1.ts, app/api/lib/book-mirror-upload.ts).  A request*)
(* is one transaction under row locks, so each operator is one of them: it *)
(* yields the answer and the mirror after it.                              *)
(***************************************************************************)
EXTENDS Integers, FiniteSets, Functions

CONSTANTS
    Books, Highlights, Notes, Links, Uploads,   \* external ids
    Ends,       \* Ends[l]: the books at the ends of association l
    Titles, Hashes,
    Manifest,   \* Manifest[u]: the book, the title and the content of upload u
    Chunks,     \* the number of chunks of an upload
    NoNote

ASSUME MirrorAssumption ==
    /\ Ends \in [Links -> SUBSET Books]
    /\ Manifest \in [Uploads -> [book : Books, title : Titles, hash : Hashes]]
    /\ Chunks \in Nat \ {0}
    /\ NoNote \notin Notes
    /\ Books \cap Notes = {}

\* A table is a function from the ids of its rows.
Table(t, Id, Row) == DOMAIN t \subseteq Id /\ \A i \in DOMAIN t : t[i] \in Row
With(table, id, row) ==
    [i \in DOMAIN table \cup {id} |-> IF i = id THEN row ELSE table[i]]
Without(table, ids) == Restrict(table, DOMAIN table \ ids)

\* A title stands for title and author; a hash for the content.
Book == [title : Titles, hash : Hashes]

\* title is the copy of the book's title; text stands for what the person edits;
\* a bare highlight is a citation and nothing else.  A draft is one that is reported.
Draft == [book : Books, text : Nat, note : Notes \cup {NoNote}, bare : BOOLEAN]
Highlight == [book : Books, title : Titles, text : Nat, note : Notes \cup {NoNote}, bare : BOOLEAN]

\* blocks are the generated citations in the content, each marked with its
\* highlight.  Two components are history: carried has the citations that the content
\* had when a client last wrote it, and replaced says that the server has not gone
\* over the citations since a client replaced the content.
Block == Highlights \X Titles
Note == [version : Nat, blocks : SUBSET Block, carried : SUBSET Block, replaced : BOOLEAN]

\* The index of the row of the manifest of an upload.
Manifested == -1

EmptyMirror == [books |-> <<>>, highlights |-> <<>>, notes |-> <<>>, links |-> {},
                buried |-> {}, staged |-> {}, promoted |-> {}, digests |-> {}, receipts |-> {}]

Mirror(m) ==
    /\ DOMAIN m = DOMAIN EmptyMirror
    /\ Table(m.books, Books, Book)
    /\ Table(m.highlights, Highlights, Highlight)
    /\ Table(m.notes, Notes, Note)
    /\ m.links \subseteq Links
    /\ m.buried \subseteq Books \cup Notes
    /\ m.staged \subseteq Uploads \X (Manifested .. Chunks - 1)
    /\ m.promoted \subseteq Uploads
    /\ m.digests \subseteq Hashes
    /\ m.receipts \subseteq Nat

Done(m) == [answer |-> "ok", mirror |-> m]
Refused(m) == [answer |-> "refused", mirror |-> m]    \* 4xx
Failed(m) == [answer |-> "failed", mirror |-> m]      \* 503
-----------------------------------------------------------------------------
(* Citations in notes (book-citation-note-sync.ts).                        *)

Linked(m, n) == {h \in DOMAIN m.highlights : m.highlights[h].note = n}
Blocks(m, hs) == {<<h, m.highlights[h].title>> : h \in hs}

\* A note whose content changes has a newer version, whatever the clock says.
Larger(a, b) == IF a < b THEN b ELSE a
Revised(note, blocks, now) ==
    [note EXCEPT !.blocks   = blocks,
                 !.version  = IF blocks = note.blocks THEN @ ELSE Larger(now, @ + 1),
                 !.replaced = FALSE]

\* Slip: a citation that moves to another note stays in the first.
SyncedLeaves(m, h, before, after, now) ==
    [n \in DOMAIN m.notes |->
        IF n = after.note THEN Revised(m.notes[n], m.notes[n].blocks \cup Blocks(m, Linked(m, n)), now)
        ELSE m.notes[n]]

\* syncHighlightCitationNotes: highlight h was before, and is now after in m.
Synced(m, h, before, after, now) ==
    [n \in DOMAIN m.notes |->
        IF n \notin {before.note, after.note}
           \/ (before.note = after.note /\ before.title = after.title)
        THEN m.notes[n]
        ELSE LET left == IF n = before.note THEN {<<h, before.title>>} ELSE {}
             IN  Revised(m.notes[n], (m.notes[n].blocks \ left) \cup Blocks(m, Linked(m, n)), now)]

\* rewriteBookCitationNotes, before the rows change: titles has the new title of
\* book b, or nothing when b is deleted.
Rewritten(m, b, titles, now) ==
    [n \in DOMAIN m.notes |->
        LET cited == {h \in Linked(m, n) : m.highlights[h].book = b}
        IN  IF cited = {} THEN m.notes[n]
            ELSE Revised(m.notes[n],
                         (m.notes[n].blocks \ Blocks(m, cited))
                            \cup (cited \X titles) \cup Blocks(m, Linked(m, n) \ cited), now)]

-----------------------------------------------------------------------------
(* Books.                                                                  *)

\* Slip: the highlights keep the former title.
RetitledNever(m, b, title) == m.highlights

Retitled(m, b, title) ==
    [h \in DOMAIN m.highlights |->
        IF m.highlights[h].book = b THEN [m.highlights[h] EXCEPT !.title = title]
        ELSE m.highlights[h]]

\* deleteDigestIfUnreferenced.
Unreferenced(books, hash) == \A b \in DOMAIN books : books[b].hash # hash

\* Slip: the digest of the former content stays.
ImportKeepsDigest(m, b, title, hash, now) ==
    LET renamed == b \in DOMAIN m.books /\ m.books[b].title # title
    IN  [m EXCEPT
            !.books      = With(@, b, [title |-> title, hash |-> hash]),
            !.notes      = IF renamed THEN Rewritten(m, b, {title}, now) ELSE @,
            !.highlights = IF renamed THEN Retitled(m, b, title) ELSE @,
            !.digests    = IF renamed THEN @ \ {hash} ELSE @]

\* A book is written: by an upload that is complete, or by POST /books.
Imported(m, b, title, hash, now) ==
    LET known == b \in DOMAIN m.books
        renamed == known /\ m.books[b].title # title
        books == With(m.books, b, [title |-> title, hash |-> hash])
    IN  [m EXCEPT
            !.books      = books,
            !.notes      = IF renamed THEN Rewritten(m, b, {title}, now) ELSE @,
            !.highlights = IF renamed THEN Retitled(m, b, title) ELSE @,
            !.digests    = @ \ ({old \in Hashes : known /\ old = m.books[b].hash /\ Unreferenced(books, old)}
                                 \cup (IF renamed THEN {hash} ELSE {}))]

\* POST /books, and the event book.imported.
BookImported(m, b, title, hash, now) ==
    IF b \in m.buried THEN Refused(m) ELSE Done(Imported(m, b, title, hash, now))

\* updateBookMirrorFields.
BookUpdated(m, b, title, now) ==
    IF b \notin DOMAIN m.books THEN Failed(m)
    ELSE Done([m EXCEPT
            !.books[b].title = title,
            !.notes          = IF title # m.books[b].title THEN Rewritten(m, b, {title}, now) ELSE @,
            !.highlights     = Retitled(m, b, title),
            !.digests        = IF title # m.books[b].title THEN @ \ {m.books[b].hash} ELSE @])

Staged(m, b) == {r \in m.staged : Manifest[r[1]].book = b}

\* deleteBookMirrorResourcesWith: a book is deleted with its highlights, its
\* associations and its uploads, for good; the event, unlike the REST request,
\* leaves a tombstone even when there was nothing to delete.
BookDeleted(m, b, anyway, now) ==
    LET books == Without(m.books, {b})
        hashes == {m.books[x].hash : x \in DOMAIN m.books \cap {b}}
                    \cup {Manifest[r[1]].hash : r \in {x \in Staged(m, b) : x[2] = Manifested}}
    IN  IF b \notin DOMAIN m.books /\ Staged(m, b) = {}
        THEN IF anyway THEN Done([m EXCEPT !.buried = @ \cup {b}]) ELSE Refused(m)
        ELSE Done([m EXCEPT
                !.buried     = @ \cup {b},
                !.books      = books,
                !.highlights = Without(@, {h \in DOMAIN @ : @[h].book = b}),
                !.notes      = Rewritten(m, b, {}, now),
                !.links      = {l \in @ : b \notin Ends[l]},
                !.staged     = @ \ Staged(m, b),
                !.promoted   = {u \in @ : Manifest[u].book # b},
                !.digests    = {d \in @ : d \in hashes => ~Unreferenced(books, d)}])

\* saveDigestIfReferenced: what the AI has written about a content is kept if a
\* book still has it.
DigestSaved(m, hash) ==
    IF Unreferenced(m.books, hash) THEN Refused(m)
    ELSE Done([m EXCEPT !.digests = @ \cup {hash}])

-----------------------------------------------------------------------------
(* Uploads (book-mirror-upload.ts).                                        *)

\* Slip: a deleted book can be uploaded.
StartedAgain(m, u) ==
    Done([m EXCEPT !.staged   = (@ \ Staged(m, Manifest[u].book)) \cup {<<u, Manifested>>},
                   !.promoted = {x \in @ : Manifest[x].book # Manifest[u].book}])

\* startBookMirrorUpload discards every upload of the book, this one too.
UploadStarted(m, u) ==
    IF Manifest[u].book \in m.buried THEN Refused(m)
    ELSE Done([m EXCEPT !.staged   = (@ \ Staged(m, Manifest[u].book)) \cup {<<u, Manifested>>},
                        !.promoted = {x \in @ : Manifest[x].book # Manifest[u].book}])

\* putBookMirrorChunk.
ChunkPut(m, u, i) ==
    IF Manifest[u].book \in m.buried \/ <<u, Manifested>> \notin m.staged \/ u \in m.promoted
    THEN Refused(m)
    ELSE Done([m EXCEPT !.staged = @ \cup {<<u, i>>}])

\* completeBookMirrorUpload: promoted is the time of completion in the manifest.
UploadCompleted(m, u, now) ==
    LET upload == Manifest[u]
        chunks == {<<u, i>> : i \in 0 .. Chunks - 1}
    IN  IF upload.book \in m.buried \/ <<u, Manifested>> \notin m.staged THEN Refused(m)
        ELSE IF u \in m.promoted THEN Done(m)
        ELSE IF ~(chunks \subseteq m.staged) THEN Refused(m)
        ELSE Done([Imported(m, upload.book, upload.title, upload.hash, now)
                     EXCEPT !.staged = @ \ chunks, !.promoted = @ \cup {u}])

-----------------------------------------------------------------------------
(* Highlights, notes and associations.                                     *)

\* A foreign key: a note that is not there cannot be linked to.
Dangling(m, n) == n \notin DOMAIN m.notes \cup {NoNote}

\* A row is stored under the title that its book has here.
Stored(m, h, row, now) ==
    LET after == [book |-> row.book, title |-> m.books[row.book].title,
                  text |-> row.text, note |-> row.note, bare |-> row.bare]
        before == IF h \in DOMAIN m.highlights THEN m.highlights[h]
                  ELSE [after EXCEPT !.note = NoNote]
        next == [m EXCEPT !.highlights = With(@, h, after)]
    IN  [next EXCEPT !.notes = Synced(next, h, before, after, now)]

\* highlight.created and POST /highlights.
HighlightCreated(m, h, row, now) ==
    IF row.book \notin DOMAIN m.books THEN Refused(m)
    ELSE IF Dangling(m, row.note) THEN Failed(m)
    ELSE Done(Stored(m, h, row, now))

\* highlight.updated and PATCH /highlights: patch has the fields that change.
Patch == [text : Nat, bare : {FALSE}] \cup [note : Notes \cup {NoNote}] \cup [book : Books]
HighlightUpdated(m, h, patch, now) ==
    IF h \notin DOMAIN m.highlights THEN Refused(m)
    ELSE LET row == [f \in DOMAIN m.highlights[h] |->
                        IF f \in DOMAIN patch THEN patch[f] ELSE m.highlights[h][f]]
         IN  IF row.book \notin DOMAIN m.books THEN Refused(m)
             ELSE IF Dangling(m, row.note) THEN Failed(m)
             ELSE Done(Stored(m, h, row, now))

\* highlight.deleted and DELETE /highlights.
HighlightDeleted(m, h, now) ==
    IF h \notin DOMAIN m.highlights THEN Done(m)
    ELSE LET next == [m EXCEPT !.highlights = Without(@, {h})]
         IN  Done([next EXCEPT !.notes = Synced(next, h, m.highlights[h],
                                                [m.highlights[h] EXCEPT !.note = NoNote], now)])

\* The content of a note is replaced as a whole, with the citations it carries.
Replaced(m, n, version, blocks) ==
    Done([m EXCEPT !.notes = With(@, n, [version |-> version, blocks |-> blocks,
                                         carried |-> blocks, replaced |-> n \in DOMAIN @])])

\* Slip: the snapshot that comes last wins.
NoteArrives(m, n, version, blocks) ==
    IF n \in m.buried THEN Done(m) ELSE Replaced(m, n, version, blocks)

\* note.created and note.updated: a snapshot of the whole note, which may be the
\* first to come and does not replace a newer one.
NoteWritten(m, n, version, blocks) ==
    IF n \in m.buried \/ (n \in DOMAIN m.notes /\ version <= m.notes[n].version) THEN Done(m)
    ELSE Replaced(m, n, version, blocks)

\* POST and PATCH /notes, with a content.
NotePosted(m, n, now) ==
    IF n \in m.buried THEN Refused(m)
    ELSE NoteWritten(m, n, IF n \in DOMAIN m.notes THEN Larger(now, m.notes[n].version + 1) ELSE now, {})

\* PATCH /notes, with a title only.
NoteRetitled(m, n, now) ==
    IF n \notin DOMAIN m.notes THEN Refused(m)
    ELSE Done([m EXCEPT !.notes[n].version = Larger(now, @ + 1)])

\* deleteMirrorNoteWithLinkedHighlights: the bare highlights go with the note, the
\* others lose the link.
NoteDeleted(m, n, anyway) ==
    IF n \notin DOMAIN m.notes /\ ~anyway THEN Refused(m)
    ELSE LET bare == {h \in Linked(m, n) : m.highlights[h].bare}
             rest == Without(m.highlights, bare)
         IN  Done([m EXCEPT
                !.buried     = @ \cup {n},
                !.notes      = Without(@, {n}),
                !.highlights = [h \in DOMAIN rest |->
                                  IF rest[h].note = n THEN [rest[h] EXCEPT !.note = NoNote]
                                  ELSE rest[h]]])

\* persistAssociation: both books must be there.
LinkCreated(m, l) ==
    IF l \in m.links THEN Done(m)
    ELSE IF ~(Ends[l] \subseteq DOMAIN m.books) THEN Failed(m)
    ELSE Done([m EXCEPT !.links = @ \cup {l}])
=============================================================================
