-------------------------- MODULE MirrorStore_proofs --------------------------
(***************************************************************************)
(* What one request keeps true of the mirror, whatever it asks for.        *)
(***************************************************************************)
EXTENDS MirrorStore, TLAPS

\* A book or a note that was deleted is gone, with all that belongs to it.
Gone(m) ==
    /\ \A b \in DOMAIN m.books : b \notin m.buried
    /\ \A n \in DOMAIN m.notes : n \notin m.buried
    /\ \A r \in m.staged : Manifest[r[1]].book \notin m.buried

\* What refers to a row refers to one that is there, under its title.
Bound(m) ==
    /\ \A h \in DOMAIN m.highlights :
          /\ m.highlights[h].book \in DOMAIN m.books
          /\ m.highlights[h].title = m.books[m.highlights[h].book].title
          /\ m.highlights[h].note \in DOMAIN m.notes \cup {NoNote}
    /\ \A l \in m.links : Ends[l] \subseteq DOMAIN m.books
    /\ \A u \in m.promoted : Manifest[u].book \in DOMAIN m.books

Owned(m) == \A hash \in m.digests : ~Unreferenced(m.books, hash)

\* A note has the citations due, unless a client has replaced its content, and no
\* others but those that its content came with.
Quoting(note, due) ==
    note.blocks \subseteq due \cup note.carried /\ (note.replaced \/ due \subseteq note.blocks)
Citing(m, notes) == \A n \in DOMAIN notes : Quoting(notes[n], Blocks(m, Linked(m, n)))
Cites(m) == Citing(m, m.notes)

Sound(m) == Mirror(m) /\ Gone(m) /\ Bound(m) /\ Owned(m) /\ Cites(m)

\* What a note may become.
Onward(old, new) ==
    <<new.version, new.blocks, new.carried>> # <<old.version, old.blocks, old.carried>>
        => new.version > old.version
Forward(notes, later) ==
    \A n \in DOMAIN notes \cap DOMAIN later : Onward(notes[n], later[n])

\* m may become k: nothing rises from the dead, books and notes go only when they
\* are buried, and notes go forward.
Later(m, k) ==
    /\ m.buried \subseteq k.buried
    /\ DOMAIN m.books \subseteq DOMAIN k.books \cup k.buried
    /\ DOMAIN m.notes \subseteq DOMAIN k.notes \cup k.buried
    /\ Forward(m.notes, k.notes)
    /\ k.receipts = m.receipts

\* A request does to the mirror what it should.
Good(m, k) == Sound(k) /\ Later(m, k)
-----------------------------------------------------------------------------
(* Tables.                                                                 *)

\* A revised note is a note, and newer than it was unless it says the same.
LEMMA RevisedNote ==
    ASSUME NEW note \in Note, NEW blocks \in SUBSET Block, NEW now \in Nat
    PROVE  LET r == Revised(note, blocks, now)
           IN  /\ r \in Note
               /\ Onward(note, r)
               /\ r.blocks = blocks /\ r.carried = note.carried /\ ~r.replaced
<1> DEFINE v == IF blocks = note.blocks THEN note.version ELSE Larger(now, note.version + 1)
<1>1. note.version \in Nat /\ note.carried \in SUBSET Block BY DEF Note
<1>2. v \in Nat /\ (blocks # note.blocks => v > note.version) BY <1>1 DEF Larger
<1>3. Revised(note, blocks, now)
        = [version |-> v, blocks |-> blocks, carried |-> note.carried, replaced |-> FALSE]
  <2>1. Revised(note, blocks, now)
          = [note EXCEPT !.blocks = blocks, !.version = v, !.replaced = FALSE]
    BY DEF Revised
  <2> HIDE DEF v
  <2> QED BY <2>1 DEF Note
<1>4. blocks = note.blocks => v = note.version OBVIOUS
<1> HIDE DEF v
<1> QED BY <1>1, <1>2, <1>3, <1>4 DEF Note, Onward

\* The citations of stored highlights are blocks.
LEMMA BlocksType ==
    ASSUME NEW m, Table(m.highlights, Highlights, Highlight), NEW hs \in SUBSET DOMAIN m.highlights
    PROVE  Blocks(m, hs) \in SUBSET Block
BY DEF Blocks, Block, Table, Highlight
-----------------------------------------------------------------------------
(* Citations.                                                              *)

\* The citations of the highlights that are linked to a note.
LEMMA LinkedBlocks ==
    ASSUME NEW m, NEW n, NEW c
    PROVE  c \in Blocks(m, Linked(m, n)) <=>
             \E h \in DOMAIN m.highlights :
                 m.highlights[h].note = n /\ c = <<h, m.highlights[h].title>>
BY DEF Blocks, Linked

\* They are a matter of the highlights alone.
LEMMA SameBlocks ==
    ASSUME NEW m, NEW k, k.highlights = m.highlights
    PROVE  \A n : Blocks(k, Linked(k, n)) = Blocks(m, Linked(m, n))
BY DEF Blocks, Linked

\* A change of citations keeps the notes, and takes them forward.
LEMMA SyncedNotes ==
    ASSUME NEW m, Table(m.notes, Notes, Note), Table(m.highlights, Highlights, Highlight),
           NEW h \in Highlights, NEW before, NEW after, before.title \in Titles, NEW now \in Nat
    PROVE  LET notes == Synced(m, h, before, after, now)
           IN  /\ Table(notes, Notes, Note)
               /\ DOMAIN notes = DOMAIN m.notes
               /\ Forward(m.notes, notes)
<1> DEFINE notes == Synced(m, h, before, after, now)
<1>1. DOMAIN notes = DOMAIN m.notes BY DEF Synced
<1>2. ASSUME NEW n \in DOMAIN m.notes
      PROVE  notes[n] \in Note /\ Onward(m.notes[n], notes[n])
  <2> DEFINE left == IF n = before.note THEN {<<h, before.title>>} ELSE {}
             blocks == (m.notes[n].blocks \ left) \cup Blocks(m, Linked(m, n))
  <2>1. m.notes[n] \in Note BY DEF Table
  <2>2. blocks \in SUBSET Block
    <3>1. Blocks(m, Linked(m, n)) \in SUBSET Block BY BlocksType DEF Linked
    <3>2. m.notes[n].blocks \in SUBSET Block BY <2>1 DEF Note
    <3> QED BY <3>1, <3>2
  <2>3. notes[n] = m.notes[n] \/ notes[n] = Revised(m.notes[n], blocks, now) BY DEF Synced
  <2> HIDE DEF blocks, notes
  <2>4. Onward(m.notes[n], m.notes[n]) BY DEF Onward
  <2> QED BY <2>1, <2>2, <2>3, <2>4, RevisedNote
<1> HIDE DEF notes
<1>3. Table(notes, Notes, Note) /\ DOMAIN notes = DOMAIN m.notes /\ Forward(m.notes, notes)
  BY <1>1, <1>2 DEF Table, Forward
<1> QED BY <1>3 DEF notes

\* Highlight h of m is, or is not, what row says.
Stands(m, h, row) ==
    IF h \in DOMAIN m.highlights
    THEN row.note = m.highlights[h].note /\ row.title = m.highlights[h].title
    ELSE row.note \notin DOMAIN m.notes

\* The highlights of m and k are the same but for h.
Apart(m, k, h) ==
    \A x \in (DOMAIN m.highlights \cup DOMAIN k.highlights) \ {h} :
        /\ x \in DOMAIN m.highlights /\ x \in DOMAIN k.highlights
        /\ k.highlights[x] = m.highlights[x]

\* The highlights of k are those of m, but those of book b with the titles.
Entitled(m, k, b, titles) ==
    \A n, c : c \in Blocks(k, Linked(k, n)) <=>
        \E x \in DOMAIN m.highlights :
            /\ m.highlights[x].note = n
            /\ \/ m.highlights[x].book # b /\ c = <<x, m.highlights[x].title>>
               \/ m.highlights[x].book = b /\ \E t \in titles : c = <<x, t>>

\* When highlight h was before and is after, the notes cite their highlights again.
LEMMA SyncedCites ==
    ASSUME NEW m, Mirror(m), Cites(m), NEW k, k.notes = m.notes,
           Table(k.highlights, Highlights, Highlight),
           NEW h \in Highlights, NEW before, NEW after, before.title \in Titles, NEW now \in Nat,
           Apart(m, k, h), Stands(m, h, before), Stands(k, h, after)
    PROVE  Citing(k, Synced(k, h, before, after, now))
<1> DEFINE notes == Synced(k, h, before, after, now)
<1>1. ASSUME NEW n \in DOMAIN m.notes
      PROVE  Quoting(notes[n], Blocks(k, Linked(k, n)))
  <2> DEFINE old == Blocks(m, Linked(m, n))
             new == Blocks(k, Linked(k, n))
             left == IF n = before.note THEN {<<h, before.title>>} ELSE {}
             blocks == (m.notes[n].blocks \ left) \cup new
  <2>0. m.notes[n] \in Note /\ Quoting(m.notes[n], old)
    BY DEF Mirror, Table, Cites, Citing
  <2>1. CASE n \notin {before.note, after.note}
             \/ (before.note = after.note /\ before.title = after.title)
    <3>1. notes[n] = m.notes[n] BY <2>1 DEF Synced
    <3>2. \A c : c \in old <=> c \in new
      <4>1. \A x \in DOMAIN m.highlights : m.highlights[x].note = n =>
               /\ x \in DOMAIN k.highlights /\ k.highlights[x].note = n
               /\ k.highlights[x].title = m.highlights[x].title
        BY <2>1 DEF Apart, Stands
      <4>2. \A x \in DOMAIN k.highlights : k.highlights[x].note = n =>
               /\ x \in DOMAIN m.highlights /\ m.highlights[x].note = n
               /\ k.highlights[x].title = m.highlights[x].title
        BY <2>1 DEF Apart, Stands
      <4> QED BY <4>1, <4>2, LinkedBlocks
    <3>3. old = new BY <3>2
    <3> HIDE DEF old, new, notes
    <3> QED BY <2>0, <3>1, <3>3 DEF new
  <2>2. CASE ~(n \notin {before.note, after.note}
               \/ (before.note = after.note /\ before.title = after.title))
    <3>1. notes[n] = Revised(m.notes[n], blocks, now) BY <2>2 DEF Synced
    <3>2. blocks \in SUBSET Block
      <4>1. new \in SUBSET Block BY BlocksType DEF Linked
      <4>2. m.notes[n].blocks \in SUBSET Block BY <2>0 DEF Note
      <4> QED BY <4>1, <4>2
    <3>3. \A c \in old : c \in left \/ c \in new
      <4> SUFFICES ASSUME NEW c \in old PROVE c \in left \/ c \in new
        OBVIOUS
      <4>1. PICK x \in DOMAIN m.highlights :
              m.highlights[x].note = n /\ c = <<x, m.highlights[x].title>>
        BY LinkedBlocks
      <4>2. CASE x = h BY <4>1, <4>2 DEF Stands
      <4>3. CASE x # h BY <4>1, <4>3, LinkedBlocks DEF Apart
      <4> QED BY <4>2, <4>3
    <3> DEFINE carried == m.notes[n].carried
    <3>4. blocks \subseteq new \cup carried /\ new \subseteq blocks
      <4> HIDE DEF old, new, left
      <4> QED BY <2>0, <3>3 DEF Quoting
    <3> HIDE DEF notes, blocks, old, new, carried
    <3>5. notes[n].blocks = blocks /\ notes[n].carried = carried
      BY <2>0, <3>1, <3>2, RevisedNote DEF carried
    <3> QED BY <3>4, <3>5 DEF new, Quoting
  <2> QED BY <2>1, <2>2
<1>2. DOMAIN notes = DOMAIN m.notes BY DEF Synced
<1> HIDE DEF notes
<1>3. Citing(k, notes) BY <1>1, <1>2 DEF Citing
<1> QED BY <1>3 DEF notes

\* The same when a book gets another title, or goes.
LEMMA RewrittenNotes ==
    ASSUME NEW m, Table(m.notes, Notes, Note), Table(m.highlights, Highlights, Highlight),
           NEW b \in Books, NEW titles \in SUBSET Titles, NEW now \in Nat
    PROVE  LET notes == Rewritten(m, b, titles, now)
           IN  /\ Table(notes, Notes, Note)
               /\ DOMAIN notes = DOMAIN m.notes
               /\ Forward(m.notes, notes)
<1> DEFINE notes == Rewritten(m, b, titles, now)
<1>1. DOMAIN notes = DOMAIN m.notes BY DEF Rewritten
<1>2. ASSUME NEW n \in DOMAIN m.notes
      PROVE  notes[n] \in Note /\ Onward(m.notes[n], notes[n])
  <2> DEFINE cited == {h \in Linked(m, n) : m.highlights[h].book = b}
             blocks == (m.notes[n].blocks \ Blocks(m, cited))
                          \cup (cited \X titles) \cup Blocks(m, Linked(m, n) \ cited)
  <2>1. m.notes[n] \in Note BY DEF Table
  <2>2. blocks \in SUBSET Block
    <3>1. Blocks(m, Linked(m, n) \ cited) \in SUBSET Block BY BlocksType DEF Linked
    <3>2. m.notes[n].blocks \in SUBSET Block BY <2>1 DEF Note
    <3>3. cited \X titles \in SUBSET Block BY DEF Table, Linked, Block
    <3> QED BY <3>1, <3>2, <3>3
  <2>3. notes[n] = m.notes[n] \/ notes[n] = Revised(m.notes[n], blocks, now) BY DEF Rewritten
  <2> HIDE DEF blocks, notes
  <2>4. Onward(m.notes[n], m.notes[n]) BY DEF Onward
  <2> QED BY <2>1, <2>2, <2>3, <2>4, RevisedNote
<1> HIDE DEF notes
<1>3. Table(notes, Notes, Note) /\ DOMAIN notes = DOMAIN m.notes /\ Forward(m.notes, notes)
  BY <1>1, <1>2 DEF Table, Forward
<1> QED BY <1>3 DEF notes

\* When the highlights of a book have another title, or are gone, the notes cite
\* their highlights again.
LEMMA RewrittenCites ==
    ASSUME NEW m, Mirror(m), Cites(m), NEW k, NEW b \in Books, NEW titles \in SUBSET Titles,
           NEW now \in Nat, Entitled(m, k, b, titles)
    PROVE  Citing(k, Rewritten(m, b, titles, now))
<1> DEFINE notes == Rewritten(m, b, titles, now)
<1>1. ASSUME NEW n \in DOMAIN m.notes
      PROVE  Quoting(notes[n], Blocks(k, Linked(k, n)))
  <2> DEFINE old == Blocks(m, Linked(m, n))
             new == Blocks(k, Linked(k, n))
             cited == {h \in Linked(m, n) : m.highlights[h].book = b}
             rest == Blocks(m, Linked(m, n) \ cited)
             gone == Blocks(m, cited)
             blocks == (m.notes[n].blocks \ gone) \cup (cited \X titles) \cup rest
  <2>0. m.notes[n] \in Note /\ Quoting(m.notes[n], old)
    BY DEF Mirror, Table, Cites, Citing
  <2>1. \A c : c \in new <=> c \in (cited \X titles) \cup rest BY DEF Linked, Blocks, Entitled
  <2>2. old \subseteq gone \cup rest BY DEF Linked, Blocks
  <2>3. CASE cited = {}
    <3>1. notes[n] = m.notes[n] BY <2>3 DEF Rewritten
    <3>2. rest = old BY <2>3
    <3>3. new = rest BY <2>1, <2>3
    <3> HIDE DEF notes, new, old, rest
    <3> QED BY <2>0, <3>1, <3>2, <3>3 DEF new
  <2>4. CASE cited # {}
    <3>1. notes[n] = Revised(m.notes[n], blocks, now) BY <2>4 DEF Rewritten
    <3>2. blocks \in SUBSET Block
      <4>1. rest \in SUBSET Block BY BlocksType DEF Linked, Mirror
      <4>2. m.notes[n].blocks \in SUBSET Block BY <2>0 DEF Note
      <4>3. cited \X titles \in SUBSET Block BY DEF Mirror, Table, Linked, Block
      <4> QED BY <4>1, <4>2, <4>3
    <3> HIDE DEF notes, old, new, rest, gone, cited
    <3> DEFINE carried == m.notes[n].carried
    <3>3. blocks \subseteq new \cup carried /\ new \subseteq blocks BY <2>0, <2>1, <2>2 DEF Quoting
    <3> HIDE DEF blocks, carried
    <3>4. notes[n].blocks = blocks /\ notes[n].carried = carried
      BY <2>0, <3>1, <3>2, RevisedNote DEF carried
    <3> QED BY <3>3, <3>4 DEF new, Quoting
  <2> QED BY <2>3, <2>4
<1>2. DOMAIN notes = DOMAIN m.notes BY DEF Rewritten
<1> HIDE DEF notes
<1>3. Citing(k, notes) BY <1>1, <1>2 DEF Citing
<1> QED BY <1>3 DEF notes
-----------------------------------------------------------------------------
(* Books.                                                                  *)

\* The highlights of a book with another title.
LEMMA RetitledTable ==
    ASSUME NEW m, Table(m.highlights, Highlights, Highlight), NEW b, NEW title \in Titles
    PROVE  LET highlights == Retitled(m, b, title)
           IN  /\ Table(highlights, Highlights, Highlight)
               /\ DOMAIN highlights = DOMAIN m.highlights
               /\ \A h \in DOMAIN m.highlights :
                     /\ highlights[h].book = m.highlights[h].book
                     /\ highlights[h].note = m.highlights[h].note
                     /\ highlights[h].title = IF m.highlights[h].book = b THEN title
                                              ELSE m.highlights[h].title
<1> DEFINE highlights == Retitled(m, b, title)
<1>1. DOMAIN highlights = DOMAIN m.highlights BY DEF Retitled
<1>2. ASSUME NEW h \in DOMAIN m.highlights
      PROVE  /\ highlights[h] \in Highlight
             /\ highlights[h].book = m.highlights[h].book
             /\ highlights[h].note = m.highlights[h].note
             /\ highlights[h].title = IF m.highlights[h].book = b THEN title
                                      ELSE m.highlights[h].title
  <2>1. m.highlights[h] \in Highlight BY DEF Table
  <2>2. highlights[h] = IF m.highlights[h].book = b THEN [m.highlights[h] EXCEPT !.title = title]
                        ELSE m.highlights[h]
    BY DEF Retitled
  <2> HIDE DEF highlights
  <2> QED BY <2>1, <2>2 DEF Highlight
<1>3. Table(highlights, Highlights, Highlight) BY <1>1, <1>2 DEF Table
<1> HIDE DEF highlights
<1>4. \A h \in DOMAIN m.highlights :
         /\ highlights[h].book = m.highlights[h].book
         /\ highlights[h].note = m.highlights[h].note
         /\ highlights[h].title = IF m.highlights[h].book = b THEN title
                                  ELSE m.highlights[h].title
  BY <1>2
<1> QED BY <1>1, <1>3, <1>4 DEF highlights

\* A book is written that was never deleted.
LEMMA ImportedGood ==
    ASSUME NEW m, Sound(m), NEW b \in Books, b \notin m.buried,
           NEW title \in Titles, NEW hash \in Hashes, NEW now \in Nat
    PROVE  LET k == Imported(m, b, title, hash, now)
           IN  /\ Good(m, k) /\ b \in DOMAIN k.books
               /\ k.staged = m.staged /\ k.promoted = m.promoted /\ DOMAIN k = DOMAIN m
<1> DEFINE k == Imported(m, b, title, hash, now)
           renamed == b \in DOMAIN m.books /\ m.books[b].title # title
           row == [title |-> title, hash |-> hash]
           books == With(m.books, b, row)
           digests == m.digests \ ({old \in Hashes : b \in DOMAIN m.books /\ old = m.books[b].hash
                                                       /\ Unreferenced(books, old)}
                                    \cup (IF renamed THEN {hash} ELSE {}))
           notes == IF renamed THEN Rewritten(m, b, {title}, now) ELSE m.notes
           highlights == IF renamed THEN Retitled(m, b, title) ELSE m.highlights
<1>0. Mirror(m) /\ Gone(m) /\ Bound(m) /\ Owned(m) /\ Cites(m) BY DEF Sound
<1>1. /\ k.books = books /\ k.notes = notes /\ k.highlights = highlights /\ k.digests = digests
      /\ k.links = m.links /\ k.buried = m.buried /\ k.staged = m.staged
      /\ k.promoted = m.promoted /\ k.receipts = m.receipts /\ DOMAIN k = DOMAIN m
  BY <1>0 DEF Imported, Mirror, EmptyMirror
<1>2. /\ Table(books, Books, Book) /\ DOMAIN books = DOMAIN m.books \cup {b}
      /\ books[b] = row /\ \A i \in DOMAIN m.books : i # b => books[i] = m.books[i]
  <2>1. row \in Book BY DEF Book
  <2>2. Table(m.books, Books, Book) BY <1>0 DEF Mirror
  <2> HIDE DEF row
  <2> QED BY <2>1, <2>2 DEF Table, With
<1>3. Table(notes, Notes, Note) /\ DOMAIN notes = DOMAIN m.notes /\ Forward(m.notes, notes)
  BY <1>0, RewrittenNotes DEF Mirror, Forward, Onward
<1>4. /\ Table(highlights, Highlights, Highlight) /\ DOMAIN highlights = DOMAIN m.highlights
      /\ \A h \in DOMAIN m.highlights :
            /\ highlights[h].book = m.highlights[h].book
            /\ highlights[h].note = m.highlights[h].note
            /\ highlights[h].title = IF renamed /\ m.highlights[h].book = b THEN title
                                     ELSE m.highlights[h].title
  BY <1>0, RetitledTable DEF Mirror
<1>5. ASSUME NEW old \in digests PROVE ~Unreferenced(books, old)
  <2>1. PICK i \in DOMAIN m.books : m.books[i].hash = old
    BY <1>0 DEF Owned, Unreferenced
  <2>2. CASE i # b BY <2>1, <2>2, <1>2 DEF Unreferenced
  <2>3. CASE i = b
    <3>1. old \in Hashes BY <1>0 DEF Mirror
    <3> QED BY <2>1, <2>3, <3>1
  <2> QED BY <2>2, <2>3
<1>51. ASSUME renamed PROVE Cites(k)
  <2>1. notes = Rewritten(m, b, {title}, now) BY <1>51
  <2> HIDE DEF k, books, notes, highlights, digests
  <2>2. Entitled(m, k, b, {title})
    BY <1>1, <1>4, <1>51, LinkedBlocks DEF Entitled
  <2>3. Citing(k, notes)
    BY <1>0, <2>1, <2>2, RewrittenCites
  <2> QED BY <1>1, <2>3 DEF Cites
<1>52. ASSUME ~renamed PROVE Cites(k)
  <2>1. notes = m.notes /\ highlights = m.highlights BY <1>52
  <2> HIDE DEF k, books, notes, highlights, digests
  <2>2. \A n : Blocks(k, Linked(k, n)) = Blocks(m, Linked(m, n)) BY <1>1, <2>1, SameBlocks
  <2> QED BY <1>0, <1>1, <2>1, <2>2 DEF Cites, Citing
<1>53. Cites(k) BY <1>51, <1>52
<1> HIDE DEF k, books, notes, highlights, digests
<1>6. Mirror(k)
  <2>1. k.digests \subseteq Hashes BY <1>0, <1>1 DEF Mirror, digests
  <2> QED BY <1>0, <1>1, <1>2, <1>3, <1>4, <2>1 DEF Mirror
<1>7. Gone(k) BY <1>0, <1>1, <1>2, <1>3 DEF Gone
<1>8. Bound(k)
  <2>1. ASSUME NEW h \in DOMAIN m.highlights
        PROVE  highlights[h].title = books[highlights[h].book].title
    BY <1>0, <1>2, <1>4 DEF Bound
  <2> QED BY <1>0, <1>1, <1>2, <1>3, <1>4, <2>1 DEF Bound
<1>9. Owned(k) BY <1>1, <1>5 DEF Owned
<1>10. Good(m, k)
  BY <1>1, <1>2, <1>3, <1>53, <1>6, <1>7, <1>8, <1>9 DEF Good, Sound, Later
<1>11. b \in DOMAIN k.books BY <1>1, <1>2
<1> QED BY <1>1, <1>10, <1>11 DEF k

\* A request that changes nothing is good.
LEMMA SameGood == ASSUME NEW m, Sound(m) PROVE Good(m, m)
BY DEF Good, Later, Forward, Onward

\* POST /books writes a book, or is refused.
LEMMA BookImportedGood ==
    ASSUME NEW m, Sound(m), NEW b \in Books, NEW title \in Titles, NEW hash \in Hashes,
           NEW now \in Nat
    PROVE  Good(m, BookImported(m, b, title, hash, now).mirror)
BY SameGood, ImportedGood DEF BookImported, Refused, Done

\* A book gets another title, its highlights with it.
LEMMA BookUpdatedGood ==
    ASSUME NEW m, Sound(m), NEW b \in Books, NEW title \in Titles, NEW now \in Nat
    PROVE  Good(m, BookUpdated(m, b, title, now).mirror)
<1>1. CASE b \notin DOMAIN m.books BY <1>1, SameGood DEF BookUpdated, Failed
<1>2. CASE b \in DOMAIN m.books
  <2> DEFINE k == BookUpdated(m, b, title, now).mirror
             books == [m.books EXCEPT ![b].title = title]
             notes == IF title # m.books[b].title THEN Rewritten(m, b, {title}, now) ELSE m.notes
             highlights == Retitled(m, b, title)
  <2>0. Mirror(m) /\ Gone(m) /\ Bound(m) /\ Owned(m) /\ Cites(m) BY DEF Sound
  <2>1. /\ k.books = books /\ k.notes = notes /\ k.highlights = highlights
        /\ k.digests \subseteq m.digests
        /\ k.links = m.links /\ k.buried = m.buried /\ k.staged = m.staged
        /\ k.promoted = m.promoted /\ k.receipts = m.receipts /\ DOMAIN k = DOMAIN m
    BY <1>2, <2>0 DEF BookUpdated, Done, Mirror, EmptyMirror
  <2>2. /\ Table(books, Books, Book) /\ DOMAIN books = DOMAIN m.books
        /\ \A i \in DOMAIN m.books :
              /\ books[i].hash = m.books[i].hash
              /\ books[i].title = IF i = b THEN title ELSE m.books[i].title
    BY <1>2, <2>0 DEF Mirror, Table, Book
  <2>3. Table(notes, Notes, Note) /\ DOMAIN notes = DOMAIN m.notes /\ Forward(m.notes, notes)
    BY <2>0, RewrittenNotes DEF Mirror, Forward, Onward
  <2>4. /\ Table(highlights, Highlights, Highlight) /\ DOMAIN highlights = DOMAIN m.highlights
        /\ \A h \in DOMAIN m.highlights :
              /\ highlights[h].book = m.highlights[h].book
              /\ highlights[h].note = m.highlights[h].note
              /\ highlights[h].title = IF m.highlights[h].book = b THEN title
                                       ELSE m.highlights[h].title
    BY <2>0, RetitledTable DEF Mirror
  <2>41. ASSUME title # m.books[b].title PROVE Cites(k)
    <3>1. notes = Rewritten(m, b, {title}, now) BY <2>41
    <3> HIDE DEF k, books, notes, highlights
    <3>2. Entitled(m, k, b, {title})
      BY <2>1, <2>4, LinkedBlocks DEF Entitled
    <3>3. Citing(k, notes)
      BY <2>0, <3>1, <3>2, RewrittenCites
    <3> QED BY <2>1, <3>3 DEF Cites
  <2>42. ASSUME title = m.books[b].title PROVE Cites(k)
    <3>1. notes = m.notes BY <2>42
    <3> HIDE DEF k, books, notes, highlights
    <3>2. \A h \in DOMAIN m.highlights : highlights[h].title = m.highlights[h].title
      BY <2>0, <2>4, <2>42 DEF Bound
    <3>3. ASSUME NEW n PROVE Blocks(k, Linked(k, n)) = Blocks(m, Linked(m, n))
      <4>1. \A c : c \in Blocks(k, Linked(k, n)) <=> c \in Blocks(m, Linked(m, n))
        BY <2>1, <2>4, <3>2, LinkedBlocks
      <4> QED BY <4>1
    <3> QED BY <2>0, <2>1, <3>1, <3>3 DEF Cites, Citing
  <2>43. Cites(k) BY <2>41, <2>42
  <2> HIDE DEF k, books, notes, highlights
  <2>5. Mirror(k) BY <2>0, <2>1, <2>2, <2>3, <2>4 DEF Mirror
  <2>6. Gone(k) BY <2>0, <2>1, <2>2, <2>3 DEF Gone
  <2>7. Bound(k)
    <3>1. ASSUME NEW h \in DOMAIN m.highlights
          PROVE  highlights[h].title = books[highlights[h].book].title
      BY <2>0, <2>2, <2>4 DEF Bound
    <3> QED BY <2>0, <2>1, <2>2, <2>3, <2>4, <3>1 DEF Bound
  <2>8. Owned(k) BY <2>0, <2>1, <2>2 DEF Owned, Unreferenced
  <2>9. Good(m, k) BY <2>1, <2>2, <2>3, <2>43, <2>5, <2>6, <2>7, <2>8 DEF Good, Sound, Later
  <2> QED BY <2>9 DEF k
<1> QED BY <1>1, <1>2

\* A book goes with all that refers to it.
LEMMA BookDeletedGood ==
    ASSUME NEW m, Sound(m), NEW b \in Books, NEW anyway \in BOOLEAN, NEW now \in Nat
    PROVE  LET result == BookDeleted(m, b, anyway, now)
           IN  /\ Good(m, result.mirror)
               /\ anyway => b \in result.mirror.buried
<1> DEFINE k == BookDeleted(m, b, anyway, now).mirror
<1>0. Mirror(m) /\ Gone(m) /\ Bound(m) /\ Owned(m) /\ Cites(m) BY DEF Sound
<1>1. CASE b \notin DOMAIN m.books /\ Staged(m, b) = {} /\ ~anyway
  BY <1>1, SameGood DEF BookDeleted, Refused
<1>2. CASE b \notin DOMAIN m.books /\ Staged(m, b) = {} /\ anyway
  <2>1. /\ k.books = m.books /\ k.notes = m.notes /\ k.highlights = m.highlights
        /\ k.digests = m.digests /\ k.links = m.links /\ k.buried = m.buried \cup {b}
        /\ k.staged = m.staged /\ k.promoted = m.promoted /\ k.receipts = m.receipts
        /\ DOMAIN k = DOMAIN m
    BY <1>0, <1>2 DEF BookDeleted, Done, Mirror, EmptyMirror
  <2> HIDE DEF k
  <2>2. Mirror(k) BY <1>0, <2>1 DEF Mirror
  <2>3. Gone(k)
    <3>1. \A n \in DOMAIN m.notes : n # b BY <1>0, MirrorAssumption DEF Mirror, Table
    <3> QED BY <1>0, <1>2, <2>1, <3>1 DEF Gone, Staged
  <2>4. Bound(k) BY <1>0, <2>1 DEF Bound
  <2>5. Owned(k) BY <1>0, <2>1 DEF Owned
  <2>6. Later(m, k) /\ Cites(k) BY <1>0, <2>1, SameBlocks DEF Later, Forward, Onward, Cites, Citing
  <2>7. Good(m, k) /\ b \in k.buried BY <2>1, <2>2, <2>3, <2>4, <2>5, <2>6 DEF Good, Sound
  <2> QED BY <2>7 DEF k
<1>3. CASE ~(b \notin DOMAIN m.books /\ Staged(m, b) = {})
  <2> DEFINE books == Without(m.books, {b})
             hashes == {m.books[x].hash : x \in DOMAIN m.books \cap {b}}
                         \cup {Manifest[r[1]].hash : r \in {x \in Staged(m, b) : x[2] = Manifested}}
             digests == {d \in m.digests : d \in hashes => ~Unreferenced(books, d)}
             notes == Rewritten(m, b, {}, now)
             highlights == Without(m.highlights, {h \in DOMAIN m.highlights : m.highlights[h].book = b})
  <2>1. /\ k.books = books /\ k.notes = notes /\ k.highlights = highlights
        /\ k.digests = digests /\ k.links = {l \in m.links : b \notin Ends[l]}
        /\ k.buried = m.buried \cup {b} /\ k.staged = m.staged \ Staged(m, b)
        /\ k.promoted = {u \in m.promoted : Manifest[u].book # b}
        /\ k.receipts = m.receipts /\ DOMAIN k = DOMAIN m
    BY <1>0, <1>3 DEF BookDeleted, Done, Mirror, EmptyMirror
  <2>2. /\ Table(books, Books, Book) /\ DOMAIN books = DOMAIN m.books \ {b}
        /\ \A i \in DOMAIN m.books \ {b} : books[i] = m.books[i]
    BY <1>0 DEF Mirror, Table, Without, Restrict
  <2>3. Table(notes, Notes, Note) /\ DOMAIN notes = DOMAIN m.notes /\ Forward(m.notes, notes)
    BY <1>0, RewrittenNotes DEF Mirror
  <2>4. /\ Table(highlights, Highlights, Highlight)
        /\ DOMAIN highlights = {h \in DOMAIN m.highlights : m.highlights[h].book # b}
        /\ \A h \in DOMAIN highlights : highlights[h] = m.highlights[h]
    BY <1>0 DEF Mirror, Table, Without, Restrict
  <2>5. ASSUME NEW d \in digests PROVE ~Unreferenced(books, d)
    <3>1. PICK i \in DOMAIN m.books : m.books[i].hash = d BY <1>0 DEF Owned, Unreferenced
    <3>2. CASE i # b BY <2>2, <3>1, <3>2 DEF Unreferenced
    <3>3. CASE i = b BY <3>1, <3>3
    <3> QED BY <3>2, <3>3
  <2>6. digests \subseteq m.digests /\ notes = Rewritten(m, b, {}, now) OBVIOUS
  <2> HIDE DEF k, books, notes, highlights, digests
  <2>7. Mirror(k) BY <1>0, <2>1, <2>2, <2>3, <2>4, <2>6 DEF Mirror
  <2>8. Gone(k)
    <3>1. \A n \in DOMAIN m.notes : n # b BY <1>0, MirrorAssumption DEF Mirror, Table
    <3> QED BY <1>0, <2>1, <2>2, <2>3, <3>1 DEF Gone, Staged
  <2>9. Bound(k)
    <3>1. \A l \in Links : Ends[l] \subseteq Books BY MirrorAssumption
    <3> QED BY <1>0, <2>1, <2>2, <2>3, <2>4, <3>1 DEF Bound, Mirror
  <2>10. Owned(k) BY <2>1, <2>5 DEF Owned
  <2>11. Later(m, k) BY <2>1, <2>2, <2>3 DEF Later
  <2>12. Cites(k)
    <3>1. Entitled(m, k, b, {})
      BY <2>1, <2>4, LinkedBlocks DEF Entitled
    <3>2. Citing(k, notes)
      BY <1>0, <2>6, <3>1, RewrittenCites
    <3> QED BY <2>1, <3>2 DEF Cites
  <2>13. Good(m, k) /\ b \in k.buried BY <2>1, <2>7, <2>8, <2>9, <2>10, <2>11, <2>12 DEF Good, Sound
  <2> QED BY <2>13 DEF k
<1> QED BY <1>1, <1>2, <1>3

\* A digest is saved only for a content that a book has.
LEMMA DigestSavedGood ==
    ASSUME NEW m, Sound(m), NEW hash \in Hashes
    PROVE  Good(m, DigestSaved(m, hash).mirror)
<1>1. CASE Unreferenced(m.books, hash) BY <1>1, SameGood DEF DigestSaved, Refused
<1>2. CASE ~Unreferenced(m.books, hash)
  <2> DEFINE k == DigestSaved(m, hash).mirror
  <2>0. Mirror(m) /\ Gone(m) /\ Bound(m) /\ Owned(m) /\ Cites(m) BY DEF Sound
  <2>1. /\ k.books = m.books /\ k.notes = m.notes /\ k.highlights = m.highlights
        /\ k.digests = m.digests \cup {hash} /\ k.links = m.links /\ k.buried = m.buried
        /\ k.staged = m.staged /\ k.promoted = m.promoted /\ k.receipts = m.receipts
        /\ DOMAIN k = DOMAIN m
    BY <1>2, <2>0 DEF DigestSaved, Done, Mirror, EmptyMirror
  <2> HIDE DEF k
  <2>2. Mirror(k) /\ Gone(k) /\ Bound(k) BY <2>0, <2>1 DEF Mirror, Gone, Bound
  <2>3. Owned(k) /\ Cites(k) BY <1>2, <2>0, <2>1, SameBlocks DEF Owned, Cites, Citing
  <2>4. Good(m, k) BY <2>1, <2>2, <2>3 DEF Good, Sound, Later, Forward, Onward
  <2> QED BY <2>4 DEF k
<1> QED BY <1>1, <1>2
-----------------------------------------------------------------------------
(* Uploads.                                                                *)

\* An upload begins, and what was there of the book's uploads goes.
LEMMA UploadStartedGood ==
    ASSUME NEW m, Sound(m), NEW u \in Uploads
    PROVE  Good(m, UploadStarted(m, u).mirror)
<1>1. CASE Manifest[u].book \in m.buried BY <1>1, SameGood DEF UploadStarted, Refused
<1>2. CASE Manifest[u].book \notin m.buried
  <2> DEFINE k == UploadStarted(m, u).mirror
             staged == (m.staged \ Staged(m, Manifest[u].book)) \cup {<<u, Manifested>>}
  <2>0. Mirror(m) /\ Gone(m) /\ Bound(m) /\ Owned(m) /\ Cites(m) BY DEF Sound
  <2>1. /\ k.books = m.books /\ k.notes = m.notes /\ k.highlights = m.highlights
        /\ k.digests = m.digests /\ k.links = m.links /\ k.buried = m.buried
        /\ k.staged = staged /\ k.promoted \subseteq m.promoted /\ k.receipts = m.receipts
        /\ DOMAIN k = DOMAIN m
    BY <1>2, <2>0 DEF UploadStarted, Done, Mirror, EmptyMirror
  <2>2. staged \subseteq Uploads \X (Manifested .. Chunks - 1)
    <3>1. Manifested \in Manifested .. Chunks - 1 BY MirrorAssumption DEF Manifested
    <3> QED BY <2>0, <3>1 DEF Mirror
  <2>3. \A r \in staged : Manifest[r[1]].book \notin m.buried BY <1>2, <2>0 DEF Gone
  <2> HIDE DEF k, staged
  <2>4. Mirror(k) BY <2>0, <2>1, <2>2 DEF Mirror
  <2>5. Gone(k) /\ Bound(k) /\ Owned(k) BY <2>0, <2>1, <2>3 DEF Gone, Bound, Owned
  <2>6. Cites(k) BY <2>0, <2>1, SameBlocks DEF Cites, Citing
  <2>7. Good(m, k) BY <2>1, <2>4, <2>5, <2>6 DEF Good, Sound, Later, Forward, Onward
  <2> QED BY <2>7 DEF k
<1> QED BY <1>1, <1>2

\* A chunk is stored only in an upload that has begun.
LEMMA ChunkPutGood ==
    ASSUME NEW m, Sound(m), NEW u \in Uploads, NEW i \in 0 .. Chunks - 1
    PROVE  Good(m, ChunkPut(m, u, i).mirror)
<1>1. CASE Manifest[u].book \in m.buried \/ <<u, Manifested>> \notin m.staged \/ u \in m.promoted
  BY <1>1, SameGood DEF ChunkPut, Refused
<1>2. CASE ~(Manifest[u].book \in m.buried \/ <<u, Manifested>> \notin m.staged \/ u \in m.promoted)
  <2> DEFINE k == ChunkPut(m, u, i).mirror
             staged == m.staged \cup {<<u, i>>}
  <2>0. Mirror(m) /\ Gone(m) /\ Bound(m) /\ Owned(m) /\ Cites(m) BY DEF Sound
  <2>1. /\ k.books = m.books /\ k.notes = m.notes /\ k.highlights = m.highlights
        /\ k.digests = m.digests /\ k.links = m.links /\ k.buried = m.buried
        /\ k.staged = staged /\ k.promoted = m.promoted /\ k.receipts = m.receipts
        /\ DOMAIN k = DOMAIN m
    BY <1>2, <2>0 DEF ChunkPut, Done, Mirror, EmptyMirror
  <2>2. staged \subseteq Uploads \X (Manifested .. Chunks - 1)
    <3>1. i \in Manifested .. Chunks - 1 BY MirrorAssumption DEF Manifested
    <3> QED BY <2>0, <3>1 DEF Mirror
  <2>3. \A r \in staged : Manifest[r[1]].book \notin m.buried BY <1>2, <2>0 DEF Gone
  <2> HIDE DEF k, staged
  <2>4. Mirror(k) BY <2>0, <2>1, <2>2 DEF Mirror
  <2>5. Gone(k) /\ Bound(k) /\ Owned(k) BY <2>0, <2>1, <2>3 DEF Gone, Bound, Owned
  <2>6. Cites(k) BY <2>0, <2>1, SameBlocks DEF Cites, Citing
  <2>7. Good(m, k) BY <2>1, <2>4, <2>5, <2>6 DEF Good, Sound, Later, Forward, Onward
  <2> QED BY <2>7 DEF k
<1> QED BY <1>1, <1>2

\* An upload that is complete has put its book on the server.
LEMMA UploadCompletedGood ==
    ASSUME NEW m, Sound(m), NEW u \in Uploads, NEW now \in Nat
    PROVE  LET result == UploadCompleted(m, u, now)
           IN  /\ Good(m, result.mirror)
               /\ result.answer = "ok" => Manifest[u].book \in DOMAIN result.mirror.books
<1> DEFINE upload == Manifest[u]
           chunks == {<<u, i>> : i \in 0 .. Chunks - 1}
           result == UploadCompleted(m, u, now)
<1>0. Mirror(m) /\ Gone(m) /\ Bound(m) /\ Owned(m) /\ Cites(m) BY DEF Sound
<1>1. CASE upload.book \in m.buried \/ <<u, Manifested>> \notin m.staged
  BY <1>1, SameGood DEF UploadCompleted, Refused
<1>2. CASE ~(upload.book \in m.buried \/ <<u, Manifested>> \notin m.staged) /\ u \in m.promoted
  BY <1>0, <1>2, SameGood DEF UploadCompleted, Done, Bound
<1>3. CASE /\ ~(upload.book \in m.buried \/ <<u, Manifested>> \notin m.staged)
           /\ u \notin m.promoted /\ ~(chunks \subseteq m.staged)
  BY <1>3, SameGood DEF UploadCompleted, Refused
<1>4. CASE /\ ~(upload.book \in m.buried \/ <<u, Manifested>> \notin m.staged)
           /\ u \notin m.promoted /\ chunks \subseteq m.staged
  <2> DEFINE n == Imported(m, upload.book, upload.title, upload.hash, now)
             k == [n EXCEPT !.staged = @ \ chunks, !.promoted = @ \cup {u}]
  <2>1. result = Done(k) BY <1>4 DEF UploadCompleted
  <2>2. upload.book \in Books /\ upload.title \in Titles /\ upload.hash \in Hashes
    BY MirrorAssumption
  <2>3. /\ Good(m, n) /\ upload.book \in DOMAIN n.books
        /\ n.staged = m.staged /\ n.promoted = m.promoted /\ DOMAIN n = DOMAIN m
    BY <1>4, <2>2, ImportedGood
  <2> HIDE DEF n
  <2>4. /\ k.books = n.books /\ k.notes = n.notes /\ k.highlights = n.highlights
        /\ k.digests = n.digests /\ k.links = n.links /\ k.buried = n.buried
        /\ k.staged \subseteq n.staged /\ k.promoted = n.promoted \cup {u}
        /\ k.receipts = n.receipts /\ DOMAIN k = DOMAIN n
    BY <1>0, <2>3 DEF Mirror, EmptyMirror
  <2> HIDE DEF k
  <2>5. Mirror(n) /\ Gone(n) /\ Bound(n) /\ Owned(n) /\ Cites(n) BY <2>3 DEF Good, Sound
  <2>6. Mirror(k) BY <2>4, <2>5 DEF Mirror
  <2>7. Gone(k) /\ Bound(k) /\ Owned(k) BY <2>3, <2>4, <2>5 DEF Gone, Bound, Owned
  <2>8. Later(m, k) /\ Cites(k) BY <2>3, <2>4, <2>5, SameBlocks DEF Later, Good, Cites, Citing
  <2>9. Good(m, k) BY <2>6, <2>7, <2>8 DEF Good, Sound
  <2> QED BY <2>1, <2>3, <2>4, <2>9 DEF Done
<1> QED BY <1>1, <1>2, <1>3, <1>4
-----------------------------------------------------------------------------
(* Highlights, notes and associations.                                     *)

\* A highlight is stored under the title of its book, with a note that is there.
LEMMA StoredGood ==
    ASSUME NEW m, Sound(m), NEW h \in Highlights, NEW row,
           row.book \in DOMAIN m.books, row.text \in Nat,
           row.note \in DOMAIN m.notes \cup {NoNote}, row.bare \in BOOLEAN, NEW now \in Nat
    PROVE  Good(m, Stored(m, h, row, now))
<1> DEFINE after == [book |-> row.book, title |-> m.books[row.book].title,
                     text |-> row.text, note |-> row.note, bare |-> row.bare]
           before == IF h \in DOMAIN m.highlights THEN m.highlights[h]
                     ELSE [after EXCEPT !.note = NoNote]
           highlights == With(m.highlights, h, after)
           n == [m EXCEPT !.highlights = highlights]
           notes == Synced(n, h, before, after, now)
           k == Stored(m, h, row, now)
<1>0. Mirror(m) /\ Gone(m) /\ Bound(m) /\ Owned(m) /\ Cites(m) BY DEF Sound
<1>1. k = [n EXCEPT !.notes = notes] BY DEF Stored
<1>2. after \in Highlight
  <2>1. row.book \in Books /\ m.books[row.book].title \in Titles BY <1>0 DEF Mirror, Table, Book
  <2>2. row.note \in Notes \cup {NoNote} BY <1>0 DEF Mirror, Table
  <2> QED BY <2>1, <2>2 DEF Highlight
<1>3. before.title \in Titles
  <2>1. CASE h \in DOMAIN m.highlights BY <1>0, <2>1 DEF Mirror, Table, Highlight
  <2>2. CASE h \notin DOMAIN m.highlights BY <1>2, <2>2 DEF Highlight
  <2> QED BY <2>1, <2>2
<1>4. after.book = row.book /\ after.title = m.books[row.book].title /\ after.note = row.note
  OBVIOUS
<1>41. Stands(m, h, before)
  <2>1. NoNote \notin DOMAIN m.notes BY <1>0, MirrorAssumption DEF Mirror, Table
  <2>2. h \notin DOMAIN m.highlights => before.note = NoNote OBVIOUS
  <2> QED BY <2>1, <2>2 DEF Stands
<1> HIDE DEF after, before
<1>5. /\ Table(highlights, Highlights, Highlight) /\ DOMAIN highlights = DOMAIN m.highlights \cup {h}
      /\ highlights[h] = after /\ \A i \in DOMAIN m.highlights : i # h => highlights[i] = m.highlights[i]
  BY <1>0, <1>2 DEF Mirror, Table, With
<1> HIDE DEF highlights
<1>6. n.notes = m.notes /\ n.highlights = highlights BY <1>0 DEF Mirror, EmptyMirror
<1>7. Table(notes, Notes, Note) /\ DOMAIN notes = DOMAIN m.notes /\ Forward(m.notes, notes)
  <2>1. Table(n.notes, Notes, Note) BY <1>0, <1>6 DEF Mirror
  <2> HIDE DEF n
  <2> QED BY <1>3, <1>5, <1>6, <2>1, SyncedNotes
<1>8. /\ k.books = m.books /\ k.notes = notes /\ k.highlights = highlights
      /\ k.digests = m.digests /\ k.links = m.links /\ k.buried = m.buried
      /\ k.staged = m.staged /\ k.promoted = m.promoted /\ k.receipts = m.receipts
      /\ DOMAIN k = DOMAIN m
  <2> HIDE DEF notes
  <2> QED BY <1>0, <1>1 DEF Mirror, EmptyMirror
<1>81. Citing(n, notes)
  <2> HIDE DEF n
  <2>1. Apart(m, n, h) BY <1>5, <1>6 DEF Apart
  <2>2. Stands(n, h, after) BY <1>5, <1>6 DEF Stands
  <2> QED BY <1>0, <1>3, <1>41, <1>5, <1>6, <2>1, <2>2, SyncedCites
<1> HIDE DEF k, notes, n
<1>82. Cites(k) BY <1>6, <1>7, <1>8, <1>81, SameBlocks DEF Cites, Citing
<1>9. Mirror(k) BY <1>0, <1>5, <1>7, <1>8 DEF Mirror
<1>10. Gone(k) /\ Owned(k) BY <1>0, <1>7, <1>8 DEF Gone, Owned
<1>11. Bound(k)
  <2>1. ASSUME NEW i \in DOMAIN highlights
        PROVE  /\ highlights[i].book \in DOMAIN m.books
               /\ highlights[i].title = m.books[highlights[i].book].title
               /\ highlights[i].note \in DOMAIN m.notes \cup {NoNote}
    BY <1>0, <1>4, <1>5 DEF Bound
  <2> QED BY <1>0, <1>7, <1>8, <2>1 DEF Bound
<1>12. Good(m, k) BY <1>7, <1>8, <1>82, <1>9, <1>10, <1>11 DEF Good, Sound, Later
<1> QED BY <1>12 DEF k

\* highlight.created and POST /highlights.
LEMMA HighlightCreatedGood ==
    ASSUME NEW m, Sound(m), NEW h \in Highlights, NEW row \in Draft, NEW now \in Nat
    PROVE  Good(m, HighlightCreated(m, h, row, now).mirror)
<1>1. CASE row.book \notin DOMAIN m.books \/ Dangling(m, row.note)
  BY <1>1, SameGood DEF HighlightCreated, Refused, Failed
<1>2. CASE row.book \in DOMAIN m.books /\ ~Dangling(m, row.note)
  <2>1. row.text \in Nat /\ row.bare \in BOOLEAN BY DEF Draft
  <2>2. row.note \in DOMAIN m.notes \cup {NoNote} BY <1>2 DEF Dangling
  <2>3. HighlightCreated(m, h, row, now).mirror = Stored(m, h, row, now)
    BY <1>2 DEF HighlightCreated, Done
  <2> QED BY <1>2, <2>1, <2>2, <2>3, StoredGood
<1> QED BY <1>1, <1>2

\* highlight.updated and PATCH /highlights.
LEMMA HighlightUpdatedGood ==
    ASSUME NEW m, Sound(m), NEW h \in Highlights, NEW patch \in Patch, NEW now \in Nat
    PROVE  Good(m, HighlightUpdated(m, h, patch, now).mirror)
<1> DEFINE row == [f \in DOMAIN m.highlights[h] |->
                      IF f \in DOMAIN patch THEN patch[f] ELSE m.highlights[h][f]]
<1>1. CASE h \notin DOMAIN m.highlights BY <1>1, SameGood DEF HighlightUpdated, Refused
<1>2. CASE h \in DOMAIN m.highlights
  <2>1. CASE row.book \notin DOMAIN m.books \/ Dangling(m, row.note)
    BY <1>2, <2>1, SameGood DEF HighlightUpdated, Refused, Failed
  <2>2. CASE row.book \in DOMAIN m.books /\ ~Dangling(m, row.note)
    <3>1. m.highlights[h] \in Highlight BY <1>2 DEF Sound, Mirror, Table
    <3>2. row.text \in Nat /\ row.bare \in BOOLEAN
      <4>1. CASE patch \in [text : Nat, bare : {FALSE}] BY <3>1, <4>1 DEF Highlight
      <4>2. CASE patch \in [note : Notes \cup {NoNote}] BY <3>1, <4>2 DEF Highlight
      <4>3. CASE patch \in [book : Books] BY <3>1, <4>3 DEF Highlight
      <4> QED BY <4>1, <4>2, <4>3 DEF Patch
    <3>3. row.note \in DOMAIN m.notes \cup {NoNote} BY <2>2 DEF Dangling
    <3>4. HighlightUpdated(m, h, patch, now).mirror = Stored(m, h, row, now)
      BY <1>2, <2>2 DEF HighlightUpdated, Done
    <3> HIDE DEF row
    <3> QED BY <2>2, <3>2, <3>3, <3>4, StoredGood
  <2> QED BY <2>1, <2>2
<1> QED BY <1>1, <1>2

\* highlight.deleted and DELETE /highlights.
LEMMA HighlightDeletedGood ==
    ASSUME NEW m, Sound(m), NEW h \in Highlights, NEW now \in Nat
    PROVE  Good(m, HighlightDeleted(m, h, now).mirror)
<1>1. CASE h \notin DOMAIN m.highlights BY <1>1, SameGood DEF HighlightDeleted, Done
<1>2. CASE h \in DOMAIN m.highlights
  <2> DEFINE highlights == Without(m.highlights, {h})
             n == [m EXCEPT !.highlights = highlights]
             before == m.highlights[h]
             after == [m.highlights[h] EXCEPT !.note = NoNote]
             notes == Synced(n, h, before, after, now)
             k == HighlightDeleted(m, h, now).mirror
  <2>0. Mirror(m) /\ Gone(m) /\ Bound(m) /\ Owned(m) /\ Cites(m) BY DEF Sound
  <2>1. k = [n EXCEPT !.notes = notes] BY <1>2 DEF HighlightDeleted, Done
  <2>2. before.title \in Titles BY <1>2, <2>0 DEF Mirror, Table, Highlight
  <2>21. Stands(m, h, before) /\ after.note \notin DOMAIN m.notes
    <3>1. NoNote \notin DOMAIN m.notes BY <2>0, MirrorAssumption DEF Mirror, Table
    <3>2. m.highlights[h] \in Highlight BY <1>2, <2>0 DEF Mirror, Table
    <3>3. after.note = NoNote BY <3>2 DEF Highlight
    <3> QED BY <1>2, <3>1, <3>3 DEF Stands
  <2> HIDE DEF after, before
  <2>3. /\ Table(highlights, Highlights, Highlight) /\ DOMAIN highlights = DOMAIN m.highlights \ {h}
        /\ \A i \in DOMAIN highlights : highlights[i] = m.highlights[i]
    BY <2>0 DEF Mirror, Table, Without, Restrict
  <2> HIDE DEF highlights
  <2>4. n.notes = m.notes /\ n.highlights = highlights BY <2>0 DEF Mirror, EmptyMirror
  <2>5. Table(notes, Notes, Note) /\ DOMAIN notes = DOMAIN m.notes /\ Forward(m.notes, notes)
    <3>1. Table(n.notes, Notes, Note) BY <2>0, <2>4 DEF Mirror
    <3> HIDE DEF n
    <3> QED BY <2>2, <2>3, <2>4, <3>1, SyncedNotes
  <2>6. /\ k.books = m.books /\ k.notes = notes /\ k.highlights = highlights
        /\ k.digests = m.digests /\ k.links = m.links /\ k.buried = m.buried
        /\ k.staged = m.staged /\ k.promoted = m.promoted /\ k.receipts = m.receipts
        /\ DOMAIN k = DOMAIN m
    <3> HIDE DEF notes
    <3> QED BY <2>0, <2>1 DEF Mirror, EmptyMirror
  <2>61. Citing(n, notes)
    <3> HIDE DEF n
    <3>1. Apart(m, n, h) BY <2>3, <2>4 DEF Apart
    <3>2. Stands(n, h, after) BY <2>21, <2>3, <2>4 DEF Stands
    <3> QED BY <2>0, <2>2, <2>21, <2>3, <2>4, <3>1, <3>2, SyncedCites
  <2> HIDE DEF k, notes, n
  <2>62. Cites(k) BY <2>4, <2>5, <2>6, <2>61, SameBlocks DEF Cites, Citing
  <2>7. Mirror(k) BY <2>0, <2>3, <2>5, <2>6 DEF Mirror
  <2>8. Gone(k) /\ Owned(k) /\ Bound(k) BY <2>0, <2>3, <2>5, <2>6 DEF Gone, Owned, Bound
  <2>9. Good(m, k) BY <2>5, <2>6, <2>62, <2>7, <2>8 DEF Good, Sound, Later
  <2> QED BY <2>9 DEF k
<1> QED BY <1>1, <1>2

\* A snapshot of a note is stored if it is newer than what is there.
LEMMA NoteWrittenGood ==
    ASSUME NEW m, Sound(m), NEW n \in Notes, NEW version \in Nat, NEW blocks \in SUBSET Block
    PROVE  Good(m, NoteWritten(m, n, version, blocks).mirror)
<1> DEFINE old == n \in m.buried \/ (n \in DOMAIN m.notes /\ version <= m.notes[n].version)
<1>1. CASE old BY <1>1, SameGood DEF NoteWritten, Done
<1>2. CASE ~old
  <2> DEFINE k == NoteWritten(m, n, version, blocks).mirror
             note == [version |-> version, blocks |-> blocks, carried |-> blocks,
                      replaced |-> n \in DOMAIN m.notes]
             notes == With(m.notes, n, note)
  <2>0. Mirror(m) /\ Gone(m) /\ Bound(m) /\ Owned(m) /\ Cites(m) BY DEF Sound
  <2>1. /\ k.books = m.books /\ k.notes = notes /\ k.highlights = m.highlights
        /\ k.digests = m.digests /\ k.links = m.links /\ k.buried = m.buried
        /\ k.staged = m.staged /\ k.promoted = m.promoted /\ k.receipts = m.receipts
        /\ DOMAIN k = DOMAIN m
    BY <1>2, <2>0 DEF NoteWritten, Replaced, Done, Mirror, EmptyMirror
  <2>2. note \in Note /\ note.version = version /\ note.blocks = blocks /\ note.carried = blocks
        /\ note.replaced = (n \in DOMAIN m.notes)
    BY DEF Note
  <2> HIDE DEF note
  <2>3. /\ Table(notes, Notes, Note) /\ DOMAIN notes = DOMAIN m.notes \cup {n}
        /\ notes[n] = note /\ \A i \in DOMAIN m.notes : i # n => notes[i] = m.notes[i]
    BY <2>0, <2>2 DEF Mirror, Table, With
  <2>4. n \in DOMAIN m.notes => m.notes[n].version \in Nat BY <2>0 DEF Mirror, Table, Note
  <2> HIDE DEF notes, k
  <2>5. Forward(m.notes, notes) BY <1>2, <2>2, <2>3, <2>4 DEF Forward, Onward
  <2>6. Mirror(k) BY <2>0, <2>1, <2>3 DEF Mirror
  <2>7. Gone(k) /\ Owned(k) /\ Bound(k) BY <1>2, <2>0, <2>1, <2>3 DEF Gone, Owned, Bound
  <2>8. Cites(k)
    <3>1. \A i : Blocks(k, Linked(k, i)) = Blocks(m, Linked(m, i)) BY <2>1, SameBlocks
    <3>2. n \notin DOMAIN m.notes => Blocks(m, Linked(m, n)) = {}
      <4>1. \A h \in DOMAIN m.highlights : m.highlights[h].note \in DOMAIN m.notes \cup {NoNote}
        BY <2>0 DEF Bound
      <4> QED BY <4>1, MirrorAssumption DEF Blocks, Linked
    <3>3. ASSUME NEW i \in DOMAIN notes
          PROVE  Quoting(notes[i], Blocks(m, Linked(m, i)))
      <4>1. CASE i # n BY <2>0, <2>3, <4>1 DEF Cites, Citing
      <4>2. CASE i = n /\ n \in DOMAIN m.notes BY <2>2, <2>3, <4>2 DEF Quoting
      <4>3. CASE i = n /\ n \notin DOMAIN m.notes BY <2>2, <2>3, <3>2, <4>3 DEF Quoting
      <4> QED BY <4>1, <4>2, <4>3
    <3> QED BY <2>1, <3>1, <3>3 DEF Cites, Citing
  <2>9. Later(m, k) BY <2>1, <2>3, <2>5 DEF Later
  <2>10. Good(m, k) BY <2>6, <2>7, <2>8, <2>9 DEF Good, Sound
  <2> QED BY <2>10 DEF k
<1> QED BY <1>1, <1>2

\* POST and PATCH /notes, with a content.
LEMMA NotePostedGood ==
    ASSUME NEW m, Sound(m), NEW n \in Notes, NEW now \in Nat
    PROVE  Good(m, NotePosted(m, n, now).mirror)
<1> DEFINE version == IF n \in DOMAIN m.notes THEN Larger(now, m.notes[n].version + 1) ELSE now
<1>1. version \in Nat
  <2>1. n \in DOMAIN m.notes => m.notes[n].version \in Nat BY DEF Sound, Mirror, Table, Note
  <2> QED BY <2>1 DEF Larger
<1>2. NotePosted(m, n, now) = IF n \in m.buried THEN Refused(m) ELSE NoteWritten(m, n, version, {})
  BY DEF NotePosted
<1> HIDE DEF version
<1> QED BY <1>1, <1>2, SameGood, NoteWrittenGood DEF Refused

\* PATCH /notes, with a title only.
LEMMA NoteRetitledGood ==
    ASSUME NEW m, Sound(m), NEW n \in Notes, NEW now \in Nat
    PROVE  Good(m, NoteRetitled(m, n, now).mirror)
<1>1. CASE n \notin DOMAIN m.notes BY <1>1, SameGood DEF NoteRetitled, Refused
<1>2. CASE n \in DOMAIN m.notes
  <2> DEFINE k == NoteRetitled(m, n, now).mirror
             version == Larger(now, m.notes[n].version + 1)
             notes == [m.notes EXCEPT ![n].version = version]
  <2>0. Mirror(m) /\ Gone(m) /\ Bound(m) /\ Owned(m) /\ Cites(m) BY DEF Sound
  <2>1. /\ k.books = m.books /\ k.notes = notes /\ k.highlights = m.highlights
        /\ k.digests = m.digests /\ k.links = m.links /\ k.buried = m.buried
        /\ k.staged = m.staged /\ k.promoted = m.promoted /\ k.receipts = m.receipts
        /\ DOMAIN k = DOMAIN m
    BY <1>2, <2>0 DEF NoteRetitled, Done, Mirror, EmptyMirror
  <2>2. m.notes[n] \in Note BY <1>2, <2>0 DEF Mirror, Table
  <2>3. version \in Nat /\ version > m.notes[n].version BY <2>2 DEF Larger, Note
  <2> HIDE DEF version
  <2>4. /\ notes[n] \in Note /\ notes[n].version = version /\ notes[n].blocks = m.notes[n].blocks
        /\ notes[n].carried = m.notes[n].carried /\ notes[n].replaced = m.notes[n].replaced
    BY <1>2, <2>2, <2>3 DEF Note
  <2>5. DOMAIN notes = DOMAIN m.notes /\ \A i \in DOMAIN m.notes : i # n => notes[i] = m.notes[i]
    OBVIOUS
  <2> HIDE DEF notes, k
  <2>6. Table(notes, Notes, Note) BY <2>0, <2>4, <2>5 DEF Mirror, Table
  <2>7. Forward(m.notes, notes) BY <2>3, <2>4, <2>5 DEF Forward, Onward
  <2>8. Mirror(k) BY <2>0, <2>1, <2>6 DEF Mirror
  <2>9. Gone(k) /\ Owned(k) /\ Bound(k) BY <2>0, <2>1, <2>5 DEF Gone, Owned, Bound
  <2>10. Cites(k)
    <3>1. \A i : Blocks(k, Linked(k, i)) = Blocks(m, Linked(m, i)) BY <2>1, SameBlocks
    <3>2. \A i \in DOMAIN notes : Quoting(notes[i], Blocks(m, Linked(m, i)))
      BY <2>0, <2>4, <2>5 DEF Cites, Citing, Quoting
    <3> QED BY <2>1, <3>1, <3>2 DEF Cites, Citing
  <2>11. Good(m, k) BY <2>1, <2>5, <2>7, <2>8, <2>9, <2>10 DEF Good, Sound, Later
  <2> QED BY <2>11 DEF k
<1> QED BY <1>1, <1>2

\* A note goes with the links to it.
LEMMA NoteDeletedGood ==
    ASSUME NEW m, Sound(m), NEW n \in Notes, NEW anyway \in BOOLEAN
    PROVE  LET result == NoteDeleted(m, n, anyway)
           IN  /\ Good(m, result.mirror)
               /\ anyway => n \in result.mirror.buried
<1>1. CASE n \notin DOMAIN m.notes /\ ~anyway BY <1>1, SameGood DEF NoteDeleted, Refused
<1>2. CASE ~(n \notin DOMAIN m.notes /\ ~anyway)
  <2> DEFINE k == NoteDeleted(m, n, anyway).mirror
             bare == {h \in Linked(m, n) : m.highlights[h].bare}
             rest == Without(m.highlights, bare)
             highlights == [h \in DOMAIN rest |->
                              IF rest[h].note = n THEN [rest[h] EXCEPT !.note = NoNote] ELSE rest[h]]
             notes == Without(m.notes, {n})
  <2>0. Mirror(m) /\ Gone(m) /\ Bound(m) /\ Owned(m) /\ Cites(m) BY DEF Sound
  <2>1. /\ k.books = m.books /\ k.notes = notes /\ k.highlights = highlights
        /\ k.digests = m.digests /\ k.links = m.links /\ k.buried = m.buried \cup {n}
        /\ k.staged = m.staged /\ k.promoted = m.promoted /\ k.receipts = m.receipts
        /\ DOMAIN k = DOMAIN m
    BY <1>2, <2>0 DEF NoteDeleted, Done, Mirror, EmptyMirror
  <2>2. /\ Table(notes, Notes, Note) /\ DOMAIN notes = DOMAIN m.notes \ {n}
        /\ \A i \in DOMAIN m.notes \ {n} : notes[i] = m.notes[i]
    BY <2>0 DEF Mirror, Table, Without, Restrict
  <2>3. /\ DOMAIN rest \subseteq DOMAIN m.highlights
        /\ \A h \in DOMAIN rest : rest[h] = m.highlights[h]
        /\ \A h \in DOMAIN m.highlights : m.highlights[h].note # n => h \in DOMAIN rest
    BY DEF Without, Restrict, Linked
  <2> HIDE DEF rest
  <2>4. DOMAIN highlights \subseteq DOMAIN m.highlights /\ DOMAIN highlights = DOMAIN rest BY <2>3
  <2>5. ASSUME NEW h \in DOMAIN highlights
        PROVE  /\ highlights[h] \in Highlight
               /\ highlights[h].book = m.highlights[h].book
               /\ highlights[h].title = m.highlights[h].title
               /\ highlights[h].note \in (DOMAIN m.notes \ {n}) \cup {NoNote}
               /\ highlights[h].note = IF m.highlights[h].note = n THEN NoNote
                                       ELSE m.highlights[h].note
    <3>1. h \in DOMAIN m.highlights /\ rest[h] = m.highlights[h] BY <2>3
    <3>2. m.highlights[h] \in Highlight BY <2>0, <3>1 DEF Mirror, Table
    <3>3. highlights[h] = IF m.highlights[h].note = n THEN [m.highlights[h] EXCEPT !.note = NoNote]
                          ELSE m.highlights[h]
      BY <3>1
    <3>4. m.highlights[h].note \in DOMAIN m.notes \cup {NoNote} BY <2>0, <3>1 DEF Bound
    <3> HIDE DEF highlights
    <3> QED BY <3>2, <3>3, <3>4 DEF Highlight
  <2> HIDE DEF k, notes, highlights
  <2>6. Table(highlights, Highlights, Highlight) BY <2>0, <2>4, <2>5 DEF Mirror, Table
  <2>7. Mirror(k) BY <2>0, <2>1, <2>2, <2>6 DEF Mirror
  <2>8. Gone(k)
    <3>1. \A b \in Books : b # n BY MirrorAssumption
    <3>2. \A b \in DOMAIN m.books : b # n BY <2>0, <3>1 DEF Mirror, Table
    <3>3. \A r \in m.staged : Manifest[r[1]].book # n
      <4>1. \A r \in m.staged : r[1] \in Uploads BY <2>0 DEF Mirror
      <4>2. \A u \in Uploads : Manifest[u].book \in Books BY MirrorAssumption
      <4> QED BY <3>1, <4>1, <4>2
    <3> QED BY <2>0, <2>1, <2>2, <3>2, <3>3 DEF Gone
  <2>9. Owned(k) BY <2>0, <2>1 DEF Owned
  <2>10. Bound(k) BY <2>0, <2>1, <2>2, <2>4, <2>5 DEF Bound
  <2>11. Later(m, k) BY <2>1, <2>2 DEF Later, Forward, Onward
  <2>12. Cites(k)
    <3>1. NoNote \notin DOMAIN m.notes BY <2>0, MirrorAssumption DEF Mirror, Table
    <3>2. ASSUME NEW i \in DOMAIN notes
          PROVE  Blocks(k, Linked(k, i)) = Blocks(m, Linked(m, i))
      <4>1. i # n /\ i # NoNote BY <2>2, <3>1
      <4>2. \A c : c \in Blocks(k, Linked(k, i)) <=> c \in Blocks(m, Linked(m, i))
        BY <2>1, <2>3, <2>4, <2>5, <4>1, LinkedBlocks
      <4> QED BY <4>2
    <3> QED BY <2>0, <2>1, <2>2, <3>2 DEF Cites, Citing
  <2>13. Good(m, k) /\ n \in k.buried BY <2>1, <2>7, <2>8, <2>9, <2>10, <2>11, <2>12 DEF Good, Sound
  <2> QED BY <2>13 DEF k
<1> QED BY <1>1, <1>2

\* An association is created between books that are there, and can go.
LEMMA LinksGood ==
    ASSUME NEW m, Sound(m), NEW l \in Links
    PROVE  /\ Good(m, LinkCreated(m, l).mirror)
           /\ Good(m, [m EXCEPT !.links = @ \ {l}])
<1>0. Mirror(m) /\ Gone(m) /\ Bound(m) /\ Owned(m) /\ Cites(m) BY DEF Sound
<1>1. ASSUME NEW links \in SUBSET Links, \A x \in links : Ends[x] \subseteq DOMAIN m.books
      PROVE  Good(m, [m EXCEPT !.links = links])
  <2> DEFINE k == [m EXCEPT !.links = links]
  <2>1. /\ k.books = m.books /\ k.notes = m.notes /\ k.highlights = m.highlights
        /\ k.digests = m.digests /\ k.links = links /\ k.buried = m.buried
        /\ k.staged = m.staged /\ k.promoted = m.promoted /\ k.receipts = m.receipts
        /\ DOMAIN k = DOMAIN m
    BY <1>0 DEF Mirror, EmptyMirror
  <2> HIDE DEF k
  <2>2. Mirror(k) /\ Gone(k) /\ Owned(k) BY <1>0, <2>1 DEF Mirror, Gone, Owned
  <2>3. Bound(k) BY <1>0, <1>1, <2>1 DEF Bound
  <2>4. Cites(k) BY <1>0, <2>1, SameBlocks DEF Cites, Citing
  <2>5. Good(m, k) BY <2>1, <2>2, <2>3, <2>4 DEF Good, Sound, Later, Forward, Onward
  <2> QED BY <2>5 DEF k
<1>2. Good(m, [m EXCEPT !.links = @ \ {l}]) BY <1>0, <1>1 DEF Mirror, Bound
<1>3. CASE l \in m.links \/ ~(Ends[l] \subseteq DOMAIN m.books)
  BY <1>2, <1>3, SameGood DEF LinkCreated, Done, Failed
<1>4. CASE l \notin m.links /\ Ends[l] \subseteq DOMAIN m.books
  <2>1. LinkCreated(m, l).mirror = [m EXCEPT !.links = m.links \cup {l}] BY <1>4 DEF LinkCreated, Done
  <2>2. m.links \cup {l} \in SUBSET Links BY <1>0 DEF Mirror
  <2>3. \A x \in m.links \cup {l} : Ends[x] \subseteq DOMAIN m.books BY <1>0, <1>4 DEF Bound
  <2> QED BY <1>1, <1>2, <2>1, <2>2, <2>3
<1> QED BY <1>2, <1>3, <1>4
-----------------------------------------------------------------------------
(* What a request does to one highlight and one note.                      *)

\* What a highlight keeps whatever is asked about others.
Alike(new, old) ==
    /\ new.text = old.text /\ new.book = old.book /\ new.bare = old.bare
    /\ new.bare => new.note = old.note

\* Highlight h keeps that, or goes with its book, or with its note if it was only a
\* citation; it does not come.
Aside(m, k, h) ==
    /\ h \in DOMAIN k.highlights =>
          h \in DOMAIN m.highlights /\ Alike(k.highlights[h], m.highlights[h])
    /\ h \in DOMAIN m.highlights \ DOMAIN k.highlights =>
          \/ m.highlights[h].book \in k.buried
          \/ m.highlights[h].bare /\ m.highlights[h].note \in k.buried

\* A book that is written takes no highlight away.
LEMMA ImportedAside ==
    ASSUME NEW m, Mirror(m), NEW b, NEW title, NEW hash, NEW now, NEW h
    PROVE  LET k == Imported(m, b, title, hash, now)
           IN  Aside(m, k, h) /\ DOMAIN k = DOMAIN m /\ "highlights" \in DOMAIN k
<1> DEFINE k == Imported(m, b, title, hash, now)
           after == Retitled(m, b, title)
<1>1. /\ k.highlights \in {after, m.highlights} /\ DOMAIN k = DOMAIN m
      /\ "highlights" \in DOMAIN m
  BY DEF Imported, Mirror, EmptyMirror
<1>2. DOMAIN after = DOMAIN m.highlights
      /\ \A x \in DOMAIN m.highlights : Alike(after[x], m.highlights[x])
  BY DEF Retitled, Mirror, Table, Highlight, Alike
<1> HIDE DEF k, after
<1>3. Aside(m, k, h) BY <1>1, <1>2 DEF Aside, Alike
<1> QED BY <1>1, <1>3 DEF k

\* A request about a book takes highlights away only with the book.
LEMMA BooksAside ==
    ASSUME NEW m, Mirror(m), NEW b \in Books, NEW title, NEW hash, NEW anyway, NEW now, NEW h
    PROVE  /\ Aside(m, BookImported(m, b, title, hash, now).mirror, h)
           /\ Aside(m, BookUpdated(m, b, title, now).mirror, h)
           /\ Aside(m, BookDeleted(m, b, anyway, now).mirror, h)
<1>1. Aside(m, m, h) BY DEF Aside, Alike
<1>2. Aside(m, BookImported(m, b, title, hash, now).mirror, h)
  BY <1>1, ImportedAside DEF BookImported, Refused, Done
<1>3. Aside(m, BookUpdated(m, b, title, now).mirror, h)
  <2> DEFINE k == BookUpdated(m, b, title, now).mirror
             after == Retitled(m, b, title)
  <2>1. CASE b \notin DOMAIN m.books BY <1>1, <2>1 DEF BookUpdated, Failed
  <2>2. CASE b \in DOMAIN m.books
    <3>1. k.highlights = after BY <2>2 DEF BookUpdated, Done, Mirror, EmptyMirror
    <3>2. DOMAIN after = DOMAIN m.highlights
          /\ \A x \in DOMAIN m.highlights : Alike(after[x], m.highlights[x])
      BY DEF Retitled, Mirror, Table, Highlight, Alike
    <3> HIDE DEF k, after
    <3>3. Aside(m, k, h) BY <3>1, <3>2 DEF Aside
    <3> QED BY <3>3 DEF k
  <2> QED BY <2>1, <2>2
<1>4. Aside(m, BookDeleted(m, b, anyway, now).mirror, h)
  <2> DEFINE k == BookDeleted(m, b, anyway, now).mirror
             after == Without(m.highlights, {x \in DOMAIN m.highlights : m.highlights[x].book = b})
  <2>1. k.highlights = m.highlights \/ (k.highlights = after /\ b \in k.buried)
    BY DEF BookDeleted, Done, Refused, Mirror, EmptyMirror
  <2>2. DOMAIN after = {x \in DOMAIN m.highlights : m.highlights[x].book # b}
        /\ \A x \in DOMAIN after : after[x] = m.highlights[x]
    BY DEF Without, Restrict
  <2> HIDE DEF k, after
  <2>3. Aside(m, k, h) BY <2>1, <2>2 DEF Aside, Alike
  <2> QED BY <2>3 DEF k
<1> QED BY <1>2, <1>3, <1>4

\* So does an upload.
LEMMA UploadsAside ==
    ASSUME NEW m, Mirror(m), NEW u, NEW i, NEW now, NEW h
    PROVE  /\ Aside(m, UploadStarted(m, u).mirror, h)
           /\ Aside(m, ChunkPut(m, u, i).mirror, h)
           /\ Aside(m, UploadCompleted(m, u, now).mirror, h)
<1>1. \A k : k.highlights = m.highlights => Aside(m, k, h) BY DEF Aside, Alike
<1>2. UploadStarted(m, u).mirror.highlights = m.highlights
  BY DEF UploadStarted, Done, Refused, Mirror, EmptyMirror
<1>3. ChunkPut(m, u, i).mirror.highlights = m.highlights
  BY DEF ChunkPut, Done, Refused, Mirror, EmptyMirror
<1>4. Aside(m, UploadCompleted(m, u, now).mirror, h)
  <2> DEFINE k == UploadCompleted(m, u, now).mirror
             n == Imported(m, Manifest[u].book, Manifest[u].title, Manifest[u].hash, now)
             chunks == {<<u, j>> : j \in 0 .. Chunks - 1}
  <2>1. Aside(m, n, h) /\ DOMAIN n = DOMAIN m BY ImportedAside
  <2> HIDE DEF n
  <2>2. k = m \/ k = [n EXCEPT !.staged = @ \ chunks, !.promoted = @ \cup {u}]
    BY DEF UploadCompleted, Done, Refused, n
  <2>3. CASE k = m BY <1>1, <2>3
  <2>4. CASE k = [n EXCEPT !.staged = @ \ chunks, !.promoted = @ \cup {u}]
    <3> HIDE DEF k
    <3>1. k.highlights = n.highlights /\ k.buried = n.buried
      BY <2>1, <2>4 DEF Mirror, EmptyMirror
    <3>2. Aside(m, k, h) BY <2>1, <3>1 DEF Aside
    <3> QED BY <3>2 DEF k
  <2> QED BY <2>2, <2>3, <2>4
<1> QED BY <1>1, <1>2, <1>3, <1>4

\* What is stored of a highlight, and of the others.
LEMMA StoredHighlights ==
    ASSUME NEW m, Mirror(m), NEW x, NEW row, NEW now
    PROVE  LET k == Stored(m, x, row, now)
           IN  /\ x \in DOMAIN k.highlights
               /\ k.highlights[x].text = row.text /\ k.highlights[x].book = row.book
               /\ k.highlights[x].note = row.note /\ k.highlights[x].bare = row.bare
               /\ \A h : h # x => Aside(m, k, h)
<1> DEFINE k == Stored(m, x, row, now)
           after == [book |-> row.book, title |-> m.books[row.book].title,
                     text |-> row.text, note |-> row.note, bare |-> row.bare]
           all == With(m.highlights, x, after)
<1>1. k.highlights = all BY DEF Stored, Mirror, EmptyMirror
<1>2. /\ after.text = row.text /\ after.book = row.book
      /\ after.note = row.note /\ after.bare = row.bare
  OBVIOUS
<1> HIDE DEF after
<1>3. DOMAIN all = DOMAIN m.highlights \cup {x} /\ all[x] = after
      /\ \A y \in DOMAIN m.highlights : y # x => all[y] = m.highlights[y]
  BY DEF With
<1> HIDE DEF k, all
<1>4. \A h : h # x => Aside(m, k, h) BY <1>1, <1>3 DEF Aside, Alike
<1> QED BY <1>1, <1>2, <1>3, <1>4 DEF k

\* A highlight is created, or the mirror stays as it is.
LEMMA CreatedHighlights ==
    ASSUME NEW m, Mirror(m), NEW x, NEW row, NEW now
    PROVE  LET result == HighlightCreated(m, x, row, now)
               k == result.mirror
           IN  /\ result.answer = "ok" =>
                     /\ x \in DOMAIN k.highlights
                     /\ k.highlights[x].text = row.text /\ k.highlights[x].book = row.book
                     /\ k.highlights[x].note = row.note /\ k.highlights[x].bare = row.bare
               /\ result.answer # "ok" => k = m
               /\ \A h : h # x => Aside(m, k, h)
<1>1. \A h : Aside(m, m, h) BY DEF Aside, Alike
<1> DEFINE result == HighlightCreated(m, x, row, now)
           n == Stored(m, x, row, now)
<1>2. result = Done(n) \/ result = Refused(m) \/ result = Failed(m) BY DEF HighlightCreated
<1>3. /\ x \in DOMAIN n.highlights
      /\ n.highlights[x].text = row.text /\ n.highlights[x].book = row.book
      /\ n.highlights[x].note = row.note /\ n.highlights[x].bare = row.bare
      /\ \A h : h # x => Aside(m, n, h)
  BY StoredHighlights
<1> HIDE DEF result, n
<1> QED BY <1>1, <1>2, <1>3 DEF Done, Refused, Failed, result

\* A highlight is updated, or the mirror stays as it is.
LEMMA UpdatedHighlights ==
    ASSUME NEW m, Mirror(m), NEW x, NEW patch, NEW now
    PROVE  LET result == HighlightUpdated(m, x, patch, now)
               k == result.mirror
           IN  /\ result.answer = "ok" =>
                     /\ x \in DOMAIN m.highlights /\ x \in DOMAIN k.highlights
                     /\ \A f \in {"book", "text", "note", "bare"} :
                           k.highlights[x][f] = IF f \in DOMAIN patch THEN patch[f]
                                                ELSE m.highlights[x][f]
               /\ result.answer # "ok" => k = m
               /\ \A h : h # x => Aside(m, k, h)
<1>1. \A h : Aside(m, m, h) BY DEF Aside, Alike
<1> DEFINE result == HighlightUpdated(m, x, patch, now)
           row == [f \in DOMAIN m.highlights[x] |->
                     IF f \in DOMAIN patch THEN patch[f] ELSE m.highlights[x][f]]
           n == Stored(m, x, row, now)
<1>2. (x \in DOMAIN m.highlights /\ result = Done(n)) \/ result = Refused(m) \/ result = Failed(m)
  BY DEF HighlightUpdated
<1>3. /\ x \in DOMAIN n.highlights
      /\ n.highlights[x].text = row.text /\ n.highlights[x].book = row.book
      /\ n.highlights[x].note = row.note /\ n.highlights[x].bare = row.bare
      /\ \A h : h # x => Aside(m, n, h)
  BY StoredHighlights
<1>4. x \in DOMAIN m.highlights =>
         \A f \in {"book", "text", "note", "bare"} :
             row[f] = IF f \in DOMAIN patch THEN patch[f] ELSE m.highlights[x][f]
  <2> SUFFICES ASSUME x \in DOMAIN m.highlights, NEW f \in {"book", "text", "note", "bare"}
               PROVE  row[f] = IF f \in DOMAIN patch THEN patch[f] ELSE m.highlights[x][f]
    OBVIOUS
  <2>1. f \in DOMAIN m.highlights[x] BY DEF Mirror, Table, Highlight
  <2> QED BY <2>1
<1> HIDE DEF row
<1>5. x \in DOMAIN m.highlights =>
         \A f \in {"book", "text", "note", "bare"} :
             n.highlights[x][f] = IF f \in DOMAIN patch THEN patch[f] ELSE m.highlights[x][f]
  <2> HIDE DEF n
  <2> QED BY <1>3, <1>4
<1> HIDE DEF result, n
<1> QED BY <1>1, <1>2, <1>3, <1>5 DEF Done, Refused, Failed, result

\* A highlight is deleted, and the others stay.
LEMMA DeletedHighlights ==
    ASSUME NEW m, Mirror(m), NEW x, NEW now
    PROVE  LET k == HighlightDeleted(m, x, now).mirror
           IN  x \notin DOMAIN k.highlights /\ \A h : h # x => Aside(m, k, h)
<1> DEFINE k == HighlightDeleted(m, x, now).mirror
           after == Without(m.highlights, {x})
<1>1. (x \notin DOMAIN m.highlights /\ k = m) \/ k.highlights = after
  BY DEF HighlightDeleted, Done, Mirror, EmptyMirror
<1>2. DOMAIN after = DOMAIN m.highlights \ {x} /\ \A y \in DOMAIN after : after[y] = m.highlights[y]
  BY DEF Without, Restrict
<1> HIDE DEF k, after
<1>3. x \notin DOMAIN k.highlights /\ \A h : h # x => Aside(m, k, h)
  BY <1>1, <1>2 DEF Aside, Alike
<1> QED BY <1>3 DEF k

\* Highlights go with a note only when it is deleted.
LEMMA NotesAside ==
    ASSUME NEW m, Mirror(m), NEW n \in Notes, NEW version, NEW blocks, NEW anyway, NEW now, NEW h
    PROVE  /\ Aside(m, NoteWritten(m, n, version, blocks).mirror, h)
           /\ Aside(m, NotePosted(m, n, now).mirror, h)
           /\ Aside(m, NoteRetitled(m, n, now).mirror, h)
           /\ Aside(m, NoteDeleted(m, n, anyway).mirror, h)
<1>1. \A k : k.highlights = m.highlights => Aside(m, k, h) BY DEF Aside, Alike
<1>2. \A v, c : NoteWritten(m, n, v, c).mirror.highlights = m.highlights
  BY DEF NoteWritten, Replaced, Done, Mirror, EmptyMirror
<1>3. /\ NotePosted(m, n, now).mirror.highlights = m.highlights
      /\ NoteRetitled(m, n, now).mirror.highlights = m.highlights
  BY <1>2 DEF NotePosted, NoteRetitled, Refused, Done, Mirror, EmptyMirror
<1>4. Aside(m, NoteDeleted(m, n, anyway).mirror, h)
  <2> DEFINE k == NoteDeleted(m, n, anyway).mirror
             bare == {x \in Linked(m, n) : m.highlights[x].bare}
             rest == Without(m.highlights, bare)
             after == [x \in DOMAIN rest |->
                         IF rest[x].note = n THEN [rest[x] EXCEPT !.note = NoNote] ELSE rest[x]]
  <2>1. k = m \/ (k.highlights = after /\ n \in k.buried)
    BY DEF NoteDeleted, Done, Refused, Mirror, EmptyMirror
  <2>2. DOMAIN rest = DOMAIN m.highlights \ bare /\ \A x \in DOMAIN rest : rest[x] = m.highlights[x]
    BY DEF Without, Restrict
  <2> HIDE DEF rest
  <2>3. DOMAIN after = DOMAIN rest
        /\ \A x \in DOMAIN rest : Alike(after[x], m.highlights[x])
    <3>1. \A x \in DOMAIN rest : m.highlights[x] \in Highlight BY <2>2 DEF Mirror, Table
    <3>2. \A x \in DOMAIN rest : m.highlights[x].note = n => ~m.highlights[x].bare
      BY <2>2 DEF Linked
    <3> QED BY <2>2, <3>1, <3>2 DEF Highlight, Alike
  <2>31. \A x \in bare : m.highlights[x].bare /\ m.highlights[x].note = n BY DEF Linked
  <2> HIDE DEF k, after, bare
  <2>4. Aside(m, k, h) BY <2>1, <2>2, <2>3, <2>31 DEF Aside, Alike
  <2> QED BY <2>4 DEF k
<1> QED BY <1>1, <1>2, <1>3, <1>4

\* A note that is written is there at least as new, unless it was deleted.
LEMMA WrittenNote ==
    ASSUME NEW m, Mirror(m), NEW n \in Notes, NEW version \in Nat, NEW blocks
    PROVE  LET k == NoteWritten(m, n, version, blocks).mirror
           IN  \/ n \in k.buried
               \/ n \in DOMAIN k.notes /\ k.notes[n].version >= version
<1>1. CASE n \in m.buried BY <1>1 DEF NoteWritten, Done
<1>2. CASE n \in DOMAIN m.notes /\ version <= m.notes[n].version
  <2>1. m.notes[n].version \in Nat BY <1>2 DEF Mirror, Table, Note
  <2> QED BY <1>2, <2>1 DEF NoteWritten, Done
<1>3. CASE ~(n \in m.buried \/ (n \in DOMAIN m.notes /\ version <= m.notes[n].version))
  <2> DEFINE note == [version |-> version, blocks |-> blocks, carried |-> blocks,
                      replaced |-> n \in DOMAIN m.notes]
             k == NoteWritten(m, n, version, blocks).mirror
  <2>1. k.notes = With(m.notes, n, note)
    BY <1>3 DEF NoteWritten, Replaced, Done, Mirror, EmptyMirror
  <2>2. note.version = version OBVIOUS
  <2> HIDE DEF note, k
  <2>3. n \in DOMAIN k.notes /\ k.notes[n] = note BY <2>1 DEF With
  <2> QED BY <2>2, <2>3 DEF k
<1> QED BY <1>1, <1>2, <1>3
=============================================================================
