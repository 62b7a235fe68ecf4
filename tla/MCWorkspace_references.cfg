CONSTANTS
    book = book
    highlight = highlight
    note = note
    source = source
    studySet = studySet
    review = review
    title = title
    progress = progress
    byDevice = byDevice
    at1 = at1
    at2 = at2
    Replicas = {1, 2}
    Ids = {1, 2, 3, 4, 5}
    Entities = {book, highlight, note}
    Books = {}
    Keys = {title, at1}
    Progress = title
    ByDevice = title
    Position <- NoPosition
    Reviews = {}
    Notes = {note}
    StudySets = {}
    Sources = {}
    Owned <- BookOwns
    Referring <- NoteOfHighlight
    Companions <- CitedInNote
    Reference = title
    MaxClock = 4
    Mutations = {}
SPECIFICATION StartedSpec
INVARIANTS Views Convergence ClockCovers
