CONSTANTS
    book = book
    highlight = highlight
    note = note
    source = source
    studySet = studySet
    review = review
    title = title
    progress = progress
    byDevice = byDevice
    at1 = at1
    at2 = at2
    Replicas = {1, 2}
    Ids = {1, 2}
    Entities = {book, highlight, source, studySet, review}
    Books = {book}
    Keys = {progress, at1, at2}
    Progress = progress
    ByDevice = progress
    Position <- AtDevice
    Reviews = {review}
    Notes = {}
    StudySets = {studySet}
    Sources = {source}
    Owned <- BookOwnsSource
    Referring <- BookInSet
    Companions <- ReviewOfCard
    Reference = progress
    MaxClock = 2
    Mutations <- ClientRequests
SPECIFICATION Spec
INVARIANTS TypeOK Views Convergence ClockCovers LogOnce
PROPERTIES LocalWriteWins NeverBack
