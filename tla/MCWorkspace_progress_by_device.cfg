CONSTANTS
    book = book
    highlight = highlight
    note = note
    source = source
    studySet = studySet
    review = review
    title = title
    progress = progress
    byDevice = byDevice
    at1 = at1
    at2 = at2
    Replicas = {1, 2}
    Ids = {1, 2}
    Entities = {book}
    Books = {book}
    Keys = {progress, byDevice, at1, at2}
    Progress = progress
    ByDevice = byDevice
    Position <- AtDevice
    Reviews = {}
    Notes = {}
    StudySets = {}
    Sources = {}
    Owned <- Nothing
    Referring <- Nothing
    Companions <- Nothing
    Reference = progress
    MaxClock = 2
    Mutations = {}
SPECIFICATION Spec
INVARIANTS PositionShown
