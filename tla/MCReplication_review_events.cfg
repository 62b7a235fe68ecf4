CONSTANTS
    book = book
    review = review
    title = title
    position = position
    Replicas = {1, 2}
    Ids = {1, 2}
    Entities = {book, review}
    Books = {}
    Keys = {title, position}
    Progress = title
    ByDevice = title
    Position <- NoPosition
    Reviews = {review}
    Notes = {}
    StudySets = {}
    Sources = {}
    Owned <- Nothing
    Referring <- Nothing
    Companions <- Nothing
    Reference = title
    MaxClock = 2
    Mutations = {}
    Peers <- ClientServer
    PageSize = 1
    MaxPages = 2
    MaxFaults = 0
    MaxRestores <- NoRestore
SPECIFICATION FairSpec
PROPERTIES EventuallyConsistent
