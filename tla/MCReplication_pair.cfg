CONSTANTS
    book = book
    review = review
    title = title
    position = position
    Replicas = {1, 2}
    Ids = {1, 2, 3}
    Entities = {book}
    Books = {}
    Keys = {title, position}
    Progress = title
    ByDevice = title
    Position <- NoPosition
    Reviews = {}
    Notes = {}
    StudySets = {}
    Sources = {}
    Owned <- Nothing
    Referring <- Nothing
    Companions <- Nothing
    Reference = title
    MaxClock = 2
    Mutations = {}
    Peers <- ClientServer
    PageSize = 1
    MaxPages = 2
    MaxFaults = 1
    MaxRestores <- NoRestore
SPECIFICATION Spec
INVARIANTS SendDelivered ReceiveAbsorbed HistoryLogged
PROPERTIES OnlyRestoresGoBack Promise
