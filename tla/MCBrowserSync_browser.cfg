SPECIFICATION FairSpec
CONSTANTS
  book = book
  highlight = highlight
  title = title
  byDevice = byDevice
  at1 = at1
  Replicas = {1, 2}
  Ids = {0, 1, 2, 3}
  Entities = {book, highlight}
  Books = {}
  Keys = {title, byDevice, at1}
  Progress = title
  ByDevice = byDevice
  Position <- NoPosition
  Owned <- BookOwns
  PageSize = 1
  MaxEpochs = 2
  Device = 1
  Tabs = {1, 2}
  Settings <- Various
  EditKeys = {title}
INVARIANTS TypeOK Kept CursorCovered Views Projected
PROPERTIES EditWins Promise Converges
