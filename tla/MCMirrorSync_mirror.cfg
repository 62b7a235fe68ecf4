SPECIFICATION FairSpec
CONSTANTS
  b1 = b1
  b2 = b2
  h1 = h1
  h2 = h2
  n1 = n1
  n2 = n2
  l1 = l1
  u1 = u1
  u2 = u2
  former = former
  later = later
  x = x
  y = y
  Books = {b1, b2}
  Highlights = {h1}
  Notes = {n1, n2}
  Links = {l1}
  Uploads = {u1, u2}
  Ends <- LinkEnds
  Titles = {former, later}
  Hashes = {x, y}
  Manifest <- Manifests
  Chunks = 1
  NoNote = NoNote
  Tabs = {1, 2}
  MaxAttempts = 2
  Described = {u2}
  Settings <- Various
INVARIANTS TypeOK Buried Titled Cited DigestsOwned InStep 
PROPERTIES NotesForward Drains
CHECK_DEADLOCK FALSE
