\* Two syncs that may overlap and two items that may share a title.
CONSTANTS
  Sync = {s1, s2}
  Item = {i1, i2}
  Title = {t1, t2}
  Version = {v1, v2}
  Timed = {v1}
  Untold = {}
  Root = root
  NoRow = NoRow
  MaxEdits = 1
  MaxFaults = 1
  v1 = v1
  t1 = t1
  s1 = s1
SPECIFICATION MCFairSpec
ACTION_CONSTRAINT SmallSteps
INVARIANTS
  TypeOK
  OneListingPerItem
  NoErrorMeansListed
PROPERTIES
  UndisturbedUpdateIsWhole
  SyncEnds
\* A sync runs once, and one whose call core has lost waits for ever.
CHECK_DEADLOCK FALSE
