\* One listing, one request at a time for one further file.
CONSTANTS
  Owner = {o1}
  MediaId = {m1}
  Call = {k1}
  Size = {5, 6}
  MaxFiles = 1
  MaxTime = 1
  Bucket = bucket
  VirtualHosted = TRUE
  None = None
SPECIFICATION Spec
INVARIANT DeletedMediaIsGone
\* Every file id may be in use when a request ends.
CHECK_DEADLOCK FALSE
