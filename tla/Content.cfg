CONSTANTS
  None = None
  \* One listing, its author and one moderator in two verdicts at once.
  Listing = {"l1"}
  Author = {"a1"}
  Admin = {"m1"}
  Text = {"x1", "x2"}
  Place = {"c1"}
  Call = {"k1", "k2"}
  Owner = {"o1"}
  MediaId = {"m1", "m2"}
  Size = {5, 6}
  MaxFiles = 1
  MaxTime = 1
  Bucket = "bucket"
  VirtualHosted = FALSE
  Category = {"c1", "c2", "c3"}
  Base = {"b"}
  MaxSuffix = 1
  Offerable = {"c1", "c2"}
  Town = {"x"}
  CityAdmin = {"a"}
  Manages <- AllManage
  Name = {"n"}
  Request = {"r1", "r2"}
  Tile = {"t1"}
  City = {"x", "y"}
  Manageable <- AnyCities
  \* Two edits and the import, with ids for all they write.
  Filing = {9}
  Edit = {"e1", "e2"}
  Import = "import"
  MaxId = 5
  Body <- Bodies
  User = {"u1", "u2"}
  Site = {"s1", "s2"}
  Report <- Reports
  Provider = "MOBILITHEK_PARKING"
  Sync = {"y1", "y2"}
  MaxNews = 1
  MaxFaults = 1
  Metadata <- Looks
  TTL = 1
  Slow = 1
SPECIFICATION Spec
CONSTRAINT NoneByHand
INVARIANTS
  TypeOK
  ListingsStand
  RowsTell
PROPERTIES
  CatalogueHolds
\* Ids are limited and may all be in use when the last request ends.
CHECK_DEADLOCK FALSE
