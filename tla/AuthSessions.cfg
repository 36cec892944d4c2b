\* Three tabs or devices, every handler and every fault: a sign-in and two
\* refreshes of its one token.  The bound on tokens ends a behaviour, and no
\* user has to sign in again.
CONSTANTS
  d1 = d1
  d2 = d2
  d3 = d3
  Client = {d1, d2, d3}
  MaxTokens = 3
  Faults = TRUE
  None = None
  Call = {"k1", "k2"}
  \* A guest's device, two addresses: both may be asked for at once.
  User = {"u1", "u2"}
  Phone = {"d"}
  Mail = {"m1", "m2"}
  Password = {"p1", "p2"}
  Plain = "plain"
  Staff = {"u"}
  City = {"capital", "suburb"}
  \* The route asks about the quarter, which lies in the suburb of the capital.
  Region = {"capital", "suburb", "quarter"}
  Parent <- ParentOf
  Offices = {"capital", "suburb"}
  Asked = {"quarter"}
  Holders = {"CITY_ADMIN"}
  CheckCall = {"k"}
  TTL = 1
  CheckTime = 1
  Place = {"c"}
  Version = {"v"}
  MaxTerms = 2
  Device = {"d1", "d2"}
  AccountRole = {"CITY_ADMIN", "CITIZEN"}
  Route = {"city"}
  AccessLife = 1
  RefreshLife = 2
  KeyLife = 2
  RememberLife = 3
  SignInTime = 0
CHECK_DEADLOCK FALSE
SYMMETRY Devices
SPECIFICATION MCSpec
INVARIANTS AllTypeOK NoHiddenSession LiveTokenIsHeld ConversionStands OneLatest
PROPERTIES SignedOutStaysOut RightsFollow
