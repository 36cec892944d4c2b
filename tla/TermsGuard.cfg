SPECIFICATION GuardSpec
CONSTANTS
  City = {}
  Version = {v1}
  MaxTerms = 1
  Call = {k1}
  User = {u1}
  None = None
INVARIANT TermsBlock
\* The bound on the rows stops the admins.
CHECK_DEADLOCK FALSE
