\* A refresh under way while the user logs out; nothing fails.
CONSTANTS
  Client = {d1, d2}
  MaxTokens = 3
  Faults = FALSE
CHECK_DEADLOCK FALSE
SPECIFICATION LogoutSpec
INVARIANT LogoutEndsSession
