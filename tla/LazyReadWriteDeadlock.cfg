SPECIFICATION FairSpec
CONSTANTS
  User = {u1, u2, u3}
  NoUser = NoUser
  MaxConcurrency = 3
PROPERTY NoDeadlock
CHECK_DEADLOCK FALSE
