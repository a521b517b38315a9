SPECIFICATION FairSpec
CONSTANTS
  User = {u1, u2, u3, u4}
  NoUser = NoUser
  MaxConcurrency = 3
INVARIANTS
  TypeOK
  WriterExclusion
  ReadersCounted
  SlotsConserved
  NoLostWakeup
PROPERTY SingleDeleterTermination
