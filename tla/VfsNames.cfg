SPECIFICATION Spec
CONSTANTS
  Path <- MCPath
  Bucket = {1, 2}
  Hash <- MCHash
  MaxServers = 2
  Capacity = 3
  MaxEntries = 3
  MaxAdvertised = 2
  MaxFiles = 1
VIEW UpToAddresses
INVARIANTS
  TypeOK
  CacheIsSound
PROPERTIES
  NameDirectory
CHECK_DEADLOCK FALSE
