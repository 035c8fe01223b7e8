SPECIFICATION FairSpec
CONSTANTS
  Threads = {t1, t2}
  Devices <- MCDevices
  Vendor = 21324
  Product = 1
  Ids = {s1, s2, s3}
  MaxCalls = 3
  NoThread = NoThread
  NoSession = NoSession
  Idle = Idle
  NoResult = NoResult
  Thrown = Thrown
INVARIANTS
  TypeOK
  NoLockLeaked
PROPERTIES
  ClosedByItsOwner
  IsAtomic
  CallsEnd
