CONSTANTS
  NumberOfPagesArg = 4
  SectorsPerPageArg = 32
  EndOfPartition = 130
  BytesPerSector = 1
  FREE = FREE
  Junk = Junk
  Vals = {1}
  TickMod = 65536
  InitialCounter = 65531
  MaxAccess = 7
  UIntMod = 65536
  DeviceCanFail = TRUE
  Requests <- MCPageRequests

SPECIFICATION Spec
PROPERTY EvictsLeastRecentlyUsed
