CONSTANTS
  NumberOfPagesArg = 4
  SectorsPerPageArg = 32
  EndOfPartition = 130
  BytesPerSector = 1
  FREE = FREE
  Junk = Junk
  Vals = {1}
  TickMod = 65536
  InitialCounter = 0
  MaxAccess = 5
  UIntMod = 65536
  DeviceCanFail = TRUE
  Requests <- MCBulkRequests

SPECIFICATION Spec
INVARIANT ReadsSeeLogicalContent
