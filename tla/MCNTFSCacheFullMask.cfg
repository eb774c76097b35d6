CONSTANTS
  NumberOfPagesArg = 4
  SectorsPerPageArg = 64
  EndOfPartition = 258
  BytesPerSector = 1
  FREE = FREE
  Junk = Junk
  Vals = {1}
  TickMod = 65536
  InitialCounter = 0
  MaxAccess = 5
  UIntMod = 65536
  DeviceCanFail = TRUE
  Requests <- MCFullMaskRequests

SPECIFICATION Spec
INVARIANT CleanSectorsMatchDisc
