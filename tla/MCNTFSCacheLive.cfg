CONSTANTS
  NumberOfPagesArg = 4
  SectorsPerPageArg = 32
  EndOfPartition = 130
  BytesPerSector = 1
  FREE = FREE
  Junk = Junk
  Vals = {1}
  TickMod = 16
  InitialCounter = 0
  MaxAccess = 6
  UIntMod = 65536
  DeviceCanFail = FALSE
  Requests <- MCLiveRequests

SPECIFICATION Spec
PROPERTY CallsReturn
