CONSTANTS
  Names = {"/a", "/d", "/n", "sd:/y", "usb:/x"}
  Inodes = {"i1", "i2", "i3"}
  VolumeOf <- MCVolumeOf
  InitNs <- MCInitNs
  InitKind <- MCInitKind
  DeviceCanFail = TRUE
  Geometries <- MCGeometries
  FreeClusters <- MCFreeClusters
  NONE = NONE

SPECIFICATION Spec
PROPERTY RenameNeverLosesFile StatvfsCountsRecords
