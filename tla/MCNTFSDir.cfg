CONSTANTS
  Handles = {h1, h2, h3}
  Paths = {"/d", "/e", "/f", "/m", "usb:/x"}
  Kind <- MCKind
  Listing <- MCListing
  ReaddirCanFail = TRUE
  NULL = NULL

SYMMETRY MCSymmetry
SPECIFICATION Spec
INVARIANT TypeOK
INVARIANT OpenDirListWellFormed
INVARIANT InodesBalanced
