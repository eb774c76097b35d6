----------------------------- MODULE MCPathOps -----------------------------
(***************************************************************************)
(* A volume for the path routines: a file and a directory, a free MFT      *)
(* record to create into, an unbound name on the volume, one name on       *)
(* another mounted volume and one on no volume.                            *)
(***************************************************************************)
EXTENDS PathOps

MCVolumeOf ==
  [p \in Names |-> CASE p = "sd:/y"  -> "other"
                     [] p = "usb:/x" -> "none"
                     [] OTHER        -> "this"]

MCInitNs ==
  [p \in Names |-> CASE p = "/a" -> "i1"
                     [] p = "/d" -> "i2"
                     [] OTHER    -> NONE]

MCInitKind ==
  [i \in Inodes |-> CASE i = "i1" -> "file"
                      [] i = "i2" -> "dir"
                      [] OTHER    -> "free"]

\* 4 KiB clusters over 1 KiB records, and 512-byte clusters over 1 KiB
\* records: the two signs of delta_bits.
MCGeometries ==
  {[cb |-> 12, mb |-> 10, bmp |-> 1],
   [cb |-> 9,  mb |-> 10, bmp |-> 1]}

\* free_clusters as ntfs_volume_get_free_space leaves it: none, some, and
\* below zero (statvfs clamps it with MAX).
MCFreeClusters == {-1, 0, 3}
=============================================================================
