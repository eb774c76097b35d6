------------------------------ MODULE PathOps ------------------------------
(***************************************************************************)
(* The path routines of libntfs's devoptab (source/ntfsdir.c): stat,       *)
(* lstat, symlink, unlink, rename, mkdir, rmdir and statvfs on one volume. *)
(*                                                                         *)
(* Each routine runs under the volume lock (unlink and rmdir through       *)
(* ntfsUnlink), so each call is one step.  The routines they call          *)
(* (ntfsParseEntry, ntfsStat, ntfsCreate, ntfsLink, ntfsUnlink, in         *)
(* ntfsinternal.c, which is not part of this source) are modelled by their *)
(* contract: they act on the volume's names, fail on a name that is        *)
(* missing (or, for ntfsCreate, present), and may otherwise fail with an   *)
(* I/O error when DeviceCanFail.  Paths resolve in a flat namespace: a     *)
(* name binds an inode or nothing.                                         *)
(***************************************************************************)
EXTENDS Integers, FiniteSets

CONSTANTS
  Names,          \* paths callers pass
  VolumeOf,       \* name -> "this", "other" (another mounted volume), "none"
  Inodes,         \* MFT records that may hold an entry
  InitNs,         \* name -> inode or NONE at mount
  InitKind,       \* inode -> "free", "file", "dir" or "symlink" at mount
  DeviceCanFail,  \* whether ntfsinternal's calls may fail on a good argument
  Geometries,     \* the volumes that may be mounted: cluster_size_bits cb,
                  \* mft_record_size_bits mb, MFT bitmap bytes bmp
  FreeClusters,   \* values ntfs_volume_get_free_space may leave in free_clusters
  NONE

ASSUME VolumeOf \in [Names -> {"this", "other", "none"}]
ASSUME InitNs \in [Names -> Inodes \cup {NONE}]
ASSUME InitKind \in [Inodes -> {"free", "file", "dir", "symlink"}]
ASSUME \A g \in Geometries : Cardinality(Inodes) <= g.bmp * 8

VARIABLES
  ns,       \* name -> the inode its directory entry links, or NONE
  kind,     \* inode -> "free" or the type of the record
  result,   \* return value of the last call
  last,     \* the last call: <<routine, path, path>>
  vol,      \* the geometry of the mounted volume
  vfs       \* the caller's struct statvfs, as the last statvfs left it

vars == <<ns, kind, result, last, vol, vfs>>

Outcomes == IF DeviceCanFail THEN BOOLEAN ELSE {TRUE}

Bound(nm, p) == nm[p] # NONE

\* The volume's state after a call of ntfsinternal, or its failure.
State(ok, nm, k) == [ok |-> ok, ns |-> nm, kind |-> k]

\* ntfsUnlink(vd, path, type): the entry removed, its record freed with its
\* last name.  Fails (ENOENT) on a missing name, or on an I/O error.
UnlinkResults(s, p) ==
  IF ~Bound(s.ns, p) THEN {State(FALSE, s.ns, s.kind)}
  ELSE {IF ok
        THEN LET nm == [s.ns EXCEPT ![p] = NONE]
                 i  == s.ns[p]
             IN State(TRUE, nm, IF \E q \in Names : nm[q] = i
                                THEN s.kind ELSE [s.kind EXCEPT ![i] = "free"])
        ELSE State(FALSE, s.ns, s.kind) : ok \in Outcomes}

\* ntfsLink(vd, old, new): new made a second name of old's record.
LinkResults(s, o, n) ==
  IF ~Bound(s.ns, o) \/ Bound(s.ns, n) THEN {State(FALSE, s.ns, s.kind)}
  ELSE {State(ok, IF ok THEN [s.ns EXCEPT ![n] = s.ns[o]] ELSE s.ns, s.kind)
          : ok \in Outcomes}

\* ntfsCreate(vd, path, type, target): a free record of the type named by
\* path.  Fails (EEXIST) on a bound name, on a full MFT, on an I/O error.
CreateResults(s, p, t) ==
  LET free == {i \in Inodes : s.kind[i] = "free"}
  IN IF Bound(s.ns, p) \/ free = {} THEN {State(FALSE, s.ns, s.kind)}
     ELSE {State(TRUE, [s.ns EXCEPT ![p] = i], [s.kind EXCEPT ![i] = t]) : i \in free}
          \cup (IF DeviceCanFail THEN {State(FALSE, s.ns, s.kind)} ELSE {})

\* ntfsParseEntry(vd, path, reparse) finds the record; with reparse = 1 a
\* symbolic link is followed to a target that may be missing.
Parses(p, reparse) ==
  IF ~Bound(ns, p) THEN {FALSE}
  ELSE IF reparse /\ kind[ns[p]] = "symlink" THEN BOOLEAN ELSE {TRUE}

Now == State(TRUE, ns, kind)

Settle(s, r) ==
  /\ ns' = s.ns
  /\ kind' = s.kind
  /\ result' = r

-----------------------------------------------------------------------------
(* ntfs_stat_r (reparse = 1) and ntfs_lstat_r (reparse = 0), with a       *)
(* buffer (st # NULL): ENODEV, ENOENT; then ntfsStat, whose failure only   *)
(* sets errno before the entry is closed and 0 returned: the result does   *)
(* not depend on it, and the struct stat it fills is data.                 *)
StatR(p, reparse) ==
  /\ last' = <<IF reparse THEN "stat" ELSE "lstat", p, p>>
  /\ UNCHANGED <<ns, kind>>
  /\ \/ /\ VolumeOf[p] = "none"
        /\ result' = -1
     \/ /\ VolumeOf[p] = "this"
        /\ \E found \in Parses(p, reparse) : result' = IF found THEN 0 ELSE -1

\* ntfs_lstat_r: ntfs_stat_r with ntfsParseEntry's reparse = 0.
LstatR(p) == StatR(p, FALSE)

\* The "!st" short cut of stat and lstat: 0 for any path of a volume.
StatNullR(p) ==
  /\ VolumeOf[p] = "this"
  /\ result' = 0
  /\ last' = <<"stat", p, p>>
  /\ UNCHANGED <<ns, kind>>

\* ntfs_symlink_r and ntfs_mkdir_r: ntfsCreate, then close the new entry.
CreateR(p, t) ==
  /\ last' = <<IF t = "dir" THEN "mkdir" ELSE "symlink", p, p>>
  /\ \/ /\ VolumeOf[p] = "none"
        /\ Settle(Now, -1)
     \/ /\ VolumeOf[p] = "this"
        /\ \E s \in CreateResults(Now, p, t) : Settle(s, IF s.ok THEN 0 ELSE -1)

\* ntfs_mkdir_r: ntfsCreate of type S_IFDIR (mode ignored), then close.
MkdirR(p) == CreateR(p, "dir")

\* ntfs_unlink_r (type S_IFLNK) and ntfs_rmdir_r (type S_IFDIR): the result
\* of ntfsUnlink, which does not tell the types apart beyond its contract.
UnlinkR(p, routine) ==
  /\ last' = <<routine, p, p>>
  /\ \/ /\ VolumeOf[p] = "none"
        /\ Settle(Now, -1)
     \/ /\ VolumeOf[p] = "this"
        /\ \E s \in UnlinkResults(Now, p) : Settle(s, IF s.ok THEN 0 ELSE -1)

\* ntfs_rmdir_r: ntfsUnlink of type S_IFDIR, its result returned.
RmdirR(p) == UnlinkR(p, "rmdir")

\* Mutant: the rollback unlink of the new name runs whether or not the
\* unlink of the old name failed.
RenameRollbackAlways(o, n) ==
  UNION {IF ~l.ok THEN {[s |-> l, ret |-> -1]}
         ELSE UNION {{[s |-> r, ret |-> IF u.ok /\ r.ok THEN 0 ELSE -1]
                        : r \in UnlinkResults(u, n)}
                     : u \in UnlinkResults(l, o)}
         : l \in LinkResults(Now, o, n)}

\* The steps of ntfs_rename_r after its checks: link the new name, unlink
\* the old one, and when that fails unlink the new one again; the possible
\* volumes and results.
RenameSteps(o, n) ==
  UNION {IF ~l.ok THEN {[s |-> l, ret |-> -1]}
         ELSE UNION {IF u.ok THEN {[s |-> u, ret |-> 0]}
                     ELSE {[s |-> r, ret |-> -1] : r \in UnlinkResults(u, n)}
                     : u \in UnlinkResults(l, o)}
         : l \in LinkResults(Now, o, n)}

\* ntfs_rename_r: ENODEV, EXDEV, EEXIST (new name opens), then the steps.
RenameR(o, n) ==
  /\ last' = <<"rename", o, n>>
  /\ \/ /\ VolumeOf[o] = "none"
        /\ Settle(Now, -1)
     \/ /\ VolumeOf[o] = "this"
        /\ VolumeOf[n] # "this" \/ Bound(ns, n)
        /\ Settle(Now, -1)
     \/ /\ VolumeOf[o] = "this" /\ VolumeOf[n] = "this" /\ ~Bound(ns, n)
        /\ \E x \in RenameSteps(o, n) : Settle(x.s, x.ret)

\* Mutant: the shifts the wrong way round.
ShiftedSwapped(size, delta) ==
  IF delta >= 0 THEN size \div 2^delta ELSE size * 2^(-delta)

\* size <<= delta_bits, or size >>= -delta_bits, on a size >= 0.
Shifted(size, delta) ==
  IF delta >= 0 THEN size * 2^delta ELSE size \div 2^(-delta)

NoStatvfs == [bfree |-> 0, files |-> 0, ffree |-> 0]

\* ntfs_statvfs_r: ENODEV; 0 with no buffer; the buffer zeroed, then EIO
\* when ntfs_volume_get_free_space fails; otherwise the counts, from the
\* free clusters and the free MFT records it found.
StatvfsR(p, buf) ==
  /\ last' = <<IF buf THEN "statvfs" ELSE "statvfs-nobuf", p, p>>
  /\ UNCHANGED <<ns, kind, vol>>
  /\ \/ /\ VolumeOf[p] = "none"
        /\ result' = -1
        /\ UNCHANGED vfs
     \/ /\ VolumeOf[p] = "this" /\ ~buf
        /\ result' = 0
        /\ UNCHANGED vfs
     \/ /\ VolumeOf[p] = "this" /\ buf /\ DeviceCanFail
        /\ result' = -1
        /\ vfs' = NoStatvfs
     \/ /\ VolumeOf[p] = "this" /\ buf
        /\ result' = 0
        /\ \E fc \in FreeClusters :
             LET freeMft == Cardinality({i \in Inodes : kind[i] = "free"})
                 size0   == IF fc > 0 THEN fc ELSE 0
                 size    == Shifted(size0, vol.cb - vol.mb)
             IN vfs' = [bfree  |-> size0,
                        files  |-> vol.bmp * 8 + size,
                        ffree  |-> IF size + freeMft > 0 THEN size + freeMft ELSE 0]

-----------------------------------------------------------------------------
Init ==
  /\ ns = InitNs
  /\ kind = InitKind
  /\ result = 0
  /\ last = <<"mount", CHOOSE p \in Names : TRUE, CHOOSE p \in Names : TRUE>>
  /\ vol \in Geometries
  /\ vfs = NoStatvfs

Next ==
  \/ /\ \/ \E p \in Names : \/ StatR(p, TRUE) \/ LstatR(p) \/ StatNullR(p)
                            \/ CreateR(p, "symlink") \/ MkdirR(p)
                            \/ UnlinkR(p, "unlink") \/ RmdirR(p)
        \/ \E o, n \in Names : RenameR(o, n)
     /\ UNCHANGED <<vol, vfs>>
  \/ \E p \in Names, buf \in BOOLEAN : StatvfsR(p, buf)

Spec == Init /\ [][Next]_vars

-----------------------------------------------------------------------------
\* Steps of rename: the record of the old name is never lost, whichever of
\* ntfsLink, ntfsUnlink of the old name and the rollback ntfsUnlink of the
\* new name fail, and a rename that returns 0 leaves it under the new name
\* only.
RenameNeverLosesFile ==
  [][LET o == last'[2]
         n == last'[3]
     IN last'[1] = "rename" /\ ns[o] # NONE =>
          /\ \E q \in {o, n} : ns'[q] = ns[o]
          /\ result' = 0 => ns'[n] = ns[o] /\ ns'[o] = NONE]_vars

\* What a statvfs that returns 0 reports: free inodes are the free MFT
\* records plus the records the free clusters would hold (free cluster
\* bytes over the record size, whichever of the two is larger), and the
\* inodes in total are the MFT bitmap's records plus those same records.
StatvfsCountsRecords ==
  [][last'[1] = "statvfs" /\ result' = 0 =>
       LET inClusters == (vfs'.bfree * 2^vol.cb) \div 2^vol.mb
           freeMft    == Cardinality({i \in Inodes : kind[i] = "free"})
       IN /\ vfs'.ffree = inClusters + freeMft
          /\ vfs'.files = vol.bmp * 8 + inClusters]_vars
=============================================================================
