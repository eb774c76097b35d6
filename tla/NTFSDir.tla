------------------------------ MODULE NTFSDir ------------------------------
(***************************************************************************)
(* The directory routines of libntfs (source/ntfsdir.c) on one volume:     *)
(* the per-volume doubly linked FILO list of open directories with its     *)
(* count, the iterator state of each open directory, the current working   *)
(* directory, and the inode handles these hold.                            *)
(*                                                                         *)
(* Every routine runs under the volume lock, so each call is one step.     *)
(* Handles are the DIR_ITER objects newlib allocates at opendir and frees  *)
(* at closedir or when diropen_r fails.  ntfsOpenEntry and ntfs_readdir    *)
(* live outside this source: an entry opens when its path names a record  *)
(* of the volume, and ntfs_readdir fails on a record that is not a         *)
(* directory (and, when ReaddirCanFail, when the filler cannot allocate).  *)
(***************************************************************************)
EXTENDS Integers, Sequences, FiniteSets

CONSTANTS
  Handles,         \* DIR_ITER objects callers may hold
  Paths,           \* paths callers pass
  Kind,            \* path -> "dir", "file", "missing" (no record), "nodev" (no volume)
  Listing,         \* path -> the entries ntfs_readdir passes to the filler, in order
  ReaddirCanFail,  \* whether the filler's allocation or name conversion may fail
  NULL

ASSUME Kind \in [Paths -> {"dir", "file", "missing", "nodev"}]
ASSUME NULL \notin Handles \cup Paths

\* MFT record flags: in use, and is-a-directory.
MFT_RECORD_IN_USE       == 1
MFT_RECORD_IS_DIRECTORY == 2
Flags(p) == IF Kind[p] = "dir" THEN MFT_RECORD_IN_USE + MFT_RECORD_IS_DIRECTORY
            ELSE MFT_RECORD_IN_USE

VARIABLES
  dir,           \* handle -> ntfs_dir_state (vd, ni, first, current, prev, next)
  handle,        \* handle -> "free" or "open" (newlib's allocation of the DIR_ITER)
  firstOpenDir,  \* vd->firstOpenDir
  openDirCount,  \* vd->openDirCount
  cwd,           \* vd->cwd_ni
  held,          \* path -> inode handles opened by ntfsOpenEntry and not closed
  result         \* return value of the last call: 0, or -1 (NULL for diropen)

vars == <<dir, handle, firstOpenDir, openDirCount, cwd, held, result>>

Opens(p) == Kind[p] \in {"dir", "file"}

-----------------------------------------------------------------------------
\* ntfs_readdir_filler: DOS names are skipped, the others appended in order.
Visible(p) ==
  LET named == SelectSeq(Listing[p], LAMBDA e : ~e.dos)
  IN [i \in 1 .. Len(named) |-> named[i].name]

\* The test !(ni->mrec->flags && MFT_RECORD_IS_DIRECTORY) of chdir and
\* diropen: a logical and of the flags word and a non-zero constant.
IsDirectoryTest(flags) == flags # 0 /\ MFT_RECORD_IS_DIRECTORY # 0

\* The "!dir->current" check of dirnext: an entry is waiting to be fetched.
Fetchable(d) == d.current <= Len(d.first)

\* ntfsOpenEntry and ntfsCloseEntry: an inode handle of path p taken and
\* given back.
OpenEntry(h, p)  == [h EXCEPT ![p] = @ + 1]
CloseEntry(h, p) == [h EXCEPT ![p] = @ - 1]

\* ntfsCloseEntry of the old cwd_ni in chdir.
ReleaseCwd(h) == IF cwd = NULL THEN h ELSE CloseEntry(h, cwd)

\* diropen's ENOTDIR exit: the entry ntfsOpenEntry opened is closed.
NotDirectoryExit(h, p) == CloseEntry(OpenEntry(h, p), p)

\* Mutant: ntfsCloseDir on diropen's failed ntfs_readdir does not close ni.
ReaddirFailedLeaks(h, p) == OpenEntry(h, p)

\* diropen's exit when ntfs_readdir fails: ntfsCloseDir frees the partial
\* entry list and closes the entry ntfsOpenEntry opened.
ReaddirFailedExit(h, p) == CloseEntry(OpenEntry(h, p), p)

\* Mutant: ntfsCloseDir leaves dir->current set.
CloseDirKeepsCurrent(d) == [d EXCEPT !.first = <<>>, !.ni = NULL]

\* ntfsCloseDir: the entry list freed, the entry closed (by the caller of
\* this operator), ni, first and current cleared; vd is left set.
CloseDir(d) == [d EXCEPT !.first = <<>>, !.current = 1, !.ni = NULL]

\* Mutant: the successor's prevOpenDir not updated.
UnlinkNoPrev(x) ==
  LET n  == dir[x].next
      pr == dir[x].prev
      d2 == IF pr # NULL THEN [dir EXCEPT ![pr].next = n] ELSE dir
  IN [dir |-> d2, first |-> IF pr # NULL THEN firstOpenDir ELSE n]

\* Removal of handle x from the open-directory list in dirclose, as the new
\* dir function and firstOpenDir.
Unlink(x) ==
  LET n  == dir[x].next
      pr == dir[x].prev
      d1 == IF n # NULL THEN [dir EXCEPT ![n].prev = pr] ELSE dir
      d2 == IF pr # NULL THEN [d1 EXCEPT ![pr].next = n] ELSE d1
  IN [dir |-> d2, first |-> IF pr # NULL THEN firstOpenDir ELSE n]

\* Insertion of handle x, in state d, at the head of the list in diropen.
Link(x, d) ==
  LET linked == [dir EXCEPT ![x] = d]
  IN IF firstOpenDir = NULL THEN linked
     ELSE [linked EXCEPT ![firstOpenDir].prev = x]

\* Results of ntfs_readdir on the entry: a record that is not a directory
\* fails (ENOTDIR); a directory fails when the filler cannot allocate.
ReaddirResults(p) ==
  IF Kind[p] # "dir" THEN {FALSE}
  ELSE IF ReaddirCanFail THEN BOOLEAN ELSE {TRUE}

Fail == result' = -1

-----------------------------------------------------------------------------
(* ntfs_diropen_r.  ENODEV and ENOENT return before ntfsOpenEntry;       *)
(* ENOTDIR and the failure of ntfs_readdir return after it and close the  *)
(* entry again.  The handle's fields written on the way are garbage once  *)
(* newlib frees the handle.                                                *)
DiropenR(x, p) ==
  /\ handle[x] = "free"
  /\ \/ /\ ~Opens(p) \/ ~IsDirectoryTest(Flags(p))
        /\ held' = IF Opens(p) THEN NotDirectoryExit(held, p) ELSE held
        /\ Fail
        /\ UNCHANGED <<dir, handle, firstOpenDir, openDirCount, cwd>>
     \/ /\ Opens(p) /\ IsDirectoryTest(Flags(p))
        /\ \E ok \in ReaddirResults(p) :
             IF ~ok
             THEN /\ held' = ReaddirFailedExit(held, p)
                  /\ Fail
                  /\ UNCHANGED <<dir, handle, firstOpenDir, openDirCount, cwd>>
             ELSE /\ dir' = Link(x, [vd |-> TRUE, ni |-> p, first |-> Visible(p),
                                     current |-> 1, prev |-> NULL,
                                     next |-> firstOpenDir])
                  /\ firstOpenDir' = x
                  /\ openDirCount' = openDirCount + 1
                  /\ held' = OpenEntry(held, p)
                  /\ handle' = [handle EXCEPT ![x] = "open"]
                  /\ result' = 0
                  /\ UNCHANGED cwd

\* ntfs_dirreset_r: back to the first entry.
DirresetR(x) ==
  /\ handle[x] = "open"
  /\ dir[x].vd /\ dir[x].ni # NULL
  /\ dir' = [dir EXCEPT ![x].current = 1]
  /\ result' = 0
  /\ UNCHANGED <<handle, firstOpenDir, openDirCount, cwd, held>>

\* ntfs_dirnext_r: fetch the current entry and move on, or ENOENT.
DirnextR(x) ==
  /\ handle[x] = "open"
  /\ dir[x].vd /\ dir[x].ni # NULL
  /\ IF Fetchable(dir[x])
     THEN /\ dir' = [dir EXCEPT ![x].current = @ + 1]
          /\ result' = 0
     ELSE /\ Fail
          /\ UNCHANGED dir
  /\ UNCHANGED <<handle, firstOpenDir, openDirCount, cwd, held>>

\* ntfs_dirclose_r: ntfsCloseDir (entries freed, entry closed, ni cleared),
\* then removal from the list; closedir then frees the handle.
DircloseR(x) ==
  /\ handle[x] = "open"
  /\ dir[x].vd
  /\ LET u == Unlink(x)
     IN /\ dir' = [u.dir EXCEPT ![x] = CloseDir(@)]
        /\ firstOpenDir' = u.first
        /\ held' = IF dir[x].ni # NULL THEN CloseEntry(held, dir[x].ni) ELSE held
  /\ openDirCount' = openDirCount - 1
  /\ handle' = [handle EXCEPT ![x] = "free"]
  /\ result' = 0
  /\ UNCHANGED cwd

\* ntfs_chdir_r: the old current directory is closed and replaced.
ChdirR(p) ==
  \/ /\ ~Opens(p) \/ ~IsDirectoryTest(Flags(p))
     /\ Fail
     /\ UNCHANGED <<dir, handle, firstOpenDir, openDirCount, cwd, held>>
  \/ /\ Opens(p) /\ IsDirectoryTest(Flags(p))
     /\ held' = OpenEntry(ReleaseCwd(held), p)
     /\ cwd' = p
     /\ result' = 0
     /\ UNCHANGED <<dir, handle, firstOpenDir, openDirCount>>

-----------------------------------------------------------------------------
\* At mount no directory is open and cwd_ni is NULL.  The fields of a
\* handle are garbage until diropen_r sets them; they are never read before.
Init ==
  /\ dir = [x \in Handles |-> [vd |-> FALSE, ni |-> NULL, first |-> <<>>,
                                current |-> 1, prev |-> NULL, next |-> NULL]]
  /\ handle = [x \in Handles |-> "free"]
  /\ firstOpenDir = NULL
  /\ openDirCount = 0
  /\ cwd = NULL
  /\ held = [p \in Paths |-> 0]
  /\ result = 0

Next ==
  \/ \E x \in Handles, p \in Paths : DiropenR(x, p)
  \/ \E x \in Handles : DirresetR(x) \/ DirnextR(x) \/ DircloseR(x)
  \/ \E p \in Paths : ChdirR(p)

Spec == Init /\ [][Next]_vars

-----------------------------------------------------------------------------
DirState == [vd : BOOLEAN, ni : Paths \cup {NULL}, first : Seq(STRING),
             current : Nat, prev : Handles \cup {NULL}, next : Handles \cup {NULL}]

TypeOK ==
  /\ dir \in [Handles -> DirState]
  /\ \A x \in Handles : dir[x].current \in 1 .. Len(dir[x].first) + 1
  /\ handle \in [Handles -> {"free", "open"}]
  /\ firstOpenDir \in Handles \cup {NULL}
  /\ openDirCount \in Int
  /\ cwd \in Paths \cup {NULL}
  /\ held \in [Paths -> Nat]
  /\ result \in {0, -1}

\* The handles reached from firstOpenDir along nextOpenDir, at most k.
RECURSIVE OpenList(_, _)
OpenList(d, k) ==
  IF d = NULL \/ k = 0 THEN <<>> ELSE <<d>> \o OpenList(dir[d].next, k - 1)

\* The list of open directories that diropen pushes onto and dirclose
\* unlinks from, in whatever order callers close them, is a NULL-terminated
\* chain from firstOpenDir through exactly the open handles, each once, its
\* prevOpenDir links the inverse of nextOpenDir, and openDirCount its length.
OpenDirListWellFormed ==
  LET L    == OpenList(firstOpenDir, Cardinality(Handles) + 1)
      open == {x \in Handles : handle[x] = "open"}
  IN /\ Len(L) = Cardinality(open)
     /\ {L[i] : i \in 1 .. Len(L)} = open
     /\ openDirCount = Len(L)
     /\ \A i \in 1 .. Len(L) : dir[L[i]].prev = IF i = 1 THEN NULL ELSE L[i - 1]

\* No inode handle leaks or is closed twice: every entry ntfsOpenEntry
\* opened in diropen and chdir and not closed on their error paths, in
\* dirclose, or when chdir replaces the current directory, is held by the
\* current directory or by exactly one open directory.
InodesBalanced ==
  \A p \in Paths :
    held[p] = (IF cwd = p THEN 1 ELSE 0)
              + Cardinality({x \in Handles : handle[x] = "open" /\ dir[x].ni = p})

\* chdir only makes a directory the current directory (its comment:
\* "Ensure that this directory is indeed a directory").
CwdIsDirectory == cwd # NULL => Kind[cwd] = "dir"
=============================================================================
