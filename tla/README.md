# TLA+ models of the libntfs sector cache, directory and path routines

`src/source/cache2.c` holds three files of libntfs, concatenated:

| lines | file | contents |
|---|---|---|
| 1-426 | `cache2.c` | the sector cache: constructor/destructor, `accessTime`, `_NTFS_cache_getPage`, `_NTFS_cache_findPage`, read/write of sector runs and of partial sectors, flush, invalidate |
| 427-559 | `cache2.h` | `NTFS_CACHE_ENTRY`, `NTFS_CACHE`, prototypes, inline one-sector wrappers |
| 560-1247 | `ntfsdir.c` | devoptab directory routines: stat/lstat, symlink, unlink, chdir, rename, mkdir, rmdir, statvfs, and the directory iterator with its per-volume list of open directories |

## The system and how its parts interact

- **Page table.** `NTFS_CACHE` owns `numberOfPages` slots. The constructor clamps this to at least 4 and the page size to 32..64 sectors. A slot has these fields:
  - `sector`: the page base, or `CACHE_FREE`;
  - `count`: the valid sectors, fewer on the partition's tail page;
  - `last_access`: a tick;
  - `dirty`: a 64-bit per-sector bitmap;
  - `cache`: the page buffer.
- **Replacement (`getPage`).** This is the only way a page enters a slot.
  - It first scans for a hit.
  - On a miss it picks the victim: the first free slot, otherwise the first slot with the smallest `last_access`.
  - It writes back the victim's dirty span.
  - It rebases the slot and computes `count`.
  - It reads in the page, skipping the sectors a write will overwrite ("write-allocate").
  - A failed write-back returns NULL and leaves the slot as it was. A failed read frees the slot.
- **Access layer.**
  - `readSectors`/`writeSectors` loop over the requested run. An iteration whose buffer is 32-byte aligned and whose sector is page-aligned asks `findPage` for the lowest cached page that intersects the rest of the run, and transfers straight to the device up to that page. Any other iteration copies through the page `getPage` returns; a write then sets the dirty bits.
  - The partial-sector calls go through `getPage` for one sector. Their precondition is `offset + size <= bytesPerSector`.
- **Writeback.** The span from the lowest to the highest dirty bit is written in one device call:
  - on eviction;
  - by `flush`, which walks the slots in order and stops at the first failure;
  - by `invalidate`, which flushes, ignores the result, and frees every slot.
- **Access counter.** A process-wide `static u32`, incremented for every hit and every fill.
- **ntfsdir.c.** These routines take the volume lock and call into `ntfsinternal`, which is not part of this source. Volume metadata reaches the disc through that code and the cache.
  - The directory iterator keeps an entry list and a cursor per open directory.
  - Each volume keeps a doubly linked FILO list of its open directories and a count of them.

All cache calls run under the volume lock (spec.md §5), so one cache serves one call at a time. The model therefore has no interleaving of cache calls. What it does have is the order of the device calls inside one public call, and the failure of any of them.

The one piece of state the volume lock does not protect is `accessCounter`. It is a single static for the whole process, while each volume has its own lock. `AccessCounter.tla` models threads of different volumes running `accessTime()` at the same time.

## Modules

### `NTFSCache.tla`: the cache (cache2.c, cache2.h)

**State.**
- `cacheEntries`: the slots. `dirty` is a set of offsets. `cache` is a function from offsets to sector content.
- `accessCounter`
- `disc`: the device.
- `call`: the public call being served, with its remaining sector and count, or `Idle`.
- `got`: the `<<sector, byte, value>>` triples the last step copied to the caller.

**Data abstraction.**
- A sector is `BytesPerSector` byte cells. Callers write values from `Vals`. `0` is a zeroed byte.
- `Junk` is the content of buffer memory that was never loaded (`ntfs_align` does not clear it).
- Buffer alignment is a flag of the call (`aligned`).

**Actions.**

| action | code |
|---|---|
| `Call(c)` | entry into a public function with its arguments |
| `ReadSectorsStep`, `WriteSectorsStep` | one iteration of the `while` loop of `_NTFS_cache_readSectors` / `_NTFS_cache_writeSectors`: bypass (`BypassCount`, `FindPage`) or `GetPage`, copy (`InPage`), dirty mask (`DirtyBits`) |
| `PartialRejected` | the `offset + size > bytesPerSector` early return of the three partial calls |
| `ReadPartialSector`, `WritePartialSector`, `EraseWritePartialSector` (both `WritePartial(erase)`) | `_NTFS_cache_readPartialSector`, `_NTFS_cache_writePartialSector`, `_NTFS_cache_eraseWritePartialSector` |
| `Flush` | `_NTFS_cache_flush` (`FlushFrom` is its loop) |
| `Invalidate` | `_NTFS_cache_invalidate` |
| `Destructor` | `_NTFS_cache_destructor`: the flush with its result ignored, then the table freed; the call becomes `Freed` |
| `Terminated` | the cache after its destructor: no call is served, and the state stutters |

`ReadSectorCall` and `WriteSectorCall` are the inline one-sector wrappers of cache2.h. Each is the partial call it makes on the whole sector.

**`GetPage`** is an operator, not an action. It gives the set of outcomes of `_NTFS_cache_getPage`, one for each combination of device results. Every step that calls it picks one outcome, so a getPage with its device calls is atomic within that step, as it is under the lock. Its helpers:
- `Hits`, `Victim`;
- `Span`/`WriteBack`;
- `PageCount`: the `unsigned int` count, kept modulo `UIntMod`, then capped;
- `Elides`/`LoadWindow`: the write-allocate window.

**Integer widths.**
- `accessCounter` wraps modulo `TickMod`.
- `count` is kept modulo `UIntMod`.
- The unsigned subtractions `sectorsPerPage - sector` and `entry->count - sec` are modelled as the comparisons they become when they wrap.
- A shift by 64 in the dirty mask is undefined behaviour. `DirtyBits` offers the two results real targets produce: the count taken mod 64, giving an empty mask, or a full mask.

**Replacement order.** `Touched(i)` is the tick at which slot `i` was last stamped, counted from construction. A cache stamps fewer than `TickMod` ticks (`ASSUME MaxAccess < TickMod`), so this count recovers the true order of touches even when the u32 stamps wrap. That is why no history variable is needed. `EvictsLeastRecentlyUsed` compares the victim's `Touched` with every other slot's.

### `AccessCounter.tla`: `accessTime()` shared across volumes (cache2.c:111-116)

Each thread stands for the thread that holds one volume's lock while it stamps that volume's cache. `accessCounter++` is split into three actions:
- `Load`: the load;
- `Store`: the add and the store;
- `Return`: `return accessCounter`, which returns either the register or a fresh load of the variable.

These accesses race, so the build may produce either form, and the model allows both. `stamp` is the last value a thread was given. `MaxCalls` bounds the calls per thread.

### `SectorStore.tla`: what the cache promises (spec.md §8 P1)

`mem` is what a read returns, `disk` is the device, and `call` is the pending call.
- Reads never change `mem`.
- A write call replaces a prefix of its remaining run.
- A partial write patches its sector.
- `invalidate` sets `mem` to `disk`.
- The destructor (`Release`) also sets `mem` to `disk`, and the call becomes `"freed"`: nothing is called after it.
- The disk only ever receives the current `mem` of a sector, or a bypassed bulk write.
- Any call may return early.

`NTFSCache` instantiates it with `mem <- LogicalView`. `LogicalView` is what a caller would read: the covering slot's buffer where a slot covers the sector, the disc elsewhere.

### `NTFSDir.tla`: the directory routines (ntfsdir.c)

The module models one volume.

**State.**
- `dir`: the `ntfs_dir_state` of each `DIR_ITER` handle, with fields `vd`, `ni`, the entry list `first`, the cursor `current` and the links `prev`/`next`. `current` is an index into `first`; `Len(first) + 1` stands for NULL.
- `handle`: whether newlib currently has the handle allocated. Newlib allocates the handle at `opendir` and frees it after `closedir` or after a failed `diropen_r`.
- `firstOpenDir`, `openDirCount`, `cwd` (`cwd_ni`).
- `held`: inode handles opened by `ntfsOpenEntry` and not closed.
- `result`: the return value of the last call.

**Actions.** `DiropenR`, `DirresetR`, `DirnextR`, `DircloseR` and `ChdirR` each model one routine under the volume lock, as one step. Their helpers:
- `Visible`: `ntfs_readdir_filler`, which skips DOS names and appends the others in order.
- `IsDirectoryTest`: the `&&` test.
- `Link`/`Unlink`: list insertion in diropen and removal in dirclose.
- `CloseDir`: `ntfsCloseDir`.
- `ReleaseCwd`: chdir's close of the old current directory.
- `OpenEntry`/`CloseEntry`: an inode handle taken by `ntfsOpenEntry` and given back by `ntfsCloseEntry`.
- `NotDirectoryExit`, `ReaddirFailedExit`: diropen's two exits after `ntfsOpenEntry`. The first is the ENOTDIR close. The second is `ntfsCloseDir` after `ntfs_readdir` fails, which closes the entry. Each is written as the open followed by the close, so a missing close shows in `held`.

**Assumptions.** `ntfsOpenEntry` and `ntfs_readdir` are outside this source, so the model assumes:
- An entry opens exactly when its path names a record of a mounted volume.
- `ntfs_readdir` fails on a record that is not a directory (ntfs-3g's own check).
- `ntfs_readdir` may fail part way when `ReaddirCanFail`, because the filler cannot allocate or convert a name.

### `PathOps.tla`: stat, lstat, symlink, unlink, rename, mkdir, rmdir, statvfs (ntfsdir.c)

**State.**
- `ns`: the volume's names, a flat namespace from name to MFT record (or `NONE`).
- `kind`: each record's type, or `"free"`.
- `result`: the return value of the last call.
- `last`: the last call and its paths.
- `vol`: the geometry of the mounted volume (cluster and MFT record size bits, MFT bitmap bytes), chosen in `Init` from `Geometries`.
- `vfs`: the caller's `struct statvfs` as the last statvfs left it (free blocks, inodes, free inodes).

**Actions.**

| action | code |
|---|---|
| `StatR(p, TRUE)`, `LstatR(p)` (`StatR(p, FALSE)`) | `ntfs_stat_r`, `ntfs_lstat_r` with a buffer |
| `StatNullR(p)` | their `!st` short cut |
| `CreateR(p, "symlink")`, `MkdirR(p)` (`CreateR(p, "dir")`) | `ntfs_symlink_r`, `ntfs_mkdir_r` |
| `UnlinkR(p, "unlink")`, `RmdirR(p)` (`UnlinkR(p, "rmdir")`) | `ntfs_unlink_r`, `ntfs_rmdir_r` |
| `RenameR(o, n)` | `ntfs_rename_r`: ENODEV, EXDEV and EEXIST, then `RenameSteps` |
| `StatvfsR(p, buf)` | `ntfs_statvfs_r`: ENODEV, the `!buf` short cut, the zeroed buffer and EIO, then the counts; `Shifted` is its `size <<= delta_bits` / `size >>= -delta_bits` |

**Contracts of the external calls.** The routines call into `ntfsinternal.c`, which is not in this source. Each call is modelled by its contract as a set of outcomes:
- `Parses`: `ntfsParseEntry`. A followed symbolic link may dangle.
- `CreateResults`: `ntfsCreate`. It fails on a bound name or a full MFT.
- `LinkResults`: `ntfsLink`.
- `UnlinkResults`: `ntfsUnlink`. It frees the record with its last name.

Each call fails on a missing name and, when `DeviceCanFail`, may also fail with an I/O error. `ntfsStat`'s outcome does not reach the result.
- `ntfs_volume_get_free_space` (ntfs-3g) fails only when `DeviceCanFail`. It leaves in `free_clusters` any value of `FreeClusters` (a negative one included, which the code clamps with `MAX`), and in `free_mft_records` the number of records that are `"free"`.

### `MCNTFSCache.tla`: request sets for TLC

It defines the request sets used by the configs: page (also used by wrap), bulk, store, liveness, wide-count and full-mask.

### `MCPathOps.tla`: a volume for the path routines

- A file `/a` and a directory `/d`.
- One free record.
- One unbound name `/n`.
- A name on another mounted volume (`sd:/y`) and one on no volume (`usb:/x`).

- Two geometries: 4 KiB clusters over 1 KiB records (`delta_bits = 2`) and 512-byte clusters over 1 KiB records (`delta_bits = -1`), with `free_clusters` in {-1, 0, 3}.

This reaches every early return of each routine, every combination of failures inside rename, and both shift directions of statvfs.

### `MCNTFSDir.tla`: paths and listings for TLC

- Three handles, under symmetry: the properties quantify over all handles.
- A directory whose listing holds a DOS alias, and an empty directory.
- A regular file, a path with no record, and a path on no mounted volume.

This gives up to three directories open at once, closed in any order, which reaches every position a close can unlink: head, middle and tail.

## Runs

### The runs

The constructor's clamps make 4 slots of 32 sectors the smallest cache the program can have. Every cache run except full-mask uses that cache with `EndOfPartition = 130`: five pages, the last a two-sector tail page. Touching five pages therefore forces an eviction. `BytesPerSector = 1` and `Vals = {1}`. `MaxAccess` bounds the ticks a behaviour may stamp. `Call` is only enabled while the request fits in that budget, and `flush`/`invalidate` cost nothing, so no run deadlocks.

| run | cfg | checks | result |
|---|---|---|---|
| page | `MCNTFSCache.cfg` | `TypeOK`, `PageTableWellFormed`, `CleanSectorsMatchDisc`, `EvictsLeastRecentlyUsed` | pass, 604,322 states |
| wrap | `MCNTFSCacheWrap.cfg` | `EvictsLeastRecentlyUsed` | violation (finding 4) |
| race | `AccessCounterRace.cfg` | `StampsIncrease` | violation (finding 5) |
| paths | `MCPathOps.cfg` | `RenameNeverLosesFile`, `StatvfsCountsRecords` | pass, 294,118 states |
| bulk | `MCNTFSCacheBulk.cfg` | `ReadsSeeLogicalContent` | pass, 67,465 states |
| store | `MCNTFSCacheStore.cfg` | `CacheImplementsStore` (refinement of `SectorStore`) | pass, 134,279 states |
| live | `MCNTFSCacheLive.cfg` | `CallsReturn` | pass, 3,691 states |
| dir | `MCNTFSDir.cfg` | `TypeOK`, `OpenDirListWellFormed`, `InodesBalanced` | pass, 2,400 states (under symmetry) |
| dircwd | `MCNTFSDirCwd.cfg` | `CwdIsDirectory` | violation (finding 3) |
| widecount | `MCNTFSCacheWideCount.cfg` | `ReadsSeeLogicalContent` | violation (finding 1) |
| fullmask | `MCNTFSCacheFullMask.cfg` | `CleanSectorsMatchDisc` | violation (finding 2) |

### What each run covers

- **page.** Partial calls on every page, a rejected partial call and invalidate, with `MaxAccess = 7`. Seven touches are enough to fill the four slots, re-touch a page and then evict, so the least-recently-used choice is made against a non-trivial order. The run reaches the following windows of getPage:
  - the full load (read and write paths);
  - the prefix window on the tail page;
  - eviction with a dirty write-back.

  Device failures are on, so the run also contains failed write-backs, wiped slots, and invalidates whose flush fails part way.
- **wrap.** The page run with `InitialCounter = 65531`, so the 16-bit image of the u32 counter wraps within the seven touches.
- **race.** Two volumes, 16-bit counter, three calls per thread.
- **paths.** Every routine on every kind of name, with every external call able to fail. A rename may fail at the link, at the unlink of the old name, or at the rollback. `StatvfsCountsRecords` checks each successful statvfs against a reference written with multiplication and division instead of shifts: free inodes are the free MFT records plus the records the free clusters hold, total inodes are the MFT bitmap's records plus the same.
- **dir.** Up to three directories open at once, closed in any order. diropen on the regular file passes the directory test (finding 3), then fails in `ntfs_readdir`, and so takes the `ntfsCloseDir` exit. With `ReaddirCanFail`, a directory can take that exit too. `InodesBalanced` checks that this exit closes the entry diropen opened.
- **bulk.**
  - An aligned read is partly bypassed in front of a page cached by a partial write.
  - An unaligned write crosses a page boundary, which exercises both the tail and prefix windows.
  - A whole-page write with its load elided.
  - A bypass reaches the tail page.
- **store.** Checks the whole of P1 as a refinement: every step of the cache is a step of `SectorStore`, or leaves what callers read and the disc unchanged. The request set includes the destructor. It also has one-sector writes of sectors 1 and 3, which leave two dirty sectors on one page with the clean sector 2 between them. The eviction and flush write-back span (cache2.c:143-145) then covers a clean sector, and the run checks that what it writes there is what the disc already holds. A destructor whose flush fails part way drops the dirty pages it did not reach. The run shows that this is exactly the abstract `Release`: afterwards callers read what the disc holds, and the disc received nothing but current content. The live run leaves the destructor out, because after it no call returns to `Idle`.
- **live.** Sets `DeviceCanFail = FALSE`, because a failing device ends the loop by returning false. It also sets `TickMod = 16`, which never wraps within `MaxAccess`.

### Mutants

A mutant replaces a mapped definition with a plausible bug, and TLC finds the run's property violated:

| mutant | property it breaks |
|---|---|
| a hit scan that stops at a free slot | `PageTableWellFormed` (two slots with one base) |
| a prefix load window one sector short | `CleanSectorsMatchDisc` |
| a count not capped at the page size | `TypeOK` |
| a bypass that does not ask findPage | `ReadsSeeLogicalContent` |
| a write-back span one sector short | `CacheImplementsStore` |
| a copy of `count - sec - 1` sectors | `CallsReturn` (the loop spins on a page's last sector) |
| ntfsCloseDir leaving `dir->current` set | `TypeOK` |
| statvfs shifting the wrong way (`>>` for a positive `delta_bits`) | `StatvfsCountsRecords` |
| dirclose not updating the successor's `prevOpenDir` | `OpenDirListWellFormed` |
| diropen's `ntfsCloseDir` exit after a failed `ntfs_readdir` not closing the entry | `InodesBalanced` |
| a victim scan that never lowers `oldAccess` | `EvictsLeastRecentlyUsed` |
| rename's rollback unlink run even after the old name was unlinked | `RenameNeverLosesFile` |

### Fairness

`Spec` has weak fairness on `Serve`, the steps of the call in progress.
- A call runs on the caller's thread while it holds the volume lock, and waits for nothing but the device, so it is not starved.
- No fairness is given to `Call`: callers may stop calling.

## Findings

1. **`count` truncation** (cache2.c:154, run widecount). `count` is an `unsigned int` that receives `endOfPartition - base`.
   - On a partition of 2^32 sectors or more (2 TiB at 512-byte sectors), a page below `endOfPartition - 2^32` gets a truncated count.
   - If that count is below `sectorsPerPage`, sectors past it miss the hit test. `numSectors` is not clamped, because the subtraction wraps (line 157). `entry->count - sec` wraps too, so the copy takes `numSectors` sectors from a buffer the read filled only up to `count`.
   - Modelled with `UIntMod = 128` and `EndOfPartition = 130`, the scaled image of a partition of 2^32 + 2 sectors. A partial write and read of sector 5 returns `Junk`.
2. **Dirty mask of a whole 64-sector page** (cache2.c:386, run fullmask). `((1ULL << 64) - 1) << 0` is undefined.
   - `DirtyBits` offers both results a build can give: an empty mask or a full one. The library's target is 32-bit PowerPC (the Wii and GameCube), where GCC's inline 64-bit shift sequence yields 0 for a count of 64, so the mask is empty. x86-64 and AArch64, which take the count mod 64, also give an empty mask.
   - A whole page written through the cache therefore stays clean, and the write is lost on eviction.
   - This happens with an unaligned buffer, or an aligned one when the page is already cached.

3. **chdir to a regular file** (ntfsdir.c part, line 803, run dircwd). The test `!(ni->mrec->flags && MFT_RECORD_IS_DIRECTORY)` is a logical and. It is true for every in-use record (flags includes `MFT_RECORD_IN_USE`).
   - chdir to a file therefore succeeds and sets `cwd_ni` to the file, although the comment above the test says it ensures a directory.
   - diropen (line 1083) has the same test, but there `ntfs_readdir`'s own check fails the call.

4. **Counter wrap breaks LRU** (cache2.c:136, run wrap). The victim scan compares raw u32 `last_access` values with a strict `<` against `oldAccess = UINT_MAX`.
   - After the wrap, the page touched just after it has the smallest stamp and is evicted first.
   - A page stamped `UINT_MAX` is never chosen while any other page is older.
   - spec.md §9 calls the overflow benign, saying that LRU still holds within each cache over short windows. TLC evicts the most recently touched page within seven touches of the wrap.
5. **Lost increments across volumes** (cache2.c:114, run race). Two threads on two volumes each load `accessCounter`, and the later store overwrites the earlier increment.
   - One volume's cache is then handed a tick no larger than its previous one: in the trace, v1 gets 1 twice.
   - spec.md §5 says that the volume lock makes an ordinary increment sufficient. That lock is per volume; the counter is not.

Seen in the code and not checked by a run (listed as hazards in `PROJECT.json`):
- **stat/lstat.** They return 0 after `ntfsStat` fails (lines 666-676 and 709-719). This follows from the code alone, with no sequence of calls behind it.
- **dirclose.** Its sanity check tests `dir->vd`, which `ntfsCloseDir` leaves set, so the check does not catch a second close of a handle. Newlib frees the handle at `closedir`, though, so a second close is a use after free by the caller, and the model does not include it.

## Not modelled, and why

- **Allocation failures.** A constructor whose allocation fails returns NULL before any state exists.
- **Little-endian helpers.** `readLittleEndianValue` and `writeLittleEndianValue` assemble an integer from a partial call's bytes, or split one into them. The model keeps bytes symbolic, so the arithmetic has nothing to act on. The partial calls they make are modelled.
  - `readLittleEndianValue` rejects a `num_bytes` other than 1, 2 or 4 only after its partial read (cache2.c:279-285). A rejected call can therefore still load or evict a page.
- **Several caches sharing `accessCounter`.** NTFSCache has one cache. The race on the counter is modelled on its own in AccessCounter, and its effect on the LRU order follows from `EvictsLeastRecentlyUsed`'s reliance on increasing stamps.
- **`ntfsinternal.c` itself.** Path resolution, record allocation and link counts are outside this source. PathOps models them by their contracts, in a flat namespace.
- **The `struct stat` fields dirnext fills, and the atime updates.** These are data.
- **statvfs's fields copied from the volume.** `f_bsize`, `f_frsize`, `f_blocks`, `f_fsid`, `f_flag` and `f_namemax` are copied from the volume and do not depend on any call.
- **rename's partial failure as a finding.** When the unlink of the old name and the rollback unlink both fail, both names remain and rename returns -1. spec.md §9 already says the directory layer leaves transient state on partial failure. No link-then-unlink can be all or nothing once its rollback fails, so the project does not check it as a violation. Run paths checks what rename does promise: the file keeps a name.

- **NTFSDir and PathOps composed on one volume.** A directory removed or renamed while it is the cwd or open for iteration is the case that composition would reach. What then happens to `cwd_ni` and `dir->ni` is decided inside `ntfsUnlink` and ntfs-3g. Neither is in this source, and their contract for an inode that another handle holds open is not stated anywhere in the repository. A composed model would have to invent it, so the two modules stay separate. Their only shared state is the name space, which each models with its own contract.

## Plan for later work

1. **stat after a failed `ntfsStat`.** The hazard at cache2.c:666 is left without a run. Neither spec.md, a comment nor a test says what stat should return when `ntfsStat` fails. When `ntfsStat` can fail is decided in ntfsinternal.c, which is not in the repository. A violation run would have to invent both sides, so it waits for that source.
