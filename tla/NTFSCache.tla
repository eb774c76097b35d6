----------------------------- MODULE NTFSCache -----------------------------
(***************************************************************************)
(* The sector cache of libntfs (source/cache2.c).  A fixed table of page   *)
(* slots ("cacheEntries") buffers pages of sectorsPerPage sectors of the   *)
(* disc; each slot keeps a per-sector dirty set that is written back as    *)
(* one contiguous span on eviction and on flush.  Bulk reads and writes    *)
(* bypass the cache for page-aligned runs that no slot intersects.         *)
(*                                                                         *)
(* The cache runs under the volume lock, so a call is one thread of        *)
(* control: `call` is the activation being served, and each iteration of   *)
(* the loops of readSectors/writeSectors is one step (one device call).    *)
(* Every device call may fail when DeviceCanFail.                          *)
(*                                                                         *)
(* Data abstraction: a sector is BytesPerSector byte cells; bytes written  *)
(* by callers are drawn from Vals, 0 is a zeroed byte and Junk is the      *)
(* content of a buffer that was never loaded (ntfs_align memory).          *)
(***************************************************************************)
EXTENDS Naturals, FiniteSets, FiniteSetsExt

CONSTANTS
  NumberOfPagesArg,   \* numberOfPages passed to the constructor
  SectorsPerPageArg,  \* sectorsPerPage passed to the constructor
  EndOfPartition,     \* endOfPartition: sectors 0 .. EndOfPartition-1
  BytesPerSector,     \* byte cells per sector (abstracts the device's 512)
  FREE,               \* CACHE_FREE, the sentinel base sector of a free slot
  Junk,               \* content of never-loaded buffer memory
  Vals,               \* byte values callers write
  TickMod,            \* 2^w: accessCounter is a w-bit unsigned integer
  InitialCounter,     \* value of the process-wide accessCounter at construction
  MaxAccess,          \* bound: accesses this cache may stamp (model bound)
  UIntMod,            \* 2^32: the range of unsigned int (entry count)
  DeviceCanFail,      \* whether readSectors/writeSectors of the disc may fail
  Requests            \* the calls (with their arguments) callers make

\* _NTFS_cache_constructor returns NULL for a zero argument: no cache exists.
ASSUME NumberOfPagesArg \in Nat \ {0} /\ SectorsPerPageArg \in Nat \ {0}
ASSUME EndOfPartition \in Nat \ {0} /\ BytesPerSector \in Nat \ {0}
ASSUME 0 \notin Vals /\ InitialCounter \in 0 .. TickMod - 1 /\ UIntMod > 64
\* One cache never stamps more ticks than the counter has values.
ASSUME MaxAccess \in 1 .. TickMod - 1

\* The constructor's clamps of its two size arguments.
numberOfPages == IF NumberOfPagesArg < 4 THEN 4 ELSE NumberOfPagesArg
sectorsPerPage ==
  IF SectorsPerPageArg < 32 THEN 32
  ELSE IF SectorsPerPageArg > 64 THEN 64 ELSE SectorsPerPageArg

Slots   == 0 .. numberOfPages - 1
Sectors == 0 .. EndOfPartition - 1
Offsets == 0 .. sectorsPerPage - 1
Bytes   == 0 .. BytesPerSector - 1
UINT_MAX == TickMod - 1

Data    == Vals \cup {0, Junk}
Content == [Bytes -> Data]
Fill(v) == [b \in Bytes |-> v]

VARIABLES
  cacheEntries,   \* slot -> [sector, count, last_access, dirty, cache]
  accessCounter,  \* the static u32 accessCounter of cache2.c
  disc,           \* the device: sector -> Content
  call,           \* the public call being served, or Idle
  got             \* <<sector, byte, value>> copied to the caller by the last step

vars == <<cacheEntries, accessCounter, disc, call, got>>

Idle == [kind |-> "idle", sector |-> 0, num |-> 0, off |-> 0, size |-> 0,
         val |-> 0, aligned |-> FALSE]

-----------------------------------------------------------------------------
(* Slots and the replacement policy.                                       *)

\* The slot's hit test: sector >= e.sector && sector < e.sector + e.count.
Covers(e, s) == e.sector # FREE /\ e.sector <= s /\ s < e.sector + e.count

\* Mutant: a hit scan that stops at the first free slot.
HitsStopAtFree(t) ==
  LET free == {i \in Slots : cacheEntries[i].sector = FREE}
  IN {i \in Slots : Covers(cacheEntries[i], t) /\ \A j \in free : i < j}

\* The hit scan of _NTFS_cache_getPage: it visits every slot, free or not,
\* and returns the first one covering the sector.
Hits(t) == {i \in Slots : Covers(cacheEntries[i], t)}

\* accessTime(): accessCounter++ (u32 wraparound), returns the new value.
Tick == (accessCounter + 1) % TickMod

\* Mutant: the scan never lowers oldAccess, so it settles on the last used
\* slot whose last_access is below UINT_MAX.
VictimNoMinUpdate ==
  LET free == {i \in Slots : cacheEntries[i].sector = FREE}
      older == {i \in Slots : cacheEntries[i].last_access < UINT_MAX}
  IN IF free # {} THEN Min(free) ELSE IF older = {} THEN 0 ELSE Max(older)

\* The victim of _NTFS_cache_getPage's scan: the first free slot, else the
\* first slot of smallest last_access (strict < against oldAccess = UINT_MAX).
Victim ==
  LET free == {i \in Slots : cacheEntries[i].sector = FREE}
      la(i) == cacheEntries[i].last_access
  IN IF free # {} THEN Min(free)
     ELSE Min({i \in Slots : \A j \in Slots : la(i) <= la(j)})

\* Mutant: the span's length computed as last - first (the last dirty
\* sector is not written back).
SpanShort(e) == {e.sector + k : k \in Min(e.dirty) .. Max(e.dirty) - 1}

\* Sectors of the contiguous write-back span: ffsll(dirty)-1 .. flsll(dirty)-1.
Span(e) == {e.sector + k : k \in Min(e.dirty) .. Max(e.dirty)}

\* disc after writeSectors(e.sector + first, last - first + 1, e.cache + first).
WriteBack(e, d) ==
  [s \in Sectors |-> IF s \in Span(e) THEN e.cache[s - e.sector] ELSE d[s]]

\* Mutant: count not capped at sectorsPerPage.
PageCountUncapped(base) == (EndOfPartition - base) % UIntMod

\* count = endOfPartition - base, stored in an unsigned int, then capped at
\* sectorsPerPage.
PageCount(base) ==
  LET c == (EndOfPartition - base) % UIntMod
  IN IF c > sectorsPerPage THEN sectorsPerPage ELSE c

\* The write-allocate path returns without reading when the caller will
\* overwrite the whole page.  local = sector - base, n the clamped numSectors.
Elides(write, local, n, cnt) == write /\ local = 0 /\ n = cnt

\* Mutant: the prefix window of a write ending at the page's end one short.
LoadWindowShort(write, local, n, cnt) ==
  IF ~write THEN 0 .. cnt - 1
  ELSE IF local = 0 THEN n .. cnt - 1
  ELSE IF local + n = cnt THEN 0 .. cnt - n - 2
  ELSE 0 .. cnt - 1

\* Offsets of the populate read sec .. sec + secs_to_read - 1.
LoadWindow(write, local, n, cnt) ==
  IF ~write THEN 0 .. cnt - 1
  ELSE IF local = 0 THEN n .. cnt - 1
  ELSE IF local + n = cnt THEN 0 .. cnt - n - 1
  ELSE 0 .. cnt - 1

Outcome(ok, slot, es, ctr, d) ==
  [ok |-> ok, slot |-> slot, entries |-> es, counter |-> ctr, disc |-> d]

DeviceResults == IF DeviceCanFail THEN BOOLEAN ELSE {TRUE}

(***************************************************************************)
(* _NTFS_cache_getPage(sector, numSectors, write): the set of its possible *)
(* outcomes, one per result of the device calls it makes: the eviction     *)
(* write-back (failure returns NULL, slot untouched) then the populate     *)
(* read (failure frees the slot).                                          *)
(***************************************************************************)
GetPage(t, n, write) ==
  IF Hits(t) # {}
  THEN LET i == Min(Hits(t))
       IN {Outcome(TRUE, i, [cacheEntries EXCEPT ![i].last_access = Tick],
                   Tick, disc)}
  ELSE
  LET v == Victim
      e == cacheEntries[v]
      mustWrite == e.sector # FREE /\ e.dirty # {}
      base  == (t \div sectorsPerPage) * sectorsPerPage
      cnt   == PageCount(base)
      local == t - base
      \* numSectors > sectorsPerPage - sector, in unsigned 64-bit arithmetic
      nn    == IF cnt >= local /\ n > cnt - local THEN cnt - local ELSE n
  IN
  UNION {
    IF ~wrote THEN {Outcome(FALSE, v, cacheEntries, accessCounter, disc)}
    ELSE
    LET d1 == IF mustWrite THEN WriteBack(e, disc) ELSE disc
        e1 == [e EXCEPT !.sector = base, !.count = cnt,
                        !.dirty = IF mustWrite THEN {} ELSE @]
        win == LoadWindow(write, local, nn, cnt)
        loaded == [e1 EXCEPT !.cache = [k \in Offsets |->
                     IF k \in win THEN d1[base + k] ELSE e1.cache[k]],
                             !.last_access = Tick]
        wiped == [e1 EXCEPT !.sector = FREE, !.count = 0,
                            !.last_access = 0, !.dirty = {}]
    IN IF Elides(write, local, nn, cnt)
       THEN {Outcome(TRUE, v, [cacheEntries EXCEPT ![v] =
                       [e1 EXCEPT !.last_access = Tick]], Tick, d1)}
       ELSE {IF readOk
             THEN Outcome(TRUE, v, [cacheEntries EXCEPT ![v] = loaded], Tick, d1)
             ELSE Outcome(FALSE, v, [cacheEntries EXCEPT ![v] = wiped],
                          accessCounter, d1) : readOk \in DeviceResults}
    : wrote \in IF mustWrite THEN DeviceResults ELSE {TRUE} }

\* _NTFS_cache_findPage: the intersecting slot of lowest base, as a set.
FindPage(t, n) ==
  LET hit(e) == e.sector # FREE /\
                IF t > e.sector THEN t - e.sector < e.count
                                ELSE e.sector - t < n
      cand == {i \in Slots : hit(cacheEntries[i])}
  IN {i \in cand : \A j \in cand : cacheEntries[i].sector <= cacheEntries[j].sector}

\* Mutant: the bypass taken for an aligned run without asking findPage.
BypassCountNoFind(t, n, aligned) ==
  IF ~aligned \/ t % sectorsPerPage # 0 THEN 0
  ELSE (n \div sectorsPerPage) * sectorsPerPage

\* Sectors the bypass branch transfers straight to the device (secs_to_read
\* or secs_to_write), or 0 when the loop must go through the cache.
BypassCount(t, n, aligned) ==
  IF ~aligned \/ t % sectorsPerPage # 0 THEN 0
  ELSE LET f == FindPage(t, n)
       IN IF f = {} THEN (n \div sectorsPerPage) * sectorsPerPage
          ELSE LET s == cacheEntries[CHOOSE i \in f : TRUE].sector
               IN IF s > t THEN s - t ELSE 0

\* Mutant: entry->count - sec - 1 sectors copied (the page's last sector
\* is never reached).
InPageShort(e, sec, n) ==
  IF e.count >= sec + 1 THEN Min({e.count - sec - 1, n}) ELSE n

\* Sectors the cached branch copies: min(entry->count - sec, numSectors),
\* where entry->count - sec is unsigned (sec_t) arithmetic.
InPage(e, sec, n) ==
  IF e.count >= sec THEN Min({e.count - sec, n}) ELSE n

\* The bits of ((1ULL << k) - 1) << sec, as the possible sets of dirty
\* offsets.  A shift by 64 or more is undefined in C; the builds produce
\* either a shift by k mod 64 or a zero (all-ones mask).
DirtyBits(sec, k) ==
  LET keep(S) == S \cap 0 .. 63
  IN IF k < 64 THEN {keep(sec .. sec + k - 1)}
     ELSE {keep(sec .. sec + (k % 64) - 1), keep(sec .. 63)}

\* disc or a buffer with sectors from .. from + k - 1 overwritten by f.
Put(d, from, k, f) == [s \in DOMAIN d |-> IF s \in from .. from + k - 1 THEN f ELSE d[s]]

\* The loop's advance by k sectors; leaving the loop returns to the caller.
Advance(c, k) ==
  IF c.num = k THEN Idle ELSE [c EXCEPT !.sector = @ + k, !.num = @ - k]

Apply(r) ==
  /\ cacheEntries' = r.entries
  /\ accessCounter' = r.counter
  /\ disc' = r.disc

-----------------------------------------------------------------------------
(* Public calls.  A call is entered with its arguments, then served.       *)

Partial == {"readPartial", "writePartial", "eraseWritePartial"}

\* Call records of the public functions, for the model's Requests.
ReadSectorsCall(t, n, al) ==
  [Idle EXCEPT !.kind = "read", !.sector = t, !.num = n, !.aligned = al]
WriteSectorsCall(t, n, al, v) ==
  [Idle EXCEPT !.kind = "write", !.sector = t, !.num = n, !.aligned = al, !.val = v]
PartialCall(k, t, off, size, v) ==
  [Idle EXCEPT !.kind = k, !.sector = t, !.off = off, !.size = size, !.val = v]
FlushCall      == [Idle EXCEPT !.kind = "flush"]
InvalidateCall == [Idle EXCEPT !.kind = "invalidate"]
DestructorCall == [Idle EXCEPT !.kind = "destroy"]

\* The inline one-sector wrappers of cache2.h: a partial call on the whole
\* sector.
ReadSectorCall(t)     == PartialCall("readPartial", t, 0, BytesPerSector, 0)
WriteSectorCall(t, v) == PartialCall("writePartial", t, 0, BytesPerSector, v)

\* What is left once the destructor has freed the cache: no call is served.
Freed == [Idle EXCEPT !.kind = "freed"]

\* Callers stay inside the partition and never pass numSectors = 0.
ASSUME \A c \in Requests :
         c.kind \in {"read", "write"} => c.num > 0 /\ c.sector + c.num <= EndOfPartition
ASSUME \A c \in Requests : c.kind \in Partial => c.sector < EndOfPartition

\* getPage calls a request may make: one per page its range meets.
Touches(c) ==
  CASE c.kind \in {"read", "write"} ->
         (c.sector + c.num - 1) \div sectorsPerPage - c.sector \div sectorsPerPage + 1
    [] c.kind \in Partial -> 1
    [] OTHER -> 0

\* Ticks stamped since construction.
Elapsed == (accessCounter + TickMod - InitialCounter) % TickMod

Call(c) ==
  /\ call = Idle
  /\ Elapsed + Touches(c) <= MaxAccess
  /\ call' = c
  /\ got' = {}
  /\ UNCHANGED <<cacheEntries, accessCounter, disc>>

\* One iteration of the while loop of _NTFS_cache_readSectors.
ReadSectorsStep ==
  /\ call.kind = "read"
  /\ LET t == call.sector
         n == call.num
         m == BypassCount(t, n, call.aligned)
     IN IF m > 0
        THEN \E ok \in DeviceResults :
               /\ got' = IF ok THEN {<<s, b, disc[s][b]>> : s \in t .. t + m - 1, b \in Bytes}
                         ELSE {}
               /\ call' = IF ok THEN Advance(call, m) ELSE Idle
               /\ UNCHANGED <<cacheEntries, accessCounter, disc>>
        ELSE \E r \in GetPage(t, n, FALSE) :
               /\ Apply(r)
               /\ IF r.ok
                  THEN LET e == r.entries[r.slot]
                           k == InPage(e, t - e.sector, n)
                       IN /\ got' = {<<s, b, e.cache[s - e.sector][b]>> :
                                       s \in t .. t + k - 1, b \in Bytes}
                          /\ call' = Advance(call, k)
                  ELSE /\ got' = {}
                       /\ call' = Idle

\* One iteration of the while loop of _NTFS_cache_writeSectors.
WriteSectorsStep ==
  /\ call.kind = "write"
  /\ got' = {}
  /\ LET t == call.sector
         n == call.num
         m == BypassCount(t, n, call.aligned)
     IN IF m > 0
        THEN \E ok \in DeviceResults :
               /\ disc' = IF ok THEN Put(disc, t, m, Fill(call.val)) ELSE disc
               /\ call' = IF ok THEN Advance(call, m) ELSE Idle
               /\ UNCHANGED <<cacheEntries, accessCounter>>
        ELSE \E r \in GetPage(t, n, TRUE) :
               /\ accessCounter' = r.counter
               /\ disc' = r.disc
               /\ IF r.ok
                  THEN LET e == r.entries[r.slot]
                           sec == t - e.sector
                           k == InPage(e, sec, n)
                       IN /\ \E bits \in DirtyBits(sec, k) :
                               cacheEntries' = [r.entries EXCEPT ![r.slot].cache =
                                                  Put(@, sec, k, Fill(call.val)),
                                                ![r.slot].dirty = @ \cup bits]
                          /\ call' = Advance(call, k)
                  ELSE /\ cacheEntries' = r.entries
                       /\ call' = Idle

\* The precondition offset + size <= bytesPerSector of the partial calls.
PartialRejected ==
  /\ call.kind \in Partial
  /\ call.off + call.size > BytesPerSector
  /\ call' = Idle
  /\ UNCHANGED <<cacheEntries, accessCounter, disc, got>>

PartialBytes == call.off .. call.off + call.size - 1

\* _NTFS_cache_readPartialSector.
ReadPartialSector ==
  /\ call.kind = "readPartial"
  /\ call.off + call.size <= BytesPerSector
  /\ call' = Idle
  /\ \E r \in GetPage(call.sector, 1, FALSE) :
       /\ Apply(r)
       /\ got' = IF ~r.ok THEN {}
                 ELSE LET e == r.entries[r.slot]
                      IN {<<call.sector, b, e.cache[call.sector - e.sector][b]>> :
                            b \in PartialBytes}

\* _NTFS_cache_writePartialSector (write = false: the page is fully loaded)
\* and _NTFS_cache_eraseWritePartialSector (write = true, sector zeroed).
WritePartial(erase) ==
  /\ call.kind = IF erase THEN "eraseWritePartial" ELSE "writePartial"
  /\ call.off + call.size <= BytesPerSector
  /\ call' = Idle
  /\ got' = {}
  /\ \E r \in GetPage(call.sector, 1, erase) :
       /\ accessCounter' = r.counter
       /\ disc' = r.disc
       /\ cacheEntries' =
            IF ~r.ok THEN r.entries
            ELSE LET sec == call.sector - r.entries[r.slot].sector
                 IN [r.entries EXCEPT ![r.slot].cache[sec] =
                       [b \in Bytes |-> IF b \in PartialBytes THEN call.val
                                        ELSE IF erase THEN 0 ELSE @[b]],
                                      ![r.slot].dirty = @ \cup {sec}]

WritePartialSector      == WritePartial(FALSE)
EraseWritePartialSector == WritePartial(TRUE)

(***************************************************************************)
(* _NTFS_cache_flush: slots in index order; the first failed write-back    *)
(* returns false and leaves that slot and the later ones dirty.            *)
(***************************************************************************)
RECURSIVE FlushFrom(_, _, _)
FlushFrom(i, es, d) ==
  IF i = numberOfPages THEN {[ok |-> TRUE, entries |-> es, disc |-> d]}
  ELSE IF es[i].dirty = {} THEN FlushFrom(i + 1, es, d)
  ELSE (IF DeviceCanFail THEN {[ok |-> FALSE, entries |-> es, disc |-> d]} ELSE {})
       \cup FlushFrom(i + 1, [es EXCEPT ![i].dirty = {}], WriteBack(es[i], d))

Flush ==
  /\ call.kind = "flush"
  /\ call' = Idle
  /\ got' = {}
  /\ \E r \in FlushFrom(0, cacheEntries, disc) :
       /\ cacheEntries' = r.entries
       /\ disc' = r.disc
  /\ UNCHANGED accessCounter

\* _NTFS_cache_invalidate: flush (result ignored), then free every slot.
Invalidate ==
  /\ call.kind = "invalidate"
  /\ call' = Idle
  /\ got' = {}
  /\ \E r \in FlushFrom(0, cacheEntries, disc) :
       /\ cacheEntries' = [i \in Slots |-> [r.entries[i] EXCEPT !.sector = FREE,
                             !.count = 0, !.last_access = 0, !.dirty = {}]]
       /\ disc' = r.disc
  /\ UNCHANGED accessCounter

\* _NTFS_cache_destructor: flush (result ignored), then the page buffers,
\* the table and the cache freed; what the flush could not write back is
\* lost with them.
Destructor ==
  /\ call.kind = "destroy"
  /\ call' = Freed
  /\ got' = {}
  /\ \E r \in FlushFrom(0, cacheEntries, disc) :
       /\ cacheEntries' = [i \in Slots |-> [r.entries[i] EXCEPT !.sector = FREE,
                             !.count = 0, !.dirty = {}]]
       /\ disc' = r.disc
  /\ UNCHANGED accessCounter

\* The cache's life has ended: the state stutters.
Terminated ==
  /\ call = Freed
  /\ UNCHANGED vars

-----------------------------------------------------------------------------
Init ==
  /\ cacheEntries = [i \in Slots |-> [sector |-> FREE, count |-> 0,
                       last_access |-> 0, dirty |-> {},
                       cache |-> [k \in Offsets |-> Fill(Junk)]]]
  /\ accessCounter = InitialCounter
  /\ disc = [s \in Sectors |-> Fill(0)]
  /\ call = Idle
  /\ got = {}

Serve ==
  \/ ReadSectorsStep
  \/ WriteSectorsStep
  \/ PartialRejected
  \/ ReadPartialSector
  \/ WritePartialSector
  \/ EraseWritePartialSector
  \/ Flush
  \/ Invalidate
  \/ Destructor

Next == (\E c \in Requests : Call(c)) \/ Serve \/ Terminated

\* Under the volume lock a call runs to completion: its steps are not
\* starved (the loop does not wait on anything but the device).
Spec == Init /\ [][Next]_vars /\ WF_vars(Serve)

-----------------------------------------------------------------------------
(* What a caller sees: the slot's buffer where a slot covers the sector,   *)
(* the disc elsewhere.                                                     *)
LogicalView ==
  LET used == {i \in Slots : cacheEntries[i].sector # FREE}
  IN [s \in Sectors |->
        LET h == {i \in used : Covers(cacheEntries[i], s)}
        IN IF h = {} THEN disc[s]
           ELSE LET e == cacheEntries[Min(h)]
                IN e.cache[s - e.sector]]

Entry == [sector : Sectors \cup {FREE}, count : 0 .. sectorsPerPage,
          last_access : 0 .. UINT_MAX, dirty : SUBSET Offsets,
          cache : [Offsets -> Content]]

TypeOK ==
  /\ cacheEntries \in [Slots -> Entry]
  /\ accessCounter \in 0 .. UINT_MAX
  /\ disc \in [Sectors -> Content]
  /\ call.kind \in {"idle", "read", "write", "flush", "invalidate", "destroy", "freed"} \cup Partial
  /\ got \subseteq Sectors \X Bytes \X Data

-----------------------------------------------------------------------------
(* Safety properties.                                                      *)

\* P2/I1/I2/I4 of the page table: every used slot holds one whole page
\* (base aligned to sectorsPerPage, count = min(S, E - base)), dirty bits lie
\* inside [0, count), and no two slots hold overlapping sectors.  Relies on
\* getPage scanning every slot for a hit before it rebases a victim.
PageTableWellFormed ==
  /\ \A i \in Slots :
       LET e == cacheEntries[i]
       IN e.sector # FREE =>
            /\ e.sector % sectorsPerPage = 0
            /\ e.count = Min({sectorsPerPage, EndOfPartition - e.sector})
            /\ e.dirty \subseteq 0 .. e.count - 1
  /\ \A i, j \in Slots :
       i # j /\ cacheEntries[i].sector # FREE /\ cacheEntries[j].sector # FREE
         => cacheEntries[i].sector # cacheEntries[j].sector

\* A clean sector of a used slot holds exactly what the disc holds.  This is
\* what makes the contiguous write-back span safe: it rewrites the clean
\* sectors between the first and last dirty ones from the buffer.  It fails
\* if the write-allocate path of getPage elides a load of a sector the
\* caller does not then overwrite.
CleanSectorsMatchDisc ==
  \A i \in Slots :
    LET e == cacheEntries[i]
    IN e.sector # FREE =>
         \A k \in (0 .. e.count - 1) \ e.dirty : e.cache[k] = disc[e.sector + k]

\* Every byte readSectors/readPartialSector hands to its caller is the byte
\* the caller last wrote there (the cached copy if one exists, else the
\* disc), whether it came through a slot or through the bypass.
ReadsSeeLogicalContent ==
  \A g \in got : LogicalView[g[1]][g[2]] = g[3]

\* The order in which slots were really touched: the tick a stamp was
\* taken at, counted from construction.  Stamps are distinct ticks of
\* 1 .. Elapsed because this cache stamps fewer than TickMod of them, so
\* the count recovers the history of touches without a history variable.
Touched(i) == (cacheEntries[i].last_access + TickMod - InitialCounter) % TickMod

\* A page that stops being cached other than by invalidate.
Evicted(i) ==
  /\ cacheEntries[i].sector # FREE
  /\ cacheEntries'[i].sector # cacheEntries[i].sector
  /\ call.kind # "invalidate"

\* Section 4.2's replacement policy, as an action property of getPage's
\* victim scan: a cached page is evicted (rebased, or freed by a failed
\* populate read) only when no slot is free, and only if no other cached
\* page was touched longer ago.  The scan compares last_access values, so
\* it relies on the u32 accessCounter not wrapping between two touches.
EvictsLeastRecentlyUsed ==
  [][\A i \in Slots :
       Evicted(i) => \A j \in Slots : /\ cacheEntries[j].sector # FREE
                                      /\ Touched(i) <= Touched(j)]_vars

-----------------------------------------------------------------------------
(* Liveness.                                                               *)

\* Every call of readSectors/writeSectors (and the page-level calls)
\* returns: each iteration of their while loops transfers at least one
\* sector, through the bypass or through the page getPage returned, so the
\* loop cannot spin on the cache (the device is assumed to answer).
CallsReturn == call # Idle ~> call = Idle

-----------------------------------------------------------------------------
(* Refinement: with the caller's view as mem, the cache is a SectorStore.  *)

Store == INSTANCE SectorStore WITH mem <- LogicalView, disk <- disc

\* P1: every change of what callers read is the effect their pending call
\* asks for, and the disc only receives what callers read (or a bypassed
\* bulk write); evictions, write-backs, flushes and failed calls never lose
\* or resurrect data, and only invalidate discards unflushed writes.
CacheImplementsStore == Store!StoreSpec
=============================================================================
