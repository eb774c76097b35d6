---------------------------- MODULE MCNTFSCache ----------------------------
(***************************************************************************)
(* Models of the cache for TLC.  The constructor is given 4 pages of 32    *)
(* sectors (its clamps); the partition has five pages, the last one a      *)
(* two-sector tail, so that touching every page forces an eviction.        *)
(***************************************************************************)
EXTENDS NTFSCache

\* Bulk traffic: page-aligned transfers from aligned buffers (bypass unless
\* a cached page intersects), unaligned ones (always through the cache), a
\* write spanning two pages (tail and prefix windows), a whole-page write
\* (load elided), the tail page reached behind a bypassed page, and a
\* partial write that caches a page inside an aligned bulk range.
MCBulkRequests ==
  {ReadSectorsCall(0, 64, TRUE),
   ReadSectorsCall(31, 2, FALSE),
   ReadSectorsCall(96, 34, TRUE),
   WriteSectorsCall(30, 4, FALSE, 1),
   WriteSectorsCall(32, 64, TRUE, 1),
   WriteSectorsCall(0, 32, FALSE, 1),
   PartialCall("writePartial", 33, 0, 1, 1),
   FlushCall, InvalidateCall}

\* Mixed traffic for the refinement check: all five pages reachable through
\* the cache (a read spans pages 64 and 96), so that evictions, write-backs,
\* bypassed or partly bypassed writes and invalidate (whose flush
\* may fail part way) all occur.
MCStoreRequests ==
  {WriteSectorCall(1, 1),
   WriteSectorCall(3, 1),
   PartialCall("eraseWritePartial", 33, 0, 1, 1),
   PartialCall("eraseWritePartial", 129, 0, 1, 1),
   ReadSectorsCall(95, 3, TRUE),
   WriteSectorsCall(0, 64, TRUE, 1),
   InvalidateCall,
   DestructorCall}

\* Loops for the liveness check: a read through the page boundary, an
\* aligned read partly bypassed behind a cached page, a write through the
\* boundary, and the tail page reached behind a bypass.
MCLiveRequests ==
  {ReadSectorsCall(31, 2, FALSE),
   ReadSectorsCall(0, 64, TRUE),
   ReadSectorsCall(96, 34, TRUE),
   WriteSectorsCall(30, 4, FALSE, 1),
   PartialCall("writePartial", 33, 0, 1, 1),
   InvalidateCall}

\* A partition whose length does not fit the unsigned int count field (run
\* with UIntMod below EndOfPartition, the scaled image of a partition of
\* 2^32 + 2 sectors): a byte is written and read back in the first page.
MCWideRequests ==
  {PartialCall("writePartial", 5, 0, 1, 1),
   PartialCall("readPartial", 5, 0, 1, 0)}

\* With 64-sector pages, a whole page written through the cache from an
\* unaligned buffer (mask ((1ULL << 64) - 1) << 0).
MCFullMaskRequests ==
  {WriteSectorsCall(0, 64, FALSE, 1), FlushCall}
\* Page-level traffic: one sector of each of the five pages, read or
\* written, a rejected partial call and invalidate.  With four slots and
\* up to seven touches, every access pattern (re-touches, dirty victims,
\* failed write-backs and reads that free a slot) decides an eviction, and
\* the erasing writes reach the write-allocate windows of a page's middle
\* and of the tail page's end.
MCPageRequests ==
  {WriteSectorCall(1, 1),
   PartialCall("eraseWritePartial", 33, 0, 1, 1),
   ReadSectorCall(64),
   PartialCall("readPartial", 96, 0, 1, 0),
   PartialCall("eraseWritePartial", 129, 0, 1, 1),
   PartialCall("readPartial", 64, 1, 1, 0),
   InvalidateCall}
=============================================================================
