---------------------------- MODULE SectorStore ----------------------------
(***************************************************************************)
(* What the cache promises its callers (spec.md section 8, P1): a store of *)
(* sectors with deferred persistence.  `mem` is what a read returns, `disk` *)
(* what the device holds, `call` the public call being served.             *)
(*                                                                         *)
(*  - mem changes only as the pending call asks: a write call replaces a   *)
(*    prefix of its remaining range by its value, a partial write patches  *)
(*    bytes of its one sector, invalidate and the destructor drop mem back *)
(*    to disk;                                                             *)
(*  - disk only ever receives the current content of mem, except that a   *)
(*    bulk write may go straight to the device;                            *)
(*  - any call may return early (failure) without changing mem.            *)
(***************************************************************************)
EXTENDS Naturals

CONSTANTS Sectors, Bytes, Idle

VARIABLES mem, disk, call

avars == <<mem, disk, call>>

FillWith(v) == [b \in Bytes |-> v]

Overwrite(f, from, k, c) ==
  [s \in DOMAIN f |-> IF s \in from .. from + k - 1 THEN c ELSE f[s]]

Remaining(c, k) ==
  IF c.num = k THEN Idle ELSE [c EXCEPT !.sector = @ + k, !.num = @ - k]

\* Each sector of the disk keeps its value or receives the one mem holds.
PersistSome ==
  LET m == mem
  IN \A s \in Sectors : disk'[s] \in {disk[s], m[s]}

StoreInit ==
  /\ mem = disk
  /\ call = Idle

Enter ==
  /\ call = Idle
  /\ call' # Idle
  /\ UNCHANGED <<mem, disk>>

Read ==
  /\ call.kind \in {"read", "readPartial"}
  /\ mem' = mem
  /\ PersistSome
  /\ \/ call' = Idle
     \/ \E k \in 1 .. call.num : call' = Remaining(call, k)

WriteRun ==
  /\ call.kind = "write"
  /\ \E k \in 1 .. call.num :
       /\ call' = Remaining(call, k)
       /\ mem' = Overwrite(mem, call.sector, k, FillWith(call.val))
       /\ \/ PersistSome
          \/ disk' = Overwrite(disk, call.sector, k, FillWith(call.val))

PatchSector ==
  /\ call.kind \in {"writePartial", "eraseWritePartial"}
  /\ mem' = [mem EXCEPT ![call.sector] =
               [b \in Bytes |->
                  IF b \in call.off .. call.off + call.size - 1 THEN call.val
                  ELSE IF call.kind = "eraseWritePartial" THEN 0 ELSE @[b]]]
  /\ PersistSome
  /\ call' = Idle

Persist ==
  /\ call.kind = "flush"
  /\ mem' = mem
  /\ PersistSome
  /\ call' = Idle

Discard ==
  /\ call.kind = "invalidate"
  /\ PersistSome
  /\ mem' = disk'
  /\ call' = Idle

\* The destructor: the cache is gone, and with it what was not persisted;
\* callers read the disk from then on, and make no further call.
Release ==
  /\ call.kind = "destroy"
  /\ PersistSome
  /\ mem' = disk'
  /\ call' = [call EXCEPT !.kind = "freed"]

ReturnEarly ==
  /\ call # Idle
  /\ mem' = mem
  /\ PersistSome
  /\ call' = Idle

StoreNext ==
  \/ Enter \/ Read \/ WriteRun \/ PatchSector \/ Persist \/ Discard \/ Release \/ ReturnEarly

StoreSpec == StoreInit /\ [][StoreNext]_avars
=============================================================================
