--------------------------- MODULE AccessCounter ---------------------------
(***************************************************************************)
(* accessTime() of source/cache2.c: the static u32 accessCounter shared by *)
(* the caches of every mounted volume.  Each volume serialises its own     *)
(* cache behind its own lock, so threads working on different volumes run  *)
(* accessTime() concurrently.  accessCounter++ is a load, an add and a     *)
(* store; "return accessCounter" either returns the incremented register   *)
(* or loads the variable again (the access races, so the build may do      *)
(* either).  A thread here stands for the thread holding one volume's lock *)
(* and stamping that volume's cache.                                       *)
(***************************************************************************)
EXTENDS Naturals

CONSTANTS
  Threads,   \* one per mounted volume
  TickMod,   \* 2^w: the counter is a w-bit unsigned integer (u32)
  MaxCalls   \* bound: accessTime() calls per thread

VARIABLES
  accessCounter,  \* the shared static u32
  pc,             \* thread -> "idle", "add" (value loaded), "ret" (stored)
  reg,            \* thread -> the value its load read
  stamp,          \* thread -> the last value accessTime() returned to it
  calls           \* thread -> accessTime() calls completed

vars == <<accessCounter, pc, reg, stamp, calls>>

ASSUME MaxCalls * 2 < TickMod

\* accessCounter++: the load.
Load(t) ==
  /\ pc[t] = "idle"
  /\ calls[t] < MaxCalls
  /\ reg' = [reg EXCEPT ![t] = accessCounter]
  /\ pc' = [pc EXCEPT ![t] = "add"]
  /\ UNCHANGED <<accessCounter, stamp, calls>>

\* accessCounter++: the add and the store.
Store(t) ==
  /\ pc[t] = "add"
  /\ accessCounter' = (reg[t] + 1) % TickMod
  /\ reg' = [reg EXCEPT ![t] = (@ + 1) % TickMod]
  /\ pc' = [pc EXCEPT ![t] = "ret"]
  /\ UNCHANGED <<stamp, calls>>

\* return accessCounter: the register, or a fresh load of the variable.
Return(t) ==
  /\ pc[t] = "ret"
  /\ \E v \in {reg[t], accessCounter} : stamp' = [stamp EXCEPT ![t] = v]
  /\ calls' = [calls EXCEPT ![t] = @ + 1]
  /\ pc' = [pc EXCEPT ![t] = "idle"]
  /\ UNCHANGED <<accessCounter, reg>>

Init ==
  /\ accessCounter = 0
  /\ pc = [t \in Threads |-> "idle"]
  /\ reg = [t \in Threads |-> 0]
  /\ stamp = [t \in Threads |-> 0]
  /\ calls = [t \in Threads |-> 0]

Next == \E t \in Threads : Load(t) \/ Store(t) \/ Return(t)

Spec == Init /\ [][Next]_vars

-----------------------------------------------------------------------------
TypeOK ==
  /\ accessCounter \in 0 .. TickMod - 1
  /\ pc \in [Threads -> {"idle", "add", "ret"}]
  /\ reg \in [Threads -> 0 .. TickMod - 1]
  /\ stamp \in [Threads -> 0 .. TickMod - 1]
  /\ calls \in [Threads -> 0 .. MaxCalls]

\* The "monotonically assigned access tick" of each slot (spec.md section 3)
\* on which getPage's least-recently-used scan relies: every accessTime()
\* call of one volume's cache returns a tick above the one its previous call
\* returned.  Section 5 argues that the volume lock makes an ordinary
\* increment enough; but that lock is per volume and the counter is not.
StampsIncrease ==
  [][\A t \in Threads : calls'[t] = calls[t] + 1 => stamp'[t] > stamp[t]]_vars
=============================================================================
