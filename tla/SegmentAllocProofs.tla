------------------------- MODULE SegmentAllocProofs -------------------------
(***************************************************************************)
(* Proofs about SegmentAlloc, for every number of processes, of blocks and *)
(* of units: its type invariant, and that no process sleeps on block 0's   *)
(* condition while block 0 has the memory it wants.  With one block that   *)
(* is NoSleeperMissed; with several the run segment_composite refutes it,  *)
(* and what is left is what is proved here of block 0.                     *)
(***************************************************************************)
EXTENDS SegmentAlloc, FiniteSetTheorems, TLAPS

(* Variable.hpp:215, SharedMemorySegment.cpp:343-393: every step leaves    *)
(* each process at a place of the loop and every range inside its block.   *)
LEMMA TypeStep == TypeOK /\ [Next]_vars => TypeOK'
<1> SUFFICES ASSUME TypeOK, [Next]_vars PROVE TypeOK'
  OBVIOUS
<1> USE SegmentOK
<1>1. Blocks - 1 \in Nat /\ Capacity - 1 \in Nat /\ 0 \in 0..Blocks-1
  OBVIOUS
<1>2. ASSUME NEW p \in Procs, Call(p) PROVE TypeOK'
  BY <1>1, <1>2 DEF TypeOK, Call, Goto, Labels
<1>3. ASSUME NEW p \in Procs, Take(p) PROVE TypeOK'
  <2>1. PICK i \in 0..Capacity-1 :
          /\ Fits(at[p], i, Size[p])
          /\ mem' = mem \cup {[block |-> at[p], first |-> i, len |-> Size[p]]}
          /\ ds' = IF pc[p] = "again"
                   THEN [ds EXCEPT ![p] =
                           [block |-> at[p], first |-> i, len |-> Size[p]]]
                   ELSE ds
    BY <1>3 DEF Take
  <2> DEFINE r == [block |-> at[p], first |-> i, len |-> Size[p]]
  <2>2. at[p] \in 0..Blocks-1 /\ Size[p] \in 1..Capacity
    BY <2>1 DEF TypeOK, Fits
  <2>3. r \in Ranges
    BY <2>2 DEF Ranges
  <2> HIDE DEF r
  <2>4. mem' \subseteq Ranges /\ ds' \in [Procs -> Ranges \cup {NoData}]
    BY <2>1, <2>3 DEF TypeOK, r
  <2>5. QED
    BY <1>1, <1>3, <2>4 DEF TypeOK, Take, Goto, Labels
<1>4. ASSUME NEW p \in Procs, Full(p) PROVE TypeOK'
  BY <1>1, <1>4 DEF TypeOK, Full, Goto, Labels
<1>5. ASSUME NEW p \in Procs, LeaveWait(p) PROVE TypeOK'
  BY <1>1, <1>5 DEF TypeOK, LeaveWait, Goto, Labels
<1>6. ASSUME NEW p \in Procs, Lock(p) PROVE TypeOK'
  BY <1>1, <1>6 DEF TypeOK, Lock, Goto, Labels
<1>7. ASSUME NEW p \in Procs, Scan(p) PROVE TypeOK'
  <2>1. CASE Size[p] <= FreeIn(at[p])
    BY <1>5, <1>7, <2>1 DEF Scan
  <2>2. CASE ~ (Size[p] <= FreeIn(at[p]))
    BY <1>1, <1>7, <2>2 DEF TypeOK, Scan, Goto, Labels
  <2>3. QED
    BY <2>1, <2>2
<1>8. ASSUME NEW p \in Procs, Sleep(p) PROVE TypeOK'
  BY <1>1, <1>8 DEF TypeOK, Sleep, Goto, Labels
<1>9. ASSUME NEW r \in mem, Deallocate(r) PROVE TypeOK'
  BY <1>9 DEF TypeOK, Deallocate, FreeAndNotify, Labels
<1>10. CASE UNCHANGED vars
  BY <1>10 DEF TypeOK, vars
<1>11. QED
  BY <1>2, <1>3, <1>4, <1>5, <1>6, <1>7, <1>8, <1>9, <1>10
     DEF Next, Step, WaitRefused

(* Variable.hpp:215, SharedMemorySegment.cpp:73-110: a segment starts      *)
(* empty, and keeps its types from there.                                  *)
THEOREM SegmentTypeCorrect == SafeSpec => []TypeOK
<1>1. Init => TypeOK
  BY SegmentOK DEF Init, TypeOK, Labels
<1>2. QED
  BY <1>1, TypeStep, PTL DEF SafeSpec

-----------------------------------------------------------------------------
(* SharedMemorySegment.cpp:374-377: get_free_memory is a number, and the   *)
(* more is allocated the smaller it is.                                    *)
LEMMA FreeIsFinite ==
  ASSUME NEW b
  PROVE  IsFiniteSet(FreeUnits(b)) /\ FreeIn(b) \in Nat
<1>1. IsFiniteSet(0..Capacity-1)
  BY SegmentOK, FS_Interval
<1>2. FreeUnits(b) \subseteq 0..Capacity-1
  BY DEF FreeUnits
<1>3. QED
  BY <1>1, <1>2, FS_Subset, FS_CardinalityType DEF FreeIn

LEMMA FreeShrinks ==
  ASSUME NEW b, mem \subseteq mem'
  PROVE  /\ FreeIn(b)' \in Nat
         /\ FreeIn(b)' <= FreeIn(b)
<1>1. FreeUnits(b)' \subseteq FreeUnits(b)
  BY DEF FreeUnits
<1>2. QED
  BY <1>1, FreeIsFinite, FS_Subset, FS_CardinalityType DEF FreeIn

(* A process that sleeps, has made up its mind to, or has passed block 0   *)
(* in its tour of the blocks, wants more than block 0 has: it looked at    *)
(* block 0 under the lock it still holds or has slept ever since           *)
(* (SharedMemorySegment.cpp:384-393), and Deallocate wakes every sleeper.  *)
PassedBlock0(p) == pc[p] = "scan" /\ at[p] > 0

SleepersMissNothing ==
  \A p \in Procs :
    Sleeping(p) \/ PassedBlock0(p) => FreeIn(0) < Size[p]

(* One step of the tour, and of every other process around it.             *)
LEMMA SleepersStep ==
  TypeOK /\ SleepersMissNothing /\ [Next]_vars => SleepersMissNothing'
<1> SUFFICES ASSUME TypeOK, SleepersMissNothing, [Next]_vars,
                    NEW q \in Procs, (Sleeping(q) \/ PassedBlock0(q))'
             PROVE  FreeIn(0)' < Size[q]
  BY DEF SleepersMissNothing
<1> USE SegmentOK
<1>0. FreeIn(0) \in Nat /\ Size[q] \in Nat
  BY FreeIsFinite
<1>1. ASSUME mem \subseteq mem', Sleeping(q) \/ PassedBlock0(q)
      PROVE  FreeIn(0)' < Size[q]
  <2>1. FreeIn(0) < Size[q]
    BY <1>1 DEF SleepersMissNothing
  <2>2. FreeIn(0)' \in Nat /\ FreeIn(0)' <= FreeIn(0)
    BY <1>1, FreeShrinks
  <2>3. QED
    BY <1>0, <2>1, <2>2
<1>2. ASSUME NEW p \in Procs, Call(p) PROVE FreeIn(0)' < Size[q]
  BY <1>1, <1>2 DEF Call, Goto, Sleeping, PassedBlock0, TypeOK
<1>3. ASSUME NEW p \in Procs, Take(p) PROVE FreeIn(0)' < Size[q]
  BY <1>1, <1>3 DEF Take, Goto, Sleeping, PassedBlock0, TypeOK
<1>4. ASSUME NEW p \in Procs, Full(p) PROVE FreeIn(0)' < Size[q]
  BY <1>1, <1>4 DEF Full, Goto, Sleeping, PassedBlock0, TypeOK
<1>5. ASSUME NEW p \in Procs, LeaveWait(p) PROVE FreeIn(0)' < Size[q]
  BY <1>1, <1>5 DEF LeaveWait, Goto, Sleeping, PassedBlock0, TypeOK
<1>6. ASSUME NEW p \in Procs, Lock(p) PROVE FreeIn(0)' < Size[q]
  BY <1>1, <1>6 DEF Lock, Goto, Sleeping, PassedBlock0, TypeOK
<1>7. ASSUME NEW p \in Procs, Scan(p) PROVE FreeIn(0)' < Size[q]
  <2>1. CASE Size[p] <= FreeIn(at[p])
    BY <1>5, <1>7, <2>1 DEF Scan
  <2>2. CASE ~ (Size[p] <= FreeIn(at[p])) /\ q # p
    BY <1>1, <1>7, <2>2 DEF Scan, Goto, Sleeping, PassedBlock0, TypeOK
  <2>3. CASE ~ (Size[p] <= FreeIn(at[p])) /\ q = p /\ at[p] = 0
    <3>1. mem' = mem
      BY <1>7, <2>3 DEF Scan
    <3>2. FreeIn(0)' <= FreeIn(0) /\ FreeIn(0)' \in Nat
      BY <3>1, FreeShrinks
    <3>3. QED
      BY <1>0, <2>3, <3>2
  <2>4. CASE ~ (Size[p] <= FreeIn(at[p])) /\ q = p /\ at[p] # 0
    <3>1. PassedBlock0(q)
      BY <1>7, <2>4 DEF Scan, PassedBlock0, TypeOK
    <3>2. mem' = mem
      BY <1>7, <2>4 DEF Scan
    <3>3. QED
      BY <1>1, <3>1, <3>2
  <2>5. QED
    BY <2>1, <2>2, <2>3, <2>4
<1>8. ASSUME NEW p \in Procs, Sleep(p) PROVE FreeIn(0)' < Size[q]
  BY <1>1, <1>8 DEF Sleep, Goto, Sleeping, PassedBlock0, TypeOK
<1>9. ASSUME NEW r \in mem, Deallocate(r) PROVE FreeIn(0)' < Size[q]
  <2>1. Sleeping(q) \/ PassedBlock0(q)
    BY <1>9 DEF Deallocate, FreeAndNotify, Sleeping, PassedBlock0
  <2>2. r.block # 0
    <3> SUFFICES ASSUME r.block = 0 PROVE FALSE
      OBVIOUS
    <3>1. pc[q] \notin {"scan", "sleep"}
      BY <1>9 DEF Deallocate, FreeAndNotify, Locked
    <3>2. pc[q] = "asleep"
      BY <2>1, <3>1 DEF Sleeping, PassedBlock0
    <3>3. pc'[q] = "woken"
      BY <1>9, <3>2 DEF Deallocate, FreeAndNotify, Waiters
    <3>4. QED
      BY <3>3 DEF Sleeping, PassedBlock0
  <2>3. FreeUnits(0)' = FreeUnits(0)
    BY <1>9, <2>2 DEF Deallocate, FreeAndNotify, FreeUnits
  <2>4. QED
    BY <2>1, <2>3 DEF SleepersMissNothing, FreeIn
<1>10. CASE UNCHANGED vars
  BY <1>1, <1>10 DEF vars, Sleeping, PassedBlock0
<1>11. QED
  BY <1>2, <1>3, <1>4, <1>5, <1>6, <1>7, <1>8, <1>9, <1>10
     DEF Next, Step, WaitRefused

(* Buffer.hpp:108-109, SharedMemorySegment.cpp:384-393: whatever the       *)
(* number of blocks, no process waits on block 0's condition while block 0 *)
(* could give it what it waits for.                                        *)
THEOREM NobodySleepsOnFreeMemory == SafeSpec => []SleepersMissNothing
<1>1. Init => SleepersMissNothing
  BY DEF Init, SleepersMissNothing, Sleeping, PassedBlock0
<1>2. QED
  BY <1>1, SleepersStep, SegmentTypeCorrect, PTL DEF SafeSpec

(* Buffer.hpp:108-109: in a segment of one block no wakeup is lost.        *)
THEOREM NoWakeupIsLost ==
  ASSUME Blocks = 1
  PROVE  SafeSpec => []NoSleeperMissed
<1>1. SleepersMissNothing => NoSleeperMissed
  <2>1. \A b \in 0..Blocks-1 : b = 0
    OBVIOUS
  <2>2. QED
    BY <2>1 DEF SleepersMissNothing, NoSleeperMissed
<1>2. QED
  BY <1>1, NobodySleepsOnFreeMemory, PTL
=============================================================================
