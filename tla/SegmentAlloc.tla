---------------------------- MODULE SegmentAlloc ----------------------------
(***************************************************************************)
(* Allocation in a shared memory segment by the processes of a node: the   *)
(* blocking loop of Variable::Allocate (and its two siblings) over         *)
(* Buffer::Allocate, WaitAvailable and Deallocate.  A segment is made of   *)
(* one block, or of several (CompositeShMem); each block has its allocator *)
(* and its size manager, a mutex with a condition.  A composite segment    *)
(* waits on the size manager of block 0 whichever block it waits for.      *)
(*                                                                         *)
(* Memory is counted in units.  The allocator (Boost) finds a contiguous   *)
(* range when there is one; which one is its own affair.                   *)
(***************************************************************************)
EXTENDS Integers, FiniteSets

CONSTANTS
  Procs,        \* the processes that allocate
  Size,         \* the size each of them asks for
  Blocking,     \* those that pass blocking = true
  Blocks,       \* blocks of the segment: nbseg_
  Capacity,     \* units of an empty block
  MaxSize,      \* size_manager_s::max, the allocator's own records included
  MaxCalls      \* bound: calls of Allocate per process

ASSUME SegmentOK ==
  /\ Size \in [Procs -> Nat \ {0}]
  /\ Blocking \subseteq Procs
  /\ Blocks \in Nat \ {0}
  /\ Capacity \in Nat \ {0}
  /\ MaxSize \in Nat /\ MaxSize >= Capacity
  /\ MaxCalls \in [Procs -> Nat]

VARIABLES
  pc,      \* where each process is
  at,      \* the block it has come to
  ds,      \* the DataSpace its loop holds; NoData before it has one
  mem,     \* the ranges allocated: block, first unit, length
  calls    \* calls of Allocate each process has begun

vars == <<pc, at, ds, mem, calls>>

NoData == [block |-> -1, first |-> 0, len |-> 0]

(* The mutex of block 0 is held from the test of the free memory to the    *)
(* wait, which gives it back.  Those of other blocks are held within one   *)
(* step only (Deallocate).                                                 *)
Locked == \E p \in Procs : pc[p] \in {"scan", "sleep"}

(* WaitAvailable is about to wait, or waiting, on the condition of block 0.*)
Sleeping(p) == pc[p] \in {"sleep", "asleep"}

(* get_free_memory of one block: its units that no allocated range covers. *)
FreeUnits(b) ==
  {u \in 0..Capacity-1 :
     \A r \in mem : r.block = b => u < r.first \/ r.first + r.len <= u}

FreeIn(b) == Cardinality(FreeUnits(b))

Fits(b, i, n) ==
  /\ i + n <= Capacity
  /\ \A r \in mem : r.block = b => i + n <= r.first \/ r.first + r.len <= i

(* Ranges whose process has returned from Allocate: they are the server's. *)
HandedOver == mem \ {ds[p] : p \in Procs}
----------------------------------------------------------------------------
Init ==
  /\ pc    = [p \in Procs |-> "idle"]
  /\ at    = [p \in Procs |-> 0]
  /\ ds    = [p \in Procs |-> NoData]
  /\ mem   = {}
  /\ calls = [p \in Procs |-> 0]

Goto(p, label, b) ==
  /\ pc' = [pc EXCEPT ![p] = label]
  /\ at' = [at EXCEPT ![p] = b]

(* A block is wanted: Allocate is called.                                  *)
Call(p) ==
  /\ pc[p] = "idle"
  /\ calls[p] < MaxCalls[p]
  /\ calls' = [calls EXCEPT ![p] = @ + 1]
  /\ Goto(p, "first", 0)
  /\ UNCHANGED <<ds, mem>>

(* Buffer::Allocate finds a range in the block it has come to.  The first  *)
(* attempt returns with it; the loop calls WaitAvailable before it looks   *)
(* at what it got.                                                         *)
Take(p) ==
  /\ pc[p] \in {"first", "again"}
  /\ \E i \in 0..Capacity-1 :
       LET r == [block |-> at[p], first |-> i, len |-> Size[p]]
       IN  /\ Fits(at[p], i, Size[p])
           /\ mem' = mem \cup {r}
           /\ ds' = IF pc[p] = "again" THEN [ds EXCEPT ![p] = r] ELSE ds
  /\ Goto(p, IF pc[p] = "first" THEN "idle" ELSE "wait", 0)
  /\ UNCHANGED calls

(* Variant: one block too many is tried.                                   *)
FullOffByOne(p) ==
  /\ pc[p] \in {"first", "again"}
  /\ \A i \in 0..Capacity-1 : ~ Fits(at[p], i, Size[p])
  /\ IF at[p] + 1 <= Blocks
     THEN Goto(p, pc[p], at[p] + 1)
     ELSE Goto(p, IF pc[p] = "again" THEN "wait"
                  ELSE IF p \in Blocking THEN "again" ELSE "idle", 0)
  /\ UNCHANGED <<ds, mem, calls>>

(* No range there: the next block, or the attempt has failed.              *)
Full(p) ==
  /\ pc[p] \in {"first", "again"}
  /\ \A i \in 0..Capacity-1 : ~ Fits(at[p], i, Size[p])
  /\ IF at[p] + 1 < Blocks
     THEN Goto(p, pc[p], at[p] + 1)
     ELSE Goto(p, IF pc[p] = "again" THEN "wait"
                  ELSE IF p \in Blocking THEN "again" ELSE "idle", 0)
  /\ UNCHANGED <<ds, mem, calls>>

(* WaitAvailable is over: the loop goes on, or Allocate returns.           *)
LeaveWait(p) ==
  /\ IF ds[p] = NoData THEN Goto(p, "again", 0) ELSE Goto(p, "idle", 0)
  /\ ds' = [ds EXCEPT ![p] = NoData]
  /\ UNCHANGED <<mem, calls>>

(* A size the block can never hold: nothing to wait for.                   *)
WaitRefused(p) ==
  /\ pc[p] = "wait"
  /\ Size[p] > MaxSize
  /\ LeaveWait(p)

(* Lock the size manager, to begin with or on the way out of the wait.     *)
Lock(p) ==
  /\ \/ pc[p] = "wait" /\ Size[p] <= MaxSize
     \/ pc[p] = "woken"
  /\ ~ Locked
  /\ Goto(p, "scan", 0)
  /\ UNCHANGED <<ds, mem, calls>>

(* GetFreeMemory reads the blocks one after the other, and no lock keeps   *)
(* the others' allocators still.                                           *)
Scan(p) ==
  /\ pc[p] = "scan"
  /\ IF Size[p] <= FreeIn(at[p])
     THEN LeaveWait(p)
     ELSE /\ IF at[p] + 1 < Blocks
             THEN Goto(p, "scan", at[p] + 1)
             ELSE Goto(p, "sleep", 0)
          /\ UNCHANGED <<ds, mem, calls>>

(* cond_size.wait gives the lock back and sleeps.  (A spurious wakeup only *)
(* makes the loop test the free memory once more; none is modelled.)       *)
Sleep(p) ==
  /\ pc[p] = "sleep"
  /\ Goto(p, "asleep", 0)
  /\ UNCHANGED <<ds, mem, calls>>

(* Free r under the lock of its own block, and notify some of those who    *)
(* wait on that block's condition.                                         *)
FreeAndNotify(r, notified) ==
  /\ r \in HandedOver
  /\ r.block = 0 => ~ Locked
  /\ mem' = mem \ {r}
  /\ pc' = [p \in Procs |-> IF p \in notified THEN "woken" ELSE pc[p]]
  /\ UNCHANGED <<at, ds, calls>>

Waiters(b) == {p \in Procs : b = 0 /\ pc[p] = "asleep"}

(* Variant: notify_one.                                                    *)
DeallocateNotifyOne(r) ==
  IF Waiters(r.block) = {}
  THEN FreeAndNotify(r, {})
  ELSE \E p \in Waiters(r.block) : FreeAndNotify(r, {p})

(* Variant: notify only when the block was full.                           *)
DeallocateNotifyIfFull(r) ==
  FreeAndNotify(r, IF FreeIn(r.block) = 0 THEN Waiters(r.block) ELSE {})

(* Deallocate, called by the server for a range it was given.              *)
Deallocate(r) == FreeAndNotify(r, Waiters(r.block))

Step(p) ==
  \/ Take(p)
  \/ Full(p)
  \/ WaitRefused(p)
  \/ Lock(p)
  \/ Scan(p)
  \/ Sleep(p)

Next ==
  \/ \E p \in Procs : Call(p) \/ Step(p)
  \/ \E r \in mem : Deallocate(r)

SafeSpec == Init /\ [][Next]_vars

Ranges == [block : 0..Blocks-1, first : 0..Capacity-1, len : 1..Capacity]

(* A process in Allocate runs on, and the server frees what it was given.  *)
(* The mutex starves nobody: whoever asks for it gets it in the end, were  *)
(* it taken and given back again and again by a process that finds enough  *)
(* memory, but in pieces, and so loops.                                    *)
Fairness ==
  /\ \A p \in Procs : WF_vars(Step(p))
  /\ \A p \in Blocking : SF_vars(Lock(p))
  /\ SF_vars(\E r \in mem : Deallocate(r))

Spec == SafeSpec /\ Fairness
----------------------------------------------------------------------------
Labels == {"idle", "first", "again", "wait", "scan", "sleep", "asleep", "woken"}

TypeOK ==
  /\ pc \in [Procs -> Labels]
  /\ at \in [Procs -> 0..Blocks-1]
  /\ ds \in [Procs -> Ranges \cup {NoData}]
  /\ mem \subseteq Ranges
  /\ calls \in [Procs -> Nat] /\ \A p \in Procs : calls[p] <= MaxCalls[p]

(* No wakeup is lost: a process that waits for memory, or has made up its  *)
(* mind to, finds too little of it in every block of the segment           *)
(* (Buffer.hpp:108-109: WaitAvailable waits until enough is available).    *)
NoSleeperMissed ==
  \A p \in Procs : Sleeping(p) =>
    \A b \in 0..Blocks-1 : FreeIn(b) < Size[p]

(* A blocking Allocate of a size the segment can hold returns              *)
(* (Variable.hpp:215: it blocks if the memory is full), the server freeing *)
(* what it is given.                                                       *)
EveryAllocationReturns ==
  \A p \in Procs :
    Size[p] <= Capacity => (pc[p] # "idle" ~> pc[p] = "idle")
============================================================================
