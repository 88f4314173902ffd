---------------------------- MODULE ReactorSync ----------------------------
(***************************************************************************)
(* MPI2Reactor::Sync: a reduction up a tree of processes (SYNC messages)   *)
(* followed by a wave down it (SYNC_WAVE), per tag.  One action per call   *)
(* of Sync and per execution of SyncCallback; a process is single-threaded *)
(* and runs one handler at a time (Reactor::RunOne), so a handler is one   *)
(* step: its sends come from p's own state and no handler reads another    *)
(* process's state.                                                        *)
(*                                                                         *)
(* SYNC messages carry only a tag, and two of them with the same tag are   *)
(* the same message, so those from a process to its parent are counted per *)
(* tag.  The order of SYNC_WAVEs matters and each process's channel from   *)
(* its parent is a FIFO (one receive is posted at a time, MPI delivers in  *)
(* order).                                                                 *)
(***************************************************************************)
EXTENDS Integers, Sequences, FiniteSets

CONSTANTS Size,      \* processes in the communicator: size_
          Radix,     \* children per process in the tree: radix_
          Tags,      \* tags passed to Sync, none of them SYNC_WAVE
          MaxCalls   \* bound: calls of Sync per process, by tag

ASSUME ConstantsOK ==
  /\ Size \in Nat \ {0}
  /\ Radix \in Nat \ {0}
  /\ MaxCalls \in [Tags -> Nat]

VARIABLES
  syncTags,   \* sync_tags_: tags this process is waiting on
  counter,    \* sync_counters_: contributions received; absent is 0
  pending,    \* pending_sync_tags_: calls made while already waiting
  up,         \* SYNC messages in flight from a process to its parent, by tag
  down,       \* SYNC_WAVE tags in flight from the parent (rank 0: from itself)
  done,       \* history: callbacks run, by tag
  log         \* history: the tags of the callbacks run, in order

vars == <<syncTags, counter, pending, up, down, done, log>>

Proc == 0 .. Size - 1

Children(p) == {c \in Proc : \E i \in 1..Radix : c = Radix * p + i}

Parent(p) == IF p = 0 THEN 0 ELSE (p - 1) \div Radix

(* Variant: the process forgets to count itself.                           *)
CriticalMassChildrenOnly(p) == Cardinality(Children(p))

CriticalMass(p) == Cardinality(Children(p)) + 1

(* Synchronisations on t that p has started: those whose callback has run, *)
(* and the one it is waiting for.                                          *)
Started(p, t) == done[p][t] + (IF t \in syncTags[p] THEN 1 ELSE 0)

(* Calls p has made: the started ones and those put aside.                 *)
Calls(p, t) == Started(p, t) + pending[p][t]
----------------------------------------------------------------------------
Init ==
  /\ syncTags = [p \in Proc |-> {}]
  /\ counter  = [p \in Proc |-> [t \in Tags |-> 0]]
  /\ pending  = [p \in Proc |-> [t \in Tags |-> 0]]
  /\ up       = [p \in Proc |-> [t \in Tags |-> 0]]
  /\ down     = [p \in Proc |-> <<>>]
  /\ done     = [p \in Proc |-> [t \in Tags |-> 0]]
  /\ log      = [p \in Proc |-> <<>>]

(* One more contribution to t at p, with sent SYNCs left in flight.  At    *)
(* the critical mass p reports to its parent; rank 0, which is its own     *)
(* parent, starts the wave by sending it to itself.                        *)
Contribute(p, t, sent) ==
  /\ counter' = [counter EXCEPT ![p][t] = @ + 1]
  /\ IF counter[p][t] + 1 = CriticalMass(p)
     THEN IF p = 0
          THEN /\ down' = [down EXCEPT ![0] = Append(@, t)]
               /\ up' = sent
          ELSE /\ up' = [sent EXCEPT ![p][t] = @ + 1]
               /\ UNCHANGED down
     ELSE /\ up' = sent
          /\ UNCHANGED down

(* Sync(tag) while a synchronisation on the tag is under way: put aside.   *)
SyncPending(p, t) ==
  /\ Calls(p, t) < MaxCalls[t]
  /\ t \in syncTags[p]
  /\ pending' = [pending EXCEPT ![p][t] = @ + 1]
  /\ UNCHANGED <<syncTags, counter, up, down, done, log>>

(* Sync(tag) otherwise.                                                    *)
SyncStart(p, t) ==
  /\ Calls(p, t) < MaxCalls[t]
  /\ t \notin syncTags[p]
  /\ syncTags' = [syncTags EXCEPT ![p] = @ \cup {t}]
  /\ Contribute(p, t, up)
  /\ UNCHANGED <<pending, done, log>>

(* SyncCallback for a SYNC sent by child c.                                *)
OnSync(c, t) ==
  /\ c # 0
  /\ up[c][t] > 0
  /\ Contribute(Parent(c), t, [up EXCEPT ![c][t] = @ - 1])
  /\ UNCHANGED <<syncTags, pending, done, log>>

(* Variant: the counter outlives the round.                                *)
OnWaveCounterKept(p) ==
  /\ down[p] # <<>>
  /\ LET t == Head(down[p])
     IN  /\ down' = [q \in Proc |-> IF q = p THEN Tail(down[p])
                                    ELSE IF q \in Children(p)
                                         THEN Append(down[q], t)
                                         ELSE down[q]]
         /\ done' = [done EXCEPT ![p][t] = @ + 1]
         /\ log'  = [log EXCEPT ![p] = Append(@, t)]
         /\ syncTags' = [syncTags EXCEPT ![p] = @ \ {t}]
  /\ UNCHANGED <<counter, pending, up>>

(* Variant: several receives posted on the parent's channel, completed in  *)
(* any order.                                                              *)
OnWaveAnyOrder(p) ==
  \E i \in DOMAIN down[p] :
    LET t == down[p][i]
    IN  /\ down' = [q \in Proc |->
             IF q = p
             THEN SubSeq(down[p], 1, i-1) \o SubSeq(down[p], i+1, Len(down[p]))
             ELSE IF q \in Children(p) THEN Append(down[q], t) ELSE down[q]]
        /\ done' = [done EXCEPT ![p][t] = @ + 1]
        /\ log'  = [log EXCEPT ![p] = Append(@, t)]
        /\ counter'  = [counter EXCEPT ![p][t] = 0]
        /\ syncTags' = [syncTags EXCEPT ![p] = @ \ {t}]
        /\ UNCHANGED <<pending, up>>

(* Variant: a call put aside is taken back without looking for one.        *)
OnWavePendingUnchecked(p) ==
  /\ down[p] # <<>>
  /\ LET t == Head(down[p])
     IN  /\ down' = [q \in Proc |-> IF q = p THEN Tail(down[p])
                                    ELSE IF q \in Children(p)
                                         THEN Append(down[q], t)
                                         ELSE down[q]]
         /\ done' = [done EXCEPT ![p][t] = @ + 1]
         /\ log'  = [log EXCEPT ![p] = Append(@, t)]
         /\ counter'  = [counter EXCEPT ![p][t] = 0]
         /\ syncTags' = [syncTags EXCEPT ![p] = @ \ {t}]
         /\ pending'  = [pending EXCEPT ![p][t] = @ - 1]
  /\ UNCHANGED up

(* SyncCallback for a SYNC_WAVE: forward it, run the callback, forget the  *)
(* tag.  The code then looks for a call put aside under the key tag, which *)
(* here is SYNC_WAVE, and not under info->tag: it never finds one.         *)
OnWave(p) ==
  /\ down[p] # <<>>
  /\ LET t == Head(down[p])
     IN  /\ down' = [q \in Proc |-> IF q = p THEN Tail(down[p])
                                    ELSE IF q \in Children(p)
                                         THEN Append(down[q], t)
                                         ELSE down[q]]
         /\ done' = [done EXCEPT ![p][t] = @ + 1]
         /\ log'  = [log EXCEPT ![p] = Append(@, t)]
         /\ counter'  = [counter EXCEPT ![p][t] = 0]
         /\ syncTags' = [syncTags EXCEPT ![p] = @ \ {t}]
  /\ UNCHANGED <<pending, up>>

Next ==
  \/ \E p \in Proc, t \in Tags : SyncPending(p, t)
  \/ \E p \in Proc, t \in Tags : SyncStart(p, t)
  \/ \E c \in Proc, t \in Tags : OnSync(c, t)
  \/ \E p \in Proc : OnWave(p)

SafeSpec == Init /\ [][Next]_vars

(* Every process keeps running its reactor (Reactor::Run, RunOne), and the *)
(* messages of a round are finitely many, so each of them is handled.      *)
(* Nobody is obliged to call Sync.                                         *)
Fairness ==
  /\ \A c \in Proc, t \in Tags : WF_vars(OnSync(c, t))
  /\ \A p \in Proc : WF_vars(OnWave(p))

Spec == SafeSpec /\ Fairness
----------------------------------------------------------------------------
TypeOK ==
  /\ syncTags \in [Proc -> SUBSET Tags]
  /\ counter \in [Proc -> [Tags -> Nat]]
  /\ pending \in [Proc -> [Tags -> Nat]]
  /\ up \in [Proc -> [Tags -> Nat]]
  /\ down \in [Proc -> Seq(Tags)]
  /\ done \in [Proc -> [Tags -> Nat]]
  /\ log \in [Proc -> Seq(Tags)]

(* The state of a round on t, which ReactorSyncProofs shows inductive.      *)
WaveComing(p, t) == \E i \in DOMAIN down[p] : down[p][i] = t

Complete(p, t) == counter[p][t] = CriticalMass(p)

(* Parent(c) has counted c in the round that both are in.                  *)
Counted(c, t) ==
  /\ done[c][t] = done[Parent(c)][t]
  /\ Complete(c, t)
  /\ up[c][t] = 0

CountedChildren(p, t) == {c \in Children(p) : Counted(c, t)}

(* A process is behind its parent by the wave that is on its way.          *)
WaveInv ==
  \A p \in Proc, t \in Tags :
    p # 0 => done[Parent(p)][t] = done[p][t] + (IF WaveComing(p, t) THEN 1 ELSE 0)

(* A wave comes once, to a process whose whole subtree has reported.       *)
OnceInv ==
  \A p \in Proc : \A i, j \in DOMAIN down[p] : down[p][i] = down[p][j] => i = j

ComingInv ==
  \A p \in Proc, t \in Tags :
    /\ WaveComing(p, t) => Complete(p, t) /\ up[p][t] = 0
    /\ p = 0 /\ Complete(p, t) => WaveComing(p, t)

(* One SYNC per round, sent by a complete process.                         *)
UpInv ==
  \A p \in Proc, t \in Tags :
    /\ up[p][t] \in {0, 1}
    /\ up[p][t] = 1 => p # 0 /\ Complete(p, t)

(* A counter counts the process itself once it waits, and each child that  *)
(* has reported.                                                           *)
CountInv ==
  \A p \in Proc, t \in Tags :
    counter[p][t] = Cardinality(CountedChildren(p, t))
                      + (IF t \in syncTags[p] THEN 1 ELSE 0)

(* Nobody's round is behind the root's.                                    *)
RootInv == \A q \in Proc, t \in Tags : done[0][t] <= Started(q, t)

(* What a process has run and what is coming is what its parent has run.   *)
LogInv == \A p \in Proc : p # 0 => log[Parent(p)] = log[p] \o down[p]

(* The rounds are well kept at every process of the tree: the invariant    *)
(* behind the three properties that follow (MPI2Reactor::SyncCallback).    *)
RoundInv ==
  /\ WaveInv
  /\ OnceInv
  /\ ComingInv
  /\ UpInv
  /\ CountInv
  /\ RootInv
  /\ LogInv

(* No callback is early: when a callback for t has run k times at some     *)
(* process, every process has started at least k synchronisations on t,    *)
(* through however many levels of the tree the news had to travel.         *)
NoEarlyCallback ==
  \A p, q \in Proc, t \in Tags : done[p][t] <= Started(q, t)

(* All processes run the callbacks of different tags in the same order,    *)
(* whatever order each of them called Sync in (Reactor.hpp:156-166).       *)
PrefixOf(s, u) ==
  /\ Len(s) <= Len(u)
  /\ \A i \in 1..Len(s) : s[i] = u[i]

UniformOrder ==
  \A p, q \in Proc : PrefixOf(log[p], log[q]) \/ PrefixOf(log[q], log[p])

(* The tree reactor implements the barrier: a call that is put aside and   *)
(* every message but the wave's arrival are steps the barrier cannot see.  *)
Barrier == INSTANCE SyncBarrier
             WITH arrived  <- [p \in Proc |-> [t \in Tags |-> Started(p, t)]],
                  released <- done

ImplementsBarrier == Barrier!Spec

(* When all processes have called Sync k times with a tag, its callback    *)
(* runs for the k-th time everywhere (Reactor.hpp:156-166, and the comment *)
(* at MPI2Reactor.cpp:201-202 that a call put aside is initiated).         *)
EveryCallAnswered ==
  \A t \in Tags : \A k \in 1..MaxCalls[t] :
    (\A q \in Proc : Calls(q, t) >= k) ~> (\A p \in Proc : done[p][t] >= k)
============================================================================
