---------------------------- MODULE SyncBarrier ----------------------------
(***************************************************************************)
(* What Reactor::Sync promises its callers (Reactor.hpp:156-167), with no  *)
(* tree and no messages: a barrier per tag.  arrived[p][t] counts the      *)
(* synchronisations on tag t that process p has started, released[p][t]    *)
(* the callbacks for t that have run at p.                                 *)
(***************************************************************************)
EXTENDS Naturals

CONSTANTS Proc,   \* the processes of the communicator
          Tags    \* the tags they synchronise on

VARIABLES arrived, released

vars == <<arrived, released>>

Init ==
  /\ arrived  = [p \in Proc |-> [t \in Tags |-> 0]]
  /\ released = [p \in Proc |-> [t \in Tags |-> 0]]

(* A process that is not already waiting on t starts to wait on it.        *)
Arrive(p, t) ==
  /\ arrived[p][t] = released[p][t]
  /\ arrived' = [arrived EXCEPT ![p][t] = @ + 1]
  /\ UNCHANGED released

(* The callback may run at p once every process has arrived for it.        *)
Release(p, t) ==
  /\ \A q \in Proc : released[p][t] < arrived[q][t]
  /\ released' = [released EXCEPT ![p][t] = @ + 1]
  /\ UNCHANGED arrived

Next == \E p \in Proc, t \in Tags : Arrive(p, t) \/ Release(p, t)

SafeSpec == Init /\ [][Next]_vars

Spec == SafeSpec /\ \A p \in Proc, t \in Tags : WF_vars(Release(p, t))
============================================================================
