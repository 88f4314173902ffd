--------------------------- MODULE AtomicBroadcast ---------------------------
(***************************************************************************)
(* What Reactor::Broadcast promises (Reactor.hpp:168-176): the messages    *)
(* broadcast by all processes are put in one order, which extends the      *)
(* order in which each process sent its own, and every process calls its   *)
(* callbacks on the same messages in that order.  A process has at most    *)
(* one message of each tag under way: another is refused.                  *)
(***************************************************************************)
EXTENDS Integers, Sequences

CONSTANTS Proc, Tags,
          Values   \* what the messages carry

VARIABLES
  pending,     \* accepted from a process and not yet ordered, in its order
  order,       \* the order of the messages
  delivered    \* the messages each process has called its callback on

vars == <<pending, order, delivered>>

Messages == [root : Proc, tag : Tags, value : Values]

(* Messages of p with this tag that p itself has not been given back.       *)
UnderWay(p, t) ==
  \/ \E i \in DOMAIN pending[p] : pending[p][i].tag = t
  \/ \E n \in (Len(delivered[p]) + 1) .. Len(order) :
        order[n].root = p /\ order[n].tag = t

Init ==
  /\ pending = [p \in Proc |-> <<>>]
  /\ order = <<>>
  /\ delivered = [p \in Proc |-> <<>>]

Accept(p) ==
  \E m \in Messages :
    /\ m.root = p
    /\ ~ UnderWay(p, m.tag)
    /\ pending' = [pending EXCEPT ![p] = Append(@, m)]
    /\ UNCHANGED <<order, delivered>>

Order(p) ==
  /\ pending[p] # <<>>
  /\ order' = Append(order, Head(pending[p]))
  /\ pending' = [pending EXCEPT ![p] = Tail(@)]
  /\ UNCHANGED delivered

Deliver(p) ==
  /\ Len(delivered[p]) < Len(order)
  /\ delivered' = [delivered EXCEPT ![p] = Append(@, order[Len(@) + 1])]
  /\ UNCHANGED <<pending, order>>

Next == \E p \in Proc : Accept(p) \/ Order(p) \/ Deliver(p)

Spec == Init /\ [][Next]_vars
=============================================================================
