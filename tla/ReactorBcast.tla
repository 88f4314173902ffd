---------------------------- MODULE ReactorBcast ----------------------------
(***************************************************************************)
(* MPI2Reactor::Broadcast.  The caller keeps its buffer and announces the  *)
(* message to rank 0 (BCAST); rank 0 puts the announcements in order and   *)
(* sends each down the tree; a process that receives one passes it on,     *)
(* then enters a blocking MPI_Bcast from the message's root, and calls the *)
(* callback of its tag when it comes out.                                  *)
(*                                                                         *)
(* A process is single-threaded: inside MPI_Bcast it does nothing else.    *)
(* The n-th MPI_Bcast of a process on the communicator is matched with the *)
(* n-th of the others.  The root may come out of it at once and the others *)
(* as soon as it has entered; MPI promises to let a process out only when  *)
(* all have entered.                                                       *)
(***************************************************************************)
EXTENDS Integers, Sequences

CONSTANTS Size,          \* processes in the communicator: size_
          Radix,         \* children per process in the tree: radix_
          Tags,          \* tags bound to a callback
          MaxBroadcasts  \* bound: calls of Broadcast per process

ASSUME BcastOK ==
  /\ Size \in Nat \ {0}
  /\ Radix \in Nat \ {0}
  /\ MaxBroadcasts \in Nat

VARIABLES
  made,       \* calls of Broadcast; the k-th of a process carries k
  buffer,     \* bcast_buffers_, by tag; absent is 0
  toLeader,   \* BCAST messages from a process to rank 0, in order
  toChild,    \* BCAST messages from the parent, in order
  entered,    \* history: the MPI_Bcast calls entered
  brought,    \* history: the buffer brought to each of them, 0 but at its root
  called      \* history: the callbacks called, with what they were given

bcastVars == <<made, buffer, toLeader, toChild, entered, brought, called>>

Proc == 0 .. Size - 1

Children(p) == {c \in Proc : \E i \in 1..Radix : c = Radix * p + i}

Parent(p) == (p - 1) \div Radix

(* A message: its root, its tag, and as history what the root gave to      *)
(* Broadcast, which stays in the buffer of the root until MPI_Bcast.       *)
Messages == [root : Proc, tag : Tags, value : 1..MaxBroadcasts]

InBcast(p) == Len(called[p]) < Len(entered[p])

Init ==
  /\ made     = [p \in Proc |-> 0]
  /\ buffer   = [p \in Proc |-> [t \in Tags |-> 0]]
  /\ toLeader = [p \in Proc |-> <<>>]
  /\ toChild  = [p \in Proc |-> <<>>]
  /\ entered  = [p \in Proc |-> <<>>]
  /\ brought  = [p \in Proc |-> <<>>]
  /\ called   = [p \in Proc |-> <<>>]
----------------------------------------------------------------------------
MayBroadcast(p) == made[p] < MaxBroadcasts /\ ~ InBcast(p)

(* Broadcast(tag) returns false: the last one with this tag is not back.   *)
BroadcastRefused(p, t) ==
  /\ MayBroadcast(p)
  /\ buffer[p][t] # 0
  /\ made' = [made EXCEPT ![p] = @ + 1]
  /\ UNCHANGED <<buffer, toLeader, toChild, entered, brought, called>>

(* Variant: the tag is not looked up first (insert keeps the old buffer).  *)
BroadcastUnchecked(p, t) ==
  /\ MayBroadcast(p)
  /\ made' = [made EXCEPT ![p] = @ + 1]
  /\ buffer' = [buffer EXCEPT ![p][t] = IF @ = 0 THEN made[p] + 1 ELSE @]
  /\ toLeader' = [toLeader EXCEPT ![p] =
                    Append(@, [root |-> p, tag |-> t, value |-> made[p] + 1])]
  /\ UNCHANGED <<toChild, entered, brought, called>>

(* Broadcast(tag) otherwise.                                               *)
Broadcast(p, t) ==
  /\ MayBroadcast(p)
  /\ buffer[p][t] = 0
  /\ made' = [made EXCEPT ![p] = @ + 1]
  /\ buffer' = [buffer EXCEPT ![p][t] = made[p] + 1]
  /\ toLeader' = [toLeader EXCEPT ![p] =
                    Append(@, [root |-> p, tag |-> t, value |-> made[p] + 1])]
  /\ UNCHANGED <<toChild, entered, brought, called>>

(* The message is passed to the children of p.                             *)
Forward(p, m, queues) ==
  toChild' = [q \in Proc |-> IF q \in Children(p) THEN Append(queues[q], m)
                                                  ELSE queues[q]]

(* p enters MPI_Bcast for m; the root takes its buffer for it.             *)
Enter(p, m) ==
  /\ entered' = [entered EXCEPT ![p] = Append(@, m)]
  /\ brought' = [brought EXCEPT ![p] =
                   Append(@, IF p = m.root THEN buffer[p][m.tag] ELSE 0)]
  /\ buffer' = IF p = m.root THEN [buffer EXCEPT ![p][m.tag] = 0] ELSE buffer
  /\ UNCHANGED <<made, called>>

(* BcastCallback at rank 0, for a message of q: its receive takes messages *)
(* of anybody.                                                             *)
LeaderCallback(q) ==
  /\ ~ InBcast(0)
  /\ toLeader[q] # <<>>
  /\ LET m == Head(toLeader[q])
     IN  Forward(0, m, toChild) /\ Enter(0, m)
  /\ toLeader' = [toLeader EXCEPT ![q] = Tail(@)]

(* Variant: several receives are posted on the parent's channel.           *)
ChildCallbackAnyOrder(p) ==
  /\ p # 0
  /\ ~ InBcast(p)
  /\ \E i \in DOMAIN toChild[p] :
       LET m == toChild[p][i]
       IN  /\ Forward(p, m, [toChild EXCEPT ![p] =
                               SubSeq(@, 1, i-1) \o SubSeq(@, i+1, Len(@))])
           /\ Enter(p, m)
  /\ UNCHANGED toLeader

(* Variant: a process does not pass the message on.                        *)
ChildCallbackNotForwarding(p) ==
  /\ p # 0
  /\ ~ InBcast(p)
  /\ toChild[p] # <<>>
  /\ Enter(p, Head(toChild[p]))
  /\ toChild' = [toChild EXCEPT ![p] = Tail(@)]
  /\ UNCHANGED toLeader

(* BcastCallback elsewhere.                                                *)
ChildCallback(p) ==
  /\ p # 0
  /\ ~ InBcast(p)
  /\ toChild[p] # <<>>
  /\ LET m == Head(toChild[p])
     IN  Forward(p, m, [toChild EXCEPT ![p] = Tail(@)]) /\ Enter(p, m)
  /\ UNCHANGED toLeader

(* The MPI_Bcast that p is in, and its root as p knows it.                 *)
Current(p) == entered[p][Len(entered[p])]

RootIn(p) == Len(entered[Current(p).root]) >= Len(entered[p])

AllIn(p) == \A q \in Proc : Len(entered[q]) >= Len(entered[p])

(* p comes out of MPI_Bcast with what the root brought to its call of the  *)
(* same number, and calls the callback.                                    *)
Call(p) ==
  /\ InBcast(p)
  /\ RootIn(p)
  /\ called' = [called EXCEPT ![p] =
       Append(@, [Current(p) EXCEPT
                    !.value = brought[Current(p).root][Len(entered[p])]])]
  /\ UNCHANGED <<made, buffer, toLeader, toChild, entered, brought>>

Callback(p) ==
  \/ p = 0 /\ \E q \in Proc : LeaderCallback(q)
  \/ ChildCallback(p)

Next ==
  \/ \E p \in Proc, t \in Tags : BroadcastRefused(p, t)
  \/ \E p \in Proc, t \in Tags : Broadcast(p, t)
  \/ \E q \in Proc : LeaderCallback(q)
  \/ \E p \in Proc : ChildCallback(p)
  \/ \E p \in Proc : Call(p)

Spec == Init /\ [][Next]_bcastVars
----------------------------------------------------------------------------
TypeOK ==
  /\ made \in [Proc -> 0..MaxBroadcasts]
  /\ buffer \in [Proc -> [Tags -> 0..MaxBroadcasts]]
  /\ toLeader \in [Proc -> Seq(Messages)]
  /\ toChild \in [Proc -> Seq(Messages)]
  /\ entered \in [Proc -> Seq(Messages)]
  /\ brought \in [Proc -> Seq(0..MaxBroadcasts)]
  /\ called \in [Proc -> Seq(Messages)]

(* A process passes on what it received: what its parent has entered is    *)
(* what it has, then what is in its channel.                               *)
PathInv ==
  /\ toChild[0] = <<>>
  /\ \A p \in Proc \ {0} : entered[Parent(p)] = entered[p] \o toChild[p]

(* Every process enters the calls of rank 0, in its order.                 *)
OrderInv ==
  \A p \in Proc :
    /\ Len(entered[p]) <= Len(entered[0])
    /\ \A n \in 1..Len(entered[p]) : entered[p][n] = entered[0][n]

(* The callbacks are called on what was given to Broadcast, once each.     *)
CalledInv ==
  \A p \in Proc :
    /\ Len(called[p]) \in {Len(entered[p]), Len(entered[p]) - 1}
    /\ \A n \in 1..Len(called[p]) : called[p][n] = entered[p][n]

(* The root brings the right buffer to each call.                          *)
BroughtInv ==
  \A p \in Proc :
    /\ Len(brought[p]) = Len(entered[p])
    /\ \A n \in 1..Len(entered[p]) :
         brought[p][n] = IF entered[p][n].root = p THEN entered[p][n].value ELSE 0

(* The calls that rank 0 has entered with p as root, and p has not.        *)
Ordered(p) == {n \in Len(entered[p])+1 .. Len(entered[0]) : entered[0][n].root = p}

Outstanding(p, m) ==
  \/ \E i \in 1..Len(toLeader[p]) : toLeader[p][i] = m
  \/ \E n \in Ordered(p) : entered[0][n] = m

(* What a process has announced and not entered is in its buffer, one      *)
(* message per tag; a tag with no such message has no buffer.              *)
BufferOf(p) ==
  /\ \A i \in 1..Len(toLeader[p]) :
       /\ toLeader[p][i].root = p
       /\ buffer[p][toLeader[p][i].tag] = toLeader[p][i].value
  /\ \A n \in Ordered(p) : buffer[p][entered[0][n].tag] = entered[0][n].value
  /\ \A i, j \in 1..Len(toLeader[p]) :
       toLeader[p][i].tag = toLeader[p][j].tag => i = j
  /\ \A n, k \in Ordered(p) : entered[0][n].tag = entered[0][k].tag => n = k
  /\ \A i \in 1..Len(toLeader[p]), n \in Ordered(p) :
       toLeader[p][i].tag # entered[0][n].tag
  /\ \A t \in Tags : buffer[p][t] # 0 => \E m \in Messages : m.tag = t /\ Outstanding(p, m)

BufferInv == \A p \in Proc : BufferOf(p)

(* Broadcasts started by several processes, carried down a tree of         *)
(* separate channels, are entered everywhere in one order and bring        *)
(* everywhere what their caller gave; a call is refused only while one     *)
(* with its tag is under way (MPI2Reactor::Broadcast, BcastCallback).      *)
BroadcastInv == PathInv /\ OrderInv /\ CalledInv /\ BroughtInv /\ BufferInv

Abstract == INSTANCE AtomicBroadcast
  WITH Values <- 1..MaxBroadcasts,
       pending <- toLeader, order <- entered[0], delivered <- called

(* The tree and its channels implement a uniform, totally ordered          *)
(* broadcast (Reactor.hpp:168-176).                                        *)
ImplementsAtomicBroadcast == Abstract!Spec
=============================================================================
