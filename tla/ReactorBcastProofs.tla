------------------------- MODULE ReactorBcastProofs -------------------------
(***************************************************************************)
(* Proofs about ReactorBcast, for every tree, set of tags and bound.       *)
(***************************************************************************)
EXTENDS ReactorBcast, TLAPS, SequenceTheorems

(* The parent of a process other than rank 0 is another process, of which  *)
(* it is a child, and of no other.                                         *)
LEMMA DivLemma ==
  ASSUME NEW a \in Nat, NEW b \in Nat \ {0}, NEW q \in Nat
  PROVE  /\ a \div b \in Nat
         /\ b * (a \div b) <= a
         /\ a < b * (a \div b) + b
         /\ b * q <= a /\ a < b * q + b => q = a \div b
  OBVIOUS

LEMMA ParentLemma ==
  ASSUME NEW c \in Proc, c # 0
  PROVE  /\ Parent(c) \in Proc
         /\ Parent(c) # c
         /\ \A p \in Proc : c \in Children(p) <=> p = Parent(c)
  BY BcastOK, DivLemma DEF Proc, Parent, Children

LEMMA ProcLemma ==
  /\ 0 \in Proc
  /\ \A p \in Proc : 0 \notin Children(p)
  BY BcastOK DEF Proc, Children

(* A message that goes from the head of the second to the end of the first.*)
LEMMA MoveLemma ==
  ASSUME NEW s \in Seq(Messages), NEW t \in Seq(Messages), t # <<>>
  PROVE  Append(s, Head(t)) \o Tail(t) = s \o t
<1>1. /\ Head(t) \in Messages /\ Tail(t) \in Seq(Messages) /\ Len(t) \in Nat \ {0}
      /\ Len(Tail(t)) = Len(t) - 1
      /\ \A i \in 1 .. Len(Tail(t)) : Tail(t)[i] = t[i+1]
  BY HeadTailProperties, EmptySeq
<1>2. /\ Append(s, Head(t)) \in Seq(Messages)
      /\ Len(Append(s, Head(t))) = Len(s) + 1
      /\ \A i \in 1 .. Len(s) : Append(s, Head(t))[i] = s[i]
      /\ Append(s, Head(t))[Len(s) + 1] = Head(t)
  BY <1>1, AppendProperties
<1> DEFINE u == Append(s, Head(t))
           v == Tail(t)
<1>3. /\ u \o v \in Seq(Messages)
      /\ Len(u \o v) = Len(u) + Len(v)
      /\ \A i \in 1 .. Len(u) + Len(v) :
           (u \o v)[i] = IF i <= Len(u) THEN u[i] ELSE v[i - Len(u)]
  BY <1>1, <1>2, ConcatProperties
<1>4. /\ s \o t \in Seq(Messages)
      /\ Len(s \o t) = Len(s) + Len(t)
      /\ \A i \in 1 .. Len(s) + Len(t) :
           (s \o t)[i] = IF i <= Len(s) THEN s[i] ELSE t[i - Len(s)]
  BY ConcatProperties
<1>5. Head(t) = t[1] /\ Len(s) \in Nat
  BY <1>1, LenProperties
<1>6. Len(u \o v) = Len(s \o t)
  BY <1>1, <1>2, <1>3, <1>4, <1>5
<1>7. ASSUME NEW i \in 1 .. Len(u \o v)
      PROVE  (u \o v)[i] = (s \o t)[i]
  <2>1. CASE i <= Len(s)
    BY <2>1, <1>1, <1>2, <1>3, <1>4, <1>5
  <2>2. CASE i = Len(s) + 1
    BY <2>2, <1>1, <1>2, <1>3, <1>4, <1>5
  <2>3. CASE i > Len(s) + 1
    <3>1. i - Len(u) \in 1 .. Len(v) /\ (u \o v)[i] = v[i - Len(u)]
      BY <2>3, <1>1, <1>2, <1>3, <1>5
    <3>2. v[i - Len(u)] = t[(i - Len(u)) + 1]
      BY <3>1, <1>1
    <3>3. (i - Len(u)) + 1 = i - Len(s)
      BY <1>1, <1>2, <1>3, <1>5
    <3>4. (s \o t)[i] = t[i - Len(s)]
      BY <2>3, <1>4, <1>5, <1>6
    <3> QED
      BY <3>1, <3>2, <3>3, <3>4
  <2> QED
    BY <2>1, <2>2, <2>3, <1>1, <1>2, <1>3, <1>5
<1> QED
  BY <1>3, <1>4, <1>6, <1>7, SeqEqual

(* What a process appends, its children find at the end of their channels. *)
LEMMA PassLemma ==
  ASSUME NEW s \in Seq(Messages), NEW t \in Seq(Messages), NEW m \in Messages
  PROVE  Append(s \o t, m) = s \o Append(t, m)
<1>1. /\ <<m>> \in Seq(Messages) /\ s \o t \in Seq(Messages)
      /\ Append(s \o t, m) = (s \o t) \o <<m>>
      /\ Append(t, m) = t \o <<m>>
  BY ConcatProperties, AppendIsConcat
<1> QED
  BY <1>1, ConcatAssociative

(* What is concatenated, element by element.                               *)
LEMMA PathLemma ==
  ASSUME NEW s \in Seq(Messages), NEW t \in Seq(Messages), t # <<>>
  PROVE  /\ Len(s) + 1 <= Len(s \o t)
         /\ (s \o t)[Len(s) + 1] = Head(t)
         /\ \A i \in 1 .. Len(s) : (s \o t)[i] = s[i]
  BY ConcatProperties, LenProperties, EmptySeq
----------------------------------------------------------------------------
(* The inductive invariant: the types, and how the messages travel.        *)
IInv == TypeOK /\ BroadcastInv

LEMMA InitIInv == Init => IInv
<1> SUFFICES ASSUME Init PROVE IInv
  OBVIOUS
<1>1. TypeOK
  BY BcastOK, EmptySeq DEF Init, TypeOK
<1>2. PathInv
  BY ProcLemma, ParentLemma, ConcatEmptySeq, EmptySeq DEF Init, PathInv
<1>3. OrderInv /\ CalledInv /\ BroughtInv
  BY ProcLemma DEF Init, OrderInv, CalledInv, BroughtInv
<1>4. BufferInv
  BY ProcLemma DEF Init, BufferInv, BufferOf, Ordered, Outstanding
<1> QED
  BY <1>1, <1>2, <1>3, <1>4 DEF IInv, BroadcastInv

(* One entry of a family of sequences grows.                               *)
LEMMA GrowLemma ==
  ASSUME NEW S, NEW f \in [Proc -> Seq(S)], NEW p \in Proc, NEW m \in S
  PROVE  /\ [f EXCEPT ![p] = Append(@, m)] \in [Proc -> Seq(S)]
         /\ Append(f[p], m) \in Seq(S)
         /\ Len(f[p]) \in Nat
         /\ Len(Append(f[p], m)) = Len(f[p]) + 1
         /\ \A n \in 1 .. Len(f[p]) : Append(f[p], m)[n] = f[p][n] /\ f[p][n] \in S
         /\ Append(f[p], m)[Len(f[p]) + 1] = m
<1>1. f[p] \in Seq(S)
  OBVIOUS
<1>2. Append(f[p], m) \in Seq(S)
  BY <1>1, AppendProperties
<1>3. [f EXCEPT ![p] = Append(@, m)] \in [Proc -> Seq(S)]
  BY <1>2
<1> QED
  BY <1>1, <1>2, <1>3, AppendProperties, LenProperties, ElementOfSeq

(* One entry of a family of sequences loses its head.                      *)
LEMMA ShrinkLemma ==
  ASSUME NEW S, NEW f \in [Proc -> Seq(S)], NEW p \in Proc, f[p] # <<>>
  PROVE  /\ [f EXCEPT ![p] = Tail(@)] \in [Proc -> Seq(S)]
         /\ Head(f[p]) \in S
         /\ Head(f[p]) = f[p][1]
         /\ Tail(f[p]) \in Seq(S)
         /\ Len(f[p]) \in Nat \ {0}
         /\ Len(Tail(f[p])) = Len(f[p]) - 1
         /\ \A i \in 1 .. Len(f[p]) - 1 : Tail(f[p])[i] = f[p][i + 1]
<1>1. f[p] \in Seq(S)
  OBVIOUS
<1>2. /\ Head(f[p]) \in S
      /\ Tail(f[p]) \in Seq(S)
      /\ Len(Tail(f[p])) = Len(f[p]) - 1
      /\ \A i \in 1 .. Len(Tail(f[p])) : Tail(f[p])[i] = f[p][i + 1]
  BY <1>1, HeadTailProperties
<1>3. [f EXCEPT ![p] = Tail(@)] \in [Proc -> Seq(S)]
  BY <1>2
<1> QED
  BY <1>1, <1>2, <1>3, EmptySeq

(* What a process knows of the calls it has entered, and of its root.      *)
LEMMA LenLemma ==
  ASSUME IInv, NEW p \in Proc
  PROVE  /\ entered[p] \in Seq(Messages) /\ Len(entered[p]) \in Nat
         /\ called[p] \in Seq(Messages) /\ Len(called[p]) \in Nat
         /\ toLeader[p] \in Seq(Messages) /\ Len(toLeader[p]) \in Nat
         /\ toChild[p] \in Seq(Messages) /\ Len(toChild[p]) \in Nat
         /\ \A n \in 1 .. Len(entered[p]) : entered[p][n] \in Messages
         /\ \A i \in 1 .. Len(toLeader[p]) : toLeader[p][i] \in Messages
         /\ buffer[p] \in [Tags -> 0 .. MaxBroadcasts]
         /\ ~ InBcast(p) <=> Len(called[p]) = Len(entered[p])
<1>1. /\ entered[p] \in Seq(Messages)
      /\ called[p] \in Seq(Messages)
      /\ toLeader[p] \in Seq(Messages)
      /\ toChild[p] \in Seq(Messages)
      /\ buffer[p] \in [Tags -> 0 .. MaxBroadcasts]
  BY DEF IInv, TypeOK
<1>2. /\ Len(entered[p]) \in Nat /\ Len(called[p]) \in Nat
      /\ Len(toLeader[p]) \in Nat /\ Len(toChild[p]) \in Nat
      /\ \A n \in 1 .. Len(entered[p]) : entered[p][n] \in Messages
      /\ \A i \in 1 .. Len(toLeader[p]) : toLeader[p][i] \in Messages
  BY <1>1, LenProperties, ElementOfSeq
<1>3. Len(called[p]) \in {Len(entered[p]), Len(entered[p]) - 1}
  BY DEF IInv, BroadcastInv, CalledInv
<1> QED
  BY <1>1, <1>2, <1>3 DEF InBcast

(* Enter, in the terms of the invariant.                                   *)
LEMMA EnterLemma ==
  ASSUME IInv, NEW p \in Proc, NEW m \in Messages, ~ InBcast(p), Enter(p, m),
         p = m.root => buffer[p][m.tag] = m.value
  PROVE  /\ entered' \in [Proc -> Seq(Messages)]
         /\ brought' \in [Proc -> Seq(0..MaxBroadcasts)]
         /\ buffer' \in [Proc -> [Tags -> 0..MaxBroadcasts]]
         /\ made' = made /\ called' = called
         /\ entered'[p] = Append(entered[p], m)
         /\ Len(entered'[p]) = Len(entered[p]) + 1
         /\ \A n \in 1 .. Len(entered[p]) : entered'[p][n] = entered[p][n]
         /\ entered'[p][Len(entered[p]) + 1] = m
         /\ \A q \in Proc \ {p} : entered'[q] = entered[q] /\ buffer'[q] = buffer[q]
         /\ m.root # p => buffer'[p] = buffer[p]
         /\ m.root = p => \A t \in Tags : buffer'[p][t] = IF t = m.tag THEN 0 ELSE buffer[p][t]
         /\ CalledInv'
         /\ BroughtInv'
<1> DEFINE b == IF p = m.root THEN buffer[p][m.tag] ELSE 0
<1>1. b \in 0 .. MaxBroadcasts /\ m.tag \in Tags /\ m.value \in 1 .. MaxBroadcasts
  BY BcastOK, LenLemma DEF Messages
<1>2. /\ entered \in [Proc -> Seq(Messages)]
      /\ brought \in [Proc -> Seq(0..MaxBroadcasts)]
      /\ buffer \in [Proc -> [Tags -> 0..MaxBroadcasts]]
  BY DEF IInv, TypeOK
<1>3. /\ entered' \in [Proc -> Seq(Messages)]
      /\ entered'[p] = Append(entered[p], m)
      /\ Len(entered'[p]) = Len(entered[p]) + 1
      /\ \A n \in 1 .. Len(entered[p]) : entered'[p][n] = entered[p][n]
      /\ entered'[p][Len(entered[p]) + 1] = m
      /\ \A q \in Proc \ {p} : entered'[q] = entered[q]
  BY <1>2, GrowLemma DEF Enter
<1>4. /\ brought' \in [Proc -> Seq(0..MaxBroadcasts)]
      /\ Len(brought'[p]) = Len(brought[p]) + 1
      /\ \A n \in 1 .. Len(brought[p]) : brought'[p][n] = brought[p][n]
      /\ brought'[p][Len(brought[p]) + 1] = b
      /\ \A q \in Proc \ {p} : brought'[q] = brought[q]
  <2>1. brought' = [brought EXCEPT ![p] = Append(@, b)]
    BY DEF Enter
  <2> HIDE DEF b
  <2> QED
    BY <2>1, <1>1, <1>2, GrowLemma
<1>5. /\ buffer' \in [Proc -> [Tags -> 0..MaxBroadcasts]]
      /\ \A q \in Proc \ {p} : buffer'[q] = buffer[q]
      /\ m.root # p => buffer'[p] = buffer[p]
      /\ m.root = p => \A t \in Tags : buffer'[p][t] = IF t = m.tag THEN 0 ELSE buffer[p][t]
  BY <1>1, <1>2, BcastOK DEF Enter
<1>6. made' = made /\ called' = called
  BY DEF Enter
<1>7. CalledInv'
  <2>1. Len(called[p]) = Len(entered[p]) /\ Len(entered[p]) \in Nat
    BY LenLemma
  <2>2. CalledInv
    BY DEF IInv, BroadcastInv
  <2> QED
    BY <2>1, <2>2, <1>3, <1>6, SMTT(40) DEF CalledInv
<1>8. BroughtInv'
  <2>1. BroughtInv /\ Len(entered[p]) \in Nat
    BY LenLemma DEF IInv, BroadcastInv
  <2>2. b = IF m.root = p THEN m.value ELSE 0
    OBVIOUS
  <2> HIDE DEF b
  <2>3. ASSUME NEW q \in Proc, q # p
        PROVE  /\ Len(brought'[q]) = Len(entered'[q])
               /\ \A n \in 1 .. Len(entered'[q]) :
                    brought'[q][n] = IF entered'[q][n].root = q THEN entered'[q][n].value ELSE 0
    BY <2>1, <2>3, <1>3, <1>4 DEF BroughtInv
  <2>4. Len(brought'[p]) = Len(entered'[p])
    BY <2>1, <1>3, <1>4 DEF BroughtInv
  <2>5. ASSUME NEW n \in 1 .. Len(entered'[p])
        PROVE  brought'[p][n] = IF entered'[p][n].root = p THEN entered'[p][n].value ELSE 0
    <3>1. CASE n = Len(entered[p]) + 1
      BY <3>1, <2>1, <2>2, <1>3, <1>4 DEF BroughtInv
    <3>2. CASE n \in 1 .. Len(entered[p])
      BY <3>2, <2>1, <1>3, <1>4 DEF BroughtInv
    <3> QED
      BY <3>1, <3>2, <2>1, <1>3
  <2> QED
    BY <2>3, <2>4, <2>5 DEF BroughtInv
<1> QED
  BY <1>3, <1>4, <1>5, <1>6, <1>7, <1>8
----------------------------------------------------------------------------
(* Nothing that concerns the announcements of q changes.                   *)
LEMMA BufferKept ==
  ASSUME IInv, NEW q \in Proc,
         toLeader'[q] = toLeader[q], buffer'[q] = buffer[q], Ordered(q)' = Ordered(q),
         \A n \in Ordered(q) : entered'[0][n] = entered[0][n]
  PROVE  BufferOf(q)'
<1>1. BufferOf(q)
  BY DEF IInv, BroadcastInv, BufferInv
<1>2. \A m \in Messages : Outstanding(q, m) => Outstanding(q, m)'
  BY DEF Outstanding
<1>3. /\ \A i \in 1 .. Len(toLeader'[q]) :
           /\ toLeader'[q][i].root = q
           /\ buffer'[q][toLeader'[q][i].tag] = toLeader'[q][i].value
      /\ \A i, j \in 1 .. Len(toLeader'[q]) :
           toLeader'[q][i].tag = toLeader'[q][j].tag => i = j
  BY <1>1 DEF BufferOf
<1>4. /\ \A n \in Ordered(q) : buffer'[q][entered'[0][n].tag] = entered'[0][n].value
      /\ \A n, k \in Ordered(q) : entered'[0][n].tag = entered'[0][k].tag => n = k
      /\ \A i \in 1 .. Len(toLeader'[q]), n \in Ordered(q) :
           toLeader'[q][i].tag # entered'[0][n].tag
  BY <1>1 DEF BufferOf
<1>5. \A t \in Tags : buffer'[q][t] # 0 =>
        \E m \in Messages : m.tag = t /\ Outstanding(q, m)'
  BY <1>1, <1>2 DEF BufferOf
<1> QED
  BY <1>3, <1>4, <1>5 DEF BufferOf

(* Broadcast. *)

LEMMA RefusedStep ==
  ASSUME IInv, NEW p \in Proc, NEW t \in Tags, BroadcastRefused(p, t)
  PROVE  IInv'
<1>1. /\ made' \in [Proc -> 0..MaxBroadcasts]
      /\ UNCHANGED <<buffer, toLeader, toChild, entered, brought, called>>
  BY BcastOK DEF IInv, TypeOK, BroadcastRefused, MayBroadcast
<1>2. TypeOK'
  BY <1>1 DEF IInv, TypeOK
<1>3. PathInv' /\ OrderInv' /\ CalledInv' /\ BroughtInv'
  BY <1>1 DEF IInv, BroadcastInv, PathInv, OrderInv, CalledInv, BroughtInv
<1>4. ASSUME NEW q \in Proc
      PROVE  BufferOf(q)'
  BY <1>1, BufferKept DEF Ordered
<1> QED
  BY <1>2, <1>3, <1>4 DEF IInv, BroadcastInv, BufferInv

LEMMA BroadcastStep ==
  ASSUME IInv, NEW p \in Proc, NEW t \in Tags, Broadcast(p, t)
  PROVE  IInv'
<1>0. /\ made[p] + 1 \in 1 .. MaxBroadcasts
      /\ made' \in [Proc -> 0..MaxBroadcasts]
  BY BcastOK DEF IInv, TypeOK, Broadcast, MayBroadcast
<1>1. PICK m \in Messages : m = [root |-> p, tag |-> t, value |-> made[p] + 1]
  BY <1>0 DEF Messages
<1>2. /\ buffer[p][t] = 0
      /\ buffer' = [buffer EXCEPT ![p][t] = made[p] + 1]
      /\ toLeader' = [toLeader EXCEPT ![p] = Append(@, m)]
      /\ UNCHANGED <<toChild, entered, brought, called>>
  BY <1>1 DEF Broadcast
<1>3. /\ toLeader \in [Proc -> Seq(Messages)]
      /\ buffer \in [Proc -> [Tags -> 0..MaxBroadcasts]]
  BY DEF IInv, TypeOK
<1>4. /\ toLeader' \in [Proc -> Seq(Messages)]
      /\ Len(toLeader[p]) \in Nat
      /\ Len(toLeader'[p]) = Len(toLeader[p]) + 1
      /\ \A i \in 1 .. Len(toLeader[p]) :
           toLeader'[p][i] = toLeader[p][i] /\ toLeader[p][i] \in Messages
      /\ toLeader'[p][Len(toLeader[p]) + 1] = m
      /\ \A q \in Proc \ {p} : toLeader'[q] = toLeader[q]
  BY <1>1, <1>2, <1>3, GrowLemma
<1>5. /\ buffer' \in [Proc -> [Tags -> 0..MaxBroadcasts]]
      /\ \A u \in Tags : buffer'[p][u] = IF u = t THEN made[p] + 1 ELSE buffer[p][u]
      /\ \A q \in Proc \ {p} : buffer'[q] = buffer[q]
  BY <1>0, <1>2, <1>3, BcastOK
<1>6. TypeOK'
  BY <1>0, <1>2, <1>4, <1>5 DEF IInv, TypeOK
<1>7. PathInv' /\ OrderInv' /\ CalledInv' /\ BroughtInv'
  BY <1>2, ZenonT(40) DEF IInv, BroadcastInv, PathInv, OrderInv, CalledInv, BroughtInv
<1>8. BufferInv
  BY DEF IInv, BroadcastInv
<1>9. ASSUME NEW q \in Proc, q # p
      PROVE  BufferOf(q)'
  BY <1>2, <1>4, <1>5, <1>9, BufferKept DEF Ordered
<1>10. BufferOf(p)'
  <2>1. Ordered(p)' = Ordered(p) /\ entered'[0] = entered[0]
    BY <1>2 DEF Ordered
  <2>2. /\ \A i \in 1 .. Len(toLeader[p]) :
             /\ toLeader[p][i].root = p /\ toLeader[p][i].tag \in Tags
             /\ toLeader[p][i].tag # t
             /\ buffer[p][toLeader[p][i].tag] = toLeader[p][i].value
    BY <1>2, <1>4, <1>8, BcastOK DEF BufferInv, BufferOf, Messages
  <2>3. \A n \in Ordered(p) :
          /\ entered[0][n].tag \in Tags /\ entered[0][n].tag # t
          /\ buffer[p][entered[0][n].tag] = entered[0][n].value
    <3>1. \A n \in Ordered(p) : n \in 1 .. Len(entered[0])
      BY LenLemma, ProcLemma DEF Ordered
    <3>2. \A n \in Ordered(p) : entered[0][n] \in Messages
      BY <3>1, LenLemma, ProcLemma
    <3> QED
      BY <3>2, <1>2, <1>8, BcastOK DEF BufferInv, BufferOf, Messages
  <2>4. \A i \in 1 .. Len(toLeader'[p]) :
          i \in 1 .. Len(toLeader[p]) \/ i = Len(toLeader[p]) + 1
    BY <1>4
  <2>5. \A i \in 1 .. Len(toLeader'[p]) :
          /\ toLeader'[p][i].root = p
          /\ buffer'[p][toLeader'[p][i].tag] = toLeader'[p][i].value
    <3>1. ASSUME NEW i \in 1 .. Len(toLeader[p])
          PROVE  /\ toLeader'[p][i].root = p
                 /\ buffer'[p][toLeader'[p][i].tag] = toLeader'[p][i].value
      <4>1. /\ toLeader'[p][i] = toLeader[p][i]
            /\ toLeader[p][i].root = p
            /\ toLeader[p][i].tag \in Tags /\ toLeader[p][i].tag # t
            /\ buffer[p][toLeader[p][i].tag] = toLeader[p][i].value
        BY <2>2, <1>4
      <4> QED
        BY <4>1, <1>5
    <3>2. m.root = p /\ buffer'[p][m.tag] = m.value
      BY <1>1, <1>5
    <3> QED
      BY <3>1, <3>2, <2>4, <1>4
  <2>6. \A n \in Ordered(p) : buffer'[p][entered[0][n].tag] = entered[0][n].value
    BY <2>3, <1>5
  <2>7. \A i, j \in 1 .. Len(toLeader'[p]) :
          toLeader'[p][i].tag = toLeader'[p][j].tag => i = j
    <3>1. \A i, j \in 1 .. Len(toLeader[p]) :
            toLeader[p][i].tag = toLeader[p][j].tag => i = j
      BY <1>8 DEF BufferInv, BufferOf
    <3> QED
      BY <3>1, <2>2, <2>4, <1>1, <1>4
  <2>8. \A n, k \in Ordered(p) : entered[0][n].tag = entered[0][k].tag => n = k
    BY <1>8 DEF BufferInv, BufferOf
  <2>9. \A i \in 1 .. Len(toLeader'[p]), n \in Ordered(p) :
          toLeader'[p][i].tag # entered[0][n].tag
    BY <2>3, <2>4, <1>1, <1>4, <1>8 DEF BufferInv, BufferOf
  <2>10. ASSUME NEW u \in Tags, buffer'[p][u] # 0
         PROVE  \E w \in Messages : w.tag = u /\ Outstanding(p, w)'
    <3>1. CASE u = t
      <4>1. Len(toLeader[p]) + 1 \in 1 .. Len(toLeader'[p])
        BY <1>4
      <4>2. Outstanding(p, m)'
        BY <4>1, <1>4 DEF Outstanding
      <4> QED
        BY <4>2, <3>1, <1>1
    <3>2. CASE u # t
      <4>1. PICK w \in Messages : w.tag = u /\ Outstanding(p, w)
        BY <3>2, <2>10, <1>0, <1>5, <1>8, ZenonT(40) DEF BufferInv, BufferOf
      <4>2. Outstanding(p, w)'
        BY <4>1, <2>1, <1>4 DEF Outstanding
      <4> QED
        BY <4>1, <4>2
    <3> QED
      BY <3>1, <3>2
  <2> QED
    BY <2>1, <2>5, <2>6, <2>7, <2>8, <2>9, <2>10 DEF BufferOf
<1> QED
  BY <1>6, <1>7, <1>9, <1>10 DEF IInv, BroadcastInv, BufferInv
----------------------------------------------------------------------------
(* BcastCallback. *)

LEMMA LeaderStep ==
  ASSUME IInv, NEW q \in Proc, LeaderCallback(q)
  PROVE  IInv'
<1>1. /\ toLeader \in [Proc -> Seq(Messages)] /\ toChild \in [Proc -> Seq(Messages)]
      /\ toLeader[q] # <<>>
  BY DEF IInv, TypeOK, LeaderCallback
<1>2. PICK m \in Messages : m = Head(toLeader[q])
  BY <1>1, ShrinkLemma
<1>3. /\ m = toLeader[q][1]
      /\ toLeader' = [toLeader EXCEPT ![q] = Tail(@)]
      /\ toLeader' \in [Proc -> Seq(Messages)]
      /\ Len(toLeader[q]) \in Nat \ {0}
      /\ Len(toLeader'[q]) = Len(toLeader[q]) - 1
      /\ \A i \in 1 .. Len(toLeader[q]) - 1 : toLeader'[q][i] = toLeader[q][i + 1]
      /\ \A p \in Proc \ {q} : toLeader'[p] = toLeader[p]
  BY <1>1, <1>2, ShrinkLemma DEF LeaderCallback
<1>4. BufferInv
  BY DEF IInv, BroadcastInv
<1>5. m.root = q /\ m.tag \in Tags /\ buffer[q][m.tag] = m.value
  <2>1. 1 \in 1 .. Len(toLeader[q])
    BY <1>3
  <2> QED
    BY <2>1, <1>3, <1>4 DEF BufferInv, BufferOf, Messages
<1>6. /\ 0 \in Proc /\ ~ InBcast(0) /\ Enter(0, m) /\ Forward(0, m, toChild)
      /\ \A p \in Proc : Len(entered[p]) \in Nat /\ Len(entered[p]) <= Len(entered[0])
  BY <1>2, ProcLemma, LenLemma DEF LeaderCallback, IInv, BroadcastInv, OrderInv
<1>7. /\ entered' \in [Proc -> Seq(Messages)]
      /\ brought' \in [Proc -> Seq(0..MaxBroadcasts)]
      /\ buffer' \in [Proc -> [Tags -> 0..MaxBroadcasts]]
      /\ made' = made /\ called' = called
      /\ entered'[0] = Append(entered[0], m)
      /\ Len(entered'[0]) = Len(entered[0]) + 1
      /\ \A n \in 1 .. Len(entered[0]) : entered'[0][n] = entered[0][n]
      /\ entered'[0][Len(entered[0]) + 1] = m
      /\ \A p \in Proc \ {0} : entered'[p] = entered[p] /\ buffer'[p] = buffer[p]
      /\ q # 0 => buffer'[0] = buffer[0]
      /\ q = 0 => \A t \in Tags : buffer'[0][t] = IF t = m.tag THEN 0 ELSE buffer[0][t]
      /\ CalledInv'
      /\ BroughtInv'
  BY <1>5, <1>6, EnterLemma
<1>8. /\ toChild' = [p \in Proc |-> IF p \in Children(0) THEN Append(toChild[p], m)
                                                         ELSE toChild[p]]
      /\ toChild' \in [Proc -> Seq(Messages)]
  <2>1. \A p \in Proc : Append(toChild[p], m) \in Seq(Messages)
    BY <1>1, AppendProperties
  <2> QED
    BY <2>1, <1>1, <1>6 DEF Forward
<1>9. TypeOK'
  BY <1>3, <1>7, <1>8 DEF IInv, TypeOK
<1>10. PathInv'
  <2>1. PathInv
    BY DEF IInv, BroadcastInv
  <2>2. toChild'[0] = <<>>
    BY <2>1, <1>8, ProcLemma DEF PathInv
  <2>3. ASSUME NEW p \in Proc \ {0}
        PROVE  entered'[Parent(p)] = entered'[p] \o toChild'[p]
    <3>1. /\ Parent(p) \in Proc /\ (p \in Children(0) <=> Parent(p) = 0)
          /\ entered[Parent(p)] = entered[p] \o toChild[p]
          /\ entered'[p] = entered[p]
      BY <2>1, <1>6, <1>7, ParentLemma DEF PathInv
    <3>2. CASE Parent(p) = 0
      <4>1. entered'[Parent(p)] = Append(entered[p] \o toChild[p], m)
        BY <3>1, <3>2, <1>7
      <4>2. toChild'[p] = Append(toChild[p], m)
        BY <3>1, <3>2, <1>8
      <4>3. entered[p] \in Seq(Messages) /\ toChild[p] \in Seq(Messages)
        BY LenLemma
      <4>4. Append(entered[p] \o toChild[p], m) = entered[p] \o Append(toChild[p], m)
        BY <4>3, PassLemma
      <4> QED
        BY <4>1, <4>2, <4>4, <3>1
    <3>3. CASE Parent(p) # 0
      BY <3>1, <3>3, <1>7, <1>8
    <3> QED
      BY <3>2, <3>3
  <2> QED
    BY <2>2, <2>3 DEF PathInv
<1>11. OrderInv'
  <2>1. ASSUME NEW p \in Proc \ {0}
        PROVE  /\ Len(entered'[p]) <= Len(entered'[0])
               /\ \A n \in 1 .. Len(entered'[p]) : entered'[p][n] = entered'[0][n]
    <3>1. \A n \in 1 .. Len(entered[p]) : n \in 1 .. Len(entered[0])
      BY <1>6
    <3>2. \A n \in 1 .. Len(entered[p]) : entered[p][n] = entered[0][n]
      BY DEF IInv, BroadcastInv, OrderInv
    <3>3. /\ entered'[p] = entered[p]
          /\ \A n \in 1 .. Len(entered[0]) : entered'[0][n] = entered[0][n]
          /\ Len(entered'[0]) = Len(entered[0]) + 1
      BY <1>7
    <3> QED
      BY <3>1, <3>2, <3>3, <1>6
  <2>2. Len(entered'[0]) <= Len(entered'[0])
    BY <1>6, <1>7
  <2> QED
    BY <2>1, <2>2 DEF OrderInv
<1>12. ASSUME NEW p \in Proc, p # q
       PROVE  BufferOf(p)'
  <2>1. Ordered(p)' = Ordered(p)
    <3>1. CASE p = 0
      BY <3>1, <1>6, <1>7 DEF Ordered
    <3>2. CASE p # 0
      <4>1. entered'[p] = entered[p] /\ m.root # p
        BY <3>2, <1>5, <1>7, <1>12
      <4>2. \A n \in Len(entered[p]) + 1 .. Len(entered[0]) + 1 :
              \/ n \in Len(entered[p]) + 1 .. Len(entered[0]) /\ n \in 1 .. Len(entered[0])
              \/ n = Len(entered[0]) + 1
        BY <1>6
      <4>3. \A n \in Len(entered[p]) + 1 .. Len(entered[0]) :
              n \in Len(entered[p]) + 1 .. Len(entered[0]) + 1
        BY <1>6
      <4> QED
        BY <4>1, <4>2, <4>3, <1>7 DEF Ordered
    <3> QED
      BY <3>1, <3>2
  <2>2. \A n \in Ordered(p) : entered'[0][n] = entered[0][n]
    BY <1>7, <1>6 DEF Ordered
  <2> QED
    BY <2>1, <2>2, <1>3, <1>7, <1>12, BufferKept
<1>13. BufferOf(q)'
  <2> DEFINE L == Len(toLeader[q])
             N == Len(entered[0])
  <2>1. /\ \A i \in 1 .. L :
             /\ toLeader[q][i].root = q
             /\ toLeader[q][i].tag \in Tags
             /\ buffer[q][toLeader[q][i].tag] = toLeader[q][i].value
        /\ \A n \in Ordered(q) : buffer[q][entered[0][n].tag] = entered[0][n].value
        /\ \A i, j \in 1 .. L : toLeader[q][i].tag = toLeader[q][j].tag => i = j
        /\ \A n, k \in Ordered(q) : entered[0][n].tag = entered[0][k].tag => n = k
        /\ \A i \in 1 .. L, n \in Ordered(q) : toLeader[q][i].tag # entered[0][n].tag
        /\ \A t \in Tags : buffer[q][t] # 0 =>
             \E w \in Messages : w.tag = t /\ Outstanding(q, w)
    BY <1>4, LenLemma DEF BufferInv, BufferOf, Messages
  <2>2. /\ L \in Nat \ {0} /\ N \in Nat /\ 1 \in 1 .. L
        /\ Len(toLeader'[q]) = L - 1
        /\ \A i \in 1 .. L - 1 : i + 1 \in 1 .. L /\ i + 1 # 1
                                 /\ toLeader'[q][i] = toLeader[q][i + 1]
    BY <1>3, <1>6, LenLemma
  <2>3. \A n \in Ordered(q) : n \in 1 .. N /\ entered'[0][n] = entered[0][n]
    BY <1>6, <1>7, LenLemma DEF Ordered
  <2>4. \A i, j \in 1 .. L - 1 : toLeader'[q][i].tag = toLeader'[q][j].tag => i = j
    <3>1. \A i, j \in 1 .. L : toLeader[q][i].tag = toLeader[q][j].tag => i = j
      BY <2>1
    <3>2. ASSUME NEW i \in 1 .. L - 1, NEW j \in 1 .. L - 1,
                 toLeader'[q][i].tag = toLeader'[q][j].tag
          PROVE  i = j
      <4>1. i + 1 \in 1 .. L /\ j + 1 \in 1 .. L /\ i \in Int /\ j \in Int
        BY <2>2
      <4>2. toLeader[q][i + 1].tag = toLeader[q][j + 1].tag
        BY <3>2, <2>2
      <4>3. i + 1 = j + 1
        BY <4>1, <4>2, <3>1
      <4> QED
        BY <4>1, <4>3
    <3> QED
      BY <3>2
  <2>5. \A i \in 1 .. L - 1 : toLeader'[q][i].root = q /\ toLeader'[q][i].tag # m.tag
    BY <2>1, <2>2, <1>3
  <2>6. CASE q = 0
    <3>1. Ordered(q) = {} /\ Ordered(q)' = {}
      BY <2>6, <2>2, <1>7 DEF Ordered
    <3>2. ASSUME NEW i \in 1 .. L - 1
          PROVE  buffer'[q][toLeader'[q][i].tag] = toLeader'[q][i].value
      <4>1. /\ toLeader'[q][i].tag \in Tags
            /\ buffer[q][toLeader'[q][i].tag] = toLeader'[q][i].value
        BY <2>1, <2>2
      <4> QED
        BY <4>1, <2>5, <2>6, <1>7
    <3>3. ASSUME NEW t \in Tags, buffer'[q][t] # 0
          PROVE  \E w \in Messages : w.tag = t /\ Outstanding(q, w)'
      <4>1. t # m.tag /\ buffer[q][t] # 0
        BY <3>3, <2>6, <1>7
      <4>2. PICK w \in Messages : w.tag = t /\ Outstanding(q, w)
        BY <4>1, <2>1
      <4>3. PICK i \in 1 .. L : toLeader[q][i] = w
        BY <4>2, <3>1 DEF Outstanding
      <4>4. i # 1
        BY <4>1, <4>2, <4>3, <1>3
      <4>5. i - 1 \in 1 .. L - 1 /\ (i - 1) + 1 = i
        BY <4>3, <4>4, <2>2
      <4>6. toLeader'[q][i - 1] = w
        BY <4>3, <4>5, <2>2
      <4>7. Outstanding(q, w)'
        BY <4>5, <4>6, <2>2 DEF Outstanding
      <4> QED
        BY <4>2, <4>7
    <3> QED
      BY <3>1, <3>2, <3>3, <2>2, <2>4, <2>5 DEF BufferOf
  <2>7. CASE q # 0
    <3>1. Ordered(q)' = Ordered(q) \cup {N + 1}
      <4>1. Len(entered[q]) \in Nat /\ Len(entered[q]) <= N /\ entered'[q] = entered[q]
        BY <2>7, <1>7, LenLemma DEF IInv, BroadcastInv, OrderInv
      <4>2. \A n \in Len(entered[q]) + 1 .. N + 1 :
              \/ n \in Len(entered[q]) + 1 .. N /\ n \in 1 .. N
              \/ n = N + 1
        BY <4>1, <2>2
      <4>3. /\ \A n \in Len(entered[q]) + 1 .. N : n \in Len(entered[q]) + 1 .. N + 1
            /\ N + 1 \in Len(entered[q]) + 1 .. N + 1
        BY <4>1, <2>2
      <4> QED
        BY <4>1, <4>2, <4>3, <1>5, <1>7 DEF Ordered
    <3>2. buffer'[q] = buffer[q] /\ entered'[0][N + 1] = m
      BY <2>7, <1>7
    <3>3. \A i \in 1 .. L - 1 : buffer'[q][toLeader'[q][i].tag] = toLeader'[q][i].value
      BY <3>2, <2>1, <2>2, SMTT(30)
    <3>4. \A n \in Ordered(q)' : buffer'[q][entered'[0][n].tag] = entered'[0][n].value
      BY <3>1, <3>2, <2>1, <2>3, <1>5
    <3>5. \A n \in Ordered(q) : entered'[0][n].tag # m.tag
      BY <2>1, <2>2, <2>3, <1>3
    <3>6. \A n, k \in Ordered(q)' : entered'[0][n].tag = entered'[0][k].tag => n = k
      BY <3>1, <3>2, <3>5, <2>1, <2>3
    <3>7. \A i \in 1 .. L - 1, n \in Ordered(q)' : toLeader'[q][i].tag # entered'[0][n].tag
      <4>1. \A i \in 1 .. L - 1, n \in Ordered(q) : toLeader'[q][i].tag # entered'[0][n].tag
        <5>1. ASSUME NEW i \in 1 .. L - 1, NEW n \in Ordered(q)
              PROVE  toLeader[q][i + 1].tag # entered[0][n].tag
          BY <2>1, <2>2
        <5> QED
          BY <5>1, <2>2, <2>3
      <4> QED
        BY <4>1, <3>1, <3>2, <2>5
    <3>8. ASSUME NEW t \in Tags, buffer'[q][t] # 0
          PROVE  \E w \in Messages : w.tag = t /\ Outstanding(q, w)'
      <4>1. PICK w \in Messages : w.tag = t /\ Outstanding(q, w)
        BY <3>2, <3>8, <2>1
      <4>2. CASE \E n \in Ordered(q) : entered[0][n] = w
        BY <4>1, <4>2, <3>1, <2>3 DEF Outstanding
      <4>3. ASSUME NEW i \in 1 .. L, toLeader[q][i] = w
            PROVE  Outstanding(q, w)'
        <5>1. CASE i = 1
          BY <5>1, <4>3, <3>1, <3>2, <1>3 DEF Outstanding
        <5>2. CASE i # 1
          <6>1. i - 1 \in 1 .. L - 1 /\ (i - 1) + 1 = i
            BY <5>2, <2>2
          <6>2. toLeader'[q][i - 1] = w
            BY <6>1, <4>3, <2>2
          <6> QED
            BY <6>1, <6>2, <2>2 DEF Outstanding
        <5> QED
          BY <5>1, <5>2
      <4> QED
        BY <4>1, <4>2, <4>3 DEF Outstanding
    <3> QED
      BY <3>3, <3>4, <3>6, <3>7, <3>8, <2>2, <2>4, <2>5 DEF BufferOf
  <2> QED
    BY <2>6, <2>7
<1> QED
  BY <1>7, <1>9, <1>10, <1>11, <1>12, <1>13 DEF IInv, BroadcastInv, BufferInv

LEMMA ChildStep ==
  ASSUME IInv, NEW p \in Proc, ChildCallback(p)
  PROVE  IInv'
<1>1. /\ toChild \in [Proc -> Seq(Messages)] /\ entered \in [Proc -> Seq(Messages)]
      /\ toChild[p] # <<>> /\ p # 0 /\ ~ InBcast(p)
      /\ toLeader' = toLeader
  BY DEF IInv, TypeOK, ChildCallback
<1>2. PICK m \in Messages : m = Head(toChild[p])
  BY <1>1, ShrinkLemma
<1>3. /\ Enter(p, m)
      /\ Forward(p, m, [toChild EXCEPT ![p] = Tail(@)])
      /\ Tail(toChild[p]) \in Seq(Messages)
  BY <1>1, <1>2, ShrinkLemma DEF ChildCallback
<1>4. /\ Parent(p) \in Proc /\ 0 \in Proc
      /\ entered[Parent(p)] = entered[p] \o toChild[p]
      /\ entered[p] \in Seq(Messages) /\ toChild[p] \in Seq(Messages)
  BY <1>1, ParentLemma, ProcLemma, LenLemma DEF IInv, BroadcastInv, PathInv
<1> DEFINE N == Len(entered[p]) + 1
<1>5. \A q \in Proc : Len(entered[q]) \in Nat /\ Len(entered[q]) <= Len(entered[0])
  BY LenLemma DEF IInv, BroadcastInv, OrderInv
(* The call that p enters is the one rank 0 has entered with that number.  *)
<1>6. /\ N \in 1 .. Len(entered[Parent(p)])
      /\ N \in 1 .. Len(entered[0])
      /\ entered[0][N] = m
  <2>1. N <= Len(entered[Parent(p)]) /\ entered[Parent(p)][N] = m
    <3>1. /\ Len(entered[p]) + 1 <= Len(entered[p] \o toChild[p])
          /\ (entered[p] \o toChild[p])[Len(entered[p]) + 1] = Head(toChild[p])
      BY <1>1, <1>4, PathLemma
    <3> QED
      BY <3>1, <1>2, <1>4
  <2>2. N \in 1 .. Len(entered[Parent(p)])
    <3>1. Len(entered[Parent(p)]) \in Nat /\ Len(entered[p]) \in Nat
      BY <1>4, <1>5
    <3> QED
      BY <3>1, <2>1
  <2>3. entered[Parent(p)][N] = entered[0][N]
    BY <2>2, <1>4 DEF IInv, BroadcastInv, OrderInv
  <2>4. N \in 1 .. Len(entered[0])
    <3>1. /\ Len(entered[Parent(p)]) \in Nat /\ Len(entered[0]) \in Nat
          /\ Len(entered[Parent(p)]) <= Len(entered[0])
      BY <1>4, <1>5
    <3> QED
      BY <3>1, <2>2
  <2> QED
    BY <2>1, <2>2, <2>3, <2>4
<1>7. BufferInv
  BY DEF IInv, BroadcastInv
<1>8. p = m.root => N \in Ordered(p) /\ buffer[p][m.tag] = m.value
  <2>1. N \in Len(entered[p]) + 1 .. Len(entered[0])
    BY <1>5, <1>6
  <2> QED
    BY <2>1, <1>6, <1>7 DEF BufferInv, BufferOf, Ordered
<1>9. /\ entered' \in [Proc -> Seq(Messages)]
      /\ brought' \in [Proc -> Seq(0..MaxBroadcasts)]
      /\ buffer' \in [Proc -> [Tags -> 0..MaxBroadcasts]]
      /\ made' = made /\ called' = called
      /\ entered'[p] = Append(entered[p], m)
      /\ Len(entered'[p]) = N
      /\ \A n \in 1 .. Len(entered[p]) : entered'[p][n] = entered[p][n]
      /\ entered'[p][N] = m
      /\ \A q \in Proc \ {p} : entered'[q] = entered[q] /\ buffer'[q] = buffer[q]
      /\ m.root # p => buffer'[p] = buffer[p]
      /\ m.root = p => \A t \in Tags : buffer'[p][t] = IF t = m.tag THEN 0 ELSE buffer[p][t]
      /\ CalledInv'
      /\ BroughtInv'
  BY <1>1, <1>3, <1>8, EnterLemma
<1>10. /\ toChild' \in [Proc -> Seq(Messages)]
       /\ toChild'[p] = Tail(toChild[p])
       /\ \A q \in Proc \ {p} :
            toChild'[q] = IF q \in Children(p) THEN Append(toChild[q], m) ELSE toChild[q]
  <2>1. p \notin Children(p)
    BY <1>1, ParentLemma
  <2>2. \A q \in Proc : Append(toChild[q], m) \in Seq(Messages)
    BY <1>1, AppendProperties
  <2> QED
    BY <2>1, <2>2, <1>1, <1>3 DEF Forward
<1>11. TypeOK'
  BY <1>1, <1>9, <1>10 DEF IInv, TypeOK
<1>12. PathInv'
  <2>1. PathInv
    BY DEF IInv, BroadcastInv
  <2>2. toChild'[0] = <<>>
    BY <2>1, <1>1, <1>10, ProcLemma DEF PathInv
  <2>3. ASSUME NEW q \in Proc \ {0}
        PROVE  entered'[Parent(q)] = entered'[q] \o toChild'[q]
    <3>1. /\ Parent(q) \in Proc /\ Parent(q) # q
          /\ (q \in Children(p) <=> Parent(q) = p)
          /\ entered[Parent(q)] = entered[q] \o toChild[q]
          /\ entered[q] \in Seq(Messages) /\ toChild[q] \in Seq(Messages)
      BY <2>1, ParentLemma, LenLemma DEF PathInv
    <3>2. CASE q = p
      <4>1. entered'[Parent(q)] = entered[Parent(q)]
        BY <3>1, <3>2, <1>9
      <4>2. Append(entered[p], m) \o Tail(toChild[p]) = entered[p] \o toChild[p]
        BY <1>1, <1>2, <1>4, MoveLemma
      <4> QED
        BY <4>1, <4>2, <3>2, <1>4, <1>9, <1>10
    <3>3. CASE q # p /\ Parent(q) = p
      <4>1. entered'[Parent(q)] = Append(entered[q] \o toChild[q], m)
        BY <3>1, <3>3, <1>9
      <4>2. entered'[q] = entered[q] /\ toChild'[q] = Append(toChild[q], m)
        BY <3>1, <3>3, <1>9, <1>10
      <4>3. Append(entered[q] \o toChild[q], m) = entered[q] \o Append(toChild[q], m)
        BY <3>1, PassLemma
      <4> QED
        BY <4>1, <4>2, <4>3
    <3>4. CASE q # p /\ Parent(q) # p
      BY <3>1, <3>4, <1>9, <1>10
    <3> QED
      BY <3>2, <3>3, <3>4
  <2> QED
    BY <2>2, <2>3 DEF PathInv
<1>13. entered'[0] = entered[0]
  BY <1>1, <1>4, <1>9
<1>14. OrderInv'
  <2>1. ASSUME NEW q \in Proc, q # p
        PROVE  /\ Len(entered'[q]) <= Len(entered'[0])
               /\ \A n \in 1 .. Len(entered'[q]) : entered'[q][n] = entered'[0][n]
    BY <2>1, <1>9, <1>13, SMTT(30) DEF IInv, BroadcastInv, OrderInv
  <2>2. Len(entered'[p]) <= Len(entered'[0])
    BY <1>5, <1>6, <1>9, <1>13
  <2>3. ASSUME NEW n \in 1 .. Len(entered'[p])
        PROVE  entered'[p][n] = entered'[0][n]
    <3>1. CASE n = N
      BY <3>1, <1>6, <1>9, <1>13
    <3>2. CASE n \in 1 .. Len(entered[p])
      BY <3>2, <1>9, <1>13 DEF IInv, BroadcastInv, OrderInv
    <3> QED
      BY <3>1, <3>2, <1>5, <1>9
  <2> QED
    BY <2>1, <2>2, <2>3 DEF OrderInv
<1>15. ASSUME NEW q \in Proc, q # p
       PROVE  BufferOf(q)'
  <2>1. entered'[q] = entered[q] /\ buffer'[q] = buffer[q] /\ toLeader'[q] = toLeader[q]
    BY <1>1, <1>9, <1>15
  <2>2. Ordered(q)' = Ordered(q)
    BY <2>1, <1>13 DEF Ordered
  <2> QED
    BY <2>1, <2>2, <1>13, BufferKept
<1>16. BufferOf(p)'
  <2>1. Ordered(p)' = Ordered(p) \ {N}
    <3>1. \A n \in Len(entered[p]) + 1 .. Len(entered[0]) :
            n # N <=> n \in N + 1 .. Len(entered[0])
      BY <1>5
    <3>2. \A n \in N + 1 .. Len(entered[0]) : n \in Len(entered[p]) + 1 .. Len(entered[0])
      BY <1>5
    <3> QED
      BY <3>1, <3>2, <1>9, <1>13 DEF Ordered
  <2>2. CASE m.root # p
    <3>1. N \notin Ordered(p)
      BY <2>2, <1>6 DEF Ordered
    <3>2. Ordered(p)' = Ordered(p)
      BY <3>1, <2>1
    <3> QED
      BY <3>2, <2>2, <1>1, <1>9, <1>13, BufferKept
  <2>3. CASE m.root = p
    <3>1. /\ N \in Ordered(p) /\ entered[0][N].tag = m.tag
          /\ \A t \in Tags \ {m.tag} : buffer'[p][t] = buffer[p][t]
          /\ buffer'[p][m.tag] = 0
      BY <2>3, <1>6, <1>8, <1>9 DEF Messages
    <3>2. /\ \A i \in 1 .. Len(toLeader[p]) : toLeader[p][i].tag \in Tags
          /\ \A n \in Ordered(p) : n \in 1 .. Len(entered[0]) /\ entered[0][n].tag \in Tags
      <4>1. \A n \in Ordered(p) : n \in 1 .. Len(entered[0])
        BY <1>5 DEF Ordered
      <4> QED
        BY <4>1, <1>4, LenLemma DEF Messages
    <3>3. BufferOf(p)
      BY <1>7 DEF BufferInv
    <3>4. /\ \A i \in 1 .. Len(toLeader[p]) : toLeader[p][i].tag # m.tag
          /\ \A n \in Ordered(p) \ {N} : entered[0][n].tag # m.tag
      BY <3>1, <3>3 DEF BufferOf
    <3>5. /\ \A i \in 1 .. Len(toLeader[p]) :
               /\ toLeader[p][i].root = p
               /\ buffer'[p][toLeader[p][i].tag] = toLeader[p][i].value
          /\ \A n \in Ordered(p) \ {N} : buffer'[p][entered[0][n].tag] = entered[0][n].value
      BY <3>1, <3>2, <3>3, <3>4, SMTT(30) DEF BufferOf
    <3>6. /\ \A i, j \in 1 .. Len(toLeader[p]) :
               toLeader[p][i].tag = toLeader[p][j].tag => i = j
          /\ \A n, k \in Ordered(p) \ {N} : entered[0][n].tag = entered[0][k].tag => n = k
          /\ \A i \in 1 .. Len(toLeader[p]), n \in Ordered(p) \ {N} :
               toLeader[p][i].tag # entered[0][n].tag
      BY <3>3 DEF BufferOf
    <3>7. ASSUME NEW t \in Tags, buffer'[p][t] # 0
          PROVE  \E w \in Messages : w.tag = t /\ Outstanding(p, w)'
      <4>1. t # m.tag /\ buffer[p][t] # 0
        BY <3>1, <3>7
      <4>2. PICK w \in Messages : w.tag = t /\ Outstanding(p, w)
        BY <4>1, <3>3 DEF BufferOf
      <4>3. \A n \in Ordered(p) : entered[0][n] = w => n # N
        BY <4>1, <4>2, <3>1
      <4>4. Outstanding(p, w)'
        BY <4>2, <4>3, <2>1, <1>1, <1>13 DEF Outstanding
      <4> QED
        BY <4>2, <4>4
    <3> QED
      <4>1. /\ Ordered(p)' = Ordered(p) \ {N} /\ toLeader'[p] = toLeader[p]
            /\ entered'[0] = entered[0]
        BY <2>1, <1>1, <1>13
      <4> QED
        BY <4>1, <3>5, <3>6, <3>7 DEF BufferOf
  <2> QED
    BY <2>2, <2>3
<1> QED
  BY <1>9, <1>11, <1>12, <1>14, <1>15, <1>16 DEF IInv, BroadcastInv, BufferInv
----------------------------------------------------------------------------
(* The callback: its argument is what rank 0 has ordered at that place.    *)
LEMMA CallLemma ==
  ASSUME IInv, NEW p \in Proc, Call(p)
  PROVE  /\ Len(called[p]) + 1 = Len(entered[p])
         /\ Len(entered[p]) \in 1 .. Len(entered[p])
         /\ Len(entered[p]) \in 1 .. Len(entered[0])
         /\ Current(p) \in Messages
         /\ Current(p) = entered[0][Len(entered[p])]
         /\ called' = [called EXCEPT ![p] = Append(@, Current(p))]
<1> DEFINE n == Len(entered[p])
           r == Current(p).root
<1>1. /\ Len(called[p]) \in Nat /\ n \in Nat /\ Len(called[p]) < n
      /\ Len(called[p]) \in {n, n - 1}
  BY LenLemma DEF Call, InBcast, IInv, BroadcastInv, CalledInv
<1>2. /\ Len(called[p]) + 1 = n /\ n \in 1 .. n
      /\ 0 \in Proc /\ Len(entered[0]) \in Nat /\ n <= Len(entered[0])
      /\ n \in 1 .. Len(entered[0])
  BY <1>1, LenLemma, ProcLemma DEF IInv, BroadcastInv, OrderInv
<1>3. /\ Current(p) \in Messages /\ Current(p) = entered[p][n]
      /\ Current(p) = entered[0][n]
  BY <1>2, LenLemma DEF Current, IInv, BroadcastInv, OrderInv
<1>4. r \in Proc /\ Len(entered[r]) \in Nat /\ n \in 1 .. Len(entered[r])
  BY <1>2, <1>3, LenLemma DEF Call, RootIn, Messages
<1>5. entered[r][n] = Current(p)
  BY <1>3, <1>4 DEF IInv, BroadcastInv, OrderInv
<1>6. brought[r][n] = Current(p).value
  BY <1>4, <1>5 DEF IInv, BroadcastInv, BroughtInv
<1>7. [Current(p) EXCEPT !.value = Current(p).value] = Current(p)
  BY <1>3 DEF Messages
<1> QED
  BY <1>2, <1>3, <1>6, <1>7 DEF Call

LEMMA CallStep ==
  ASSUME IInv, NEW p \in Proc, Call(p)
  PROVE  IInv'
<1>1. /\ called \in [Proc -> Seq(Messages)]
      /\ UNCHANGED <<made, buffer, toLeader, toChild, entered, brought>>
  BY DEF IInv, TypeOK, Call
<1>2. PICK m \in Messages : m = Current(p)
  BY CallLemma
<1>3. /\ Len(called[p]) + 1 = Len(entered[p])
      /\ m = entered[p][Len(entered[p])]
      /\ called' = [called EXCEPT ![p] = Append(@, m)]
  BY <1>2, CallLemma DEF Current
<1>4. /\ called' \in [Proc -> Seq(Messages)]
      /\ Len(called[p]) \in Nat
      /\ Len(called'[p]) = Len(called[p]) + 1
      /\ \A n \in 1 .. Len(called[p]) : called'[p][n] = called[p][n]
      /\ called'[p][Len(called[p]) + 1] = m
      /\ \A q \in Proc \ {p} : called'[q] = called[q]
  BY <1>1, <1>2, <1>3, GrowLemma
<1>5. TypeOK'
  BY <1>1, <1>4 DEF IInv, TypeOK
<1>6. PathInv' /\ OrderInv' /\ BroughtInv'
  BY <1>1 DEF IInv, BroadcastInv, PathInv, OrderInv, BroughtInv
<1>7. CalledInv'
  <2>1. CalledInv
    BY DEF IInv, BroadcastInv
  <2>2. ASSUME NEW n \in 1 .. Len(called'[p])
        PROVE  called'[p][n] = entered[p][n]
    BY <2>1, <1>3, <1>4 DEF CalledInv
  <2> QED
    BY <2>1, <2>2, <1>1, <1>3, <1>4 DEF CalledInv
<1>8. ASSUME NEW q \in Proc
      PROVE  BufferOf(q)'
  BY <1>1, BufferKept DEF Ordered
<1> QED
  BY <1>5, <1>6, <1>7, <1>8 DEF IInv, BroadcastInv, BufferInv
----------------------------------------------------------------------------
LEMMA StepIInv == IInv /\ [Next]_bcastVars => IInv'
<1> SUFFICES ASSUME IInv, [Next]_bcastVars PROVE IInv'
  OBVIOUS
<1>1. CASE \E p \in Proc, t \in Tags : BroadcastRefused(p, t)
  BY <1>1, RefusedStep
<1>2. CASE \E p \in Proc, t \in Tags : Broadcast(p, t)
  BY <1>2, BroadcastStep
<1>3. CASE \E q \in Proc : LeaderCallback(q)
  BY <1>3, LeaderStep
<1>4. CASE \E p \in Proc : ChildCallback(p)
  BY <1>4, ChildStep
<1>5. CASE \E p \in Proc : Call(p)
  BY <1>5, CallStep
<1>6. CASE UNCHANGED bcastVars
  <2>1. UNCHANGED <<made, buffer, toLeader, toChild, entered, brought, called>>
    BY <1>6 DEF bcastVars
  <2>2. TypeOK' /\ PathInv' /\ OrderInv' /\ CalledInv' /\ BroughtInv'
    BY <2>1 DEF IInv, BroadcastInv, TypeOK, PathInv, OrderInv, CalledInv, BroughtInv
  <2>3. ASSUME NEW q \in Proc
        PROVE  BufferOf(q)'
    BY <2>1, BufferKept DEF Ordered
  <2> QED
    BY <2>2, <2>3 DEF IInv, BroadcastInv, BufferInv
<1> QED
  BY <1>1, <1>2, <1>3, <1>4, <1>5, <1>6 DEF Next

(* The inductive invariant holds of the broadcasts (MPI2Reactor.cpp:80-138). *)
THEOREM Inductive == Spec => []IInv
  BY InitIInv, StepIInv, PTL DEF Spec

(* The buffers, channels and calls of every process keep their types       *)
(* (MPI2Reactor::Broadcast, BcastCallback).                                *)
THEOREM TypeCorrect == Spec => []TypeOK
  BY Inductive, PTL DEF IInv

(* In every tree, broadcasts started by any processes are entered by all   *)
(* in the order of rank 0, and bring what was given to Broadcast.          *)
THEOREM BroadcastsAgree == Spec => []BroadcastInv
  BY Inductive, PTL DEF IInv
----------------------------------------------------------------------------
(* The refinement: rank 0 orders, and the callbacks deliver. *)

LEMMA AbstractInit == Init => Abstract!Init
  BY ProcLemma DEF Init, Abstract!Init

(* Broadcast does not refuse a message only while none of its tag is under *)
(* way.                                                                    *)
LEMMA AcceptStep ==
  ASSUME IInv, NEW p \in Proc, NEW t \in Tags, Broadcast(p, t)
  PROVE  Abstract!Accept(p)
<1>0. made[p] + 1 \in 1 .. MaxBroadcasts
  BY BcastOK DEF IInv, TypeOK, Broadcast, MayBroadcast
<1>1. PICK m \in Messages : m = [root |-> p, tag |-> t, value |-> made[p] + 1]
  BY <1>0 DEF Messages
<1>2. /\ ~ InBcast(p) /\ buffer[p][t] = 0
      /\ toLeader' = [toLeader EXCEPT ![p] = Append(@, m)]
      /\ entered' = entered /\ called' = called
  BY <1>1 DEF Broadcast, MayBroadcast
<1>3. Len(called[p]) = Len(entered[p])
  BY <1>2, LenLemma
<1>4. BufferOf(p)
  BY DEF IInv, BroadcastInv, BufferInv
<1>5. ASSUME NEW i \in DOMAIN toLeader[p]
      PROVE  toLeader[p][i].tag # t
  <2>1. i \in 1 .. Len(toLeader[p])
    BY LenLemma, LenProperties
  <2>2. toLeader[p][i] \in Messages
    BY <2>1, LenLemma
  <2> QED
    BY <2>1, <2>2, <1>2, <1>4, BcastOK DEF BufferOf, Messages
<1>6. ASSUME NEW n \in Len(called[p]) + 1 .. Len(entered[0]),
             entered[0][n].root = p
      PROVE  entered[0][n].tag # t
  <2>1. n \in Ordered(p)
    BY <1>3, <1>6 DEF Ordered
  <2>2. n \in 1 .. Len(entered[0])
    BY <1>3, LenLemma, ProcLemma
  <2>3. entered[0][n] \in Messages
    BY <2>2, LenLemma, ProcLemma
  <2> QED
    BY <2>1, <2>3, <1>2, <1>4, BcastOK DEF BufferOf, Messages
<1>7. ~ Abstract!UnderWay(p, t)
  BY <1>5, <1>6 DEF Abstract!UnderWay
<1>8. m \in Abstract!Messages /\ m.root = p /\ m.tag = t
  BY <1>1 DEF Messages, Abstract!Messages
<1> QED
  BY <1>2, <1>7, <1>8 DEF Abstract!Accept

LEMMA OrderStep ==
  ASSUME IInv, NEW q \in Proc, LeaderCallback(q)
  PROVE  Abstract!Order(q)
<1>1. /\ toLeader[q] # <<>>
      /\ toLeader' = [toLeader EXCEPT ![q] = Tail(@)]
      /\ entered' = [entered EXCEPT ![0] = Append(@, Head(toLeader[q]))]
      /\ called' = called
  BY DEF LeaderCallback, Enter
<1>2. entered'[0] = Append(entered[0], Head(toLeader[q]))
  BY <1>1, ProcLemma DEF IInv, TypeOK
<1> QED
  BY <1>1, <1>2 DEF Abstract!Order

LEMMA DeliverStep ==
  ASSUME IInv, NEW p \in Proc, Call(p)
  PROVE  Abstract!Deliver(p)
<1>1. /\ Len(called[p]) + 1 = Len(entered[p])
      /\ Len(entered[p]) \in 1 .. Len(entered[0])
      /\ Current(p) = entered[0][Len(called[p]) + 1]
      /\ called' = [called EXCEPT ![p] = Append(@, Current(p))]
  BY CallLemma
<1>2. Len(called[p]) < Len(entered[0])
  BY <1>1, LenLemma, ProcLemma
<1>3. toLeader' = toLeader /\ entered' = entered
  BY DEF Call
<1> QED
  BY <1>1, <1>2, <1>3 DEF Abstract!Deliver

LEMMA AbstractStep == IInv /\ [Next]_bcastVars => [Abstract!Next]_(Abstract!vars)
<1> SUFFICES ASSUME IInv, [Next]_bcastVars
             PROVE  Abstract!Next \/ UNCHANGED Abstract!vars
  OBVIOUS
<1>1. ASSUME NEW p \in Proc, NEW t \in Tags, BroadcastRefused(p, t)
      PROVE  UNCHANGED Abstract!vars
  BY <1>1 DEF BroadcastRefused, Abstract!vars
<1>2. ASSUME NEW p \in Proc, NEW t \in Tags, Broadcast(p, t)
      PROVE  Abstract!Next
  BY <1>2, AcceptStep DEF Abstract!Next
<1>3. ASSUME NEW q \in Proc, LeaderCallback(q)
      PROVE  Abstract!Next
  BY <1>3, OrderStep DEF Abstract!Next
<1>4. ASSUME NEW p \in Proc, ChildCallback(p)
      PROVE  UNCHANGED Abstract!vars
  <2>1. /\ p # 0 /\ toLeader' = toLeader /\ called' = called
        /\ entered' = [entered EXCEPT ![p] = Append(@, Head(toChild[p]))]
    BY <1>4 DEF ChildCallback, Enter
  <2>2. entered'[0] = entered[0]
    BY <2>1, ProcLemma DEF IInv, TypeOK
  <2> QED
    BY <2>1, <2>2 DEF Abstract!vars
<1>5. ASSUME NEW p \in Proc, Call(p)
      PROVE  Abstract!Next
  BY <1>5, DeliverStep DEF Abstract!Next
<1>6. CASE UNCHANGED bcastVars
  BY <1>6 DEF bcastVars, Abstract!vars
<1> QED
  BY <1>1, <1>2, <1>3, <1>4, <1>5, <1>6 DEF Next

(* In every tree, the channels and MPI_Bcast implement a uniform, totally  *)
(* ordered broadcast (Reactor.hpp:168-176).                                *)
THEOREM TreeIsAtomicBroadcast == Spec => ImplementsAtomicBroadcast
<1>1. Spec => Abstract!Init /\ [][Abstract!Next]_(Abstract!vars)
  BY AbstractInit, AbstractStep, Inductive, PTL DEF Spec
<1> QED
  BY <1>1 DEF ImplementsAtomicBroadcast, Abstract!Spec
=============================================================================
