------------------------- MODULE ReactorSyncProofs -------------------------
(***************************************************************************)
(* Proofs about ReactorSync, for every tree, set of tags and bound.        *)
(***************************************************************************)
EXTENDS ReactorSync, TLAPS, FiniteSetTheorems, SequenceTheorems,
        WellFoundedInduction

(***************************************************************************)
(* The tree: the parent of a process other than the root is a smaller      *)
(* process, of which it is a child.                                        *)
(***************************************************************************)
LEMMA DivLemma ==
  ASSUME NEW a \in Nat, NEW b \in Nat \ {0}, NEW q \in Nat
  PROVE  /\ a \div b \in Nat
         /\ b * (a \div b) <= a
         /\ a < b * (a \div b) + b
         /\ b * q <= a /\ a < b * q + b => q = a \div b
  OBVIOUS

LEMMA TreeLemma ==
  ASSUME NEW c \in Proc, c # 0
  PROVE  /\ Parent(c) \in Proc
         /\ Parent(c) < c
         /\ \A p \in Proc : c \in Children(p) <=> p = Parent(c)
  BY ConstantsOK, DivLemma DEF Proc, Parent, Children

LEMMA SmallestLemma ==
  ASSUME NEW S, S \subseteq Nat, S # {}
  PROVE  \E m \in S : \A k \in S : m <= k
<1> DEFINE R == OpToRel(<, Nat)
<1>1. IsWellFoundedOn(R, Nat)
  BY NatLessThanWellFounded
<1>2. \A k, m \in Nat : k < m => <<k, m>> \in R
  BY DEF OpToRel
<1> HIDE DEF R
<1>3. PICK m \in S : \A k \in S : ~ (<<k, m>> \in R)
  BY <1>1, WFMin
<1>4. ASSUME NEW k \in S
      PROVE  m <= k
  <2>1. k \in Nat /\ m \in Nat
    OBVIOUS
  <2>2. ~ (k < m)
    BY <1>2, <1>3, <2>1
  <2> QED
    BY <2>1, <2>2
<1> QED
  BY <1>4

(* What holds of the root, and of a process when it holds of its parent,   *)
(* holds of every process.                                                 *)
LEMMA TreeInduction ==
  ASSUME NEW S, 0 \in S,
         \A c \in Proc : c # 0 /\ Parent(c) \in S => c \in S
  PROVE  Proc \subseteq S
<1>1. SUFFICES ASSUME Proc \ S # {}
               PROVE  FALSE
  OBVIOUS
<1>2. Proc \ S \subseteq Nat
  BY ConstantsOK DEF Proc
<1>3. PICK m \in Proc \ S : \A k \in Proc \ S : m <= k
  BY <1>1, <1>2, SmallestLemma
<1>4. m # 0 /\ Parent(m) \in Proc /\ Parent(m) < m
  BY TreeLemma
<1>5. Parent(m) \in Nat /\ m \in Nat
  BY <1>2, <1>4, ConstantsOK DEF Proc
<1>6. Parent(m) \in S
  BY <1>3, <1>4, <1>5
<1> QED
  BY <1>4, <1>6

LEMMA ProcLemma ==
  /\ Proc \subseteq Nat
  /\ 0 \in Proc
  /\ \A p \in Proc : Children(p) \subseteq Proc \ {0}
  BY ConstantsOK DEF Proc, Children

LEMMA ChildrenLemma ==
  ASSUME NEW p \in Proc
  PROVE  /\ IsFiniteSet(Children(p))
         /\ CriticalMass(p) = Cardinality(Children(p)) + 1
         /\ Cardinality(Children(p)) \in Nat
         /\ \A T \in SUBSET Children(p) :
              /\ IsFiniteSet(T)
              /\ Cardinality(T) \in Nat
              /\ Cardinality(T) <= Cardinality(Children(p))
              /\ Cardinality(T) = Cardinality(Children(p)) => T = Children(p)
<1>1. IsFiniteSet(Proc)
  BY FS_Interval, ConstantsOK DEF Proc
<1>2. IsFiniteSet(Children(p))
  BY <1>1, FS_Subset DEF Children
<1> QED
  BY <1>2, FS_Subset, FS_CardinalityType DEF CriticalMass
----------------------------------------------------------------------------
LEMMA TypeInit == Init => TypeOK
  BY DEF Init, TypeOK

LEMMA ContributeType ==
  ASSUME TypeOK, NEW p \in Proc, NEW t \in Tags,
         NEW sent \in [Proc -> [Tags -> Nat]], Contribute(p, t, sent)
  PROVE  /\ counter' \in [Proc -> [Tags -> Nat]]
         /\ up' \in [Proc -> [Tags -> Nat]]
         /\ down' \in [Proc -> Seq(Tags)]
<1>1. counter' \in [Proc -> [Tags -> Nat]]
  BY DEF TypeOK, Contribute
<1>2. down' \in [Proc -> Seq(Tags)]
  <2>1. \A s \in Seq(Tags) : Append(s, t) \in Seq(Tags)
    OBVIOUS
  <2>2. [down EXCEPT ![0] = Append(@, t)] \in [Proc -> Seq(Tags)]
    BY <2>1, ProcLemma DEF TypeOK
  <2> QED
    BY <2>2 DEF TypeOK, Contribute
<1>3. up' \in [Proc -> [Tags -> Nat]]
  <2>1. [sent EXCEPT ![p][t] = @ + 1] \in [Proc -> [Tags -> Nat]]
    OBVIOUS
  <2> QED
    BY <2>1 DEF Contribute
<1> QED
  BY <1>1, <1>2, <1>3

LEMMA OnWaveHead ==
  ASSUME TypeOK, NEW p \in Proc, down[p] # <<>>
  PROVE  Head(down[p]) \in Tags
  BY DEF TypeOK

LEMMA TypeStep == TypeOK /\ [Next]_vars => TypeOK'
<1> SUFFICES ASSUME TypeOK, [Next]_vars
             PROVE  TypeOK'
  OBVIOUS
<1>1. ASSUME NEW p \in Proc, NEW t \in Tags, SyncPending(p, t)
      PROVE  TypeOK'
  BY <1>1 DEF SyncPending, TypeOK
<1>2. ASSUME NEW p \in Proc, NEW t \in Tags, SyncStart(p, t)
      PROVE  TypeOK'
  <2>1. up \in [Proc -> [Tags -> Nat]]
    BY DEF TypeOK
  <2> QED
    BY <1>2, <2>1, ContributeType DEF SyncStart, TypeOK
<1>3. ASSUME NEW c \in Proc, NEW t \in Tags, OnSync(c, t)
      PROVE  TypeOK'
  <2>1. [up EXCEPT ![c][t] = @ - 1] \in [Proc -> [Tags -> Nat]]
    BY <1>3 DEF OnSync, TypeOK
  <2>2. Parent(c) \in Proc
    BY <1>3, TreeLemma DEF OnSync
  <2> QED
    BY <1>3, <2>1, <2>2, ContributeType DEF OnSync, TypeOK
<1>4. ASSUME NEW p \in Proc, OnWave(p)
      PROVE  TypeOK'
  <2>1. Head(down[p]) \in Tags
    BY <1>4, OnWaveHead DEF OnWave
  <2>2. down' \in [Proc -> Seq(Tags)]
    BY <1>4, <2>1 DEF OnWave, TypeOK
  <2>3. log' \in [Proc -> Seq(Tags)]
    BY <1>4, <2>1 DEF OnWave, TypeOK
  <2>4. done' \in [Proc -> [Tags -> Nat]]
    BY <1>4, <2>1, SMTT(30) DEF OnWave, TypeOK
  <2>5. counter' \in [Proc -> [Tags -> Nat]]
    BY <1>4, <2>1 DEF OnWave, TypeOK
  <2>6. syncTags' \in [Proc -> SUBSET Tags]
    BY <1>4, <2>1 DEF OnWave, TypeOK
  <2> QED
    BY <1>4, <2>2, <2>3, <2>4, <2>5, <2>6 DEF OnWave, TypeOK
<1>5. CASE UNCHANGED vars
  BY <1>5 DEF vars, TypeOK
<1> QED
  BY <1>1, <1>2, <1>3, <1>4, <1>5 DEF Next

(* Every variable keeps its type (the fields of MPI2Reactor).              *)
THEOREM TypeCorrect == SafeSpec => []TypeOK
  BY TypeInit, TypeStep, PTL DEF SafeSpec
----------------------------------------------------------------------------
LEMMA Numbers ==
  ASSUME TypeOK, NEW p \in Proc, NEW t \in Tags
  PROVE  /\ counter[p][t] \in Nat
         /\ up[p][t] \in Nat
         /\ done[p][t] \in Nat
         /\ CriticalMass(p) \in Nat
<1>1. CriticalMass(p) \in Nat
  BY ChildrenLemma
<1> QED
  BY <1>1 DEF TypeOK

(***************************************************************************)
(* What the invariant says of a complete process, and of a complete root.  *)
(***************************************************************************)
LEMMA CompleteLemma ==
  ASSUME TypeOK, CountInv, NEW p \in Proc, NEW t \in Tags
  PROVE  /\ counter[p][t] <= CriticalMass(p)
         /\ Complete(p, t) => /\ t \in syncTags[p]
                              /\ \A c \in Children(p) : Counted(c, t)
<1> DEFINE N == Cardinality(CountedChildren(p, t))
<1>1. CountedChildren(p, t) \in SUBSET Children(p)
  BY DEF CountedChildren
<1>2. /\ N \in Nat
      /\ Cardinality(Children(p)) \in Nat
      /\ N <= Cardinality(Children(p))
      /\ N = Cardinality(Children(p)) => CountedChildren(p, t) = Children(p)
      /\ CriticalMass(p) = Cardinality(Children(p)) + 1
  BY <1>1, ChildrenLemma
<1>3. counter[p][t] = N + (IF t \in syncTags[p] THEN 1 ELSE 0)
  BY DEF CountInv
<1> HIDE DEF N
<1>4. counter[p][t] <= CriticalMass(p)
  BY <1>2, <1>3
<1>5. ASSUME Complete(p, t)
      PROVE  t \in syncTags[p] /\ CountedChildren(p, t) = Children(p)
  BY <1>2, <1>3, <1>5 DEF Complete
<1> QED
  BY <1>4, <1>5 DEF CountedChildren

LEMMA RootLemma ==
  ASSUME TypeOK, CountInv, NEW t \in Tags, Complete(0, t)
  PROVE  \A q \in Proc : /\ Complete(q, t)
                         /\ done[q][t] = done[0][t]
                         /\ t \in syncTags[q]
<1> DEFINE S == {q \in Proc : Complete(q, t) /\ done[q][t] = done[0][t]}
<1>1. 0 \in S
  BY ProcLemma
<1>2. ASSUME NEW c \in Proc, c # 0, Parent(c) \in S
      PROVE  c \in S
  <2>1. c \in Children(Parent(c))
    BY <1>2, TreeLemma
  <2>2. Counted(c, t)
    BY <1>2, <2>1, CompleteLemma
  <2> QED
    BY <1>2, <2>2 DEF Counted
<1>3. Proc \subseteq S
  <2> HIDE DEF S
  <2> QED
    BY <1>1, <1>2, TreeInduction
<1> QED
  BY <1>3, CompleteLemma

(* No process is ahead of the root.                                        *)
LEMMA BehindRoot ==
  ASSUME TypeOK, WaveInv
  PROVE  \A p \in Proc, t \in Tags : done[p][t] <= done[0][t]
<1> SUFFICES ASSUME NEW t \in Tags
             PROVE  \A p \in Proc : done[p][t] <= done[0][t]
  OBVIOUS
<1>0. \A q \in Proc : done[q][t] \in Nat
  BY DEF TypeOK
<1> DEFINE S == {p \in Proc : done[p][t] <= done[0][t]}
<1>1. 0 \in S
  BY <1>0, ProcLemma
<1>2. ASSUME NEW c \in Proc, c # 0, Parent(c) \in S
      PROVE  c \in S
  <2>1. done[c][t] <= done[Parent(c)][t]
    BY <1>0, <1>2 DEF WaveInv
  <2>2. done[Parent(c)][t] <= done[0][t] /\ Parent(c) \in Proc
    BY <1>2, TreeLemma
  <2>3. done[c][t] \in Nat /\ done[Parent(c)][t] \in Nat /\ done[0][t] \in Nat
    BY <1>0, <2>2, ProcLemma
  <2> QED
    BY <2>1, <2>2, <2>3
<1>3. Proc \subseteq S
  <2> HIDE DEF S
  <2> QED
    BY <1>1, <1>2, TreeInduction
<1> QED
  BY <1>3

(* The invariant implies that no callback is early.                        *)
LEMMA NotEarly ==
  ASSUME TypeOK, WaveInv, RootInv
  PROVE  NoEarlyCallback
<1> SUFFICES ASSUME NEW p \in Proc, NEW q \in Proc, NEW t \in Tags
             PROVE  done[p][t] <= Started(q, t)
  BY DEF NoEarlyCallback
<1>1. done[p][t] <= done[0][t] /\ done[0][t] <= Started(q, t)
  BY BehindRoot DEF RootInv
<1>2. done[p][t] \in Nat /\ done[0][t] \in Nat /\ done[q][t] \in Nat
  BY ProcLemma DEF TypeOK
<1>3. Started(q, t) \in Nat
  BY <1>2 DEF Started
<1> QED
  BY <1>1, <1>2, <1>3
----------------------------------------------------------------------------
(***************************************************************************)
(* The effect of a contribution and of a wave, value by value.             *)
(***************************************************************************)
Reports(p, t) == counter[p][t] + 1 = CriticalMass(p)

LEMMA ContributeEffect ==
  ASSUME TypeOK, NEW p \in Proc, NEW t \in Tags,
         NEW sent \in [Proc -> [Tags -> Nat]], Contribute(p, t, sent)
  PROVE  /\ \A q \in Proc, u \in Tags :
              counter'[q][u] = IF q = p /\ u = t THEN counter[p][t] + 1
                                                 ELSE counter[q][u]
         /\ \A q \in Proc, u \in Tags :
              up'[q][u] = IF q = p /\ u = t /\ p # 0 /\ Reports(p, t)
                          THEN sent[p][t] + 1 ELSE sent[q][u]
         /\ \A q \in Proc :
              down'[q] = IF q = 0 /\ p = 0 /\ Reports(0, t)
                         THEN Append(down[0], t) ELSE down[q]
<1>1. counter' = [counter EXCEPT ![p][t] = @ + 1]
  BY DEF Contribute
<1>2. CASE Reports(p, t) /\ p = 0
  <2>1. down' = [down EXCEPT ![0] = Append(@, t)] /\ up' = sent
    BY <1>2 DEF Contribute, Reports
  <2> QED
    BY <1>1, <1>2, <2>1 DEF TypeOK
<1>3. CASE Reports(p, t) /\ p # 0
  <2>1. down' = down /\ up' = [sent EXCEPT ![p][t] = @ + 1]
    BY <1>3 DEF Contribute, Reports
  <2> QED
    BY <1>1, <1>3, <2>1 DEF TypeOK
<1>4. CASE ~ Reports(p, t)
  <2>1. down' = down /\ up' = sent
    BY <1>4 DEF Contribute, Reports
  <2> QED
    BY <1>1, <1>4, <2>1 DEF TypeOK
<1> QED
  BY <1>2, <1>3, <1>4

LEMMA OnWaveEffect ==
  ASSUME TypeOK, NEW p \in Proc, OnWave(p)
  PROVE  \E t \in Tags :
    /\ down[p] # <<>> /\ t = Head(down[p])
    /\ \A q \in Proc : down'[q] = IF q = p THEN Tail(down[p])
                                  ELSE IF q \in Children(p) THEN Append(down[q], t)
                                  ELSE down[q]
    /\ \A q \in Proc, u \in Tags :
         done'[q][u] = IF q = p /\ u = t THEN done[q][u] + 1 ELSE done[q][u]
    /\ \A q \in Proc : log'[q] = IF q = p THEN Append(log[q], t) ELSE log[q]
    /\ \A q \in Proc, u \in Tags :
         counter'[q][u] = IF q = p /\ u = t THEN 0 ELSE counter[q][u]
    /\ \A q \in Proc, u \in Tags :
         u \in syncTags'[q] <=> u \in syncTags[q] /\ ~ (q = p /\ u = t)
    /\ up' = up
<1>1. Head(down[p]) \in Tags /\ down[p] # <<>>
  BY OnWaveHead DEF OnWave
<1>2. PICK t \in Tags : t = Head(down[p])
  BY <1>1
<1>3. /\ down' = [q \in Proc |-> IF q = p THEN Tail(down[p])
                                 ELSE IF q \in Children(p) THEN Append(down[q], t)
                                 ELSE down[q]]
      /\ done' = [done EXCEPT ![p][t] = @ + 1]
      /\ log' = [log EXCEPT ![p] = Append(@, t)]
      /\ counter' = [counter EXCEPT ![p][t] = 0]
      /\ syncTags' = [syncTags EXCEPT ![p] = @ \ {t}]
      /\ up' = up
  BY <1>2 DEF OnWave
<1>4. \A q \in Proc, u \in Tags :
        done'[q][u] = IF q = p /\ u = t THEN done[q][u] + 1 ELSE done[q][u]
  BY <1>3 DEF TypeOK
<1>5. \A q \in Proc, u \in Tags :
        counter'[q][u] = IF q = p /\ u = t THEN 0 ELSE counter[q][u]
  BY <1>3 DEF TypeOK
<1>6. \A q \in Proc, u \in Tags :
        u \in syncTags'[q] <=> u \in syncTags[q] /\ ~ (q = p /\ u = t)
  BY <1>3 DEF TypeOK
<1>7. \A q \in Proc : log'[q] = IF q = p THEN Append(log[q], t) ELSE log[q]
  BY <1>3 DEF TypeOK
<1> QED
  BY <1>1, <1>2, <1>3, <1>4, <1>5, <1>6, <1>7
----------------------------------------------------------------------------
(***************************************************************************)
(* Sequences of tags.                                                      *)
(***************************************************************************)
Occurs(t, s) == \E i \in DOMAIN s : s[i] = t

Distinct(s) == \A i, j \in DOMAIN s : s[i] = s[j] => i = j

LEMMA AppendLemma ==
  ASSUME NEW s \in Seq(Tags), NEW t \in Tags
  PROVE  /\ \A u : Occurs(u, Append(s, t)) <=> Occurs(u, s) \/ u = t
         /\ Distinct(s) /\ ~ Occurs(t, s) => Distinct(Append(s, t))
<1>1. DOMAIN Append(s, t) = 1..Len(s)+1 /\ DOMAIN s = 1..Len(s) /\ Len(s) \in Nat
  OBVIOUS
<1>2. \A i \in DOMAIN Append(s, t) :
        Append(s, t)[i] = IF i = Len(s) + 1 THEN t ELSE s[i]
  OBVIOUS
<1> QED
  BY <1>1, <1>2 DEF Occurs, Distinct

LEMMA TailLemma ==
  ASSUME NEW s \in Seq(Tags), s # <<>>
  PROVE  /\ Occurs(Head(s), s)
         /\ \A u : Occurs(u, s) <=> Occurs(u, Tail(s)) \/ u = Head(s)
         /\ Distinct(s) => Distinct(Tail(s)) /\ ~ Occurs(Head(s), Tail(s))
<1>1. /\ Len(s) \in Nat /\ Len(s) > 0
      /\ DOMAIN s = 1..Len(s)
      /\ DOMAIN Tail(s) = 1..Len(s)-1
      /\ Head(s) = s[1]
  OBVIOUS
<1>2. \A i \in 1..Len(s)-1 : Tail(s)[i] = s[i+1]
  OBVIOUS
<1>3. \A i \in 1..Len(s) : i = 1 \/ (i-1 \in 1..Len(s)-1 /\ (i-1)+1 = i)
  BY <1>1
<1>4. Occurs(Head(s), s)
  BY <1>1 DEF Occurs
<1>5. ASSUME NEW u
      PROVE  Occurs(u, s) <=> Occurs(u, Tail(s)) \/ u = Head(s)
  <2>1. ASSUME NEW i \in 1..Len(s), s[i] = u, i # 1
        PROVE  Occurs(u, Tail(s))
    <3>1. i-1 \in 1..Len(s)-1 /\ Tail(s)[i-1] = u
      BY <1>1, <1>2, <2>1
    <3> QED
      BY <1>1, <3>1 DEF Occurs
  <2>2. ASSUME NEW i \in 1..Len(s)-1, Tail(s)[i] = u
        PROVE  Occurs(u, s)
    <3>1. i+1 \in 1..Len(s) /\ s[i+1] = u
      BY <1>1, <1>2, <2>2
    <3> QED
      BY <1>1, <3>1 DEF Occurs
  <2> QED
    BY <1>1, <1>4, <2>1, <2>2 DEF Occurs
<1>6. ASSUME Distinct(s)
      PROVE  Distinct(Tail(s)) /\ ~ Occurs(Head(s), Tail(s))
  <2>1. \A i, j \in 1..Len(s)-1 : s[i+1] = s[j+1] => i = j
    BY <1>1, <1>6 DEF Distinct
  <2>2. \A i \in 1..Len(s)-1 : s[i+1] # s[1]
    BY <1>1, <1>6 DEF Distinct
  <2> QED
    BY <1>1, <1>2, <2>1, <2>2 DEF Distinct, Occurs
<1> QED
  BY <1>4, <1>5, <1>6
LEMMA MoveLemma ==
  ASSUME NEW r \in Seq(Tags), NEW s \in Seq(Tags), s # <<>>
  PROVE  r \o s = Append(r, Head(s)) \o Tail(s)
<1> DEFINE a == Append(r, Head(s))
<1>1. /\ a \in Seq(Tags) /\ Len(a) = Len(r) + 1
      /\ \A i \in 1..Len(r)+1 : a[i] = IF i = Len(r) + 1 THEN s[1] ELSE r[i]
  OBVIOUS
<1>2. /\ Tail(s) \in Seq(Tags) /\ Len(Tail(s)) = Len(s) - 1
      /\ \A i \in 1..Len(s)-1 : Tail(s)[i] = s[i+1]
  BY HeadTailProperties
<1>3. Len(r) \in Nat /\ Len(s) \in Nat /\ Len(s) > 0
  OBVIOUS
<1> HIDE DEF a
<1>4. /\ r \o s \in Seq(Tags)
      /\ Len(r \o s) = Len(r) + Len(s)
      /\ \A i \in 1..Len(r)+Len(s) :
           (r \o s)[i] = IF i <= Len(r) THEN r[i] ELSE s[i - Len(r)]
  BY ConcatProperties
<1>5. /\ a \o Tail(s) \in Seq(Tags)
      /\ Len(a \o Tail(s)) = Len(r) + Len(s)
      /\ \A i \in 1..Len(r)+Len(s) :
           (a \o Tail(s))[i] = IF i <= Len(r) + 1 THEN a[i] ELSE Tail(s)[i - (Len(r) + 1)]
  <2>1. a \in Seq(Tags) /\ Tail(s) \in Seq(Tags)
    BY <1>1, <1>2
  <2>2. Len(a) + Len(Tail(s)) = Len(r) + Len(s)
    BY <1>1, <1>2, <1>3
  <2>3. /\ a \o Tail(s) \in Seq(Tags)
        /\ Len(a \o Tail(s)) = Len(a) + Len(Tail(s))
        /\ \A i \in 1..Len(a)+Len(Tail(s)) :
             (a \o Tail(s))[i] = IF i <= Len(a) THEN a[i] ELSE Tail(s)[i - Len(a)]
    BY <2>1, ConcatProperties
  <2>4. Len(a) = Len(r) + 1
    BY <1>1
  <2> QED
    BY <2>2, <2>3, <2>4
<1>6. ASSUME NEW i \in 1..Len(r)+Len(s)
      PROVE  (r \o s)[i] = (a \o Tail(s))[i]
  <2>1. CASE i <= Len(r) + 1
    BY <1>1, <1>3, <1>4, <1>5, <2>1
  <2>2. CASE i > Len(r) + 1
    <3>1. /\ i - (Len(r) + 1) \in 1..Len(s)-1
          /\ (i - (Len(r) + 1)) + 1 = i - Len(r)
      BY <1>3, <2>2
    <3>2. Tail(s)[i - (Len(r) + 1)] = s[i - Len(r)]
      BY <1>2, <3>1
    <3>3. ~ (i <= Len(r)) /\ ~ (i <= Len(r) + 1)
      BY <1>3, <2>2
    <3>4. (r \o s)[i] = s[i - Len(r)]
      BY <1>4, <3>3
    <3>5. (a \o Tail(s))[i] = Tail(s)[i - (Len(r) + 1)]
      BY <1>5, <3>3
    <3> QED
      BY <3>2, <3>4, <3>5
  <2>3. i <= Len(r) + 1 \/ i > Len(r) + 1
    BY <1>3
  <2> QED
    BY <2>1, <2>2, <2>3
<1>7. r \o s = a \o Tail(s)
  BY <1>3, <1>4, <1>5, <1>6, SeqEqual
<1> QED
  BY <1>7 DEF a

LEMMA AppendConcat ==
  ASSUME NEW r \in Seq(Tags), NEW s \in Seq(Tags), NEW t \in Tags
  PROVE  Append(r \o s, t) = r \o Append(s, t)
<1>1. <<t>> \in Seq(Tags) /\ r \o s \in Seq(Tags)
  OBVIOUS
<1>2. Append(r \o s, t) = (r \o s) \o <<t>>
  BY <1>1
<1>3. Append(s, t) = s \o <<t>>
  OBVIOUS
<1>4. (r \o s) \o <<t>> = r \o (s \o <<t>>)
  BY <1>1, ConcatAssociative
<1> QED
  BY <1>2, <1>3, <1>4
----------------------------------------------------------------------------
(***************************************************************************)
(* A contribution at a process that is not complete, the messages sent     *)
(* being some of those that were up.                                       *)
(***************************************************************************)
LEMMA ContributionStep ==
  ASSUME TypeOK, TypeOK', RoundInv,
         NEW p \in Proc, NEW t \in Tags, NEW sent \in [Proc -> [Tags -> Nat]],
         Contribute(p, t, sent),
         \A q \in Proc, u \in Tags : sent[q][u] <= up[q][u],
         \A q \in Proc : syncTags[q] \subseteq syncTags'[q],
         done' = done, log' = log,
         counter[p][t] < CriticalMass(p)
  PROVE  /\ WaveInv' /\ OnceInv' /\ ComingInv' /\ UpInv' /\ RootInv' /\ LogInv'
         /\ up[p][t] = 0
         /\ ~ Counted(p, t)
         /\ p # 0 => ~ Counted(p, t)'
         /\ \A q \in Proc, u \in Tags :
              ~ (q = p /\ u = t) => (Complete(q, u)' <=> Complete(q, u))
<1>0. counter[p][t] \in Nat /\ CriticalMass(p) \in Nat
  BY Numbers
<1>1. ~ Complete(p, t)
  BY <1>0 DEF Complete
<1>2. ~ WaveComing(p, t) /\ up[p][t] = 0 /\ ~ Counted(p, t)
  BY <1>1 DEF RoundInv, ComingInv, UpInv, Counted
<1>3. sent[p][t] = 0
  BY <1>2 DEF TypeOK
<1>4. \A q \in Proc, u \in Tags :
        ~ (q = p /\ u = t) => (Complete(q, u)' <=> Complete(q, u))
  BY ContributeEffect DEF Complete, CriticalMass
<1>5. Complete(p, t)' <=> Reports(p, t)
  BY ContributeEffect DEF Complete, CriticalMass, Reports
<1>6. \A q \in Proc, u \in Tags :
        WaveComing(q, u)' <=> \/ WaveComing(q, u)
                              \/ q = 0 /\ p = 0 /\ u = t /\ Reports(p, t)
  <2>1. \A q \in Proc, u \in Tags : WaveComing(q, u) <=> Occurs(u, down[q])
    BY DEF WaveComing, Occurs
  <2>2. \A q \in Proc, u \in Tags : WaveComing(q, u)' <=> Occurs(u, down'[q])
    BY DEF WaveComing, Occurs
  <2>3. down[0] \in Seq(Tags)
    BY ProcLemma DEF TypeOK
  <2>4. \A u \in Tags : Occurs(u, Append(down[0], t)) <=> Occurs(u, down[0]) \/ u = t
    BY <2>3, AppendLemma
  <2> QED
    BY <2>1, <2>2, <2>4, ContributeEffect, ProcLemma
<1>7. WaveInv'
  <2> SUFFICES ASSUME NEW q \in Proc, NEW u \in Tags, q # 0
               PROVE  (done[Parent(q)][u] = done[q][u] +
                        (IF WaveComing(q, u) THEN 1 ELSE 0))'
    BY DEF WaveInv
  <2>1. WaveComing(q, u)' <=> WaveComing(q, u)
    BY <1>6
  <2> QED
    BY <2>1 DEF RoundInv, WaveInv, Parent
<1>8. OnceInv'
  <2>1. \A q \in Proc : Distinct(down[q])
    BY DEF RoundInv, OnceInv, Distinct
  <2>2. down[0] \in Seq(Tags)
    BY ProcLemma DEF TypeOK
  <2>3. p = 0 => ~ Occurs(t, down[0])
    BY <1>2 DEF WaveComing, Occurs
  <2>4. p = 0 => Distinct(Append(down[0], t))
    BY <2>1, <2>2, <2>3, AppendLemma, ProcLemma
  <2>5. \A q \in Proc : Distinct(down'[q])
    BY <2>1, <2>4, ContributeEffect
  <2> QED
    BY <2>5 DEF OnceInv, Distinct
<1>9. \A q \in Proc, u \in Tags :
        ~ (q = p /\ u = t) => up'[q][u] <= up[q][u] /\ up'[q][u] \in Nat
  <2>1. \A q \in Proc, u \in Tags : sent[q][u] \in Nat
    OBVIOUS
  <2>2. \A q \in Proc, u \in Tags : ~ (q = p /\ u = t) => up'[q][u] = sent[q][u]
    BY ContributeEffect
  <2> QED
    BY <2>1, <2>2
<1>10. up'[p][t] = IF p # 0 /\ Reports(p, t) THEN 1 ELSE 0
  BY <1>3, ContributeEffect
<1>11. UpInv'
  <2> SUFFICES ASSUME NEW q \in Proc, NEW u \in Tags
               PROVE  /\ up'[q][u] \in {0, 1}
                      /\ up'[q][u] = 1 => q # 0 /\ Complete(q, u)'
    BY DEF UpInv
  <2>1. CASE q = p /\ u = t
    BY <1>5, <1>10, <2>1
  <2>2. CASE ~ (q = p /\ u = t)
    <3>1. up[q][u] \in {0, 1} /\ (up[q][u] = 1 => q # 0 /\ Complete(q, u))
      BY DEF RoundInv, UpInv
    <3>2. up'[q][u] = 0 \/ (up'[q][u] = 1 /\ up[q][u] = 1)
      <4>1. up'[q][u] \in Nat /\ up'[q][u] <= up[q][u]
        BY <1>9, <2>2
      <4>2. up[q][u] = 0 \/ up[q][u] = 1
        BY <3>1
      <4>3. \A m \in Nat : m <= 0 => m = 0
        OBVIOUS
      <4>4. \A m \in Nat : m <= 1 => m = 0 \/ m = 1
        OBVIOUS
      <4> QED
        BY <4>1, <4>2, <4>3, <4>4
    <3> QED
      BY <1>4, <2>2, <3>1, <3>2
  <2> QED
    BY <2>1, <2>2
<1>12. ComingInv'
  <2> SUFFICES ASSUME NEW q \in Proc, NEW u \in Tags
               PROVE  /\ WaveComing(q, u)' => Complete(q, u)' /\ up'[q][u] = 0
                      /\ q = 0 /\ Complete(q, u)' => WaveComing(q, u)'
    BY DEF ComingInv
  <2>1. CASE q = p /\ u = t
    BY <1>2, <1>5, <1>6, <1>10, <2>1
  <2>2. CASE ~ (q = p /\ u = t)
    <3>1. /\ WaveComing(q, u) => Complete(q, u) /\ up[q][u] = 0
          /\ q = 0 /\ Complete(q, u) => WaveComing(q, u)
      BY DEF RoundInv, ComingInv
    <3>2. WaveComing(q, u)' <=> WaveComing(q, u)
      BY <1>6, <2>2
    <3> QED
      BY <1>4, <1>9, <2>2, <3>1, <3>2
  <2> QED
    BY <2>1, <2>2
<1>13. RootInv'
  <2> SUFFICES ASSUME NEW q \in Proc, NEW u \in Tags
               PROVE  done'[0][u] <= Started(q, u)'
    BY DEF RootInv
  <2>1. done[0][u] <= Started(q, u) /\ done[0][u] \in Nat /\ done[q][u] \in Nat
    BY ProcLemma DEF RoundInv, RootInv, TypeOK
  <2>2. u \in syncTags[q] => u \in syncTags'[q]
    OBVIOUS
  <2>3. CASE u \in syncTags[q]
    BY <2>1, <2>2, <2>3 DEF Started
  <2>4. CASE u \notin syncTags[q]
    BY <2>1, <2>4 DEF Started
  <2> QED
    BY <2>3, <2>4
<1>14. LogInv'
  BY ContributeEffect DEF RoundInv, LogInv, Parent
<1>15. p # 0 => ~ Counted(p, t)'
  BY <1>5, <1>10 DEF Counted
<1> QED
  BY <1>2, <1>4, <1>7, <1>8, <1>11, <1>12, <1>13, <1>14, <1>15
----------------------------------------------------------------------------
(* The count at a process that the step does not touch.                    *)
LEMMA SameCount ==
  ASSUME CountInv, NEW q \in Proc, NEW u \in Tags,
         \A d \in Children(q) : Counted(d, u)' <=> Counted(d, u),
         counter'[q][u] = counter[q][u],
         u \in syncTags'[q] <=> u \in syncTags[q]
  PROVE  counter'[q][u] = Cardinality(CountedChildren(q, u)')
                            + (IF u \in syncTags'[q] THEN 1 ELSE 0)
<1>1. CountedChildren(q, u)' = CountedChildren(q, u)
  BY DEF CountedChildren, Children
<1> QED
  BY <1>1 DEF CountInv

LEMMA SyncStartStep ==
  ASSUME TypeOK, TypeOK', RoundInv, NEW p \in Proc, NEW t \in Tags,
         SyncStart(p, t)
  PROVE  RoundInv'
<1>1. /\ up \in [Proc -> [Tags -> Nat]]
      /\ Contribute(p, t, up)
      /\ t \notin syncTags[p]
      /\ done' = done /\ log' = log
  BY DEF SyncStart, TypeOK
<1>2. \A q \in Proc, u \in Tags :
        u \in syncTags'[q] <=> u \in syncTags[q] \/ (q = p /\ u = t)
  BY DEF SyncStart, TypeOK
<1>3. \A q \in Proc : syncTags[q] \subseteq syncTags'[q]
  BY DEF SyncStart, TypeOK
<1>4. \A q \in Proc, u \in Tags : up[q][u] <= up[q][u]
  BY DEF TypeOK
<1>5. counter[p][t] < CriticalMass(p)
  <2>1. counter[p][t] <= CriticalMass(p) /\ ~ Complete(p, t)
    BY <1>1, CompleteLemma DEF RoundInv
  <2>2. counter[p][t] \in Nat /\ CriticalMass(p) \in Nat
    BY Numbers
  <2> QED
    BY <2>1, <2>2 DEF Complete
<1>6. /\ WaveInv' /\ OnceInv' /\ ComingInv' /\ UpInv' /\ RootInv' /\ LogInv'
      /\ ~ Counted(p, t)
      /\ p # 0 => ~ Counted(p, t)'
      /\ \A q \in Proc, u \in Tags :
           ~ (q = p /\ u = t) => (Complete(q, u)' <=> Complete(q, u))
  BY <1>1, <1>3, <1>4, <1>5, ContributionStep
<1>7. \A q \in Proc, u \in Tags :
        ~ (q = p /\ u = t) => up'[q][u] = up[q][u]
  BY <1>1, ContributeEffect
<1>8. ASSUME NEW q \in Proc, NEW u \in Tags, q # 0
      PROVE  Counted(q, u)' <=> Counted(q, u)
  <2>1. CASE q = p /\ u = t
    BY <1>6, <1>8, <2>1
  <2>2. CASE ~ (q = p /\ u = t)
    BY <1>1, <1>6, <1>7, <2>2 DEF Counted, Parent
  <2> QED
    BY <2>1, <2>2
<1>9. CountInv'
  <2> SUFFICES ASSUME NEW q \in Proc, NEW u \in Tags
               PROVE  counter'[q][u] = Cardinality(CountedChildren(q, u)')
                                         + (IF u \in syncTags'[q] THEN 1 ELSE 0)
    BY DEF CountInv
  <2>1. \A d \in Children(q) : Counted(d, u)' <=> Counted(d, u)
    BY <1>8, ProcLemma
  <2>2. CASE q = p /\ u = t
    <3>1. CountedChildren(q, u)' = CountedChildren(q, u)
      BY <2>1 DEF CountedChildren, Children
    <3>2. counter'[q][u] = counter[q][u] + 1
      BY <1>1, <2>2, ContributeEffect
    <3>3. counter[q][u] = Cardinality(CountedChildren(q, u))
                            + (IF u \in syncTags[q] THEN 1 ELSE 0)
      BY DEF RoundInv, CountInv
    <3>4. Cardinality(CountedChildren(q, u)) \in Nat
      BY ChildrenLemma DEF CountedChildren
    <3>5. u \in syncTags'[q] /\ u \notin syncTags[q]
      BY <1>1, <1>2, <2>2
    <3> QED
      BY <3>1, <3>2, <3>3, <3>4, <3>5
  <2>3. CASE ~ (q = p /\ u = t)
    <3>1. counter'[q][u] = counter[q][u]
      BY <1>1, <2>3, ContributeEffect
    <3>2. u \in syncTags'[q] <=> u \in syncTags[q]
      BY <1>2, <2>3
    <3> QED
      BY <2>1, <3>1, <3>2, SameCount DEF RoundInv
  <2> QED
    BY <2>2, <2>3
<1> QED
  BY <1>6, <1>9 DEF RoundInv

LEMMA OnSyncStep ==
  ASSUME TypeOK, TypeOK', RoundInv, NEW c \in Proc, NEW t \in Tags,
         OnSync(c, t)
  PROVE  RoundInv'
<1> DEFINE p == Parent(c)
           sent == [up EXCEPT ![c][t] = @ - 1]
<1>1. /\ c # 0 /\ up[c][t] > 0
      /\ Contribute(p, t, sent)
      /\ done' = done /\ log' = log /\ syncTags' = syncTags
  BY DEF OnSync
<1>2. p \in Proc /\ p < c /\ c \in Children(p) /\ p # c
  BY <1>1, TreeLemma, ProcLemma
<1>3. up[c][t] = 1 /\ Complete(c, t)
  BY <1>1 DEF RoundInv, UpInv
<1>4. /\ sent \in [Proc -> [Tags -> Nat]]
      /\ \A q \in Proc, u \in Tags :
           sent[q][u] = IF q = c /\ u = t THEN 0 ELSE up[q][u]
  <2>1. sent = [up EXCEPT ![c][t] = 0]
    BY <1>3
  <2> HIDE DEF sent
  <2> QED
    BY <2>1 DEF TypeOK
<1>5. \A q \in Proc, u \in Tags : sent[q][u] <= up[q][u]
  <2> HIDE DEF sent
  <2> QED
    BY <1>4, Numbers
<1>6. ~ Counted(c, t)
  BY <1>3 DEF Counted
<1> HIDE DEF sent, p
<1>7. counter[p][t] < CriticalMass(p)
  <2>1. counter[p][t] <= CriticalMass(p) /\ ~ Complete(p, t)
    BY <1>2, <1>6, CompleteLemma DEF RoundInv
  <2>2. counter[p][t] \in Nat /\ CriticalMass(p) \in Nat
    BY <1>2, Numbers
  <2> QED
    BY <2>1, <2>2 DEF Complete
<1>8. /\ WaveInv' /\ OnceInv' /\ ComingInv' /\ UpInv' /\ RootInv' /\ LogInv'
      /\ ~ Counted(p, t)
      /\ p # 0 => ~ Counted(p, t)'
      /\ \A q \in Proc, u \in Tags :
           ~ (q = p /\ u = t) => (Complete(q, u)' <=> Complete(q, u))
  BY <1>1, <1>2, <1>4, <1>5, <1>7, ContributionStep
<1>9. \A q \in Proc, u \in Tags :
        ~ (q = p /\ u = t) =>
          up'[q][u] = IF q = c /\ u = t THEN 0 ELSE up[q][u]
  BY <1>1, <1>2, <1>4, ContributeEffect
<1>10. ASSUME NEW q \in Proc, NEW u \in Tags, q # 0, ~ (q = c /\ u = t)
       PROVE  Counted(q, u)' <=> Counted(q, u)
  <2>1. CASE q = p /\ u = t
    BY <1>8, <1>10, <2>1
  <2>2. CASE ~ (q = p /\ u = t)
    BY <1>1, <1>8, <1>9, <1>10, <2>2 DEF Counted, Parent
  <2> QED
    BY <2>1, <2>2
<1>11. Counted(c, t)'
  <2>1. ~ WaveComing(c, t)
    BY <1>3 DEF RoundInv, ComingInv
  <2>2. done[Parent(c)][t] = done[c][t]
    BY <1>1, <2>1 DEF RoundInv, WaveInv, TypeOK
  <2>3. up'[c][t] = 0
    BY <1>2, <1>9
  <2> QED
    BY <1>1, <1>2, <1>3, <1>8, <2>2, <2>3 DEF Counted, Parent
<1>12. CountInv'
  <2> SUFFICES ASSUME NEW q \in Proc, NEW u \in Tags
               PROVE  counter'[q][u] = Cardinality(CountedChildren(q, u)')
                                         + (IF u \in syncTags'[q] THEN 1 ELSE 0)
    BY DEF CountInv
  <2>2. CASE q = p /\ u = t
    <3>1. CountedChildren(q, u)' = CountedChildren(q, u) \cup {c}
      BY <1>2, <1>10, <1>11, <2>2, ProcLemma DEF CountedChildren, Children
    <3>2. c \notin CountedChildren(q, u)
      BY <1>6, <2>2 DEF CountedChildren
    <3>3. /\ IsFiniteSet(CountedChildren(q, u))
          /\ Cardinality(CountedChildren(q, u)) \in Nat
      BY ChildrenLemma DEF CountedChildren
    <3>4. Cardinality(CountedChildren(q, u)') = Cardinality(CountedChildren(q, u)) + 1
      BY <3>1, <3>2, <3>3, FS_AddElement
    <3>5. counter'[q][u] = counter[q][u] + 1
      BY <1>1, <1>2, <1>4, <2>2, ContributeEffect
    <3>6. counter[q][u] = Cardinality(CountedChildren(q, u))
                            + (IF u \in syncTags[q] THEN 1 ELSE 0)
      BY DEF RoundInv, CountInv
    <3> QED
      BY <1>1, <3>3, <3>4, <3>5, <3>6
  <2>3. CASE ~ (q = p /\ u = t)
    <3>1. counter'[q][u] = counter[q][u]
      BY <1>1, <1>2, <1>4, <2>3, ContributeEffect
    <3>2. \A d \in Children(q) : d \in Proc /\ d # 0 /\ Parent(d) = q
      BY TreeLemma, ProcLemma
    <3>3. \A d \in Children(q) : Counted(d, u)' <=> Counted(d, u)
      BY <1>10, <2>3, <3>2 DEF p
    <3> QED
      BY <1>1, <3>1, <3>3, SameCount DEF RoundInv
  <2> QED
    BY <2>2, <2>3
<1> QED
  BY <1>8, <1>12 DEF RoundInv

LEMMA OnWaveStep ==
  ASSUME TypeOK, TypeOK', RoundInv, NEW p \in Proc, OnWave(p)
  PROVE  RoundInv'
<1>1. PICK t \in Tags :
    /\ down[p] # <<>> /\ t = Head(down[p])
    /\ \A q \in Proc : down'[q] = IF q = p THEN Tail(down[p])
                                  ELSE IF q \in Children(p) THEN Append(down[q], t)
                                  ELSE down[q]
    /\ \A q \in Proc, u \in Tags :
         done'[q][u] = IF q = p /\ u = t THEN done[q][u] + 1 ELSE done[q][u]
    /\ \A q \in Proc : log'[q] = IF q = p THEN Append(log[q], t) ELSE log[q]
    /\ \A q \in Proc, u \in Tags :
         counter'[q][u] = IF q = p /\ u = t THEN 0 ELSE counter[q][u]
    /\ \A q \in Proc, u \in Tags :
         u \in syncTags'[q] <=> u \in syncTags[q] /\ ~ (q = p /\ u = t)
    /\ up' = up
  BY OnWaveEffect
<1>2. \A q \in Proc : down[q] \in Seq(Tags) /\ Distinct(down[q])
  BY DEF TypeOK, RoundInv, OnceInv, Distinct
<1>3. /\ \A q \in Proc, u \in Tags : WaveComing(q, u) <=> Occurs(u, down[q])
      /\ \A q \in Proc, u \in Tags : WaveComing(q, u)' <=> Occurs(u, down'[q])
  BY DEF WaveComing, Occurs
<1>4. WaveComing(p, t)
  BY <1>1, <1>2, <1>3, TailLemma
<1>5. Complete(p, t) /\ up[p][t] = 0
  BY <1>4 DEF RoundInv, ComingInv
<1>6. /\ t \in syncTags[p]
      /\ \A c \in Children(p) : Counted(c, t)
  BY <1>5, CompleteLemma DEF RoundInv
<1>7. \A c \in Proc : c \in Children(p) <=> c # 0 /\ Parent(c) = p
  BY TreeLemma, ProcLemma
<1>8. p \notin Children(p)
  BY <1>7, TreeLemma, ProcLemma
<1>9. \A c \in Children(p) :
        /\ done[c][t] = done[p][t]
        /\ Complete(c, t) /\ up[c][t] = 0
        /\ ~ WaveComing(c, t)
  <2> SUFFICES ASSUME NEW c \in Children(p)
               PROVE  /\ done[c][t] = done[p][t]
                      /\ Complete(c, t) /\ up[c][t] = 0
                      /\ ~ WaveComing(c, t)
    OBVIOUS
  <2>1. c \in Proc /\ c # 0 /\ Parent(c) = p
    BY <1>7, ProcLemma
  <2>2. done[c][t] = done[p][t] /\ Complete(c, t) /\ up[c][t] = 0
    BY <1>6, <2>1 DEF Counted
  <2>3. done[p][t] = done[c][t] + (IF WaveComing(c, t) THEN 1 ELSE 0)
    BY <2>1 DEF RoundInv, WaveInv
  <2> QED
    BY <2>1, <2>2, <2>3, Numbers
<1>10. \A q \in Proc, u \in Tags :
         WaveComing(q, u)' <=>
           \/ WaveComing(q, u) /\ ~ (q = p /\ u = t)
           \/ q \in Children(p) /\ u = t
  <2> SUFFICES ASSUME NEW q \in Proc, NEW u \in Tags
               PROVE  Occurs(u, down'[q]) <=>
                        \/ Occurs(u, down[q]) /\ ~ (q = p /\ u = t)
                        \/ q \in Children(p) /\ u = t
    BY <1>3
  <2>1. CASE q = p
    <3>1. Occurs(u, down[p]) <=> Occurs(u, Tail(down[p])) \/ u = t
      BY <1>1, <1>2, TailLemma
    <3>2. ~ Occurs(t, Tail(down[p]))
      BY <1>1, <1>2, TailLemma
    <3> QED
      BY <1>1, <1>8, <2>1, <3>1, <3>2
  <2>2. CASE q \in Children(p)
    BY <1>1, <1>2, <1>8, <2>2, AppendLemma
  <2>3. CASE q # p /\ q \notin Children(p)
    BY <1>1, <2>3
  <2> QED
    BY <2>1, <2>2, <2>3
<1>11. \A q \in Proc, u \in Tags :
         Complete(q, u)' <=> Complete(q, u) /\ ~ (q = p /\ u = t)
  <2>1. CriticalMass(p) # 0
    BY ChildrenLemma
  <2> QED
    BY <1>1, <2>1 DEF Complete, CriticalMass
<1>12. OnceInv'
  <2>1. ASSUME NEW q \in Proc
        PROVE  Distinct(down'[q])
    <3>1. CASE q = p
      BY <1>1, <1>2, <3>1, TailLemma
    <3>2. CASE q \in Children(p)
      <4>1. ~ Occurs(t, down[q])
        BY <1>3, <1>9, <3>2
      <4> QED
        BY <1>1, <1>2, <1>8, <3>2, <4>1, AppendLemma
    <3>3. CASE q # p /\ q \notin Children(p)
      BY <1>1, <1>2, <3>3
    <3> QED
      BY <3>1, <3>2, <3>3
  <2> QED
    BY <2>1 DEF OnceInv, Distinct
<1>13. ComingInv'
  <2> SUFFICES ASSUME NEW q \in Proc, NEW u \in Tags
               PROVE  /\ WaveComing(q, u)' => Complete(q, u)' /\ up'[q][u] = 0
                      /\ q = 0 /\ Complete(q, u)' => WaveComing(q, u)'
    BY DEF ComingInv
  <2>1. /\ WaveComing(q, u) => Complete(q, u) /\ up[q][u] = 0
        /\ q = 0 /\ Complete(q, u) => WaveComing(q, u)
    BY DEF RoundInv, ComingInv
  <2>2. q \in Children(p) /\ u = t => Complete(q, u) /\ up[q][u] = 0 /\ q # p
    BY <1>8, <1>9
  <2> QED
    BY <1>1, <1>10, <1>11, <2>1, <2>2
<1>14. UpInv'
  <2> SUFFICES ASSUME NEW q \in Proc, NEW u \in Tags
               PROVE  /\ up'[q][u] \in {0, 1}
                      /\ up'[q][u] = 1 => q # 0 /\ Complete(q, u)'
    BY DEF UpInv
  <2>1. up[q][u] \in {0, 1} /\ (up[q][u] = 1 => q # 0 /\ Complete(q, u))
    BY DEF RoundInv, UpInv
  <2> QED
    BY <1>1, <1>5, <1>11, <2>1
<1>15. WaveInv'
  <2> SUFFICES ASSUME NEW q \in Proc, NEW u \in Tags, q # 0
               PROVE  done'[Parent(q)][u] = done'[q][u] +
                        (IF WaveComing(q, u)' THEN 1 ELSE 0)
    BY DEF WaveInv, Parent
  <2>1. done[Parent(q)][u] = done[q][u] + (IF WaveComing(q, u) THEN 1 ELSE 0)
    BY DEF RoundInv, WaveInv
  <2>2. Parent(q) \in Proc /\ Parent(q) # q
    BY TreeLemma, ProcLemma
  <2>3. done[q][u] \in Nat /\ done[Parent(q)][u] \in Nat
    BY <2>2, Numbers
  <2>4. CASE q = p /\ u = t
    <3>1. done'[q][u] = done[q][u] + 1
      BY <1>1, <2>4
    <3>2. done'[Parent(q)][u] = done[Parent(q)][u]
      BY <1>1, <2>2, <2>4
    <3>3. WaveComing(q, u) /\ ~ WaveComing(q, u)'
      BY <1>4, <1>8, <1>10, <2>4
    <3> QED
      BY <2>1, <2>3, <3>1, <3>2, <3>3
  <2>5. CASE Parent(q) = p /\ u = t
    <3>1. q \in Children(p)
      BY <1>7, <2>5
    <3>2. done'[q][u] = done[q][u] /\ done'[p][u] = done[p][u] + 1
      BY <1>1, <2>2, <2>5
    <3>3. WaveComing(q, u)' /\ done[q][u] = done[p][u]
      BY <1>9, <1>10, <2>5, <3>1
    <3> QED
      BY <2>3, <2>5, <3>2, <3>3
  <2>6. CASE ~ (q = p /\ u = t) /\ ~ (Parent(q) = p /\ u = t)
    <3>1. done'[q][u] = done[q][u] /\ done'[Parent(q)][u] = done[Parent(q)][u]
      BY <1>1, <2>2, <2>6
    <3>2. WaveComing(q, u)' <=> WaveComing(q, u)
      BY <1>7, <1>10, <2>6
    <3> QED
      BY <2>1, <3>1, <3>2
  <2> QED
    BY <2>4, <2>5, <2>6
<1>16. LogInv'
  <2> SUFFICES ASSUME NEW q \in Proc, q # 0
               PROVE  log'[Parent(q)] = log'[q] \o down'[q]
    BY DEF LogInv, Parent
  <2>1. log[Parent(q)] = log[q] \o down[q]
    BY DEF RoundInv, LogInv
  <2>2. Parent(q) \in Proc /\ Parent(q) # q
    BY TreeLemma, ProcLemma
  <2>3. log[q] \in Seq(Tags) /\ down[q] \in Seq(Tags)
    BY DEF TypeOK
  <2>4. CASE q = p
    <3>1. log'[Parent(q)] = log[Parent(q)]
      BY <1>1, <2>2, <2>4
    <3>2. log'[q] = Append(log[q], Head(down[q])) /\ down'[q] = Tail(down[q])
      BY <1>1, <2>4
    <3>3. log[q] \o down[q] = Append(log[q], Head(down[q])) \o Tail(down[q])
      BY <1>1, <2>3, <2>4, MoveLemma
    <3> QED
      BY <2>1, <3>1, <3>2, <3>3
  <2>5. CASE Parent(q) = p
    <3>1. q \in Children(p)
      BY <1>7, <2>5
    <3>2. log'[p] = Append(log[p], t) /\ log'[q] = log[q] /\ down'[q] = Append(down[q], t)
      BY <1>1, <1>8, <2>2, <2>5, <3>1
    <3>3. Append(log[q] \o down[q], t) = log[q] \o Append(down[q], t)
      BY <2>3, AppendConcat
    <3> QED
      BY <2>1, <2>5, <3>2, <3>3
  <2>6. CASE q # p /\ Parent(q) # p
    BY <1>1, <1>7, <2>1, <2>2, <2>6
  <2> QED
    BY <2>4, <2>5, <2>6
<1>17. RootInv'
  <2> SUFFICES ASSUME NEW q \in Proc, NEW u \in Tags
               PROVE  done'[0][u] <= Started(q, u)'
    BY DEF RootInv
  <2>1. done[0][u] <= Started(q, u)
    BY DEF RoundInv, RootInv
  <2>2. done[0][u] \in Nat /\ done[q][u] \in Nat
    BY Numbers, ProcLemma
  <2>3. CASE p = 0 /\ u = t
    <3>1. done[q][t] = done[0][t] /\ t \in syncTags[q]
      BY <1>5, <2>3, RootLemma DEF RoundInv
    <3>2. done'[0][u] = done[0][u] + 1
      BY <1>1, <2>3, ProcLemma
    <3>3. CASE q = 0
      BY <2>2, <2>3, <3>2, <3>3 DEF Started
    <3>4. CASE q # 0
      <4>1. u \in syncTags'[q] /\ done'[q][u] = done[q][u]
        BY <1>1, <2>3, <3>1, <3>4
      <4> QED
        BY <2>2, <2>3, <3>1, <3>2, <4>1 DEF Started
    <3> QED
      BY <3>3, <3>4
  <2>4. CASE ~ (p = 0 /\ u = t)
    <3>1. done'[0][u] = done[0][u]
      BY <1>1, <2>4, ProcLemma
    <3>2. CASE q = p /\ u = t
      <4>1. u \in syncTags[q] /\ u \notin syncTags'[q] /\ done'[q][u] = done[q][u] + 1
        BY <1>1, <1>6, <3>2
      <4> QED
        BY <2>1, <2>2, <3>1, <4>1 DEF Started
    <3>3. CASE ~ (q = p /\ u = t)
      <4>1. (u \in syncTags'[q] <=> u \in syncTags[q]) /\ done'[q][u] = done[q][u]
        BY <1>1, <3>3
      <4> QED
        BY <2>1, <3>1, <4>1 DEF Started
    <3> QED
      BY <3>2, <3>3
  <2> QED
    BY <2>3, <2>4
<1>18. CountInv'
  <2> SUFFICES ASSUME NEW q \in Proc, NEW u \in Tags
               PROVE  counter'[q][u] = Cardinality(CountedChildren(q, u)')
                                         + (IF u \in syncTags'[q] THEN 1 ELSE 0)
    BY DEF CountInv
  <2>1. CASE q = p /\ u = t
    <3>1. \A c \in Children(p) : done'[c][t] # done'[Parent(c)][t]
      <4> SUFFICES ASSUME NEW c \in Children(p)
                   PROVE  done'[c][t] # done'[Parent(c)][t]
        OBVIOUS
      <4>1. c \in Proc /\ Parent(c) = p /\ c # p
        BY <1>7, <1>8, ProcLemma
      <4>2. done'[c][t] = done[c][t] /\ done'[p][t] = done[p][t] + 1
        BY <1>1, <4>1
      <4>3. done[c][t] = done[p][t] /\ done[p][t] \in Nat
        BY <1>9, Numbers
      <4> QED
        BY <4>1, <4>2, <4>3
    <3>2. CountedChildren(p, t)' = {}
      BY <3>1 DEF CountedChildren, Counted, Children, Parent
    <3>3. counter'[p][t] = 0 /\ t \notin syncTags'[p]
      BY <1>1
    <3> QED
      BY <2>1, <3>2, <3>3, FS_EmptySet
  <2>2. CASE ~ (q = p /\ u = t)
    <3>1. counter'[q][u] = counter[q][u] /\ (u \in syncTags'[q] <=> u \in syncTags[q])
      BY <1>1, <2>2
    <3>2. ASSUME NEW d \in Children(q)
          PROVE  Counted(d, u)' <=> Counted(d, u)
      <4>1. d \in Proc /\ d # 0 /\ Parent(d) = q /\ q # d
        <5>1. d \in Proc /\ d # 0
          BY ProcLemma
        <5>2. Parent(d) = q /\ Parent(d) < d /\ d \in Nat
          BY <5>1, TreeLemma, ProcLemma
        <5> QED
          BY <5>1, <5>2
      <4>2. CASE d = p /\ u = t
        <5>1. done[q][u] = done[d][u] + 1
          BY <1>4, <4>1, <4>2 DEF RoundInv, WaveInv
        <5>2. done[d][u] \in Nat
          BY <4>1, Numbers
        <5>3. ~ Counted(d, u)
          BY <4>1, <5>1, <5>2 DEF Counted
        <5>4. ~ Complete(d, u)'
          BY <1>11, <4>1, <4>2
        <5> QED
          BY <5>3, <5>4 DEF Counted
      <4>3. CASE ~ (d = p /\ u = t)
        <5>1. done'[d][u] = done[d][u] /\ done'[q][u] = done[q][u]
          BY <1>1, <2>2, <4>1, <4>3
        <5>2. Complete(d, u)' <=> Complete(d, u)
          BY <1>11, <4>1, <4>3
        <5> QED
          BY <1>1, <4>1, <5>1, <5>2 DEF Counted, Parent
      <4> QED
        BY <4>2, <4>3
    <3> QED
      BY <3>1, <3>2, SameCount DEF RoundInv
  <2> QED
    BY <2>1, <2>2
<1> QED
  BY <1>12, <1>13, <1>14, <1>15, <1>16, <1>17, <1>18 DEF RoundInv
----------------------------------------------------------------------------
(***************************************************************************)
(* The invariant, and what it implies of every behaviour.                  *)
(***************************************************************************)
LEMMA RoundInit == Init => RoundInv
<1> SUFFICES ASSUME Init
             PROVE  RoundInv
  OBVIOUS
<1>1. \A p \in Proc, t \in Tags :
        counter[p][t] = 0 /\ up[p][t] = 0 /\ done[p][t] = 0
  BY DEF Init
<1>2. \A p \in Proc : down[p] = <<>> /\ log[p] = <<>> /\ syncTags[p] = {}
  BY DEF Init
<1>3. \A p \in Proc, t \in Tags : ~ WaveComing(p, t)
  BY <1>2 DEF WaveComing
<1>4. \A p \in Proc, t \in Tags : ~ Complete(p, t)
  <2>1. \A p \in Proc : CriticalMass(p) # 0
    BY ChildrenLemma
  <2> QED
    BY <1>1, <2>1 DEF Complete
<1>5. \A c \in Proc : c # 0 => Parent(c) \in Proc
  BY TreeLemma
<1>6. WaveInv
  BY <1>1, <1>3, <1>5 DEF WaveInv
<1>7. OnceInv
  BY <1>2 DEF OnceInv
<1>8. ComingInv /\ UpInv
  BY <1>1, <1>3, <1>4 DEF ComingInv, UpInv
<1>9. CountInv
  <2> SUFFICES ASSUME NEW p \in Proc, NEW t \in Tags
               PROVE  counter[p][t] = Cardinality(CountedChildren(p, t))
                                        + (IF t \in syncTags[p] THEN 1 ELSE 0)
    BY DEF CountInv
  <2>1. CountedChildren(p, t) = {}
    BY <1>4, ProcLemma DEF CountedChildren, Counted
  <2>2. Cardinality(CountedChildren(p, t)) = 0
    BY <2>1, FS_EmptySet
  <2>3. t \notin syncTags[p] /\ counter[p][t] = 0
    BY <1>1, <1>2
  <2> QED
    BY <2>2, <2>3
<1>10. RootInv
  BY <1>1, <1>2, ProcLemma DEF RootInv, Started
<1>11. LogInv
  <2>1. <<>> \o <<>> = <<>>
    OBVIOUS
  <2> QED
    BY <1>2, <1>5, <2>1 DEF LogInv
<1> QED
  BY <1>6, <1>7, <1>8, <1>9, <1>10, <1>11 DEF RoundInv

LEMMA RoundStep == TypeOK /\ RoundInv /\ [Next]_vars => RoundInv'
<1> SUFFICES ASSUME TypeOK, RoundInv, [Next]_vars
             PROVE  RoundInv'
  OBVIOUS
<1>0. TypeOK'
  BY TypeStep
<1>1. CASE UNCHANGED <<syncTags, counter, up, down, done, log>>
  <2>1. WaveInv'
    BY <1>1 DEF RoundInv, WaveInv, WaveComing, Parent
  <2>4. OnceInv' /\ LogInv'
    BY <1>1 DEF RoundInv, OnceInv, LogInv, Parent
  <2>5. UpInv'
    BY <1>1 DEF RoundInv, UpInv, Complete, CriticalMass
  <2>6. RootInv'
    BY <1>1 DEF RoundInv, RootInv, Started
  <2>2. ComingInv'
    BY <1>1 DEF RoundInv, ComingInv, WaveComing, Complete, CriticalMass
  <2>3. CountInv'
    BY <1>1 DEF RoundInv, CountInv, CountedChildren, Counted, Complete,
         Children, Parent, CriticalMass
  <2> QED
    BY <2>1, <2>2, <2>3, <2>4, <2>5, <2>6 DEF RoundInv
<1>2. ASSUME NEW p \in Proc, NEW t \in Tags, SyncPending(p, t)
      PROVE  RoundInv'
  BY <1>1, <1>2 DEF SyncPending
<1>3. ASSUME NEW p \in Proc, NEW t \in Tags, SyncStart(p, t)
      PROVE  RoundInv'
  BY <1>0, <1>3, SyncStartStep
<1>4. ASSUME NEW c \in Proc, NEW t \in Tags, OnSync(c, t)
      PROVE  RoundInv'
  BY <1>0, <1>4, OnSyncStep
<1>5. ASSUME NEW p \in Proc, OnWave(p)
      PROVE  RoundInv'
  BY <1>0, <1>5, OnWaveStep
<1>6. CASE UNCHANGED vars
  BY <1>1, <1>6 DEF vars
<1> QED
  BY <1>2, <1>3, <1>4, <1>5, <1>6 DEF Next

(* Every process of every tree keeps its rounds well                       *)
(* (MPI2Reactor::Sync and SyncCallback).                                   *)
THEOREM RoundsKept == SafeSpec => [](TypeOK /\ RoundInv)
<1>1. Init => TypeOK /\ RoundInv
  BY TypeInit, RoundInit
<1>2. TypeOK /\ RoundInv /\ [Next]_vars => (TypeOK /\ RoundInv)'
  BY TypeStep, RoundStep
<1> QED
  BY <1>1, <1>2, PTL DEF SafeSpec

(* No callback of Sync runs before every process has called it.            *)
THEOREM NoCallbackIsEarly == SafeSpec => []NoEarlyCallback
<1>1. TypeOK /\ RoundInv => NoEarlyCallback
  BY NotEarly DEF RoundInv
<1> QED
  BY <1>1, RoundsKept, PTL

LEMMA PrefixLemma ==
  ASSUME NEW r \in Seq(Tags), NEW s \in Seq(Tags), NEW z \in Seq(Tags),
         PrefixOf(r \o s, z)
  PROVE  PrefixOf(r, z)
<1>1. /\ Len(r \o s) = Len(r) + Len(s)
      /\ \A i \in 1..Len(r)+Len(s) :
           (r \o s)[i] = IF i <= Len(r) THEN r[i] ELSE s[i - Len(r)]
  BY ConcatProperties
<1>2. Len(r) \in Nat /\ Len(s) \in Nat /\ Len(z) \in Nat
  OBVIOUS
<1>3. /\ Len(r) + Len(s) <= Len(z)
      /\ \A i \in 1..Len(r)+Len(s) : (r \o s)[i] = z[i]
  BY <1>1 DEF PrefixOf
<1>4. ASSUME NEW i \in 1..Len(r)
      PROVE  r[i] = z[i]
  <2>1. i \in 1..Len(r)+Len(s) /\ i <= Len(r)
    BY <1>2
  <2> QED
    BY <1>1, <1>3, <2>1
<1>5. Len(r) <= Len(z)
  BY <1>2, <1>3
<1> QED
  BY <1>4, <1>5 DEF PrefixOf

LEMMA PrefixOfRoot ==
  ASSUME TypeOK, LogInv
  PROVE  \A p \in Proc : PrefixOf(log[p], log[0])
<1> DEFINE S == {p \in Proc : PrefixOf(log[p], log[0])}
<1>1. 0 \in S
  BY ProcLemma DEF PrefixOf, TypeOK
<1>2. ASSUME NEW c \in Proc, c # 0, Parent(c) \in S
      PROVE  c \in S
  <2>1. /\ log[c] \in Seq(Tags) /\ down[c] \in Seq(Tags)
        /\ log[Parent(c)] \in Seq(Tags) /\ log[0] \in Seq(Tags)
    BY <1>2, ProcLemma DEF TypeOK
  <2>2. log[Parent(c)] = log[c] \o down[c]
    BY <1>2 DEF LogInv
  <2>3. PrefixOf(log[c] \o down[c], log[0])
    BY <1>2, <2>2
  <2> QED
    BY <2>1, <2>3, PrefixLemma
<1>3. Proc \subseteq S
  <2> HIDE DEF S
  <2> QED
    BY <1>1, <1>2, TreeInduction
<1> QED
  BY <1>3

(* All processes run the callbacks of all tags in one order.               *)
THEOREM OrderIsUniform == SafeSpec => []UniformOrder
<1>1. ASSUME TypeOK, LogInv
      PROVE  UniformOrder
  <2> SUFFICES ASSUME NEW p \in Proc, NEW q \in Proc
               PROVE  PrefixOf(log[p], log[q]) \/ PrefixOf(log[q], log[p])
    BY DEF UniformOrder
  <2>1. PrefixOf(log[p], log[0]) /\ PrefixOf(log[q], log[0])
    BY <1>1, PrefixOfRoot
  <2>2. Len(log[p]) \in Nat /\ Len(log[q]) \in Nat /\ Len(log[0]) \in Nat
    BY <1>1, ProcLemma DEF TypeOK
  <2> QED
    BY <2>1, <2>2 DEF PrefixOf
<1>2. TypeOK /\ RoundInv => UniformOrder
  BY <1>1 DEF RoundInv
<1> QED
  BY <1>2, RoundsKept, PTL
----------------------------------------------------------------------------
(***************************************************************************)
(* The tree reactor refines the barrier.                                   *)
(***************************************************************************)
Arrived == [p \in Proc |-> [t \in Tags |-> Started(p, t)]]

(* The wave comes to p only after everybody has started one more round     *)
(* than p has finished.                                                    *)
LEMMA WaveMeansAllStarted ==
  ASSUME TypeOK, RoundInv, NEW p \in Proc, NEW t \in Tags, WaveComing(p, t),
         NEW q \in Proc
  PROVE  done[p][t] < Started(q, t)
<1>1. /\ done[p][t] \in Nat /\ done[q][t] \in Nat /\ done[0][t] \in Nat
  BY Numbers, ProcLemma
<1>2. CASE p = 0
  <2>1. Complete(0, t)
    BY <1>2 DEF RoundInv, ComingInv
  <2>2. done[q][t] = done[0][t] /\ t \in syncTags[q]
    BY <2>1, RootLemma DEF RoundInv
  <2> QED
    BY <1>1, <1>2, <2>2 DEF Started
<1>3. CASE p # 0
  <2>1. Parent(p) \in Proc
    BY <1>3, TreeLemma
  <2>2. done[Parent(p)][t] = done[p][t] + 1
    BY <1>3 DEF RoundInv, WaveInv
  <2>3. done[Parent(p)][t] <= done[0][t]
    BY <2>1, BehindRoot DEF RoundInv
  <2>4. done[0][t] <= Started(q, t)
    BY DEF RoundInv, RootInv
  <2>5. Started(q, t) \in Nat
    BY <1>1 DEF Started
  <2> QED
    BY <1>1, <2>2, <2>3, <2>4, <2>5
<1> QED
  BY <1>2, <1>3

LEMMA BarrierInit == Init => Barrier!Init
<1> SUFFICES ASSUME Init
             PROVE  Barrier!Init
  OBVIOUS
<1>1. \A p \in Proc, t \in Tags : Started(p, t) = 0
  BY DEF Init, Started
<1>2. Arrived = [p \in Proc |-> [t \in Tags |-> 0]]
  BY <1>1 DEF Arrived
<1> QED
  BY <1>2 DEF Init, Barrier!Init, Arrived

(* A step that leaves the started and the finished rounds alone.           *)
LEMMA BarrierStutter ==
  ASSUME syncTags' = syncTags, done' = done
  PROVE  UNCHANGED Barrier!vars
  BY DEF Barrier!vars, Started

LEMMA BarrierArrive ==
  ASSUME TypeOK, TypeOK', NEW p \in Proc, NEW t \in Tags, SyncStart(p, t)
  PROVE  Barrier!Arrive(p, t)
<1>1. t \notin syncTags[p] /\ done' = done
  BY DEF SyncStart
<1>2. \A q \in Proc, u \in Tags :
        u \in syncTags'[q] <=> u \in syncTags[q] \/ (q = p /\ u = t)
  BY DEF SyncStart, TypeOK
<1>3. ASSUME NEW q \in Proc, NEW u \in Tags
      PROVE  Started(q, u)' = IF q = p /\ u = t THEN Started(q, u) + 1
                                                ELSE Started(q, u)
  <2>1. done[q][u] \in Nat
    BY Numbers
  <2>2. CASE q = p /\ u = t
    BY <1>1, <1>2, <2>1, <2>2 DEF Started
  <2>3. CASE ~ (q = p /\ u = t)
    BY <1>1, <1>2, <2>1, <2>3 DEF Started
  <2> QED
    BY <2>2, <2>3
<1>4. Arrived' = [Arrived EXCEPT ![p][t] = @ + 1]
  BY <1>3 DEF Arrived
<1>5. Arrived[p][t] = done[p][t]
  BY <1>1, Numbers DEF Arrived, Started
<1> QED
  BY <1>1, <1>4, <1>5 DEF Barrier!Arrive, Arrived

LEMMA BarrierRelease ==
  ASSUME TypeOK, RoundInv, NEW p \in Proc, OnWave(p)
  PROVE  \E t \in Tags : Barrier!Release(p, t)
<1>1. PICK t \in Tags :
    /\ down[p] # <<>> /\ t = Head(down[p])
    /\ \A q \in Proc, u \in Tags :
         done'[q][u] = IF q = p /\ u = t THEN done[q][u] + 1 ELSE done[q][u]
    /\ \A q \in Proc, u \in Tags :
         u \in syncTags'[q] <=> u \in syncTags[q] /\ ~ (q = p /\ u = t)
  BY OnWaveEffect
<1>2. down[p] \in Seq(Tags)
  BY DEF TypeOK
<1>3. WaveComing(p, t)
  BY <1>1, <1>2, TailLemma DEF WaveComing, Occurs
<1>4. \A q \in Proc : done[p][t] < Arrived[q][t]
  BY <1>3, WaveMeansAllStarted DEF Arrived
<1>5. t \in syncTags[p]
  BY <1>3, CompleteLemma DEF RoundInv, ComingInv
<1>6. ASSUME NEW q \in Proc, NEW u \in Tags
      PROVE  Started(q, u)' = Started(q, u)
  <2>1. done[q][u] \in Nat
    BY Numbers
  <2>2. CASE q = p /\ u = t
    <3>1. u \in syncTags[q] /\ u \notin syncTags'[q] /\ done'[q][u] = done[q][u] + 1
      BY <1>1, <1>5, <2>2
    <3> QED
      BY <2>1, <3>1 DEF Started
  <2>3. CASE ~ (q = p /\ u = t)
    <3>1. (u \in syncTags'[q] <=> u \in syncTags[q]) /\ done'[q][u] = done[q][u]
      BY <1>1, <2>3
    <3> QED
      BY <3>1 DEF Started
  <2> QED
    BY <2>2, <2>3
<1>7. Arrived' = Arrived
  BY <1>6 DEF Arrived
<1>8. done' = [done EXCEPT ![p][t] = @ + 1]
  BY <1>1 DEF OnWave
<1> QED
  BY <1>4, <1>7, <1>8 DEF Barrier!Release, Arrived

LEMMA BarrierStep ==
  TypeOK /\ RoundInv /\ [Next]_vars => [Barrier!Next]_(Barrier!vars)
<1> SUFFICES ASSUME TypeOK, RoundInv, [Next]_vars
             PROVE  [Barrier!Next]_(Barrier!vars)
  OBVIOUS
<1>0. TypeOK'
  BY TypeStep
<1>1. ASSUME NEW p \in Proc, NEW t \in Tags, SyncPending(p, t)
      PROVE  UNCHANGED Barrier!vars
  BY <1>1, BarrierStutter DEF SyncPending
<1>2. ASSUME NEW p \in Proc, NEW t \in Tags, SyncStart(p, t)
      PROVE  Barrier!Next
  BY <1>0, <1>2, BarrierArrive DEF Barrier!Next
<1>3. ASSUME NEW c \in Proc, NEW t \in Tags, OnSync(c, t)
      PROVE  UNCHANGED Barrier!vars
  BY <1>3, BarrierStutter DEF OnSync
<1>4. ASSUME NEW p \in Proc, OnWave(p)
      PROVE  Barrier!Next
  BY <1>4, BarrierRelease DEF Barrier!Next
<1>5. CASE UNCHANGED vars
  BY <1>5, BarrierStutter DEF vars
<1> QED
  BY <1>1, <1>2, <1>3, <1>4, <1>5 DEF Next

(* Whatever its shape, the tree is a barrier to those who call Sync        *)
(* (the safety of it; that the barrier opens is checked by TLC).           *)
THEOREM TreeIsBarrier == SafeSpec => Barrier!SafeSpec
<1>1. Init => Barrier!Init
  BY BarrierInit
<1>2. TypeOK /\ RoundInv /\ [Next]_vars => [Barrier!Next]_(Barrier!vars)
  BY BarrierStep
<1> QED
  BY <1>1, <1>2, RoundsKept, PTL DEF SafeSpec, Barrier!SafeSpec
=============================================================================
