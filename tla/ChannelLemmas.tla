--------------------------- MODULE ChannelLemmas ---------------------------
(***************************************************************************)
(* Counting the messages of a channel between a client and its server that *)
(* end an iteration, when a message comes or goes.                         *)
(***************************************************************************)
EXTENDS Integers, Sequences, FiniteSets, FiniteSetTheorems, SequenceTheorems, TLAPS

(* The messages of a channel that end an iteration, and those behind a     *)
(* given place of it.                                                      *)
IsEnd(m) == m.type \in {"NEXT_ITERATION", "NEXT_ITERATION_ERR"}
Ends(q) == {i \in 1 .. Len(q) : IsEnd(q[i])}
After(q, i) == {j \in Ends(q) : j > i}
NEnds(q) == Cardinality(Ends(q))
NAfter(q, i) == Cardinality(After(q, i))
One(m) == IF IsEnd(m) THEN 1 ELSE 0

(* The ends of a channel, and those behind a place of it, are numbers.     *)
LEMMA EndsLemma ==
  ASSUME NEW M, NEW q \in Seq(M)
  PROVE  /\ IsFiniteSet(Ends(q)) /\ NEnds(q) \in Nat
         /\ \A i \in Nat : /\ IsFiniteSet(After(q, i)) /\ NAfter(q, i) \in Nat
                           /\ NAfter(q, i) <= NEnds(q)
<1>1. Len(q) \in Nat /\ IsFiniteSet(1 .. Len(q))
  BY LenProperties, FS_Interval
<1>2. IsFiniteSet(Ends(q))
  BY <1>1, FS_Subset, Ends(q) \in SUBSET (1 .. Len(q)) DEF Ends
<1>3. ASSUME NEW i \in Nat
      PROVE  IsFiniteSet(After(q, i)) /\ Cardinality(After(q, i)) <= Cardinality(Ends(q))
  BY <1>2, FS_Subset, After(q, i) \in SUBSET Ends(q) DEF After
<1> QED
  BY <1>2, <1>3, FS_CardinalityType DEF NEnds, NAfter

(* A message put at the end of a channel.                                  *)
LEMMA AppendLemma ==
  ASSUME NEW M, NEW q \in Seq(M), NEW m \in M
  PROVE  /\ Append(q, m) \in Seq(M)
         /\ Len(q) \in Nat /\ Len(Append(q, m)) = Len(q) + 1
         /\ \A i \in 1 .. Len(q) : Append(q, m)[i] = q[i]
         /\ Append(q, m)[Len(q) + 1] = m
         /\ NEnds(Append(q, m)) = NEnds(q) + One(m)
         /\ \A i \in 1 .. Len(q) : NAfter(Append(q, m), i) = NAfter(q, i) + One(m)
         /\ NAfter(Append(q, m), Len(q) + 1) = 0
<1> DEFINE a == Append(q, m)
           n == Len(q) + 1
<1>1. /\ a \in Seq(M) /\ Len(q) \in Nat /\ Len(a) = n
      /\ \A i \in 1 .. Len(q) : a[i] = q[i]
      /\ a[n] = m
  BY AppendProperties, LenProperties
<1> HIDE DEF a
<1>2. Ends(a) = IF IsEnd(m) THEN Ends(q) \cup {n} ELSE Ends(q)
  BY <1>1 DEF Ends
<1>3. n \notin Ends(q)
  BY <1>1 DEF Ends
<1>4. NEnds(a) = NEnds(q) + One(m)
  <2>1. IsFiniteSet(Ends(q)) /\ NEnds(q) \in Nat
    BY EndsLemma
  <2>2. Cardinality(Ends(q) \cup {n}) = Cardinality(Ends(q)) + 1
    BY <1>3, <2>1, FS_AddElement
  <2> QED
    BY <1>2, <2>1, <2>2 DEF NEnds, One
<1>5. ASSUME NEW i \in 1 .. Len(q)
      PROVE  NAfter(a, i) = NAfter(q, i) + One(m)
  <2>1. After(a, i) = IF IsEnd(m) THEN After(q, i) \cup {n} ELSE After(q, i)
    BY <1>1, <1>2 DEF After
  <2>2. n \notin After(q, i) /\ i \in Nat
    BY <1>1, <1>3 DEF After
  <2>3. IsFiniteSet(After(q, i)) /\ NAfter(q, i) \in Nat
    BY <2>2, EndsLemma
  <2>4. Cardinality(After(q, i) \cup {n}) = Cardinality(After(q, i)) + 1
    BY <2>2, <2>3, FS_AddElement
  <2> QED
    BY <2>1, <2>3, <2>4 DEF NAfter, One
<1>6. NAfter(a, n) = 0
  <2>1. After(a, n) = {}
    BY <1>1 DEF After, Ends
  <2> QED
    BY <2>1, FS_EmptySet DEF NAfter
<1> QED
  BY <1>1, <1>4, <1>5, <1>6 DEF a

(* Sets of places that are each other's, one place further.                *)
LEMMA ShiftLemma ==
  ASSUME NEW S \in SUBSET Nat, NEW T \in SUBSET Nat, IsFiniteSet(S),
         \A i \in Nat : i \in T <=> i + 1 \in S, 0 \notin S
  PROVE  Cardinality(T) = Cardinality(S)
<1> DEFINE f == [i \in S |-> i - 1]
<1>1. f \in [S -> T]
  OBVIOUS
<1>2. \A i, j \in S : f[i] = f[j] => i = j
  OBVIOUS
<1>3. \A t \in T : \E i \in S : f[i] = t
  <2> SUFFICES ASSUME NEW t \in T
               PROVE  \E i \in S : f[i] = t
    OBVIOUS
  <2>1. t + 1 \in S /\ f[t + 1] = t
    OBVIOUS
  <2> QED
    BY <2>1
<1>4. f \in Bijection(S, T)
  BY <1>1, <1>2, <1>3 DEF Bijection, Injection, Surjection, IsInjective
<1> QED
  BY <1>4, FS_Bijection DEF ExistsBijection

(* The message at the head of a channel taken.                             *)
LEMMA TailLemma ==
  ASSUME NEW M, NEW q \in Seq(M), q # <<>>
  PROVE  /\ Tail(q) \in Seq(M) /\ Head(q) \in M
         /\ Len(q) \in Nat \ {0} /\ Len(Tail(q)) = Len(q) - 1
         /\ \A i \in 1 .. Len(Tail(q)) : Tail(q)[i] = q[i + 1]
         /\ q[1] = Head(q)
         /\ NEnds(q) = NEnds(Tail(q)) + One(Head(q))
         /\ NAfter(q, 1) = NEnds(Tail(q))
         /\ \A i \in 1 .. Len(Tail(q)) : NAfter(Tail(q), i) = NAfter(q, i + 1)
<1> DEFINE t == Tail(q)
<1>1. /\ t \in Seq(M) /\ Head(q) \in M
      /\ Len(q) \in Nat \ {0} /\ Len(t) = Len(q) - 1
      /\ \A i \in 1 .. Len(t) : t[i] = q[i + 1]
      /\ q[1] = Head(q)
  BY HeadTailProperties, EmptySeq, LenProperties
<1> HIDE DEF t
<1>2. \A i \in Nat : i \in Ends(t) <=> i + 1 \in After(q, 1)
  BY <1>1 DEF Ends, After
<1>3. NAfter(q, 1) = NEnds(t)
  <2>1. Ends(t) \in SUBSET Nat /\ After(q, 1) \in SUBSET Nat /\ 0 \notin After(q, 1)
    BY DEF Ends, After
  <2> QED
    BY <1>2, <2>1, EndsLemma, ShiftLemma DEF NAfter, NEnds
<1>4. NEnds(q) = NEnds(t) + One(Head(q))
  <2>1. Ends(q) = IF IsEnd(Head(q)) THEN After(q, 1) \cup {1} ELSE After(q, 1)
    BY <1>1 DEF Ends, After
  <2>2. 1 \notin After(q, 1) /\ IsFiniteSet(After(q, 1)) /\ NAfter(q, 1) \in Nat
    BY EndsLemma DEF After
  <2>3. Cardinality(After(q, 1) \cup {1}) = Cardinality(After(q, 1)) + 1
    BY <2>2, FS_AddElement
  <2> QED
    BY <1>3, <2>1, <2>2, <2>3 DEF NEnds, NAfter, One
<1>5. ASSUME NEW i \in 1 .. Len(t)
      PROVE  NAfter(t, i) = NAfter(q, i + 1)
  <2>1. /\ After(t, i) \in SUBSET Nat /\ After(q, i + 1) \in SUBSET Nat
        /\ 0 \notin After(q, i + 1)
    BY DEF Ends, After
  <2>2. \A j \in Nat : j \in After(t, i) <=> j + 1 \in After(q, i + 1)
    BY <1>1 DEF Ends, After
  <2>3. IsFiniteSet(After(q, i + 1))
    BY EndsLemma
  <2> QED
    BY <2>1, <2>2, <2>3, ShiftLemma DEF NAfter
<1> QED
  BY <1>1, <1>3, <1>4, <1>5 DEF t
============================================================================
