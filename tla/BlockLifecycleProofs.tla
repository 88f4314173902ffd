------------------------ MODULE BlockLifecycleProofs ------------------------
(***************************************************************************)
(* Proofs about BlockLifecycle, for any variables, domains and regions and *)
(* any number of iterations, when a client commits and clears blocks of    *)
(* its present iteration only.                                             *)
(***************************************************************************)
EXTENDS BlockLifecycle, ChannelLemmas

(* The messages that bring the memory of a block, and those that make the  *)
(* server responsible for it.                                              *)
Carries(m) == m.type \in {"WRITE", "COMMIT"}
Clears(m) == m.type = "CLEAR"
Places == 1 .. Len(chan)

(* A message about a block carries the iteration in which it was sent: the *)
(* client's, less the ends of iterations sent since.                       *)
MessagesInv ==
  \A i \in Places :
    /\ Carries(chan[i]) \/ Clears(chan[i]) =>
         MKey(chan[i]) \in begun /\ chan[i].iter = clientIter - NAfter(chan, i)
    /\ IF Carries(chan[i]) THEN chan[i].region \in Regions
                           ELSE chan[i].region = NoRegion

IterInv == serverIter = clientIter - NEnds(chan)

(* A key is begun once: each side has one block for it at most, and one    *)
(* message brings its memory, one clears it.                               *)
UniqueInv ==
  /\ \A k \in begun : k[2] <= clientIter
  /\ \A b \in clientBlocks \cup serverBlocks : Key(b) \in begun
  /\ \A b, c \in clientBlocks : Key(b) = Key(c) => b = c
  /\ \A b, c \in serverBlocks : Key(b) = Key(c) => b = c
  /\ \A i, j \in Places : MKey(chan[i]) = MKey(chan[j]) =>
       /\ Carries(chan[i]) /\ Carries(chan[j]) => i = j
       /\ Clears(chan[i]) /\ Clears(chan[j]) => i = j

(* Who holds a block while it is written, ...                              *)
WriteInv ==
  \A i \in Places : chan[i].type = "WRITE" =>
    /\ \A b \in clientBlocks \cup serverBlocks : Key(b) # MKey(chan[i])
    /\ \A j \in Places : Clears(chan[j]) => MKey(chan[j]) # MKey(chan[i])

(* ... committed, ...                                                      *)
CommitInv ==
  \A i \in Places : chan[i].type = "COMMIT" =>
    /\ \A s \in serverBlocks : Key(s) # MKey(chan[i])
    /\ \/ \E b \in clientBlocks :
            Key(b) = MKey(chan[i]) /\ b.readOnly /\ b.region = chan[i].region
       \/ \E j \in Places : j > i /\ Clears(chan[j]) /\ MKey(chan[j]) = MKey(chan[i])

(* ... and cleared.                                                        *)
ClearInv ==
  \A i \in Places : Clears(chan[i]) =>
    /\ \A b \in clientBlocks : Key(b) # MKey(chan[i])
    /\ \/ \E s \in serverBlocks : Key(s) = MKey(chan[i]) /\ ~ s.owner
       \/ \E j \in Places : j < i /\ chan[j].type = "COMMIT" /\ MKey(chan[j]) = MKey(chan[i])

(* What the client may still clear is, or will be, at the server.          *)
ClientInv ==
  \A b \in clientBlocks :
    /\ ~ b.readOnly =>
         /\ \A s \in serverBlocks : Key(s) # Key(b)
         /\ \A i \in Places : Carries(chan[i]) => Key(b) # MKey(chan[i])
    /\ b.readOnly /\ (b.var \in TimeVarying => b.iter = clientIter) =>
         \/ \E s \in serverBlocks : Key(s) = Key(b)
         \/ \E i \in Places : chan[i].type = "COMMIT" /\ Key(b) = MKey(chan[i])

(* Memory the server does not own is the client's, or about to be given.   *)
ServerInv ==
  \A s \in serverBlocks :
    /\ s.owner => \A b \in clientBlocks : Key(s) # Key(b)
    /\ ~ s.owner => \/ \E b \in clientBlocks : Key(b) = Key(s) /\ b.region = s.region
                    \/ \E i \in Places : Clears(chan[i]) /\ Key(s) = MKey(chan[i])

(* What refers to a region, with the key it means.                         *)
Refs == {<<b.region, Key(b)>> : b \in clientBlocks \cup serverBlocks}
Coming == {<<chan[i].region, MKey(chan[i])>> : i \in {j \in Places : Carries(chan[j])}}

(* A region that is not in F is referred to, by all with one key; one in F *)
(* is not.                                                                 *)
RegionsOK(R, F) ==
  /\ \A x \in R : x[1] \notin F
  /\ \A x, y \in R : x[1] = y[1] => x[2] = y[2]
  /\ \A r \in Regions \ F : \E x \in R : x[1] = r

RegionInv == RegionsOK(Refs \cup Coming, free)

IInv ==
  /\ TypeOK
  /\ MessagesInv /\ IterInv /\ UniqueInv
  /\ WriteInv /\ CommitInv /\ ClearInv
  /\ ClientInv /\ ServerInv
  /\ RegionInv
  /\ ~ crashed

(* Nothing is begun, nothing sent, all memory free.                        *)
LEMMA IInvInit == Init => IInv
<1> SUFFICES ASSUME Init PROVE IInv
  OBVIOUS
<1>1. Places = {} /\ NEnds(chan) = 0
  <2>1. Places = {}
    BY DEF Init, Places
  <2>2. Ends(chan) = {}
    BY <2>1 DEF Ends, Places
  <2> QED
    BY <2>1, <2>2, FS_EmptySet DEF NEnds
<1>2. TypeOK
  <2>1. 0 \in 0 .. MaxIter /\ <<>> \in Seq(Messages)
    BY LifecycleOK
  <2>2. clientIter \in 0 .. MaxIter /\ serverIter \in 0 .. MaxIter /\ chan \in Seq(Messages)
    BY <2>1 DEF Init
  <2>3. errorOccured \in BOOLEAN /\ crashed \in BOOLEAN
    BY DEF Init
  <2> QED
    BY <2>2, <2>3 DEF Init, TypeOK
<1>3. Refs \cup Coming = {}
  BY <1>1 DEF Init, Refs, Coming
<1> QED
  BY <1>1, <1>2, <1>3 DEF Init, IInv, MessagesInv, IterInv, UniqueInv, WriteInv, CommitInv,
     ClearInv, ClientInv, ServerInv, RegionInv, RegionsOK
----------------------------------------------------------------------------
(* Keys, of blocks and of messages.                                        *)
LEMMA IndexLemma ==
  ASSUME NEW v \in Vars, NEW k \in 0 .. MaxIter
  PROVE  IndexIter(v, k) \in 0 .. MaxIter
  BY LifecycleOK DEF IndexIter

(* What a message of the client says.                                      *)
LEMMA MsgLemma ==
  ASSUME NEW type, NEW v, NEW k, NEW d, NEW r, NEW m, m = Msg(type, v, k, d, r)
  PROVE  /\ MKey(m) = <<v, IndexIter(v, k), d>>
         /\ m.type = type /\ m.iter = k /\ m.region = r
  BY DEF MKey, Msg

(* Blocks are found by their key.                                          *)
LEMMA FindLemma ==
  ASSUME NEW S, NEW v, NEW k, NEW d
  PROVE  GetBlock(S, v, k, d) = {b \in S : Key(b) = <<v, IndexIter(v, k), d>>}
  BY DEF Key, GetBlock

(* What the messages of a channel are about.                               *)
LEMMA MessageLemma ==
  ASSUME IInv, NEW i \in Places, Carries(chan[i]) \/ Clears(chan[i])
  PROVE  /\ chan[i] \in Messages
         /\ chan[i].var \in Vars /\ chan[i].iter \in 0 .. MaxIter /\ chan[i].id \in Domains
         /\ Carries(chan[i]) => chan[i].region \in Regions
         /\ MKey(chan[i]) = <<chan[i].var, IndexIter(chan[i].var, chan[i].iter), chan[i].id>>
<1>1. chan[i] \in Messages
  BY DEF IInv, TypeOK, Places
<1>2. MKey(chan[i]) \in Vars \X (0 .. MaxIter) \X Domains
  BY DEF IInv, MessagesInv, TypeOK
<1>3. chan[i].var \in Vars /\ chan[i].id \in Domains
  BY <1>2 DEF MKey
<1> QED
  BY <1>1, <1>3 DEF IInv, MessagesInv, Messages, MKey

(* A key is begun in its iteration, or in the first.                       *)
LEMMA FreshLemma ==
  ASSUME IInv, NEW v \in Vars, NEW d \in Domains, MayBegin(v, d)
  PROVE  /\ clientIter \in 0 .. MaxIter
         /\ IndexIter(v, clientIter) = clientIter
         /\ \A b \in clientBlocks \cup serverBlocks : Key(b) # <<v, clientIter, d>>
         /\ \A i \in Places : Carries(chan[i]) \/ Clears(chan[i])
                                => MKey(chan[i]) # <<v, clientIter, d>>
<1>1. <<v, clientIter, d>> \notin begun
  BY DEF MayBegin
<1> QED
  BY <1>1 DEF MayBegin, IndexIter, IInv, UniqueInv, MessagesInv, TypeOK

(* A message about a block is sent.                                        *)
LEMMA SendLemma ==
  ASSUME IInv, NEW m \in Messages, Carries(m) \/ Clears(m), Send(m)
  PROVE  /\ chan' \in Seq(Messages)
         /\ Len(chan) \in Nat /\ Places = 1 .. Len(chan) /\ Places' = 1 .. Len(chan) + 1
         /\ \A i \in Places : i \in Places' /\ chan'[i] = chan[i]
                              /\ NAfter(chan', i) = NAfter(chan, i)
         /\ chan'[Len(chan) + 1] = m /\ NAfter(chan', Len(chan) + 1) = 0
         /\ NEnds(chan') = NEnds(chan)
<1>1. chan \in Seq(Messages) /\ chan' = Append(chan, m)
  BY DEF Send, IInv, TypeOK
<1>2. One(m) = 0
  BY DEF One, IsEnd, Carries, Clears
<1>3. /\ chan' \in Seq(Messages)
      /\ Len(chan) \in Nat /\ Len(chan') = Len(chan) + 1
      /\ \A i \in 1 .. Len(chan) : chan'[i] = chan[i]
      /\ chan'[Len(chan) + 1] = m
      /\ NEnds(chan') = NEnds(chan) + 0
      /\ \A i \in 1 .. Len(chan) : NAfter(chan', i) = NAfter(chan, i) + 0
      /\ NAfter(chan', Len(chan) + 1) = 0
  BY <1>1, <1>2, AppendLemma
<1>4. NEnds(chan) \in Nat /\ \A i \in 1 .. Len(chan) : NAfter(chan, i) \in Nat
  BY <1>1, <1>3, EndsLemma
<1> QED
  BY <1>3, <1>4 DEF Places

(* A free region is taken for a new key.                                   *)
LEMMA TakeLemma ==
  ASSUME NEW R, NEW F, RegionsOK(R, F), NEW r \in F, NEW k
  PROVE  RegionsOK(R \cup {<<r, k>>}, F \ {r})
<1> DEFINE S == R \cup {<<r, k>>}
<1>1. \A x \in S : x \in R \/ (x[1] = r /\ x[2] = k)
  OBVIOUS
<1>2. \A x \in R : x[1] # r /\ x[1] \notin F
  BY DEF RegionsOK
<1>3. \A x \in S : x[1] \notin F \ {r}
  BY <1>1, <1>2
<1>4. \A x, y \in S : x[1] = y[1] => x[2] = y[2]
  BY <1>1, <1>2 DEF RegionsOK
<1>5. ASSUME NEW q \in Regions \ (F \ {r})
      PROVE  \E x \in S : x[1] = q
  <2>1. CASE q = r
    BY <2>1, <<r, k>> \in S, <<r, k>>[1] = r
  <2>2. CASE q # r
    BY <2>2 DEF RegionsOK
  <2> QED
    BY <2>1, <2>2
<1> QED
  BY <1>3, <1>4, <1>5 DEF RegionsOK

(* The client: each of its calls preserves the invariant.                  *)
LEMMA WriteStep ==
  ASSUME IInv, NEW v \in Vars, NEW d \in Domains, Write(v, d)
  PROVE  IInv'
<1> DEFINE k == <<v, clientIter, d>>
           n == Len(chan) + 1
<1>1. PICK r \in free :
        /\ free' = free \ {r}
        /\ Send(Msg("WRITE", v, clientIter, d, r))
  BY DEF Write
<1>2. PICK m : m = Msg("WRITE", v, clientIter, d, r)
  OBVIOUS
<1>3. /\ begun' = begun \cup {k}
      /\ UNCHANGED <<clientIter, errorOccured, clientBlocks, serverIter, serverBlocks, crashed>>
  BY DEF Write
<1>4. /\ clientIter \in 0 .. MaxIter
      /\ \A b \in clientBlocks \cup serverBlocks : Key(b) # k
      /\ \A i \in Places : Carries(chan[i]) \/ Clears(chan[i]) => MKey(chan[i]) # k
      /\ IndexIter(v, clientIter) = clientIter
  BY FreshLemma DEF Write
<1>5. /\ MKey(m) = k /\ m.type = "WRITE" /\ m.region = r /\ m.iter = clientIter
      /\ r \in Regions
  BY <1>1, <1>2, <1>4, MsgLemma DEF IInv, TypeOK
<1>6. m \in Messages /\ Carries(m) /\ ~ Clears(m)
  BY <1>2, <1>4, <1>5 DEF Messages, Msg, Carries, Clears
<1>7. /\ chan' \in Seq(Messages)
      /\ Len(chan) \in Nat /\ Places = 1 .. Len(chan) /\ Places' = 1 .. n
      /\ \A i \in Places : i \in Places' /\ chan'[i] = chan[i]
                           /\ NAfter(chan', i) = NAfter(chan, i)
      /\ chan'[n] = m /\ NAfter(chan', n) = 0
      /\ NEnds(chan') = NEnds(chan)
  BY <1>1, <1>2, <1>6, SendLemma
<1> HIDE DEF k, n
<1>8. \A i \in Places' : i \in Places \/ i = n
  BY <1>7 DEF n
<1>9. TypeOK'
  BY <1>1, <1>3, <1>4, <1>7 DEF IInv, TypeOK, k
<1>10. MessagesInv'
  BY <1>3, <1>4, <1>5, <1>6, <1>7, <1>8 DEF IInv, MessagesInv
<1>11. IterInv'
  BY <1>3, <1>7 DEF IInv, IterInv
<1>12. UniqueInv'
  <2>1. \A x \in begun' : x[2] <= clientIter
    BY <1>3, <1>4 DEF IInv, UniqueInv, k
  <2> QED
    BY <1>3, <1>4, <1>5, <1>6, <1>7, <1>8, <2>1 DEF IInv, UniqueInv
<1>13. WriteInv'
  BY <1>3, <1>4, <1>5, <1>6, <1>7, <1>8 DEF IInv, WriteInv
<1>14. CommitInv'
  BY <1>3, <1>5, <1>7, <1>8 DEF IInv, CommitInv
<1>15. ClearInv'
  BY <1>3, <1>6, <1>7, <1>8 DEF IInv, ClearInv
<1>16. ClientInv'
  BY <1>3, <1>4, <1>5, <1>7, <1>8 DEF IInv, ClientInv
<1>17. ServerInv'
  BY <1>3, <1>7 DEF IInv, ServerInv
<1>18. RegionInv'
  <2>1. Refs' = Refs
    BY <1>3 DEF Refs
  <2>2. Coming' = Coming \cup {<<r, k>>}
    BY <1>5, <1>6, <1>7, <1>8, n \in Places' DEF Coming, n
  <2>3. Refs' \cup Coming' = (Refs \cup Coming) \cup {<<r, k>>}
    BY <2>1, <2>2
  <2> QED
    BY <1>1, <2>3, TakeLemma DEF IInv, RegionInv
<1> QED
  BY <1>3, <1>9, <1>10, <1>11, <1>12, <1>13, <1>14, <1>15, <1>16, <1>17, <1>18 DEF IInv

(* Nothing but the history and the error flag changes.                     *)
LEMMA WriteFailsStep ==
  ASSUME IInv, NEW v \in Vars, NEW d \in Domains, WriteFails(v, d)
  PROVE  IInv'
<1>1. /\ begun' = begun \cup {<<v, clientIter, d>>} /\ errorOccured' = TRUE
      /\ UNCHANGED <<clientIter, clientBlocks, chan, serverIter, serverBlocks, free, crashed>>
  BY DEF WriteFails
<1>2. clientIter \in 0 .. MaxIter
  BY DEF IInv, TypeOK
<1>3. TypeOK'
  BY <1>1, <1>2 DEF IInv, TypeOK
<1>4. MessagesInv' /\ IterInv'
  BY <1>1 DEF IInv, MessagesInv, IterInv, Places
<1>5. UniqueInv'
  <2>1. \A x \in begun' : x[2] <= clientIter
    BY <1>1, <1>2 DEF IInv, UniqueInv
  <2> QED
    BY <1>1, <2>1 DEF IInv, UniqueInv, Places
<1>6. WriteInv' /\ CommitInv' /\ ClearInv' /\ ClientInv' /\ ServerInv'
  BY <1>1 DEF IInv, WriteInv, CommitInv, ClearInv, ClientInv, ServerInv, Places
<1>7. RegionInv'
  BY <1>1 DEF IInv, RegionInv, Refs, Coming, Places
<1> QED
  BY <1>1, <1>3, <1>4, <1>5, <1>6, <1>7 DEF IInv

(* A block of the client takes the region.                                 *)
LEMMA AllocStep ==
  ASSUME IInv, NEW v \in Vars, NEW d \in Domains, Alloc(v, d)
  PROVE  IInv'
<1> DEFINE k == <<v, clientIter, d>>
<1>1. PICK r \in free :
        /\ free' = free \ {r}
        /\ clientBlocks' = clientBlocks \cup {Block(v, clientIter, d, r, TRUE, FALSE)}
  BY DEF Alloc
<1>2. PICK c : c = Block(v, clientIter, d, r, TRUE, FALSE)
  OBVIOUS
<1>3. /\ begun' = begun \cup {k}
      /\ UNCHANGED <<clientIter, errorOccured, chan, serverIter, serverBlocks, crashed>>
  BY DEF Alloc
<1>4. /\ clientIter \in 0 .. MaxIter
      /\ \A b \in clientBlocks \cup serverBlocks : Key(b) # k
      /\ \A i \in Places : Carries(chan[i]) \/ Clears(chan[i]) => MKey(chan[i]) # k
      /\ IndexIter(v, clientIter) = clientIter
  BY FreshLemma DEF Alloc
<1>5. Key(c) = k /\ c \in Blocks /\ c.region = r /\ ~ c.readOnly
  <2>1. r \in Regions
    BY <1>1 DEF IInv, TypeOK
  <2>2. c \in Blocks
    BY <1>2, <1>4, <2>1, IndexLemma DEF Block, Blocks
  <2>3. Key(c) = k /\ c.region = r
    BY <1>2, <1>4 DEF Block, Key
  <2>4. ~ c.readOnly
    BY <1>2 DEF Block
  <2> QED
    BY <2>2, <2>3, <2>4
<1>6. clientBlocks' = clientBlocks \cup {c} /\ Places' = Places
  BY <1>1, <1>2, <1>3 DEF Places
<1> HIDE DEF k
<1>7. TypeOK'
  <2>1. begun' \subseteq Vars \X (0..MaxIter) \X Domains
    BY <1>3, <1>4 DEF IInv, TypeOK, k
  <2>2. clientBlocks' \subseteq Blocks /\ free' \subseteq Regions
    BY <1>1, <1>5, <1>6 DEF IInv, TypeOK
  <2> QED
    BY <1>3, <2>1, <2>2 DEF IInv, TypeOK
<1>8. MessagesInv' /\ IterInv'
  BY <1>3, <1>6 DEF IInv, MessagesInv, IterInv
<1>9. UniqueInv'
  <2>1. \A x \in begun' : x[2] <= clientIter
    BY <1>3, <1>4 DEF IInv, UniqueInv, k
  <2> QED
    BY <1>3, <1>4, <1>5, <1>6, <2>1 DEF IInv, UniqueInv
<1>10. WriteInv'
  BY <1>3, <1>4, <1>5, <1>6 DEF IInv, WriteInv, Carries
<1>11. CommitInv'
  BY <1>3, <1>6 DEF IInv, CommitInv
<1>12. ClearInv'
  BY <1>3, <1>4, <1>5, <1>6 DEF IInv, ClearInv
<1>13. ClientInv'
  BY <1>3, <1>4, <1>5, <1>6 DEF IInv, ClientInv
<1>14. ServerInv'
  BY <1>3, <1>4, <1>5, <1>6 DEF IInv, ServerInv
<1>15. RegionInv'
  <2>1. Refs' = Refs \cup {<<r, k>>}
    BY <1>3, <1>5, <1>6 DEF Refs
  <2>2. Coming' = Coming
    BY <1>3, <1>6 DEF Coming
  <2>3. Refs' \cup Coming' = (Refs \cup Coming) \cup {<<r, k>>}
    BY <2>1, <2>2
  <2> QED
    BY <1>1, <2>3, TakeLemma DEF IInv, RegionInv
<1> QED
  BY <1>3, <1>7, <1>8, <1>9, <1>10, <1>11, <1>12, <1>13, <1>14, <1>15 DEF IInv

(* The block a client finds under the key of its present iteration.        *)
LEMMA FoundLemma ==
  ASSUME IInv, NEW v \in Vars, NEW d \in Domains,
         NEW b \in GetBlock(clientBlocks, v, clientIter, d)
  PROVE  /\ b \in clientBlocks /\ b \in Blocks
         /\ Key(b) = <<v, IndexIter(v, clientIter), d>>
         /\ b.var \in TimeVarying => b.iter = clientIter
         /\ clientIter \in 0 .. MaxIter
<1>1. b \in clientBlocks /\ b.var = v /\ b.iter = IndexIter(v, clientIter) /\ b.id = d
  BY DEF GetBlock
<1> QED
  BY <1>1 DEF IInv, TypeOK, Key, IndexIter

(* The block stays the client's, and its message comes last.               *)
LEMMA CommitStep ==
  ASSUME ~ AnyIteration, IInv, NEW v \in Vars, NEW j \in 0 .. MaxIter, NEW d \in Domains,
         Commit(v, j, d)
  PROVE  IInv'
<1> DEFINE n == Len(chan) + 1
<1>1. j = clientIter
  BY DEF Commit, Named
<1>2. PICK b \in GetBlock(clientBlocks, v, clientIter, d) :
        /\ ~ b.readOnly
        /\ clientBlocks' = (clientBlocks \ {b}) \cup
             {[b EXCEPT !.readOnly = TRUE, !.owner = FALSE]}
        /\ Send(Msg("COMMIT", v, clientIter, d, b.region))
  BY <1>1 DEF Commit
<1>3. PICK m : m = Msg("COMMIT", v, clientIter, d, b.region)
  OBVIOUS
<1>4. PICK c : c = [b EXCEPT !.readOnly = TRUE, !.owner = FALSE]
  OBVIOUS
<1>5. UNCHANGED <<clientIter, errorOccured, begun, serverIter, serverBlocks, free, crashed>>
  BY DEF Commit, clientVars
<1>6. /\ b \in clientBlocks /\ b \in Blocks
      /\ Key(b) = <<v, IndexIter(v, clientIter), d>>
      /\ clientIter \in 0 .. MaxIter
  BY FoundLemma
<1>7. /\ c \in Blocks /\ Key(c) = Key(b) /\ c.region = b.region /\ c.readOnly = TRUE
      /\ b.region \in Regions
  BY <1>4, <1>6 DEF Blocks, Key
<1>8. /\ MKey(m) = Key(b) /\ m.type = "COMMIT" /\ m.region = b.region /\ m.iter = clientIter
  BY <1>3, <1>6, MsgLemma
<1>9. m \in Messages /\ Carries(m) /\ ~ Clears(m)
  BY <1>3, <1>6, <1>7, <1>8 DEF Messages, Msg, Carries, Clears
<1>10. /\ chan' \in Seq(Messages)
       /\ Len(chan) \in Nat /\ Places = 1 .. Len(chan) /\ Places' = 1 .. n
       /\ \A i \in Places : i \in Places' /\ chan'[i] = chan[i]
                            /\ NAfter(chan', i) = NAfter(chan, i)
       /\ chan'[n] = m /\ NAfter(chan', n) = 0
       /\ NEnds(chan') = NEnds(chan)
  BY <1>2, <1>3, <1>9, SendLemma
<1> HIDE DEF n
<1>11. n \in Places' /\ \A i \in Places' : i \in Places \/ i = n
  BY <1>10 DEF n
<1>12. clientBlocks' = (clientBlocks \ {b}) \cup {c}
  BY <1>2, <1>4
<1>13. /\ Key(b) \in begun
       /\ \A s \in serverBlocks : Key(s) # Key(b)
       /\ \A i \in Places : Carries(chan[i]) \/ Clears(chan[i]) => MKey(chan[i]) # Key(b)
  BY <1>2, <1>6 DEF IInv, UniqueInv, ClientInv, ClearInv
<1>14. TypeOK'
  BY <1>5, <1>7, <1>10, <1>12 DEF IInv, TypeOK
<1>15. MessagesInv'
  <2>1. MKey(m) \in begun /\ m.iter = clientIter - NAfter(chan', n) /\ m.region \in Regions
    BY <1>6, <1>7, <1>8, <1>10, <1>13
  <2>2. \A i \in Places :
          /\ Carries(chan[i]) \/ Clears(chan[i]) =>
               MKey(chan[i]) \in begun /\ chan[i].iter = clientIter - NAfter(chan', i)
          /\ IF Carries(chan[i]) THEN chan[i].region \in Regions
                                 ELSE chan[i].region = NoRegion
    BY <1>10 DEF IInv, MessagesInv
  <2> QED
    BY <1>5, <1>9, <1>10, <1>11, <2>1, <2>2 DEF MessagesInv
<1>16. IterInv'
  BY <1>5, <1>10 DEF IInv, IterInv
<1>17. UniqueInv'
  <2>1. \A x \in clientBlocks' : x = c \/ (x \in clientBlocks /\ Key(x) # Key(b))
    BY <1>6, <1>12 DEF IInv, UniqueInv
  <2>2. \A x, y \in clientBlocks' : Key(x) = Key(y) => x = y
    BY <1>7, <2>1 DEF IInv, UniqueInv
  <2>3. \A x \in clientBlocks' \cup serverBlocks' : Key(x) \in begun'
    BY <1>5, <1>7, <1>13, <2>1 DEF IInv, UniqueInv
  <2>4. \A i, l \in Places' : MKey(chan'[i]) = MKey(chan'[l]) =>
          /\ Carries(chan'[i]) /\ Carries(chan'[l]) => i = l
          /\ Clears(chan'[i]) /\ Clears(chan'[l]) => i = l
    BY <1>8, <1>9, <1>10, <1>11, <1>13 DEF IInv, UniqueInv
  <2> QED
    BY <1>5, <2>2, <2>3, <2>4 DEF IInv, UniqueInv
<1>18. WriteInv'
  <2>1. \A i \in Places' : chan'[i].type = "WRITE" => i \in Places /\ chan'[i] = chan[i]
    BY <1>8, <1>10, <1>11
  <2>2. \A x \in clientBlocks' : \E y \in clientBlocks : Key(x) = Key(y)
    BY <1>6, <1>7, <1>12
  <2>3. \A i \in Places' : Clears(chan'[i]) => i \in Places /\ chan'[i] = chan[i]
    BY <1>9, <1>10, <1>11
  <2> QED
    BY <1>5, <2>1, <2>2, <2>3 DEF IInv, WriteInv
<1>19. CommitInv'
  <2>1. \A i \in Places : chan[i].type = "COMMIT" => MKey(chan[i]) # Key(b)
    BY <1>13 DEF Carries
  <2>2. ASSUME NEW i \in Places, chan[i].type = "COMMIT"
        PROVE  /\ \A s \in serverBlocks : Key(s) # MKey(chan'[i])
               /\ \/ \E x \in clientBlocks' :
                       Key(x) = MKey(chan'[i]) /\ x.readOnly /\ x.region = chan'[i].region
                  \/ \E l \in Places' : l > i /\ Clears(chan'[l])
                                        /\ MKey(chan'[l]) = MKey(chan'[i])
    BY <1>10, <1>12, <2>1, <2>2 DEF IInv, CommitInv
  <2>3. /\ \A s \in serverBlocks : Key(s) # MKey(chan'[n])
        /\ \E x \in clientBlocks' :
             Key(x) = MKey(chan'[n]) /\ x.readOnly /\ x.region = chan'[n].region
    BY <1>7, <1>8, <1>10, <1>12, <1>13
  <2>4. \A i \in Places' : (i \in Places /\ chan'[i] = chan[i]) \/ i = n
    BY <1>10, <1>11
  <2> QED
    BY <1>5, <2>2, <2>3, <2>4 DEF CommitInv
<1>20. ClearInv'
  BY <1>5, <1>7, <1>9, <1>10, <1>11, <1>12, <1>13 DEF IInv, ClearInv
<1>21. ClientInv'
  <2>1. \A x \in clientBlocks : x # b => Key(x) # Key(b)
    BY <1>6 DEF IInv, UniqueInv
  <2> QED
    <3>1. ASSUME NEW x \in clientBlocks, x # b
          PROVE  /\ ~ x.readOnly =>
                      /\ \A s \in serverBlocks : Key(s) # Key(x)
                      /\ \A i \in Places' : Carries(chan'[i]) => Key(x) # MKey(chan'[i])
                 /\ x.readOnly /\ (x.var \in TimeVarying => x.iter = clientIter) =>
                      \/ \E s \in serverBlocks : Key(s) = Key(x)
                      \/ \E i \in Places' : chan'[i].type = "COMMIT" /\ Key(x) = MKey(chan'[i])
      BY <1>8, <1>10, <1>11, <2>1, <3>1 DEF IInv, ClientInv
    <3>2. c.readOnly /\ n \in Places' /\ chan'[n].type = "COMMIT" /\ Key(c) = MKey(chan'[n])
      BY <1>7, <1>8, <1>10, <1>11
    <3> QED
      BY <1>5, <1>12, <3>1, <3>2 DEF ClientInv
<1>22. ServerInv'
  BY <1>5, <1>7, <1>10, <1>11, <1>12, <1>13 DEF IInv, ServerInv
<1>23. RegionInv'
  <2>1. Refs' = Refs
    BY <1>5, <1>6, <1>7, <1>12 DEF Refs
  <2>2. Coming' = Coming \cup {<<b.region, Key(b)>>}
    BY <1>8, <1>9, <1>10, <1>11 DEF Coming
  <2>3. <<b.region, Key(b)>> \in Refs
    BY <1>6 DEF Refs
  <2>4. Refs' \cup Coming' = Refs \cup Coming
    BY <2>1, <2>2, <2>3
  <2> QED
    BY <1>5, <2>4 DEF IInv, RegionInv
<1> QED
  BY <1>5, <1>14, <1>15, <1>16, <1>17, <1>18, <1>19, <1>20, <1>21, <1>22, <1>23 DEF IInv

(* The region stays with the server's block or with its COMMIT.            *)
LEMMA ClearStep ==
  ASSUME ~ AnyIteration, IInv, NEW v \in Vars, NEW j \in 0 .. MaxIter, NEW d \in Domains,
         Clear(v, j, d)
  PROVE  IInv'
<1> DEFINE n == Len(chan) + 1
<1>1. j = clientIter
  BY DEF Clear, Named
<1>2. PICK b \in GetBlock(clientBlocks, v, clientIter, d) :
        /\ b.readOnly
        /\ clientBlocks' = clientBlocks \ {b}
        /\ Send(Msg("CLEAR", v, clientIter, d, NoRegion))
  BY <1>1 DEF Clear
<1>3. PICK m : m = Msg("CLEAR", v, clientIter, d, NoRegion)
  OBVIOUS
<1>4. UNCHANGED <<clientIter, errorOccured, begun, serverIter, serverBlocks, free, crashed>>
  BY DEF Clear, clientVars
<1>5. /\ b \in clientBlocks /\ b \in Blocks
      /\ Key(b) = <<v, IndexIter(v, clientIter), d>>
      /\ b.var \in TimeVarying => b.iter = clientIter
      /\ clientIter \in 0 .. MaxIter
  BY FoundLemma
<1>6. /\ MKey(m) = Key(b) /\ m.type = "CLEAR" /\ m.region = NoRegion /\ m.iter = clientIter
  BY <1>3, <1>5, MsgLemma
<1>7. m \in Messages /\ Clears(m) /\ ~ Carries(m)
  BY <1>3, <1>5, <1>6 DEF Messages, Msg, Carries, Clears
<1>8. /\ chan' \in Seq(Messages)
      /\ Len(chan) \in Nat /\ Places = 1 .. Len(chan) /\ Places' = 1 .. n
      /\ \A i \in Places : i \in Places' /\ chan'[i] = chan[i]
                           /\ NAfter(chan', i) = NAfter(chan, i)
      /\ chan'[n] = m /\ NAfter(chan', n) = 0
      /\ NEnds(chan') = NEnds(chan)
  BY <1>2, <1>3, <1>7, SendLemma
<1>9. n \in Places' /\ \A i \in Places' : i \in Places \/ i = n
  BY <1>8
<1>10. \A i \in Places : i < n
  BY <1>8
<1> HIDE DEF n
<1>11. \A x \in clientBlocks' : x \in clientBlocks /\ Key(x) # Key(b)
  BY <1>2, <1>5 DEF IInv, UniqueInv
<1>12. /\ Key(b) \in begun
       /\ \A i \in Places : Clears(chan[i]) => MKey(chan[i]) # Key(b)
       /\ \A i \in Places : chan[i].type = "WRITE" => MKey(chan[i]) # Key(b)
  BY <1>5 DEF IInv, UniqueInv, ClearInv, WriteInv
<1>13. \A s \in serverBlocks : Key(s) = Key(b) => ~ s.owner /\ s.region = b.region
  <2> SUFFICES ASSUME NEW s \in serverBlocks, Key(s) = Key(b)
               PROVE  ~ s.owner /\ s.region = b.region
    OBVIOUS
  <2>1. ~ s.owner
    BY <1>5 DEF IInv, ServerInv
  <2>2. PICK x \in clientBlocks : Key(x) = Key(s) /\ x.region = s.region
    BY <1>12, <2>1 DEF IInv, ServerInv
  <2> QED
    BY <1>5, <2>1, <2>2 DEF IInv, UniqueInv
<1>14. \A i \in Places : chan[i].type = "COMMIT" /\ MKey(chan[i]) = Key(b)
                          => chan[i].region = b.region
  BY <1>5, <1>12 DEF IInv, CommitInv, UniqueInv
<1>15. \/ \E s \in serverBlocks : Key(s) = Key(b)
       \/ \E i \in Places : chan[i].type = "COMMIT" /\ Key(b) = MKey(chan[i])
  BY <1>2, <1>5 DEF IInv, ClientInv
<1>16. TypeOK'
  BY <1>4, <1>8, <1>11 DEF IInv, TypeOK
<1>17. MessagesInv'
  <2>1. MKey(m) \in begun /\ m.iter = clientIter - NAfter(chan', n) /\ m.region = NoRegion
    BY <1>5, <1>6, <1>8, <1>12
  <2>2. \A i \in Places :
          /\ Carries(chan[i]) \/ Clears(chan[i]) =>
               MKey(chan[i]) \in begun /\ chan[i].iter = clientIter - NAfter(chan', i)
          /\ IF Carries(chan[i]) THEN chan[i].region \in Regions
                                 ELSE chan[i].region = NoRegion
    BY <1>8 DEF IInv, MessagesInv
  <2> QED
    BY <1>4, <1>7, <1>8, <1>9, <2>1, <2>2 DEF MessagesInv
<1>18. IterInv'
  BY <1>4, <1>8 DEF IInv, IterInv
<1>19. UniqueInv'
  <2>1. \A i, l \in Places' : MKey(chan'[i]) = MKey(chan'[l]) =>
          /\ Carries(chan'[i]) /\ Carries(chan'[l]) => i = l
          /\ Clears(chan'[i]) /\ Clears(chan'[l]) => i = l
    <3>1. \A i \in Places' : (i \in Places /\ chan'[i] = chan[i]) \/ (i = n /\ chan'[i] = m)
      BY <1>8, <1>9
    <3>2. \A i, l \in Places : MKey(chan[i]) = MKey(chan[l]) =>
            /\ Carries(chan[i]) /\ Carries(chan[l]) => i = l
            /\ Clears(chan[i]) /\ Clears(chan[l]) => i = l
      BY DEF IInv, UniqueInv
    <3> QED
      BY <1>6, <1>7, <1>12, <3>1, <3>2
  <2>2. \A x \in clientBlocks' \cup serverBlocks' : Key(x) \in begun'
    BY <1>4, <1>11 DEF IInv, UniqueInv
  <2> QED
    BY <1>4, <1>11, <2>1, <2>2 DEF IInv, UniqueInv
<1>20. WriteInv'
  BY <1>4, <1>6, <1>8, <1>9, <1>11, <1>12 DEF IInv, WriteInv
<1>21. CommitInv'
  <2> SUFFICES ASSUME NEW i \in Places, chan[i].type = "COMMIT"
               PROVE  \/ \E x \in clientBlocks' :
                           Key(x) = MKey(chan[i]) /\ x.readOnly /\ x.region = chan[i].region
                      \/ \E l \in Places' :
                           l > i /\ Clears(chan'[l]) /\ MKey(chan'[l]) = MKey(chan[i])
    <3>1. \A i \in Places' : chan'[i].type = "COMMIT" => i \in Places /\ chan'[i] = chan[i]
      BY <1>6, <1>8, <1>9
    <3> QED
      BY <1>4, <3>1 DEF IInv, CommitInv
  <2>1. CASE MKey(chan[i]) = Key(b)
    BY <1>6, <1>7, <1>8, <1>9, <1>10, <2>1
  <2>2. CASE MKey(chan[i]) # Key(b)
    BY <1>2, <1>8, <2>2 DEF IInv, CommitInv
  <2> QED
    BY <2>1, <2>2
<1>22. ClearInv'
  <2>1. ASSUME NEW i \in Places, Clears(chan[i])
        PROVE  /\ \A x \in clientBlocks' : Key(x) # MKey(chan'[i])
               /\ \/ \E s \in serverBlocks : Key(s) = MKey(chan'[i]) /\ ~ s.owner
                  \/ \E l \in Places' : l < i /\ chan'[l].type = "COMMIT"
                                              /\ MKey(chan'[l]) = MKey(chan'[i])
    BY <1>8, <1>11, <2>1 DEF IInv, ClearInv
  <2>2. /\ \A x \in clientBlocks' : Key(x) # MKey(chan'[n])
        /\ \/ \E s \in serverBlocks : Key(s) = MKey(chan'[n]) /\ ~ s.owner
           \/ \E l \in Places' : l < n /\ chan'[l].type = "COMMIT"
                                       /\ MKey(chan'[l]) = MKey(chan'[n])
    BY <1>6, <1>8, <1>10, <1>11, <1>13, <1>15
  <2> QED
    BY <1>4, <1>8, <1>9, <2>1, <2>2 DEF ClearInv
<1>23. ClientInv'
  <2>1. \A i \in Places' : Carries(chan'[i]) => i \in Places /\ chan'[i] = chan[i]
    BY <1>7, <1>8, <1>9
  <2>2. ASSUME NEW x \in clientBlocks
        PROVE  /\ ~ x.readOnly =>
                    /\ \A s \in serverBlocks : Key(s) # Key(x)
                    /\ \A i \in Places' : Carries(chan'[i]) => Key(x) # MKey(chan'[i])
               /\ x.readOnly /\ (x.var \in TimeVarying => x.iter = clientIter) =>
                    \/ \E s \in serverBlocks : Key(s) = Key(x)
                    \/ \E i \in Places' : chan'[i].type = "COMMIT" /\ Key(x) = MKey(chan'[i])
    BY <1>8, <2>1 DEF IInv, ClientInv
  <2> QED
    BY <1>4, <1>11, <2>2 DEF ClientInv
<1>24. ServerInv'
  <2> SUFFICES ASSUME NEW s \in serverBlocks
               PROVE  /\ s.owner => \A x \in clientBlocks' : Key(s) # Key(x)
                      /\ ~ s.owner =>
                           \/ \E x \in clientBlocks' : Key(x) = Key(s) /\ x.region = s.region
                           \/ \E i \in Places' : Clears(chan'[i]) /\ Key(s) = MKey(chan'[i])
    BY <1>4 DEF ServerInv
  <2>1. CASE Key(s) = Key(b)
    BY <1>6, <1>7, <1>8, <1>9, <1>13, <2>1
  <2>2. CASE Key(s) # Key(b)
    BY <1>2, <1>8, <1>11, <2>2 DEF IInv, ServerInv
  <2> QED
    BY <2>1, <2>2
<1>25. RegionInv'
  <2>1. Coming' = Coming
    BY <1>7, <1>8, <1>9 DEF Coming
  <2>2. <<b.region, Key(b)>> \in Refs' \cup Coming'
    <3>1. CASE \E s \in serverBlocks : Key(s) = Key(b)
      BY <1>4, <1>13, <3>1 DEF Refs
    <3>2. CASE \E i \in Places : chan[i].type = "COMMIT" /\ Key(b) = MKey(chan[i])
      BY <1>14, <2>1, <3>2 DEF Coming, Carries
    <3> QED
      BY <1>15, <3>1, <3>2
  <2>3. Refs = Refs' \cup {<<b.region, Key(b)>>}
    BY <1>2, <1>4, <1>5 DEF Refs
  <2>4. Refs' \cup Coming' = Refs \cup Coming
    BY <2>1, <2>2, <2>3
  <2> QED
    BY <1>4, <2>4 DEF IInv, RegionInv
<1> QED
  BY <1>4, <1>16, <1>17, <1>18, <1>19, <1>20, <1>21, <1>22, <1>23, <1>24, <1>25 DEF IInv

(* The end of an iteration is sent: no key of the next is begun.           *)
LEMMA EndIterationStep ==
  ASSUME IInv, EndIteration
  PROVE  IInv'
<1> DEFINE n == Len(chan) + 1
           type == IF errorOccured THEN "NEXT_ITERATION_ERR" ELSE "NEXT_ITERATION"
<1>1. PICK m : m = Msg(type, NoVar, 0, 0, NoRegion)
  OBVIOUS
<1>2. /\ clientIter' = clientIter + 1 /\ errorOccured' = FALSE
      /\ clientIter < MaxIter
      /\ chan' = Append(chan, m)
      /\ UNCHANGED <<clientBlocks, begun, serverIter, serverBlocks, free, crashed>>
  BY <1>1 DEF EndIteration, Send
<1>3. clientIter \in Nat /\ clientIter + 1 \in 0 .. MaxIter /\ chan \in Seq(Messages)
  BY <1>2, LifecycleOK DEF IInv, TypeOK
<1>4. m.type = type /\ m.region = NoRegion
  BY <1>1 DEF Msg
<1>5. m \in Messages
  <2>1. type \in {"NEXT_ITERATION", "NEXT_ITERATION_ERR"} /\ 0 \in 0 .. MaxIter
    BY LifecycleOK
  <2> HIDE DEF type
  <2> QED
    BY <1>1, <2>1 DEF Msg, Messages
<1>6. One(m) = 1 /\ ~ Carries(m) /\ ~ Clears(m)
  BY <1>4 DEF One, IsEnd, Carries, Clears
<1>7. /\ chan' \in Seq(Messages)
      /\ Len(chan) \in Nat /\ Len(chan') = n
      /\ \A i \in 1 .. Len(chan) : chan'[i] = chan[i] /\ NAfter(chan', i) = NAfter(chan, i) + 1
      /\ chan'[n] = m
      /\ NEnds(chan') = NEnds(chan) + 1
  BY <1>2, <1>3, <1>5, <1>6, AppendLemma
<1>8. NEnds(chan) \in Nat /\ \A i \in 1 .. Len(chan) : NAfter(chan, i) \in Nat
  BY <1>3, <1>7, EndsLemma
<1>9. /\ n \in Places' /\ \A i \in Places' : i \in Places \/ i = n
      /\ \A i \in Places : i \in Places' /\ chan'[i] = chan[i]
  BY <1>7 DEF Places
<1> HIDE DEF n, type
<1>10. \A i \in Places' : Carries(chan'[i]) \/ Clears(chan'[i]) => i \in Places
  BY <1>6, <1>7, <1>9
<1>11. TypeOK'
  BY <1>2, <1>3, <1>7 DEF IInv, TypeOK
<1>12. MessagesInv'
  <2>1. ASSUME NEW i \in Places, Carries(chan[i]) \/ Clears(chan[i])
        PROVE  chan'[i].iter = clientIter' - NAfter(chan', i)
    <3>1. /\ chan[i].iter = clientIter - NAfter(chan, i) /\ NAfter(chan, i) \in Nat
          /\ chan'[i] = chan[i] /\ NAfter(chan', i) = NAfter(chan, i) + 1
      BY <1>7, <1>8, <2>1 DEF IInv, MessagesInv, Places
    <3> QED
      BY <1>2, <1>3, <3>1
  <2> QED
    BY <1>2, <1>4, <1>6, <1>7, <1>9, <1>10, <2>1 DEF IInv, MessagesInv
<1>13. IterInv'
  BY <1>2, <1>3, <1>7, <1>8 DEF IInv, IterInv
<1>14. UniqueInv'
  <2>1. \A x \in begun : x[2] \in Nat
    BY DEF IInv, TypeOK
  <2> QED
    <3>1. \A x \in begun' : x[2] <= clientIter'
      BY <1>2, <1>3, <2>1 DEF IInv, UniqueInv
    <3>2. \A b \in clientBlocks' \cup serverBlocks' : Key(b) \in begun'
      BY <1>2 DEF IInv, UniqueInv
    <3>3. \A i, j \in Places' : MKey(chan'[i]) = MKey(chan'[j]) =>
            /\ Carries(chan'[i]) /\ Carries(chan'[j]) => i = j
            /\ Clears(chan'[i]) /\ Clears(chan'[j]) => i = j
      BY <1>9, <1>10 DEF IInv, UniqueInv
    <3> QED
      BY <1>2, <3>1, <3>2, <3>3 DEF IInv, UniqueInv
<1>15. WriteInv'
  BY <1>2, <1>9, <1>10 DEF IInv, WriteInv, Carries
<1>16. CommitInv'
  <2>1. \A i \in Places' : chan'[i].type = "COMMIT" => i \in Places
    BY <1>10 DEF Carries
  <2>2. ASSUME NEW i \in Places, chan[i].type = "COMMIT"
        PROVE  /\ \A s \in serverBlocks : Key(s) # MKey(chan'[i])
               /\ \/ \E b \in clientBlocks :
                       Key(b) = MKey(chan'[i]) /\ b.readOnly /\ b.region = chan'[i].region
                  \/ \E j \in Places' : j > i /\ Clears(chan'[j])
                                        /\ MKey(chan'[j]) = MKey(chan'[i])
    BY <1>9, <2>2 DEF IInv, CommitInv
  <2> QED
    BY <1>2, <1>9, <2>1, <2>2 DEF CommitInv
<1>17. ClearInv'
  <2>1. ASSUME NEW i \in Places, Clears(chan[i])
        PROVE  /\ \A b \in clientBlocks : Key(b) # MKey(chan'[i])
               /\ \/ \E s \in serverBlocks : Key(s) = MKey(chan'[i]) /\ ~ s.owner
                  \/ \E j \in Places' : j < i /\ chan'[j].type = "COMMIT"
                                        /\ MKey(chan'[j]) = MKey(chan'[i])
    BY <1>9, <2>1 DEF IInv, ClearInv
  <2> QED
    BY <1>2, <1>9, <1>10, <2>1 DEF ClearInv
<1>18. ClientInv'
  <2>1. ASSUME NEW b \in clientBlocks, b.var \in TimeVarying, b.iter = clientIter'
        PROVE  FALSE
    <3>1. Key(b)[2] <= clientIter
      BY DEF IInv, UniqueInv
    <3> QED
      BY <1>2, <1>3, <2>1, <3>1 DEF Key
  <2>2. ASSUME NEW b \in clientBlocks
        PROVE  /\ ~ b.readOnly =>
                    /\ \A s \in serverBlocks : Key(s) # Key(b)
                    /\ \A i \in Places' : Carries(chan'[i]) => Key(b) # MKey(chan'[i])
               /\ b.readOnly /\ b.var \notin TimeVarying =>
                    \/ \E s \in serverBlocks : Key(s) = Key(b)
                    \/ \E i \in Places' : chan'[i].type = "COMMIT" /\ Key(b) = MKey(chan'[i])
    BY <1>9, <1>10 DEF IInv, ClientInv
  <2> QED
    BY <1>2, <2>1, <2>2 DEF ClientInv
<1>19. ServerInv'
  BY <1>2, <1>9, <1>10 DEF IInv, ServerInv
<1>20. RegionInv'
  <2>1. Coming' = Coming
    BY <1>9, <1>10 DEF Coming
  <2>2. Refs' = Refs
    BY <1>2 DEF Refs
  <2> QED
    BY <1>2, <2>1, <2>2 DEF IInv, RegionInv
<1> QED
  BY <1>2, <1>11, <1>12, <1>13, <1>14, <1>15, <1>16, <1>17, <1>18, <1>19, <1>20 DEF IInv
----------------------------------------------------------------------------
(* The server takes the message at the head of the channel.                *)
LEMMA ReceiveLemma ==
  ASSUME IInv, NEW m, Receive(m)
  PROVE  /\ chan' \in Seq(Messages)
         /\ 1 \in Places /\ chan[1] = m
         /\ \A i \in Places' : /\ i + 1 \in Places /\ chan'[i] = chan[i + 1]
                               /\ NAfter(chan', i) = NAfter(chan, i + 1)
         /\ \A i \in Places : i = 1 \/ (i - 1 \in Places' /\ chan'[i - 1] = chan[i])
         /\ \A i \in Places' : NAfter(chan', i) \in Nat /\ NAfter(chan', i) <= NEnds(chan')
         /\ NEnds(chan) = NEnds(chan') + One(m) /\ NEnds(chan') \in Nat
<1>1. chan \in Seq(Messages) /\ chan # <<>> /\ m = Head(chan) /\ chan' = Tail(chan)
  BY DEF Receive, IInv, TypeOK
<1>2. /\ chan' \in Seq(Messages)
      /\ Len(chan) \in Nat \ {0} /\ Len(chan') = Len(chan) - 1
      /\ \A i \in 1 .. Len(chan') : chan'[i] = chan[i + 1]
      /\ chan[1] = m
      /\ NEnds(chan) = NEnds(chan') + One(m)
      /\ \A i \in 1 .. Len(chan') : NAfter(chan', i) = NAfter(chan, i + 1)
  BY <1>1, TailLemma
<1>3. /\ NEnds(chan') \in Nat
      /\ \A i \in Nat : NAfter(chan', i) \in Nat /\ NAfter(chan', i) <= NEnds(chan')
  BY <1>2, EndsLemma
<1>4. /\ \A i \in Places' : i + 1 \in Places /\ i \in Nat
      /\ \A i \in Places : i = 1 \/ (i - 1 \in Places' /\ (i - 1) + 1 = i)
      /\ 1 \in Places
  BY <1>2 DEF Places
<1> QED
  BY <1>2, <1>3, <1>4 DEF Places

(* Places behind one place, and before it, move with it.                   *)
LEMMA PlacesLemma ==
  ASSUME IInv, NEW m, Receive(m), NEW i \in Places', NEW j \in Places
  PROVE  /\ j > i + 1 => j - 1 \in Places' /\ chan'[j - 1] = chan[j] /\ j - 1 > i
         /\ j < i + 1 /\ j # 1 => j - 1 \in Places' /\ chan'[j - 1] = chan[j] /\ j - 1 < i
<1>1. \A l \in Places : l = 1 \/ (l - 1 \in Places' /\ chan'[l - 1] = chan[l])
  BY ReceiveLemma
<1>2. i \in Nat /\ i >= 1 /\ j \in Nat
  BY ReceiveLemma DEF Places
<1>3. (j > i + 1 => j # 1 /\ j - 1 > i) /\ (j < i + 1 => j - 1 < i)
  BY <1>2
<1> QED
  BY <1>1, <1>3

(* What no handler changes, of the messages behind the one it takes.       *)
LEMMA BehindLemma ==
  ASSUME IInv, NEW m, Receive(m), UNCHANGED <<clientIter, begun, clientBlocks>>
  PROVE  /\ MessagesInv'
         /\ \A i, j \in Places' : MKey(chan'[i]) = MKey(chan'[j]) =>
              /\ Carries(chan'[i]) /\ Carries(chan'[j]) => i = j
              /\ Clears(chan'[i]) /\ Clears(chan'[j]) => i = j
         /\ Carries(m) => \A i \in Places' : Carries(chan'[i]) => MKey(chan'[i]) # MKey(m)
         /\ Clears(m) => \A i \in Places' : Clears(chan'[i]) => MKey(chan'[i]) # MKey(m)
<1>1. /\ 1 \in Places /\ chan[1] = m
      /\ \A i \in Places' : /\ i + 1 \in Places /\ chan'[i] = chan[i + 1]
                            /\ NAfter(chan', i) = NAfter(chan, i + 1)
  BY ReceiveLemma
<1>2. \A i \in Places' : i \in Nat \ {0}
  BY ReceiveLemma DEF Places, IInv, TypeOK
<1>3. MessagesInv'
  BY <1>1 DEF IInv, MessagesInv
<1>4. \A i, j \in Places' : i + 1 = j + 1 => i = j
  BY <1>2
<1>5. \A i \in Places' : i + 1 # 1
  BY <1>2
<1> QED
  BY <1>1, <1>3, <1>4, <1>5 DEF IInv, UniqueInv

(* A written block: what the message carried is now the server's.          *)
LEMMA OnWriteStep ==
  ASSUME IInv, NEW m, OnWrite(m)
  PROVE  IInv'
<1> DEFINE k == MKey(m)
<1>1. /\ m.type = "WRITE" /\ Receive(m) /\ Retrieve(m, TRUE, FALSE)
      /\ UNCHANGED <<clientIter, errorOccured, begun, clientBlocks, serverIter, free, crashed>>
  BY DEF OnWrite, clientVars
<1>2. /\ chan' \in Seq(Messages)
      /\ 1 \in Places /\ chan[1] = m
      /\ \A i \in Places' : i + 1 \in Places /\ chan'[i] = chan[i + 1]
      /\ \A i \in Places : i = 1 \/ (i - 1 \in Places' /\ chan'[i - 1] = chan[i])
      /\ NEnds(chan) = NEnds(chan') + One(m) /\ NEnds(chan') \in Nat
  BY <1>1, ReceiveLemma
<1>3. Carries(m) /\ ~ Clears(m) /\ One(m) = 0
  BY <1>1 DEF Carries, Clears, One, IsEnd
<1>4. /\ m.var \in Vars /\ m.iter \in 0 .. MaxIter /\ m.id \in Domains /\ m.region \in Regions
      /\ k = <<m.var, IndexIter(m.var, m.iter), m.id>> /\ k \in begun
  BY <1>2, <1>3, MessageLemma DEF IInv, MessagesInv
<1>5. /\ \A b \in clientBlocks \cup serverBlocks : Key(b) # k
      /\ \A j \in Places : Clears(chan[j]) => MKey(chan[j]) # k
  BY <1>1, <1>2 DEF IInv, WriteInv
<1>6. PICK c : c = Block(m.var, m.iter, m.id, m.region, TRUE, FALSE)
  OBVIOUS
<1>7. c \in Blocks /\ Key(c) = k /\ c.region = m.region /\ c.owner /\ ~ c.readOnly
  <2>1. c \in Blocks
    BY <1>4, <1>6, IndexLemma DEF Block, Blocks
  <2>2. Key(c) = <<m.var, IndexIter(m.var, m.iter), m.id>> /\ c.region = m.region
    BY <1>6 DEF Block, Key
  <2>3. c.owner /\ ~ c.readOnly
    BY <1>6 DEF Block
  <2> QED
    BY <1>4, <2>1, <2>2, <2>3
<1>8. serverBlocks' = serverBlocks \cup {c}
  BY <1>1, <1>4, <1>5, <1>6, FindLemma DEF Retrieve
<1>9. /\ MessagesInv'
      /\ \A i, j \in Places' : MKey(chan'[i]) = MKey(chan'[j]) =>
           /\ Carries(chan'[i]) /\ Carries(chan'[j]) => i = j
           /\ Clears(chan'[i]) /\ Clears(chan'[j]) => i = j
      /\ \A i \in Places' : Carries(chan'[i]) => MKey(chan'[i]) # k
  BY <1>1, <1>3, BehindLemma
<1> HIDE DEF k
<1>10. TypeOK'
  BY <1>1, <1>2, <1>7, <1>8 DEF IInv, TypeOK
<1>11. IterInv'
  BY <1>1, <1>2, <1>3 DEF IInv, IterInv
<1>12. UniqueInv'
  BY <1>1, <1>4, <1>5, <1>7, <1>8, <1>9 DEF IInv, UniqueInv
<1>13. WriteInv'
  BY <1>1, <1>2, <1>7, <1>8, <1>9 DEF IInv, WriteInv, Carries
<1>14. CommitInv'
  <2>1. ASSUME NEW i \in Places', chan'[i].type = "COMMIT"
        PROVE  /\ \A s \in serverBlocks' : Key(s) # MKey(chan'[i])
               /\ \/ \E b \in clientBlocks :
                       Key(b) = MKey(chan'[i]) /\ b.readOnly /\ b.region = chan'[i].region
                  \/ \E j \in Places' : j > i /\ Clears(chan'[j])
                                        /\ MKey(chan'[j]) = MKey(chan'[i])
    <3>1. i + 1 \in Places /\ chan'[i] = chan[i + 1] /\ i \in Nat \ {0}
      BY <1>2 DEF Places, IInv, TypeOK
    <3>2. \A s \in serverBlocks' : Key(s) # MKey(chan'[i])
      BY <1>7, <1>8, <1>9, <2>1, <3>1 DEF IInv, CommitInv, Carries
    <3>3. ASSUME NEW j \in Places, j > i + 1
          PROVE  j - 1 \in Places' /\ chan'[j - 1] = chan[j] /\ j - 1 > i
      BY <1>1, <3>3, PlacesLemma
    <3>4. \/ \E b \in clientBlocks :
               Key(b) = MKey(chan'[i]) /\ b.readOnly /\ b.region = chan'[i].region
          \/ \E j \in Places : j > i + 1 /\ Clears(chan[j]) /\ MKey(chan[j]) = MKey(chan'[i])
      BY <2>1, <3>1 DEF IInv, CommitInv
    <3> QED
      BY <3>2, <3>3, <3>4
  <2> QED
    BY <1>1, <2>1 DEF CommitInv
<1>15. ClearInv'
  <2>1. ASSUME NEW i \in Places', Clears(chan'[i])
        PROVE  /\ \A b \in clientBlocks : Key(b) # MKey(chan'[i])
               /\ \/ \E s \in serverBlocks' : Key(s) = MKey(chan'[i]) /\ ~ s.owner
                  \/ \E j \in Places' : j < i /\ chan'[j].type = "COMMIT"
                                        /\ MKey(chan'[j]) = MKey(chan'[i])
    <3>1. i + 1 \in Places /\ chan'[i] = chan[i + 1] /\ i \in Nat \ {0}
      BY <1>2 DEF Places, IInv, TypeOK
    <3>2. ASSUME NEW j \in Places, j < i + 1, chan[j].type = "COMMIT"
          PROVE  j - 1 \in Places' /\ chan'[j - 1] = chan[j] /\ j - 1 < i
      <4>1. j # 1
        BY <1>1, <1>2, <3>2
      <4> QED
        BY <1>1, <3>2, <4>1, PlacesLemma
    <3>3. /\ \A b \in clientBlocks : Key(b) # MKey(chan'[i])
          /\ \/ \E s \in serverBlocks : Key(s) = MKey(chan'[i]) /\ ~ s.owner
             \/ \E j \in Places : j < i + 1 /\ chan[j].type = "COMMIT"
                                  /\ MKey(chan[j]) = MKey(chan'[i])
      BY <2>1, <3>1 DEF IInv, ClearInv
    <3> QED
      BY <1>8, <3>2, <3>3
  <2> QED
    BY <1>1, <2>1 DEF ClearInv
<1>16. ClientInv'
  <2>1. \A i \in Places : chan[i].type = "COMMIT" => i - 1 \in Places' /\ chan'[i - 1] = chan[i]
    BY <1>1, <1>2
  <2> QED
    BY <1>1, <1>2, <1>5, <1>7, <1>8, <2>1 DEF IInv, ClientInv
<1>17. ServerInv'
  <2>1. \A i \in Places : Clears(chan[i]) => i - 1 \in Places' /\ chan'[i - 1] = chan[i]
    BY <1>2, <1>3
  <2> QED
    BY <1>1, <1>5, <1>7, <1>8, <2>1 DEF IInv, ServerInv
<1>18. RegionInv'
  <2>1. Refs' = Refs \cup {<<m.region, k>>}
    BY <1>1, <1>7, <1>8 DEF Refs
  <2>2. Coming = Coming' \cup {<<m.region, k>>}
    BY <1>2, <1>3 DEF Coming, k
  <2>3. Refs' \cup Coming' = Refs \cup Coming
    BY <2>1, <2>2
  <2> QED
    BY <1>1, <2>3 DEF IInv, RegionInv
<1> QED
  BY <1>1, <1>9, <1>10, <1>11, <1>12, <1>13, <1>14, <1>15, <1>16, <1>17, <1>18 DEF IInv

(* A committed block: the server indexes it, the client keeps the memory.  *)
LEMMA OnCommitStep ==
  ASSUME IInv, NEW m, OnCommit(m)
  PROVE  IInv'
<1> DEFINE k == MKey(m)
<1>1. /\ m.type = "COMMIT" /\ Receive(m) /\ Retrieve(m, FALSE, TRUE)
      /\ crashed' = (GetBlock(serverBlocks, m.var, m.iter, m.id) # {})
      /\ UNCHANGED <<clientIter, errorOccured, begun, clientBlocks, serverIter, free>>
  BY DEF OnCommit, clientVars
<1>2. /\ chan' \in Seq(Messages)
      /\ 1 \in Places /\ chan[1] = m
      /\ \A i \in Places' : i + 1 \in Places /\ chan'[i] = chan[i + 1]
      /\ \A i \in Places : i = 1 \/ (i - 1 \in Places' /\ chan'[i - 1] = chan[i])
      /\ NEnds(chan) = NEnds(chan') + One(m) /\ NEnds(chan') \in Nat
  BY <1>1, ReceiveLemma
<1>3. Carries(m) /\ ~ Clears(m) /\ One(m) = 0
  BY <1>1 DEF Carries, Clears, One, IsEnd
<1>4. /\ m.var \in Vars /\ m.iter \in 0 .. MaxIter /\ m.id \in Domains /\ m.region \in Regions
      /\ k = <<m.var, IndexIter(m.var, m.iter), m.id>> /\ k \in begun
  BY <1>2, <1>3, MessageLemma DEF IInv, MessagesInv
<1>5. \A s \in serverBlocks : Key(s) # k
  BY <1>1, <1>2 DEF IInv, CommitInv
<1>6. \/ \E b \in clientBlocks : Key(b) = k /\ b.readOnly /\ b.region = m.region
      \/ \E j \in Places : j > 1 /\ Clears(chan[j]) /\ MKey(chan[j]) = k
  BY <1>1, <1>2 DEF IInv, CommitInv
<1>7. PICK c : c = Block(m.var, m.iter, m.id, m.region, FALSE, TRUE)
  OBVIOUS
<1>8. c \in Blocks /\ Key(c) = k /\ c.region = m.region /\ ~ c.owner /\ c.readOnly
  <2>1. c \in Blocks
    BY <1>4, <1>7, IndexLemma DEF Block, Blocks
  <2>2. Key(c) = <<m.var, IndexIter(m.var, m.iter), m.id>> /\ c.region = m.region
    BY <1>7 DEF Block, Key
  <2>3. ~ c.owner /\ c.readOnly
    BY <1>7 DEF Block
  <2> QED
    BY <1>4, <2>1, <2>2, <2>3
<1>9. GetBlock(serverBlocks, m.var, m.iter, m.id) = {}
  BY <1>4, <1>5, FindLemma
<1>10. serverBlocks' = serverBlocks \cup {c} /\ ~ crashed' /\ crashed' \in BOOLEAN
  BY <1>1, <1>7, <1>9 DEF Retrieve
<1>11. /\ MessagesInv'
       /\ \A i, j \in Places' : MKey(chan'[i]) = MKey(chan'[j]) =>
            /\ Carries(chan'[i]) /\ Carries(chan'[j]) => i = j
            /\ Clears(chan'[i]) /\ Clears(chan'[j]) => i = j
       /\ \A i \in Places' : Carries(chan'[i]) => MKey(chan'[i]) # k
  BY <1>1, <1>3, BehindLemma
<1> HIDE DEF k
<1>12. TypeOK'
  BY <1>1, <1>2, <1>8, <1>10 DEF IInv, TypeOK
<1>13. IterInv'
  BY <1>1, <1>2, <1>3 DEF IInv, IterInv
<1>14. UniqueInv'
  BY <1>1, <1>4, <1>5, <1>8, <1>10, <1>11 DEF IInv, UniqueInv
<1>15. WriteInv'
  <2>1. ASSUME NEW i \in Places', chan'[i].type = "WRITE"
        PROVE  /\ \A b \in clientBlocks \cup serverBlocks : Key(b) # MKey(chan'[i])
               /\ \A j \in Places' : Clears(chan'[j]) => MKey(chan'[j]) # MKey(chan'[i])
               /\ MKey(chan'[i]) # k
    BY <1>2, <1>11, <2>1 DEF IInv, WriteInv, Carries
  <2> QED
    BY <1>1, <1>8, <1>10, <2>1 DEF WriteInv
<1>16. CommitInv'
  <2>1. ASSUME NEW i \in Places', chan'[i].type = "COMMIT"
        PROVE  /\ \A s \in serverBlocks' : Key(s) # MKey(chan'[i])
               /\ \/ \E b \in clientBlocks :
                       Key(b) = MKey(chan'[i]) /\ b.readOnly /\ b.region = chan'[i].region
                  \/ \E j \in Places' : j > i /\ Clears(chan'[j])
                                        /\ MKey(chan'[j]) = MKey(chan'[i])
    <3>1. i + 1 \in Places /\ chan'[i] = chan[i + 1] /\ i \in Nat \ {0}
      BY <1>2 DEF Places, IInv, TypeOK
    <3>2. \A s \in serverBlocks' : Key(s) # MKey(chan'[i])
      BY <1>8, <1>10, <1>11, <2>1, <3>1 DEF IInv, CommitInv, Carries
    <3>3. ASSUME NEW j \in Places, j > i + 1
          PROVE  j - 1 \in Places' /\ chan'[j - 1] = chan[j] /\ j - 1 > i
      BY <1>1, <3>3, PlacesLemma
    <3>4. \/ \E b \in clientBlocks :
               Key(b) = MKey(chan'[i]) /\ b.readOnly /\ b.region = chan'[i].region
          \/ \E j \in Places : j > i + 1 /\ Clears(chan[j]) /\ MKey(chan[j]) = MKey(chan'[i])
      BY <2>1, <3>1 DEF IInv, CommitInv
    <3> QED
      BY <3>2, <3>3, <3>4
  <2> QED
    BY <1>1, <2>1 DEF CommitInv
<1>17. ClearInv'
  <2>1. ASSUME NEW i \in Places', Clears(chan'[i])
        PROVE  /\ \A b \in clientBlocks : Key(b) # MKey(chan'[i])
               /\ \/ \E s \in serverBlocks' : Key(s) = MKey(chan'[i]) /\ ~ s.owner
                  \/ \E j \in Places' : j < i /\ chan'[j].type = "COMMIT"
                                        /\ MKey(chan'[j]) = MKey(chan'[i])
    <3>1. i + 1 \in Places /\ chan'[i] = chan[i + 1] /\ i \in Nat \ {0}
      BY <1>2 DEF Places, IInv, TypeOK
    <3>2. ASSUME NEW j \in Places, j < i + 1, j # 1
          PROVE  j - 1 \in Places' /\ chan'[j - 1] = chan[j] /\ j - 1 < i
      BY <1>1, <3>2, PlacesLemma
    <3>3. /\ \A b \in clientBlocks : Key(b) # MKey(chan'[i])
          /\ \/ \E s \in serverBlocks : Key(s) = MKey(chan'[i]) /\ ~ s.owner
             \/ \E j \in Places : j < i + 1 /\ chan[j].type = "COMMIT"
                                  /\ MKey(chan[j]) = MKey(chan'[i])
      BY <2>1, <3>1 DEF IInv, ClearInv
    <3>4. ASSUME MKey(chan[1]) = MKey(chan'[i])
          PROVE  \E s \in serverBlocks' : Key(s) = MKey(chan'[i]) /\ ~ s.owner
      BY <1>2, <1>8, <1>10, <3>4 DEF k
    <3> QED
      BY <1>10, <3>2, <3>3, <3>4
  <2> QED
    BY <1>1, <2>1 DEF ClearInv
<1>18. ClientInv'
  <2>1. \A i \in Places : i # 1 => i - 1 \in Places' /\ chan'[i - 1] = chan[i]
    BY <1>2
  <2>2. ASSUME NEW b \in clientBlocks
        PROVE  /\ ~ b.readOnly =>
                    /\ \A s \in serverBlocks' : Key(s) # Key(b)
                    /\ \A i \in Places' : Carries(chan'[i]) => Key(b) # MKey(chan'[i])
               /\ b.readOnly /\ (b.var \in TimeVarying => b.iter = clientIter) =>
                    \/ \E s \in serverBlocks' : Key(s) = Key(b)
                    \/ \E i \in Places' : chan'[i].type = "COMMIT" /\ Key(b) = MKey(chan'[i])
    <3>1. CASE ~ b.readOnly
      BY <1>2, <1>3, <1>8, <1>10, <3>1 DEF IInv, ClientInv, k
    <3>2. CASE b.readOnly
      BY <1>2, <1>8, <1>10, <2>1, <3>2 DEF IInv, ClientInv, k
    <3> QED
      BY <3>1, <3>2
  <2> QED
    BY <1>1, <2>2 DEF ClientInv
<1>19. ServerInv'
  <2>1. \A i \in Places : Clears(chan[i]) => i - 1 \in Places' /\ chan'[i - 1] = chan[i]
    BY <1>2, <1>3
  <2>2. \/ \E b \in clientBlocks : Key(b) = Key(c) /\ b.region = c.region
        \/ \E i \in Places' : Clears(chan'[i]) /\ Key(c) = MKey(chan'[i])
    BY <1>6, <1>8, <2>1
  <2>3. ASSUME NEW s \in serverBlocks
        PROVE  /\ s.owner => \A b \in clientBlocks : Key(s) # Key(b)
               /\ ~ s.owner =>
                    \/ \E b \in clientBlocks : Key(b) = Key(s) /\ b.region = s.region
                    \/ \E i \in Places' : Clears(chan'[i]) /\ Key(s) = MKey(chan'[i])
    BY <2>1 DEF IInv, ServerInv
  <2> QED
    BY <1>1, <1>8, <1>10, <2>2, <2>3 DEF ServerInv
<1>20. RegionInv'
  <2>1. Refs' = Refs \cup {<<m.region, k>>}
    BY <1>1, <1>8, <1>10 DEF Refs
  <2>2. Coming = Coming' \cup {<<m.region, k>>}
    BY <1>2, <1>3 DEF Coming, k
  <2>3. Refs' \cup Coming' = Refs \cup Coming
    BY <2>1, <2>2
  <2> QED
    BY <1>1, <2>3 DEF IInv, RegionInv
<1> QED
  BY <1>10, <1>11, <1>12, <1>13, <1>14, <1>15, <1>16, <1>17, <1>18, <1>19, <1>20 DEF IInv

(* A block is cleared: the server has it, and is now responsible for it.   *)
LEMMA OnClearStep ==
  ASSUME IInv, NEW m, OnClear(m)
  PROVE  IInv'
<1> DEFINE k == MKey(m)
           found == GetBlock(serverBlocks, m.var, m.iter, m.id)
<1>1. /\ m.type = "CLEAR" /\ Receive(m)
      /\ serverBlocks' = (serverBlocks \ found) \cup
                           {[b EXCEPT !.owner = TRUE, !.readOnly = FALSE] : b \in found}
      /\ crashed' = (found = {})
      /\ UNCHANGED <<clientIter, errorOccured, begun, clientBlocks, serverIter, free>>
  BY DEF OnClear, clientVars
<1>2. /\ chan' \in Seq(Messages)
      /\ 1 \in Places /\ chan[1] = m
      /\ \A i \in Places' : i + 1 \in Places /\ chan'[i] = chan[i + 1]
      /\ \A i \in Places : i = 1 \/ (i - 1 \in Places' /\ chan'[i - 1] = chan[i])
      /\ NEnds(chan) = NEnds(chan') + One(m) /\ NEnds(chan') \in Nat
  BY <1>1, ReceiveLemma
<1>3. Clears(m) /\ ~ Carries(m) /\ One(m) = 0
  BY <1>1 DEF Carries, Clears, One, IsEnd
<1>4. k = <<m.var, IndexIter(m.var, m.iter), m.id>>
  BY DEF MKey
<1>5. /\ \A b \in clientBlocks : Key(b) # k
      /\ \/ \E s \in serverBlocks : Key(s) = k /\ ~ s.owner
         \/ \E j \in Places : j < 1 /\ chan[j].type = "COMMIT" /\ MKey(chan[j]) = k
  BY <1>2, <1>3 DEF IInv, ClearInv
<1>6. PICK s \in serverBlocks : Key(s) = k /\ ~ s.owner
  BY <1>5 DEF Places, IInv, TypeOK
<1>7. \A x \in serverBlocks : Key(x) = k => x = s
  BY <1>6 DEF IInv, UniqueInv
<1>8. found = {s}
  BY <1>4, <1>6, <1>7, FindLemma
<1>9. PICK c : c = [s EXCEPT !.owner = TRUE, !.readOnly = FALSE]
  OBVIOUS
<1>10. c \in Blocks /\ Key(c) = k /\ c.region = s.region /\ c.owner
  BY <1>6, <1>9 DEF IInv, TypeOK, Blocks, Key
<1>11. serverBlocks' = (serverBlocks \ {s}) \cup {c} /\ ~ crashed' /\ crashed' \in BOOLEAN
  BY <1>1, <1>8, <1>9
<1>12. /\ MessagesInv'
       /\ \A i, j \in Places' : MKey(chan'[i]) = MKey(chan'[j]) =>
            /\ Carries(chan'[i]) /\ Carries(chan'[j]) => i = j
            /\ Clears(chan'[i]) /\ Clears(chan'[j]) => i = j
       /\ \A i \in Places' : Clears(chan'[i]) => MKey(chan'[i]) # k
  BY <1>1, <1>3, BehindLemma
<1> HIDE DEF k, found
<1>13. \A x \in serverBlocks' : \E y \in serverBlocks : Key(y) = Key(x)
  BY <1>6, <1>10, <1>11
<1>14. \A x \in serverBlocks : Key(x) # k => x \in serverBlocks'
  BY <1>6, <1>11
<1>15. \A x \in serverBlocks' : x = c \/ (x \in serverBlocks /\ Key(x) # k)
  BY <1>7, <1>11
<1>16. TypeOK'
  BY <1>1, <1>2, <1>10, <1>11 DEF IInv, TypeOK
<1>17. IterInv'
  <2>1. NEnds(chan') = NEnds(chan)
    BY <1>2, <1>3
  <2> QED
    BY <1>1, <2>1 DEF IInv, IterInv
<1>18. UniqueInv'
  <2>1. \A b \in clientBlocks' \cup serverBlocks' : Key(b) \in begun'
    BY <1>1, <1>13 DEF IInv, UniqueInv
  <2>2. \A x, y \in serverBlocks' : Key(x) = Key(y) => x = y
    BY <1>10, <1>15 DEF IInv, UniqueInv
  <2> QED
    BY <1>1, <1>12, <2>1, <2>2 DEF IInv, UniqueInv
<1>19. WriteInv'
  <2>1. ASSUME NEW i \in Places', chan'[i].type = "WRITE"
        PROVE  /\ \A b \in clientBlocks \cup serverBlocks : Key(b) # MKey(chan'[i])
               /\ \A j \in Places' : Clears(chan'[j]) => MKey(chan'[j]) # MKey(chan'[i])
    BY <1>2, <2>1 DEF IInv, WriteInv
  <2> QED
    BY <1>1, <1>13, <2>1 DEF WriteInv
<1>20. CommitInv'
  <2>1. ASSUME NEW i \in Places', chan'[i].type = "COMMIT"
        PROVE  /\ \A x \in serverBlocks' : Key(x) # MKey(chan'[i])
               /\ \/ \E b \in clientBlocks :
                       Key(b) = MKey(chan'[i]) /\ b.readOnly /\ b.region = chan'[i].region
                  \/ \E j \in Places' : j > i /\ Clears(chan'[j])
                                        /\ MKey(chan'[j]) = MKey(chan'[i])
    <3>1. i + 1 \in Places /\ chan'[i] = chan[i + 1] /\ i \in Nat \ {0}
      BY <1>2 DEF Places, IInv, TypeOK
    <3>2. \A x \in serverBlocks' : Key(x) # MKey(chan'[i])
      BY <1>13, <2>1, <3>1 DEF IInv, CommitInv
    <3>3. ASSUME NEW j \in Places, j > i + 1
          PROVE  j - 1 \in Places' /\ chan'[j - 1] = chan[j] /\ j - 1 > i
      BY <1>1, <3>3, PlacesLemma
    <3>4. \/ \E b \in clientBlocks :
               Key(b) = MKey(chan'[i]) /\ b.readOnly /\ b.region = chan'[i].region
          \/ \E j \in Places : j > i + 1 /\ Clears(chan[j]) /\ MKey(chan[j]) = MKey(chan'[i])
      BY <2>1, <3>1 DEF IInv, CommitInv
    <3> QED
      BY <3>2, <3>3, <3>4
  <2> QED
    BY <1>1, <2>1 DEF CommitInv
<1>21. ClearInv'
  <2>1. ASSUME NEW i \in Places', Clears(chan'[i])
        PROVE  /\ \A b \in clientBlocks : Key(b) # MKey(chan'[i])
               /\ \/ \E x \in serverBlocks' : Key(x) = MKey(chan'[i]) /\ ~ x.owner
                  \/ \E j \in Places' : j < i /\ chan'[j].type = "COMMIT"
                                        /\ MKey(chan'[j]) = MKey(chan'[i])
    <3>1. i + 1 \in Places /\ chan'[i] = chan[i + 1] /\ i \in Nat \ {0}
      BY <1>2 DEF Places, IInv, TypeOK
    <3>2. ASSUME NEW j \in Places, j < i + 1, chan[j].type = "COMMIT"
          PROVE  j - 1 \in Places' /\ chan'[j - 1] = chan[j] /\ j - 1 < i
      <4>1. j # 1
        BY <1>1, <1>2, <3>2
      <4> QED
        BY <1>1, <3>2, <4>1, PlacesLemma
    <3>3. /\ \A b \in clientBlocks : Key(b) # MKey(chan'[i])
          /\ \/ \E x \in serverBlocks : Key(x) = MKey(chan'[i]) /\ ~ x.owner
             \/ \E j \in Places : j < i + 1 /\ chan[j].type = "COMMIT"
                                  /\ MKey(chan[j]) = MKey(chan'[i])
      BY <2>1, <3>1 DEF IInv, ClearInv
    <3> QED
      BY <1>12, <1>14, <2>1, <3>2, <3>3
  <2> QED
    BY <1>1, <2>1 DEF ClearInv
<1>22. ClientInv'
  <2>1. \A i \in Places : chan[i].type = "COMMIT" => i - 1 \in Places' /\ chan'[i - 1] = chan[i]
    BY <1>1, <1>2
  <2>2. ASSUME NEW b \in clientBlocks
        PROVE  /\ ~ b.readOnly =>
                    /\ \A x \in serverBlocks' : Key(x) # Key(b)
                    /\ \A i \in Places' : Carries(chan'[i]) => Key(b) # MKey(chan'[i])
               /\ b.readOnly /\ (b.var \in TimeVarying => b.iter = clientIter) =>
                    \/ \E x \in serverBlocks' : Key(x) = Key(b)
                    \/ \E i \in Places' : chan'[i].type = "COMMIT" /\ Key(b) = MKey(chan'[i])
    <3>1. CASE ~ b.readOnly
      BY <1>2, <1>13, <3>1 DEF IInv, ClientInv
    <3>2. CASE b.readOnly
      BY <1>5, <1>14, <2>1, <3>2 DEF IInv, ClientInv
    <3> QED
      BY <3>1, <3>2
  <2> QED
    BY <1>1, <2>2 DEF ClientInv
<1>23. ServerInv'
  <2>1. ASSUME NEW x \in serverBlocks, Key(x) # k
        PROVE  /\ x.owner => \A b \in clientBlocks : Key(x) # Key(b)
               /\ ~ x.owner =>
                    \/ \E b \in clientBlocks : Key(b) = Key(x) /\ b.region = x.region
                    \/ \E i \in Places' : Clears(chan'[i]) /\ Key(x) = MKey(chan'[i])
    <3>1. ASSUME NEW i \in Places, Key(x) = MKey(chan[i])
          PROVE  i - 1 \in Places' /\ chan'[i - 1] = chan[i]
      BY <1>2, <2>1, <3>1 DEF k
    <3> QED
      BY <3>1 DEF IInv, ServerInv
  <2> QED
    BY <1>1, <1>5, <1>10, <1>15, <2>1 DEF ServerInv
<1>24. RegionInv'
  <2>1. Refs' = Refs
    BY <1>1, <1>6, <1>10, <1>11 DEF Refs
  <2>2. Coming' = Coming
    BY <1>2, <1>3 DEF Coming
  <2> QED
    BY <1>1, <2>1, <2>2 DEF IInv, RegionInv
<1> QED
  BY <1>11, <1>12, <1>16, <1>17, <1>18, <1>19, <1>20, <1>21, <1>22, <1>23, <1>24 DEF IInv

(* The server ends an iteration, and erases some blocks of the iterations  *)
(* it has seen the end of: no message behind is about one of them.         *)
LEMMA EndStep ==
  ASSUME IInv, NEW m, Receive(m), IsEnd(m),
         serverIter' = serverIter + 1,
         UNCHANGED <<clientIter, errorOccured, begun, clientBlocks, crashed>>,
         NEW old \in SUBSET {b \in serverBlocks : b.var \in TimeVarying /\ b.iter <= serverIter},
         serverBlocks' = serverBlocks \ old,
         free' = free \cup {b.region : b \in {o \in old : o.owner}}
  PROVE  IInv'
<1>1. /\ chan' \in Seq(Messages)
      /\ 1 \in Places /\ chan[1] = m
      /\ \A i \in Places' : i + 1 \in Places /\ chan'[i] = chan[i + 1]
      /\ \A i \in Places : i = 1 \/ (i - 1 \in Places' /\ chan'[i - 1] = chan[i])
      /\ \A i \in Places' : NAfter(chan', i) \in Nat /\ NAfter(chan', i) <= NEnds(chan')
      /\ NEnds(chan) = NEnds(chan') + One(m) /\ NEnds(chan') \in Nat
  BY ReceiveLemma
<1>2. ~ Carries(m) /\ ~ Clears(m) /\ One(m) = 1
  BY DEF Carries, Clears, One, IsEnd
<1>3. /\ clientIter \in 0 .. MaxIter /\ serverIter \in 0 .. MaxIter /\ MaxIter \in Nat
      /\ serverIter + 1 = clientIter - NEnds(chan')
  BY <1>1, <1>2, LifecycleOK DEF IInv, TypeOK, IterInv
<1>4. /\ MessagesInv'
      /\ \A i, j \in Places' : MKey(chan'[i]) = MKey(chan'[j]) =>
           /\ Carries(chan'[i]) /\ Carries(chan'[j]) => i = j
           /\ Clears(chan'[i]) /\ Clears(chan'[j]) => i = j
  BY BehindLemma
<1>5. ASSUME NEW i \in Places', Carries(chan'[i]) \/ Clears(chan'[i]), NEW s \in old
      PROVE  MKey(chan'[i]) # Key(s)
  <2>1. chan'[i].iter = clientIter - NAfter(chan', i)
    BY <1>4, <1>5 DEF MessagesInv
  <2>2. chan'[i].iter > serverIter
    BY <1>1, <1>3, <2>1
  <2>3. s.var \in TimeVarying /\ s.iter <= serverIter /\ s.iter \in Nat
    BY DEF IInv, TypeOK, Blocks
  <2>4. MKey(chan'[i]) = Key(s) => s.iter = chan'[i].iter
    BY <2>3 DEF MKey, Key, IndexIter
  <2> QED
    BY <1>1, <1>3, <2>1, <2>2, <2>3, <2>4
<1>6. ASSUME NEW b \in clientBlocks, b.var \in TimeVarying => b.iter = clientIter, NEW s \in old
      PROVE  Key(b) # Key(s)
  <2>1. s.var \in TimeVarying /\ s.iter <= serverIter /\ s.iter \in Nat
    BY DEF IInv, TypeOK, Blocks
  <2>2. Key(b) = Key(s) => b.var = s.var /\ b.iter = s.iter
    BY DEF Key
  <2> QED
    BY <1>1, <1>3, <1>6, <2>1, <2>2
<1>7. \A i \in Places : Carries(chan[i]) \/ Clears(chan[i])
        => i - 1 \in Places' /\ chan'[i - 1] = chan[i]
  BY <1>1, <1>2
<1>8. serverBlocks' \subseteq serverBlocks
  OBVIOUS
<1>9. TypeOK'
  <2>1. free' \subseteq Regions
    BY DEF IInv, TypeOK, Blocks
  <2>2. serverIter' \in 0 .. MaxIter
    BY <1>1, <1>3
  <2> QED
    BY <1>1, <1>8, <2>1, <2>2 DEF IInv, TypeOK
<1>10. IterInv'
  BY <1>3 DEF IterInv
<1>11. UniqueInv'
  BY <1>4, <1>8 DEF IInv, UniqueInv
<1>12. WriteInv'
  <2>1. ASSUME NEW i \in Places', chan'[i].type = "WRITE"
        PROVE  /\ \A b \in clientBlocks \cup serverBlocks : Key(b) # MKey(chan'[i])
               /\ \A j \in Places' : Clears(chan'[j]) => MKey(chan'[j]) # MKey(chan'[i])
    BY <1>1, <2>1 DEF IInv, WriteInv
  <2> QED
    BY <1>8, <2>1 DEF WriteInv
<1>13. CommitInv'
  <2>1. ASSUME NEW i \in Places', chan'[i].type = "COMMIT"
        PROVE  /\ \A s \in serverBlocks : Key(s) # MKey(chan'[i])
               /\ \/ \E b \in clientBlocks :
                       Key(b) = MKey(chan'[i]) /\ b.readOnly /\ b.region = chan'[i].region
                  \/ \E j \in Places' : j > i /\ Clears(chan'[j])
                                        /\ MKey(chan'[j]) = MKey(chan'[i])
    <3>1. i + 1 \in Places /\ chan'[i] = chan[i + 1] /\ i \in Nat \ {0}
      BY <1>1 DEF Places, IInv, TypeOK
    <3>2. ASSUME NEW j \in Places, j > i + 1
          PROVE  j - 1 \in Places' /\ chan'[j - 1] = chan[j] /\ j - 1 > i
      BY <3>2, PlacesLemma
    <3>3. \A s \in serverBlocks : Key(s) # MKey(chan'[i])
      BY <2>1, <3>1 DEF IInv, CommitInv
    <3>4. \/ \E b \in clientBlocks :
               Key(b) = MKey(chan'[i]) /\ b.readOnly /\ b.region = chan'[i].region
          \/ \E j \in Places : j > i + 1 /\ Clears(chan[j]) /\ MKey(chan[j]) = MKey(chan'[i])
      BY <2>1, <3>1 DEF IInv, CommitInv
    <3> QED
      BY <3>2, <3>3, <3>4
  <2> QED
    BY <1>8, <2>1 DEF CommitInv
<1>14. ClearInv'
  <2>1. ASSUME NEW i \in Places', Clears(chan'[i])
        PROVE  /\ \A b \in clientBlocks : Key(b) # MKey(chan'[i])
               /\ \/ \E s \in serverBlocks' : Key(s) = MKey(chan'[i]) /\ ~ s.owner
                  \/ \E j \in Places' : j < i /\ chan'[j].type = "COMMIT"
                                        /\ MKey(chan'[j]) = MKey(chan'[i])
    <3>1. i + 1 \in Places /\ chan'[i] = chan[i + 1] /\ i \in Nat \ {0}
      BY <1>1 DEF Places, IInv, TypeOK
    <3>2. ASSUME NEW j \in Places, j < i + 1, chan[j].type = "COMMIT"
          PROVE  j - 1 \in Places' /\ chan'[j - 1] = chan[j] /\ j - 1 < i
      <4>1. j # 1
        BY <1>1, <1>2, <3>2 DEF Carries
      <4> QED
        BY <3>2, <4>1, PlacesLemma
    <3>3. /\ \A b \in clientBlocks : Key(b) # MKey(chan'[i])
          /\ \/ \E s \in serverBlocks : Key(s) = MKey(chan'[i]) /\ ~ s.owner
             \/ \E j \in Places : j < i + 1 /\ chan[j].type = "COMMIT"
                                  /\ MKey(chan[j]) = MKey(chan'[i])
      BY <2>1, <3>1 DEF IInv, ClearInv
    <3>4. \A s \in serverBlocks : Key(s) = MKey(chan'[i]) => s \in serverBlocks'
      BY <1>5, <2>1
    <3> QED
      BY <3>2, <3>3, <3>4
  <2> QED
    BY <2>1 DEF ClearInv
<1>15. ClientInv'
  <2>1. ASSUME NEW b \in clientBlocks
        PROVE  /\ ~ b.readOnly =>
                    /\ \A s \in serverBlocks' : Key(s) # Key(b)
                    /\ \A i \in Places' : Carries(chan'[i]) => Key(b) # MKey(chan'[i])
               /\ b.readOnly /\ (b.var \in TimeVarying => b.iter = clientIter) =>
                    \/ \E s \in serverBlocks' : Key(s) = Key(b)
                    \/ \E i \in Places' : chan'[i].type = "COMMIT" /\ Key(b) = MKey(chan'[i])
    <3>1. CASE ~ b.readOnly
      BY <1>1, <1>8, <3>1 DEF IInv, ClientInv
    <3>2. ASSUME b.readOnly, b.var \in TimeVarying => b.iter = clientIter
          PROVE  \/ \E s \in serverBlocks' : Key(s) = Key(b)
                 \/ \E i \in Places' : chan'[i].type = "COMMIT" /\ Key(b) = MKey(chan'[i])
      <4>1. \/ \E s \in serverBlocks : Key(s) = Key(b)
            \/ \E i \in Places : chan[i].type = "COMMIT" /\ Key(b) = MKey(chan[i])
        BY <3>2 DEF IInv, ClientInv
      <4>2. \A s \in serverBlocks : Key(s) = Key(b) => s \in serverBlocks'
        BY <1>6, <3>2
      <4> QED
        BY <1>7, <4>1, <4>2 DEF Carries
    <3> QED
      BY <3>1, <3>2
  <2> QED
    BY <2>1 DEF ClientInv
<1>16. ServerInv'
  BY <1>7, <1>8 DEF IInv, ServerInv
<1>17. RegionInv'
  <2>1. Coming' = Coming
    BY <1>1, <1>2 DEF Coming
  <2>2. \A x \in Refs \cup Coming : x \in Refs' \cup Coming' \/ \E s \in old : x = <<s.region, Key(s)>>
    BY <2>1 DEF Refs
  <2>3. Refs' \cup Coming' \subseteq Refs \cup Coming
    BY <1>8, <2>1 DEF Refs
  <2>4. ASSUME NEW s \in old, s.owner, NEW x \in Refs' \cup Coming'
        PROVE  x[1] # s.region
    <3>1. <<s.region, Key(s)>> \in Refs
      BY DEF Refs
    <3>2. x[1] = s.region => x[2] = Key(s)
      BY <2>3, <3>1 DEF IInv, RegionInv, RegionsOK
    <3>3. \A b \in clientBlocks : Key(b) # Key(s)
      BY <2>4 DEF IInv, ServerInv
    <3>4. \A t \in serverBlocks' : Key(t) # Key(s)
      BY <1>8 DEF IInv, UniqueInv
    <3>5. \A i \in Places' : Carries(chan'[i]) => MKey(chan'[i]) # Key(s)
      BY <1>5
    <3>6. x[2] # Key(s)
      BY <3>3, <3>4, <3>5 DEF Refs, Coming
    <3> QED
      BY <3>2, <3>6
  <2>5. \A x \in Refs' \cup Coming' : x[1] \notin free'
    BY <2>3, <2>4 DEF IInv, RegionInv, RegionsOK
  <2>6. \A x, y \in Refs' \cup Coming' : x[1] = y[1] => x[2] = y[2]
    BY <2>3 DEF IInv, RegionInv, RegionsOK
  <2>7. ASSUME NEW s \in old, ~ s.owner
        PROVE  <<s.region, Key(s)>> \in Refs' \cup Coming'
    <3>1. PICK b \in clientBlocks : Key(b) = Key(s) /\ b.region = s.region
      BY <1>5, <1>7, <2>7 DEF IInv, ServerInv
    <3> QED
      BY <3>1 DEF Refs
  <2>8. ASSUME NEW r \in Regions \ free'
        PROVE  \E x \in Refs' \cup Coming' : x[1] = r
    <3>1. PICK x \in Refs \cup Coming : x[1] = r
      BY DEF IInv, RegionInv, RegionsOK
    <3>2. CASE x \in Refs' \cup Coming'
      BY <3>1, <3>2
    <3>3. CASE \E s \in old : x = <<s.region, Key(s)>>
      <4>1. PICK s \in old : x = <<s.region, Key(s)>>
        BY <3>3
      <4>2. ~ s.owner
        BY <3>1, <4>1
      <4> QED
        BY <2>7, <3>1, <4>1, <4>2
    <3> QED
      BY <2>2, <3>2, <3>3
  <2> QED
    BY <2>5, <2>6, <2>8 DEF RegionInv, RegionsOK
<1> QED
  BY <1>4, <1>9, <1>10, <1>11, <1>12, <1>13, <1>14, <1>15, <1>16, <1>17 DEF IInv

(* Both ends of an iteration: with the collector, and without.             *)
LEMMA OnNextIterationStep ==
  ASSUME IInv, NEW m, OnNextIteration(m) \/ OnNextIterationWithErrors(m)
  PROVE  IInv'
<1>1. /\ IsEnd(m) /\ Receive(m)
      /\ serverIter' = serverIter + 1
      /\ CollectUpTo(serverIter) \/ UNCHANGED <<serverBlocks, free>>
      /\ UNCHANGED <<clientIter, errorOccured, begun, clientBlocks, crashed>>
  BY DEF OnNextIteration, OnNextIterationWithErrors, IsEnd, clientVars
<1> DEFINE past == {b \in serverBlocks : b.var \in TimeVarying /\ b.iter <= serverIter}
<1>2. CASE CollectUpTo(serverIter)
  <2>1. /\ serverBlocks' = serverBlocks \ past
        /\ free' = free \cup {b.region : b \in {o \in past : o.owner}}
    BY <1>2 DEF CollectUpTo
  <2> QED
    BY <1>1, <2>1, EndStep
<1>3. CASE UNCHANGED <<serverBlocks, free>>
  <2>1. /\ serverBlocks' = serverBlocks \ {}
        /\ free' = free \cup {b.region : b \in {o \in {} : o.owner}}
    BY <1>3
  <2>2. {} \in SUBSET past
    OBVIOUS
  <2> QED
    BY <1>1, <2>1, <2>2, EndStep
<1> QED
  BY <1>1, <1>2, <1>3

(* The invariant is inductive.                                             *)
LEMMA IInvStep ==
  ASSUME ~ AnyIteration, IInv, [Next]_vars
  PROVE  IInv'
<1>1. CASE \E v \in Vars, d \in Domains : Write(v, d)
  BY <1>1, WriteStep
<1>2. CASE \E v \in Vars, d \in Domains : WriteFails(v, d)
  BY <1>2, WriteFailsStep
<1>3. CASE \E v \in Vars, d \in Domains : Alloc(v, d)
  BY <1>3, AllocStep
<1>4. CASE \E v \in Vars, k \in 0..MaxIter, d \in Domains : Commit(v, k, d)
  BY <1>4, CommitStep
<1>5. CASE \E v \in Vars, k \in 0..MaxIter, d \in Domains : Clear(v, k, d)
  BY <1>5, ClearStep
<1>6. CASE EndIteration
  BY <1>6, EndIterationStep
<1>7. CASE ServerNext
  BY <1>7, OnWriteStep, OnCommitStep, OnClearStep, OnNextIterationStep DEF ServerNext
<1>8. CASE UNCHANGED vars
  <2>1. UNCHANGED <<clientIter, errorOccured, begun, clientBlocks, chan, serverIter,
                    serverBlocks, free, crashed>>
    BY <1>8 DEF vars, clientVars
  <2> QED
    BY <2>1 DEF IInv, TypeOK, MessagesInv, IterInv, UniqueInv, WriteInv, CommitInv, ClearInv,
       ClientInv, ServerInv, RegionInv, Refs, Coming, Places
<1> QED
  BY <1>1, <1>2, <1>3, <1>4, <1>5, <1>6, <1>7, <1>8 DEF Next, ClientNext
----------------------------------------------------------------------------
(* What the client has not committed it owns.                              *)
OwnerInv == \A b \in clientBlocks : b.owner \/ b.readOnly

LEMMA OwnerStep ==
  ASSUME IInv, OwnerInv, [Next]_vars
  PROVE  OwnerInv'
<1>1. ASSUME NEW v \in Vars, NEW d \in Domains, Alloc(v, d)
      PROVE  OwnerInv'
  <2>1. PICK r \in free :
          clientBlocks' = clientBlocks \cup {Block(v, clientIter, d, r, TRUE, FALSE)}
    BY <1>1 DEF Alloc
  <2>2. Block(v, clientIter, d, r, TRUE, FALSE).owner
    BY DEF Block
  <2> QED
    BY <2>1, <2>2 DEF OwnerInv
<1>2. ASSUME NEW v \in Vars, NEW k \in 0..MaxIter, NEW d \in Domains, Commit(v, k, d)
      PROVE  OwnerInv'
  <2>1. PICK b \in clientBlocks :
          clientBlocks' = (clientBlocks \ {b}) \cup
                            {[b EXCEPT !.readOnly = TRUE, !.owner = FALSE]}
    BY <1>2 DEF Commit, GetBlock
  <2>2. [b EXCEPT !.readOnly = TRUE, !.owner = FALSE].readOnly
    BY DEF IInv, TypeOK, Blocks
  <2> QED
    BY <2>1, <2>2 DEF OwnerInv
<1>3. ASSUME NEW v \in Vars, NEW k \in 0..MaxIter, NEW d \in Domains, Clear(v, k, d)
      PROVE  OwnerInv'
  BY <1>3 DEF Clear, OwnerInv
<1>4. ASSUME NEW v \in Vars, NEW d \in Domains, Write(v, d) \/ WriteFails(v, d)
      PROVE  OwnerInv'
  BY <1>4 DEF Write, WriteFails, OwnerInv
<1>5. CASE EndIteration
  BY <1>5 DEF EndIteration, OwnerInv
<1>6. CASE ServerNext
  BY <1>6 DEF ServerNext, OnWrite, OnCommit, OnClear, OnNextIteration,
     OnNextIterationWithErrors, OwnerInv
<1>7. CASE UNCHANGED vars
  BY <1>7 DEF vars, OwnerInv
<1> QED
  BY <1>1, <1>2, <1>3, <1>4, <1>5, <1>6, <1>7 DEF Next, ClientNext

(* What a client may still clear it has committed in this iteration.       *)
LEMMA MayClearLemma ==
  ASSUME ~ AnyIteration, NEW b, MayClear(b)
  PROVE  b.readOnly /\ (b.var \in TimeVarying => b.iter = clientIter)
  BY DEF MayClear, Named, IndexIter

(* What the invariant says of memory: each region in use has a block, and  *)
(* each block an owner, or a Clear that comes, or was left uncleared.      *)
LEMMA NoLeakLemma ==
  ASSUME ~ AnyIteration, IInv, OwnerInv
  PROVE  NoLeak
<1> SUFFICES ASSUME NEW r \in Regions, r \notin free, r \notin LeftUncleared
             PROVE  r \in Accounted
  BY DEF NoLeak
<1>1. \A i \in Places : chan[i] \in InFlight
  BY DEF InFlight, Places, IInv, TypeOK
<1>2. PICK x \in Refs \cup Coming : x[1] = r
  BY DEF IInv, RegionInv, RegionsOK
<1>3. ASSUME NEW i \in Places, Clears(chan[i]), NEW key, key = MKey(chan[i])
      PROVE  ClearComes(key)
  BY <1>1, <1>3 DEF ClearComes, Clears
<1>4. ASSUME NEW s \in serverBlocks, r = s.region, s.owner \/ ClearComes(Key(s))
      PROVE  r \in Accounted
  <2>1. CASE s.owner
    BY <1>4, <2>1 DEF Accounted
  <2>2. CASE ~ s.owner
    <3>1. <<s.region, Key(s)>> \in Committed
      BY <2>2 DEF Committed
    <3> QED
      BY <1>4, <2>2, <3>1 DEF Accounted
  <2> QED
    BY <2>1, <2>2
<1>5. ASSUME NEW i \in Places, chan[i].type = "COMMIT", r = chan[i].region,
             ClearComes(MKey(chan[i]))
      PROVE  r \in Accounted
  <2>1. <<chan[i].region, MKey(chan[i])>> \in Committed
    BY <1>1, <1>5 DEF Committed
  <2> QED
    BY <1>5, <2>1 DEF Accounted
<1>6. ASSUME NEW b \in clientBlocks, r = b.region
      PROVE  r \in Accounted
  <2>1. CASE ~ b.readOnly
    BY <1>6, <2>1 DEF OwnerInv, Accounted
  <2>2. CASE b.readOnly
    <3>1. MayClear(b)
      BY <1>6, <2>2 DEF LeftUncleared
    <3>2. ClearComes(Key(b))
      BY <3>1 DEF ClearComes
    <3>3. \A i \in Places : Clears(chan[i]) => Key(b) # MKey(chan[i])
      BY DEF IInv, ClearInv
    <3>4. CASE \E s \in serverBlocks : Key(s) = Key(b)
      <4>1. PICK s \in serverBlocks : Key(s) = Key(b)
        BY <3>4
      <4>2. ~ s.owner
        BY <4>1 DEF IInv, ServerInv
      <4>3. PICK c \in clientBlocks : Key(c) = Key(s) /\ c.region = s.region
        BY <3>3, <4>1, <4>2 DEF IInv, ServerInv
      <4>4. c = b
        BY <4>1, <4>3 DEF IInv, UniqueInv
      <4> QED
        BY <1>4, <1>6, <3>2, <4>1, <4>3, <4>4
    <3>5. CASE \E i \in Places : chan[i].type = "COMMIT" /\ Key(b) = MKey(chan[i])
      <4>1. PICK i \in Places : chan[i].type = "COMMIT" /\ Key(b) = MKey(chan[i])
        BY <3>5
      <4>2. PICK c \in clientBlocks : Key(c) = MKey(chan[i]) /\ c.region = chan[i].region
        BY <3>3, <4>1 DEF IInv, CommitInv
      <4>3. c = b
        BY <4>1, <4>2 DEF IInv, UniqueInv
      <4> QED
        BY <1>5, <1>6, <3>2, <4>1, <4>2, <4>3
    <3> QED
      BY <3>1, <3>4, <3>5, MayClearLemma DEF IInv, ClientInv
  <2> QED
    BY <2>1, <2>2
<1>7. ASSUME NEW s \in serverBlocks, r = s.region
      PROVE  r \in Accounted
  <2>1. CASE s.owner
    BY <1>4, <1>7, <2>1
  <2>2. CASE \E b \in clientBlocks : Key(b) = Key(s) /\ b.region = s.region
    BY <1>6, <1>7, <2>2
  <2>3. CASE \E i \in Places : Clears(chan[i]) /\ Key(s) = MKey(chan[i])
    BY <1>3, <1>4, <1>7, <2>3
  <2> QED
    BY <2>1, <2>2, <2>3 DEF IInv, ServerInv
<1>8. ASSUME NEW i \in Places, Carries(chan[i]), r = chan[i].region
      PROVE  r \in Accounted
  <2>1. CASE chan[i].type = "WRITE"
    BY <1>1, <1>8, <2>1 DEF Accounted
  <2>2. CASE chan[i].type = "COMMIT"
    <3>1. CASE \E b \in clientBlocks : b.region = chan[i].region
      BY <1>6, <1>8, <3>1
    <3>2. CASE \E j \in Places : Clears(chan[j]) /\ MKey(chan[j]) = MKey(chan[i])
      BY <1>3, <1>5, <1>8, <2>2, <3>2
    <3> QED
      BY <2>2, <3>1, <3>2 DEF IInv, CommitInv
  <2> QED
    BY <1>8, <2>1, <2>2 DEF Carries
<1> QED
  BY <1>2, <1>6, <1>7, <1>8 DEF Refs, Coming

(* The references of NoSharing are those of the invariant.                 *)
LEMMA NoSharingLemma == IInv => NoSharing
<1> SUFFICES ASSUME IInv PROVE NoSharing
  OBVIOUS
<1> DEFINE refs == {<<b.region, Key(b)>> : b \in clientBlocks \cup serverBlocks}
                   \cup {<<m.region, MKey(m)>> : m \in {n \in InFlight : n.region # NoRegion}}
<1>1. \A m \in InFlight : \E i \in Places : m = chan[i]
  BY DEF InFlight, Places, IInv, TypeOK
<1>2. \A i \in Places : chan[i].region # NoRegion => Carries(chan[i])
  BY DEF IInv, MessagesInv
<1>3. refs \subseteq Refs \cup Coming
  BY <1>1, <1>2 DEF Refs, Coming
<1>4. /\ \A x \in refs : x[1] \notin free
      /\ \A x, y \in refs : x[1] = y[1] => x[2] = y[2]
  BY <1>3 DEF IInv, RegionInv, RegionsOK
<1> QED
  BY <1>4 DEF NoSharing

(* The invariant holds always.                                             *)
LEMMA Invariant ==
  ASSUME ~ AnyIteration
  PROVE  Spec => []IInv
<1>1. Init => IInv
  BY IInvInit
<1>2. IInv /\ [Next]_vars => IInv'
  BY IInvStep
<1> QED
  BY <1>1, <1>2, PTL DEF Spec

(* The variables of the client, of the server and of the segment keep      *)
(* their types (BlockLifecycle.tla, all actions).                          *)
THEOREM BlockTypes ==
  ASSUME ~ AnyIteration
  PROVE  Spec => []TypeOK
<1>1. IInv => TypeOK
  BY DEF IInv
<1> QED
  BY <1>1, Invariant, PTL

(* A client that commits and clears the blocks of its present iteration    *)
(* never brings its server down (Server.cpp:417-466: OnCommit and OnClear  *)
(* follow a null pointer when the block is not what they expect).          *)
THEOREM Survives ==
  ASSUME ~ AnyIteration
  PROVE  Spec => []ServerSurvives
<1>1. IInv => ServerSurvives
  BY DEF IInv, ServerSurvives
<1> QED
  BY <1>1, Invariant, PTL

(* A client that commits and clears in the present iteration loses no      *)
(* region, whatever becomes of its block, other than those of blocks it has*)
(* left uncleared at the end of the iteration of their commit              *)
(* (Client.cpp:179-180, 216-254; Server.cpp:445-466;                       *)
(* GarbageCollector.hpp:55-70).                                            *)
THEOREM MemoryIsKept ==
  ASSUME ~ AnyIteration
  PROVE  Spec => []NoLeak
<1>1. Init => OwnerInv
  BY DEF Init, OwnerInv
<1>2. IInv /\ OwnerInv /\ [Next]_vars => OwnerInv'
  BY OwnerStep
<1>3. IInv /\ OwnerInv => NoLeak
  BY NoLeakLemma
<1> QED
  BY <1>1, <1>2, <1>3, Invariant, PTL DEF Spec

(* No region has two lives: the collector frees nothing that the client or *)
(* a message still refers to (GarbageCollector.hpp:55-70;                  *)
(* Server.cpp:417-443, where the memory remains the client's).             *)
THEOREM MemoryIsNotShared ==
  ASSUME ~ AnyIteration
  PROVE  Spec => []NoSharing
  BY Invariant, NoSharingLemma, PTL
=============================================================================
