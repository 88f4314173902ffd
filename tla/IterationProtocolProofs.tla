---------------------- MODULE IterationProtocolProofs ----------------------
(***************************************************************************)
(* Proofs about IterationProtocol, for every number of clients, servers    *)
(* and iterations, when no allocation fails before the last iteration.     *)
(***************************************************************************)
EXTENDS IterationProtocol, ChannelLemmas

(* An iteration that ends with errors is not synchronised, and what a      *)
(* server believes of its clients afterwards is false (IterationRunAhead): *)
(* what is proved here is proved of the runs whose failures come last.     *)
LateFailures == \A k \in FailingAt : k >= MaxIter - 1

(* Counters, one per server or one per server and tag, raised and reset.   *)
LEMMA CounterTypes ==
  ASSUME NEW s \in Servers, NEW t \in {ITERATION_SYNC}
  PROVE  /\ \A f \in [Servers -> [{ITERATION_SYNC} -> Nat]] :
              [f EXCEPT ![s][t] = @ + 1] \in [Servers -> [{ITERATION_SYNC} -> Nat]]
         /\ \A f \in [Servers -> Nat] : [f EXCEPT ![s] = @ + 1] \in [Servers -> Nat]
         /\ \A f \in [Servers -> Nat] : [f EXCEPT ![s] = 0] \in [Servers -> Nat]
  OBVIOUS

(* Every variable keeps its type, with and without early failures          *)
(* (IterationProtocol.tla, all actions).                                   *)
THEOREM Types == Spec => []TypeOK
<1>1. Init => TypeOK
  BY ProtocolOK DEF Init, TypeOK, Barrier!Init
<1>2. TypeOK /\ [Next]_vars => TypeOK'
  <2> SUFFICES ASSUME TypeOK, [Next]_vars
               PROVE  TypeOK'
    OBVIOUS
  <2> USE ProtocolOK
  <2>1. ASSUME NEW c \in Clients, Write(c)
        PROVE  TypeOK'
    <3>1. clientIter[c] \in Nat
      BY DEF TypeOK
    <3>2. WriteMsg(clientIter[c]) \in Messages
      BY <3>1 DEF WriteMsg, Messages
    <3>3. chan' \in [Clients -> Seq(Messages)]
      BY <2>1, <3>2 DEF Write, TypeOK
    <3> QED
      BY <2>1, <3>3 DEF Write, TypeOK, serverVars, barrierVars
  <2>2. ASSUME NEW c \in Clients, WriteFails(c)
        PROVE  TypeOK'
    BY <2>2 DEF WriteFails, TypeOK, serverVars, barrierVars
  <2>3. ASSUME NEW c \in Clients, EnterAllreduce(c)
        PROVE  TypeOK'
    <3>1. reduced[c] + 1 \in 0 .. MaxIter /\ reduced[c] \in 0 .. MaxIter
      BY <2>3 DEF EnterAllreduce, Computing, InAllreduce, TypeOK
    <3> QED
      BY <2>3, <3>1 DEF EnterAllreduce, TypeOK, serverVars, barrierVars
  <2>4. ASSUME NEW c \in Clients, EndIteration(c)
        PROVE  TypeOK'
    <3>1. clientIter[c] + 1 \in 0 .. MaxIter
      BY <2>4 DEF EndIteration, InAllreduce, TypeOK
    <3>2. Msg("NEXT_ITERATION_ERR") \in Messages /\ Msg("NEXT_ITERATION") \in Messages
      BY DEF Msg, Messages
    <3>3. chan' \in [Clients -> Seq(Messages)]
      BY <2>4, <3>2 DEF EndIteration, TypeOK
    <3> QED
      BY <2>4, <3>1, <3>3 DEF EndIteration, TypeOK, serverVars, barrierVars
  <2>5. ASSUME NEW c \in Clients, StopServer(c)
        PROVE  TypeOK'
    <3>1. Msg("STOP") \in Messages
      BY DEF Msg, Messages
    <3>2. chan' \in [Clients -> Seq(Messages)]
      BY <2>5, <3>1 DEF StopServer, TypeOK
    <3> QED
      BY <2>5, <3>2 DEF StopServer, TypeOK, serverVars, barrierVars
  <2>6. ASSUME NEW c \in Clients, NEW type, Receive(c, type)
        PROVE  /\ chan' \in [Clients -> Seq(Messages)]
               /\ Head(chan[c]) \in Messages
               /\ ServerOf[c] \in Servers
               /\ listening[c] - 1 \in Nat
    <3>1. chan[c] \in Seq(Messages) /\ chan[c] # <<>>
      BY <2>6 DEF Receive, TypeOK
    <3>2. Tail(chan[c]) \in Seq(Messages) /\ Head(chan[c]) \in Messages
      BY <3>1, TailLemma
    <3> QED
      BY <2>6, <3>2 DEF Receive, TypeOK
  <2>7. ASSUME NEW s \in Servers, StartNextIteration(s)
        PROVE  serverIter' \in [Servers -> Nat] /\ locks' \in [Servers -> Nat]
    <3>1. serverIter \in [Servers -> Nat] /\ locks \in [Servers -> Nat]
      BY DEF TypeOK
    <3> QED
      BY <2>7, <3>1, CounterTypes DEF StartNextIteration
  <2>8. ASSUME NEW s \in Servers, Sync(s) \/ UNCHANGED barrierVars
        PROVE  /\ arrived' \in [Servers -> [{ITERATION_SYNC} -> Nat]]
               /\ released' \in [Servers -> [{ITERATION_SYNC} -> Nat]]
    <3>1. /\ arrived \in [Servers -> [{ITERATION_SYNC} -> Nat]]
          /\ released \in [Servers -> [{ITERATION_SYNC} -> Nat]]
      BY DEF TypeOK
    <3>2. CASE UNCHANGED barrierVars
      BY <3>1, <3>2 DEF barrierVars
    <3>3. CASE Barrier!Arrive(s, ITERATION_SYNC)
      BY <3>1, <3>3, CounterTypes DEF Barrier!Arrive
    <3> QED
      BY <2>8, <3>2, <3>3 DEF Sync
  <2>9. ASSUME NEW c \in Clients, OnWrite(c)
        PROVE  TypeOK'
    <3>1. Head(chan[c]).iteration \in Nat
      BY <2>6, <2>9 DEF OnWrite, Messages
    <3>2. blocks' \in [Servers -> SUBSET (Clients \X Nat)]
      <4>1. <<c, Head(chan[c]).iteration>> \in Clients \X Nat
        BY <3>1
      <4>2. blocks \in [Servers -> SUBSET (Clients \X Nat)]
        BY DEF TypeOK
      <4> QED
        BY <2>9, <4>1, <4>2 DEF OnWrite
    <3> QED
      BY <2>6, <2>9, <3>2 DEF OnWrite, TypeOK, clientVars, barrierVars
  <2>10. ASSUME NEW c \in Clients, OnNextIteration(c)
         PROVE  TypeOK'
    <3>1. Receive(c, "NEXT_ITERATION") /\ StartNextIteration(ServerOf[c])
      BY <2>10 DEF OnNextIteration
    <3>2. Sync(ServerOf[c]) \/ UNCHANGED barrierVars
      BY <2>10 DEF OnNextIteration
    <3>3. listening' \in [Clients -> Nat]
      BY <2>6, <2>10, <3>1 DEF OnNextIteration, TypeOK
    <3> QED
      BY <2>6, <2>7, <2>8, <2>10, <3>1, <3>2, <3>3
      DEF OnNextIteration, TypeOK, clientVars
  <2>11. ASSUME NEW c \in Clients, OnNextIterationWithErrors(c)
         PROVE  TypeOK'
    <3>1. Receive(c, "NEXT_ITERATION_ERR") /\ StartNextIteration(ServerOf[c])
      BY <2>11 DEF OnNextIterationWithErrors
    <3>2. blocks' \in [Servers -> SUBSET (Clients \X Nat)]
      BY <2>11 DEF OnNextIterationWithErrors, TypeOK
    <3> QED
      BY <2>6, <2>7, <2>11, <3>1, <3>2
      DEF OnNextIterationWithErrors, TypeOK, clientVars, barrierVars
  <2>12. ASSUME NEW c \in Clients, OnStop(c)
         PROVE  TypeOK'
    <3>1. Receive(c, "STOP")
      BY <2>12 DEF OnStop
    <3>2. stopRequests' \in [Servers -> SUBSET Clients] /\ running' \in [Servers -> BOOLEAN]
      BY <2>12 DEF OnStop, TypeOK
    <3> QED
      BY <2>6, <2>12, <3>1, <3>2 DEF OnStop, TypeOK, clientVars, barrierVars
  <2>13. ASSUME NEW s \in Servers, EndOfIteration(s)
         PROVE  TypeOK'
    <3>0. /\ released' = [released EXCEPT ![s][ITERATION_SYNC] = @ + 1]
          /\ released \in [Servers -> [{ITERATION_SYNC} -> Nat]]
          /\ UNCHANGED arrived
      BY <2>13 DEF EndOfIteration, Barrier!Release, TypeOK
    <3>1. released' \in [Servers -> [{ITERATION_SYNC} -> Nat]]
      BY <3>0, CounterTypes
    <3>2. listening' \in [Clients -> Nat]
      BY <2>13 DEF EndOfIteration, TypeOK
    <3> QED
      BY <2>13, <3>0, <3>1, <3>2 DEF EndOfIteration, TypeOK, clientVars
  <2>14. CASE UNCHANGED vars
    BY <2>14 DEF vars, clientVars, serverVars, barrierVars, TypeOK
  <2> QED
    BY <2>1, <2>2, <2>3, <2>4, <2>5, <2>9, <2>10, <2>11, <2>12, <2>13, <2>14
    DEF Next, ClientStep, OnHeader
<1> QED
  BY <1>1, <1>2, PTL DEF Spec, SafeSpec
----------------------------------------------------------------------------
(* What is in a channel of a client that has ended k iterations, where fs  *)
(* are the reductions that found an error: at most k ends of iterations,   *)
(* those of errors only for the last, and writes after the ends of the     *)
(* iterations before theirs.                                               *)
ChannelOK(q, k, fs) ==
  /\ NEnds(q) <= k
  /\ \A i \in 1 .. Len(q) :
       /\ q[i].type = "NEXT_ITERATION_ERR" =>
            k = MaxIter /\ MaxIter - 1 \in fs /\ NAfter(q, i) = 0
       /\ q[i].type = "NEXT_ITERATION" /\ NAfter(q, i) = 0 =>
            ~ (k = MaxIter /\ MaxIter - 1 \in fs)
       /\ q[i].type = "WRITE" => k - NAfter(q, i) <= q[i].iteration

(* The synchronisations of n iterations: none for the last, if it failed.  *)
Syncs(n, fs) == IF n = MaxIter /\ MaxIter - 1 \in fs THEN MaxIter - 1 ELSE n

(* A client of which e ends are handled, of a server in iteration n that   *)
(* has come back from rel synchronisations.                                *)
ServedOK(e, n, rel, posted, fs) ==
  /\ n <= e /\ e <= n + 1
  /\ posted = 1 + rel - Syncs(e, fs)
  /\ posted <= 1
  /\ Syncs(e, fs) # e => Syncs(e, fs) <= rel

(* Ended, in terms of the operators above.                                 *)
Done(c) == clientIter[c] - NEnds(chan[c])

(* Clients agree on what fails, and are never two reductions apart.        *)
AgreeInv ==
  /\ \A c \in Clients :
       /\ reduced[c] = clientIter[c] \/ reduced[c] = clientIter[c] + 1
       /\ errorOccured[c] => clientIter[c] = MaxIter - 1
  /\ \A c, d \in Clients : clientIter[d] <= reduced[c]
  /\ failed \subseteq {MaxIter - 1}

ChannelInv == \A c \in Clients : ChannelOK(chan[c], clientIter[c], failed)

ServedInv ==
  \A c \in Clients :
    ServedOK(Done(c), serverIter[ServerOf[c]],
             released[ServerOf[c]][ITERATION_SYNC], listening[c], failed)

(* The clients of s whose end of the present iteration s has counted.      *)
Counted(s) == {c \in Group(s) : Done(c) > serverIter[s]}

ServerInv ==
  \A s \in Servers :
    /\ arrived[s][ITERATION_SYNC] = Syncs(serverIter[s], failed)
    /\ \/ arrived[s][ITERATION_SYNC] = released[s][ITERATION_SYNC]
       \/ arrived[s][ITERATION_SYNC] = released[s][ITERATION_SYNC] + 1
    /\ Group(s) = {} => serverIter[s] = 0
    /\ locks[s] = Cardinality(Counted(s))

IInv == AgreeInv /\ ChannelInv /\ ServedInv /\ ServerInv

(* The types that the steps below need of a client and its channel.        *)
LEMMA ChannelTypes ==
  ASSUME TypeOK, NEW c \in Clients
  PROVE  /\ clientIter[c] \in 0 .. MaxIter /\ MaxIter \in Nat
         /\ chan[c] \in Seq(Messages)
         /\ NEnds(chan[c]) \in Nat
         /\ Len(chan[c]) \in Nat
         /\ Done(c) \in Int
         /\ ServerOf[c] \in Servers /\ c \in Group(ServerOf[c])
<1>1. chan[c] \in Seq(Messages) /\ clientIter[c] \in 0 .. MaxIter
  BY DEF TypeOK
<1>2. NEnds(chan[c]) \in Nat /\ Len(chan[c]) \in Nat
  BY <1>1, EndsLemma, LenProperties
<1> QED
  BY <1>1, <1>2, ProtocolOK DEF Done, Group

(* A client writes, or stops: its iteration is the same.                   *)
LEMMA ChannelSends ==
  ASSUME NEW q \in Seq(Messages), NEW k \in Nat, NEW fs, ChannelOK(q, k, fs),
         NEW m, m = WriteMsg(k) \/ m = Msg("STOP")
  PROVE  ChannelOK(Append(q, m), k, fs) /\ NEnds(Append(q, m)) = NEnds(q)
<1>1. m \in Messages /\ ~ IsEnd(m)
  BY DEF WriteMsg, Msg, Messages, IsEnd
<1>2. One(m) = 0
  BY <1>1 DEF One
<1>3. /\ Len(q) \in Nat /\ Len(Append(q, m)) = Len(q) + 1
      /\ \A i \in 1 .. Len(q) : Append(q, m)[i] = q[i]
      /\ Append(q, m)[Len(q) + 1] = m
      /\ NEnds(Append(q, m)) = NEnds(q) + 0
      /\ \A i \in 1 .. Len(q) : NAfter(Append(q, m), i) = NAfter(q, i) + 0
      /\ NAfter(Append(q, m), Len(q) + 1) = 0
  BY <1>1, <1>2, AppendLemma
<1>4. NEnds(q) \in Nat /\ \A i \in 1 .. Len(q) : NAfter(q, i) \in Nat
  BY <1>3, EndsLemma
<1>5. ASSUME NEW i \in 1 .. Len(Append(q, m))
      PROVE  /\ Append(q, m)[i].type = "NEXT_ITERATION_ERR" =>
                  k = MaxIter /\ MaxIter - 1 \in fs /\ NAfter(Append(q, m), i) = 0
             /\ Append(q, m)[i].type = "NEXT_ITERATION" /\ NAfter(Append(q, m), i) = 0
                  => ~ (k = MaxIter /\ MaxIter - 1 \in fs)
             /\ Append(q, m)[i].type = "WRITE" =>
                  k - NAfter(Append(q, m), i) <= Append(q, m)[i].iteration
  <2>1. CASE i \in 1 .. Len(q)
    BY <2>1, <1>3, <1>4 DEF ChannelOK
  <2>2. CASE i = Len(q) + 1
    BY <2>2, <1>3 DEF WriteMsg, Msg
  <2> QED
    BY <2>1, <2>2, <1>3
<1> QED
  BY <1>3, <1>4, <1>5 DEF ChannelOK

(* A client ends its iteration k.                                          *)
LEMMA ChannelEnds ==
  ASSUME NEW q \in Seq(Messages), NEW k \in Nat, k < MaxIter,
         NEW fs, fs \subseteq {MaxIter - 1}, ChannelOK(q, k, fs),
         NEW m, m = IF k \in fs THEN Msg("NEXT_ITERATION_ERR") ELSE Msg("NEXT_ITERATION")
  PROVE  ChannelOK(Append(q, m), k + 1, fs) /\ NEnds(Append(q, m)) = NEnds(q) + 1
<1> USE ProtocolOK
<1>1. m \in Messages /\ IsEnd(m)
  BY DEF Msg, Messages, IsEnd
<1>2. One(m) = 1
  BY <1>1 DEF One
<1>3. /\ Len(q) \in Nat /\ Len(Append(q, m)) = Len(q) + 1
      /\ \A i \in 1 .. Len(q) : Append(q, m)[i] = q[i]
      /\ Append(q, m)[Len(q) + 1] = m
      /\ NEnds(Append(q, m)) = NEnds(q) + 1
      /\ \A i \in 1 .. Len(q) : NAfter(Append(q, m), i) = NAfter(q, i) + 1
      /\ NAfter(Append(q, m), Len(q) + 1) = 0
  BY <1>1, <1>2, AppendLemma
<1>4. NEnds(q) \in Nat /\ \A i \in 1 .. Len(q) : NAfter(q, i) \in Nat
  BY <1>3, EndsLemma
<1>5. ASSUME NEW i \in 1 .. Len(Append(q, m))
      PROVE  /\ Append(q, m)[i].type = "NEXT_ITERATION_ERR" =>
                  k + 1 = MaxIter /\ MaxIter - 1 \in fs /\ NAfter(Append(q, m), i) = 0
             /\ Append(q, m)[i].type = "NEXT_ITERATION" /\ NAfter(Append(q, m), i) = 0
                  => ~ (k + 1 = MaxIter /\ MaxIter - 1 \in fs)
             /\ Append(q, m)[i].type = "WRITE" =>
                  (k + 1) - NAfter(Append(q, m), i) <= Append(q, m)[i].iteration
  <2>1. CASE i \in 1 .. Len(q)
    <3>1. /\ Append(q, m)[i] = q[i] /\ NAfter(q, i) \in Nat
          /\ NAfter(Append(q, m), i) = NAfter(q, i) + 1
      BY <2>1, <1>3, <1>4
    <3>2. q[i].type # "NEXT_ITERATION_ERR"
      BY <2>1 DEF ChannelOK
    <3>3. q[i].type = "WRITE" => k - NAfter(q, i) <= q[i].iteration
      BY <2>1 DEF ChannelOK
    <3>4. (k + 1) - (NAfter(q, i) + 1) = k - NAfter(q, i) /\ NAfter(q, i) + 1 # 0
      BY <3>1
    <3> QED
      BY <3>1, <3>2, <3>3, <3>4
  <2>2. CASE i = Len(q) + 1
    BY <2>2, <1>3 DEF Msg
  <2> QED
    BY <2>1, <2>2, <1>3
<1> QED
  BY <1>3, <1>4, <1>5 DEF ChannelOK

(* A server takes a message: what is behind it is as before.               *)
LEMMA ChannelReceives ==
  ASSUME NEW q \in Seq(Messages), q # <<>>, NEW k \in Nat, NEW fs, ChannelOK(q, k, fs)
  PROVE  /\ ChannelOK(Tail(q), k, fs)
         /\ NEnds(q) = NEnds(Tail(q)) + One(Head(q))
         /\ NEnds(Tail(q)) \in Nat
<1>1. /\ Tail(q) \in Seq(Messages)
      /\ Len(q) \in Nat \ {0} /\ Len(Tail(q)) = Len(q) - 1
      /\ \A i \in 1 .. Len(Tail(q)) : Tail(q)[i] = q[i + 1]
      /\ NEnds(q) = NEnds(Tail(q)) + One(Head(q))
      /\ \A i \in 1 .. Len(Tail(q)) : NAfter(Tail(q), i) = NAfter(q, i + 1)
  BY TailLemma
<1>2. NEnds(q) \in Nat /\ NEnds(Tail(q)) \in Nat /\ One(Head(q)) \in Nat
  BY <1>1, EndsLemma DEF One
<1>3. \A i \in 1 .. Len(Tail(q)) : i + 1 \in 1 .. Len(q)
  BY <1>1
<1> QED
  BY <1>1, <1>2, <1>3 DEF ChannelOK
----------------------------------------------------------------------------
(* At first nothing is sent, counted or synchronised.                      *)
LEMMA IInvInit == Init => IInv
<1> SUFFICES ASSUME Init PROVE IInv
  OBVIOUS
<1>0. MaxIter \in Nat /\ ServerOf \in [Clients -> Servers]
  BY ProtocolOK
<1>1. NEnds(<<>>) = 0 /\ Len(<<>>) = 0
  BY FS_EmptySet DEF NEnds, Ends
<1>2. \A c \in Clients : chan[c] = <<>> /\ Done(c) = 0
  BY <1>1 DEF Init, Done
<1>3. Syncs(0, failed) = 0
  BY DEF Init, Syncs
<1>4. AgreeInv
  BY DEF Init, AgreeInv
<1>5. ChannelInv
  BY <1>1, <1>2 DEF Init, ChannelInv, ChannelOK
<1>6. \A s \in Servers : arrived[s][ITERATION_SYNC] = 0 /\ released[s][ITERATION_SYNC] = 0
  BY DEF Init, Barrier!Init
<1>7. ServedInv
  BY <1>0, <1>2, <1>3, <1>6 DEF Init, ServedInv, ServedOK
<1>8. ServerInv
  <2>1. \A s \in Servers : Counted(s) = {}
    BY <1>0, <1>2 DEF Init, Counted, Group
  <2> QED
    BY <1>3, <1>6, <2>1, FS_EmptySet DEF Init, ServerInv
<1> QED
  BY <1>4, <1>5, <1>7, <1>8 DEF IInv

(* A step of a client that its server does not see yet.                    *)
LEMMA ServersKept ==
  ASSUME TypeOK, IInv,
         UNCHANGED <<serverIter, locks, listening, arrived, released>>,
         \A c \in Clients : Done(c)' = Done(c),
         \A n \in Nat : (\E c \in Clients : n <= Done(c)) \/ n = 0
                          => Syncs(n, failed') = Syncs(n, failed)
  PROVE  ServedInv' /\ ServerInv'
<1>1. ServedInv'
  <2> SUFFICES ASSUME NEW c \in Clients
               PROVE  ServedOK(Done(c)', serverIter[ServerOf[c]],
                               released[ServerOf[c]][ITERATION_SYNC], listening[c], failed')
    BY DEF ServedInv
  <2>1. ServedOK(Done(c), serverIter[ServerOf[c]],
                 released[ServerOf[c]][ITERATION_SYNC], listening[c], failed)
    BY DEF IInv, ServedInv
  <2>2. Done(c) \in Nat
    <3>1. Done(c) \in Int /\ serverIter[ServerOf[c]] \in Nat
      BY ChannelTypes DEF TypeOK
    <3> QED
      BY <2>1, <3>1 DEF ServedOK
  <2>3. Syncs(Done(c), failed') = Syncs(Done(c), failed)
    BY <2>2
  <2> QED
    BY <2>1, <2>3 DEF ServedOK
<1>2. ServerInv'
  <2> SUFFICES ASSUME NEW s \in Servers
               PROVE  /\ arrived[s][ITERATION_SYNC] = Syncs(serverIter[s], failed')
                      /\ \/ arrived[s][ITERATION_SYNC] = released[s][ITERATION_SYNC]
                         \/ arrived[s][ITERATION_SYNC] = released[s][ITERATION_SYNC] + 1
                      /\ Group(s) = {} => serverIter[s] = 0
                      /\ locks[s] = Cardinality(Counted(s)')
    BY DEF ServerInv, Group
  <2>1. Counted(s)' = Counted(s)
    BY DEF Counted, Group
  <2>2. serverIter[s] \in Nat
    BY DEF TypeOK
  <2>3. Syncs(serverIter[s], failed') = Syncs(serverIter[s], failed)
    <3>1. CASE Group(s) = {}
      BY <2>2, <3>1 DEF IInv, ServerInv
    <3>2. ASSUME NEW c \in Group(s)
          PROVE  Syncs(serverIter[s], failed') = Syncs(serverIter[s], failed)
      BY <2>2 DEF IInv, ServedInv, ServedOK, Group
    <3> QED
      BY <3>1, <3>2
  <2> QED
    BY <2>1, <2>3 DEF IInv, ServerInv
<1> QED
  BY <1>1, <1>2

(* A client sends what does not end an iteration.                          *)
LEMMA SendStep ==
  ASSUME TypeOK, IInv, NEW c \in Clients, Write(c) \/ StopServer(c)
  PROVE  IInv'
<1>1. PICK m \in {WriteMsg(clientIter[c]), Msg("STOP")} :
        chan' = [chan EXCEPT ![c] = Append(@, m)]
  BY DEF Write, StopServer
<1>2. UNCHANGED <<clientIter, errorOccured, reduced, failed, serverVars, barrierVars>>
  BY DEF Write, StopServer
<1>3. /\ ChannelOK(Append(chan[c], m), clientIter[c], failed)
      /\ NEnds(Append(chan[c], m)) = NEnds(chan[c])
  BY ChannelTypes, ChannelSends DEF IInv, ChannelInv
<1>4. /\ chan'[c] = Append(chan[c], m)
      /\ \A d \in Clients \ {c} : chan'[d] = chan[d]
  BY <1>1 DEF TypeOK
<1>5. \A d \in Clients : Done(d)' = Done(d)
  BY <1>2, <1>3, <1>4 DEF Done
<1>6. ServedInv' /\ ServerInv'
  BY <1>2, <1>5, ServersKept DEF serverVars, barrierVars
<1>7. ChannelInv'
  BY <1>2, <1>3, <1>4 DEF IInv, ChannelInv
<1>8. AgreeInv'
  BY <1>2 DEF IInv, AgreeInv
<1> QED
  BY <1>6, <1>7, <1>8 DEF IInv

(* An allocation fails: in the last iteration, the only one that may.      *)
LEMMA WriteFailsStep ==
  ASSUME LateFailures, TypeOK, IInv, NEW c \in Clients, WriteFails(c)
  PROVE  IInv'
<1>1. /\ errorOccured' = [errorOccured EXCEPT ![c] = TRUE]
      /\ UNCHANGED <<clientIter, reduced, failed, chan, serverVars, barrierVars>>
  BY DEF WriteFails
<1>2. clientIter[c] = MaxIter - 1
  BY ChannelTypes DEF WriteFails, MayWrite, Computing, LateFailures
<1>3. AgreeInv'
  BY <1>1, <1>2 DEF IInv, AgreeInv, TypeOK
<1>4. \A d \in Clients : Done(d)' = Done(d)
  BY <1>1 DEF Done
<1>5. ServedInv' /\ ServerInv'
  BY <1>1, <1>4, ServersKept DEF serverVars, barrierVars
<1>6. ChannelInv'
  BY <1>1 DEF IInv, ChannelInv
<1> QED
  BY <1>3, <1>5, <1>6 DEF IInv

(* The reduction that finds an error is the last, and no client has come   *)
(* back from it.                                                           *)
LEMMA EnterAllreduceStep ==
  ASSUME TypeOK, IInv, NEW c \in Clients, EnterAllreduce(c)
  PROVE  IInv'
<1>1. /\ reduced' = [reduced EXCEPT ![c] = @ + 1]
      /\ failed' = IF errorOccured[c] THEN failed \cup {reduced[c]} ELSE failed
      /\ UNCHANGED <<clientIter, errorOccured, chan, serverVars, barrierVars>>
  BY DEF EnterAllreduce
<1>2. reduced[c] = clientIter[c] /\ clientIter[c] < MaxIter /\ clientIter[c] \in Nat
  BY ChannelTypes DEF EnterAllreduce, Computing, InAllreduce, IInv, AgreeInv, TypeOK
<1>3. errorOccured[c] => reduced[c] = MaxIter - 1
  BY <1>2 DEF IInv, AgreeInv
<1>4. AgreeInv'
  <2>1. /\ reduced'[c] = reduced[c] + 1
        /\ \A d \in Clients \ {c} : reduced'[d] = reduced[d]
    BY <1>1 DEF TypeOK
  <2>2. \A d \in Clients : clientIter[d] \in Nat /\ reduced[d] \in Nat
    BY DEF TypeOK
  <2>3. failed' \subseteq {MaxIter - 1}
    BY <1>1, <1>3 DEF IInv, AgreeInv
  <2>4. \A d \in Clients : \/ reduced'[d] = clientIter[d]
                           \/ reduced'[d] = clientIter[d] + 1
    BY <1>2, <2>1 DEF IInv, AgreeInv
  <2>5. \A d, e \in Clients : clientIter[e] <= reduced'[d]
    BY <2>1, <2>2 DEF IInv, AgreeInv
  <2> QED
    BY <1>1, <2>3, <2>4, <2>5 DEF IInv, AgreeInv
<1>5. failed' # failed => \A d \in Clients : clientIter[d] < MaxIter
  <2> SUFFICES ASSUME failed' # failed, NEW d \in Clients
               PROVE  clientIter[d] < MaxIter
    OBVIOUS
  <2>1. reduced[c] = MaxIter - 1
    BY <1>1, <1>3
  <2> QED
    BY <2>1, ChannelTypes DEF IInv, AgreeInv
<1>6. ChannelInv'
  <2> SUFFICES ASSUME NEW d \in Clients
               PROVE  ChannelOK(chan[d], clientIter[d], failed')
    BY <1>1 DEF ChannelInv
  <2>1. ChannelOK(chan[d], clientIter[d], failed)
    BY DEF IInv, ChannelInv
  <2>2. failed' = failed \/ clientIter[d] # MaxIter
    BY <1>5, ChannelTypes
  <2> QED
    BY <2>1, <2>2 DEF ChannelOK
<1>7. \A d \in Clients : Done(d)' = Done(d)
  BY <1>1 DEF Done
<1>8. ASSUME NEW n \in Nat, (\E d \in Clients : n <= Done(d)) \/ n = 0
      PROVE  Syncs(n, failed') = Syncs(n, failed)
  <2>1. CASE failed' = failed
    BY <2>1
  <2>2. CASE failed' # failed
    <3>1. \A d \in Clients : Done(d) < MaxIter /\ Done(d) \in Int
      BY <1>5, <2>2, ChannelTypes DEF Done
    <3>2. n # MaxIter
      BY <1>2, <1>8, <3>1, ProtocolOK
    <3> QED
      BY <3>2 DEF Syncs
  <2> QED
    BY <2>1, <2>2
<1>9. ServedInv' /\ ServerInv'
  BY <1>1, <1>7, <1>8, ServersKept DEF serverVars, barrierVars
<1> QED
  BY <1>4, <1>6, <1>9 DEF IInv

(* A client comes back from the reduction with what all agree on.          *)
LEMMA EndIterationStep ==
  ASSUME TypeOK, IInv, NEW c \in Clients, EndIteration(c)
  PROVE  IInv'
<1> DEFINE m == IF clientIter[c] \in failed THEN Msg("NEXT_ITERATION_ERR")
                                            ELSE Msg("NEXT_ITERATION")
<1>1. /\ clientIter' = [clientIter EXCEPT ![c] = @ + 1]
      /\ chan' = [chan EXCEPT ![c] = Append(@, m)]
      /\ errorOccured' = [errorOccured EXCEPT ![c] = FALSE]
      /\ UNCHANGED <<reduced, failed, serverVars, barrierVars>>
  BY DEF EndIteration
<1>2. reduced[c] = clientIter[c] + 1 /\ clientIter[c] \in Nat /\ clientIter[c] < MaxIter
  <2>1. clientIter[c] \in 0 .. MaxIter /\ reduced[c] \in 0 .. MaxIter
    BY DEF TypeOK
  <2>2. reduced[c] > clientIter[c]
    BY DEF EndIteration, InAllreduce
  <2> QED
    BY <2>1, <2>2, ProtocolOK DEF IInv, AgreeInv
<1>3. /\ ChannelOK(Append(chan[c], m), clientIter[c] + 1, failed)
      /\ NEnds(Append(chan[c], m)) = NEnds(chan[c]) + 1
  <2>0. m = IF clientIter[c] \in failed THEN Msg("NEXT_ITERATION_ERR")
                                        ELSE Msg("NEXT_ITERATION")
    OBVIOUS
  <2> HIDE DEF m
  <2>1. ChannelOK(chan[c], clientIter[c], failed) /\ failed \subseteq {MaxIter - 1}
    BY DEF IInv, ChannelInv, AgreeInv
  <2> QED
    <3>1. chan[c] \in Seq(Messages)
      BY ChannelTypes
    <3> QED
      BY <1>2, <2>0, <2>1, <3>1, ChannelEnds
<1> HIDE DEF m
<1>4. /\ chan'[c] = Append(chan[c], m) /\ clientIter'[c] = clientIter[c] + 1
      /\ errorOccured'[c] = FALSE
      /\ \A d \in Clients \ {c} : /\ chan'[d] = chan[d]
                                  /\ clientIter'[d] = clientIter[d]
                                  /\ errorOccured'[d] = errorOccured[d]
  BY <1>1 DEF TypeOK
<1>5. \A d \in Clients : Done(d)' = Done(d)
  <2>1. NEnds(chan[c]) \in Nat
    BY ChannelTypes
  <2>2. (clientIter[c] + 1) - (NEnds(chan[c]) + 1) = clientIter[c] - NEnds(chan[c])
    BY <1>2, <2>1
  <2> QED
    BY <1>3, <1>4, <2>2 DEF Done
<1>6. ServedInv' /\ ServerInv'
  BY <1>1, <1>5, ServersKept DEF serverVars, barrierVars
<1>7. ChannelInv'
  BY <1>1, <1>3, <1>4 DEF IInv, ChannelInv
<1>8. AgreeInv'
  <2>1. \A d \in Clients : reduced[c] <= reduced[d]
    BY DEF EndIteration, TypeOK
  <2> QED
    BY <1>1, <1>2, <1>4, <2>1 DEF IInv, AgreeInv
<1> QED
  BY <1>6, <1>7, <1>8 DEF IInv
----------------------------------------------------------------------------
(* A server takes the message at the head of a channel.                    *)
LEMMA ReceiveLemma ==
  ASSUME TypeOK, IInv, NEW c \in Clients, NEW type, Receive(c, type),
         UNCHANGED <<clientIter, failed>>
  PROVE  /\ chan[c] \in Seq(Messages) /\ chan[c] # <<>>
         /\ Head(chan[c]).type = type
         /\ listening[c] \in Nat \ {0}
         /\ chan'[c] = Tail(chan[c])
         /\ Done(c) \in Int
         /\ Done(c)' = Done(c) + One(Head(chan[c]))
         /\ \A d \in Clients \ {c} : Done(d)' = Done(d)
         /\ ChannelInv'
<1>1. chan \in [Clients -> Seq(Messages)] /\ listening \in [Clients -> Nat]
  BY DEF TypeOK
<1>2. /\ listening[c] > 0 /\ chan[c] # <<>> /\ Head(chan[c]).type = type
      /\ chan' = [chan EXCEPT ![c] = Tail(@)]
  BY DEF Receive
<1>3. chan'[c] = Tail(chan[c]) /\ \A d \in Clients \ {c} : chan'[d] = chan[d]
  BY <1>1, <1>2
<1>4. clientIter[c] \in Nat /\ chan[c] \in Seq(Messages)
  BY ChannelTypes
<1>5. ChannelOK(chan[c], clientIter[c], failed)
  BY DEF IInv, ChannelInv
<1>6. /\ ChannelOK(Tail(chan[c]), clientIter[c], failed)
      /\ NEnds(chan[c]) = NEnds(Tail(chan[c])) + One(Head(chan[c]))
      /\ NEnds(Tail(chan[c])) \in Nat
  BY <1>2, <1>4, <1>5, ChannelReceives
<1>7. One(Head(chan[c])) \in Nat
  BY DEF One
<1>8. Done(c)' = Done(c) + One(Head(chan[c])) /\ Done(c) \in Int
  BY <1>3, <1>4, <1>6, <1>7 DEF Done
<1>9. ChannelInv'
  BY <1>3, <1>6 DEF IInv, ChannelInv
<1> QED
  BY <1>1, <1>2, <1>3, <1>4, <1>8, <1>9 DEF Done

(* A message that does not end an iteration.                               *)
LEMMA OtherMessageStep ==
  ASSUME TypeOK, IInv, NEW c \in Clients, OnWrite(c) \/ OnStop(c)
  PROVE  IInv'
<1>1. PICK type \in {"WRITE", "STOP"} : Receive(c, type)
  BY DEF OnWrite, OnStop
<1>2. UNCHANGED <<clientVars, serverIter, locks, listening, barrierVars>>
  BY DEF OnWrite, OnStop
<1>3. Head(chan[c]).type = type /\ Done(c) \in Int /\ ChannelInv'
      /\ Done(c)' = Done(c) + One(Head(chan[c]))
      /\ \A d \in Clients \ {c} : Done(d)' = Done(d)
  BY <1>1, <1>2, ReceiveLemma DEF clientVars
<1>4. One(Head(chan[c])) = 0
  BY <1>1, <1>3 DEF One, IsEnd
<1>5. \A d \in Clients : Done(d)' = Done(d)
  BY <1>3, <1>4
<1>6. ServedInv' /\ ServerInv'
  BY <1>2, <1>5, ServersKept DEF clientVars, barrierVars
<1>7. AgreeInv'
  BY <1>2 DEF clientVars, IInv, AgreeInv
<1> QED
  BY <1>3, <1>6, <1>7 DEF IInv

(* What a server in iteration n is being told by a client it listens to:   *)
(* the end of that iteration, and never that of the next.                  *)
LEMMA EndMessageLemma ==
  ASSUME TypeOK, IInv, NEW c \in Clients,
         NEW type \in {"NEXT_ITERATION", "NEXT_ITERATION_ERR"}, Receive(c, type)
  PROVE  /\ Done(c) = serverIter[ServerOf[c]]
         /\ Done(c) \in Nat /\ Done(c) < MaxIter
         /\ Syncs(Done(c), failed) = Done(c)
         /\ Done(c) <= released[ServerOf[c]][ITERATION_SYNC]
         /\ type = "NEXT_ITERATION" => Syncs(Done(c) + 1, failed) = Done(c) + 1
         /\ type = "NEXT_ITERATION_ERR" =>
              Done(c) + 1 = MaxIter /\ Syncs(Done(c) + 1, failed) = Done(c)
<1> DEFINE s == ServerOf[c]
           q == chan[c]
           k == clientIter[c]
           rel == released[s][ITERATION_SYNC]
<1>1. /\ q \in Seq(Messages) /\ q # <<>> /\ Head(q).type = type
      /\ k \in Nat /\ k <= MaxIter /\ MaxIter \in Nat /\ s \in Servers
      /\ listening[c] \in Nat \ {0}
  <2>1. q # <<>> /\ Head(q).type = type /\ listening[c] > 0
    BY DEF Receive
  <2>2. listening[c] \in Nat
    BY DEF TypeOK
  <2> QED
    BY <2>1, <2>2, ChannelTypes
<1>2. ChannelOK(q, k, failed)
  BY DEF IInv, ChannelInv
<1>3. /\ Len(q) \in Nat \ {0} /\ q[1] = Head(q)
      /\ NEnds(q) = NEnds(Tail(q)) + 1 /\ NAfter(q, 1) = NEnds(Tail(q))
      /\ NEnds(Tail(q)) \in Nat
  <2>1. One(Head(q)) = 1
    BY <1>1 DEF One, IsEnd
  <2> QED
    BY <1>1, <2>1, TailLemma, EndsLemma
<1>4. Done(c) = k - NEnds(q)
  BY DEF Done
<1>5. Done(c) \in Nat /\ Done(c) < MaxIter
  BY <1>1, <1>2, <1>3, <1>4 DEF ChannelOK
<1>6. serverIter[s] \in Nat /\ rel \in Nat /\ arrived[s][ITERATION_SYNC] \in Nat
  BY <1>1 DEF TypeOK
<1>7. Syncs(Done(c), failed) = Done(c)
  BY <1>1, <1>5 DEF Syncs
<1>8. ServedOK(Done(c), serverIter[s], rel, listening[c], failed)
  BY DEF IInv, ServedInv
<1>9. Done(c) <= rel
  BY <1>1, <1>5, <1>6, <1>7, <1>8 DEF ServedOK
<1>10. Done(c) = serverIter[s]
  <2>1. /\ arrived[s][ITERATION_SYNC] = Syncs(serverIter[s], failed)
        /\ \/ arrived[s][ITERATION_SYNC] = rel
           \/ arrived[s][ITERATION_SYNC] = rel + 1
    BY <1>1 DEF IInv, ServerInv
  <2>2. Syncs(serverIter[s], failed) <= serverIter[s]
    BY <1>1, <1>6 DEF Syncs
  <2>3. rel <= serverIter[s]
    BY <1>6, <2>1, <2>2
  <2> QED
    BY <1>5, <1>6, <1>8, <1>9, <2>3 DEF ServedOK
<1>11. ASSUME type = "NEXT_ITERATION"
       PROVE  Syncs(Done(c) + 1, failed) = Done(c) + 1
  <2>1. NAfter(q, 1) = 0 => ~ (k = MaxIter /\ MaxIter - 1 \in failed)
    BY <1>1, <1>2, <1>3, <1>11 DEF ChannelOK
  <2>2. Done(c) + 1 = MaxIter => k = MaxIter /\ NEnds(Tail(q)) = 0
    BY <1>1, <1>3, <1>4
  <2> QED
    BY <1>3, <2>1, <2>2 DEF Syncs
<1>12. ASSUME type = "NEXT_ITERATION_ERR"
       PROVE  Done(c) + 1 = MaxIter /\ Syncs(Done(c) + 1, failed) = Done(c)
  <2>1. k = MaxIter /\ MaxIter - 1 \in failed /\ NAfter(q, 1) = 0
    BY <1>1, <1>2, <1>3, <1>12 DEF ChannelOK
  <2>2. Done(c) + 1 = MaxIter /\ MaxIter - 1 = Done(c)
    BY <1>1, <1>3, <1>4, <2>1
  <2> QED
    BY <2>1, <2>2 DEF Syncs
<1> QED
  BY <1>5, <1>7, <1>9, <1>10, <1>11, <1>12

(* The counter of a server is the number of its clients that are ahead of  *)
(* it: it advances when the last of them ends the iteration.               *)
LEMMA CountStep ==
  ASSUME TypeOK, IInv, NEW c \in Clients,
         NEW type \in {"NEXT_ITERATION", "NEXT_ITERATION_ERR"}, Receive(c, type),
         StartNextIteration(ServerOf[c]), UNCHANGED <<clientIter, failed>>
  PROVE  /\ Done(c)' = Done(c) + 1
         /\ \A d \in Clients \ {c} : Done(d)' = Done(d)
         /\ \A s \in Servers \ {ServerOf[c]} : serverIter'[s] = serverIter[s]
         /\ serverIter'[ServerOf[c]] =
              IF LastToEnd(ServerOf[c]) THEN serverIter[ServerOf[c]] + 1
                                        ELSE serverIter[ServerOf[c]]
         /\ \A d \in Group(ServerOf[c]) :
              serverIter'[ServerOf[c]] <= Done(d)' /\ Done(d)' <= serverIter'[ServerOf[c]] + 1
         /\ \A s \in Servers : locks'[s] = Cardinality(Counted(s)')
<1> DEFINE z == ServerOf[c]
<1>1. /\ Done(c) = serverIter[z] /\ Done(c) \in Nat
  BY EndMessageLemma
<1>2. One(Head(chan[c])) = 1
  BY DEF Receive, One, IsEnd
<1>3. Done(c)' = Done(c) + 1 /\ \A d \in Clients \ {c} : Done(d)' = Done(d)
  BY <1>2, ReceiveLemma
<1>4. z \in Servers /\ c \in Group(z)
  BY ChannelTypes
<1>5. /\ \A s \in Servers \ {z} : serverIter'[s] = serverIter[s] /\ locks'[s] = locks[s]
      /\ LastToEnd(z) => serverIter'[z] = serverIter[z] + 1 /\ locks'[z] = 0
      /\ ~ LastToEnd(z) => serverIter'[z] = serverIter[z] /\ locks'[z] = locks[z] + 1
  BY <1>4 DEF StartNextIteration, TypeOK
<1>6. \A d \in Group(z) : Done(d) = serverIter[z] \/ Done(d) = serverIter[z] + 1
  <2> SUFFICES ASSUME NEW d \in Group(z)
               PROVE  Done(d) = serverIter[z] \/ Done(d) = serverIter[z] + 1
    OBVIOUS
  <2>1. d \in Clients /\ ServerOf[d] = z /\ Done(d) \in Int
    BY ChannelTypes DEF Group
  <2>2. serverIter[z] <= Done(d) /\ Done(d) <= serverIter[z] + 1
    BY <2>1 DEF IInv, ServedInv, ServedOK
  <2> QED
    BY <1>1, <2>1, <2>2
<1>7. /\ IsFiniteSet(Group(z))
      /\ Counted(z) \in SUBSET Group(z) /\ IsFiniteSet(Counted(z))
      /\ locks[z] = Cardinality(Counted(z)) /\ locks[z] \in Nat
  <2>1. Group(z) \in SUBSET Clients /\ Counted(z) \in SUBSET Group(z)
    BY DEF Group, Counted
  <2>2. IsFiniteSet(Group(z))
    BY <2>1, ProtocolOK, FS_Subset
  <2>3. IsFiniteSet(Counted(z))
    BY <2>1, <2>2, FS_Subset
  <2> QED
    BY <1>4, <2>1, <2>2, <2>3 DEF IInv, ServerInv, TypeOK
<1>8. c \notin Counted(z)
  BY <1>1 DEF Counted
<1>9. /\ Cardinality(Counted(z) \cup {c}) = locks[z] + 1
      /\ IsFiniteSet(Counted(z) \cup {c})
  BY <1>7, <1>8, FS_AddElement
<1>10. \A d \in Group(z) : d \in Clients
  BY DEF Group
<1>11. ASSUME NEW s \in Servers, s # z
       PROVE  locks'[s] = Cardinality(Counted(s)')
  <2>1. \A d \in Group(s) : d \in Clients \ {c}
    BY <1>11 DEF Group
  <2>2. Counted(s)' = Counted(s)
    BY <1>3, <1>5, <1>11, <2>1 DEF Counted, Group
  <2> QED
    BY <1>5, <1>11, <2>2 DEF IInv, ServerInv
<1>12. CASE LastToEnd(z)
  <2>1. Counted(z) \cup {c} = Group(z)
    <3>1. Counted(z) \cup {c} \in SUBSET Group(z)
      BY <1>4, <1>7
    <3>2. Cardinality(Group(z)) = Cardinality(Counted(z) \cup {c})
      BY <1>9, <1>12 DEF LastToEnd
    <3> QED
      BY <1>7, <3>1, <3>2, FS_Subset
  <2>2. \A d \in Group(z) : Done(d)' = serverIter[z] + 1
    <3>1. \A d \in Counted(z) : Done(d) = serverIter[z] + 1
      BY <1>1, <1>6 DEF Counted
    <3> QED
      BY <1>1, <1>3, <1>8, <1>10, <2>1, <3>1
  <2>3. Counted(z)' = {}
    BY <1>1, <1>5, <1>12, <2>2 DEF Counted, Group
  <2>4. locks'[z] = Cardinality(Counted(z)')
    BY <1>5, <1>12, <2>3, FS_EmptySet
  <2> QED
    BY <1>1, <1>3, <1>5, <1>11, <1>12, <2>2, <2>4
<1>13. CASE ~ LastToEnd(z)
  <2>1. Counted(z)' = Counted(z) \cup {c}
    BY <1>1, <1>3, <1>4, <1>5, <1>13 DEF Counted, Group
  <2>2. \A d \in Group(z) : Done(d)' = serverIter[z] \/ Done(d)' = serverIter[z] + 1
    BY <1>1, <1>3, <1>6, <1>10
  <2>3. locks'[z] = Cardinality(Counted(z)')
    BY <1>5, <1>9, <1>13, <2>1
  <2> QED
    BY <1>1, <1>3, <1>5, <1>11, <1>13, <2>2, <2>3
<1> QED
  BY <1>12, <1>13

(* A barrier of one tag, among the servers.                                *)
LEMMA BarrierLemma ==
  ASSUME TypeOK, NEW s \in Servers
  PROVE  /\ serverIter[s] \in Nat
         /\ arrived[s][ITERATION_SYNC] \in Nat /\ released[s][ITERATION_SYNC] \in Nat
         /\ Barrier!Arrive(s, ITERATION_SYNC) =>
              /\ arrived'[s][ITERATION_SYNC] = arrived[s][ITERATION_SYNC] + 1
              /\ \A r \in Servers \ {s} : arrived'[r] = arrived[r]
              /\ UNCHANGED released
         /\ Barrier!Release(s, ITERATION_SYNC) =>
              /\ released'[s][ITERATION_SYNC] = released[s][ITERATION_SYNC] + 1
              /\ \A r \in Servers \ {s} : released'[r] = released[r]
              /\ UNCHANGED arrived
<1>1. /\ serverIter \in [Servers -> Nat]
      /\ arrived \in [Servers -> [{ITERATION_SYNC} -> Nat]]
      /\ released \in [Servers -> [{ITERATION_SYNC} -> Nat]]
  BY DEF TypeOK
<1> QED
  BY <1>1 DEF Barrier!Arrive, Barrier!Release

(* An iteration ends well: the last client of a server starts a Sync, and  *)
(* none is under way, as the client would not be listened to.              *)
LEMMA OnNextIterationStep ==
  ASSUME TypeOK, IInv, NEW c \in Clients, OnNextIteration(c)
  PROVE  IInv'
<1> DEFINE z == ServerOf[c]
<1>1. /\ Receive(c, "NEXT_ITERATION") /\ StartNextIteration(z)
      /\ listening' = [listening EXCEPT ![c] = @ - 1]
      /\ IF LastToEnd(z) THEN Sync(z) ELSE UNCHANGED barrierVars
      /\ UNCHANGED <<clientIter, errorOccured, reduced, failed>>
  BY DEF OnNextIteration, clientVars
<1>2. /\ Done(c) = serverIter[z] /\ Done(c) \in Nat
      /\ Syncs(Done(c), failed) = Done(c)
      /\ Done(c) <= released[z][ITERATION_SYNC]
      /\ Syncs(Done(c) + 1, failed) = Done(c) + 1
  BY <1>1, EndMessageLemma
<1>3. /\ Done(c)' = Done(c) + 1
      /\ \A d \in Clients \ {c} : Done(d)' = Done(d)
      /\ \A s \in Servers \ {z} : serverIter'[s] = serverIter[s]
      /\ serverIter'[z] = IF LastToEnd(z) THEN serverIter[z] + 1 ELSE serverIter[z]
      /\ \A d \in Group(z) : serverIter'[z] <= Done(d)' /\ Done(d)' <= serverIter'[z] + 1
      /\ \A s \in Servers : locks'[s] = Cardinality(Counted(s)')
  BY <1>1, CountStep
<1>4. z \in Servers /\ c \in Group(z) /\ ChannelInv'
  BY <1>1, ChannelTypes, ReceiveLemma
<1>5. AgreeInv'
  BY <1>1 DEF IInv, AgreeInv
<1>6. /\ arrived[z][ITERATION_SYNC] = serverIter[z]
      /\ released[z][ITERATION_SYNC] = serverIter[z]
  <2>1. arrived[z][ITERATION_SYNC] = Syncs(serverIter[z], failed)
    BY <1>4 DEF IInv, ServerInv
  <2>2. \/ arrived[z][ITERATION_SYNC] = released[z][ITERATION_SYNC]
        \/ arrived[z][ITERATION_SYNC] = released[z][ITERATION_SYNC] + 1
    BY <1>4 DEF IInv, ServerInv
  <2> QED
    BY <1>2, <1>4, <2>1, <2>2, BarrierLemma
<1>7. /\ \A s \in Servers \ {z} : arrived'[s] = arrived[s]
      /\ arrived'[z][ITERATION_SYNC] = serverIter'[z]
      /\ UNCHANGED released
  <2>1. CASE LastToEnd(z)
    <3>1. Barrier!Arrive(z, ITERATION_SYNC)
      BY <1>1, <1>6, <2>1 DEF Sync
    <3> QED
      BY <1>3, <1>4, <1>6, <2>1, <3>1, BarrierLemma
  <2>2. CASE ~ LastToEnd(z)
    BY <1>1, <1>3, <1>6, <2>2 DEF barrierVars
  <2> QED
    BY <2>1, <2>2
<1>8. Syncs(serverIter'[z], failed) = serverIter'[z]
  BY <1>2, <1>3
<1>9. ServerInv'
  <2> SUFFICES ASSUME NEW s \in Servers
               PROVE  /\ arrived'[s][ITERATION_SYNC] = Syncs(serverIter'[s], failed')
                      /\ \/ arrived'[s][ITERATION_SYNC] = released'[s][ITERATION_SYNC]
                         \/ arrived'[s][ITERATION_SYNC] = released'[s][ITERATION_SYNC] + 1
                      /\ Group(s) = {} => serverIter'[s] = 0
                      /\ locks'[s] = Cardinality(Counted(s)')
    BY DEF ServerInv, Group
  <2>1. CASE s = z
    BY <1>1, <1>2, <1>3, <1>4, <1>6, <1>7, <1>8, <2>1
  <2>2. CASE s # z
    BY <1>1, <1>3, <1>7, <2>2 DEF IInv, ServerInv
  <2> QED
    BY <2>1, <2>2
<1>10. ServedInv'
  <2> SUFFICES ASSUME NEW d \in Clients
               PROVE  ServedOK(Done(d)', serverIter'[ServerOf[d]],
                        released'[ServerOf[d]][ITERATION_SYNC], listening'[d], failed')
    BY DEF ServedInv
  <2>1. ServedOK(Done(d), serverIter[ServerOf[d]],
                 released[ServerOf[d]][ITERATION_SYNC], listening[d], failed)
    BY DEF IInv, ServedInv
  <2>2. listening[d] \in Nat /\ listening'[d] = IF d = c THEN listening[d] - 1 ELSE listening[d]
    BY <1>1 DEF TypeOK
  <2>3. ServerOf[d] \in Servers /\ (ServerOf[d] = z => d \in Group(z))
    BY ChannelTypes DEF Group
  <2>4. CASE d = c
    BY <1>1, <1>2, <1>3, <1>4, <1>6, <1>7, <2>1, <2>2, <2>4 DEF ServedOK
  <2>5. CASE d # c /\ ServerOf[d] = z
    BY <1>1, <1>3, <1>7, <2>1, <2>2, <2>3, <2>5 DEF ServedOK
  <2>6. CASE d # c /\ ServerOf[d] # z
    BY <1>1, <1>3, <1>7, <2>1, <2>2, <2>3, <2>6 DEF ServedOK
  <2> QED
    BY <2>4, <2>5, <2>6
<1> QED
  BY <1>4, <1>5, <1>9, <1>10 DEF IInv

(* The last iteration ends with errors: the barrier is left alone, and has *)
(* been passed for all the iterations before.                              *)
LEMMA OnNextIterationWithErrorsStep ==
  ASSUME TypeOK, IInv, NEW c \in Clients, OnNextIterationWithErrors(c)
  PROVE  IInv'
<1> DEFINE z == ServerOf[c]
<1>1. /\ Receive(c, "NEXT_ITERATION_ERR") /\ StartNextIteration(z)
      /\ UNCHANGED <<clientIter, errorOccured, reduced, failed, listening, arrived, released>>
  BY DEF OnNextIterationWithErrors, clientVars, barrierVars
<1>2. /\ Done(c) = serverIter[z] /\ Done(c) \in Nat
      /\ Syncs(Done(c), failed) = Done(c)
      /\ Done(c) <= released[z][ITERATION_SYNC]
      /\ Syncs(Done(c) + 1, failed) = Done(c)
  BY <1>1, EndMessageLemma
<1>3. /\ Done(c)' = Done(c) + 1
      /\ \A d \in Clients \ {c} : Done(d)' = Done(d)
      /\ \A s \in Servers \ {z} : serverIter'[s] = serverIter[s]
      /\ serverIter'[z] = IF LastToEnd(z) THEN serverIter[z] + 1 ELSE serverIter[z]
      /\ \A d \in Group(z) : serverIter'[z] <= Done(d)' /\ Done(d)' <= serverIter'[z] + 1
      /\ \A s \in Servers : locks'[s] = Cardinality(Counted(s)')
  BY <1>1, CountStep
<1>4. z \in Servers /\ c \in Group(z) /\ ChannelInv'
  BY <1>1, ChannelTypes, ReceiveLemma
<1>5. AgreeInv'
  BY <1>1 DEF IInv, AgreeInv
<1>6. Syncs(serverIter'[z], failed) = Syncs(serverIter[z], failed)
  BY <1>2, <1>3
<1>7. ServerInv'
  <2> SUFFICES ASSUME NEW s \in Servers
               PROVE  /\ arrived[s][ITERATION_SYNC] = Syncs(serverIter'[s], failed)
                      /\ \/ arrived[s][ITERATION_SYNC] = released[s][ITERATION_SYNC]
                         \/ arrived[s][ITERATION_SYNC] = released[s][ITERATION_SYNC] + 1
                      /\ Group(s) = {} => serverIter'[s] = 0
                      /\ locks'[s] = Cardinality(Counted(s)')
    BY <1>1 DEF ServerInv, Group
  <2>1. CASE s = z
    BY <1>3, <1>4, <1>6, <2>1 DEF IInv, ServerInv
  <2>2. CASE s # z
    BY <1>3, <2>2 DEF IInv, ServerInv
  <2> QED
    BY <2>1, <2>2
<1>8. ServedInv'
  <2> SUFFICES ASSUME NEW d \in Clients
               PROVE  ServedOK(Done(d)', serverIter'[ServerOf[d]],
                        released[ServerOf[d]][ITERATION_SYNC], listening[d], failed)
    BY <1>1 DEF ServedInv
  <2>1. ServedOK(Done(d), serverIter[ServerOf[d]],
                 released[ServerOf[d]][ITERATION_SYNC], listening[d], failed)
    BY DEF IInv, ServedInv
  <2>2. ServerOf[d] \in Servers /\ (ServerOf[d] = z => d \in Group(z))
    BY ChannelTypes DEF Group
  <2>3. CASE d = c
    BY <1>2, <1>3, <1>4, <2>1, <2>3 DEF ServedOK
  <2>4. CASE d # c /\ ServerOf[d] = z
    BY <1>3, <2>1, <2>2, <2>4 DEF ServedOK
  <2>5. CASE d # c /\ ServerOf[d] # z
    BY <1>3, <2>1, <2>2, <2>5 DEF ServedOK
  <2> QED
    BY <2>3, <2>4, <2>5
<1> QED
  BY <1>4, <1>5, <1>7, <1>8 DEF IInv

(* A server comes back from the barrier: no client of it is listened to,   *)
(* it has ended the iteration that the barrier is for and not failed it.   *)
LEMMA ReleaseLemma ==
  ASSUME TypeOK, IInv, NEW s \in Servers, Barrier!Release(s, ITERATION_SYNC)
  PROVE  /\ arrived[s][ITERATION_SYNC] = released[s][ITERATION_SYNC] + 1
         /\ serverIter[s] = released[s][ITERATION_SYNC] + 1
         /\ \A c \in Group(s) : listening[c] = 0
         /\ \A r \in Servers : serverIter[s] <= serverIter[r]
<1> DEFINE rel == released[s][ITERATION_SYNC]
           arr(r) == arrived[r][ITERATION_SYNC]
<1>1. /\ serverIter[s] \in Nat /\ rel \in Nat /\ MaxIter \in Nat
      /\ \A r \in Servers : arr(r) \in Nat /\ serverIter[r] \in Nat
  BY BarrierLemma, ProtocolOK
<1>2. \A r \in Servers : rel < arr(r)
  BY DEF Barrier!Release
<1>3. \A r \in Servers : arr(r) = Syncs(serverIter[r], failed)
  BY DEF IInv, ServerInv
<1>4. arr(s) = rel + 1
  BY <1>1, <1>2 DEF IInv, ServerInv
<1>5. ASSUME NEW c \in Group(s)
      PROVE  /\ listening[c] = 0
             /\ Syncs(serverIter[s], failed) = serverIter[s]
  <2>1. ServedOK(Done(c), serverIter[s], rel, listening[c], failed)
    BY DEF Group, IInv, ServedInv
  <2>2. Done(c) \in Int /\ listening[c] \in Nat
    BY ChannelTypes DEF Group, TypeOK
  <2>3. Syncs(Done(c), failed) >= Syncs(serverIter[s], failed)
    BY <1>1, <2>1, <2>2 DEF ServedOK, Syncs
  <2>4. listening[c] = 0
    BY <1>1, <1>3, <1>4, <2>1, <2>2, <2>3 DEF ServedOK, Syncs
  <2>5. Syncs(serverIter[s], failed) = serverIter[s]
    BY <1>1, <1>3, <1>4, <2>1, <2>2 DEF ServedOK, Syncs
  <2> QED
    BY <2>4, <2>5
<1>6. serverIter[s] = rel + 1
  <2>1. CASE Group(s) = {}
    <3>1. serverIter[s] = 0
      BY <2>1 DEF IInv, ServerInv
    <3>2. Syncs(0, failed) <= 0
      BY <1>1 DEF Syncs
    <3> QED
      BY <1>1, <1>3, <1>4, <3>1, <3>2
  <2>2. CASE Group(s) # {}
    BY <1>3, <1>4, <1>5, <2>2
  <2> QED
    BY <2>1, <2>2
<1>7. ASSUME NEW r \in Servers
      PROVE  serverIter[s] <= serverIter[r]
  <2>1. Syncs(serverIter[r], failed) <= serverIter[r]
    BY <1>1 DEF Syncs
  <2> QED
    BY <1>1, <1>2, <1>3, <1>6, <2>1
<1> QED
  BY <1>4, <1>5, <1>6, <1>7

(* The server listens to its clients again: to none of them twice.         *)
LEMMA EndOfIterationStep ==
  ASSUME TypeOK, IInv, NEW s \in Servers, EndOfIteration(s)
  PROVE  IInv'
<1>1. /\ Barrier!Release(s, ITERATION_SYNC)
      /\ listening' = [c \in Clients |-> IF c \in Group(s) THEN listening[c] + 1
                                                           ELSE listening[c]]
      /\ UNCHANGED <<clientIter, errorOccured, reduced, failed, chan, serverIter, locks>>
  BY DEF EndOfIteration, clientVars
<1>2. AgreeInv' /\ ChannelInv'
  BY <1>1 DEF IInv, AgreeInv, ChannelInv
<1>3. \A c \in Clients : Done(c)' = Done(c)
  BY <1>1 DEF Done
<1>4. /\ arrived[s][ITERATION_SYNC] = released[s][ITERATION_SYNC] + 1
      /\ serverIter[s] = released[s][ITERATION_SYNC] + 1
      /\ \A c \in Group(s) : listening[c] = 0
      /\ released[s][ITERATION_SYNC] \in Nat
      /\ released'[s][ITERATION_SYNC] = released[s][ITERATION_SYNC] + 1
      /\ \A r \in Servers \ {s} : released'[r] = released[r]
      /\ UNCHANGED arrived
  BY <1>1, BarrierLemma, ReleaseLemma
<1>5. ServedInv'
  <2> SUFFICES ASSUME NEW c \in Clients
               PROVE  ServedOK(Done(c), serverIter[ServerOf[c]],
                        released'[ServerOf[c]][ITERATION_SYNC], listening'[c], failed)
    BY <1>1, <1>3 DEF ServedInv
  <2>1. ServedOK(Done(c), serverIter[ServerOf[c]],
                 released[ServerOf[c]][ITERATION_SYNC], listening[c], failed)
    BY DEF IInv, ServedInv
  <2>2. Done(c) \in Int /\ ServerOf[c] \in Servers /\ MaxIter \in Nat
    BY ChannelTypes
  <2>3. CASE ServerOf[c] = s
    <3>1. listening[c] = 0 /\ listening'[c] = 1
      BY <1>1, <1>4, <2>3 DEF Group
    <3>2. Syncs(Done(c), failed) \in Int
      BY <2>2 DEF Syncs
    <3> QED
      BY <1>4, <2>1, <2>2, <2>3, <3>1, <3>2 DEF ServedOK
  <2>4. CASE ServerOf[c] # s
    <3>1. listening'[c] = listening[c]
      BY <1>1, <2>4 DEF Group
    <3> QED
      BY <1>4, <2>1, <2>2, <2>4, <3>1
  <2> QED
    BY <2>3, <2>4
<1>6. ServerInv'
  <2> SUFFICES ASSUME NEW r \in Servers
               PROVE  /\ arrived[r][ITERATION_SYNC] = Syncs(serverIter[r], failed)
                      /\ \/ arrived[r][ITERATION_SYNC] = released'[r][ITERATION_SYNC]
                         \/ arrived[r][ITERATION_SYNC] = released'[r][ITERATION_SYNC] + 1
                      /\ Group(r) = {} => serverIter[r] = 0
                      /\ locks[r] = Cardinality(Counted(r)')
    BY <1>1, <1>4 DEF ServerInv, Group
  <2>1. Counted(r)' = Counted(r)
    BY <1>1, <1>3 DEF Counted, Group
  <2> QED
    BY <1>4, <2>1 DEF IInv, ServerInv
<1> QED
  BY <1>2, <1>5, <1>6 DEF IInv

(* Every step keeps the invariant, if failures come last.                  *)
LEMMA IInvStep ==
  ASSUME LateFailures, TypeOK, IInv, [Next]_vars
  PROVE  IInv'
<1>1. CASE UNCHANGED vars
  <2>1. UNCHANGED <<clientIter, errorOccured, reduced, failed, chan, serverIter,
                    locks, listening, arrived, released>>
    BY <1>1 DEF vars, clientVars, serverVars, barrierVars
  <2>2. \A c \in Clients : Done(c)' = Done(c)
    BY <2>1 DEF Done
  <2>3. ServedInv' /\ ServerInv'
    BY <2>1, <2>2, ServersKept
  <2> QED
    BY <2>1, <2>3 DEF IInv, AgreeInv, ChannelInv
<1>2. CASE \E c \in Clients : ClientStep(c)
  BY <1>2, SendStep, WriteFailsStep, EnterAllreduceStep, EndIterationStep DEF ClientStep
<1>3. CASE \E c \in Clients : OnHeader(c)
  BY <1>3, OtherMessageStep, OnNextIterationStep, OnNextIterationWithErrorsStep DEF OnHeader
<1>4. CASE \E s \in Servers : EndOfIteration(s)
  BY <1>4, EndOfIterationStep
<1> QED
  BY <1>1, <1>2, <1>3, <1>4 DEF Next

(* So it always holds.                                                     *)
LEMMA Inductive ==
  ASSUME LateFailures
  PROVE  Spec => []IInv
<1>1. TypeOK /\ IInv /\ [Next]_vars => IInv'
  BY IInvStep
<1> QED
  BY <1>1, IInvInit, Types, PTL DEF Spec, SafeSpec

(* What the properties call the ended iterations is what is counted here.  *)
LEMMA EndedLemma == TypeOK => \A c \in Clients : Ended(c) = Done(c)
<1> SUFFICES ASSUME TypeOK, NEW c \in Clients
             PROVE  Ended(c) = Done(c)
  OBVIOUS
<1>1. EndMessages(c) = Ends(chan[c])
  BY DEF EndMessages, Ends, IsEnd, TypeOK
<1> QED
  BY <1>1 DEF Ended, Done, NEnds

(* At most one receive is posted per client, whatever the number of        *)
(* clients and of servers (Server.cpp:164-174, 275-283).                   *)
THEOREM Listeners ==
  ASSUME LateFailures
  PROVE  Spec => []OneListener
<1>1. IInv => OneListener
  BY DEF IInv, ServedInv, ServedOK, OneListener
<1> QED
  BY <1>1, Inductive, PTL

(* No server's iteration ends before it has handled the end of it of each  *)
(* of its clients (Environment.cpp:613-633, which counts messages).        *)
THEOREM ServersFollow ==
  ASSUME LateFailures
  PROVE  Spec => []NoRunAhead
<1>1. TypeOK /\ IInv => NoRunAhead
  BY EndedLemma DEF IInv, ServedInv, ServedOK, NoRunAhead
<1> QED
  BY <1>1, Inductive, Types, PTL

(* When a server stores an iteration, every client of every server has     *)
(* ended it, and nothing its own clients wrote in it is still to come      *)
(* (Server.cpp:140-200).                                                   *)
THEOREM StoredIterations ==
  ASSUME LateFailures
  PROVE  Spec => StoresCompleteIterations
<1> DEFINE Complete(s) ==
      /\ \A c \in Clients : Ended(c) >= serverIter[s]
      /\ \A c \in Group(s) : \A i \in DOMAIN chan[c] :
           chan[c][i].type = "WRITE" => chan[c][i].iteration >= serverIter[s]
<1>1. ASSUME TypeOK, IInv, NEW s \in Servers, EndOfIteration(s)
      PROVE  Complete(s)
  <2>1. Barrier!Release(s, ITERATION_SYNC)
    BY <1>1 DEF EndOfIteration
  <2>2. \A r \in Servers : serverIter[s] <= serverIter[r] /\ serverIter[r] \in Nat
    BY <1>1, <2>1, ReleaseLemma, BarrierLemma
  <2>3. ASSUME NEW c \in Clients
        PROVE  Ended(c) >= serverIter[s] /\ Ended(c) = Done(c)
    <3>1. Ended(c) = Done(c) /\ Done(c) \in Int /\ ServerOf[c] \in Servers
      BY <1>1, EndedLemma, ChannelTypes
    <3>2. serverIter[ServerOf[c]] <= Done(c)
      BY <1>1 DEF IInv, ServedInv, ServedOK
    <3> QED
      BY <2>2, <3>1, <3>2
  <2>4. ASSUME NEW c \in Group(s), NEW i \in DOMAIN chan[c], chan[c][i].type = "WRITE"
        PROVE  chan[c][i].iteration >= serverIter[s]
    <3>1. /\ c \in Clients /\ chan[c] \in Seq(Messages) /\ i \in 1 .. Len(chan[c])
          /\ clientIter[c] \in Nat
      BY <1>1, ChannelTypes DEF Group
    <3>2. clientIter[c] - NAfter(chan[c], i) <= chan[c][i].iteration
      BY <1>1, <2>4, <3>1 DEF IInv, ChannelInv, ChannelOK
    <3>3. /\ NAfter(chan[c], i) <= NEnds(chan[c])
          /\ NAfter(chan[c], i) \in Nat /\ NEnds(chan[c]) \in Nat
      <4>1. i \in Nat
        BY <3>1, LenProperties
      <4> QED
        BY <3>1, <4>1, EndsLemma
    <3>4. clientIter[c] - NEnds(chan[c]) >= serverIter[s]
      BY <2>3, <3>1 DEF Done
    <3>5. chan[c][i].iteration \in Nat
      <4>1. chan[c][i] \in Messages
        BY <3>1
      <4> QED
        BY <4>1 DEF Messages
    <3> QED
      BY <2>2, <3>1, <3>2, <3>3, <3>4, <3>5
  <2> QED
    BY <2>3, <2>4
<1>2. ASSUME TypeOK, IInv, [Next]_vars, NEW s \in Servers, released'[s] # released[s]
      PROVE  Complete(s)
  <2>1. ASSUME NEW c \in Clients, ClientStep(c)
        PROVE  UNCHANGED released
    BY <2>1 DEF ClientStep, Write, WriteFails, EnterAllreduce, EndIteration, StopServer,
                barrierVars
  <2>2. ASSUME NEW c \in Clients, OnHeader(c)
        PROVE  UNCHANGED released
    BY <2>2 DEF OnHeader, OnWrite, OnNextIteration, OnNextIterationWithErrors, OnStop,
                Sync, Barrier!Arrive, barrierVars
  <2>3. CASE UNCHANGED vars
    BY <1>2, <2>3 DEF vars, barrierVars
  <2>4. ASSUME NEW r \in Servers, EndOfIteration(r)
        PROVE  r = s
    BY <1>2, <2>4, BarrierLemma DEF EndOfIteration
  <2> QED
    BY <1>1, <1>2, <2>1, <2>2, <2>3, <2>4 DEF Next
<1>3. TypeOK /\ IInv /\ [Next]_vars =>
        [\A s \in Servers : released'[s] # released[s] => Complete(s)]_vars
  BY <1>2
<1> QED
  BY <1>3, Inductive, Types, PTL DEF Spec, SafeSpec, StoresCompleteIterations
============================================================================
