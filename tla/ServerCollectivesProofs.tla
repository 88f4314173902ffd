---------------------- MODULE ServerCollectivesProofs ----------------------
(***************************************************************************)
(* The servers together.  What is proved of broadcasts holds of them among *)
(* the servers: whatever else a server does, waits for, or broadcasts from *)
(* inside a handler, is a step of ReactorBcast, or one it does not see.    *)
(* Then what blocks them side by side: the sections of VisIt, and the      *)
(* collective calls on the files, which follow from what the clients have  *)
(* sent when the wave of the barrier comes.                                *)
(***************************************************************************)
EXTENDS ServerCollectives, ReactorBcastProofs, WellFoundedInduction

LEMMA HandlerStep ==
  ASSUME NEW p \in Proc, Handler(p)
  PROVE  Next \/ UNCHANGED bcastVars
<1>1. ASSUME NEW c \in Clients, OnBcastAction(p, c)
      PROVE  Next
  <2>1. Broadcast(p, BCAST_EVENT) \/ BroadcastRefused(p, BCAST_EVENT)
    BY <1>1 DEF OnBcastAction
  <2> QED
    BY <2>1, CollectivesOK DEF Next
<1>2. ASSUME NEW c \in Clients, OnWrite(p, c) \/ OnNextIteration(p, c) \/ OnStop(p, c)
      PROVE  UNCHANGED bcastVars
  BY <1>2 DEF OnWrite, OnNextIteration, OnStop
<1>3. ASSUME EndOfIteration(p)
      PROVE  UNCHANGED bcastVars
  BY <1>3 DEF EndOfIteration
<1>4. ASSUME OnBcast(p)
      PROVE  Next
  BY <1>4 DEF OnBcast, Callback, Next
<1> QED
  BY <1>1, <1>2, <1>3, <1>4 DEF Handler

LEMMA ServersStep == [NextServers]_vars => [Next]_bcastVars
<1> SUFFICES ASSUME [NextServers]_vars
             PROVE  Next \/ UNCHANGED bcastVars
  OBVIOUS
<1>1. CASE \E p \in Proc : Handler(p)
  BY <1>1, HandlerStep
<1>2. CASE \E p \in Proc : LeavePollSome(p)
  BY <1>2 DEF LeavePollSome
<1>3. CASE \E p \in Proc : FileCallReturns(p)
  BY <1>3 DEF FileCallReturns
<1>4. CASE \E p \in Proc : OnCall(p)
  BY <1>4 DEF OnCall, Next
<1>5. CASE Connected
  <2>1. Broadcast(0, VISIT_CONNECTED) \/ BroadcastRefused(0, VISIT_CONNECTED)
    BY <1>5 DEF Connected, DetectInput
  <2> QED
    BY <2>1, CollectivesOK, ProcLemma DEF Next
<1>6. CASE \E p \in Proc : VisItCallReturns(p)
  BY <1>6 DEF VisItCallReturns
<1>7. CASE UNCHANGED vars
  BY <1>7 DEF vars
<1> QED
  BY <1>1, <1>2, <1>3, <1>4, <1>5, <1>6, <1>7 DEF NextServers

(* The servers' broadcasts are those of the reactor, whatever handlers     *)
(* they come from (Server::OnBcastAction, VisItListener, Server::Run).     *)
THEOREM ServersBroadcast == ServersSpec => Spec
<1>1. InitServers => Init
  BY DEF InitServers
<1> QED
  BY <1>1, ServersStep, PTL DEF ServersSpec, Spec

(* Among any number of servers, in any tree and any configuration, every   *)
(* event and every call for VisIt is entered by all in one order and       *)
(* brings what its caller gave (MPI2Reactor::Broadcast, BcastCallback).    *)
THEOREM ServersAgree == ServersSpec => []BroadcastInv
  BY ServersBroadcast, BroadcastsAgree, PTL

(* So it does as a whole: the servers' events are a totally ordered        *)
(* broadcast (Reactor.hpp:168-176).                                        *)
THEOREM ServersRefine == ServersSpec => ImplementsAtomicBroadcast
  BY ServersBroadcast, TreeIsAtomicBroadcast, PTL
----------------------------------------------------------------------------
(* VisIt is asked for news when the last were broadcast and dealt with: a  *)
(* buffer, a call under way and a section each keep visitstate_ from 0.    *)
VisItInv ==
  /\ visitstate \in [Proc -> 0..2]
  /\ section \in [Proc -> {"out", "state", "command", "PROCESS", "SUCCESS", "FAILURE"}]
  /\ \A q \in Proc \ {0} : \A i \in 1..Len(toLeader[q]) :
       toLeader[q][i].tag # VISIT_CONNECTED
  /\ buffer[0][VISIT_CONNECTED] # 0 => visitstate[0] # 0
  /\ InBcast(0) => section[0] = "out"
  /\ InBcast(0) /\ Current(0).tag = VISIT_CONNECTED
       => buffer[0][VISIT_CONNECTED] = 0 /\ visitstate[0] # 0
  /\ section[0] # "out" => buffer[0][VISIT_CONNECTED] = 0

LEMMA TagsLemma ==
  /\ BCAST_EVENT \in Tags /\ VISIT_CONNECTED \in Tags
  /\ BCAST_EVENT # VISIT_CONNECTED
  BY CollectivesOK DEF BCAST_EVENT, VISIT_CONNECTED

LEMMA VisItInit == InitServers => VisItInv
  BY ProcLemma, TagsLemma, EmptySeq DEF InitServers, Init, VisItInv, InBcast

(* Broadcast, whoever calls it, whatever is broadcast.                     *)
LEMMA AnnounceLemma ==
  ASSUME IInv, NEW p \in Proc, NEW t \in Tags, Broadcast(p, t) \/ BroadcastRefused(p, t)
  PROVE  /\ UNCHANGED <<entered, called>>
         /\ \A q \in Proc, u \in Tags : q # p \/ u # t => buffer'[q][u] = buffer[q][u]
         /\ \A q \in Proc \ {p} : toLeader'[q] = toLeader[q]
         /\ \A i \in 1 .. Len(toLeader'[p]) :
              \/ i \in 1 .. Len(toLeader[p]) /\ toLeader'[p][i] = toLeader[p][i]
              \/ toLeader'[p][i].tag = t
         /\ buffer[p][t] = 0 => buffer'[p][t] = made'[p]
<1>1. CASE BroadcastRefused(p, t)
  BY <1>1 DEF BroadcastRefused
<1>2. CASE Broadcast(p, t)
  <2>0. made[p] + 1 \in 1 .. MaxBroadcasts
    BY <1>2, BcastOK DEF IInv, TypeOK, Broadcast, MayBroadcast
  <2>1. PICK m \in Messages : m = [root |-> p, tag |-> t, value |-> made[p] + 1]
    BY <2>0 DEF Messages
  <2>2. /\ made' = [made EXCEPT ![p] = @ + 1]
        /\ buffer' = [buffer EXCEPT ![p][t] = made[p] + 1]
        /\ toLeader' = [toLeader EXCEPT ![p] = Append(@, m)]
        /\ UNCHANGED <<entered, called>>
    BY <1>2, <2>1 DEF Broadcast
  <2>3. /\ made \in [Proc -> 0..MaxBroadcasts]
        /\ buffer \in [Proc -> [Tags -> 0..MaxBroadcasts]]
        /\ toLeader \in [Proc -> Seq(Messages)]
    BY DEF IInv, TypeOK
  <2>4. /\ made'[p] = made[p] + 1
        /\ buffer'[p][t] = made[p] + 1
        /\ \A q \in Proc, u \in Tags : q # p \/ u # t => buffer'[q][u] = buffer[q][u]
    BY <2>2, <2>3
  <2>5. /\ \A q \in Proc \ {p} : toLeader'[q] = toLeader[q]
        /\ Len(toLeader[p]) \in Nat
        /\ Len(toLeader'[p]) = Len(toLeader[p]) + 1
        /\ \A i \in 1 .. Len(toLeader[p]) : toLeader'[p][i] = toLeader[p][i]
        /\ toLeader'[p][Len(toLeader[p]) + 1] = m
    BY <2>1, <2>2, <2>3, GrowLemma
  <2>6. \A i \in 1 .. Len(toLeader'[p]) :
          i \in 1 .. Len(toLeader[p]) \/ i = Len(toLeader[p]) + 1
    BY <2>5
  <2> QED
    BY <2>1, <2>2, <2>4, <2>5, <2>6
<1> QED
  BY <1>1, <1>2

(* A handler that leaves the reactor, and VisIt, alone.                    *)
LEMMA VisItKept ==
  ASSUME VisItInv, UNCHANGED <<buffer, toLeader, entered, called, visitstate, section>>
  PROVE  VisItInv'
  BY DEF VisItInv, InBcast, Current

LEMMA VisItBcastAction ==
  ASSUME IInv, VisItInv, NEW p \in Proc, NEW c \in Clients, OnBcastAction(p, c)
  PROVE  VisItInv'
<1>1. /\ Broadcast(p, BCAST_EVENT) \/ BroadcastRefused(p, BCAST_EVENT)
      /\ UNCHANGED <<visitstate, section>>
  BY DEF OnBcastAction, visitVars
<1>2. /\ UNCHANGED <<entered, called>>
      /\ buffer'[0][VISIT_CONNECTED] = buffer[0][VISIT_CONNECTED]
      /\ \A q \in Proc \ {p} : toLeader'[q] = toLeader[q]
      /\ \A i \in 1 .. Len(toLeader'[p]) :
           \/ i \in 1 .. Len(toLeader[p]) /\ toLeader'[p][i] = toLeader[p][i]
           \/ toLeader'[p][i].tag = BCAST_EVENT
  BY <1>1, AnnounceLemma, TagsLemma, ProcLemma
<1>3. ASSUME NEW q \in Proc \ {0}, NEW i \in 1 .. Len(toLeader'[q])
      PROVE  toLeader'[q][i].tag # VISIT_CONNECTED
  BY <1>2, TagsLemma DEF VisItInv
<1> QED
  BY <1>1, <1>2, <1>3 DEF VisItInv, InBcast, Current

LEMMA VisItConnected ==
  ASSUME IInv, VisItInv, Connected
  PROVE  VisItInv'
<1>1. /\ Broadcast(0, VISIT_CONNECTED) \/ BroadcastRefused(0, VISIT_CONNECTED)
      /\ section' = section /\ section[0] = "out" /\ ~ InBcast(0)
      /\ \E s \in {1, 2} : visitstate' = [visitstate EXCEPT ![0] = s]
  BY DEF Connected, DetectInput, Ready
<1>2. visitstate' \in [Proc -> 0..2] /\ visitstate'[0] # 0
  BY <1>1, ProcLemma DEF VisItInv
<1>3. UNCHANGED <<entered, called>> /\ \A q \in Proc \ {0} : toLeader'[q] = toLeader[q]
  BY <1>1, AnnounceLemma, TagsLemma, ProcLemma
<1> QED
  BY <1>1, <1>2, <1>3 DEF VisItInv, InBcast

(* A message that rank 0 enters for VisIt is its own, from its buffer.     *)
LEMMA VisItLeaderCallback ==
  ASSUME IInv, IInv', VisItInv, NEW q \in Proc, LeaderCallback(q), Ready(0),
         UNCHANGED <<visitstate, section>>
  PROVE  VisItInv'
<1>1. /\ toLeader \in [Proc -> Seq(Messages)]
      /\ toLeader[q] # <<>>
      /\ toLeader' = [toLeader EXCEPT ![q] = Tail(@)]
      /\ called' = called /\ ~ InBcast(0) /\ section[0] = "out"
  BY DEF LeaderCallback, Enter, IInv, TypeOK, Ready
<1>2. PICK m \in Messages : m = Head(toLeader[q])
  BY <1>1, ShrinkLemma
<1>3. /\ m = toLeader[q][1] /\ Len(toLeader[q]) \in Nat \ {0}
      /\ Len(toLeader'[q]) = Len(toLeader[q]) - 1
      /\ \A i \in 1 .. Len(toLeader[q]) - 1 : toLeader'[q][i] = toLeader[q][i + 1]
      /\ \A p \in Proc \ {q} : toLeader'[p] = toLeader[p]
  BY <1>1, <1>2, ShrinkLemma
<1>4. 1 \in 1 .. Len(toLeader[q])
  BY <1>3
<1>5. m.root = q /\ m.tag \in Tags /\ m.value \in 1 .. MaxBroadcasts
      /\ buffer[q][m.tag] = m.value
  BY <1>2, <1>3, <1>4 DEF IInv, BroadcastInv, BufferInv, BufferOf, Messages
<1>6. Enter(0, m) /\ 0 \in Proc
  BY <1>2, ProcLemma DEF LeaderCallback
<1>7. /\ Len(entered[0]) \in Nat
      /\ Len(entered'[0]) = Len(entered[0]) + 1
      /\ entered'[0][Len(entered[0]) + 1] = m
      /\ q # 0 => buffer'[0] = buffer[0]
      /\ q = 0 => \A t \in Tags : buffer'[0][t] = IF t = m.tag THEN 0 ELSE buffer[0][t]
  BY <1>1, <1>2, <1>5, <1>6, EnterLemma, LenLemma, SMTT(30)
<1>8. Current(0)' = m
  BY <1>7 DEF Current
<1>9. m.tag = VISIT_CONNECTED => q = 0
  BY <1>3, <1>4 DEF VisItInv
<1>10. m.tag = VISIT_CONNECTED => buffer'[0][VISIT_CONNECTED] = 0 /\ visitstate[0] # 0
  BY <1>5, <1>7, <1>9, BcastOK DEF VisItInv
<1>11. buffer'[0][VISIT_CONNECTED] # 0 => buffer[0][VISIT_CONNECTED] # 0
  BY <1>7, TagsLemma
<1>12. ASSUME NEW p \in Proc \ {0}, NEW i \in 1 .. Len(toLeader'[p])
       PROVE  toLeader'[p][i].tag # VISIT_CONNECTED
  <2>1. CASE p = q
    <3>1. i + 1 \in 1 .. Len(toLeader[p]) /\ toLeader'[p][i] = toLeader[p][i + 1]
      BY <2>1, <1>3
    <3> QED
      BY <3>1 DEF VisItInv
  <2>2. CASE p # q
    BY <2>2, <1>3 DEF VisItInv
  <2> QED
    BY <2>1, <2>2
<1> QED
  BY <1>1, <1>8, <1>10, <1>11, <1>12 DEF VisItInv

LEMMA VisItChildCallback ==
  ASSUME IInv, VisItInv, NEW p \in Proc, ChildCallback(p), UNCHANGED <<visitstate, section>>
  PROVE  VisItInv'
<1>1. /\ p # 0 /\ UNCHANGED <<toLeader, called>>
      /\ Enter(p, Head(toChild[p]))
      /\ entered \in [Proc -> Seq(Messages)]
      /\ buffer \in [Proc -> [Tags -> 0..MaxBroadcasts]]
  BY DEF ChildCallback, Enter, IInv, TypeOK
<1>2. entered'[0] = entered[0] /\ buffer'[0] = buffer[0]
  BY <1>1, ProcLemma DEF Enter
<1> QED
  BY <1>1, <1>2 DEF VisItInv, InBcast, Current

LEMMA VisItOnCall ==
  ASSUME IInv, VisItInv, NEW p \in Proc, OnCall(p)
  PROVE  VisItInv'
<1>1. /\ InBcast(p) /\ UNCHANGED <<buffer, toLeader, entered, visitstate>>
      /\ called \in [Proc -> Seq(Messages)] /\ 0 \in Proc
      /\ \/ Current(p).tag = VISIT_CONNECTED /\ section' = [section EXCEPT ![p] = "state"]
         \/ Current(p).tag # VISIT_CONNECTED /\ section' = section
  BY ProcLemma DEF OnCall, Call, EnterVisItCall, visitVars, IInv, TypeOK
<1>2. /\ Len(called[p]) + 1 = Len(entered[p])
      /\ Current(p) \in Messages
      /\ called' = [called EXCEPT ![p] = Append(@, Current(p))]
  BY CallLemma DEF OnCall
<1>3. section' \in [Proc -> {"out", "state", "command", "PROCESS", "SUCCESS", "FAILURE"}]
  BY <1>1 DEF VisItInv
<1>4. Len(called'[p]) = Len(entered[p])
  BY <1>1, <1>2, GrowLemma
<1>5. CASE p = 0
  <2>1. ~ InBcast(0)'
    BY <1>1, <1>4, <1>5, LenLemma DEF InBcast
  <2>2. section'[0] # "out" => buffer[0][VISIT_CONNECTED] = 0
    BY <1>1, <1>5 DEF VisItInv
  <2> QED
    BY <2>1, <2>2, <1>1, <1>3 DEF VisItInv
<1>6. CASE p # 0
  <2>1. called'[0] = called[0] /\ section'[0] = section[0]
    BY <1>1, <1>2, <1>6 DEF VisItInv
  <2> QED
    BY <2>1, <1>1, <1>3 DEF VisItInv, InBcast, Current
<1> QED
  BY <1>5, <1>6

LEMMA VisItSection ==
  ASSUME VisItInv, NEW p \in Proc, VisItCallReturns(p)
  PROVE  VisItInv'
<1> DEFINE Where == {"out", "state", "command", "PROCESS", "SUCCESS", "FAILURE"}
<1>1. /\ section[p] # "out" /\ UNCHANGED <<buffer, toLeader, entered, called>>
      /\ IF p = 0 THEN LeaderInSection ELSE FollowerInSection(p)
  BY DEF VisItCallReturns, bcastVars
<1>2. /\ \E s \in Where : section' = [section EXCEPT ![p] = s]
      /\ visitstate' = visitstate \/ \E s \in 0..2 : visitstate' = [visitstate EXCEPT ![p] = s]
  <2>1. CASE p = 0
    BY <2>1, <1>1 DEF LeaderInSection, EnterVisItCall, LeaveSection
  <2>2. CASE p # 0
    BY <2>2, <1>1 DEF FollowerInSection, EnterVisItCall, LeaveSection
  <2> QED
    BY <2>1, <2>2
<1>3. section' \in [Proc -> Where] /\ visitstate' \in [Proc -> 0..2]
  BY <1>2 DEF VisItInv
<1>4. CASE p = 0
  BY <1>1, <1>3, <1>4 DEF VisItInv, InBcast
<1>5. CASE p # 0
  <2>1. section'[0] = section[0] /\ visitstate'[0] = visitstate[0]
    BY <1>2, <1>5, ProcLemma DEF VisItInv
  <2> QED
    BY <2>1, <1>1, <1>3 DEF VisItInv, InBcast, Current
<1> QED
  BY <1>4, <1>5

LEMMA VisItStep == IInv /\ IInv' /\ VisItInv /\ [NextServers]_vars => VisItInv'
<1> SUFFICES ASSUME IInv, IInv', VisItInv, [NextServers]_vars
             PROVE  VisItInv'
  OBVIOUS
<1>1. ASSUME NEW p \in Proc, Handler(p)
      PROVE  VisItInv'
  <2>1. ASSUME NEW c \in Clients, OnBcastAction(p, c)
        PROVE  VisItInv'
    BY <2>1, VisItBcastAction
  <2>2. ASSUME NEW c \in Clients, OnWrite(p, c) \/ OnNextIteration(p, c) \/ OnStop(p, c)
        PROVE  VisItInv'
    BY <2>2, VisItKept DEF OnWrite, OnNextIteration, OnStop, bcastVars, visitVars
  <2>3. ASSUME EndOfIteration(p)
        PROVE  VisItInv'
    BY <2>3, VisItKept DEF EndOfIteration, bcastVars, visitVars
  <2>4. ASSUME OnBcast(p)
        PROVE  VisItInv'
    <3>1. UNCHANGED <<visitstate, section>> /\ Ready(p) /\ Callback(p)
      BY <2>4 DEF OnBcast, visitVars
    <3> QED
      BY <3>1, VisItLeaderCallback, VisItChildCallback DEF Callback
  <2> QED
    BY <1>1, <2>1, <2>2, <2>3, <2>4 DEF Handler
<1>2. CASE \E p \in Proc : LeavePollSome(p)
  BY <1>2, VisItKept DEF LeavePollSome, bcastVars, visitVars
<1>3. CASE \E p \in Proc : FileCallReturns(p)
  BY <1>3, VisItKept DEF FileCallReturns, bcastVars, visitVars
<1>4. CASE \E p \in Proc : OnCall(p)
  BY <1>4, VisItOnCall
<1>5. CASE Connected
  BY <1>5, VisItConnected
<1>6. CASE \E p \in Proc : VisItCallReturns(p)
  BY <1>6, VisItSection
<1>7. CASE UNCHANGED vars
  BY <1>7, VisItKept DEF vars, bcastVars, visitVars
<1> QED
  BY <1>1, <1>2, <1>3, <1>4, <1>5, <1>6, <1>7 DEF NextServers

(* VisIt has news in Connected alone, when the buffer is free; a section   *)
(* leaves visitstate_ as it is, or resets it.                              *)
LEMMA ConnectedBroadcasts ==
  IInv /\ VisItInv /\ [NextServers]_vars =>
    [visitstate'[0] \notin {0, visitstate[0]}
       => buffer'[0][VISIT_CONNECTED] = made'[0]]_vars
<1> SUFFICES ASSUME IInv, VisItInv, NextServers, visitstate'[0] \notin {0, visitstate[0]}
             PROVE  buffer'[0][VISIT_CONNECTED] = made'[0]
  BY DEF vars, visitVars
<1>1. ASSUME NEW p \in Proc, Handler(p)
      PROVE  FALSE
  BY <1>1 DEF Handler, OnBcastAction, OnWrite, OnNextIteration, OnStop, EndOfIteration,
              OnBcast, visitVars
<1>2. ASSUME NEW p \in Proc, LeavePollSome(p) \/ FileCallReturns(p) \/ OnCall(p)
      PROVE  FALSE
  BY <1>2 DEF LeavePollSome, FileCallReturns, OnCall, visitVars
<1>3. ASSUME NEW p \in Proc, VisItCallReturns(p)
      PROVE  FALSE
  <2>1. CASE p = 0
    BY <2>1, <1>3 DEF VisItCallReturns, LeaderInSection, LeaveSection, VisItInv
  <2>2. CASE p # 0
    <3>1. visitstate' = visitstate \/ \E s \in 0..2 : visitstate' = [visitstate EXCEPT ![p] = s]
      BY <2>2, <1>3 DEF VisItCallReturns, FollowerInSection, LeaveSection
    <3> QED
      BY <3>1, <2>2, ProcLemma DEF VisItInv
  <2> QED
    BY <2>1, <2>2
<1>4. CASE Connected
  <2>1. /\ Broadcast(0, VISIT_CONNECTED) \/ BroadcastRefused(0, VISIT_CONNECTED)
        /\ buffer[0][VISIT_CONNECTED] = 0
    BY <1>4 DEF Connected, DetectInput, VisItInv
  <2> QED
    BY <2>1, AnnounceLemma, TagsLemma, ProcLemma
<1> QED
  BY <1>1, <1>2, <1>3, <1>4 DEF NextServers

(* Server::Run and VisItListener may drop what Broadcast answers: it never *)
(* refuses the news of VisIt.                                              *)
THEOREM VisItIsNeverRefused == ServersSpec => VisItNeverRefused
<1>1. ServersSpec => []IInv
  BY ServersBroadcast, Inductive, PTL
<1>2. ServersSpec => []VisItInv
  BY <1>1, VisItInit, VisItStep, PTL DEF ServersSpec
<1> QED
  BY <1>1, <1>2, ConnectedBroadcasts, PTL DEF ServersSpec, VisItNeverRefused
----------------------------------------------------------------------------
(* A section ends with a state that is not a command, or with the outcome  *)
(* of the command; rank 0 and the others know it from the same call, that  *)
(* of rank 0 (VisItListener.cpp:120-217).                                  *)
Outcomes == {"SUCCESS", "FAILURE"}
VisItCalls == [kind : {"state", "command", "PROCESS"} \cup Outcomes,
               value : 0..2 \cup {"PROCESS"} \cup Outcomes]

Final(c) == c.kind \in Outcomes \/ (c.kind = "state" /\ c.value # 2)

(* The n-th call begins a section.                                         *)
Begins(n) == n = 1 \/ Final(visitCalls[0][n - 1])

LeaderLog ==
  /\ \A i \in 1 .. Len(visitCalls[0]) :
       /\ visitCalls[0][i].kind # "command"
       /\ visitCalls[0][i].kind = "state" <=> Begins(i)
       /\ visitCalls[0][i].kind # "state" => visitCalls[0][i].value = visitCalls[0][i].kind
  /\ section[0] = "out" => Begins(Len(visitCalls[0]) + 1)
  /\ section[0] # "out" => /\ Len(visitCalls[0]) # 0
                           /\ visitCalls[0][Len(visitCalls[0])].kind = section[0]
  /\ section[0] = "state" => visitCalls[0][Len(visitCalls[0])].value = visitstate[0]

FollowerLog(p) ==
  /\ \A i \in 1 .. Len(visitCalls[p]) :
       /\ i - 1 <= Len(visitCalls[0])
       /\ visitCalls[p][i].kind = "state" <=> Begins(i)
  /\ section[p] \in {"out", "state", "command"}
  /\ section[p] = "out" => /\ Len(visitCalls[p]) <= Len(visitCalls[0])
                           /\ Begins(Len(visitCalls[p]) + 1)
  /\ section[p] # "out" => /\ Len(visitCalls[p]) # 0
                           /\ visitCalls[p][Len(visitCalls[p])].kind = section[p]

SectionInv ==
  /\ visitCalls \in [Proc -> Seq(VisItCalls)]
  /\ \A p \in Proc : InBcast(p) => section[p] = "out"
  /\ LeaderLog
  /\ \A p \in Proc \ {0} : FollowerLog(p)

(* At the start nobody is in a section.                                    *)
LEMMA SectionInit == InitServers => SectionInv
  BY ProcLemma, EmptySeq
     DEF InitServers, Init, SectionInv, LeaderLog, FollowerLog, Begins, InBcast

(* One more call of p is in its log; what is in the logs stays.            *)
LEMMA EnterCallLemma ==
  ASSUME SectionInv, NEW p \in Proc, NEW c \in VisItCalls,
         visitCalls' = [visitCalls EXCEPT ![p] = Append(@, c)]
  PROVE  /\ visitCalls' \in [Proc -> Seq(VisItCalls)]
         /\ \A q \in Proc : Len(visitCalls[q]) \in Nat
         /\ \A q \in Proc : \A i \in 1 .. Len(visitCalls[q]) :
              visitCalls'[q][i] = visitCalls[q][i]
         /\ \A q \in Proc \ {p} : visitCalls'[q] = visitCalls[q]
         /\ Len(visitCalls'[p]) = Len(visitCalls[p]) + 1
         /\ visitCalls'[p][Len(visitCalls[p]) + 1] = c
         /\ \A n \in 1 .. Len(visitCalls[0]) + 1 : Begins(n)' = Begins(n)
<1>1. visitCalls \in [Proc -> Seq(VisItCalls)] /\ 0 \in Proc
  BY ProcLemma DEF SectionInv
<1>2. /\ visitCalls' \in [Proc -> Seq(VisItCalls)]
      /\ \A q \in Proc \ {p} : visitCalls'[q] = visitCalls[q]
      /\ visitCalls'[p] = Append(visitCalls[p], c)
  BY <1>1, GrowLemma
<1>3. /\ \A q \in Proc : Len(visitCalls[q]) \in Nat
      /\ \A i \in 1 .. Len(visitCalls[p]) : visitCalls'[p][i] = visitCalls[p][i]
      /\ Len(visitCalls'[p]) = Len(visitCalls[p]) + 1
      /\ visitCalls'[p][Len(visitCalls[p]) + 1] = c
  BY <1>1, <1>2, GrowLemma
<1>4. \A q \in Proc : \A i \in 1 .. Len(visitCalls[q]) :
        visitCalls'[q][i] = visitCalls[q][i]
  BY <1>2, <1>3
<1>5. ASSUME NEW n \in 1 .. Len(visitCalls[0]) + 1
      PROVE  Begins(n)' = Begins(n)
  <2>1. n = 1 \/ n - 1 \in 1 .. Len(visitCalls[0])
    BY <1>1, <1>3
  <2> QED
    BY <2>1, <1>1, <1>4 DEF Begins, Final
<1> QED
  BY <1>2, <1>3, <1>4, <1>5

(* Rank 0 enters a call: the others' logs are still its log's beginning.   *)
LEMMA LeaderEnters ==
  ASSUME SectionInv, NEW c \in VisItCalls,
         visitCalls' = [visitCalls EXCEPT ![0] = Append(@, c)],
         section' = [section EXCEPT ![0] = c.kind],
         section \in [Proc -> {"out", "state", "command", "PROCESS", "SUCCESS", "FAILURE"}],
         UNCHANGED visitstate,
         c.kind \notin {"command", "out"},
         c.kind = "state" <=> Begins(Len(visitCalls[0]) + 1),
         c.kind = "state" => c.value = visitstate[0],
         c.kind # "state" => c.value = c.kind
  PROVE  /\ visitCalls' \in [Proc -> Seq(VisItCalls)]
         /\ LeaderLog'
         /\ \A p \in Proc \ {0} : FollowerLog(p)'
<1> DEFINE n == Len(visitCalls[0])
<1>1. /\ 0 \in Proc
      /\ visitCalls' \in [Proc -> Seq(VisItCalls)]
      /\ \A q \in Proc : Len(visitCalls[q]) \in Nat
      /\ \A i \in 1 .. n : visitCalls'[0][i] = visitCalls[0][i]
      /\ \A q \in Proc \ {0} : visitCalls'[q] = visitCalls[q]
      /\ Len(visitCalls'[0]) = n + 1
      /\ visitCalls'[0][n + 1] = c
      /\ \A i \in 1 .. n + 1 : Begins(i)' = Begins(i)
  BY EnterCallLemma, ProcLemma
<1>2. section'[0] = c.kind /\ \A q \in Proc \ {0} : section'[q] = section[q]
  BY <1>1
<1>3. ASSUME NEW i \in 1 .. Len(visitCalls'[0])
      PROVE  /\ visitCalls'[0][i].kind # "command"
             /\ visitCalls'[0][i].kind = "state" <=> Begins(i)'
             /\ visitCalls'[0][i].kind # "state"
                  => visitCalls'[0][i].value = visitCalls'[0][i].kind
  <2>1. CASE i \in 1 .. n
    BY <2>1, <1>1 DEF SectionInv, LeaderLog
  <2>2. CASE i = n + 1
    BY <2>2, <1>1
  <2> QED
    BY <2>1, <2>2, <1>1
<1>4. LeaderLog'
  BY <1>1, <1>2, <1>3 DEF LeaderLog
<1>5. ASSUME NEW p \in Proc \ {0}
      PROVE  FollowerLog(p)'
  <2>1. /\ visitCalls'[p] = visitCalls[p] /\ section'[p] = section[p]
        /\ Len(visitCalls[p]) \in Nat
        /\ FollowerLog(p)
    BY <1>1, <1>2 DEF SectionInv
  <2>2. ASSUME NEW i \in 1 .. Len(visitCalls[p])
        PROVE  /\ i - 1 <= n + 1
               /\ visitCalls[p][i].kind = "state" <=> Begins(i)'
    <3>1. i \in 1 .. n + 1
      BY <2>1, <1>1 DEF FollowerLog
    <3> QED
      BY <3>1, <2>1, <1>1 DEF FollowerLog
  <2>3. section[p] = "out" => /\ Len(visitCalls[p]) <= n + 1
                              /\ Begins(Len(visitCalls[p]) + 1)'
    <3>1. section[p] = "out" => Len(visitCalls[p]) + 1 \in 1 .. n + 1
      BY <2>1, <1>1 DEF FollowerLog
    <3> QED
      BY <3>1, <2>1, <1>1 DEF FollowerLog
  <2> QED
    BY <2>1, <2>2, <2>3, <1>1 DEF FollowerLog
<1> QED
  BY <1>1, <1>4, <1>5

(* Another process enters a call.                                          *)
LEMMA FollowerEnters ==
  ASSUME SectionInv, NEW p \in Proc \ {0}, NEW c \in VisItCalls,
         visitCalls' = [visitCalls EXCEPT ![p] = Append(@, c)],
         section' = [section EXCEPT ![p] = c.kind],
         section \in [Proc -> {"out", "state", "command", "PROCESS", "SUCCESS", "FAILURE"}],
         visitstate'[0] = visitstate[0],
         c.kind \in {"state", "command"},
         Len(visitCalls[p]) <= Len(visitCalls[0]),
         c.kind = "state" <=> Begins(Len(visitCalls[p]) + 1)
  PROVE  /\ visitCalls' \in [Proc -> Seq(VisItCalls)]
         /\ LeaderLog'
         /\ \A q \in Proc \ {0} : FollowerLog(q)'
<1> DEFINE n == Len(visitCalls[p])
<1>1. /\ 0 \in Proc
      /\ visitCalls' \in [Proc -> Seq(VisItCalls)]
      /\ \A q \in Proc : Len(visitCalls[q]) \in Nat
      /\ \A i \in 1 .. n : visitCalls'[p][i] = visitCalls[p][i]
      /\ \A q \in Proc \ {p} : visitCalls'[q] = visitCalls[q]
      /\ Len(visitCalls'[p]) = n + 1
      /\ visitCalls'[p][n + 1] = c
      /\ \A i \in 1 .. Len(visitCalls[0]) + 1 : Begins(i)' = Begins(i)
  BY EnterCallLemma, ProcLemma
<1>2. /\ section'[p] = c.kind /\ \A q \in Proc \ {p} : section'[q] = section[q]
      /\ section'[0] = section[0] /\ visitCalls'[0] = visitCalls[0]
  BY <1>1
<1>3. LeaderLog'
  <2>1. /\ \A i \in 1 .. Len(visitCalls[0]) : Begins(i)' = Begins(i)
        /\ Begins(Len(visitCalls[0]) + 1)' = Begins(Len(visitCalls[0]) + 1)
    BY <1>1
  <2>2. LeaderLog
    BY DEF SectionInv
  <2>3. \A i \in 1 .. Len(visitCalls'[0]) :
          /\ visitCalls'[0][i].kind # "command"
          /\ visitCalls'[0][i].kind = "state" <=> Begins(i)'
          /\ visitCalls'[0][i].kind # "state"
               => visitCalls'[0][i].value = visitCalls'[0][i].kind
    BY <2>1, <2>2, <1>2 DEF LeaderLog
  <2>4. section'[0] = "out" => Begins(Len(visitCalls[0]) + 1)'
    BY <2>1, <2>2, <1>2 DEF LeaderLog
  <2>5. /\ section'[0] # "out" => /\ Len(visitCalls'[0]) # 0
                                  /\ visitCalls'[0][Len(visitCalls'[0])].kind = section'[0]
        /\ section'[0] = "state" => visitCalls'[0][Len(visitCalls'[0])].value = visitstate'[0]
    BY <2>2, <1>2 DEF LeaderLog
  <2> QED
    BY <2>3, <2>4, <2>5 DEF LeaderLog
<1>4. ASSUME NEW i \in 1 .. n + 1
      PROVE  /\ i - 1 <= Len(visitCalls[0])
             /\ visitCalls'[p][i].kind = "state" <=> Begins(i)'
  <2>1. i \in 1 .. Len(visitCalls[0]) + 1
    BY <1>1
  <2>2. CASE i \in 1 .. n
    BY <2>1, <2>2, <1>1 DEF SectionInv, FollowerLog
  <2>3. CASE i = n + 1
    BY <2>1, <2>3, <1>1
  <2> QED
    BY <2>2, <2>3, <1>1
<1>5. FollowerLog(p)'
  BY <1>1, <1>2, <1>4 DEF FollowerLog
<1>6. ASSUME NEW q \in Proc \ {0}, q # p
      PROVE  FollowerLog(q)'
  <2>1. /\ visitCalls'[q] = visitCalls[q] /\ section'[q] = section[q]
        /\ Len(visitCalls[q]) \in Nat /\ FollowerLog(q)
    BY <1>1, <1>2, <1>6 DEF SectionInv
  <2>2. \A i \in 1 .. Len(visitCalls[q]) : i \in 1 .. Len(visitCalls[0]) + 1
    BY <2>1, <1>1 DEF FollowerLog
  <2>3. section[q] = "out" => Len(visitCalls[q]) + 1 \in 1 .. Len(visitCalls[0]) + 1
    BY <2>1, <1>1 DEF FollowerLog
  <2>4. \A i \in 1 .. Len(visitCalls[q]) :
          /\ i - 1 <= Len(visitCalls[0])
          /\ visitCalls[q][i].kind = "state" <=> Begins(i)'
    BY <2>1, <2>2, <1>1 DEF FollowerLog
  <2>5. section[q] = "out" => Begins(Len(visitCalls[q]) + 1)'
    BY <2>1, <2>3, <1>1 DEF FollowerLog
  <2>6. /\ section[q] \in {"out", "state", "command"}
        /\ section[q] = "out" => Len(visitCalls[q]) <= Len(visitCalls[0])
        /\ section[q] # "out" => /\ Len(visitCalls[q]) # 0
                                 /\ visitCalls[q][Len(visitCalls[q])].kind = section[q]
    BY <2>1 DEF FollowerLog
  <2>7. visitCalls'[q] = visitCalls[q] /\ section'[q] = section[q]
        /\ visitCalls'[0] = visitCalls[0]
    BY <2>1, <1>2
  <2> QED
    BY <2>4, <2>5, <2>6, <2>7 DEF FollowerLog
<1> QED
  BY <1>1, <1>3, <1>5, <1>6

(* A step that is none of VisIt's keeps the sections.                      *)
LEMMA SectionKept ==
  ASSUME SectionInv, UNCHANGED <<entered, called, visitstate, section, visitCalls>>
  PROVE  SectionInv'
  BY DEF SectionInv, LeaderLog, FollowerLog, Begins, InBcast

(* Connected begins no section: its broadcast has to come back.            *)
LEMMA SectionConnected ==
  ASSUME IInv, SectionInv, Connected
  PROVE  SectionInv'
<1>1. /\ Broadcast(0, VISIT_CONNECTED) \/ BroadcastRefused(0, VISIT_CONNECTED)
      /\ UNCHANGED <<section, visitCalls>> /\ section[0] = "out"
  BY DEF Connected, DetectInput, Ready
<1>2. UNCHANGED <<entered, called>>
  BY <1>1 DEF Broadcast, BroadcastRefused
<1> QED
  BY <1>1, <1>2 DEF SectionInv, LeaderLog, FollowerLog, Begins, InBcast

(* Nor does the handler of an announced broadcast.                         *)
LEMMA SectionOnBcast ==
  ASSUME IInv, SectionInv, NEW p \in Proc, OnBcast(p)
  PROVE  SectionInv'
<1>1. /\ UNCHANGED <<called, visitstate, section, visitCalls>>
      /\ section[p] = "out"
      /\ \E m : entered' = [entered EXCEPT ![p] = Append(@, m)]
      /\ entered \in [Proc -> Seq(Messages)]
  BY DEF OnBcast, Ready, Callback, LeaderCallback, ChildCallback, Enter, visitVars,
         IInv, TypeOK
<1>2. \A q \in Proc \ {p} : entered'[q] = entered[q]
  BY <1>1
<1>3. \A q \in Proc : InBcast(q)' => section[q] = "out"
  BY <1>1, <1>2 DEF SectionInv, InBcast
<1> QED
  BY <1>1, <1>3 DEF SectionInv, LeaderLog, FollowerLog, Begins

(* EnterSyncSection: a section begins with the state, on every server.     *)
LEMMA SectionOnCall ==
  ASSUME IInv, VisItInv, SectionInv, NEW p \in Proc, OnCall(p)
  PROVE  SectionInv'
<1>1. /\ InBcast(p) /\ Call(p) /\ UNCHANGED <<entered, visitstate>>
      /\ called \in [Proc -> Seq(Messages)] /\ 0 \in Proc
      /\ \/ EnterVisItCall(p, "state", visitstate[p])
         \/ UNCHANGED visitVars
  BY ProcLemma DEF OnCall, Call, visitVars, IInv, TypeOK
<1>2. section[p] = "out"
  BY <1>1 DEF SectionInv
<1>3. /\ Len(called[p]) + 1 = Len(entered[p])
      /\ Current(p) \in Messages
      /\ called' = [called EXCEPT ![p] = Append(@, Current(p))]
  BY <1>1, CallLemma
<1>4. Len(called'[p]) = Len(entered[p]) /\ \A q \in Proc \ {p} : called'[q] = called[q]
  BY <1>1, <1>3, GrowLemma
<1>5. \A q \in Proc : InBcast(q)' => q # p /\ InBcast(q)
  BY <1>1, <1>4, LenLemma DEF InBcast
<1>6. CASE UNCHANGED visitVars
  BY <1>5, <1>6 DEF SectionInv, LeaderLog, FollowerLog, Begins, visitVars
<1>7. CASE EnterVisItCall(p, "state", visitstate[p])
  <2>1. PICK c \in VisItCalls : c = [kind |-> "state", value |-> visitstate[p]]
    BY DEF VisItInv, VisItCalls
  <2>2. /\ visitCalls' = [visitCalls EXCEPT ![p] = Append(@, c)]
        /\ section' = [section EXCEPT ![p] = c.kind]
        /\ c.kind = "state" /\ c.value = visitstate[p]
        /\ section \in [Proc -> {"out", "state", "command", "PROCESS", "SUCCESS", "FAILURE"}]
    BY <1>7, <2>1 DEF EnterVisItCall, VisItInv
  <2>3. \A q \in Proc : InBcast(q)' => section'[q] = "out"
    BY <1>5, <2>2 DEF SectionInv
  <2>4. CASE p = 0
    <3>1. Begins(Len(visitCalls[0]) + 1)
      BY <2>4, <1>2 DEF SectionInv, LeaderLog
    <3> QED
      BY <3>1, <2>2, <2>3, <2>4, <1>1, LeaderEnters DEF SectionInv
  <2>5. CASE p # 0
    <3>1. Len(visitCalls[p]) <= Len(visitCalls[0]) /\ Begins(Len(visitCalls[p]) + 1)
      BY <2>5, <1>2 DEF SectionInv, FollowerLog
    <3> QED
      BY <3>1, <2>2, <2>3, <2>5, <1>1, FollowerEnters DEF SectionInv
  <2> QED
    BY <2>4, <2>5
<1> QED
  BY <1>1, <1>6, <1>7

(* p leaves the section: the call it comes out of was the last.            *)
LEMMA SectionLeft ==
  ASSUME SectionInv, NEW p \in Proc, LeaveSection(p),
         section \in [Proc -> {"out", "state", "command", "PROCESS", "SUCCESS", "FAILURE"}],
         visitstate \in [Proc -> 0..2],
         Begins(Len(visitCalls[p]) + 1), Len(visitCalls[p]) <= Len(visitCalls[0])
  PROVE  LeaderLog' /\ \A q \in Proc \ {0} : FollowerLog(q)'
<1>1. /\ section' = [section EXCEPT ![p] = "out"]
      /\ visitstate' = [visitstate EXCEPT ![p] = 0]
      /\ visitCalls' = visitCalls /\ 0 \in Proc
      /\ LeaderLog /\ \A q \in Proc \ {0} : FollowerLog(q)
  BY ProcLemma DEF LeaveSection, SectionInv
<1>2. LeaderLog'
  BY <1>1 DEF LeaderLog, Begins
<1>3. ASSUME NEW q \in Proc \ {0}
      PROVE  FollowerLog(q)'
  BY <1>1 DEF FollowerLog, Begins
<1> QED
  BY <1>2, <1>3

(* Rank 0 in its section.                                                  *)
LEMMA LeaderSection ==
  ASSUME VisItInv, SectionInv, LeaderInSection, section[0] # "out"
  PROVE  /\ visitCalls' \in [Proc -> Seq(VisItCalls)]
         /\ LeaderLog' /\ \A p \in Proc \ {0} : FollowerLog(p)'
         /\ \A p \in Proc \ {0} : section'[p] = section[p]
<1> DEFINE n == Len(visitCalls[0])
<1>1. /\ 0 \in Proc /\ LeaderLog /\ visitCalls \in [Proc -> Seq(VisItCalls)]
      /\ section \in [Proc -> {"out", "state", "command", "PROCESS", "SUCCESS", "FAILURE"}]
      /\ visitstate \in [Proc -> 0..2]
  BY ProcLemma DEF VisItInv, SectionInv
<1>2. n \in Nat \ {0} /\ n \in 1 .. n /\ visitCalls[0][n].kind = section[0]
  BY <1>1, LenProperties DEF LeaderLog
<1>3. Begins(n + 1) <=> Final(visitCalls[0][n])
  BY <1>2 DEF Begins
<1>4. ASSUME \/ section[0] = "state" /\ visitstate[0] = 2
             \/ section[0] = "PROCESS",
             NEW k \in {"PROCESS", "SUCCESS", "FAILURE"}, EnterVisItCall(0, k, k),
             UNCHANGED visitstate
      PROVE  /\ visitCalls' \in [Proc -> Seq(VisItCalls)]
             /\ LeaderLog' /\ \A p \in Proc \ {0} : FollowerLog(p)'
             /\ \A p \in Proc \ {0} : section'[p] = section[p]
  <2>1. PICK c \in VisItCalls : c = [kind |-> k, value |-> k]
    BY DEF VisItCalls, Outcomes
  <2>2. /\ visitCalls' = [visitCalls EXCEPT ![0] = Append(@, c)]
        /\ section' = [section EXCEPT ![0] = c.kind]
        /\ c.kind = k /\ c.value = k
    BY <1>4, <2>1 DEF EnterVisItCall
  <2>3. ~ Final(visitCalls[0][n])
    BY <1>1, <1>2, <1>4 DEF Final, LeaderLog, Outcomes
  <2> QED
    BY <2>2, <2>3, <1>1, <1>3, <1>4, LeaderEnters
<1>5. ASSUME \/ section[0] = "state" /\ visitstate[0] # 2
             \/ section[0] \in {"SUCCESS", "FAILURE"},
             LeaveSection(0)
      PROVE  /\ visitCalls' \in [Proc -> Seq(VisItCalls)]
             /\ LeaderLog' /\ \A p \in Proc \ {0} : FollowerLog(p)'
             /\ \A p \in Proc \ {0} : section'[p] = section[p]
  <2>1. Final(visitCalls[0][n])
    BY <1>1, <1>2, <1>5 DEF Final, LeaderLog, Outcomes
  <2>2. visitCalls' = visitCalls /\ \A p \in Proc \ {0} : section'[p] = section[p]
    BY <1>1, <1>5 DEF LeaveSection
  <2>3. Begins(n + 1) /\ n <= n
    BY <2>1, <1>2, <1>3
  <2>4. LeaderLog' /\ \A p \in Proc \ {0} : FollowerLog(p)'
    BY <2>3, <1>1, <1>5, SectionLeft
  <2> QED
    BY <2>2, <2>4, <1>1
<1> QED
  BY <1>4, <1>5 DEF LeaderInSection

(* The others in theirs: rank 0 has entered what they return of.            *)
LEMMA FollowerSection ==
  ASSUME VisItInv, SectionInv, NEW p \in Proc \ {0}, FollowerInSection(p),
         section[p] # "out"
  PROVE  /\ visitCalls' \in [Proc -> Seq(VisItCalls)]
         /\ LeaderLog' /\ \A q \in Proc \ {0} : FollowerLog(q)'
         /\ \A q \in Proc \ {p} : section'[q] = section[q]
<1> DEFINE n == Len(visitCalls[p])
<1>1. /\ 0 \in Proc /\ LeaderLog /\ FollowerLog(p)
      /\ visitCalls \in [Proc -> Seq(VisItCalls)]
      /\ section \in [Proc -> {"out", "state", "command", "PROCESS", "SUCCESS", "FAILURE"}]
      /\ visitstate \in [Proc -> 0..2]
  BY ProcLemma DEF VisItInv, SectionInv
<1>2. /\ n \in Nat \ {0} /\ n \in 1 .. n /\ visitCalls[p][n].kind = section[p]
      /\ Len(visitCalls[0]) \in Nat /\ n <= Len(visitCalls[0])
      /\ n \in 1 .. Len(visitCalls[0])
  BY <1>1, LenProperties DEF FollowerLog, FollowerInSection
<1>3. Begins(n + 1) <=> Final(visitCalls[0][n])
  BY <1>2 DEF Begins
<1>4. /\ section[p] = "state" <=> visitCalls[0][n].kind = "state"
      /\ section[p] \in {"state", "command"}
  BY <1>1, <1>2 DEF LeaderLog, FollowerLog
<1>5. Brought(p) = visitCalls[0][n].value
  BY DEF Brought
<1>6. section[p] = "command" =>
        /\ visitCalls[0][n].value = visitCalls[0][n].kind
        /\ visitCalls[0][n].kind # "state"
  BY <1>1, <1>2, <1>4 DEF LeaderLog
<1>7. ASSUME \/ section[p] = "state" /\ Brought(p) = 2
             \/ section[p] = "command" /\ Brought(p) = "PROCESS",
             EnterVisItCall(p, "command", 0), visitstate'[0] = visitstate[0]
      PROVE  /\ visitCalls' \in [Proc -> Seq(VisItCalls)]
             /\ LeaderLog' /\ \A q \in Proc \ {0} : FollowerLog(q)'
             /\ \A q \in Proc \ {p} : section'[q] = section[q]
  <2>0. 0 \in 0..2
    OBVIOUS
  <2>1. PICK c \in VisItCalls : c = [kind |-> "command", value |-> 0]
    BY <2>0, Zenon DEF VisItCalls
  <2>2. /\ visitCalls' = [visitCalls EXCEPT ![p] = Append(@, c)]
        /\ section' = [section EXCEPT ![p] = c.kind]
        /\ c.kind = "command"
    BY <1>7, <2>1 DEF EnterVisItCall
  <2>3. ~ Final(visitCalls[0][n])
    BY <1>4, <1>5, <1>6, <1>7 DEF Final, Outcomes
  <2> QED
    BY <2>2, <2>3, <1>1, <1>2, <1>3, <1>7, FollowerEnters
<1>8. ASSUME \/ section[p] = "state" /\ Brought(p) # 2
             \/ section[p] = "command" /\ Brought(p) \in {"SUCCESS", "FAILURE"},
             LeaveSection(p)
      PROVE  /\ visitCalls' \in [Proc -> Seq(VisItCalls)]
             /\ LeaderLog' /\ \A q \in Proc \ {0} : FollowerLog(q)'
             /\ \A q \in Proc \ {p} : section'[q] = section[q]
  <2>1. Final(visitCalls[0][n])
    BY <1>4, <1>5, <1>6, <1>8 DEF Final, Outcomes
  <2>2. visitCalls' = visitCalls /\ \A q \in Proc \ {p} : section'[q] = section[q]
    BY <1>1, <1>8 DEF LeaveSection
  <2> QED
    BY <2>1, <2>2, <1>1, <1>2, <1>3, <1>8, SectionLeft
<1>9. visitstate' = [visitstate EXCEPT ![p] = 2] \/ UNCHANGED visitstate \/ LeaveSection(p)
  BY DEF FollowerInSection
<1>10. ~ LeaveSection(p) => visitstate'[0] = visitstate[0]
  BY <1>1, <1>9
<1> QED
  BY <1>7, <1>8, <1>1, <1>10 DEF FollowerInSection

(* The MPI_Bcast of a section returns.                                     *)
LEMMA SectionReturns ==
  ASSUME VisItInv, SectionInv, NEW p \in Proc, VisItCallReturns(p)
  PROVE  SectionInv'
<1>1. /\ section[p] # "out" /\ UNCHANGED <<entered, called>>
      /\ IF p = 0 THEN LeaderInSection ELSE FollowerInSection(p)
  BY DEF VisItCallReturns, bcastVars
<1>2. /\ visitCalls' \in [Proc -> Seq(VisItCalls)]
      /\ LeaderLog' /\ \A q \in Proc \ {0} : FollowerLog(q)'
      /\ \A q \in Proc \ {p} : section'[q] = section[q]
  BY <1>1, LeaderSection, FollowerSection
<1>3. \A q \in Proc : InBcast(q)' => q # p /\ section[q] = "out"
  BY <1>1 DEF SectionInv, InBcast
<1> QED
  BY <1>2, <1>3 DEF SectionInv

(* Each step keeps the sections alike.                                     *)
LEMMA SectionStep == IInv /\ VisItInv /\ SectionInv /\ [NextServers]_vars => SectionInv'
<1> SUFFICES ASSUME IInv, VisItInv, SectionInv, [NextServers]_vars
             PROVE  SectionInv'
  OBVIOUS
<1>1. ASSUME NEW p \in Proc, Handler(p)
      PROVE  SectionInv'
  <2>1. ASSUME NEW c \in Clients, OnBcastAction(p, c)
        PROVE  SectionInv'
    <3>1. UNCHANGED <<entered, called, visitstate, section, visitCalls>>
      BY <2>1 DEF OnBcastAction, Broadcast, BroadcastRefused, visitVars
    <3> QED
      BY <3>1, SectionKept
  <2>2. ASSUME NEW c \in Clients, OnWrite(p, c) \/ OnNextIteration(p, c) \/ OnStop(p, c)
        PROVE  SectionInv'
    BY <2>2, SectionKept DEF OnWrite, OnNextIteration, OnStop, bcastVars, visitVars
  <2>3. ASSUME EndOfIteration(p)
        PROVE  SectionInv'
    BY <2>3, SectionKept DEF EndOfIteration, bcastVars, visitVars
  <2> QED
    BY <1>1, <2>1, <2>2, <2>3, SectionOnBcast DEF Handler
<1>2. CASE \E p \in Proc : LeavePollSome(p)
  BY <1>2, SectionKept DEF LeavePollSome, bcastVars, visitVars
<1>3. CASE \E p \in Proc : FileCallReturns(p)
  BY <1>3, SectionKept DEF FileCallReturns, bcastVars, visitVars
<1>4. CASE \E p \in Proc : OnCall(p)
  BY <1>4, SectionOnCall
<1>5. CASE Connected
  BY <1>5, SectionConnected
<1>6. CASE \E p \in Proc : VisItCallReturns(p)
  BY <1>6, SectionReturns
<1>7. CASE UNCHANGED vars
  BY <1>7, SectionKept DEF vars, bcastVars, visitVars
<1> QED
  BY <1>1, <1>2, <1>3, <1>4, <1>5, <1>6, <1>7 DEF NextServers

(* VisItListener.cpp:120-217: whatever the viewer asks and however often,  *)
(* the n-th MPI_Bcast a process makes for it is the n-th of rank 0.        *)
THEOREM SectionsMatch == ServersSpec => []VisItLockstep
<1>1. SectionInv => VisItLockstep
  <2> SUFFICES ASSUME SectionInv, NEW p \in Proc,
                      NEW n \in DOMAIN visitCalls[p] \cap DOMAIN visitCalls[0]
               PROVE  visitCalls[p][n].kind = "state" <=> visitCalls[0][n].kind = "state"
    BY DEF VisItLockstep
  <2>1. 0 \in Proc /\ visitCalls[p] \in Seq(VisItCalls) /\ visitCalls[0] \in Seq(VisItCalls)
    BY ProcLemma DEF SectionInv
  <2>2. n \in 1 .. Len(visitCalls[p]) /\ n \in 1 .. Len(visitCalls[0])
    BY <2>1, LenProperties
  <2> QED
    BY <2>2 DEF SectionInv, LeaderLog, FollowerLog
<1>2. ServersSpec => []IInv
  BY ServersBroadcast, Inductive, PTL
<1>3. ServersSpec => []VisItInv
  BY <1>2, VisItInit, VisItStep, PTL DEF ServersSpec
<1> QED
  BY <1>1, <1>2, <1>3, SectionInit, SectionStep, PTL DEF ServersSpec

----------------------------------------------------------------------------
(* One entry of a function of functions changes.                           *)
LEMMA Nested ==
  ASSUME NEW P, NEW C, NEW S, NEW f \in [P -> [C -> S]], NEW p \in P, NEW c \in C,
         NEW x \in S, NEW g, g = [f EXCEPT ![p][c] = x]
  PROVE  /\ g \in [P -> [C -> S]]
         /\ g[p][c] = x
         /\ \A q \in P, d \in C : q # p \/ d # c => g[q][d] = f[q][d]
<1>1. g = [f EXCEPT ![p] = [f[p] EXCEPT ![c] = x]]
  OBVIOUS
<1>2. [f[p] EXCEPT ![c] = x] \in [C -> S]
  OBVIOUS
<1> QED
  BY <1>1, <1>2

(* A function on 1..n is a sequence.                                       *)
LEMMA FunctionIsSeq ==
  ASSUME NEW S, NEW n \in Nat, NEW f \in [1 .. n -> S]
  PROVE  f \in Seq(S)
  BY SeqDef

(* Reads: the blocks a client writes in an iteration are variables of the  *)
(* store and numbers (Client::Write).                                      *)
LEMMA WritesLemma ==
  ASSUME config \in Configs, NEW k \in Iterations
  PROVE  /\ Writes(k) \in Seq([type : {"WRITE"}, what : [var : Range(Stored), block : Nat]])
         /\ Len(Writes(k)) \in Nat /\ DOMAIN Writes(k) = 1 .. Len(Writes(k))
         /\ \A i \in 1 .. Len(Writes(k)) :
              /\ Writes(k)[i].type = "WRITE"
              /\ Writes(k)[i].what \in [var : Range(Stored), block : Nat]
<1> DEFINE B == [var : Range(Stored), block : Nat]
           H == [type : {"WRITE"}, what : B]
<1>1. k + 1 \in 1 .. Len(Written) /\ Written \in Seq(Seq(B))
  BY CollectivesOK DEF Iterations
<1>2. Written[k + 1] \in Seq(B)
  BY <1>1, ElementOfSeq
<1>3. DOMAIN Written[k + 1] = 1 .. Len(Written[k + 1]) /\ Len(Written[k + 1]) \in Nat
  BY <1>2, LenProperties
<1>4. \A i \in DOMAIN Written[k + 1] : Written[k + 1][i] \in B
  BY <1>2, <1>3, ElementOfSeq
<1>5. \A i \in DOMAIN Written[k + 1] : Header("WRITE", Written[k + 1][i]) \in H
  BY <1>4 DEF Header
<1>6. Writes(k) \in Seq(H)
  <2>1. CASE config.collective
    <3>1. Writes(k) \in [1 .. Len(Written[k + 1]) -> H]
      BY <2>1, <1>3, <1>5 DEF Writes
    <3> HIDE DEF H
    <3> QED
      BY <3>1, <1>3, FunctionIsSeq
  <2>2. CASE ~ config.collective
    BY <2>2, EmptySeq DEF Writes
  <2> QED
    BY <2>1, <2>2
<1>7. Len(Writes(k)) \in Nat /\ DOMAIN Writes(k) = 1 .. Len(Writes(k))
  BY <1>6, LenProperties
<1>8. \A i \in 1 .. Len(Writes(k)) : Writes(k)[i] \in H
  BY <1>6, ElementOfSeq
<1> QED
  BY <1>6, <1>7, <1>8

(* Where the headers of an iteration are (Client::Signal, Write,           *)
(* EndIteration): an event, the blocks, the end.                           *)
Events(p, c, k) == Len(Signals(p, c, k))

LEMMA ProgramLemma ==
  ASSUME config \in Configs, NEW p \in Proc, NEW c \in Clients, NEW k \in Iterations
  PROVE  /\ Events(p, c, k) \in Nat
         /\ Len(Program(p, c, k)) = Events(p, c, k) + Len(Writes(k)) + 1
         /\ \A j \in 1 .. Events(p, c, k) : Program(p, c, k)[j].type = "BCAST_ACTION"
         /\ \A i \in 1 .. Len(Writes(k)) :
              Program(p, c, k)[Events(p, c, k) + i] = Writes(k)[i]
         /\ Program(p, c, k)[Events(p, c, k) + Len(Writes(k)) + 1].type = "NEXT_ITERATION"
<1> DEFINE H == [type : {"BCAST_ACTION", "WRITE", "NEXT_ITERATION"},
                 what : [var : Range(Stored), block : Nat] \cup {NoBlock}]
           S == Signals(p, c, k)
           W == Writes(k)
           N == <<Header("NEXT_ITERATION", NoBlock)>>
<1>1. Header("NEXT_ITERATION", NoBlock) \in H /\ Header("BCAST_ACTION", NoBlock) \in H
  BY DEF Header
<1>2. S \in Seq(H) /\ Len(S) \in Nat /\ \A j \in 1 .. Len(S) : S[j].type = "BCAST_ACTION"
  <2> DEFINE h == Header("BCAST_ACTION", NoBlock)
  <2>1. h \in H /\ h.type = "BCAST_ACTION"
    BY <1>1 DEF Header
  <2>2. S = <<h>> \/ S = <<>>
    BY DEF Signals
  <2> HIDE DEF h, H, S
  <2>3. CASE S = <<h>>
    BY <2>1, <2>3
  <2>4. CASE S = <<>>
    BY <2>4, EmptySeq
  <2> QED
    BY <2>2, <2>3, <2>4
<1>3. N \in Seq(H) /\ Len(N) = 1 /\ N[1].type = "NEXT_ITERATION"
  BY <1>1 DEF Header
<1>4. W \in Seq(H) /\ Len(W) \in Nat
  <2> DEFINE G == [type : {"WRITE"}, what : [var : Range(Stored), block : Nat]]
  <2>1. W \in Seq(G) /\ Len(W) \in Nat
    BY WritesLemma
  <2>2. G \subseteq H
    OBVIOUS
  <2> HIDE DEF G, H, W
  <2>3. Seq(G) \subseteq Seq(H)
    BY <2>2, SeqMonotonic
  <2> QED
    BY <2>1, <2>3
<1>5. Program(p, c, k) = S \o W \o N
  <2>1. config.iterations \in Nat
    BY CollectivesOK
  <2>2. k < config.iterations
    BY <2>1 DEF Iterations
  <2> QED
    BY <2>2 DEF Program
<1> HIDE DEF H, S, W, N
<1>6. /\ S \o W \in Seq(H) /\ Len(S \o W) = Len(S) + Len(W)
      /\ \A i \in 1 .. Len(S) : (S \o W)[i] = S[i]
      /\ \A i \in 1 .. Len(W) : (S \o W)[Len(S) + i] = W[i]
  BY <1>2, <1>4, ConcatProperties
<1>7. /\ Len((S \o W) \o N) = Len(S) + Len(W) + 1
      /\ \A i \in 1 .. Len(S) + Len(W) : ((S \o W) \o N)[i] = (S \o W)[i]
      /\ ((S \o W) \o N)[Len(S) + Len(W) + 1] = N[1]
  <2> DEFINE T == S \o W
  <2>1. T \in Seq(H) /\ Len(T) = Len(S) + Len(W) /\ Len(T) \in Nat
    BY <1>2, <1>4, <1>6
  <2> HIDE DEF T
  <2>2. /\ Len(T \o N) = Len(T) + Len(N)
        /\ \A i \in 1 .. Len(T) + Len(N) :
             (T \o N)[i] = IF i <= Len(T) THEN T[i] ELSE N[i - Len(T)]
    <3>1. T \in Seq(H) /\ N \in Seq(H)
      BY <2>1, <1>3
    <3> QED
      BY <3>1, ConcatProperties, Zenon
  <2>3. Len(T) + 1 \in 1 .. Len(T) + Len(N) /\ ~ (Len(T) + 1 <= Len(T))
        /\ Len(T) + 1 - Len(T) = 1
    BY <2>1, <1>3
  <2>4. (T \o N)[Len(T) + 1] = N[1]
    BY <2>2, <2>3
  <2>5. \A i \in 1 .. Len(T) : (T \o N)[i] = T[i]
    BY <2>1, <2>2, <1>3
  <2> QED
    BY <2>1, <2>2, <2>4, <2>5, <1>3 DEF T
<1>8. \A i \in 1 .. Len(S) : i \in 1 .. Len(S) + Len(W)
  BY <1>2, <1>4
<1>9. \A i \in 1 .. Len(W) : Len(S) + i \in 1 .. Len(S) + Len(W)
  BY <1>2, <1>4
<1> QED
  BY <1>2, <1>3, <1>5, <1>6, <1>7, <1>8, <1>9 DEF Events, S, W

(* What is left of a client after the last iteration is its stop.          *)
LEMMA StopLemma ==
  ASSUME NEW p \in Proc, NEW c \in Clients, NEW k, ~ (k < config.iterations)
  PROVE  /\ Len(Program(p, c, k)) \in {0, 1}
         /\ Len(Program(p, c, k)) = 1 => Program(p, c, k)[1].type = "STOP"
<1>1. Program(p, c, k) = <<Header("STOP", NoBlock)>> \/ Program(p, c, k) = <<>>
  BY DEF Program
<1>2. Header("STOP", NoBlock).type = "STOP"
  BY DEF Header
<1> QED
  BY <1>1, <1>2

(* Where a server is with each of its clients.                             *)
HeaderInv ==
  /\ config \in Configs
  /\ signals \in [Proc -> SUBSET Iterations]
  /\ ended \in [Proc -> [Clients -> Nat]]
  /\ done \in [Proc -> [Clients -> Nat]]
  /\ \A p \in Proc, c \in Clients : /\ ended[p][c] <= config.iterations
                                    /\ done[p][c] <= Len(Present(p, c))
  /\ running \in [Proc -> BOOLEAN]
  /\ draining \in [Proc -> BOOLEAN]

(* A client of p is in the iteration p listens to, or has ended it and is  *)
(* not heard; p has arrived at the barrier when all have ended it          *)
(* (Server::OnHeader, OnNextIteration, Environment::StartNextIteration).   *)
Passed(p) == released[p][ITERATION_SYNC]

AtBarrier(p) ==
  \/ /\ arrived[p][ITERATION_SYNC] = Passed(p)
     /\ \E c \in Clients : ended[p][c] = Passed(p)
  \/ /\ arrived[p][ITERATION_SYNC] = Passed(p) + 1
     /\ \A c \in Clients : ended[p][c] = Passed(p) + 1

AtClient(p, c) ==
  \/ ended[p][c] = Passed(p)
  \/ ended[p][c] = Passed(p) + 1 /\ done[p][c] = 0

BarrierInv ==
  /\ arrived \in [Proc -> [{ITERATION_SYNC} -> Nat]]
  /\ released \in [Proc -> [{ITERATION_SYNC} -> Nat]]
  /\ \A p \in Proc, c \in Clients : AtClient(p, c)
  /\ \A p \in Proc : AtBarrier(p)

(* The header that p takes, by its place among those of the iteration.     *)
LEMMA TakeLemma ==
  ASSUME HeaderInv, NEW p \in Proc, NEW c \in Clients, NEW type, Take(p, c, type)
  PROVE  LET k == ended[p][c]
             d == done[p][c]
         IN  /\ k \in Nat /\ d \in Nat
             /\ UNCHANGED runVars
             /\ done' = [done EXCEPT ![p][c] = IF type = "NEXT_ITERATION" THEN 0 ELSE d + 1]
             /\ d + 1 <= Len(Present(p, c))
             /\ type # "STOP" => k \in Iterations
             /\ type = "STOP" => k \notin Iterations
             /\ type = "BCAST_ACTION" => d + 1 <= Events(p, c, k)
             /\ type = "NEXT_ITERATION" => d = Events(p, c, k) + Len(Writes(k))
             /\ type = "WRITE" => /\ d + 1 - Events(p, c, k) \in 1 .. Len(Writes(k))
                                  /\ NextHeader(p, c) =
                                       Writes(k)[d + 1 - Events(p, c, k)]
<1> DEFINE k == ended[p][c]
           d == done[p][c]
           P == Program(p, c, k)
           s == Events(p, c, k)
           w == Len(Writes(k))
<1>1. /\ k \in Nat /\ d \in Nat /\ d + 1 <= Len(P) /\ P[d + 1].type = type
      /\ NextHeader(p, c) = P[d + 1] /\ Present(p, c) = P
      /\ UNCHANGED runVars /\ d < Len(P)
      /\ done' = [done EXCEPT ![p][c] = IF type = "NEXT_ITERATION" THEN 0 ELSE d + 1]
      /\ config \in Configs /\ config.iterations \in Nat
  <2>1. k \in Nat /\ d \in Nat /\ config \in Configs
    BY DEF HeaderInv
  <2>2. d < Len(P) /\ NextHeader(p, c) = P[d + 1] /\ P[d + 1].type = type
        /\ Present(p, c) = P
    BY DEF Take, SaysMore, NextHeader, Present
  <2>3. config.iterations \in Nat
    BY <2>1, CollectivesOK
  <2>4. Len(P) \in Nat
    <3>1. CASE k < config.iterations
      <4>1. k \in Iterations
        BY <3>1, <2>1, <2>3 DEF Iterations
      <4> QED
        BY <4>1, <2>1, ProgramLemma, WritesLemma
    <3>2. CASE ~ (k < config.iterations)
      BY <3>2, StopLemma
    <3> QED
      BY <3>1, <3>2
  <2>5. /\ UNCHANGED runVars
        /\ done' = [done EXCEPT ![p][c] = IF type = "NEXT_ITERATION" THEN 0 ELSE d + 1]
    BY DEF Take
  <2> QED
    BY <2>1, <2>2, <2>3, <2>4, <2>5
<1>2. CASE k \in Iterations
  <2>0. config \in Configs
    BY <1>1
  <2>1. /\ s \in Nat /\ w \in Nat /\ Len(P) = s + w + 1
        /\ \A j \in 1 .. s : P[j].type = "BCAST_ACTION"
        /\ \A i \in 1 .. w : P[s + i] = Writes(k)[i] /\ P[s + i].type = "WRITE"
        /\ P[s + w + 1].type = "NEXT_ITERATION"
    <3>1. /\ w \in Nat
          /\ \A i \in 1 .. w : Writes(k)[i].type = "WRITE"
      BY <2>0, <1>2, WritesLemma
    <3>2. /\ s \in Nat /\ Len(P) = s + w + 1
          /\ \A j \in 1 .. s : P[j].type = "BCAST_ACTION"
          /\ \A i \in 1 .. w : P[s + i] = Writes(k)[i]
          /\ P[s + w + 1].type = "NEXT_ITERATION"
      BY <2>0, <1>2, ProgramLemma
    <3> QED
      BY <3>1, <3>2
  <2> HIDE DEF P, s, w
  <2>2. \/ d + 1 \in 1 .. s
        \/ d + 1 - s \in 1 .. w /\ d + 1 = s + (d + 1 - s)
        \/ d + 1 = s + w + 1 /\ d = s + w
    <3>1. s \in Nat /\ w \in Nat /\ d \in Nat /\ d + 1 <= s + w + 1
      BY <1>1, <2>1
    <3> HIDE DEF d
    <3> QED
      BY <3>1
  <2>3. CASE d + 1 \in 1 .. s
    <3>1. type = "BCAST_ACTION" /\ d + 1 <= s
      BY <1>1, <2>1, <2>3
    <3> QED
      BY <3>1, <1>1, <1>2 DEF s, w
  <2>4. CASE d + 1 - s \in 1 .. w /\ d + 1 = s + (d + 1 - s)
    <3>1. type = "WRITE" /\ P[d + 1] = Writes(k)[d + 1 - s]
      BY <1>1, <2>1, <2>4
    <3> QED
      BY <3>1, <1>1, <1>2, <2>4 DEF s, w
  <2>5. CASE d + 1 = s + w + 1 /\ d = s + w
    <3>1. type = "NEXT_ITERATION"
      BY <1>1, <2>1, <2>5
    <3> QED
      BY <3>1, <1>1, <1>2, <2>5 DEF s, w
  <2> QED
    BY <2>2, <2>3, <2>4, <2>5
<1>3. CASE k \notin Iterations
  <2>1. ~ (k < config.iterations)
    BY <1>1, <1>3 DEF Iterations
  <2>2. Len(P) \in {0, 1} /\ (Len(P) = 1 => P[1].type = "STOP")
    BY <2>1, StopLemma
  <2>3. d = 0 /\ type = "STOP"
    BY <1>1, <2>2
  <2> QED
    BY <2>3, <1>1, <1>3
<1> QED
  BY <1>2, <1>3

(* The program of a client is of a length.                                 *)
LEMMA LengthLemma ==
  ASSUME HeaderInv, NEW p \in Proc, NEW c \in Clients, NEW k \in Nat
  PROVE  Len(Program(p, c, k)) \in Nat
<1>1. config \in Configs /\ config.iterations \in Nat
  BY CollectivesOK DEF HeaderInv
<1>2. CASE k < config.iterations
  <2>1. k \in Iterations
    BY <1>1, <1>2 DEF Iterations
  <2> QED
    BY <2>1, <1>1, ProgramLemma, WritesLemma
<1>3. CASE ~ (k < config.iterations)
  BY <1>3, StopLemma
<1> QED
  BY <1>2, <1>3
----------------------------------------------------------------------------
(* At the start no header has been taken.                                  *)
LEMMA HeaderInit == InitServers => HeaderInv /\ BarrierInv
<1> SUFFICES ASSUME InitServers
             PROVE  HeaderInv /\ BarrierInv
  OBVIOUS
<1>1. /\ config \in Configs /\ signals \in [Proc -> SUBSET Iterations]
      /\ ended = [p \in Proc |-> [c \in Clients |-> 0]]
      /\ done = [p \in Proc |-> [c \in Clients |-> 0]]
      /\ running = [p \in Proc |-> TRUE] /\ draining = [p \in Proc |-> FALSE]
      /\ arrived = [p \in Proc |-> [t \in {ITERATION_SYNC} |-> 0]]
      /\ released = [p \in Proc |-> [t \in {ITERATION_SYNC} |-> 0]]
  BY DEF InitServers, Barrier!Init
<1>2. config.iterations \in Nat /\ 1 \in Clients
  BY <1>1, CollectivesOK DEF Clients
<1>3. ASSUME NEW p \in Proc, NEW c \in Clients
      PROVE  Len(Present(p, c)) \in Nat
  <2>1. ended[p][c] = 0
    BY <1>1
  <2>2. CASE 0 < config.iterations
    <3>1. 0 \in Iterations
      BY <1>2, <2>2 DEF Iterations
    <3> QED
      BY <3>1, <1>1, <2>1, ProgramLemma, WritesLemma DEF Present
  <2>3. CASE ~ (0 < config.iterations)
    BY <2>1, <2>3, StopLemma DEF Present
  <2> QED
    BY <2>2, <2>3
<1>4. HeaderInv
  BY <1>1, <1>2, <1>3 DEF HeaderInv
<1>5. BarrierInv
  BY <1>1, <1>2 DEF BarrierInv, AtBarrier, AtClient, Passed
<1> QED
  BY <1>4, <1>5

(* A step that takes a header: the counts of one client change.            *)
LEMMA HeaderTake ==
  ASSUME HeaderInv, NEW p \in Proc, NEW c \in Clients, NEW type, Take(p, c, type),
         type # "NEXT_ITERATION", UNCHANGED ended,
         running' \in [Proc -> BOOLEAN], draining' \in [Proc -> BOOLEAN]
  PROVE  /\ HeaderInv'
         /\ done'[p][c] = done[p][c] + 1
         /\ \A q \in Proc, e \in Clients : q # p \/ e # c => done'[q][e] = done[q][e]
<1>1. /\ done' = [done EXCEPT ![p][c] = done[p][c] + 1]
      /\ done[p][c] \in Nat /\ done[p][c] + 1 <= Len(Present(p, c))
      /\ UNCHANGED runVars
  BY TakeLemma
<1>2. /\ done' \in [Proc -> [Clients -> Nat]]
      /\ done'[p][c] = done[p][c] + 1
      /\ \A q \in Proc, e \in Clients : q # p \/ e # c => done'[q][e] = done[q][e]
  BY <1>1, Nested DEF HeaderInv
<1>3. /\ config' = config /\ signals' = signals /\ Clients' = Clients
      /\ Iterations' = Iterations
      /\ \A q \in Proc, e \in Clients : Present(q, e)' = Present(q, e)
  BY <1>1 DEF runVars, Clients, Iterations, Present, Program, Signals, Writes
<1>4. \A q \in Proc, e \in Clients : done'[q][e] <= Len(Present(q, e))
  BY <1>1, <1>2 DEF HeaderInv
<1> QED
  BY <1>2, <1>3, <1>4 DEF HeaderInv

(* The end of an iteration: the client's next one begins.                  *)
LEMMA HeaderNext ==
  ASSUME HeaderInv, NEW p \in Proc, NEW c \in Clients, Take(p, c, "NEXT_ITERATION"),
         ended' = [ended EXCEPT ![p][c] = @ + 1],
         running' \in [Proc -> BOOLEAN], draining' \in [Proc -> BOOLEAN]
  PROVE  /\ HeaderInv'
         /\ done'[p][c] = 0 /\ ended'[p][c] = ended[p][c] + 1
         /\ \A q \in Proc, e \in Clients : q # p \/ e # c =>
              done'[q][e] = done[q][e] /\ ended'[q][e] = ended[q][e]
<1>1. /\ done' = [done EXCEPT ![p][c] = 0]
      /\ ended[p][c] \in Nat /\ ended[p][c] \in Iterations
      /\ UNCHANGED runVars /\ config.iterations \in Nat
  BY TakeLemma, CollectivesOK DEF HeaderInv
<1>2. /\ done' \in [Proc -> [Clients -> Nat]]
      /\ done'[p][c] = 0
      /\ \A q \in Proc, e \in Clients : q # p \/ e # c => done'[q][e] = done[q][e]
  BY <1>1, Nested DEF HeaderInv
<1>3. /\ ended' \in [Proc -> [Clients -> Nat]]
      /\ ended'[p][c] = ended[p][c] + 1
      /\ \A q \in Proc, e \in Clients : q # p \/ e # c => ended'[q][e] = ended[q][e]
  <2>1. ended' = [ended EXCEPT ![p][c] = ended[p][c] + 1] /\ ended[p][c] + 1 \in Nat
    BY <1>1
  <2> QED
    BY <2>1, Nested DEF HeaderInv
<1>4. /\ config' = config /\ signals' = signals /\ Clients' = Clients
      /\ Iterations' = Iterations
      /\ \A q, e, k : Program(q, e, k)' = Program(q, e, k)
  BY <1>1 DEF runVars, Clients, Iterations, Program, Signals, Writes
<1>5. ASSUME NEW q \in Proc, NEW e \in Clients
      PROVE  ended'[q][e] <= config.iterations /\ done'[q][e] <= Len(Present(q, e))'
  <2>1. CASE q = p /\ e = c
    <3>1. Len(Present(q, e))' = Len(Program(q, e, ended'[q][e]))
      BY <1>4 DEF Present
    <3>2. Len(Program(q, e, ended'[q][e])) \in Nat
      BY <1>3, LengthLemma
    <3>3. ended'[q][e] <= config.iterations
      BY <1>1, <1>3, <2>1 DEF Iterations
    <3> QED
      BY <3>1, <3>2, <3>3, <1>2, <2>1
  <2>2. CASE ~ (q = p /\ e = c)
    <3>1. ended'[q][e] = ended[q][e] /\ done'[q][e] = done[q][e]
      BY <1>2, <1>3, <2>2
    <3>2. Present(q, e)' = Present(q, e)
      BY <3>1, <1>4 DEF Present
    <3>3. ended[q][e] <= config.iterations /\ done[q][e] <= Len(Present(q, e))
      BY DEF HeaderInv
    <3> QED
      BY <3>1, <3>2, <3>3
  <2> QED
    BY <2>1, <2>2
<1> QED
  BY <1>2, <1>3, <1>4, <1>5 DEF HeaderInv
----------------------------------------------------------------------------
(* The barrier, seen from one server.                                      *)
LEMMA BarrierTake ==
  ASSUME HeaderInv, BarrierInv, NEW p \in Proc, NEW c \in Clients, NEW type,
         Receive(p, c, type), type # "NEXT_ITERATION",
         UNCHANGED <<ended, barrierVars>>,
         running' \in [Proc -> BOOLEAN], draining' \in [Proc -> BOOLEAN]
  PROVE  BarrierInv'
<1>1. /\ \A q \in Proc, e \in Clients : q # p \/ e # c => done'[q][e] = done[q][e]
      /\ ended[p][c] = Passed(p)
      /\ Clients' = Clients /\ Passed(p)' = Passed(p)
      /\ UNCHANGED <<ended, arrived, released>>
  <2>1. Take(p, c, type) /\ ended[p][c] = Passed(p)
    BY DEF Receive, Passed
  <2>2. UNCHANGED runVars
    BY <2>1, TakeLemma
  <2> QED
    BY <2>1, <2>2, HeaderTake DEF runVars, Clients, barrierVars, Passed
<1>2. ASSUME NEW q \in Proc
      PROVE  AtBarrier(q)'
  <2>1. AtBarrier(q)
    BY DEF BarrierInv
  <2> QED
    BY <1>1, <2>1 DEF AtBarrier, Passed
<1>3. ASSUME NEW q \in Proc, NEW e \in Clients
      PROVE  AtClient(q, e)'
  <2>1. AtClient(q, e)
    BY DEF BarrierInv
  <2>2. CASE q = p /\ e = c
    BY <2>2, <1>1 DEF AtClient
  <2>3. CASE ~ (q = p /\ e = c)
    <3>1. done'[q][e] = done[q][e] /\ ended' = ended /\ released' = released
      BY <2>3, <1>1
    <3> QED
      BY <3>1, <2>1 DEF AtClient, Passed
  <2> QED
    BY <2>2, <2>3
<1> QED
  BY <1>1, <1>2, <1>3 DEF BarrierInv

(* Server::OnNextIteration: the last client's brings the server to it.     *)
LEMMA BarrierNext ==
  ASSUME HeaderInv, BarrierInv, NEW p \in Proc, NEW c \in Clients,
         OnNextIteration(p, c)
  PROVE  BarrierInv'
<1>1. /\ Take(p, c, "NEXT_ITERATION") /\ ended[p][c] = Passed(p)
      /\ ended' = [ended EXCEPT ![p][c] = @ + 1]
      /\ UNCHANGED <<running, draining>>
  BY DEF OnNextIteration, Receive, Passed, loopVars
<1>2. /\ done'[p][c] = 0 /\ ended'[p][c] = ended[p][c] + 1
      /\ \A q \in Proc, e \in Clients : q # p \/ e # c =>
           done'[q][e] = done[q][e] /\ ended'[q][e] = ended[q][e]
  <2>1. running' \in [Proc -> BOOLEAN] /\ draining' \in [Proc -> BOOLEAN]
    BY <1>1 DEF HeaderInv
  <2> QED
    BY <2>1, <1>1, HeaderNext
<1>3. Clients' = Clients
  BY <1>1 DEF Take, runVars, Clients
<1>4. released' = released /\ \A q \in Proc : Passed(q)' = Passed(q) /\ Passed(q) \in Nat
  BY DEF OnNextIteration, Barrier!Arrive, barrierVars, Passed, BarrierInv
<1>5. ASSUME NEW q \in Proc, NEW e \in Clients
      PROVE  AtClient(q, e)'
  BY <1>1, <1>2, <1>4 DEF BarrierInv, AtClient
<1>6. CASE LastToEnd(p, c)
  <2>1. /\ arrived[p][ITERATION_SYNC] = Passed(p)
        /\ arrived' = [arrived EXCEPT ![p][ITERATION_SYNC] = arrived[p][ITERATION_SYNC] + 1]
    BY <1>6 DEF OnNextIteration, Barrier!Arrive, Passed
  <2>2. arrived[p][ITERATION_SYNC] + 1 \in Nat
    BY DEF BarrierInv
  <2>3. /\ arrived' \in [Proc -> [{ITERATION_SYNC} -> Nat]]
        /\ arrived'[p][ITERATION_SYNC] = Passed(p) + 1
        /\ \A q \in Proc : q # p => arrived'[q][ITERATION_SYNC] = arrived[q][ITERATION_SYNC]
    <3>1. ITERATION_SYNC \in {ITERATION_SYNC} /\ arrived \in [Proc -> [{ITERATION_SYNC} -> Nat]]
      BY DEF BarrierInv
    <3>2. /\ arrived' \in [Proc -> [{ITERATION_SYNC} -> Nat]]
          /\ arrived'[p][ITERATION_SYNC] = arrived[p][ITERATION_SYNC] + 1
          /\ \A q \in Proc, t \in {ITERATION_SYNC} :
               q # p \/ t # ITERATION_SYNC => arrived'[q][t] = arrived[q][t]
      BY <2>1, <2>2, <3>1, Nested
    <3> QED
      BY <2>1, <3>1, <3>2
  <2>4. ASSUME NEW e \in Clients
        PROVE  ended'[p][e] = Passed(p) + 1
    <3>1. CASE e = c
      BY <3>1, <1>1, <1>2
    <3>2. CASE e # c
      <4>1. ended[p][e] > ended[p][c]
        BY <1>6, <3>2 DEF LastToEnd
      <4> QED
        BY <4>1, <3>2, <1>1, <1>2, <1>4 DEF BarrierInv, AtClient
    <3> QED
      BY <3>1, <3>2
  <2>5. ASSUME NEW q \in Proc
        PROVE  AtBarrier(q)'
    <3>1. CASE q = p
      BY <3>1, <2>3, <2>4, <1>3, <1>4 DEF AtBarrier
    <3>2. CASE q # p
      <4>1. AtBarrier(q)
        BY DEF BarrierInv
      <4> QED
        BY <3>2, <4>1, <2>3, <1>2, <1>3, <1>4 DEF AtBarrier
    <3> QED
      BY <3>1, <3>2
  <2> QED
    BY <2>3, <2>5, <1>3, <1>4, <1>5 DEF BarrierInv
<1>7. CASE ~ LastToEnd(p, c)
  <2>1. arrived' = arrived
    BY <1>7 DEF OnNextIteration, barrierVars
  <2>2. PICK d \in Clients \ {c} : ~ (ended[p][d] > ended[p][c])
    BY <1>7 DEF LastToEnd
  <2>3. ended[p][d] = Passed(p) /\ ended'[p][d] = Passed(p)
    BY <2>2, <1>1, <1>2, <1>4 DEF BarrierInv, AtClient
  <2>4. ASSUME NEW q \in Proc
        PROVE  AtBarrier(q)'
    <3>0. AtBarrier(q)
      BY DEF BarrierInv
    <3>1. CASE q = p
      <4>1. arrived[p][ITERATION_SYNC] = Passed(p)
        BY <2>3, <1>4, <3>0, <3>1 DEF AtBarrier
      <4> QED
        BY <3>1, <4>1, <2>1, <2>3, <1>3, <1>4 DEF AtBarrier
    <3>2. CASE q # p
      BY <3>0, <3>2, <2>1, <1>2, <1>3, <1>4 DEF AtBarrier
    <3> QED
      BY <3>1, <3>2
  <2> QED
    BY <2>1, <2>4, <1>3, <1>4, <1>5 DEF BarrierInv
<1> QED
  BY <1>6, <1>7

(* The wave: what the server has then, and what it counts after.           *)
LEMMA BarrierRelease ==
  ASSUME HeaderInv, BarrierInv, NEW p \in Proc, EndOfIteration(p)
  PROVE  /\ BarrierInv'
         /\ arrived[p][ITERATION_SYNC] = Passed(p) + 1
         /\ \A c \in Clients : ended[p][c] = Passed(p) + 1 /\ done[p][c] = 0
         /\ Passed(p) \in Iterations
         /\ Passed(p)' = Passed(p) + 1
         /\ \A q \in Proc : q # p => Passed(q)' = Passed(q)
<1>1. /\ Passed(p) < arrived[p][ITERATION_SYNC]
      /\ released' = [released EXCEPT ![p][ITERATION_SYNC] = released[p][ITERATION_SYNC] + 1]
      /\ UNCHANGED <<arrived, config, ended, done>>
      /\ released[p][ITERATION_SYNC] + 1 \in Nat
  BY DEF EndOfIteration, WaveHere, Barrier!Release, Passed, headerVars, runVars, BarrierInv
<1>2. /\ arrived[p][ITERATION_SYNC] = Passed(p) + 1
      /\ \A c \in Clients : ended[p][c] = Passed(p) + 1
      /\ Passed(p) \in Nat
  BY <1>1 DEF BarrierInv, AtBarrier, Passed
<1>3. \A c \in Clients : done[p][c] = 0
  BY <1>2 DEF BarrierInv, AtClient
<1>4. 1 \in Clients /\ config.iterations \in Nat
  BY CollectivesOK DEF HeaderInv, Clients
<1>5. Passed(p) \in Iterations
  <2>1. ended[p][1] <= config.iterations
    BY <1>4 DEF HeaderInv
  <2> QED
    BY <2>1, <1>2, <1>4 DEF Iterations
<1>6. /\ released' \in [Proc -> [{ITERATION_SYNC} -> Nat]]
      /\ released'[p][ITERATION_SYNC] = Passed(p) + 1
      /\ \A q \in Proc : q # p => released'[q][ITERATION_SYNC] = released[q][ITERATION_SYNC]
  <2> DEFINE x == released[p][ITERATION_SYNC] + 1
  <2>1. released \in [Proc -> [{ITERATION_SYNC} -> Nat]]
    BY DEF BarrierInv
  <2>2. released' = [released EXCEPT ![p][ITERATION_SYNC] = x]
    BY <1>1
  <2>3. x \in Nat
    BY <1>1
  <2>4. ITERATION_SYNC \in {ITERATION_SYNC}
    OBVIOUS
  <2> HIDE DEF x
  <2>5. /\ released' \in [Proc -> [{ITERATION_SYNC} -> Nat]]
        /\ released'[p][ITERATION_SYNC] = x
        /\ \A q \in Proc, t \in {ITERATION_SYNC} :
             q # p \/ t # ITERATION_SYNC => released'[q][t] = released[q][t]
    <3> DEFINE y == [released[p] EXCEPT ![ITERATION_SYNC] = x]
    <3>1. released' = [released EXCEPT ![p] = y]
      BY <2>2
    <3>2. y \in [{ITERATION_SYNC} -> Nat] /\ y[ITERATION_SYNC] = x
      BY <2>1, <2>3
    <3> HIDE DEF y
    <3> QED
      BY <2>1, <3>1, <3>2
  <2> QED
    BY <2>4, <2>5 DEF Passed, x
<1>7. Clients' = Clients
  BY <1>1 DEF Clients
<1>8. /\ Passed(p)' = Passed(p) + 1
      /\ \A q \in Proc : q # p => Passed(q)' = Passed(q)
  BY <1>6 DEF Passed
<1>9. ASSUME NEW q \in Proc, NEW c \in Clients
      PROVE  AtClient(q, c)'
  <2>1. AtClient(q, c)
    BY DEF BarrierInv
  <2> QED
    BY <2>1, <1>1, <1>2, <1>8 DEF AtClient
<1>10. ASSUME NEW q \in Proc
       PROVE  AtBarrier(q)'
  <2>1. AtBarrier(q)
    BY DEF BarrierInv
  <2> QED
    BY <2>1, <1>1, <1>2, <1>4, <1>7, <1>8 DEF AtBarrier
<1>11. BarrierInv'
  BY <1>1, <1>6, <1>7, <1>9, <1>10 DEF BarrierInv
<1> QED
  BY <1>2, <1>3, <1>5, <1>8, <1>11

(* The other handlers move no client.                                      *)
LEMMA HeadersKept ==
  ASSUME HeaderInv, BarrierInv,
         UNCHANGED <<config, signals, ended, done, barrierVars>>,
         running' \in [Proc -> BOOLEAN], draining' \in [Proc -> BOOLEAN]
  PROVE  HeaderInv' /\ BarrierInv'
<1>1. Clients' = Clients /\ Iterations' = Iterations
  BY DEF Clients, Iterations
<1>2. \A q \in Proc, e \in Clients : Present(q, e)' = Present(q, e)
  BY DEF Present, Program, Signals, Writes
<1>3. HeaderInv'
  BY <1>1, <1>2 DEF HeaderInv
<1>4. BarrierInv'
  BY <1>1 DEF BarrierInv, AtBarrier, AtClient, Passed, barrierVars
<1> QED
  BY <1>3, <1>4

(* The end of the loop, and of the one within PollSome, are of its server.  *)
LEMMA LoopLemma ==
  ASSUME running \in [Proc -> BOOLEAN], draining \in [Proc -> BOOLEAN],
         NEW p \in Proc, NEW c \in Clients, OnStop(p, c)
  PROVE  running' \in [Proc -> BOOLEAN] /\ draining' \in [Proc -> BOOLEAN]
<1>1. \/ /\ running' = [running EXCEPT ![p] = FALSE]
         /\ draining' = [draining EXCEPT ![p] = config.visit > 0]
      \/ UNCHANGED loopVars
  BY DEF OnStop
<1>2. running' \in [Proc -> BOOLEAN]
  BY <1>1 DEF loopVars
<1>3. draining' \in [Proc -> BOOLEAN]
  <2>1. (config.visit > 0) \in BOOLEAN
    OBVIOUS
  <2>2. [draining EXCEPT ![p] = config.visit > 0] \in [Proc -> BOOLEAN]
    BY <2>1, Zenon
  <2> QED
    BY <1>1, <2>2, Zenon DEF loopVars
<1> QED
  BY <1>2, <1>3

(* Each step keeps where the servers are with clients and barrier.         *)
LEMMA HeaderStep ==
  HeaderInv /\ BarrierInv /\ [NextServers]_vars => HeaderInv' /\ BarrierInv'
<1> SUFFICES ASSUME HeaderInv, BarrierInv, [NextServers]_vars
             PROVE  HeaderInv' /\ BarrierInv'
  OBVIOUS
<1>0. running \in [Proc -> BOOLEAN] /\ draining \in [Proc -> BOOLEAN]
  BY DEF HeaderInv
<1>1. ASSUME NEW p \in Proc, Handler(p)
      PROVE  HeaderInv' /\ BarrierInv'
  <2>1. ASSUME NEW c \in Clients, OnBcastAction(p, c)
        PROVE  HeaderInv' /\ BarrierInv'
    <3>1. Receive(p, c, "BCAST_ACTION") /\ UNCHANGED <<ended, loopVars, barrierVars>>
      BY <2>1 DEF OnBcastAction
    <3> QED
      BY <3>1, <1>0, HeaderTake, BarrierTake DEF Receive, loopVars
  <2>2. ASSUME NEW c \in Clients, OnWrite(p, c)
        PROVE  HeaderInv' /\ BarrierInv'
    <3>1. Receive(p, c, "WRITE") /\ UNCHANGED <<ended, loopVars, barrierVars>>
      BY <2>2 DEF OnWrite
    <3> QED
      BY <3>1, <1>0, HeaderTake, BarrierTake DEF Receive, loopVars
  <2>3. ASSUME NEW c \in Clients, OnNextIteration(p, c)
        PROVE  HeaderInv' /\ BarrierInv'
    <3>1. /\ Take(p, c, "NEXT_ITERATION") /\ UNCHANGED <<running, draining>>
          /\ ended' = [ended EXCEPT ![p][c] = @ + 1]
      BY <2>3 DEF OnNextIteration, Receive, loopVars
    <3> QED
      BY <3>1, <2>3, <1>0, HeaderNext, BarrierNext
  <2>4. ASSUME NEW c \in Clients, OnStop(p, c)
        PROVE  HeaderInv' /\ BarrierInv'
    <3>1. Receive(p, c, "STOP") /\ UNCHANGED <<ended, barrierVars>>
      BY <2>4 DEF OnStop
    <3> QED
      BY <3>1, <2>4, <1>0, LoopLemma, HeaderTake, BarrierTake DEF Receive
  <2>5. ASSUME EndOfIteration(p)
        PROVE  HeaderInv' /\ BarrierInv'
    <3>1. UNCHANGED <<config, signals, ended, done, running, draining>>
      BY <2>5 DEF EndOfIteration, runVars, headerVars, loopVars
    <3>2. Clients' = Clients /\ Iterations' = Iterations
          /\ \A q \in Proc, e \in Clients : Present(q, e)' = Present(q, e)
      BY <3>1 DEF Clients, Iterations, Present, Program, Signals, Writes
    <3>3. HeaderInv'
      BY <3>1, <3>2 DEF HeaderInv
    <3> QED
      BY <3>3, <2>5, BarrierRelease
  <2>6. ASSUME OnBcast(p)
        PROVE  HeaderInv' /\ BarrierInv'
    BY <2>6, <1>0, HeadersKept DEF OnBcast, runVars, headerVars, loopVars
  <2> QED
    BY <1>1, <2>1, <2>2, <2>3, <2>4, <2>5, <2>6 DEF Handler
<1>2. ASSUME NEW p \in Proc, LeavePollSome(p)
      PROVE  HeaderInv' /\ BarrierInv'
  <2>1. UNCHANGED <<config, signals, ended, done, barrierVars>>
        /\ running' = running /\ draining' = [draining EXCEPT ![p] = FALSE]
    BY <1>2 DEF LeavePollSome, runVars, headerVars
  <2> QED
    BY <2>1, <1>0, HeadersKept
<1>3. ASSUME UNCHANGED <<runVars, headerVars, loopVars, barrierVars>>
      PROVE  HeaderInv' /\ BarrierInv'
  BY <1>3, <1>0, HeadersKept DEF runVars, headerVars, loopVars
<1>4. ASSUME NEW p \in Proc, FileCallReturns(p) \/ OnCall(p) \/ VisItCallReturns(p)
      PROVE  HeaderInv' /\ BarrierInv'
  BY <1>3, <1>4 DEF FileCallReturns, OnCall, VisItCallReturns
<1>5. CASE Connected
  BY <1>3, <1>5 DEF Connected, DetectInput
<1>6. CASE UNCHANGED vars
  BY <1>3, <1>6 DEF vars
<1> QED
  BY <1>1, <1>2, <1>4, <1>5, <1>6 DEF NextServers

----------------------------------------------------------------------------
(* The blocks of a server, by what it has handled of its clients: the i-th *)
(* block of iteration k, once its header has been taken (Server::OnWrite). *)
Handled(p, c, k, i) ==
  \/ k < ended[p][c]
  \/ k = ended[p][c] /\ Events(p, c, k) + i <= done[p][c]

HasBlock(p, v, j, c, b) ==
  \E k \in Iterations : \E i \in 1 .. Len(Writes(k)) :
    /\ Handled(p, c, k, i)
    /\ Writes(k)[i].what = [var |-> v, block |-> b]
    /\ IndexIter(v, k) = j

IndexInv ==
  /\ indexed \in [Proc -> [Range(Stored) -> [Iterations -> SUBSET (Clients \X Nat)]]]
  /\ \A p \in Proc, v \in Range(Stored), j \in Iterations, c \in Clients, b \in Nat :
       <<c, b>> \in indexed[p][v][j] <=> HasBlock(p, v, j, c, b)

(* One entry of a function of functions of functions changes.              *)
LEMMA Nested3 ==
  ASSUME NEW P, NEW C, NEW K, NEW S, NEW f \in [P -> [C -> [K -> S]]],
         NEW p \in P, NEW c \in C, NEW k \in K, NEW x \in S,
         NEW g, g = [f EXCEPT ![p][c][k] = x]
  PROVE  /\ g \in [P -> [C -> [K -> S]]]
         /\ g[p][c][k] = x
         /\ \A q \in P, d \in C, j \in K : q # p \/ d # c \/ j # k => g[q][d][j] = f[q][d][j]
<1>1. f[p][c] \in [K -> S] /\ f[p] \in [C -> [K -> S]]
  OBVIOUS
<1> DEFINE y == [f[p][c] EXCEPT ![k] = x]
<1>2. y \in [K -> S] /\ y[k] = x /\ \A j \in K : j # k => y[j] = f[p][c][j]
  BY <1>1
<1>3. g = [f EXCEPT ![p][c] = y]
  OBVIOUS
<1> DEFINE T == [K -> S]
<1>4. f \in [P -> [C -> T]]
  OBVIOUS
<1>7. y \in T
  BY <1>2
<1> HIDE DEF y, T
<1>8. [f[p] EXCEPT ![c] = y] \in [C -> T] /\ [f[p] EXCEPT ![c] = y][c] = y
      /\ \A d \in C : d # c => [f[p] EXCEPT ![c] = y][d] = f[p][d]
  BY <1>4, <1>7
<1>9. g = [f EXCEPT ![p] = [f[p] EXCEPT ![c] = y]]
  BY <1>3
<1>5. /\ g \in [P -> [C -> T]]
      /\ g[p][c] = y
      /\ \A q \in P, d \in C : q # p \/ d # c => g[q][d] = f[q][d]
  BY <1>4, <1>8, <1>9
<1>6. \A q \in P, d \in C, j \in K : q # p \/ d # c \/ j # k => g[q][d][j] = f[q][d][j]
  BY <1>2, <1>5
<1> QED
  BY <1>2, <1>5, <1>6 DEF T

(* At the start nothing is indexed, and nothing handled.                   *)
LEMMA IndexInit == InitServers => IndexInv
<1> SUFFICES ASSUME InitServers
             PROVE  IndexInv
  OBVIOUS
<1>1. /\ config \in Configs
      /\ ended = [p \in Proc |-> [c \in Clients |-> 0]]
      /\ done = [p \in Proc |-> [c \in Clients |-> 0]]
      /\ indexed = [p \in Proc |-> [v \in Range(Stored) |-> [k \in Iterations |-> {}]]]
  BY DEF InitServers
<1>2. indexed \in [Proc -> [Range(Stored) -> [Iterations -> SUBSET (Clients \X Nat)]]]
  BY <1>1
<1>3. ASSUME NEW p \in Proc, NEW c \in Clients, NEW k \in Iterations,
             NEW i \in 1 .. Len(Writes(k)), Handled(p, c, k, i)
      PROVE  FALSE
  <2>1. ended[p][c] = 0 /\ done[p][c] = 0
    BY <1>1
  <2>2. Events(p, c, k) \in Nat /\ Len(Writes(k)) \in Nat
    BY <1>1, ProgramLemma, WritesLemma
  <2>3. k \in Int /\ 0 <= k
    BY <1>1, CollectivesOK DEF Iterations
  <2> QED
    BY <1>3, <2>1, <2>2, <2>3 DEF Handled
<1>4. \A p \in Proc, v \in Range(Stored), j \in Iterations : indexed[p][v][j] = {}
  BY <1>1
<1> QED
  BY <1>2, <1>3, <1>4 DEF IndexInv, HasBlock

(* A header taken adds to what is handled its own block, if it has one.    *)
LEMMA HandledLemma ==
  ASSUME HeaderInv, NEW p \in Proc, NEW c \in Clients, NEW type,
         Take(p, c, type),
         \/ type \in {"BCAST_ACTION", "WRITE", "STOP"} /\ UNCHANGED ended
         \/ type = "NEXT_ITERATION" /\ ended' = [ended EXCEPT ![p][c] = @ + 1],
         running' \in [Proc -> BOOLEAN], draining' \in [Proc -> BOOLEAN],
         NEW q \in Proc, NEW e \in Clients, NEW k \in Iterations,
         NEW i \in 1 .. Len(Writes(k))
  PROVE  Handled(q, e, k, i)' <=>
           \/ Handled(q, e, k, i)
           \/ /\ type = "WRITE" /\ q = p /\ e = c /\ k = ended[p][c]
              /\ i = done[p][c] + 1 - Events(p, c, k)
<1>0. config.iterations \in Nat /\ config \in Configs
  BY CollectivesOK DEF HeaderInv
<1>1. /\ \A n \in Nat : n \in Iterations <=> n < config.iterations
      /\ config.iterations \in Nat /\ k \in Nat /\ config \in Configs
  BY <1>0 DEF Iterations
<1>2. /\ Events(q, e, k) \in Nat /\ Events(p, c, k) \in Nat
      /\ Len(Writes(k)) \in Nat /\ i \in Nat /\ 1 <= i /\ i <= Len(Writes(k))
  <2>1. Events(q, e, k) \in Nat /\ Events(p, c, k) \in Nat /\ Len(Writes(k)) \in Nat
    BY <1>1, ProgramLemma, WritesLemma
  <2> QED
    BY <2>1
<1>3. /\ UNCHANGED runVars
      /\ Events(q, e, k)' = Events(q, e, k)
  BY TakeLemma DEF runVars, Events, Signals
<1>4. /\ ended \in [Proc -> [Clients -> Nat]] /\ done \in [Proc -> [Clients -> Nat]]
      /\ ended[p][c] \in Nat /\ done[p][c] \in Nat
  BY DEF HeaderInv
<1>5. CASE type = "NEXT_ITERATION"
  <2>1. /\ done'[p][c] = 0 /\ ended'[p][c] = ended[p][c] + 1
        /\ \A r \in Proc, d \in Clients : r # p \/ d # c =>
             done'[r][d] = done[r][d] /\ ended'[r][d] = ended[r][d]
    BY <1>5, HeaderNext
  <2>2. done[p][c] = Events(p, c, ended[p][c]) + Len(Writes(ended[p][c]))
    BY <1>5, TakeLemma
  <2>3. CASE q = p /\ e = c
    BY <2>1, <2>2, <2>3, <1>2, <1>3, <1>4, <1>1, <1>5 DEF Handled
  <2>4. CASE ~ (q = p /\ e = c)
    BY <2>1, <2>4, <1>3, <1>5 DEF Handled
  <2> QED
    BY <2>3, <2>4
<1>6. CASE type # "NEXT_ITERATION"
  <2>1. /\ done'[p][c] = done[p][c] + 1 /\ ended' = ended
        /\ \A r \in Proc, d \in Clients : r # p \/ d # c => done'[r][d] = done[r][d]
    BY <1>6, HeaderTake
  <2>2. CASE ~ (q = p /\ e = c /\ k = ended[p][c])
    BY <2>1, <2>2, <1>3 DEF Handled
  <2>3. CASE q = p /\ e = c /\ k = ended[p][c]
    <3>1. type # "STOP" /\ type \in {"BCAST_ACTION", "WRITE"}
      BY <2>3, <1>6, TakeLemma
    <3>2. /\ type = "BCAST_ACTION" => done[p][c] + 1 <= Events(p, c, k)
          /\ type = "WRITE" => done[p][c] + 1 - Events(p, c, k) \in 1 .. Len(Writes(k))
      BY <2>3, TakeLemma
    <3>3. Handled(q, e, k, i)' <=> Events(p, c, k) + i <= done[p][c] + 1
      BY <2>1, <2>3, <1>1, <1>3, <1>4 DEF Handled
    <3>4. Handled(q, e, k, i) <=> Events(p, c, k) + i <= done[p][c]
      BY <2>3, <1>1, <1>4 DEF Handled
    <3> HIDE DEF Handled
    <3>5. CASE type = "BCAST_ACTION"
      BY <3>2, <3>3, <3>4, <3>5, <1>2, <1>4
    <3>6. CASE type = "WRITE"
      BY <3>2, <3>3, <3>4, <3>6, <1>2, <1>4, <2>3
    <3> QED
      BY <3>1, <3>5, <3>6
  <2> QED
    BY <2>2, <2>3
<1> QED
  BY <1>5, <1>6

----------------------------------------------------------------------------
(* The frame: what is not handled does not change what is indexed.         *)
LEMMA IndexKept ==
  ASSUME HeaderInv, IndexInv, UNCHANGED <<runVars, indexed>>,
         \A p \in Proc, c \in Clients, k \in Iterations :
           \A i \in 1 .. Len(Writes(k)) : Handled(p, c, k, i)' <=> Handled(p, c, k, i)
  PROVE  IndexInv'
<1>1. /\ Clients' = Clients /\ Iterations' = Iterations /\ indexed' = indexed
      /\ \A k : Writes(k)' = Writes(k)
      /\ \A v, k : IndexIter(v, k)' = IndexIter(v, k)
  BY DEF runVars, Clients, Iterations, Writes, IndexIter
<1>2. \A p \in Proc, v \in Range(Stored), j \in Iterations, c \in Clients, b \in Nat :
        HasBlock(p, v, j, c, b)' <=> HasBlock(p, v, j, c, b)
  BY <1>1 DEF HasBlock
<1> QED
  BY <1>1, <1>2 DEF IndexInv

(* Server::OnWrite indexes the block whose header it has taken.            *)
LEMMA IndexWrite ==
  ASSUME HeaderInv, IndexInv, NEW p \in Proc, NEW c \in Clients, OnWrite(p, c)
  PROVE  IndexInv'
<1> DEFINE k0 == ended[p][c]
           i0 == done[p][c] + 1 - Events(p, c, k0)
           w == Writes(k0)[i0].what
           j0 == IndexIter(w.var, k0)
           x == indexed[p][w.var][j0] \cup {<<c, w.block>>}
<1>1. /\ Take(p, c, "WRITE") /\ UNCHANGED ended
      /\ running' \in [Proc -> BOOLEAN] /\ draining' \in [Proc -> BOOLEAN]
  BY DEF OnWrite, Receive, loopVars, HeaderInv
<1>2. /\ k0 \in Iterations /\ i0 \in 1 .. Len(Writes(k0))
      /\ NextHeader(p, c) = Writes(k0)[i0]
      /\ UNCHANGED runVars
  BY <1>1, TakeLemma
<1>3. w \in [var : Range(Stored), block : Nat] /\ config \in Configs
  BY <1>2, WritesLemma DEF HeaderInv
<1>4. indexed' = [indexed EXCEPT ![p][w.var][j0] = x]
  BY <1>2 DEF OnWrite
<1>5. j0 \in Iterations
  BY <1>2, CollectivesOK, <1>3 DEF IndexIter, Iterations
<1>6. /\ Clients' = Clients /\ Iterations' = Iterations
      /\ \A k : Writes(k)' = Writes(k)
      /\ \A v, k : IndexIter(v, k)' = IndexIter(v, k)
  BY <1>2 DEF runVars, Clients, Iterations, Writes, IndexIter
<1> DEFINE S == SUBSET (Clients \X Nat)
<1>7. indexed \in [Proc -> [Range(Stored) -> [Iterations -> S]]]
  BY DEF IndexInv
<1>8. x \in S /\ w.var \in Range(Stored)
  <2>1. w.var \in Range(Stored) /\ w.block \in Nat
    BY <1>3
  <2>2. <<c, w.block>> \in Clients \X Nat
    BY <2>1
  <2> HIDE DEF w, j0
  <2>3. indexed[p][w.var][j0] \in S
    BY <2>1, <1>5, <1>7
  <2> QED
    BY <2>1, <2>2, <2>3
<1>9. \A q \in Proc, e \in Clients, k \in Iterations : \A i \in 1 .. Len(Writes(k)) :
        Handled(q, e, k, i)' <=>
          Handled(q, e, k, i) \/ (q = p /\ e = c /\ k = k0 /\ i = i0)
  BY <1>1, HandledLemma
<1> HIDE DEF k0, i0, w, j0, x, S
<1>10. /\ indexed' \in [Proc -> [Range(Stored) -> [Iterations -> S]]]
       /\ indexed'[p][w.var][j0] = x
       /\ \A q \in Proc, v \in Range(Stored), j \in Iterations :
            q # p \/ v # w.var \/ j # j0 => indexed'[q][v][j] = indexed[q][v][j]
  BY <1>4, <1>5, <1>7, <1>8, Nested3
<1>11. ASSUME NEW q \in Proc, NEW v \in Range(Stored), NEW j \in Iterations,
              NEW e \in Clients, NEW b \in Nat
       PROVE  <<e, b>> \in indexed'[q][v][j] <=> HasBlock(q, v, j, e, b)'
  <2>1. <<e, b>> \in indexed[q][v][j] <=> HasBlock(q, v, j, e, b)
    BY DEF IndexInv
  <2> DEFINE New == q = p /\ e = c /\ j = j0 /\ v = w.var /\ b = w.block
  <2>2. <<e, b>> \in indexed'[q][v][j] <=> <<e, b>> \in indexed[q][v][j] \/ New
    BY <1>10 DEF x
  <2>3. [var |-> v, block |-> b] = w <=> v = w.var /\ b = w.block
    BY <1>3
  <2>4. HasBlock(q, v, j, e, b)' <=> HasBlock(q, v, j, e, b) \/ New
    <3>1. HasBlock(q, v, j, e, b)' <=>
            \E k \in Iterations : \E i \in 1 .. Len(Writes(k)) :
              /\ Handled(q, e, k, i)'
              /\ Writes(k)[i].what = [var |-> v, block |-> b]
              /\ IndexIter(v, k) = j
      BY <1>6 DEF HasBlock
    <3>2. ASSUME HasBlock(q, v, j, e, b)'
          PROVE  HasBlock(q, v, j, e, b) \/ New
      <4>0. PICK k \in Iterations : \E i \in 1 .. Len(Writes(k)) :
              /\ Handled(q, e, k, i)'
              /\ Writes(k)[i].what = [var |-> v, block |-> b]
              /\ IndexIter(v, k) = j
        BY <3>1, <3>2
      <4>1. PICK i \in 1 .. Len(Writes(k)) :
              /\ Handled(q, e, k, i)'
              /\ Writes(k)[i].what = [var |-> v, block |-> b]
              /\ IndexIter(v, k) = j
        BY <4>0
      <4>2. CASE Handled(q, e, k, i)
        BY <4>1, <4>2 DEF HasBlock
      <4>3. CASE q = p /\ e = c /\ k = k0 /\ i = i0
        BY <4>1, <4>3, <2>3 DEF w, j0
      <4> QED
        BY <4>1, <4>2, <4>3, <1>9
    <3>3. ASSUME HasBlock(q, v, j, e, b)
          PROVE  HasBlock(q, v, j, e, b)'
      BY <3>1, <3>3, <1>9 DEF HasBlock
    <3>4. ASSUME New
          PROVE  HasBlock(q, v, j, e, b)'
      <4>1. PICK k \in Iterations : k = k0
        BY <1>2
      <4>2. PICK i \in 1 .. Len(Writes(k)) : i = i0
        BY <1>2, <4>1
      <4>3. Handled(q, e, k, i)'
        BY <1>9, <3>4, <4>1, <4>2
      <4>4. Writes(k)[i].what = [var |-> v, block |-> b] /\ IndexIter(v, k) = j
        BY <3>4, <4>1, <4>2, <2>3 DEF w, j0
      <4> QED
        BY <4>3, <4>4, <3>1
    <3> QED
      BY <3>2, <3>3, <3>4
  <2> QED
    BY <2>1, <2>2, <2>4
<1> QED
  BY <1>6, <1>10, <1>11 DEF IndexInv, S

(* No other handler indexes anything.                                      *)
LEMMA IndexStep ==
  HeaderInv /\ IndexInv /\ [NextServers]_vars => IndexInv'
<1> SUFFICES ASSUME HeaderInv, IndexInv, [NextServers]_vars
             PROVE  IndexInv'
  OBVIOUS
<1>0. running \in [Proc -> BOOLEAN] /\ draining \in [Proc -> BOOLEAN]
  BY DEF HeaderInv
<1>1. ASSUME UNCHANGED <<runVars, headerVars>>
      PROVE  IndexInv'
  <2>1. UNCHANGED <<runVars, indexed>> /\ ended' = ended /\ done' = done
    BY <1>1 DEF headerVars
  <2>2. \A p, c, k, i : Handled(p, c, k, i)' <=> Handled(p, c, k, i)
    BY <2>1 DEF Handled, Events, Signals, runVars
  <2> QED
    BY <2>1, <2>2, IndexKept
<1>2. ASSUME NEW p \in Proc, NEW c \in Clients, NEW type, Take(p, c, type),
             type # "WRITE",
             \/ type \in {"BCAST_ACTION", "STOP"} /\ UNCHANGED ended
             \/ type = "NEXT_ITERATION" /\ ended' = [ended EXCEPT ![p][c] = @ + 1],
             running' \in [Proc -> BOOLEAN], draining' \in [Proc -> BOOLEAN],
             UNCHANGED indexed
      PROVE  IndexInv'
  <2>1. UNCHANGED runVars
    BY <1>2, TakeLemma
  <2>2. ASSUME NEW q \in Proc, NEW e \in Clients, NEW k \in Iterations,
               NEW i \in 1 .. Len(Writes(k))
        PROVE  Handled(q, e, k, i)' <=> Handled(q, e, k, i)
    BY <1>2, HandledLemma
  <2> QED
    BY <2>1, <2>2, <1>2, IndexKept
<1>3. ASSUME NEW p \in Proc, NEW c \in Clients, OnBcastAction(p, c)
      PROVE  IndexInv'
  BY <1>0, <1>2, <1>3 DEF OnBcastAction, Receive, loopVars
<1>4. ASSUME NEW p \in Proc, NEW c \in Clients, OnNextIteration(p, c)
      PROVE  IndexInv'
  BY <1>0, <1>2, <1>4 DEF OnNextIteration, Receive, loopVars
<1>5. ASSUME NEW p \in Proc, NEW c \in Clients, OnStop(p, c)
      PROVE  IndexInv'
  <2>1. Take(p, c, "STOP") /\ UNCHANGED <<ended, indexed>>
    BY <1>5 DEF OnStop, Receive
  <2> QED
    BY <2>1, <1>0, <1>2, <1>5, LoopLemma
<1>6. ASSUME NEW p \in Proc, Handler(p)
      PROVE  IndexInv'
  <2>1. CASE EndOfIteration(p) \/ OnBcast(p)
    BY <1>1, <2>1 DEF EndOfIteration, OnBcast
  <2> QED
    BY <1>3, <1>4, <1>5, <1>6, <2>1, IndexWrite DEF Handler
<1>7. ASSUME NEW p \in Proc,
             LeavePollSome(p) \/ FileCallReturns(p) \/ OnCall(p) \/ VisItCallReturns(p)
      PROVE  IndexInv'
  BY <1>1, <1>7 DEF LeavePollSome, FileCallReturns, OnCall, VisItCallReturns
<1>8. CASE Connected
  BY <1>1, <1>8 DEF Connected, DetectInput
<1>9. CASE UNCHANGED vars
  BY <1>1, <1>9 DEF vars
<1> QED
  BY <1>6, <1>7, <1>8, <1>9 DEF NextServers
----------------------------------------------------------------------------
(* What every server has of an iteration once all its clients have ended   *)
(* it, by Written: the blocks of a variable, which one that does not vary  *)
(* keeps from its first iteration.                                         *)
BlocksBy(v, k) ==
  {b \in Nat : \E j \in Iterations : \E i \in 1 .. Len(Writes(j)) :
                 /\ j <= k
                 /\ Writes(j)[i].what = [var |-> v, block |-> b]
                 /\ IndexIter(v, j) = IndexIter(v, k)}

Totals(k) == [v \in Range(Stored) |-> Cardinality(Clients \X BlocksBy(v, k))]

Stores(k) == config.collective /\ ~ IsEmpty(Totals(k))

(* Variable::CountTotalBlocks, at the end of an iteration, counts what     *)
(* Written says, on every server.                                          *)
LEMMA CountsLemma ==
  ASSUME HeaderInv, IndexInv, NEW p \in Proc, NEW k \in Iterations,
         \A c \in Clients : ended[p][c] = k + 1 /\ done[p][c] = 0
  PROVE  Counts(p, k) = Totals(k)
<1>0. config \in Configs /\ Iterations \subseteq Nat
  BY CollectivesOK DEF HeaderInv, Iterations
<1>1. ASSUME NEW c \in Clients, NEW j \in Iterations, NEW i \in 1 .. Len(Writes(j))
      PROVE  Handled(p, c, j, i) <=> j <= k
  <2>1. Events(p, c, j) \in Nat /\ Len(Writes(j)) \in Nat /\ i \in Nat /\ 1 <= i
    <3>1. Events(p, c, j) \in Nat /\ Len(Writes(j)) \in Nat
      BY <1>0, ProgramLemma, WritesLemma
    <3> QED
      BY <3>1
  <2>2. ended[p][c] = k + 1 /\ done[p][c] = 0
    OBVIOUS
  <2>3. j \in Nat /\ k \in Nat
    BY <1>0
  <2> QED
    BY <2>1, <2>2, <2>3 DEF Handled
<1>2. ASSUME NEW v \in Range(Stored)
      PROVE  indexed[p][v][IndexIter(v, k)] = Clients \X BlocksBy(v, k)
  <2>1. IndexIter(v, k) \in Iterations
    BY CollectivesOK, <1>0 DEF IndexIter, Iterations
  <2> DEFINE X == indexed[p][v][IndexIter(v, k)]
  <2>2. X \subseteq Clients \X Nat
    BY <2>1 DEF IndexInv
  <2>3. ASSUME NEW c \in Clients, NEW b \in Nat
        PROVE  <<c, b>> \in X <=> b \in BlocksBy(v, k)
    <3>1. <<c, b>> \in X <=> HasBlock(p, v, IndexIter(v, k), c, b)
      BY <2>1 DEF IndexInv
    <3>2. HasBlock(p, v, IndexIter(v, k), c, b) <=> b \in BlocksBy(v, k)
      BY <1>1 DEF HasBlock, BlocksBy
    <3> QED
      BY <3>1, <3>2
  <2>4. Clients \X BlocksBy(v, k) \subseteq Clients \X Nat
    BY DEF BlocksBy
  <2> HIDE DEF X
  <2>5. ASSUME NEW m \in Clients \X Nat
        PROVE  m \in X <=> m \in Clients \X BlocksBy(v, k)
    <3>1. PICK c \in Clients, b \in Nat : m = <<c, b>>
      OBVIOUS
    <3>2. <<c, b>> \in Clients \X BlocksBy(v, k) <=> b \in BlocksBy(v, k)
      OBVIOUS
    <3> QED
      BY <3>1, <3>2, <2>3
  <2> QED
    BY <2>2, <2>4, <2>5 DEF X
<1> QED
  BY <1>2 DEF Counts, Count, Totals

----------------------------------------------------------------------------
FileCalls == [op : {"H5Fcreate", "H5Dcreate", "H5Dwrite", "H5Fclose"},
              iter : Nat, var : Nat, block : Nat]

(* b opens the first file after that of iteration k, which is -1 at first. *)
Opens(k, b) ==
  /\ b = FileCall("H5Fcreate", b.iter, 0, 0)
  /\ b.iter \in Nat /\ b.iter > k
  /\ Stores(b.iter)
  /\ \A j \in Nat : k < j /\ j < b.iter => ~ Stores(j)

Follows(a, b) ==
  IF a.op = "H5Fclose" THEN Opens(a.iter, b) ELSE b = NextCall(Totals(a.iter), a)

LastCall(p) == fileCalls[p][Len(fileCalls[p])]
LastFile(p) == IF fileCalls[p] = <<>> THEN -1 ELSE LastCall(p).iter

(* The calls a server has made are those Written asks for.                 *)
InOrder(p) ==
  /\ fileCalls[p] # <<>> => Opens(-1, fileCalls[p][1])
  /\ \A n \in 1 .. Len(fileCalls[p]) - 1 : Follows(fileCalls[p][n], fileCalls[p][n + 1])

(* While a server is in a call, its clients are not heard, and all have    *)
(* ended the iteration of the file (Server::EndOfIterationCallback).       *)
InFile(p) ==
  /\ fileCalls[p] # <<>>
  /\ LastCall(p) = output[p]
  /\ output[p].iter \in Iterations
  /\ output[p].iter + 1 = Passed(p)
  /\ \A c \in Clients : ended[p][c] = Passed(p) /\ done[p][c] = 0

OutOfFile(p) == fileCalls[p] # <<>> => LastCall(p).op = "H5Fclose"

Filed(p) ==
  /\ LastFile(p) < Passed(p)
  /\ \A k \in Nat : LastFile(p) < k /\ k < Passed(p) => ~ Stores(k)

FileInv ==
  /\ output \in [Proc -> FileCalls \cup {NoCall}]
  /\ fileCalls \in [Proc -> Seq(FileCalls)]
  /\ \A p \in Proc : InOrder(p)
  /\ \A p \in Proc : IF output[p] = NoCall THEN OutOfFile(p) ELSE InFile(p)
  /\ \A p \in Proc : Filed(p)

(* A set of naturals has a least element.                                  *)
LEMMA MinLemma ==
  ASSUME NEW S, S \subseteq Nat, S # {}
  PROVE  /\ Min(S) \in S
         /\ \E x \in S : \A y \in S : x <= y
<1> DEFINE R == {ss \in Nat \X Nat : ss[1] < ss[2]}
<1>1. IsWellFoundedOn(R, Nat)
  BY NatLessThanWellFounded DEF OpToRel
<1> HIDE DEF R
<1>2. \E x \in S : \A y \in S : <<y, x>> \notin R
  BY <1>1, WFMin
<1>3. \E x \in S : \A y \in S : x <= y
  <2>1. PICK x \in S : \A y \in S : <<y, x>> \notin R
    BY <1>2
  <2>2. ASSUME NEW y \in S
        PROVE  x <= y
    <3>1. <<y, x>> \in Nat \X Nat /\ <<y, x>>[1] = y /\ <<y, x>>[2] = x
      OBVIOUS
    <3>2. ~ (y < x)
      BY <2>1, <3>1, Zenon DEF R
    <3> QED
      BY <3>2
  <2> QED
    BY <2>2
<1> QED
  BY <1>3 DEF Min

(* One call after another, within a file (HDF5Store::OutputCollective).    *)
LEMMA NextCallLemma ==
  ASSUME NEW n, NEW a \in FileCalls
  PROVE  /\ a.op = "H5Fclose" => NextCall(n, a) = NoCall
         /\ a.op # "H5Fclose" => /\ NextCall(n, a) \in FileCalls
                                 /\ NextCall(n, a).iter = a.iter
<1>1. /\ a.op \in {"H5Fcreate", "H5Dcreate", "H5Dwrite", "H5Fclose"}
      /\ a.iter \in Nat /\ a.var \in Nat /\ a.block \in Nat
  BY DEF FileCalls
<1>2. ASSUME NEW i \in Nat
      PROVE  NextVariable(n, a.iter, i) \in FileCalls /\ NextVariable(n, a.iter, i).iter = a.iter
  <2> DEFINE later == {j \in i + 1 .. Len(Stored) : HasDataset(n, a.iter, j)}
  <2>1. later # {} => Min(later) \in Nat
    <3>1. later \subseteq Nat
      <4>1. Len(Stored) \in Nat
        BY CollectivesOK, LenProperties
      <4> QED
        BY <4>1
    <3> HIDE DEF later
    <3> QED
      BY <3>1, MinLemma
  <2>2. NextVariable(n, a.iter, i) = IF later = {} THEN FileCall("H5Fclose", a.iter, 0, 0)
                                      ELSE FileCall("H5Dcreate", a.iter, Min(later), 0)
    BY DEF NextVariable
  <2> HIDE DEF later
  <2> QED
    BY <2>1, <2>2, <1>1 DEF FileCall, FileCalls
<1>3. CASE a.op = "H5Fcreate"
  <2>1. NextCall(n, a) = NextVariable(n, a.iter, 0)
    BY <1>3 DEF NextCall
  <2> QED
    BY <2>1, <1>2, <1>3
<1>4. CASE a.op = "H5Dcreate"
  <2>1. NextCall(n, a) = FileCall("H5Dwrite", a.iter, a.var, 1)
    BY <1>4 DEF NextCall
  <2> QED
    BY <2>1, <1>1, <1>4 DEF FileCall, FileCalls
<1>5. CASE a.op = "H5Dwrite"
  <2>1. \/ NextCall(n, a) = FileCall("H5Dwrite", a.iter, a.var, a.block + 1)
        \/ NextCall(n, a) = NextVariable(n, a.iter, a.var)
    BY <1>5 DEF NextCall
  <2>2. /\ FileCall("H5Dwrite", a.iter, a.var, a.block + 1) \in FileCalls
        /\ FileCall("H5Dwrite", a.iter, a.var, a.block + 1).iter = a.iter
    BY <1>1 DEF FileCall, FileCalls
  <2> QED
    BY <2>1, <2>2, <1>1, <1>2, <1>5
<1>6. CASE a.op = "H5Fclose"
  BY <1>6 DEF NextCall
<1> QED
  BY <1>1, <1>3, <1>4, <1>5, <1>6
----------------------------------------------------------------------------
(* What a step that takes no file call leaves as it is.                    *)
LEMMA TotalsKept ==
  ASSUME UNCHANGED runVars
  PROVE  /\ Clients' = Clients /\ Iterations' = Iterations
         /\ \A k : Totals(k)' = Totals(k) /\ (Stores(k)' <=> Stores(k))
         /\ \A k, b : Opens(k, b)' <=> Opens(k, b)
         /\ \A a, b : Follows(a, b)' <=> Follows(a, b)
<1>1. /\ Clients' = Clients /\ Iterations' = Iterations /\ config' = config
      /\ \A k : Writes(k)' = Writes(k)
  BY DEF runVars, Clients, Iterations, Writes
<1>2. ASSUME NEW v, NEW k
      PROVE  BlocksBy(v, k)' = BlocksBy(v, k)
  BY <1>1 DEF BlocksBy, IndexIter
<1>3. \A k : Totals(k)' = Totals(k) /\ (Stores(k)' <=> Stores(k))
  BY <1>1, <1>2 DEF Totals, Stores, IsEmpty
<1>4. \A k, b : Opens(k, b)' <=> Opens(k, b)
  BY <1>3 DEF Opens, FileCall
<1> QED
  BY <1>1, <1>3, <1>4 DEF Follows

(* At the start there is no file.                                          *)
LEMMA FileInit == InitServers => FileInv
<1> SUFFICES ASSUME InitServers
             PROVE  FileInv
  OBVIOUS
<1>1. /\ output = [p \in Proc |-> NoCall] /\ fileCalls = [p \in Proc |-> <<>>]
      /\ released = [p \in Proc |-> [t \in {ITERATION_SYNC} |-> 0]]
  BY DEF InitServers, Barrier!Init
<1>2. \A p \in Proc : Passed(p) = 0 /\ fileCalls[p] = <<>> /\ output[p] = NoCall
  BY <1>1 DEF Passed
<1>3. output \in [Proc -> FileCalls \cup {NoCall}] /\ fileCalls \in [Proc -> Seq(FileCalls)]
  BY <1>1
<1>4. \A p \in Proc : InOrder(p)
  BY <1>2 DEF InOrder
<1>5. \A p \in Proc : OutOfFile(p)
  BY <1>2 DEF OutOfFile
<1>6. \A p \in Proc : Filed(p)
  BY <1>2 DEF Filed, LastFile
<1> QED
  BY <1>2, <1>3, <1>4, <1>5, <1>6 DEF FileInv

(* A step of p that is not in a file moves its clients; none of the wave.  *)
LEMMA FileKept ==
  ASSUME FileInv, UNCHANGED <<runVars, storeVars, released>>, NEW p \in Proc,
         \A q \in Proc : q # p \/ output[q] # NoCall =>
           \A c \in Clients : ended'[q][c] = ended[q][c] /\ done'[q][c] = done[q][c]
  PROVE  FileInv'
<1>1. fileCalls' = fileCalls /\ output' = output /\ released' = released
  BY DEF storeVars
<1>2. \A q \in Proc : InOrder(q)'
  BY <1>1, TotalsKept DEF FileInv, InOrder
<1>3. ASSUME NEW q \in Proc, output[q] # NoCall
      PROVE  InFile(q)'
  <2>1. InFile(q)
    BY <1>3 DEF FileInv
  <2>2. Clients' = Clients /\ Iterations' = Iterations
    BY TotalsKept
  <2>3. \A c \in Clients : ended'[q][c] = ended[q][c] /\ done'[q][c] = done[q][c]
    BY <1>3
  <2>4. LastCall(q)' = LastCall(q) /\ Passed(q)' = Passed(q)
    BY <1>1 DEF LastCall, Passed
  <2> QED
    BY <1>1, <2>1, <2>2, <2>3, <2>4 DEF InFile
<1>4. ASSUME NEW q \in Proc, output[q] = NoCall
      PROVE  OutOfFile(q)'
  BY <1>1, <1>4 DEF FileInv, OutOfFile, LastCall
<1>5. \A q \in Proc : Filed(q)'
  BY <1>1, TotalsKept DEF FileInv, Filed, LastFile, LastCall, Passed
<1> QED
  BY <1>1, <1>2, <1>3, <1>4, <1>5 DEF FileInv

(* A call entered is the last of its server, and the others' stay.         *)
LEMMA FileCallEntered ==
  ASSUME FileInv, UNCHANGED runVars, NEW p \in Proc, NEW call \in FileCalls,
         EnterFileCall(p, call),
         IF fileCalls[p] = <<>> THEN Opens(-1, call) ELSE Follows(LastCall(p), call)
  PROVE  /\ output' \in [Proc -> FileCalls \cup {NoCall}]
         /\ fileCalls' \in [Proc -> Seq(FileCalls)]
         /\ output'[p] = call /\ call # NoCall
         /\ fileCalls'[p] # <<>> /\ LastCall(p)' = call
         /\ \A q \in Proc \ {p} : output'[q] = output[q] /\ fileCalls'[q] = fileCalls[q]
         /\ \A q \in Proc : InOrder(q)'
<1> DEFINE s == fileCalls[p]
           t == Append(s, call)
<1>1. /\ output \in [Proc -> FileCalls \cup {NoCall}]
      /\ fileCalls \in [Proc -> Seq(FileCalls)] /\ s \in Seq(FileCalls)
      /\ InOrder(p)
  BY DEF FileInv
<1>2. call # NoCall
  BY DEF FileCalls, NoCall
<1>3. output' = [output EXCEPT ![p] = call] /\ fileCalls' = [fileCalls EXCEPT ![p] = t]
  BY <1>2 DEF EnterFileCall
<1>4. /\ t \in Seq(FileCalls) /\ Len(t) = Len(s) + 1 /\ t[Len(s) + 1] = call
      /\ \A n \in 1 .. Len(s) : t[n] = s[n]
      /\ Len(s) \in Nat
  BY <1>1, AppendProperties
<1>5. /\ fileCalls' \in [Proc -> Seq(FileCalls)] /\ fileCalls'[p] = t
      /\ output' \in [Proc -> FileCalls \cup {NoCall}] /\ output'[p] = call
      /\ \A q \in Proc \ {p} : output'[q] = output[q] /\ fileCalls'[q] = fileCalls[q]
  <2> HIDE DEF t
  <2> QED
    BY <1>1, <1>3, <1>4
<1>6. t # <<>> /\ LastCall(p)' = call
  <2> HIDE DEF t
  <2> QED
    BY <1>4, <1>5 DEF LastCall
<1>7. \A q \in Proc \ {p} : InOrder(q)'
  BY <1>5, TotalsKept DEF FileInv, InOrder
<1>8. InOrder(p)'
  <2>1. InOrder(p)' <=>
          /\ t # <<>> => Opens(-1, t[1])
          /\ \A n \in 1 .. Len(t) - 1 : Follows(t[n], t[n + 1])
    <3> HIDE DEF t
    <3> QED
      BY <1>5, TotalsKept DEF InOrder
  <2>2. CASE s = <<>>
    <3>1. Len(s) = 0 /\ Opens(-1, call)
      BY <2>2
    <3> HIDE DEF s, t
    <3> QED
      BY <2>1, <3>1, <1>4
  <2>3. CASE s # <<>>
    <3>1. Len(s) >= 1
      BY <1>1, <2>3, EmptySeq
    <3>2. Opens(-1, s[1]) /\ \A n \in 1 .. Len(s) - 1 : Follows(s[n], s[n + 1])
      BY <1>1, <2>3 DEF InOrder
    <3>3. Follows(s[Len(s)], call)
      BY <2>3 DEF LastCall
    <3> HIDE DEF s, t
    <3>4. ASSUME NEW n \in 1 .. Len(t) - 1
          PROVE  Follows(t[n], t[n + 1])
      <4>1. CASE n = Len(s)
        BY <4>1, <3>1, <3>3, <1>4
      <4>2. CASE n # Len(s)
        <5>1. n \in 1 .. Len(s) - 1 /\ n \in 1 .. Len(s) /\ n + 1 \in 1 .. Len(s)
          BY <4>2, <1>4, <3>1
        <5> QED
          BY <5>1, <3>2, <1>4
      <4> QED
        BY <4>1, <4>2
    <3>5. 1 \in 1 .. Len(s)
      BY <3>1, <1>4
    <3> QED
      BY <2>1, <3>2, <3>4, <3>5, <1>4
  <2> QED
    BY <2>2, <2>3
<1> QED
  BY <1>2, <1>5, <1>6, <1>7, <1>8

(* The iteration of the last file is a number.                             *)
LEMMA LastFileLemma ==
  ASSUME FileInv, NEW p \in Proc
  PROVE  LastFile(p) \in Int
<1>1. fileCalls[p] \in Seq(FileCalls)
  BY DEF FileInv
<1>2. CASE fileCalls[p] # <<>>
  <2>1. Len(fileCalls[p]) \in 1 .. Len(fileCalls[p])
    BY <1>1, <1>2, EmptySeq, LenProperties
  <2>2. LastCall(p) \in FileCalls
    BY <1>1, <2>1, ElementOfSeq DEF LastCall
  <2> QED
    BY <1>2, <2>2 DEF LastFile, FileCalls
<1>3. CASE fileCalls[p] = <<>>
  BY <1>3 DEF LastFile
<1> QED
  BY <1>2, <1>3

(* The wave: a file is opened if the iteration has any block.              *)
LEMMA FileRelease ==
  ASSUME HeaderInv, BarrierInv, IndexInv, FileInv, NEW p \in Proc, EndOfIteration(p)
  PROVE  FileInv'
<1> DEFINE k == Passed(p)
<1>1. /\ arrived[p][ITERATION_SYNC] = k + 1
      /\ \A c \in Clients : ended[p][c] = k + 1 /\ done[p][c] = 0
      /\ k \in Iterations /\ Passed(p)' = k + 1
      /\ \A q \in Proc : q # p => Passed(q)' = Passed(q)
  BY BarrierRelease
<1>2. k \in Nat /\ k + 1 - 1 = k
  BY <1>1, CollectivesOK DEF Iterations, HeaderInv
<1>3. Counts(p, k) = Totals(k)
  BY <1>1, CountsLemma
<1>4. /\ IF Stores(k) THEN EnterFileCall(p, FileCall("H5Fcreate", k, 0, 0))
                      ELSE UNCHANGED storeVars
      /\ output[p] = NoCall
      /\ UNCHANGED runVars /\ ended' = ended /\ done' = done
  <2>1. LastIteration(p) - 1 = k
    BY <1>1, <1>2 DEF LastIteration
  <2> QED
    BY <2>1, <1>3 DEF EndOfIteration, Stores, Ready, headerVars
<1>5. OutOfFile(p) /\ Filed(p) /\ \A q \in Proc : Filed(q)
  BY <1>4 DEF FileInv
<1>6. Clients' = Clients /\ Iterations' = Iterations /\ \A j : Stores(j)' <=> Stores(j)
  BY <1>4, TotalsKept
<1> HIDE DEF k
<1>7. CASE Stores(k)
  <2> DEFINE call == FileCall("H5Fcreate", k, 0, 0)
  <2>1. call \in FileCalls /\ call.iter = k /\ call.op = "H5Fcreate"
        /\ call = FileCall("H5Fcreate", call.iter, 0, 0)
    BY <1>2 DEF FileCall, FileCalls
  <2>2. /\ LastFile(p) < k
        /\ \A j \in Nat : LastFile(p) < j /\ j < k => ~ Stores(j)
    BY <1>5 DEF Filed, k
  <2>3. Opens(LastFile(p), call)
    <3> HIDE DEF call
    <3>1. k > LastFile(p)
      <4>1. LastFile(p) \in Int
        BY LastFileLemma
      <4> QED
        BY <4>1, <2>2, <1>2
    <3> QED
      BY <2>1, <2>2, <3>1, <1>2, <1>7 DEF Opens
  <2>4. IF fileCalls[p] = <<>> THEN Opens(-1, call) ELSE Follows(LastCall(p), call)
    <3> HIDE DEF call
    <3> QED
      BY <2>3, <1>5 DEF LastFile, Follows, OutOfFile
  <2>5. EnterFileCall(p, call)
    BY <1>4, <1>7
  <2> HIDE DEF call
  <2>6. /\ output' \in [Proc -> FileCalls \cup {NoCall}]
        /\ fileCalls' \in [Proc -> Seq(FileCalls)]
        /\ output'[p] = call /\ call # NoCall
        /\ fileCalls'[p] # <<>> /\ LastCall(p)' = call
        /\ \A q \in Proc \ {p} : output'[q] = output[q] /\ fileCalls'[q] = fileCalls[q]
        /\ \A q \in Proc : InOrder(q)'
    BY <2>1, <2>4, <2>5, <1>4, FileCallEntered
  <2>7. InFile(p)'
    BY <2>6, <2>1, <1>1, <1>4, <1>6 DEF InFile
  <2>8. Filed(p)'
    <3>1. LastFile(p)' = k
      BY <2>6, <2>1 DEF LastFile
    <3> QED
      BY <3>1, <1>1, <1>2 DEF Filed
  <2>9. ASSUME NEW q \in Proc \ {p}
        PROVE  /\ IF output'[q] = NoCall THEN OutOfFile(q)' ELSE InFile(q)'
               /\ Filed(q)'
    <3>1. /\ IF output[q] = NoCall THEN OutOfFile(q) ELSE InFile(q)
          /\ Filed(q)
      BY DEF FileInv
    <3>2. /\ output'[q] = output[q] /\ fileCalls'[q] = fileCalls[q]
          /\ LastCall(q)' = LastCall(q) /\ Passed(q)' = Passed(q)
      BY <2>6, <1>1 DEF LastCall
    <3>3. Filed(q)'
      BY <3>1, <3>2, <1>6 DEF Filed, LastFile
    <3> QED
      BY <3>1, <3>2, <3>3, <1>4, <1>6 DEF OutOfFile, InFile
  <2> QED
    BY <2>6, <2>7, <2>8, <2>9 DEF FileInv
<1>8. CASE ~ Stores(k)
  <2>1. output' = output /\ fileCalls' = fileCalls
    BY <1>4, <1>8 DEF storeVars
  <2>2. \A q \in Proc : InOrder(q)'
    BY <2>1, <1>4, TotalsKept DEF FileInv, InOrder
  <2>3. \A q \in Proc : LastCall(q)' = LastCall(q) /\ LastFile(q)' = LastFile(q)
    BY <2>1 DEF LastCall, LastFile
  <2>4. \A q \in Proc \ {p} : Filed(q)'
    BY <2>3, <1>1, <1>5, <1>6 DEF Filed
  <2>5. Filed(p)'
    <3>1. /\ LastFile(p) < k
          /\ \A j \in Nat : LastFile(p) < j /\ j < k => ~ Stores(j)
      BY <1>5 DEF Filed, k
    <3>2. LastFile(p) \in Int
      BY LastFileLemma
    <3>3. LastFile(p) < k + 1
      BY <3>1, <3>2, <1>2
    <3>4. \A j \in Nat : LastFile(p) < j /\ j < k + 1 => ~ Stores(j)
      BY <3>1, <3>2, <1>2, <1>8
    <3> QED
      BY <3>3, <3>4, <2>3, <1>1, <1>6 DEF Filed
  <2>6. \A q \in Proc : IF output'[q] = NoCall THEN OutOfFile(q)' ELSE InFile(q)'
    <3> SUFFICES ASSUME NEW q \in Proc
                 PROVE  IF output'[q] = NoCall THEN OutOfFile(q)' ELSE InFile(q)'
      OBVIOUS
    <3>1. IF output[q] = NoCall THEN OutOfFile(q) ELSE InFile(q)
      BY DEF FileInv
    <3> QED
      BY <3>1, <2>1, <2>3, <1>1, <1>4, <1>6 DEF OutOfFile, InFile
  <2> QED
    BY <2>1, <2>2, <2>4, <2>5, <2>6 DEF FileInv
<1> QED
  BY <1>7, <1>8

(* A call returns: the next one follows it, or the file is closed.         *)
LEMMA FileReturns ==
  ASSUME HeaderInv, BarrierInv, IndexInv, FileInv, NEW p \in Proc, FileCallReturns(p)
  PROVE  FileInv'
<1> DEFINE a == output[p]
           k == a.iter
<1>1. /\ a # NoCall /\ a \in FileCalls /\ InFile(p)
      /\ k \in Iterations
      /\ \A c \in Clients : ended[p][c] = k + 1 /\ done[p][c] = 0
      /\ fileCalls[p] # <<>> /\ LastCall(p) = a
  BY DEF FileCallReturns, FileInv, InFile
<1>2. Counts(p, k) = Totals(k)
  BY <1>1, CountsLemma
<1> DEFINE call == NextCall(Totals(k), a)
<1>3. EnterFileCall(p, call)
  BY <1>2 DEF FileCallReturns
<1>4. /\ UNCHANGED runVars /\ ended' = ended /\ done' = done /\ released' = released
      /\ Clients' = Clients /\ Iterations' = Iterations
      /\ \A j : Stores(j)' <=> Stores(j)
      /\ \A q \in Proc : Passed(q)' = Passed(q)
  <2>1. UNCHANGED runVars /\ ended' = ended /\ done' = done /\ released' = released
    BY DEF FileCallReturns, headerVars, barrierVars
  <2> QED
    BY <2>1, TotalsKept DEF Passed
<1>5. ASSUME NEW q \in Proc, output'[q] = output[q], fileCalls'[q] = fileCalls[q]
      PROVE  /\ IF output'[q] = NoCall THEN OutOfFile(q)' ELSE InFile(q)'
             /\ Filed(q)'
  <2>1. /\ IF output[q] = NoCall THEN OutOfFile(q) ELSE InFile(q)
        /\ Filed(q)
    BY DEF FileInv
  <2>2. LastCall(q)' = LastCall(q) /\ LastFile(q)' = LastFile(q)
    BY <1>5 DEF LastCall, LastFile
  <2>3. Filed(q)'
    BY <2>1, <2>2, <1>4 DEF Filed
  <2> QED
    BY <2>1, <2>2, <2>3, <1>4, <1>5 DEF OutOfFile, InFile
<1>6. CASE a.op = "H5Fclose"
  <2>1. call = NoCall
    BY <1>1, <1>6, NextCallLemma
  <2>2. /\ output' = [output EXCEPT ![p] = NoCall] /\ fileCalls' = fileCalls
    BY <1>3, <2>1 DEF EnterFileCall
  <2>3. /\ output' \in [Proc -> FileCalls \cup {NoCall}]
        /\ output'[p] = NoCall
        /\ \A q \in Proc \ {p} : output'[q] = output[q]
    BY <2>2 DEF FileInv
  <2>4. OutOfFile(p)'
    BY <2>2, <1>1, <1>6 DEF OutOfFile, LastCall
  <2>5. Filed(p)'
    <3>1. LastFile(p)' = LastFile(p)
      BY <2>2 DEF LastFile, LastCall
    <3> QED
      BY <3>1, <1>4 DEF Filed, FileInv
  <2>6. \A q \in Proc : InOrder(q)'
    BY <2>2, <1>4, TotalsKept DEF FileInv, InOrder
  <2> QED
    BY <2>2, <2>3, <2>4, <2>5, <2>6, <1>5 DEF FileInv
<1>7. CASE a.op # "H5Fclose"
  <2>1. call \in FileCalls /\ call.iter = k
    BY <1>1, <1>7, NextCallLemma
  <2>2. Follows(LastCall(p), call)
    BY <1>1, <1>7 DEF Follows
  <2>9. InFile(p)
    BY <1>1
  <2> HIDE DEF call, a, k
  <2>3. /\ output' \in [Proc -> FileCalls \cup {NoCall}]
        /\ fileCalls' \in [Proc -> Seq(FileCalls)]
        /\ output'[p] = call /\ call # NoCall
        /\ fileCalls'[p] # <<>> /\ LastCall(p)' = call
        /\ \A q \in Proc \ {p} : output'[q] = output[q] /\ fileCalls'[q] = fileCalls[q]
        /\ \A q \in Proc : InOrder(q)'
    BY <2>1, <2>2, <1>1, <1>3, <1>4, FileCallEntered
  <2>4. InFile(p)'
    BY <2>3, <2>1, <1>4, <2>9 DEF InFile, a, k
  <2>5. Filed(p)'
    <3>1. LastFile(p)' = LastFile(p)
      BY <2>1, <2>3, <1>1 DEF LastFile, a, k
    <3> QED
      BY <3>1, <1>4 DEF Filed, FileInv
  <2> QED
    BY <2>3, <2>4, <2>5, <1>5 DEF FileInv
<1> QED
  BY <1>6, <1>7

(* Each step keeps the calls in their order.                               *)
LEMMA FileStep ==
  HeaderInv /\ BarrierInv /\ IndexInv /\ FileInv /\ [NextServers]_vars => FileInv'
<1> SUFFICES ASSUME HeaderInv, BarrierInv, IndexInv, FileInv, [NextServers]_vars
             PROVE  FileInv'
  OBVIOUS
<1>1. ASSUME NEW p \in Proc, NEW c \in Clients, NEW type, Take(p, c, type),
             \/ type # "NEXT_ITERATION" /\ UNCHANGED ended
             \/ type = "NEXT_ITERATION" /\ ended' = [ended EXCEPT ![p][c] = @ + 1],
             running' \in [Proc -> BOOLEAN], draining' \in [Proc -> BOOLEAN],
             released' = released, UNCHANGED storeVars
      PROVE  FileInv'
  <2>1. UNCHANGED runVars /\ output[p] = NoCall
    BY <1>1 DEF Take, Ready
  <2>2. ASSUME NEW q \in Proc, q # p, NEW e \in Clients
        PROVE  ended'[q][e] = ended[q][e] /\ done'[q][e] = done[q][e]
    BY <2>2, <1>1, HeaderTake, HeaderNext
  <2> QED
    BY <1>1, <2>1, <2>2, FileKept
<1>2. ASSUME UNCHANGED <<runVars, headerVars, barrierVars, storeVars>>
      PROVE  FileInv'
  BY <1>2, FileKept, ProcLemma DEF headerVars, barrierVars
<1>0. running \in [Proc -> BOOLEAN] /\ draining \in [Proc -> BOOLEAN]
  BY DEF HeaderInv
<1>3. ASSUME NEW p \in Proc, Handler(p)
      PROVE  FileInv'
  <2>1. ASSUME NEW c \in Clients, OnBcastAction(p, c) \/ OnWrite(p, c)
        PROVE  FileInv'
    BY <1>0, <1>1, <2>1 DEF OnBcastAction, OnWrite, Receive, loopVars, barrierVars
  <2>2. ASSUME NEW c \in Clients, OnNextIteration(p, c)
        PROVE  FileInv'
    <3>1. released' = released
      BY <2>2 DEF OnNextIteration, Barrier!Arrive, barrierVars
    <3> QED
      BY <1>0, <1>1, <2>2, <3>1 DEF OnNextIteration, Receive, loopVars
  <2>3. ASSUME NEW c \in Clients, OnStop(p, c)
        PROVE  FileInv'
    <3>1. Take(p, c, "STOP") /\ UNCHANGED <<ended, barrierVars, storeVars>>
      BY <2>3 DEF OnStop, Receive
    <3> QED
      BY <3>1, <2>3, <1>0, <1>1, LoopLemma DEF barrierVars
  <2>4. CASE EndOfIteration(p)
    BY <2>4, FileRelease
  <2>5. CASE OnBcast(p)
    BY <2>5, <1>2 DEF OnBcast
  <2> QED
    BY <1>3, <2>1, <2>2, <2>3, <2>4, <2>5 DEF Handler
<1>4. ASSUME NEW p \in Proc, LeavePollSome(p) \/ OnCall(p) \/ VisItCallReturns(p)
      PROVE  FileInv'
  BY <1>2, <1>4 DEF LeavePollSome, OnCall, VisItCallReturns
<1>5. ASSUME NEW p \in Proc, FileCallReturns(p)
      PROVE  FileInv'
  BY <1>5, FileReturns
<1>6. CASE Connected
  BY <1>2, <1>6 DEF Connected, DetectInput
<1>7. CASE UNCHANGED vars
  BY <1>2, <1>7 DEF vars
<1> QED
  BY <1>3, <1>4, <1>5, <1>6, <1>7 DEF NextServers

----------------------------------------------------------------------------
(* The two call sequences are determined by Written alone: where they      *)
(* first differ, they would follow from the same call.                     *)
LEMMA OpensOne ==
  ASSUME NEW k, NEW a, NEW b, Opens(k, a), Opens(k, b)
  PROVE  a = b
<1>1. a.iter \in Nat /\ b.iter \in Nat
  BY DEF Opens
<1>2. ~ (a.iter < b.iter) /\ ~ (b.iter < a.iter)
  BY <1>1 DEF Opens
<1>3. a.iter = b.iter
  BY <1>1, <1>2
<1> QED
  BY <1>3 DEF Opens

(* So the calls of two servers do not differ.                              *)
LEMMA SameCalls == FileInv => FileCallsMatch
<1> SUFFICES ASSUME FileInv, NEW p \in Proc, NEW q \in Proc,
                    NEW N \in DOMAIN fileCalls[p] \cap DOMAIN fileCalls[q],
                    fileCalls[p][N] # fileCalls[q][N]
             PROVE  FALSE
  BY DEF FileCallsMatch
<1> DEFINE s == fileCalls[p]
           t == fileCalls[q]
           D == {n \in DOMAIN s \cap DOMAIN t : s[n] # t[n]}
<1>1. /\ s \in Seq(FileCalls) /\ t \in Seq(FileCalls)
      /\ DOMAIN s = 1 .. Len(s) /\ DOMAIN t = 1 .. Len(t)
      /\ Len(s) \in Nat /\ Len(t) \in Nat
  BY LenProperties DEF FileInv
<1>2. InOrder(p) /\ InOrder(q)
  BY DEF FileInv
<1>3. PICK n \in D : \A m \in D : n <= m
  <2>1. D \subseteq Nat /\ D # {}
    BY <1>1
  <2> HIDE DEF D
  <2> QED
    BY <2>1, MinLemma
<1>4. n \in 1 .. Len(s) /\ n \in 1 .. Len(t) /\ s[n] # t[n]
  BY <1>1, <1>3
<1>5. s # <<>> /\ t # <<>>
  BY <1>4
<1>6. n # 1
  <2>1. Opens(-1, s[1]) /\ Opens(-1, t[1])
    BY <1>2, <1>5 DEF InOrder
  <2> QED
    BY <2>1, <1>4, OpensOne
<1>7. n - 1 \in 1 .. Len(s) - 1 /\ n - 1 \in 1 .. Len(t) - 1 /\ n - 1 + 1 = n
      /\ n - 1 \in 1 .. Len(s) /\ n - 1 \in 1 .. Len(t)
  BY <1>1, <1>4, <1>6
<1>8. s[n - 1] = t[n - 1]
  <2>1. n - 1 \notin D
    <3>1. n \in Nat /\ ~ (n <= n - 1)
      BY <1>1, <1>4
    <3> HIDE DEF D
    <3> QED
      BY <3>1, <1>3
  <2> QED
    BY <2>1, <1>1, <1>7
<1>9. Follows(s[n - 1], s[n]) /\ Follows(t[n - 1], t[n])
  <2>1. Follows(s[n - 1], s[n - 1 + 1]) /\ Follows(t[n - 1], t[n - 1 + 1])
    BY <1>2, <1>7 DEF InOrder
  <2> QED
    BY <2>1, <1>7
<1> QED
  BY <1>4, <1>8, <1>9, OpensOne DEF Follows

(* Where the servers are with their clients, the barrier and their files.  *)
CollectivesInv == HeaderInv /\ BarrierInv /\ IndexInv /\ FileInv

(* The invariant is inductive.                                             *)
LEMMA CollectivesInductive == ServersSpec => []CollectivesInv
<1>1. InitServers => CollectivesInv
  BY HeaderInit, IndexInit, FileInit DEF CollectivesInv
<1>2. CollectivesInv /\ [NextServers]_vars => CollectivesInv'
  BY HeaderStep, IndexStep, FileStep DEF CollectivesInv
<1> QED
  BY <1>1, <1>2, PTL DEF ServersSpec

(* HDF5Store::OutputCollective, Server::EndOfIterationCallback: a server   *)
(* makes its collective calls on the files in the order of the others,     *)
(* however its clients and the barrier come, if each client writes what    *)
(* Written says: any number of servers, clients, iterations and variables. *)
THEOREM FilesMatch == ServersSpec => []FileCallsMatch
<1>1. CollectivesInv => FileCallsMatch
  BY SameCalls DEF CollectivesInv
<1> QED
  BY <1>1, CollectivesInductive, PTL

(* The state has the types it is given; in particular a client is never    *)
(* past its program, nor the barrier's wave past those who arrived.        *)
THEOREM ServersTypeCorrect == ServersSpec => []ServersTypeOK
<1>1. ASSUME IInv, VisItInv, CollectivesInv
      PROVE  ServersTypeOK
  <2>1. TypeOK
    BY <1>1 DEF IInv
  <2>2. config \in Configs /\ config.iterations \in Nat
    BY <1>1, CollectivesOK DEF CollectivesInv, HeaderInv
  <2>3. ASSUME NEW p \in Proc, NEW c \in Clients
        PROVE  /\ ended[p][c] \in 0..config.iterations
               /\ done[p][c] \in 0..Len(Present(p, c))
    <3>1. /\ ended[p][c] \in Nat /\ done[p][c] \in Nat
          /\ ended[p][c] <= config.iterations /\ done[p][c] <= Len(Present(p, c))
      BY <1>1 DEF CollectivesInv, HeaderInv
    <3>2. Len(Present(p, c)) \in Nat
      BY <1>1, <3>1, LengthLemma DEF CollectivesInv, Present
    <3> QED
      BY <3>1, <3>2, <2>2
  <2>4. indexed \in [Proc -> [Range(Stored) -> [Iterations -> SUBSET (Clients \X Nat)]]]
    BY <1>1 DEF CollectivesInv, IndexInv
  <2>5. running \in [Proc -> BOOLEAN] /\ draining \in [Proc -> BOOLEAN]
    BY <1>1 DEF CollectivesInv, HeaderInv
  <2>6. \A p \in Proc : released[p][ITERATION_SYNC] <= arrived[p][ITERATION_SYNC]
    <3>1. ASSUME NEW p \in Proc
          PROVE  released[p][ITERATION_SYNC] <= arrived[p][ITERATION_SYNC]
      <4>1. AtBarrier(p) /\ released[p][ITERATION_SYNC] \in Nat
        BY <1>1 DEF CollectivesInv, BarrierInv
      <4> QED
        BY <4>1 DEF AtBarrier, Passed
    <3> QED
      BY <3>1
  <2> QED
    BY <1>1, <2>1, <2>2, <2>3, <2>4, <2>5, <2>6 DEF ServersTypeOK, VisItInv
<1>2. ServersSpec => []IInv
  BY ServersBroadcast, Inductive, PTL
<1>3. ServersSpec => []VisItInv
  BY <1>2, VisItInit, VisItStep, PTL DEF ServersSpec
<1> QED
  BY <1>1, <1>2, <1>3, CollectivesInductive, PTL
============================================================================
