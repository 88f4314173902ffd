------------------------- MODULE ServerCollectives -------------------------
(***************************************************************************)
(* The servers of a simulation, and all that they do together: events      *)
(* broadcast through the reactor, the barrier at the end of an iteration,  *)
(* the collective output to an HDF5 file, and VisIt's section, whose       *)
(* commands rank 0 broadcasts to the others.  Each of these blocks the     *)
(* server inside one handler; which of the handlers that are ready runs    *)
(* first is MPI_Waitany's choice (Reactor::RunOne).                        *)
(*                                                                         *)
(* A client never waits for its server here (Client::EndIteration's        *)
(* MPI_Allreduce is in IterationProtocol), so all its headers may be on    *)
(* their way from the start.  The barrier is that of SyncBarrier, which    *)
(* ReactorSync is shown to implement; its wave comes down the tree.        *)
(***************************************************************************)
EXTENDS ReactorBcast, Functions, FiniteSets, FiniteSetsExt

CONSTANTS
  Configs,      \* configurations: clients per server, iterations they run
                \* (both bounds), servers whose first client signals
                \* broadcast events, broadcasts of rank 0 up to which VisIt
                \* is asked for news (0: not used), and whether the store
                \* is collective and the clients stop their servers
  Stored,       \* the variables of the store, in order
  TimeVarying,  \* those that vary in time
  Written,      \* what a client writes in each iteration, in its order: the
                \* same everywhere (Variable::CountTotalBlocks relies on it)
  MaxVisItCalls \* bound: MPI_Bcast calls of VisIt that rank 0 makes

BCAST_EVENT == "BCAST_EVENT"
VISIT_CONNECTED == "VISIT_CONNECTED"

ASSUME CollectivesOK ==
  /\ {BCAST_EVENT, VISIT_CONNECTED} \subseteq Tags
  /\ Configs \subseteq [clients : Nat \ {0}, iterations : Nat,
                        signallers : SUBSET Proc, visit : Nat,
                        collective : BOOLEAN, stops : BOOLEAN]
  /\ \A c \in Configs : c.iterations + c.visit <= MaxBroadcasts
  /\ Stored \in Seq(Range(Stored))
  /\ Written \in Seq(Seq([var : Range(Stored), block : Nat]))
  /\ \A c \in Configs : c.iterations <= Len(Written)

VARIABLES
  config,      \* the configuration of this run
  signals,     \* the iterations in which the first client signals an event
  ended,       \* NEXT_ITERATION headers of each client handled
  done,        \* headers handled of what the client sends from there
  indexed,     \* blocks the server has, by variable and iteration
  running,     \* the reactor's loop goes on
  draining,    \* the loop for VisIt has been told to stop, within PollSome
  arrived, released,   \* the barrier
  output,      \* the collective call HDF5Store::Output is in
  fileCalls,   \* history: the calls entered on the files
  visitstate,  \* VisItListener::visitstate_
  section,     \* the MPI_Bcast of VisIt's section the server is in
  visitCalls   \* history: those it has entered, with what rank 0 sent

barrierVars == <<arrived, released>>
storeVars == <<output, fileCalls>>
visitVars == <<visitstate, section, visitCalls>>
loopVars == <<running, draining>>
runVars == <<config, signals>>
headerVars == <<ended, done, indexed>>
vars == <<bcastVars, runVars, headerVars, loopVars, barrierVars, storeVars, visitVars>>

ITERATION_SYNC == "ITERATION_SYNC"

Barrier == INSTANCE SyncBarrier WITH Tags <- {ITERATION_SYNC}

NoBlock == [var |-> "none", block |-> 0]
Header(type, w) == [type |-> type, what |-> w]

(* What a client sends in iteration k: the event, if it signals one, the   *)
(* blocks and the end; after the last, the stop.                           *)
Writes(k) ==
  IF config.collective
  THEN [i \in DOMAIN Written[k + 1] |-> Header("WRITE", Written[k + 1][i])]
  ELSE <<>>

Signals(p, c, k) ==
  IF c = 1 /\ k \in signals[p] THEN <<Header("BCAST_ACTION", NoBlock)>> ELSE <<>>

Program(p, c, k) ==
  IF k < config.iterations
  THEN Signals(p, c, k) \o Writes(k) \o <<Header("NEXT_ITERATION", NoBlock)>>
  ELSE IF config.stops THEN <<Header("STOP", NoBlock)>> ELSE <<>>

Present(p, c) == Program(p, c, ended[p][c])
SaysMore(p, c) == done[p][c] < Len(Present(p, c))
NextHeader(p, c) == Present(p, c)[done[p][c] + 1]

NoCall == [op |-> "none", iter |-> 0, var |-> 0, block |-> 0]

Clients == 1 .. config.clients
Iterations == 0 .. config.iterations - 1

InitServers ==
  /\ Init
  /\ config \in Configs
  /\ signals \in [Proc -> SUBSET Iterations]
  /\ \A p \in Proc \ config.signallers : signals[p] = {}
  /\ ended      = [p \in Proc |-> [c \in Clients |-> 0]]
  /\ done       = [p \in Proc |-> [c \in Clients |-> 0]]
  /\ indexed    = [p \in Proc |-> [v \in Range(Stored) |-> [k \in Iterations |-> {}]]]
  /\ running    = [p \in Proc |-> TRUE]
  /\ draining   = [p \in Proc |-> FALSE]
  /\ Barrier!Init
  /\ output     = [p \in Proc |-> NoCall]
  /\ fileCalls  = [p \in Proc |-> <<>>]
  /\ visitstate = [p \in Proc |-> 0]
  /\ section    = [p \in Proc |-> "out"]
  /\ visitCalls = [p \in Proc |-> <<>>]
----------------------------------------------------------------------------
(* Reactor::RunOne: a server that is in no handler takes the next one.     *)
Ready(p) ==
  /\ running[p] \/ draining[p]
  /\ ~ InBcast(p)
  /\ output[p] = NoCall
  /\ section[p] = "out"

(* Environment::GetLastIteration: the iterations that have ended at p.     *)
LastIteration(p) == arrived[p][ITERATION_SYNC]

(* The header is taken; after the end of an iteration comes the next.      *)
Take(p, c, type) ==
  /\ Ready(p)
  /\ SaysMore(p, c)
  /\ NextHeader(p, c).type = type
  /\ done' = [done EXCEPT ![p][c] = IF type = "NEXT_ITERATION" THEN 0 ELSE @ + 1]
  /\ UNCHANGED runVars

(* Variant: the clients are not listened to again after the wave.          *)
ReceiveUntilWave(p, c, type) == ended[p][c] = 0 /\ Take(p, c, type)

(* Server::OnHeader.  A client is not listened to from the end of its      *)
(* iteration to the barrier's wave.                                        *)
Receive(p, c, type) ==
  /\ ended[p][c] = released[p][ITERATION_SYNC]
  /\ Take(p, c, type)

(* Server::OnBcastAction does not look at what Broadcast answers.          *)
OnBcastAction(p, c) ==
  /\ Receive(p, c, "BCAST_ACTION")
  /\ Broadcast(p, BCAST_EVENT) \/ BroadcastRefused(p, BCAST_EVENT)
  /\ UNCHANGED <<ended, indexed, loopVars, barrierVars, storeVars, visitVars>>

IndexIter(v, k) == IF v \in TimeVarying THEN k ELSE 0

(* Variable::Retrieve makes no second block of a client with one number.   *)
OnWrite(p, c) ==
  /\ Receive(p, c, "WRITE")
  /\ LET w == NextHeader(p, c).what
     IN  indexed' = [indexed EXCEPT ![p][w.var][IndexIter(w.var, ended[p][c])] =
                       @ \cup {<<c, w.block>>}]
  /\ UNCHANGED <<bcastVars, ended, loopVars, barrierVars, storeVars, visitVars>>

(* Variant: the first client to end the iteration ends it for the server.  *)
FirstToEnd(p, c) == \A d \in Clients : ended[p][d] = ended[p][c]

(* Environment::StartNextIteration counts the clients that have ended.     *)
LastToEnd(p, c) == \A d \in Clients \ {c} : ended[p][d] > ended[p][c]

OnNextIteration(p, c) ==
  /\ Receive(p, c, "NEXT_ITERATION")
  /\ ended' = [ended EXCEPT ![p][c] = @ + 1]
  /\ IF LastToEnd(p, c) THEN Barrier!Arrive(p, ITERATION_SYNC)
                        ELSE UNCHANGED barrierVars
  /\ UNCHANGED <<bcastVars, indexed, loopVars, storeVars, visitVars>>

(* Server::OnStop.  The last client's ends the reactor's loop; with VisIt  *)
(* that runs inside PollSome, which may call some more handlers first.     *)
OnStop(p, c) ==
  /\ Receive(p, c, "STOP")
  /\ IF \A d \in Clients \ {c} : ~ SaysMore(p, d)
     THEN /\ running' = [running EXCEPT ![p] = FALSE]
          /\ draining' = [draining EXCEPT ![p] = config.visit > 0]
     ELSE UNCHANGED loopVars
  /\ UNCHANGED <<bcastVars, ended, indexed, barrierVars, storeVars, visitVars>>

LeavePollSome(p) ==
  /\ draining[p]
  /\ Ready(p)
  /\ draining' = [draining EXCEPT ![p] = FALSE]
  /\ UNCHANGED <<bcastVars, runVars, headerVars, running, barrierVars, storeVars,
                 visitVars>>
----------------------------------------------------------------------------
(* HDF5Store::OutputCollective as the collective calls it makes, in file   *)
(* iter, for the var-th variable of the store and a block of it: one       *)
(* dataset per variable that has a block here, one write per block of this *)
(* server.  n counts its blocks, by variable.                              *)
FileCall(op, k, i, b) == [op |-> op, iter |-> k, var |-> i, block |-> b]

Count(p, v, k) == Cardinality(indexed[p][v][IndexIter(v, k)])

Counts(p, k) == [v \in Range(Stored) |-> Count(p, v, k)]

IsEmpty(n) == \A v \in Range(Stored) : n[v] = 0

HasDataset(n, k, i) == n[Stored[i]] > 0 /\ (Stored[i] \in TimeVarying \/ k = 0)

NextVariable(n, k, i) ==
  LET later == {j \in i + 1 .. Len(Stored) : HasDataset(n, k, j)}
  IN  IF later = {} THEN FileCall("H5Fclose", k, 0, 0)
                    ELSE FileCall("H5Dcreate", k, Min(later), 0)

NextCall(n, call) ==
  CASE call.op = "H5Fcreate" -> NextVariable(n, call.iter, 0)
    [] call.op = "H5Dcreate" -> FileCall("H5Dwrite", call.iter, call.var, 1)
    [] call.op = "H5Dwrite"  ->
         IF call.block < n[Stored[call.var]]
         THEN FileCall("H5Dwrite", call.iter, call.var, call.block + 1)
         ELSE NextVariable(n, call.iter, call.var)
    [] call.op = "H5Fclose"  -> NoCall

(* Variant: the wave is not waited for below the root.                     *)
WaveUnchecked(p) ==
  /\ p # 0 \/ Barrier!Release(p, ITERATION_SYNC)
  /\ released' = [released EXCEPT ![p][ITERATION_SYNC] = @ + 1]
  /\ UNCHANGED arrived

(* The wave reaches p after its parent, which forwards it first.           *)
WaveHere(p) ==
  /\ p # 0 => released[Parent(p)][ITERATION_SYNC] > released[p][ITERATION_SYNC]
  /\ Barrier!Release(p, ITERATION_SYNC)

EnterFileCall(p, call) ==
  /\ output' = [output EXCEPT ![p] = call]
  /\ fileCalls' = IF call = NoCall THEN fileCalls
                  ELSE [fileCalls EXCEPT ![p] = Append(@, call)]

(* Server::EndOfIterationCallback: listen to the client again, store the   *)
(* iteration unless it is empty.                                           *)
EndOfIteration(p) ==
  /\ Ready(p)
  /\ WaveHere(p)
  /\ LET k == LastIteration(p) - 1
     IN  IF config.collective /\ ~ IsEmpty(Counts(p, k))
         THEN EnterFileCall(p, FileCall("H5Fcreate", k, 0, 0))
         ELSE UNCHANGED storeVars
  /\ UNCHANGED <<bcastVars, runVars, headerVars, loopVars, visitVars>>

(* A collective call on the file returns when all are in it.               *)
FileCallReturns(p) ==
  /\ output[p] # NoCall
  /\ \A q \in Proc : Len(fileCalls[q]) >= Len(fileCalls[p])
  /\ EnterFileCall(p, NextCall(Counts(p, output[p].iter), output[p]))
  /\ UNCHANGED <<bcastVars, runVars, headerVars, loopVars, barrierVars, visitVars>>
----------------------------------------------------------------------------
(* The rest of the reactor's handlers. *)

OnBcast(p) ==
  /\ Ready(p)
  /\ Callback(p)
  /\ UNCHANGED <<runVars, headerVars, loopVars, barrierVars, storeVars, visitVars>>

(* VisItListener: 1 is a first connection, 2 a command from the viewer.    *)

(* p enters the next MPI_Bcast of the section; rank 0 sends v.             *)
EnterVisItCall(p, kind, v) ==
  /\ section' = [section EXCEPT ![p] = kind]
  /\ visitCalls' = [visitCalls EXCEPT ![p] = Append(@, [kind |-> kind, value |-> v])]

(* p comes out of the reactor's MPI_Bcast.  The callback of VISIT_CONNECTED*)
(* is EnterSyncSection; that of BCAST_EVENT calls the action.              *)
OnCall(p) ==
  /\ Call(p)
  /\ IF Current(p).tag = VISIT_CONNECTED
     THEN EnterVisItCall(p, "state", visitstate[p]) /\ UNCHANGED visitstate
     ELSE UNCHANGED visitVars
  /\ UNCHANGED <<runVars, headerVars, loopVars, barrierVars, storeVars>>

MayConnect == made[0] < config.visit /\ Len(visitCalls[0]) < MaxVisItCalls

(* Server::Run on rank 0: Connected asks VisIt, and its news is broadcast, *)
(* without a look at the answer.                                           *)
DetectInput ==
  /\ running[0]
  /\ Ready(0)
  /\ MayConnect
  /\ \E s \in {1, 2} : visitstate' = [visitstate EXCEPT ![0] = s]
  /\ Broadcast(0, VISIT_CONNECTED) \/ BroadcastRefused(0, VISIT_CONNECTED)
  /\ UNCHANGED <<runVars, headerVars, loopVars, barrierVars, storeVars,
                 section, visitCalls>>

(* VisIt is not asked while a section is announced or under way.           *)
Connected == visitstate[0] = 0 /\ DetectInput

LeaveSection(p) ==
  /\ section' = [section EXCEPT ![p] = "out"]
  /\ visitstate' = [visitstate EXCEPT ![p] = 0]
  /\ UNCHANGED visitCalls

(* EnterSyncSection and ProcessVisItCommand on rank 0: the state is sent,  *)
(* then from within the viewer's library any number of PROCESS             *)
(* (SlaveProcessCallback), and how the command went.  MPI_Bcast need not   *)
(* keep its root.                                                          *)
LeaderInSection ==
  \/ /\ \/ section[0] = "state" /\ visitstate[0] = 2
        \/ section[0] = "PROCESS"
     /\ \E c \in {"PROCESS", "SUCCESS", "FAILURE"} :
          /\ c = "PROCESS" => Len(visitCalls[0]) < MaxVisItCalls
          /\ EnterVisItCall(0, c, c)
     /\ UNCHANGED visitstate
  \/ /\ \/ section[0] = "state" /\ visitstate[0] # 2
        \/ section[0] \in {"SUCCESS", "FAILURE"}
     /\ LeaveSection(0)

(* What the call p is in brings it, once rank 0 has made its own.          *)
Brought(p) == visitCalls[0][Len(visitCalls[p])].value

(* Variant: a command that failed does not end the loop.                   *)
FollowerKeepsOnFailure(p) ==
  /\ Len(visitCalls[0]) >= Len(visitCalls[p])
  /\ \/ /\ \/ section[p] = "state" /\ Brought(p) = 2
           \/ section[p] = "command" /\ Brought(p) # "SUCCESS"
        /\ visitstate' = [visitstate EXCEPT ![p] = 2]
        /\ EnterVisItCall(p, "command", 0)
     \/ /\ \/ section[p] = "state" /\ Brought(p) # 2
           \/ section[p] = "command" /\ Brought(p) = "SUCCESS"
        /\ LeaveSection(p)

(* The same on the others, which receive commands until the outcome.       *)
FollowerInSection(p) ==
  /\ Len(visitCalls[0]) >= Len(visitCalls[p])
  /\ \/ /\ section[p] = "state"
        /\ Brought(p) = 2
        /\ visitstate' = [visitstate EXCEPT ![p] = 2]
        /\ EnterVisItCall(p, "command", 0)
     \/ /\ section[p] = "state"
        /\ Brought(p) # 2
        /\ LeaveSection(p)
     \/ /\ section[p] = "command"
        /\ Brought(p) = "PROCESS"
        /\ EnterVisItCall(p, "command", 0)
        /\ UNCHANGED visitstate
     \/ /\ section[p] = "command"
        /\ Brought(p) \in {"SUCCESS", "FAILURE"}
        /\ LeaveSection(p)

VisItCallReturns(p) ==
  /\ section[p] # "out"
  /\ IF p = 0 THEN LeaderInSection ELSE FollowerInSection(p)
  /\ UNCHANGED <<bcastVars, runVars, headerVars, loopVars, barrierVars,
                 storeVars>>
----------------------------------------------------------------------------
Handler(p) ==
  \/ \E c \in Clients :
       OnBcastAction(p, c) \/ OnWrite(p, c) \/ OnNextIteration(p, c) \/ OnStop(p, c)
  \/ EndOfIteration(p)
  \/ OnBcast(p)

NextServers ==
  \/ \E p \in Proc : Handler(p)
  \/ \E p \in Proc : LeavePollSome(p)
  \/ \E p \in Proc : FileCallReturns(p)
  \/ \E p \in Proc : OnCall(p)
  \/ Connected
  \/ \E p \in Proc : VisItCallReturns(p)

(* A server in its loop runs the handlers that are ready.  MPI lets a      *)
(* process out of a collective call once all are in it.  VisIt may never   *)
(* be heard from.                                                          *)
VisItTogether(p) ==
  /\ \A q \in Proc : Len(visitCalls[q]) >= Len(visitCalls[p])
  /\ VisItCallReturns(p)

Fairness ==
  \A p \in Proc :
    /\ WF_vars(Handler(p))
    /\ WF_vars(LeavePollSome(p))
    /\ WF_vars(FileCallReturns(p))
    /\ WF_vars(AllIn(p) /\ OnCall(p))
    /\ WF_vars(VisItTogether(p))

ServersSpec == InitServers /\ [][NextServers]_vars /\ Fairness

(* An MPI that lets a process out as soon as it has the root's data.       *)
EagerSpec == ServersSpec /\ \A p \in Proc : WF_vars(OnCall(p))
----------------------------------------------------------------------------
ServersTypeOK ==
  /\ TypeOK
  /\ config \in Configs
  /\ \A p \in Proc : \A c \in Clients :
       /\ ended[p][c] \in 0..config.iterations
       /\ done[p][c] \in 0..Len(Present(p, c))
  /\ indexed \in [Proc -> [Range(Stored) -> [Iterations -> SUBSET (Clients \X Nat)]]]
  /\ running \in [Proc -> BOOLEAN]
  /\ draining \in [Proc -> BOOLEAN]
  /\ visitstate \in [Proc -> 0..2]
  /\ section \in [Proc -> {"out", "state", "command", "PROCESS", "SUCCESS", "FAILURE"}]
  /\ \A p \in Proc : released[p][ITERATION_SYNC] <= arrived[p][ITERATION_SYNC]

(* The n-th collective call of a server on its files is the same as that   *)
(* of the others: the blocks a server writes out do not depend on how far  *)
(* its other clients, or the other servers, have come                      *)
(* (HDF5Store::OutputCollective, Server::EndOfIterationCallback).          *)
FileCallsMatch ==
  \A p, q \in Proc : \A n \in DOMAIN fileCalls[p] \cap DOMAIN fileCalls[q] :
    fileCalls[p][n] = fileCalls[q][n]

(* The n-th MPI_Bcast that a server makes for VisIt is the n-th of rank 0: *)
(* nobody waits for a command when rank 0 sends a state                    *)
(* (VisItListener::EnterSyncSection, ProcessVisItCommand).                 *)
VisItLockstep ==
  \A p \in Proc : \A n \in DOMAIN visitCalls[p] \cap DOMAIN visitCalls[0] :
    visitCalls[p][n].kind = "state" <=> visitCalls[0][n].kind = "state"

(* Server::Run drops what Broadcast answers, and may: the last             *)
(* VISIT_CONNECTED is back by the time VisIt is asked again, so that news  *)
(* of VisIt is never refused.                                              *)
VisItNeverRefused ==
  [][visitstate'[0] \notin {0, visitstate[0]}
       => buffer'[0][VISIT_CONNECTED] = made'[0]]_vars

(* All that was to be broadcast has been, and every server is back.        *)
AllDelivered ==
  \A p \in Proc :
    /\ \A c \in Clients : ~ SaysMore(p, c)
    /\ buffer[p] = [t \in Tags |-> 0]
    /\ called[p] = entered[0]
    /\ section[p] = "out"

(* While no server stops or writes files, every event that Broadcast       *)
(* accepts gets to every server, whatever else is broadcast or             *)
(* synchronised on, and a section entered for VisIt ends                   *)
(* (Server::OnBcastAction, BcastEventCallback).                            *)
EventsDelivered == ~ config.stops /\ ~ config.collective => []<>AllDelivered

(* A server comes back from damaris_start once its clients have asked for  *)
(* it (Damaris.h: "server processes blocked on damaris_start will return").*)
EveryServerReturns == config.stops => <>(\A p \in Proc : ~ running[p])

(* So they do when nothing is broadcast, and the iterations are on file.   *)
ServersReturnWithoutEvents ==
  config.stops /\ config.signallers = {} /\ config.visit = 0
    => <>(\A p \in Proc : ~ running[p] /\ output[p] = NoCall)
============================================================================
