------------------------- MODULE IterationProtocol -------------------------
(***************************************************************************)
(* How an iteration ends.  Clients write blocks, agree on whether any of   *)
(* them failed (MPI_Allreduce), advance and tell their server.  A server   *)
(* counts the messages of its clients, advances, synchronises with the     *)
(* other servers (the barrier of SyncBarrier, which ReactorSync is shown   *)
(* to implement), stores the iteration and listens to its clients again.   *)
(* An iteration that ends with errors skips the barrier and the storage.   *)
(*                                                                         *)
(* A header and the body that follows it are one message here: the server  *)
(* receives the body in the handler of its header.                         *)
(***************************************************************************)
EXTENDS Integers, Sequences, FiniteSets

CONSTANTS Clients, Servers,
          ServerOf,   \* the server of each client
          Writers,    \* bound: the clients that have something to write
          MaxIter,    \* bound: iterations each client runs before it stops
          FailingAt   \* iterations in which an allocation may fail

ASSUME ProtocolOK ==
  /\ IsFiniteSet(Clients)
  /\ ServerOf \in [Clients -> Servers]
  /\ Writers \subseteq Clients
  /\ MaxIter \in Nat
  /\ FailingAt \subseteq Nat

VARIABLES
  clientIter,      \* _lastIteration_ of a client
  errorOccured,    \* errorOccured_ of a client
  wrote,           \* has the client written in this iteration
  reduced,         \* MPI_Allreduce calls a client has entered
  failed,          \* the Allreduce calls to which some client brought an error
  stopSent,        \* clients that have called StopServer
  chan,            \* messages from a client to its server, in order
  serverIter,      \* _lastIteration_ of a server
  locks,           \* StartNextIteration's static counter
  listening,       \* receives posted for a client's next header
  blocks,          \* blocks the server has indexed: <<client, iteration>>
  stopRequests,    \* OnStop's static set
  running,         \* the reactor's loop is running
  arrived, released   \* the barrier among the servers

clientVars == <<clientIter, errorOccured, wrote, reduced, failed, stopSent>>
serverVars == <<serverIter, locks, listening, blocks, stopRequests, running>>
barrierVars == <<arrived, released>>
vars == <<clientVars, chan, serverVars, barrierVars>>

ITERATION_SYNC == "ITERATION_SYNC"

Barrier == INSTANCE SyncBarrier
             WITH Proc <- Servers, Tags <- {ITERATION_SYNC}

Group(s) == {c \in Clients : ServerOf[c] = s}

WriteMsg(k) == [type |-> "WRITE", iteration |-> k]
Msg(type)   == [type |-> type, iteration |-> 0]

Init ==
  /\ clientIter   = [c \in Clients |-> 0]
  /\ errorOccured = [c \in Clients |-> FALSE]
  /\ wrote        = [c \in Clients |-> FALSE]
  /\ reduced      = [c \in Clients |-> 0]
  /\ failed       = {}
  /\ stopSent     = {}
  /\ chan         = [c \in Clients |-> <<>>]
  /\ serverIter   = [s \in Servers |-> 0]
  /\ locks        = [s \in Servers |-> 0]
  /\ listening    = [c \in Clients |-> 1]
  /\ blocks       = [s \in Servers |-> {}]
  /\ stopRequests = [s \in Servers |-> {}]
  /\ running      = [s \in Servers |-> TRUE]
  /\ Barrier!Init
----------------------------------------------------------------------------
(* Clients *)

InAllreduce(c) == reduced[c] > clientIter[c]

Computing(c) ==
  /\ ~ InAllreduce(c)
  /\ clientIter[c] < MaxIter

MayWrite(c) == Computing(c) /\ c \in Writers /\ ~ wrote[c]

(* Client::Write.  An allocation that fails is only remembered.            *)
Write(c) ==
  /\ MayWrite(c)
  /\ wrote' = [wrote EXCEPT ![c] = TRUE]
  /\ chan' = [chan EXCEPT ![c] = Append(@, WriteMsg(clientIter[c]))]
  /\ UNCHANGED <<clientIter, errorOccured, reduced, failed, stopSent,
                 serverVars, barrierVars>>

WriteFails(c) ==
  /\ MayWrite(c)
  /\ clientIter[c] \in FailingAt
  /\ wrote' = [wrote EXCEPT ![c] = TRUE]
  /\ errorOccured' = [errorOccured EXCEPT ![c] = TRUE]
  /\ UNCHANGED <<clientIter, reduced, failed, stopSent, chan, serverVars,
                 barrierVars>>

(* Client::EndIteration up to the reduction.                               *)
EnterAllreduce(c) ==
  /\ Computing(c)
  /\ reduced' = [reduced EXCEPT ![c] = @ + 1]
  /\ failed' = IF errorOccured[c] THEN failed \cup {reduced[c]} ELSE failed
  /\ UNCHANGED <<clientIter, errorOccured, wrote, stopSent, chan, serverVars,
                 barrierVars>>

(* Client::EndIteration after it: every client brought its value.          *)
EndIteration(c) ==
  /\ InAllreduce(c)
  /\ \A d \in Clients : reduced[d] >= reduced[c]
  /\ clientIter' = [clientIter EXCEPT ![c] = @ + 1]
  /\ chan' = [chan EXCEPT ![c] = Append(@,
       IF clientIter[c] \in failed THEN Msg("NEXT_ITERATION_ERR")
                                   ELSE Msg("NEXT_ITERATION"))]
  /\ errorOccured' = [errorOccured EXCEPT ![c] = FALSE]
  /\ wrote' = [wrote EXCEPT ![c] = FALSE]
  /\ UNCHANGED <<reduced, failed, stopSent, serverVars, barrierVars>>

(* Client::StopServer.                                                     *)
StopServer(c) ==
  /\ clientIter[c] = MaxIter
  /\ c \notin stopSent
  /\ stopSent' = stopSent \cup {c}
  /\ chan' = [chan EXCEPT ![c] = Append(@, Msg("STOP"))]
  /\ UNCHANGED <<clientIter, errorOccured, wrote, reduced, failed, serverVars,
                 barrierVars>>
----------------------------------------------------------------------------
(* Servers *)

(* Server::OnHeader takes the next message of c, if it is of this type.    *)
Receive(c, type) ==
  /\ running[ServerOf[c]]
  /\ listening[c] > 0
  /\ chan[c] # <<>>
  /\ Head(chan[c]).type = type
  /\ chan' = [chan EXCEPT ![c] = Tail(@)]

(* Environment::StartNextIteration on a server: TRUE for the last client.  *)
LastToEnd(s) == locks[s] + 1 = Cardinality(Group(s))

(* Variant: the counter is lowered by the last client, not reset.          *)
StartNextIterationLowered(s) ==
  IF LastToEnd(s)
  THEN /\ locks' = [locks EXCEPT ![s] = @ - Cardinality(Group(s))]
       /\ serverIter' = [serverIter EXCEPT ![s] = @ + 1]
  ELSE /\ locks' = [locks EXCEPT ![s] = @ + 1]
       /\ UNCHANGED serverIter

StartNextIteration(s) ==
  IF LastToEnd(s)
  THEN /\ locks' = [locks EXCEPT ![s] = 0]
       /\ serverIter' = [serverIter EXCEPT ![s] = @ + 1]
  ELSE /\ locks' = [locks EXCEPT ![s] = @ + 1]
       /\ UNCHANGED serverIter

OnWrite(c) ==
  /\ Receive(c, "WRITE")
  /\ blocks' = [blocks EXCEPT ![ServerOf[c]] =
                  @ \cup {<<c, Head(chan[c]).iteration>>}]
  /\ UNCHANGED <<clientVars, serverIter, locks, listening, stopRequests,
                 running, barrierVars>>

(* A Sync called while one is under way is put aside for ever (see         *)
(* ReactorSync): the barrier does not move.                                *)
Sync(s) ==
  IF arrived[s][ITERATION_SYNC] = released[s][ITERATION_SYNC]
  THEN Barrier!Arrive(s, ITERATION_SYNC)
  ELSE UNCHANGED barrierVars

(* Variant: the header receive is posted again after every message.        *)
OnNextIterationListening(c) ==
  LET s == ServerOf[c] IN
  /\ Receive(c, "NEXT_ITERATION")
  /\ StartNextIteration(s)
  /\ IF LastToEnd(s) THEN Sync(s) ELSE UNCHANGED barrierVars
  /\ UNCHANGED <<clientVars, listening, blocks, stopRequests, running>>

(* The one message after which OnHeader does not listen to c again.        *)
OnNextIteration(c) ==
  LET s == ServerOf[c] IN
  /\ Receive(c, "NEXT_ITERATION")
  /\ listening' = [listening EXCEPT ![c] = @ - 1]
  /\ StartNextIteration(s)
  /\ IF LastToEnd(s) THEN Sync(s) ELSE UNCHANGED barrierVars
  /\ UNCHANGED <<clientVars, blocks, stopRequests, running>>

(* The #error action is the garbage collector, unless the configuration    *)
(* names another, and there always is one (ActionManager::Init): it erases *)
(* the blocks up to the iteration that just ended.                         *)
OnNextIterationWithErrors(c) ==
  LET s == ServerOf[c] IN
  /\ Receive(c, "NEXT_ITERATION_ERR")
  /\ StartNextIteration(s)
  /\ blocks' = IF LastToEnd(s)
               THEN [blocks EXCEPT ![s] = {b \in @ : b[2] > serverIter[s]}]
               ELSE blocks
  /\ UNCHANGED <<clientVars, listening, stopRequests, running, barrierVars>>

OnStop(c) ==
  LET s == ServerOf[c]
      requests == stopRequests[s] \cup {c}
      last == Cardinality(requests) = Cardinality(Group(s))
  IN
  /\ Receive(c, "STOP")
  /\ running' = [running EXCEPT ![s] = ~ last]
  /\ stopRequests' = [stopRequests EXCEPT ![s] = IF last THEN {} ELSE requests]
  /\ UNCHANGED <<clientVars, serverIter, locks, listening, blocks, barrierVars>>

(* Variant: the server does not wait for the other servers.                *)
EndOfIterationUnsynchronised(s) ==
  /\ running[s]
  /\ released[s][ITERATION_SYNC] < arrived[s][ITERATION_SYNC]
  /\ released' = [released EXCEPT ![s][ITERATION_SYNC] = @ + 1]
  /\ listening' = [c \in Clients |-> IF c \in Group(s) THEN listening[c] + 1
                                                       ELSE listening[c]]
  /\ UNCHANGED <<clientVars, chan, serverIter, locks, blocks, stopRequests,
                 running, arrived>>

(* Variant: only the client whose message came last is listened to again.  *)
EndOfIterationNotListening(s) ==
  /\ running[s]
  /\ Barrier!Release(s, ITERATION_SYNC)
  /\ UNCHANGED <<clientVars, chan, serverIter, locks, listening, blocks,
                 stopRequests, running>>

(* Server::EndOfIterationCallback, at the release of the barrier: listen   *)
(* to every client again, then store the iteration.  (Without Python,      *)
(* RunActions runs nothing and the blocks stay.)                           *)
EndOfIteration(s) ==
  /\ running[s]
  /\ Barrier!Release(s, ITERATION_SYNC)
  /\ listening' = [c \in Clients |-> IF c \in Group(s) THEN listening[c] + 1
                                                       ELSE listening[c]]
  /\ UNCHANGED <<clientVars, chan, serverIter, locks, blocks, stopRequests,
                 running>>

ClientStep(c) ==
  \/ Write(c)
  \/ WriteFails(c)
  \/ EnterAllreduce(c)
  \/ EndIteration(c)
  \/ StopServer(c)

OnHeader(c) ==
  \/ OnWrite(c)
  \/ OnNextIteration(c)
  \/ OnNextIterationWithErrors(c)
  \/ OnStop(c)

Next ==
  \/ \E c \in Clients : ClientStep(c)
  \/ \E c \in Clients : OnHeader(c)
  \/ \E s \in Servers : EndOfIteration(s)

SafeSpec == Init /\ [][Next]_vars

(* A server keeps running its reactor until it is stopped; the clients are *)
(* the simulation's code and owe nothing.                                  *)
Fairness ==
  /\ \A c \in Clients : WF_vars(OnHeader(c))
  /\ \A s \in Servers : WF_vars(EndOfIteration(s))

Spec == SafeSpec /\ Fairness
----------------------------------------------------------------------------
Messages == [type : {"WRITE", "NEXT_ITERATION", "NEXT_ITERATION_ERR", "STOP"},
             iteration : Nat]

TypeOK ==
  /\ clientIter \in [Clients -> 0..MaxIter]
  /\ errorOccured \in [Clients -> BOOLEAN]
  /\ wrote \in [Clients -> BOOLEAN]
  /\ reduced \in [Clients -> 0..MaxIter]
  /\ failed \subseteq 0..MaxIter
  /\ stopSent \subseteq Clients
  /\ chan \in [Clients -> Seq(Messages)]
  /\ serverIter \in [Servers -> Nat]
  /\ locks \in [Servers -> Nat]
  /\ listening \in [Clients -> Nat]
  /\ blocks \in [Servers -> SUBSET (Clients \X Nat)]
  /\ stopRequests \in [Servers -> SUBSET Clients]
  /\ running \in [Servers -> BOOLEAN]
  /\ arrived \in [Servers -> [{ITERATION_SYNC} -> Nat]]
  /\ released \in [Servers -> [{ITERATION_SYNC} -> Nat]]

EndMessages(c) ==
  {i \in DOMAIN chan[c] :
     chan[c][i].type \in {"NEXT_ITERATION", "NEXT_ITERATION_ERR"}}

(* Iterations of c whose end its server has handled.                       *)
Ended(c) == clientIter[c] - Cardinality(EndMessages(c))

(* A server's iteration ends only when the server has handled the end of   *)
(* it of each of its clients, and all they sent before: its counter of     *)
(* messages (StartNextIteration) counts clients.                           *)
NoRunAhead == \A c \in Clients : serverIter[ServerOf[c]] <= Ended(c)

(* A server takes no client's next end of an iteration while it has not    *)
(* taken the present one of all its clients.  That is what it stops        *)
(* listening for after an end (Server.cpp:278-280, "we need to wait for    *)
(* the Sync phase to complete before restarting to listen to clients").    *)
WaitsForAll ==
  \A c, d \in Clients : ServerOf[c] = ServerOf[d] => Ended(c) <= Ended(d) + 1

(* At most one receive per client ever shares the header buffer of that    *)
(* client: the receive posted by EndOfIterationCallback never joins one    *)
(* that OnHeader posted.                                                   *)
OneListener == \A c \in Clients : listening[c] <= 1

(* When a server stores iteration k, every client of every server has      *)
(* ended it, and the server has indexed all that its own clients wrote in  *)
(* it: no block of it is still in a channel.                               *)
StoresCompleteIterations ==
  [][\A s \in Servers :
       released'[s] # released[s] =>
         /\ \A c \in Clients : Ended(c) >= serverIter[s]
         /\ \A c \in Group(s) : \A i \in DOMAIN chan[c] :
              chan[c][i].type = "WRITE" => chan[c][i].iteration >= serverIter[s]
    ]_vars

(* Once all the clients have called damaris_stop, every server returns     *)
(* from damaris_start.                                                     *)
ServersReturn ==
  (stopSent = Clients) ~> (\A s \in Servers : ~ running[s])
============================================================================
