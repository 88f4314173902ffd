------------------------------ MODULE Session ------------------------------
(***************************************************************************)
(* A whole job, from damaris_initialize to damaris_finalize, with clients  *)
(* that share no memory with their server (RemoteClient): a client sends   *)
(* headers, bodies and data to its server, asynchronously and within the   *)
(* limits of its queue; the server takes headers from any of its clients,  *)
(* and waits inside a handler for the body and the data that follow one.   *)
(* With shared memory only CONNECT and STOP are sent here: what else the   *)
(* clients send then is in IterationProtocol.                              *)
(*                                                                         *)
(* MPI delivers the messages of a pair of processes with one tag in order. *)
(* A send completes at once, if MPI buffers it, or when it is received.    *)
(***************************************************************************)
EXTENDS Startup, Sequences

CONSTANTS
  Iterations,    \* bound: iterations a client runs
  QueueSize      \* queue().size(): sends under way, and the one being made

(* With a queue of size 1 no send is ever made, with one of 0 all fail.    *)
ASSUME SessionOK == Iterations \in Nat /\ QueueSize \in Nat \ {0, 1}

VARIABLES
  turn,        \* the iteration of a client: -1 before them, then its stop
  made,        \* the calls a client has made of that turn
  channel,     \* messages from a client to its server, by MPI tag
  asyncCount,  \* Channel::async_count_
  finished,    \* sends that are complete, their callbacks not yet run
  reduced,     \* MPI_Allreduce calls of a client in EndIteration
  listening,   \* clients whose header a server is ready to receive
  handling,    \* the header a server is in the handler of
  known,       \* Environment::_knownClients_
  ended,       \* the clients whose end of iteration a server has counted
  arrived, released,  \* the servers' barrier, and waves of it
  stored,      \* the blocks of a server, and the data in each
  locks,       \* GroupAction::locks_ of an action of scope group
  fired,       \* history: how often it has run, by iteration
  stops        \* clients that have asked a server to stop

clientVars == <<turn, made, channel, asyncCount, finished, reduced>>
barrierVars == <<ended, arrived, released>>
serverVars == <<listening, handling, known, barrierVars, stored, locks, fired, stops>>
vars == <<startupVars, clientVars, serverVars>>

Tags == {"HEADER", "BODY", "DATA"}
Steps == 0 .. Iterations - 1

Call(tag, kind) == [tag |-> tag, kind |-> kind]

(* RemoteClient::Write, Client::Signal and EndIteration, as the sends they *)
(* make, one block and one signal in each iteration.                       *)
Write == << Call("HEADER", "WRITE"), Call("BODY", "WRITE"), Call("DATA", "WRITE") >>
Signal == << Call("HEADER", "ACTION"), Call("BODY", "ACTION") >>
EndIteration == << Call("none", "ALLREDUCE"), Call("HEADER", "NEXT_ITERATION") >>

(* With shared memory, what a client sends in an iteration is elsewhere.   *)
Rounds == IF SharedMemory THEN 0 ELSE Iterations

Program(k) ==
  IF k = -1 THEN << Call("HEADER", "CONNECT") >>
  ELSE IF k < Rounds THEN Write \o Signal \o EndIteration
  ELSE << Call("HEADER", "STOP") >>

Busy(c) == turn[c] <= Rounds
Todo(c) == Program(turn[c])[made[c] + 1]

Proceed(c) ==
  IF made[c] + 1 < Len(Program(turn[c]))
  THEN made' = [made EXCEPT ![c] = @ + 1] /\ UNCHANGED turn
  ELSE made' = [made EXCEPT ![c] = 0] /\ turn' = [turn EXCEPT ![c] = @ + 1]

Message(c, buffered) ==
  [client |-> c, kind |-> Todo(c).kind, k |-> turn[c], buffered |-> buffered]

Idle == [client |-> -1, awaits |-> "none", kind |-> "none", k |-> 0]

Fresh ==
  [turn       |-> [p \in Proc |-> -1],
   channel    |-> [p \in Proc |-> [t \in Tags |-> <<>>]],
   zero       |-> [p \in Proc |-> 0],
   listening  |-> [p \in Proc |-> IF p \in Servers THEN ClientsOf(p) ELSE {}],
   handling   |-> [p \in Proc |-> Idle],
   nobody     |-> [p \in Proc |-> {}],
   counts     |-> [p \in Proc |-> [k \in Steps |-> 0]]]

Init ==
  /\ InitStartup
  /\ turn = Fresh.turn /\ made = Fresh.zero /\ channel = Fresh.channel
  /\ asyncCount = Fresh.zero /\ finished = Fresh.zero /\ reduced = Fresh.zero
  /\ listening = Fresh.listening /\ handling = Fresh.handling /\ known = Fresh.nobody
  /\ ended = Fresh.nobody /\ arrived = Fresh.zero /\ released = Fresh.zero
  /\ stored = Fresh.nobody /\ stops = Fresh.nobody
  /\ locks = Fresh.counts /\ fired = Fresh.counts

Restart ==
  /\ NextJob
  /\ turn' = Fresh.turn /\ made' = Fresh.zero /\ channel' = Fresh.channel
  /\ asyncCount' = Fresh.zero /\ finished' = Fresh.zero /\ reduced' = Fresh.zero
  /\ listening' = Fresh.listening /\ handling' = Fresh.handling /\ known' = Fresh.nobody
  /\ ended' = Fresh.nobody /\ arrived' = Fresh.zero /\ released' = Fresh.zero
  /\ stored' = Fresh.nobody /\ stops' = Fresh.nobody
  /\ locks' = Fresh.counts /\ fired' = Fresh.counts
----------------------------------------------------------------------------
(* The client. *)

(* c is in AsyncSend of its next message.                                  *)
Sending(c) ==
  /\ pc[c] \in {"connect", "running"}
  /\ pc[c] = "connect" <=> turn[c] = -1
  /\ Busy(c)
  /\ Todo(c).tag \in Tags

(* SimpleAsyncSend raises the count, polls once, and goes on polling while *)
(* the count is not below the size of the queue.                           *)
Reclaimed(c) == IF finished[c] > 0 THEN 1 ELSE 0

(* Variant: the queue may hold as many as its size.                        *)
FullLate(c) == asyncCount[c] + 1 - Reclaimed(c) > QueueSize

Full(c) == asyncCount[c] + 1 - Reclaimed(c) >= QueueSize

PollOne(c) ==
  /\ Sending(c)
  /\ Full(c)
  /\ finished[c] > 0
  /\ finished' = [finished EXCEPT ![c] = @ - 1]
  /\ asyncCount' = [asyncCount EXCEPT ![c] = @ - 1]
  /\ UNCHANGED <<startupVars, turn, made, channel, reduced, serverVars>>

(* Variant: the callback of a send that completes at once is not called.   *)
CountedAlways(buffered) == 1

Counted(buffered) == IF buffered THEN 0 ELSE 1

Post(c) ==
  /\ Sending(c)
  /\ ~ Full(c)
  /\ \E buffered \in config.buffered :
       /\ channel' = [channel EXCEPT ![c][Todo(c).tag] = Append(@, Message(c, buffered))]
       /\ asyncCount' = [asyncCount EXCEPT ![c] = @ + Counted(buffered) - Reclaimed(c)]
  /\ finished' = [finished EXCEPT ![c] = @ - Reclaimed(c)]
  /\ Proceed(c)
  /\ pc' = [pc EXCEPT ![c] = IF @ = "connect" THEN "start"
                             ELSE IF Todo(c).kind = "STOP" THEN "stopped" ELSE @]
  /\ UNCHANGED <<config, job, names, mapped, reduced, serverVars>>

InAllreduce(c) == At(c, "running") /\ Busy(c) /\ Todo(c).kind = "ALLREDUCE"

EnterAllreduce(c) ==
  /\ InAllreduce(c)
  /\ reduced[c] = turn[c]
  /\ reduced' = [reduced EXCEPT ![c] = @ + 1]
  /\ UNCHANGED <<startupVars, turn, made, channel, asyncCount, finished, serverVars>>

LeaveAllreduce(c) ==
  /\ InAllreduce(c)
  /\ \A d \in Clients : reduced[d] > turn[c]
  /\ Proceed(c)
  /\ UNCHANGED <<startupVars, channel, asyncCount, finished, reduced, serverVars>>

ClientStep(c) == PollOne(c) \/ Post(c) \/ EnterAllreduce(c) \/ LeaveAllreduce(c)
----------------------------------------------------------------------------
(* The server. *)

Receive(c, tag) ==
  /\ channel[c][tag] # <<>>
  /\ channel' = [channel EXCEPT ![c][tag] = Tail(@)]
  /\ finished' = IF Head(channel[c][tag]).buffered THEN finished
                 ELSE [finished EXCEPT ![c] = @ + 1]
  /\ UNCHANGED <<config, job, names, mapped, turn, made, asyncCount, reduced>>

OnHeader(s, c, kinds) ==
  /\ At(s, "running")
  /\ handling[s] = Idle
  /\ c \in listening[s]
  /\ Receive(c, "HEADER")
  /\ Head(channel[c]["HEADER"]).kind \in kinds

OnConnect(s, c) ==
  /\ OnHeader(s, c, {"CONNECT"})
  /\ known' = [known EXCEPT ![s] = @ \cup {c}]
  /\ UNCHANGED <<pc, listening, handling, barrierVars, stored, locks, fired, stops>>

(* OnCallAction and OnRemoteWrite go on to receive the body.               *)
OnHeaderOfBody(s, c) ==
  /\ OnHeader(s, c, {"WRITE", "ACTION"})
  /\ LET m == Head(channel[c]["HEADER"])
     IN  handling' = [handling EXCEPT ![s] =
                        [client |-> c, awaits |-> "BODY", kind |-> m.kind, k |-> 0]]
  /\ UNCHANGED <<pc, listening, known, barrierVars, stored, locks, fired, stops>>

(* Variant: the first client to end the iteration ends it for the server.  *)
FirstToEnd(s, c) == ended[s] = {}

LastToEnd(s, c) == ended[s] \cup {c} = ClientsOf(s)

OnNextIteration(s, c) ==
  /\ OnHeader(s, c, {"NEXT_ITERATION"})
  /\ listening' = [listening EXCEPT ![s] = @ \ {c}]
  /\ ended' = [ended EXCEPT ![s] = IF @ \cup {c} = ClientsOf(s) THEN {} ELSE @ \cup {c}]
  /\ arrived' = IF LastToEnd(s, c) THEN [arrived EXCEPT ![s] = @ + 1] ELSE arrived
  /\ UNCHANGED <<pc, handling, known, released, stored, locks, fired, stops>>

(* Variant: the first client to stop its server stops it for all.          *)
FirstToStop(s, c) == stops[s] = {}

LastToStop(s, c) ==
  Cardinality(stops[s] \cup {c}) = ClientsPerNode \div ServersPerNode

(* Server::Run returns after the last of the clients' STOPs, and the set of *)
(* them, cleared in the code, is used no more.                             *)
OnStop(s, c) ==
  /\ OnHeader(s, c, {"STOP"})
  /\ stops' = [stops EXCEPT ![s] = @ \cup {c}]
  /\ IF LastToStop(s, c) THEN Go(s, "stopped") ELSE UNCHANGED pc
  /\ UNCHANGED <<listening, handling, known, barrierVars, stored, locks, fired>>

(* AllocateFixedSize refuses a block that exists: the data is then left in *)
(* the channel.  A client that writes a block once does not meet this.     *)
Exists(s, c, k) == \E b \in stored[s] : b.client = c /\ b.k = k

OnWriteBody(s) ==
  LET h == handling[s]
      k == Head(channel[h.client]["BODY"]).k
  IN
  /\ h.awaits = "BODY" /\ h.kind = "WRITE"
  /\ Receive(h.client, "BODY")
  /\ handling' = [handling EXCEPT ![s] = IF Exists(s, h.client, k) THEN Idle
                     ELSE [h EXCEPT !.awaits = "DATA", !.k = k]]
  /\ UNCHANGED <<pc, listening, known, barrierVars, stored, locks, fired, stops>>

(* Variant: the data is received from any client.                          *)
OnDataOfAny(s) ==
  LET h == handling[s] IN
  /\ h.awaits = "DATA"
  /\ \E c \in ClientsOf(s) :
       /\ Receive(c, "DATA")
       /\ stored' = [stored EXCEPT ![s] = @ \cup
                       {[client |-> h.client, k |-> h.k, from |-> c,
                         of |-> Head(channel[c]["DATA"]).k]}]
  /\ handling' = [handling EXCEPT ![s] = Idle]
  /\ UNCHANGED <<pc, listening, known, barrierVars, locks, fired, stops>>

OnData(s) ==
  LET h == handling[s]
      m == Head(channel[h.client]["DATA"])
  IN
  /\ h.awaits = "DATA"
  /\ Receive(h.client, "DATA")
  /\ stored' = [stored EXCEPT ![s] = @ \cup
                  {[client |-> h.client, k |-> h.k, from |-> m.client, of |-> m.k]}]
  /\ handling' = [handling EXCEPT ![s] = Idle]
  /\ UNCHANGED <<pc, listening, known, barrierVars, locks, fired, stops>>

(* GroupAction::Call counts the event, and runs the action once as many    *)
(* have come as there are clients known by then.                           *)
OnActionBody(s) ==
  LET h == handling[s]
      k == Head(channel[h.client]["BODY"]).k
  IN
  /\ h.awaits = "BODY" /\ h.kind = "ACTION"
  /\ Receive(h.client, "BODY")
  /\ IF locks[s][k] + 1 >= Cardinality(known[s])
     THEN /\ fired' = [fired EXCEPT ![s][k] = @ + 1]
          /\ locks' = [locks EXCEPT ![s][k] = 0]
     ELSE /\ locks' = [locks EXCEPT ![s][k] = @ + 1]
          /\ UNCHANGED fired
  /\ handling' = [handling EXCEPT ![s] = Idle]
  /\ UNCHANGED <<pc, listening, known, barrierVars, stored, stops>>

(* The wave of the servers' barrier: the clients are listened to again.    *)
EndOfIteration(s) ==
  /\ At(s, "running")
  /\ handling[s] = Idle
  /\ \A q \in Servers : released[s] < arrived[q]
  /\ released' = [released EXCEPT ![s] = @ + 1]
  /\ listening' = [listening EXCEPT ![s] = ClientsOf(s)]
  /\ UNCHANGED <<startupVars, clientVars, handling, known, ended, arrived, stored,
                 locks, fired, stops>>

ServerStep(s) ==
  \/ \E c \in ClientsOf(s) :
       OnConnect(s, c) \/ OnHeaderOfBody(s, c) \/ OnNextIteration(s, c) \/ OnStop(s, c)
  \/ OnWriteBody(s) \/ OnData(s) \/ OnActionBody(s) \/ EndOfIteration(s)
----------------------------------------------------------------------------
StartupStep(p) ==
  /\ InitializeStep(p) \/ Finalize(p)
  /\ UNCHANGED <<clientVars, serverVars>>

Step(p) ==
  \/ StartupStep(p)
  \/ p \in Clients /\ ClientStep(p)
  \/ p \in Servers /\ ServerStep(p)

Next ==
  \/ \E p \in Proc : StartupStep(p)
  \/ \E c \in Clients : ClientStep(c)
  \/ \E s \in Servers : ServerStep(s)
  \/ Restart

(* While some process can go on, one does; no job need be killed or started *)
(* again.  No step of a job repeats, so that this lets every process go on. *)
Spec == Init /\ [][Next]_vars /\ WF_vars(\E p \in Proc : Step(p))
----------------------------------------------------------------------------
TypeOK ==
  /\ StartupTypeOK
  /\ \A p \in Proc :
       /\ asyncCount[p] \in 0 .. QueueSize - 1
       /\ finished[p] \in 0 .. asyncCount[p]
       /\ reduced[p] \in 0 .. Iterations
       /\ listening[p] \subseteq Clients
       /\ handling[p].awaits \in {"none", "BODY", "DATA"}
       /\ known[p] \subseteq Clients /\ stops[p] \subseteq Clients
       /\ locks[p] \in [Steps -> 0 .. Cardinality(Clients)]

(* What is stored under the name of a block is the data written to it: the *)
(* n-th body of a client and its n-th data, which travel apart, are of the *)
(* same write (Server::OnRemoteWrite).                                     *)
DataMatchesHeader ==
  \A s \in Servers : \A b \in stored[s] :
    /\ b.from = b.client /\ b.of = b.k
    /\ b.client \in ClientsOf(s)

(* The server has got from c what Signal sends in iteration k.             *)
Signalled(c, k) ==
  /\ turn[c] >= k
  /\ turn[c] = k => made[c] >= Len(Write) + Len(Signal)
  /\ \A i \in DOMAIN channel[c]["BODY"] :
       ~ (channel[c]["BODY"][i].kind = "ACTION" /\ channel[c]["BODY"][i].k = k)

(* From the second iteration on, an action of scope group runs once per    *)
(* iteration, when every client of the server has signalled it.  In the    *)
(* first it may run while some client's CONNECT is still under way.        *)
GroupActionOnce ==
  \A s \in Servers : \A k \in Steps \ {0} :
    fired[s][k] = IF ~ SharedMemory /\ \A c \in ClientsOf(s) : Signalled(c, k)
                  THEN 1 ELSE 0

(* A server returns (Server::OnStop) when its clients have sent all they   *)
(* send, and it has received all of it and stored every block: no message  *)
(* is left to a server that has gone, and no data is lost with one.        *)
NothingIsLeftBehind ==
  \A s \in Servers : pc[s] \in {"stopped", "done"} =>
    \A c \in ClientsOf(s) :
      /\ pc[c] \in {"stopped", "done"}
      /\ \A t \in Tags : channel[c][t] = <<>>
      /\ \A k \in 0 .. Rounds - 1 : Exists(s, c, k)

(* Every job ends, the first and each later one, unless it is killed (the  *)
(* next is then started) or fails to start (StartSucceeds): a client gets  *)
(* all it sends through its queue, a server all that its clients send, and *)
(* all are finalized.  Since a job that is not killed is followed by       *)
(* another only once it has ended, it is enough that some job always ends  *)
(* from now on: the one that goes on, or one that has come after it.       *)
EveryJobEnds ==
  []<>((\A p \in Proc : At(p, "done")) \/ \E p \in Proc : At(p, "failed"))
=============================================================================
