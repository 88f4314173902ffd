------------------------------ MODULE Startup ------------------------------
(***************************************************************************)
(* damaris_initialize to damaris_finalize: which process is a client and   *)
(* which a server, who talks to whom, the shared segment of a node, and    *)
(* the barriers between its creation and its use.  A job may be killed at  *)
(* any moment and started again with the same configuration: the names of  *)
(* its segments outlive it.                                                *)
(***************************************************************************)
EXTENDS Integers, FiniteSets

CONSTANT Configs   \* the architectures: see ConfigOK

(* dedicated: cores per node, or nodes; buffer: shared memory is enabled;  *)
(* blocks: pieces of the segment; killed: a job may be killed; jobs: bound *)
(* on how many times the job is started; buffered: whether MPI buffers a   *)
(* send and completes it at once, both where it may do one or the other.   *)
ConfigOK(c) ==
  /\ c.mode \in {"cores", "nodes"}
  /\ {c.nodes, c.cores, c.dedicated, c.jobs} \subseteq Nat \ {0}
  /\ {c.buffer, c.killed} \subseteq BOOLEAN
  /\ c.blocks \in Nat
  /\ c.buffered \in SUBSET BOOLEAN \ {{}}

ASSUME StartupOK == \A c \in Configs : ConfigOK(c)

VARIABLES
  config,   \* the architecture of the job
  job,      \* which start of it this is
  pc,       \* where each process is
  names,    \* for each node, the names of segments: the job that made each
  mapped    \* for each process, the job that made each piece it has mapped

startupVars == <<config, job, pc, names, mapped>>

Node(p) == p \div config.cores
RankInNode(p) == p % config.cores
Proc == 0 .. config.nodes * config.cores - 1

(* Environment::InitDedicatedCores and InitDedicatedNodes.                 *)
DedicatedCores == config.mode = "cores"
ClientsPerNode == (IF DedicatedCores THEN config.cores ELSE config.nodes) - config.dedicated
ServersPerNode == config.dedicated
Ratio == ClientsPerNode \div ServersPerNode
FirstClient == config.dedicated * config.cores

Placeable(c) ==
  LET clients == (IF c.mode = "cores" THEN c.cores ELSE c.nodes) - c.dedicated
  IN  clients > 0 /\ clients % c.dedicated = 0

IsClient(p) ==
  IF DedicatedCores THEN RankInNode(p) < ClientsPerNode ELSE p >= FirstClient

(* Variant: the servers are dealt to the clients in turn.                  *)
ServerOfRoundRobin(p) ==
  IF DedicatedCores
  THEN Node(p) * config.cores + ClientsPerNode + (RankInNode(p) % ServersPerNode)
  ELSE (p - FirstClient) % FirstClient

(* The server a client connects to, and the clients a server listens to.   *)
ServerOf(p) ==
  IF DedicatedCores
  THEN Node(p) * config.cores + ClientsPerNode + RankInNode(p) \div Ratio
  ELSE (p - FirstClient) \div Ratio

ClientsOf(p) ==
  {IF DedicatedCores
   THEN Node(p) * config.cores + (RankInNode(p) - ClientsPerNode) * Ratio + k
   ELSE p * Ratio + k + FirstClient : k \in 0 .. Ratio - 1}

Clients == {p \in Proc : IsClient(p)}
Servers == Proc \ Clients

SharedMemory == DedicatedCores /\ config.buffer
Owner(p) == SharedMemory /\ p \in Servers /\ RankInNode(p) = ClientsPerNode

(* A segment of one block has one name, others one per block.              *)
Pieces == 0 .. (IF config.blocks > 1 THEN config.blocks ELSE 1) - 1
Nothing == [i \in Pieces |-> 0]

InitStartup ==
  /\ config \in {c \in Configs : Placeable(c)}
  /\ job = 1
  /\ pc = [p \in Proc |-> "off"]
  /\ names = [n \in 0 .. config.nodes - 1 |-> Nothing]
  /\ mapped = [p \in Proc |-> Nothing]

At(p, here) == pc[p] = here
Go(p, there) == pc' = [pc EXCEPT ![p] = there]
----------------------------------------------------------------------------
(* SharedMemorySegment::Remove.  With several blocks, `res || remove(...)` *)
(* stops at the first name there was: one is removed.                      *)
First(n) == CHOOSE i \in Pieces : names[n][i] # 0 /\ \A j \in 0 .. i-1 : names[n][j] = 0

Removed(n) ==
  IF names[n] = Nothing THEN Nothing
  ELSE [names[n] EXCEPT ![First(n)] = 0]

(* Variant: an earlier job's segment is left alone.                        *)
BeginKeeping(p) ==
  /\ At(p, "off")
  /\ Go(p, IF Owner(p) THEN "create"
           ELSE IF SharedMemory /\ p \in Servers THEN "entity" ELSE "global")
  /\ UNCHANGED <<config, job, names, mapped>>

(* Variant: a client does not wait for the servers.                        *)
BeginAtOnce(p) ==
  /\ At(p, "off")
  /\ Go(p, IF Owner(p) THEN "create"
           ELSE IF p \in Clients THEN "open"
           ELSE IF SharedMemory THEN "entity" ELSE "global")
  /\ names' = IF Owner(p) THEN [names EXCEPT ![Node(p)] = Removed(Node(p))] ELSE names
  /\ UNCHANGED <<config, job, mapped>>

(* The first server of a node creates the segment, once it has removed one *)
(* of that name; its other servers wait for that, the clients for all      *)
(* servers.                                                                *)
Begin(p) ==
  /\ At(p, "off")
  /\ Go(p, IF Owner(p) THEN "create"
           ELSE IF SharedMemory /\ p \in Servers THEN "entity" ELSE "global")
  /\ names' = IF Owner(p) THEN [names EXCEPT ![Node(p)] = Removed(Node(p))] ELSE names
  /\ UNCHANGED <<config, job, mapped>>

(* SharedMemorySegment::Create, one block after the other.  The name must  *)
(* not exist.                                                              *)
CreatePiece(p) ==
  /\ At(p, "create")
  /\ \E i \in Pieces :
       /\ mapped[p][i] = 0 /\ \A j \in 0 .. i-1 : mapped[p][j] # 0
       /\ names[Node(p)][i] = 0
       /\ names' = [names EXCEPT ![Node(p)][i] = job]
       /\ mapped' = [mapped EXCEPT ![p][i] = job]
       /\ IF i + 1 \in Pieces THEN UNCHANGED pc ELSE Go(p, "entity")
  /\ UNCHANGED <<config, job>>

(* Create answers a null pointer, and the process goes on with it.         *)
CreateFails(p) ==
  /\ At(p, "create")
  /\ \E i \in Pieces :
       /\ mapped[p][i] = 0 /\ \A j \in 0 .. i-1 : mapped[p][j] # 0
       /\ names[Node(p)][i] # 0
  /\ Go(p, "failed")
  /\ UNCHANGED <<config, job, names, mapped>>

Early == {"off", "create"}
BeforeGlobal == Early \cup {"entity", "attach"}
BeforeStart == BeforeGlobal \cup {"global", "open", "connect", "failed"}

(* MPI_Barrier among the servers.                                          *)
LeaveEntityBarrier(p) ==
  /\ At(p, "entity")
  /\ \A q \in Servers : pc[q] \notin Early \cup {"failed"}
  /\ Go(p, IF Owner(p) THEN "global" ELSE "attach")
  /\ UNCHANGED <<config, job, names, mapped>>

(* SharedMemorySegment::Open.                                              *)
Open(p) ==
  /\ At(p, "attach") \/ At(p, "open")
  /\ IF ~ SharedMemory
     THEN UNCHANGED mapped /\ Go(p, "connect")
     ELSE /\ mapped' = [mapped EXCEPT ![p] = names[Node(p)]]
          /\ Go(p, IF \E i \in Pieces : names[Node(p)][i] = 0 THEN "failed"
                   ELSE IF p \in Servers THEN "global" ELSE "connect")
  /\ UNCHANGED <<config, job, names>>

(* MPI_Barrier among all, then that of damaris_start.                      *)
LeaveGlobalBarrier(p) ==
  /\ At(p, "global")
  /\ \A q \in Proc : pc[q] \notin BeforeGlobal \cup {"failed"}
  /\ Go(p, IF p \in Clients THEN "open" ELSE "start")
  /\ UNCHANGED <<config, job, names, mapped>>

LeaveStartBarrier(p) ==
  /\ At(p, "start")
  /\ \A q \in Proc : pc[q] \notin BeforeStart
  /\ Go(p, "running")
  /\ UNCHANGED <<config, job, names, mapped>>

(* damaris_finalize: the owner removes the name.                           *)
Finalize(p) ==
  /\ At(p, "stopped")
  /\ Go(p, "done")
  /\ names' = IF Owner(p) THEN [names EXCEPT ![Node(p)] = Removed(Node(p))] ELSE names
  /\ mapped' = [mapped EXCEPT ![p] = Nothing]
  /\ UNCHANGED <<config, job>>

InitializeStep(p) ==
  \/ Begin(p) \/ CreatePiece(p) \/ CreateFails(p) \/ LeaveEntityBarrier(p)
  \/ Open(p) \/ LeaveGlobalBarrier(p) \/ LeaveStartBarrier(p)

(* The next job is started when this one is over, or has been killed.      *)
NextJob ==
  /\ job < config.jobs
  /\ config.killed \/ \A p \in Proc : At(p, "done")
  /\ \E p \in Proc : ~ At(p, "off")
  /\ job' = job + 1
  /\ pc' = [p \in Proc |-> "off"]
  /\ mapped' = [p \in Proc |-> Nothing]
  /\ UNCHANGED <<config, names>>
----------------------------------------------------------------------------
StartupTypeOK ==
  /\ config \in Configs
  /\ job \in 1 .. config.jobs
  /\ pc \in [Proc -> BeforeStart \cup {"start", "running", "stopped", "done"}]
  /\ names \in [0 .. config.nodes - 1 -> [Pieces -> 0 .. job]]
  /\ mapped \in [Proc -> [Pieces -> 0 .. job]]

(* The channels a client and a server set up apart from one another have   *)
(* the same ends, and a server has as many as it waits for in OnStop and   *)
(* StartNextIteration (InitDedicatedCores, InitDedicatedNodes).            *)
PlacementAgrees ==
  /\ \A p \in Clients : ServerOf(p) \in Servers /\ p \in ClientsOf(ServerOf(p))
  /\ \A s \in Servers :
       /\ Cardinality(ClientsOf(s)) = ClientsPerNode \div ServersPerNode
       /\ \A c \in ClientsOf(s) : c \in Clients /\ ServerOf(c) = s

(* A process that is past damaris_initialize has mapped the segment that   *)
(* the first server of its node has made in this job, all of it, and no    *)
(* other: never one that a killed job has left.                            *)
SameSegment ==
  SharedMemory =>
    \A p \in Proc : pc[p] \in {"connect", "start", "running", "stopped"} =>
      \A i \in Pieces : mapped[p][i] = job

(* With a segment of one block a job starts whatever earlier ones, ended   *)
(* or killed at any moment, have left behind.  With several it may not:    *)
(* RemoveMultiBlock ("Removes multiple blocks of shared memory",           *)
(* SharedMemorySegment.hpp:211-216) removes the first name it finds, and   *)
(* Create meets the others.                                                *)
StartSucceeds == \A p \in Proc : At(p, "failed") => config.blocks > 1
=============================================================================
