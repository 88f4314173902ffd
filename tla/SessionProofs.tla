--------------------------- MODULE SessionProofs ---------------------------
(***************************************************************************)
(* Proofs about Startup and Session, for every architecture, number of     *)
(* jobs, of iterations and size of the queue.                              *)
(***************************************************************************)
EXTENDS Session, TLAPS, FiniteSetTheorems, SequenceTheorems, ChannelLemmas

LEMMA DivLemma ==
  ASSUME NEW a \in Nat, NEW b \in Nat \ {0}, NEW q \in Nat
  PROVE  /\ a \div b \in Nat
         /\ b * (a \div b) <= a
         /\ a < b * (a \div b) + b
         /\ b * q <= a /\ a < b * q + b => q = a \div b
         /\ a % b = a - b * (a \div b)
  OBVIOUS

(* A number below b * n has its quotient by b below n.                     *)
LEMMA BelowLemma ==
  ASSUME NEW a \in Nat, NEW b \in Nat \ {0}, NEW n \in Nat, a < b * n
  PROVE  a \div b < n
<1>1. a \div b \in Nat /\ b * (a \div b) <= a
  BY DivLemma
<1>2. CASE a \div b >= n
  <2>1. b * (a \div b) >= b * n
    BY <1>1, <1>2
  <2> QED
    BY <1>1, <2>1
<1> QED
  BY <1>1, <1>2

(* The same, the other way round.                                          *)
Above(q, b, n, r) ==
  /\ b * q + r < b * n
  /\ (b * q + r) \div b = q
  /\ (b * q + r) % b = r

LEMMA AboveLemma ==
  ASSUME NEW q \in Nat, NEW b \in Nat \ {0}, NEW n \in Nat, NEW r \in Nat, q < n, r < b
  PROVE  Above(q, b, n, r)
<1>1. b * (q + 1) <= b * n
  OBVIOUS
<1>2. b * (q + 1) = b * q + b
  OBVIOUS
<1>3. b * q + r \in Nat /\ b * q \in Nat /\ b * n \in Nat
  OBVIOUS
<1>4. b * q + r < b * n
  BY <1>1, <1>2, <1>3
<1>5. q = (b * q + r) \div b
  BY <1>3, DivLemma
<1> QED
  BY <1>3, <1>4, <1>5, DivLemma DEF Above

LEMMA IntervalLemma ==
  ASSUME NEW a \in Nat, NEW n \in Nat \ {0}
  PROVE  Cardinality({a + k : k \in 0 .. n - 1}) = n
<1>1. {a + k : k \in 0 .. n - 1} = a .. a + n - 1
  <2>1. ASSUME NEW x \in a .. a + n - 1
        PROVE  x - a \in 0 .. n - 1 /\ x = a + (x - a)
    OBVIOUS
  <2>2. ASSUME NEW k \in 0 .. n - 1
        PROVE  a + k \in a .. a + n - 1
    OBVIOUS
  <2> QED
    BY <2>1, <2>2
<1>2. Cardinality(a .. a + n - 1) = (a + n - 1) - a + 1
  BY FS_Interval
<1>3. (a + n - 1) - a + 1 = n
  OBVIOUS
<1> QED
  BY <1>1, <1>2, <1>3
----------------------------------------------------------------------------
(* The architecture of a job that starts.                                  *)
Placed == config \in Configs /\ Placeable(config)

LEMMA PlacedLemma ==
  ASSUME Placed
  PROVE  /\ config.nodes \in Nat \ {0}
         /\ config.cores \in Nat \ {0}
         /\ config.dedicated \in Nat \ {0}
         /\ config.jobs \in Nat \ {0}
         /\ config.mode \in {"cores", "nodes"}
         /\ ClientsPerNode \in Nat \ {0}
         /\ Ratio \in Nat \ {0}
         /\ ClientsPerNode = ServersPerNode * Ratio
         /\ ServersPerNode = config.dedicated
         /\ DedicatedCores => config.cores = ClientsPerNode + config.dedicated
         /\ ~ DedicatedCores => config.nodes = ClientsPerNode + config.dedicated
<1>1. /\ config.nodes \in Nat \ {0}
      /\ config.cores \in Nat \ {0}
      /\ config.dedicated \in Nat \ {0}
      /\ config.jobs \in Nat \ {0}
      /\ config.mode \in {"cores", "nodes"}
  BY StartupOK DEF Placed, ConfigOK
<1>2. ClientsPerNode \in Nat \ {0} /\ ClientsPerNode % config.dedicated = 0
  BY <1>1 DEF Placed, Placeable, ClientsPerNode, DedicatedCores
<1>3. /\ ClientsPerNode \div config.dedicated \in Nat
      /\ ClientsPerNode % config.dedicated
           = ClientsPerNode - config.dedicated * (ClientsPerNode \div config.dedicated)
  BY <1>1, <1>2, DivLemma
<1>4. Ratio = ClientsPerNode \div config.dedicated
  BY DEF Ratio, ServersPerNode
<1>5. Ratio \in Nat /\ ClientsPerNode = config.dedicated * Ratio
  BY <1>1, <1>2, <1>3, <1>4
<1>6. Ratio # 0
  BY <1>1, <1>2, <1>5
<1> QED
  BY <1>1, <1>2, <1>5, <1>6 DEF ServersPerNode, ClientsPerNode, DedicatedCores

(* Where a process is.                                                     *)
LEMMA NodeLemma ==
  ASSUME Placed, NEW p \in Proc
  PROVE  /\ p \in Nat /\ p < config.cores * config.nodes
         /\ Node(p) \in 0 .. config.nodes - 1
         /\ RankInNode(p) \in 0 .. config.cores - 1
         /\ p = config.cores * Node(p) + RankInNode(p)
<1>1. /\ p \in Nat /\ p < config.cores * config.nodes
      /\ config.cores \in Nat \ {0} /\ config.nodes \in Nat \ {0}
  BY PlacedLemma DEF Proc
<1>2. /\ p \div config.cores \in Nat
      /\ config.cores * (p \div config.cores) <= p
      /\ p < config.cores * (p \div config.cores) + config.cores
      /\ p % config.cores = p - config.cores * (p \div config.cores)
  BY <1>1, DivLemma
<1>3. p \div config.cores < config.nodes
  BY <1>1, BelowLemma
<1> QED
  BY <1>1, <1>2, <1>3 DEF Node, RankInNode

LEMMA TimesLemma ==
  ASSUME NEW a \in Nat, NEW b \in Nat
  PROVE  a * b = b * a /\ a * b \in Nat
  OBVIOUS

(* And which process is there.                                             *)
LEMMA PlaceLemma ==
  ASSUME Placed, NEW n \in 0 .. config.nodes - 1, NEW r \in 0 .. config.cores - 1
  PROVE  /\ n * config.cores + r \in Proc
         /\ Node(n * config.cores + r) = n
         /\ RankInNode(n * config.cores + r) = r
<1>1. config.cores \in Nat \ {0} /\ config.nodes \in Nat \ {0}
  BY PlacedLemma
<1>2. /\ n \in Nat /\ r \in Nat /\ n < config.nodes /\ r < config.cores
      /\ config.nodes \in Nat
  BY <1>1
<1>3. /\ config.cores * n + r < config.cores * config.nodes
      /\ (config.cores * n + r) \div config.cores = n
      /\ (config.cores * n + r) % config.cores = r
  <2>1. Above(n, config.cores, config.nodes, r)
    BY <1>1, <1>2, AboveLemma
  <2> QED
    BY <2>1, Zenon DEF Above
<1>4. n * config.cores = config.cores * n /\ config.cores * n \in Nat
  BY <1>1, <1>2, TimesLemma, Zenon
<1>5. /\ config.cores * config.nodes = config.nodes * config.cores
      /\ config.nodes * config.cores \in Nat
  BY <1>1, TimesLemma
<1>6. n * config.cores + r = config.cores * n + r
  BY <1>4
<1>7. n * config.cores + r \in Nat
  BY <1>2, <1>4
<1>8. /\ n * config.cores + r \in Nat
      /\ n * config.cores + r < config.nodes * config.cores
      /\ config.nodes * config.cores \in Nat
  BY <1>3, <1>5, <1>6, <1>7, Zenon
<1>9. n * config.cores + r \in Proc
  <2> DEFINE p == n * config.cores + r
             N == config.nodes * config.cores
  <2>1. p \in Nat /\ N \in Nat /\ p < N
    BY <1>8
  <2> HIDE DEF p, N
  <2>2. p \in 0 .. N - 1
    BY <2>1
  <2> QED
    BY <2>2 DEF p, N, Proc
<1>10. /\ Node(n * config.cores + r) = (config.cores * n + r) \div config.cores
      /\ RankInNode(n * config.cores + r) = (config.cores * n + r) % config.cores
  BY <1>4 DEF Node, RankInNode
<1> QED
  BY <1>3, <1>9, <1>10

LEMMA CoresPlacement ==
  ASSUME Placed, DedicatedCores
  PROVE  PlacementAgrees
<1> DEFINE C == ClientsPerNode
           D == config.dedicated
           K == config.cores
<1>1. /\ C \in Nat \ {0} /\ D \in Nat \ {0} /\ K \in Nat \ {0} /\ Ratio \in Nat \ {0}
      /\ C = Ratio * D /\ K = C + D
  BY PlacedLemma DEF ServersPerNode
<1>2. ASSUME NEW p \in Clients
      PROVE  ServerOf(p) \in Servers /\ p \in ClientsOf(ServerOf(p))
  <2>1. p \in Proc /\ RankInNode(p) < C
    BY DEF Clients, IsClient
  <2>2. /\ RankInNode(p) \in Nat /\ Node(p) \in 0 .. config.nodes - 1
        /\ p = K * Node(p) + RankInNode(p)
    BY <2>1, <1>1, NodeLemma
  <2> DEFINE q == RankInNode(p) \div Ratio
             k == RankInNode(p) - Ratio * q
  <2>3. /\ q \in Nat /\ q < D
        /\ Ratio * q <= RankInNode(p) /\ RankInNode(p) < Ratio * q + Ratio
    BY <2>1, <2>2, <1>1, DivLemma, BelowLemma
  <2>4. C + q \in 0 .. K - 1 /\ ~ (C + q < C) /\ (C + q) - C = q
    BY <2>3, <1>1
  <2>5. ServerOf(p) = Node(p) * K + (C + q)
    BY <2>2, <2>3, <1>1 DEF ServerOf
  <2>6. /\ ServerOf(p) \in Proc /\ Node(ServerOf(p)) = Node(p)
        /\ RankInNode(ServerOf(p)) = C + q
    BY <2>2, <2>4, <2>5, PlaceLemma
  <2>7. ServerOf(p) \in Servers
    BY <2>4, <2>6 DEF Servers, Clients, IsClient
  <2>8. k \in 0 .. Ratio - 1
    BY <2>2, <2>3, <1>1
  <2>9. p = Node(p) * K + q * Ratio + k
    BY <2>2, <2>3, <1>1
  <2> HIDE DEF q, k
  <2>10. ClientsOf(ServerOf(p)) = {Node(p) * K + q * Ratio + j : j \in 0 .. Ratio - 1}
    BY <2>4, <2>6 DEF ClientsOf
  <2> QED
    BY <2>7, <2>8, <2>9, <2>10
<1>3. ASSUME NEW s \in Servers
      PROVE  /\ Cardinality(ClientsOf(s)) = ClientsPerNode \div ServersPerNode
             /\ \A c \in ClientsOf(s) : c \in Clients /\ ServerOf(c) = s
  <2>1. s \in Proc /\ ~ (RankInNode(s) < C)
    BY DEF Servers, Clients, IsClient
  <2>2. /\ RankInNode(s) \in 0 .. K - 1 /\ Node(s) \in 0 .. config.nodes - 1
        /\ s = K * Node(s) + RankInNode(s)
    BY <2>1, NodeLemma
  <2> DEFINE q == RankInNode(s) - C
  <2>3. q \in Nat /\ q < D /\ C + q = RankInNode(s)
    BY <2>1, <2>2, <1>1
  <2> HIDE DEF q
  <2>4. ClientsOf(s) = {Node(s) * K + q * Ratio + k : k \in 0 .. Ratio - 1}
    BY DEF ClientsOf, q
  <2>5. Node(s) * K + q * Ratio \in Nat
    BY <2>2, <2>3, <1>1
  <2>6. Cardinality(ClientsOf(s)) = Ratio
    BY <2>4, <2>5, <1>1, IntervalLemma
  <2>7. ASSUME NEW k \in 0 .. Ratio - 1
        PROVE  /\ Node(s) * K + q * Ratio + k \in Clients
               /\ ServerOf(Node(s) * K + q * Ratio + k) = s
    <3> DEFINE r == Ratio * q + k
               c == Node(s) * K + r
    <3>1. /\ q \in Nat /\ Ratio \in Nat \ {0} /\ D \in Nat /\ k \in Nat
          /\ q < D /\ k < Ratio
      BY <2>3, <1>1
    <3> HIDE DEF D
    <3>2. r < Ratio * D /\ r \div Ratio = q /\ r \in Nat
      <4>1. Above(q, Ratio, D, k)
        BY <3>1, AboveLemma
      <4> QED
        BY <3>1, <4>1 DEF Above
    <3> USE DEF D
    <3>3. r < C /\ r \in 0 .. K - 1
      BY <3>2, <1>1
    <3> HIDE DEF r
    <3>4. c \in Proc /\ Node(c) = Node(s) /\ RankInNode(c) = r
      BY <2>2, <3>3, PlaceLemma
    <3>5. c \in Clients
      BY <3>3, <3>4 DEF Clients, IsClient
    <3>6. ServerOf(c) = Node(s) * K + C + q
      BY <3>2, <3>4 DEF ServerOf
    <3>7. Node(s) * K + C + q = s
      BY <2>2, <2>3, <1>1
    <3>8. Node(s) * K + q * Ratio + k = c
      BY <2>2, <2>3, <1>1 DEF r
    <3> QED
      BY <3>5, <3>6, <3>7, <3>8
  <2> QED
    BY <2>4, <2>6, <2>7 DEF Ratio
<1> QED
  BY <1>2, <1>3 DEF PlacementAgrees

LEMMA NodesPlacement ==
  ASSUME Placed, ~ DedicatedCores
  PROVE  PlacementAgrees
<1> DEFINE F == FirstClient
           N == config.nodes * config.cores
<1>1. /\ F \in Nat \ {0} /\ Ratio \in Nat \ {0}
      /\ N = F + Ratio * F
      /\ Proc = 0 .. N - 1
  <2>1. /\ config.dedicated \in Nat \ {0} /\ config.cores \in Nat \ {0}
        /\ Ratio \in Nat \ {0}
        /\ config.nodes = config.dedicated * Ratio + config.dedicated
    BY PlacedLemma DEF ServersPerNode
  <2>2. F \in Nat \ {0} /\ F = config.dedicated * config.cores
    BY <2>1 DEF FirstClient
  <2>3. (config.dedicated * Ratio + config.dedicated) * config.cores
          = config.dedicated * config.cores + Ratio * (config.dedicated * config.cores)
    BY <2>1
  <2> QED
    BY <2>1, <2>2, <2>3 DEF Proc
<1> HIDE DEF F, N
<1>2. /\ \A p \in Proc : p \in Clients <=> p >= F
      /\ Servers = 0 .. F - 1
  BY <1>1 DEF Clients, IsClient, Servers, F
<1>3. ASSUME NEW p \in Clients
      PROVE  ServerOf(p) \in Servers /\ p \in ClientsOf(ServerOf(p))
  <2>1. p \in Proc /\ p - F \in Nat /\ p - F < Ratio * F
    BY <1>1, <1>2 DEF Clients
  <2> DEFINE q == (p - F) \div Ratio
             k == (p - F) - Ratio * q
  <2>2. /\ q \in Nat /\ q < F
        /\ Ratio * q <= p - F /\ p - F < Ratio * q + Ratio
    BY <2>1, <1>1, DivLemma, BelowLemma
  <2>3. ServerOf(p) = q
    BY DEF ServerOf, F
  <2>4. k \in 0 .. Ratio - 1 /\ p = q * Ratio + k + F
    BY <2>1, <2>2, <1>1
  <2>5. ClientsOf(q) = {q * Ratio + j + F : j \in 0 .. Ratio - 1}
    BY DEF ClientsOf, F
  <2>6. q \in Servers
    BY <2>2, <1>1, <1>2
  <2> HIDE DEF q, k
  <2> QED
    BY <2>3, <2>4, <2>5, <2>6
<1>4. ASSUME NEW s \in Servers
      PROVE  /\ Cardinality(ClientsOf(s)) = ClientsPerNode \div ServersPerNode
             /\ \A c \in ClientsOf(s) : c \in Clients /\ ServerOf(c) = s
  <2>1. s \in Nat /\ s < F
    BY <1>1, <1>2
  <2>2. ClientsOf(s) = {s * Ratio + k + F : k \in 0 .. Ratio - 1}
    BY DEF ClientsOf, F
  <2>3. \A k \in 0 .. Ratio - 1 : s * Ratio + k + F = (s * Ratio + F) + k
    BY <2>1, <1>1
  <2>4. ClientsOf(s) = {(s * Ratio + F) + k : k \in 0 .. Ratio - 1}
    BY <2>2, <2>3
  <2>5. s * Ratio + F \in Nat
    BY <2>1, <1>1
  <2>6. Cardinality(ClientsOf(s)) = Ratio
    BY <2>4, <2>5, <1>1, IntervalLemma
  <2>7. ASSUME NEW k \in 0 .. Ratio - 1
        PROVE  /\ s * Ratio + k + F \in Clients
               /\ ServerOf(s * Ratio + k + F) = s
    <3> DEFINE c == s * Ratio + k + F
    <3>1. /\ Ratio * s + k < Ratio * F /\ (Ratio * s + k) \div Ratio = s
          /\ Ratio * s + k \in Nat
      <4>1. Above(s, Ratio, F, k)
        BY <2>1, <1>1, AboveLemma
      <4> QED
        BY <4>1, <2>1, <1>1 DEF Above
    <3>2. c - F = Ratio * s + k /\ c >= F /\ c \in Proc
      BY <3>1, <2>1, <1>1
    <3>3. ServerOf(c) = (c - F) \div Ratio
      BY DEF ServerOf, F
    <3> HIDE DEF c
    <3>4. c \in Clients /\ ServerOf(c) = s
      BY <3>1, <3>2, <3>3, <1>2
    <3> QED
      BY <3>4 DEF c
  <2> QED
    BY <2>2, <2>6, <2>7 DEF Ratio
<1> QED
  BY <1>3, <1>4 DEF PlacementAgrees

LEMMA Placement ==
  ASSUME Placed
  PROVE  PlacementAgrees
  BY CoresPlacement, NodesPlacement
----------------------------------------------------------------------------
(* The architecture does not change: nor does what is read off it.         *)
LEMMA FixedLemma ==
  ASSUME config' = config
  PROVE  /\ Placed' <=> Placed
         /\ Proc' = Proc /\ Clients' = Clients /\ Servers' = Servers /\ Pieces' = Pieces
         /\ SharedMemory' <=> SharedMemory
         /\ Nothing' = Nothing
         /\ \A p : Node(p)' = Node(p)
         /\ \A p : Owner(p)' <=> Owner(p)
         /\ PlacementAgrees' <=> PlacementAgrees
<1>1. /\ Proc' = Proc /\ Clients' = Clients /\ Servers' = Servers /\ Pieces' = Pieces
      /\ SharedMemory' <=> SharedMemory
  BY DEF Proc, Clients, Servers, Pieces, SharedMemory, IsClient, DedicatedCores,
         RankInNode, ClientsPerNode, FirstClient
<1>2. Nothing' = Nothing
  BY <1>1 DEF Nothing
<1>3. \A p : Node(p)' = Node(p) /\ RankInNode(p)' = RankInNode(p)
  BY DEF Node, RankInNode
<1>4. ClientsPerNode' = ClientsPerNode
  BY DEF ClientsPerNode, DedicatedCores
<1>5. \A p : Owner(p)' <=> Owner(p)
  BY <1>1, <1>3, <1>4 DEF Owner
<1>6. Placed' <=> Placed
  BY DEF Placed
<1>7. /\ \A p : ServerOf(p)' = ServerOf(p) /\ ClientsOf(p)' = ClientsOf(p)
      /\ ServersPerNode' = ServersPerNode
  BY <1>3, <1>4 DEF ServerOf, ClientsOf, Ratio, ServersPerNode, ClientsPerNode,
                    DedicatedCores, RankInNode, Node, FirstClient
<1>8. PlacementAgrees' <=> PlacementAgrees
  BY <1>1, <1>4, <1>7 DEF PlacementAgrees
<1> QED
  BY <1>1, <1>2, <1>3, <1>5, <1>6, <1>8

(* What a step may do to the variables of Startup.                         *)
Sent(p) ==
  /\ \/ At(p, "connect") /\ Go(p, "start")
     \/ At(p, "running") /\ Go(p, "stopped")
  /\ UNCHANGED <<config, job, names, mapped>>

LEMMA StartupSteps ==
  ASSUME Next, pc = [p \in Proc |-> pc[p]]
  PROVE  \/ \E p \in Proc : InitializeStep(p) \/ Finalize(p) \/ Sent(p)
         \/ NextJob
         \/ UNCHANGED startupVars
<1>1. ASSUME NEW c \in Clients, ClientStep(c)
      PROVE  UNCHANGED startupVars \/ Sent(c)
  <2>1. c \in Proc
    BY DEF Clients
  <2>2. CASE Post(c)
    <3>1. /\ pc[c] \in {"connect", "running"}
          /\ UNCHANGED <<config, job, names, mapped>>
          /\ \E s \in BOOLEAN :
               pc' = [pc EXCEPT ![c] = IF pc[c] = "connect" THEN "start"
                                       ELSE IF s THEN "stopped" ELSE pc[c]]
      BY <2>2 DEF Post, Sending
    <3>2. PICK s \in BOOLEAN :
             pc' = [pc EXCEPT ![c] = IF pc[c] = "connect" THEN "start"
                                     ELSE IF s THEN "stopped" ELSE pc[c]]
      BY <3>1
    <3>3. CASE pc[c] = "connect"
      BY <3>1, <3>2, <3>3 DEF Sent, At, Go
    <3>4. CASE pc[c] = "running" /\ s
      BY <3>1, <3>2, <3>4 DEF Sent, At, Go
    <3>5. CASE pc[c] = "running" /\ ~ s
      BY <2>1, <3>1, <3>2, <3>5 DEF startupVars
    <3> QED
      BY <3>1, <3>3, <3>4, <3>5
  <2> QED
    BY <1>1, <2>2 DEF ClientStep, PollOne, EnterAllreduce, LeaveAllreduce, startupVars
<1>2. ASSUME NEW s \in Servers, ServerStep(s)
      PROVE  UNCHANGED startupVars \/ Sent(s)
  <2>1. ASSUME NEW c, NEW kinds, OnHeader(s, c, kinds)
        PROVE  At(s, "running") /\ UNCHANGED <<config, job, names, mapped>>
    BY <2>1 DEF OnHeader, Receive
  <2>2. ASSUME NEW c \in ClientsOf(s),
               OnConnect(s, c) \/ OnHeaderOfBody(s, c) \/ OnNextIteration(s, c)
        PROVE  UNCHANGED startupVars
    BY <2>1, <2>2 DEF OnConnect, OnHeaderOfBody, OnNextIteration, startupVars
  <2>3. ASSUME NEW c \in ClientsOf(s), OnStop(s, c)
        PROVE  UNCHANGED startupVars \/ Sent(s)
    BY <2>1, <2>3 DEF OnStop, startupVars, Sent
  <2>4. CASE OnWriteBody(s) \/ OnData(s) \/ OnActionBody(s)
    BY <2>4 DEF OnWriteBody, OnData, OnActionBody, Receive, startupVars
  <2>5. CASE EndOfIteration(s)
    BY <2>5 DEF EndOfIteration
  <2> QED
    BY <1>2, <2>2, <2>3, <2>4, <2>5 DEF ServerStep
<1>3. ASSUME NEW p \in Proc, StartupStep(p)
      PROVE  InitializeStep(p) \/ Finalize(p)
  BY <1>3 DEF StartupStep
<1>4. Clients \subseteq Proc /\ Servers \subseteq Proc
  BY DEF Clients, Servers
<1>5. ASSUME Restart
      PROVE  NextJob
  BY <1>5 DEF Restart
<1> QED
  BY <1>1, <1>2, <1>3, <1>4, <1>5 DEF Next

LEMMA ConfigKept ==
  ASSUME \/ \E p \in Proc : InitializeStep(p) \/ Finalize(p) \/ Sent(p)
         \/ NextJob
         \/ UNCHANGED startupVars
  PROVE  config' = config
  BY DEF InitializeStep, Begin, CreatePiece, CreateFails, LeaveEntityBarrier, Open,
         LeaveGlobalBarrier, LeaveStartBarrier, Finalize, Sent, NextJob, startupVars
----------------------------------------------------------------------------
(* The inductive invariant of the start-up.                                *)

PastGlobal == {"open", "connect", "start", "running", "stopped", "done"}
PastStart == {"running", "stopped", "done"}
Places == BeforeStart \cup {"start", "running", "stopped", "done"}

SimpleTypes ==
  /\ job \in Nat \ {0}
  /\ pc \in [Proc -> Places]
  /\ names \in [0 .. config.nodes - 1 -> [Pieces -> Nat]]
  /\ mapped \in [Proc -> [Pieces -> Nat]]

(* Only servers with shared memory make and attach a segment, the first of *)
(* a node the former and the others the latter; clients open it.           *)
WhereOf(p) ==
  /\ pc[p] = "create" => Owner(p)
  /\ pc[p] = "entity" => p \in Servers /\ SharedMemory
  /\ pc[p] = "attach" => p \in Servers /\ SharedMemory /\ ~ Owner(p)
  /\ pc[p] \in {"open", "connect"} => p \in Clients

(* What the barriers keep apart: q is beyond the one that p has left.      *)
BarriersOf(p, q) ==
  /\ pc[p] = "attach" /\ q \in Servers
       => pc[q] \notin Early /\ (Owner(q) => pc[q] # "failed")
  /\ pc[p] \in PastGlobal => pc[q] \notin BeforeGlobal /\ (Owner(q) => pc[q] # "failed")
  /\ pc[p] \in PastStart => pc[q] \notin BeforeStart

(* The names an owner has made are there, as pieces of this job, from      *)
(* their creation to its end; what a process has mapped is of this job.    *)
MadeOf(p) ==
  /\ pc[p] = "off" => \A i \in Pieces : mapped[p][i] = 0
  /\ pc[p] = "create" =>
       \A i \in Pieces : mapped[p][i] # 0 => mapped[p][i] = job /\ names[Node(p)][i] = job
  /\ Owner(p) /\ pc[p] \notin Early \cup {"failed", "done"} =>
       \A i \in Pieces : names[Node(p)][i] = job /\ mapped[p][i] = job
  /\ SharedMemory /\ (pc[p] \in PastGlobal \ {"open", "done"}
                        \/ (p \in Servers /\ pc[p] = "global")) =>
       \A i \in Pieces : mapped[p][i] = job

SegmentInv ==
  /\ Placed
  /\ SimpleTypes
  /\ \A p \in Proc : WhereOf(p)
  /\ \A p, q \in Proc : BarriersOf(p, q)
  /\ \A p \in Proc : MadeOf(p)

(* A node with shared memory has one owner.                                *)
LEMMA OwnerLemma ==
  ASSUME Placed
  PROVE  /\ \A p, q \in Proc : Owner(p) /\ Owner(q) /\ Node(p) = Node(q) => p = q
         /\ \A p \in Proc : SharedMemory =>
              \E o \in Proc : Owner(o) /\ Node(o) = Node(p)
<1>1. ASSUME NEW p \in Proc, NEW q \in Proc, Owner(p), Owner(q), Node(p) = Node(q)
      PROVE  p = q
  BY <1>1, NodeLemma DEF Owner
<1>2. ASSUME NEW p \in Proc, SharedMemory
      PROVE  \E o \in Proc : Owner(o) /\ Node(o) = Node(p)
  <2>1. /\ DedicatedCores /\ ClientsPerNode \in Nat
        /\ ClientsPerNode \in 0 .. config.cores - 1
    BY <1>2, PlacedLemma DEF SharedMemory
  <2> DEFINE o == Node(p) * config.cores + ClientsPerNode
  <2>2. o \in Proc /\ Node(o) = Node(p) /\ RankInNode(o) = ClientsPerNode
    BY <2>1, NodeLemma, PlaceLemma
  <2>3. o \in Servers
    BY <2>1, <2>2 DEF Servers, Clients, IsClient
  <2> QED
    BY <1>2, <2>2, <2>3 DEF Owner
<1> QED
  BY <1>1, <1>2

LEMMA SegmentInit == InitStartup => SegmentInv
<1> SUFFICES ASSUME InitStartup
             PROVE  SegmentInv
  OBVIOUS
<1>1. Placed
  BY DEF InitStartup, Placed
<1>2. config.nodes \in Nat \ {0}
  BY <1>1, PlacedLemma
<1>3. SimpleTypes
  BY <1>2 DEF InitStartup, SimpleTypes, Nothing, Places, BeforeStart, BeforeGlobal,
              Early
<1>4. \A p \in Proc : pc[p] = "off" /\ \A i \in Pieces : mapped[p][i] = 0
  BY DEF InitStartup, Nothing
<1>5. \A p \in Proc : WhereOf(p) /\ MadeOf(p)
  BY <1>4 DEF WhereOf, MadeOf, PastGlobal, Early
<1>6. \A p, q \in Proc : BarriersOf(p, q)
  BY <1>4 DEF BarriersOf, PastGlobal, PastStart
<1> QED
  BY <1>1, <1>3, <1>5, <1>6 DEF SegmentInv
----------------------------------------------------------------------------
(* The steps that only go on.                                              *)
LEMMA LeavesEntity ==
  ASSUME SegmentInv, NEW p \in Proc, LeaveEntityBarrier(p)
  PROVE  SegmentInv'
<1>1. /\ config' = config /\ job' = job
      /\ Placed /\ SimpleTypes
      /\ \A q \in Proc : WhereOf(q) /\ MadeOf(q)
      /\ \A q, r \in Proc : BarriersOf(q, r)
  BY DEF SegmentInv, LeaveEntityBarrier
<1>2. /\ Placed'
      /\ Proc' = Proc /\ Clients' = Clients /\ Servers' = Servers /\ Pieces' = Pieces
      /\ SharedMemory' <=> SharedMemory
      /\ \A q : Node(q)' = Node(q)
      /\ \A q : Owner(q)' <=> Owner(q)
  BY <1>1, FixedLemma
<1>3. SimpleTypes'
  BY <1>1, <1>2 DEF SimpleTypes, LeaveEntityBarrier, At, Go, Places, BeforeStart,
                    BeforeGlobal, Early
<1>4. ASSUME NEW q \in Proc
      PROVE  WhereOf(q)'
  <2>1. WhereOf(q) /\ WhereOf(p)
    BY <1>1
  <2> QED
    BY <1>1, <1>2, <2>1 DEF WhereOf, SimpleTypes, LeaveEntityBarrier, At, Go
<1>5. ASSUME NEW q \in Proc, NEW r \in Proc
      PROVE  BarriersOf(q, r)'
  <2>1. /\ BarriersOf(q, r) /\ BarriersOf(q, p) /\ BarriersOf(p, r)
        /\ WhereOf(p)
    BY <1>1
  <2> QED
    BY <1>1, <1>2, <2>1
       DEF BarriersOf, WhereOf, SimpleTypes, LeaveEntityBarrier, At, Go, PastGlobal,
           PastStart, Places, BeforeStart, BeforeGlobal, Early
<1>6. ASSUME NEW q \in Proc
      PROVE  MadeOf(q)'
  <2>1. MadeOf(q) /\ WhereOf(q) /\ MadeOf(p) /\ WhereOf(p)
    BY <1>1
  <2> QED
    BY <1>1, <1>2, <2>1
       DEF MadeOf, WhereOf, SimpleTypes, LeaveEntityBarrier, At, Go, PastGlobal,
           Places, BeforeStart, BeforeGlobal, Early
<1> QED
  BY <1>2, <1>3, <1>4, <1>5, <1>6 DEF SegmentInv

(* Leaving the barrier of all.                                             *)
LEMMA LeavesGlobal ==
  ASSUME SegmentInv, NEW p \in Proc, LeaveGlobalBarrier(p)
  PROVE  SegmentInv'
<1>1. /\ config' = config /\ job' = job
      /\ Placed /\ SimpleTypes
      /\ \A q \in Proc : WhereOf(q) /\ MadeOf(q)
      /\ \A q, r \in Proc : BarriersOf(q, r)
  BY DEF SegmentInv, LeaveGlobalBarrier
<1>2. /\ Placed'
      /\ Proc' = Proc /\ Clients' = Clients /\ Servers' = Servers /\ Pieces' = Pieces
      /\ SharedMemory' <=> SharedMemory
      /\ \A q : Node(q)' = Node(q)
      /\ \A q : Owner(q)' <=> Owner(q)
  BY <1>1, FixedLemma
<1>3. SimpleTypes'
  BY <1>1, <1>2 DEF SimpleTypes, LeaveGlobalBarrier, At, Go, Places, BeforeStart,
                    BeforeGlobal, Early
<1>4. ASSUME NEW q \in Proc
      PROVE  WhereOf(q)'
  <2>1. WhereOf(q) /\ WhereOf(p)
    BY <1>1
  <2> QED
    BY <1>1, <1>2, <2>1 DEF WhereOf, SimpleTypes, LeaveGlobalBarrier, At, Go
<1>5. ASSUME NEW q \in Proc, NEW r \in Proc
      PROVE  BarriersOf(q, r)'
  <2>1. /\ BarriersOf(q, r) /\ BarriersOf(q, p) /\ BarriersOf(p, r)
        /\ WhereOf(p)
    BY <1>1
  <2> QED
    BY <1>1, <1>2, <2>1
       DEF BarriersOf, WhereOf, SimpleTypes, LeaveGlobalBarrier, At, Go, PastGlobal,
           PastStart, Places, BeforeStart, BeforeGlobal, Early
<1>6. ASSUME NEW q \in Proc
      PROVE  MadeOf(q)'
  <2>1. MadeOf(q) /\ WhereOf(q) /\ MadeOf(p) /\ WhereOf(p)
    BY <1>1
  <2>2. p \in Clients \/ p \in Servers
    BY DEF Servers
  <2> QED
    BY <1>1, <1>2, <2>1, <2>2
       DEF MadeOf, WhereOf, SimpleTypes, LeaveGlobalBarrier, At, Go, PastGlobal,
           Places, BeforeStart, BeforeGlobal, Early
<1> QED
  BY <1>2, <1>3, <1>4, <1>5, <1>6 DEF SegmentInv

(* Leaving the barrier of damaris_start.                                   *)
LEMMA LeavesStart ==
  ASSUME SegmentInv, NEW p \in Proc, LeaveStartBarrier(p)
  PROVE  SegmentInv'
<1>1. /\ config' = config /\ job' = job
      /\ Placed /\ SimpleTypes
      /\ \A q \in Proc : WhereOf(q) /\ MadeOf(q)
      /\ \A q, r \in Proc : BarriersOf(q, r)
  BY DEF SegmentInv, LeaveStartBarrier
<1>2. /\ Placed'
      /\ Proc' = Proc /\ Clients' = Clients /\ Servers' = Servers /\ Pieces' = Pieces
      /\ SharedMemory' <=> SharedMemory
      /\ \A q : Node(q)' = Node(q)
      /\ \A q : Owner(q)' <=> Owner(q)
  BY <1>1, FixedLemma
<1>3. SimpleTypes'
  BY <1>1, <1>2 DEF SimpleTypes, LeaveStartBarrier, At, Go, Places, BeforeStart,
                    BeforeGlobal, Early
<1>4. ASSUME NEW q \in Proc
      PROVE  WhereOf(q)'
  <2>1. WhereOf(q) /\ WhereOf(p)
    BY <1>1
  <2> QED
    BY <1>1, <1>2, <2>1 DEF WhereOf, SimpleTypes, LeaveStartBarrier, At, Go
<1>5. ASSUME NEW q \in Proc, NEW r \in Proc
      PROVE  BarriersOf(q, r)'
  <2>1. /\ BarriersOf(q, r) /\ BarriersOf(q, p) /\ BarriersOf(p, r)
        /\ WhereOf(p)
    BY <1>1
  <2> QED
    BY <1>1, <1>2, <2>1
       DEF BarriersOf, WhereOf, SimpleTypes, LeaveStartBarrier, At, Go, PastGlobal,
           PastStart, Places, BeforeStart, BeforeGlobal, Early
<1>6. ASSUME NEW q \in Proc
      PROVE  MadeOf(q)'
  <2>1. MadeOf(q) /\ WhereOf(q) /\ MadeOf(p) /\ WhereOf(p)
    BY <1>1
  <2> QED
    BY <1>1, <1>2, <2>1
       DEF MadeOf, WhereOf, SimpleTypes, LeaveStartBarrier, At, Go, PastGlobal, Places,
           BeforeStart, BeforeGlobal, Early
<1> QED
  BY <1>2, <1>3, <1>4, <1>5, <1>6 DEF SegmentInv

(* A creation that fails.                                                  *)
LEMMA Fails ==
  ASSUME SegmentInv, NEW p \in Proc, CreateFails(p)
  PROVE  SegmentInv'
<1>1. /\ config' = config /\ job' = job
      /\ Placed /\ SimpleTypes
      /\ \A q \in Proc : WhereOf(q) /\ MadeOf(q)
      /\ \A q, r \in Proc : BarriersOf(q, r)
  BY DEF SegmentInv, CreateFails
<1>2. /\ Placed'
      /\ Proc' = Proc /\ Clients' = Clients /\ Servers' = Servers /\ Pieces' = Pieces
      /\ SharedMemory' <=> SharedMemory
      /\ \A q : Node(q)' = Node(q)
      /\ \A q : Owner(q)' <=> Owner(q)
  BY <1>1, FixedLemma
<1>3. SimpleTypes'
  BY <1>1, <1>2 DEF SimpleTypes, CreateFails, At, Go, Places, BeforeStart,
                    BeforeGlobal, Early
<1>4. ASSUME NEW q \in Proc
      PROVE  WhereOf(q)'
  <2>1. WhereOf(q) /\ WhereOf(p)
    BY <1>1
  <2> QED
    BY <1>1, <1>2, <2>1 DEF WhereOf, SimpleTypes, CreateFails, At, Go
<1>5. ASSUME NEW q \in Proc, NEW r \in Proc
      PROVE  BarriersOf(q, r)'
  <2>1. /\ BarriersOf(q, r) /\ BarriersOf(q, p) /\ BarriersOf(p, r)
        /\ WhereOf(p)
    BY <1>1
  <2> QED
    BY <1>1, <1>2, <2>1
       DEF BarriersOf, WhereOf, SimpleTypes, CreateFails, At, Go, PastGlobal,
           PastStart, Places, BeforeStart, BeforeGlobal, Early
<1>6. ASSUME NEW q \in Proc
      PROVE  MadeOf(q)'
  <2>1. MadeOf(q) /\ WhereOf(q) /\ MadeOf(p) /\ WhereOf(p)
    BY <1>1
  <2> QED
    BY <1>1, <1>2, <2>1
       DEF MadeOf, WhereOf, SimpleTypes, CreateFails, At, Go, PastGlobal, Places,
           BeforeStart, BeforeGlobal, Early
<1> QED
  BY <1>2, <1>3, <1>4, <1>5, <1>6 DEF SegmentInv

(* Steps of Session.                                                       *)
LEMMA Sends ==
  ASSUME SegmentInv, NEW p \in Proc, Sent(p)
  PROVE  SegmentInv'
<1>1. /\ config' = config /\ job' = job
      /\ Placed /\ SimpleTypes
      /\ \A q \in Proc : WhereOf(q) /\ MadeOf(q)
      /\ \A q, r \in Proc : BarriersOf(q, r)
  BY DEF SegmentInv, Sent
<1>2. /\ Placed'
      /\ Proc' = Proc /\ Clients' = Clients /\ Servers' = Servers /\ Pieces' = Pieces
      /\ SharedMemory' <=> SharedMemory
      /\ \A q : Node(q)' = Node(q)
      /\ \A q : Owner(q)' <=> Owner(q)
  BY <1>1, FixedLemma
<1>3. SimpleTypes'
  BY <1>1, <1>2 DEF SimpleTypes, Sent, At, Go, Places, BeforeStart, BeforeGlobal, Early
<1>4. ASSUME NEW q \in Proc
      PROVE  WhereOf(q)'
  <2>1. WhereOf(q) /\ WhereOf(p)
    BY <1>1
  <2> QED
    BY <1>1, <1>2, <2>1 DEF WhereOf, SimpleTypes, Sent, At, Go
<1>5. ASSUME NEW q \in Proc, NEW r \in Proc
      PROVE  BarriersOf(q, r)'
  <2>1. /\ BarriersOf(q, r) /\ BarriersOf(q, p) /\ BarriersOf(p, r)
        /\ WhereOf(p)
    BY <1>1
  <2> QED
    BY <1>1, <1>2, <2>1
       DEF BarriersOf, WhereOf, SimpleTypes, Sent, At, Go, PastGlobal, PastStart,
           Places, BeforeStart, BeforeGlobal, Early
<1>6. ASSUME NEW q \in Proc
      PROVE  MadeOf(q)'
  <2>1. MadeOf(q) /\ WhereOf(q) /\ MadeOf(p) /\ WhereOf(p)
    BY <1>1
  <2> QED
    BY <1>1, <1>2, <2>1
       DEF MadeOf, WhereOf, SimpleTypes, Sent, At, Go, PastGlobal, Places, BeforeStart,
           BeforeGlobal, Early
<1> QED
  BY <1>2, <1>3, <1>4, <1>5, <1>6 DEF SegmentInv

LEMMA RemovedLemma ==
  ASSUME SimpleTypes, NEW n \in 0 .. config.nodes - 1
  PROVE  Removed(n) \in [Pieces -> Nat]
<1>1. names[n] \in [Pieces -> Nat] /\ Nothing \in [Pieces -> Nat]
  BY DEF SimpleTypes, Nothing
<1>2. ASSUME NEW f \in [Pieces -> Nat], NEW x
      PROVE  [f EXCEPT ![x] = 0] \in [Pieces -> Nat]
  OBVIOUS
<1> QED
  BY <1>1, <1>2 DEF Removed

(* The steps of a process that take or give its node's names.              *)
LEMMA NodeNames ==
  ASSUME Placed, SimpleTypes, NEW p \in Proc,
         names' = IF Owner(p) THEN [names EXCEPT ![Node(p)] = Removed(Node(p))] ELSE names
  PROVE  /\ names' \in [0 .. config.nodes - 1 -> [Pieces -> Nat]]
         /\ \A q \in Proc : Owner(q) /\ q # p => names'[Node(q)] = names[Node(q)]
<1>1. /\ Node(p) \in 0 .. config.nodes - 1
      /\ Removed(Node(p)) \in [Pieces -> Nat]
  BY NodeLemma, RemovedLemma
<1>2. \A q \in Proc : Node(q) \in 0 .. config.nodes - 1
  BY NodeLemma
<1>3. \A q \in Proc : Owner(q) /\ Owner(p) /\ q # p => Node(q) # Node(p)
  BY OwnerLemma
<1>4. names' \in [0 .. config.nodes - 1 -> [Pieces -> Nat]]
  BY <1>1 DEF SimpleTypes
<1>5. \A q \in Proc : Owner(q) /\ q # p => names'[Node(q)] = names[Node(q)]
  BY <1>2, <1>3 DEF SimpleTypes
<1> QED
  BY <1>4, <1>5

(* The first step: the owner removes a name.                               *)
LEMMA Begins ==
  ASSUME SegmentInv, NEW p \in Proc, Begin(p)
  PROVE  SegmentInv'
<1>1. /\ config' = config /\ job' = job
      /\ Placed /\ SimpleTypes
      /\ \A q \in Proc : WhereOf(q) /\ MadeOf(q)
      /\ \A q, r \in Proc : BarriersOf(q, r)
  BY DEF SegmentInv, Begin
<1>2. /\ Placed'
      /\ Proc' = Proc /\ Clients' = Clients /\ Servers' = Servers /\ Pieces' = Pieces
      /\ SharedMemory' <=> SharedMemory
      /\ Nothing' = Nothing
      /\ \A q : Node(q)' = Node(q)
      /\ \A q : Owner(q)' <=> Owner(q)
  BY <1>1, FixedLemma
<1>3. SimpleTypes'
  <2>1. names' \in [0 .. config.nodes - 1 -> [Pieces -> Nat]]
    BY <1>1, NodeNames DEF Begin
  <2> QED
    BY <1>1, <1>2, <2>1 DEF SimpleTypes, Begin, At, Go, Places, BeforeStart,
                            BeforeGlobal, Early
<1>4. ASSUME NEW q \in Proc
      PROVE  WhereOf(q)'
  <2>1. WhereOf(q) /\ WhereOf(p)
    BY <1>1
  <2> QED
    BY <1>1, <1>2, <2>1 DEF WhereOf, SimpleTypes, Begin, At, Go
<1>5. ASSUME NEW q \in Proc, NEW r \in Proc
      PROVE  BarriersOf(q, r)'
  <2>1. /\ BarriersOf(q, r) /\ BarriersOf(q, p) /\ BarriersOf(p, r)
        /\ WhereOf(p)
    BY <1>1
  <2> QED
    BY <1>1, <1>2, <2>1
       DEF BarriersOf, WhereOf, SimpleTypes, Begin, At, Go, PastGlobal, PastStart,
           Places, BeforeStart, BeforeGlobal, Early
<1>6. ASSUME NEW q \in Proc
      PROVE  MadeOf(q)'
  <2>1. MadeOf(q) /\ WhereOf(q) /\ MadeOf(p)
    BY <1>1
  <2>2. Owner(q) /\ q # p => names'[Node(q)] = names[Node(q)]
    BY <1>1, NodeNames DEF Begin
  <2>3. mapped' = mapped
    BY DEF Begin
  <2>4. CASE q = p
    <3>1. \A i \in Pieces : mapped[p][i] = 0
      BY <1>1, <2>1 DEF MadeOf, Begin, At
    <3>2. /\ pc'[p] \in {"create", "entity", "global"}
          /\ Owner(p) => pc'[p] = "create"
          /\ pc'[p] = "global" => ~ (SharedMemory /\ p \in Servers)
      BY <1>1 DEF Begin, Go, SimpleTypes, Owner
    <3> QED
      BY <1>1, <1>2, <2>3, <2>4, <3>1, <3>2 DEF MadeOf, PastGlobal, Early
  <2>5. CASE q # p
    <3>1. pc'[q] = pc[q]
      BY <1>1, <2>5 DEF Begin, Go, SimpleTypes
    <3> QED
      BY <1>1, <1>2, <2>1, <2>2, <2>3, <2>5, <3>1 DEF MadeOf, WhereOf, PastGlobal, Early
  <2> QED
    BY <2>4, <2>5
<1> QED
  BY <1>2, <1>3, <1>4, <1>5, <1>6 DEF SegmentInv

LEMMA PiecesLemma ==
  ASSUME Placed, NEW i \in Pieces, NEW j \in Pieces, i + 1 \notin Pieces, j # i
  PROVE  j \in 0 .. i - 1
<1>1. PICK n \in Nat \ {0} : Pieces = 0 .. n - 1
  <2>1. config.blocks \in Nat
    BY StartupOK DEF Placed, ConfigOK
  <2>2. (IF config.blocks > 1 THEN config.blocks ELSE 1) \in Nat \ {0}
    BY <2>1
  <2> QED
    BY <2>2 DEF Pieces
<1> QED
  BY <1>1

(* The owner makes a piece.                                                *)
LEMMA Creates ==
  ASSUME SegmentInv, NEW p \in Proc, CreatePiece(p)
  PROVE  SegmentInv'
<1>1. /\ config' = config /\ job' = job
      /\ Placed /\ SimpleTypes
      /\ \A q \in Proc : WhereOf(q) /\ MadeOf(q)
      /\ \A q, r \in Proc : BarriersOf(q, r)
  BY DEF SegmentInv, CreatePiece
<1>2. /\ Placed'
      /\ Proc' = Proc /\ Clients' = Clients /\ Servers' = Servers /\ Pieces' = Pieces
      /\ SharedMemory' <=> SharedMemory
      /\ Nothing' = Nothing
      /\ \A q : Node(q)' = Node(q)
      /\ \A q : Owner(q)' <=> Owner(q)
  BY <1>1, FixedLemma
<1> DEFINE n == Node(p)
<1>7. PICK i \in Pieces :
        /\ mapped[p][i] = 0 /\ \A j \in 0 .. i-1 : mapped[p][j] # 0
        /\ names' = [names EXCEPT ![n][i] = job]
        /\ mapped' = [mapped EXCEPT ![p][i] = job]
        /\ IF i + 1 \in Pieces THEN UNCHANGED pc ELSE Go(p, "entity")
  BY DEF CreatePiece
<1>8. /\ n \in 0 .. config.nodes - 1 /\ pc[p] = "create" /\ Owner(p)
      /\ p \in Servers /\ SharedMemory
  BY <1>1, NodeLemma DEF CreatePiece, At, WhereOf, Owner
<1> HIDE DEF n
<1>9. /\ pc' = pc \/ pc' = [pc EXCEPT ![p] = "entity"]
      /\ pc'[p] \in {"create", "entity"}
      /\ \A q \in Proc : q # p => pc'[q] = pc[q]
  BY <1>1, <1>7, <1>8 DEF Go, SimpleTypes
<1>10. /\ names' \in [0 .. config.nodes - 1 -> [Pieces -> Nat]]
       /\ mapped' \in [Proc -> [Pieces -> Nat]]
       /\ names'[n] = [names[n] EXCEPT ![i] = job]
       /\ mapped'[p] = [mapped[p] EXCEPT ![i] = job]
       /\ \A k \in 0 .. config.nodes - 1 : k # n => names'[k] = names[k]
       /\ \A q \in Proc : q # p => mapped'[q] = mapped[q]
  BY <1>1, <1>7, <1>8 DEF SimpleTypes
<1>3. SimpleTypes'
  BY <1>1, <1>2, <1>9, <1>10 DEF SimpleTypes, Places, BeforeStart, BeforeGlobal, Early
<1>4. ASSUME NEW q \in Proc
      PROVE  WhereOf(q)'
  <2>1. WhereOf(q)
    BY <1>1
  <2> QED
    BY <1>2, <1>8, <1>9, <2>1 DEF WhereOf
<1>5. ASSUME NEW q \in Proc, NEW r \in Proc
      PROVE  BarriersOf(q, r)'
  <2>1. BarriersOf(q, r) /\ BarriersOf(q, p) /\ BarriersOf(p, r)
    BY <1>1
  <2> QED
    BY <1>2, <1>8, <1>9, <2>1 DEF BarriersOf, PastGlobal, PastStart, BeforeStart,
                                  BeforeGlobal, Early
<1>6. ASSUME NEW q \in Proc
      PROVE  MadeOf(q)'
  <2>1. MadeOf(q) /\ WhereOf(q) /\ MadeOf(p)
    BY <1>1
  <2>2. Node(q) \in 0 .. config.nodes - 1 /\ (Owner(q) /\ q # p => Node(q) # n)
    BY <1>1, <1>8, NodeLemma, OwnerLemma DEF n
  <2>3. CASE q # p
    <3>1. /\ pc'[q] = pc[q] /\ mapped'[q] = mapped[q]
          /\ Owner(q) => names'[Node(q)] = names[Node(q)]
      BY <1>9, <1>10, <2>2, <2>3
    <3> QED
      BY <1>1, <1>2, <2>1, <3>1 DEF MadeOf, WhereOf, PastGlobal, Early
  <2>4. CASE q = p
    <3>1. \A j \in Pieces : mapped'[p][j] # 0 => mapped'[p][j] = job /\ names'[n][j] = job
      BY <1>1, <1>8, <1>10, <2>1, <2>4 DEF MadeOf, SimpleTypes, n
    <3>2. CASE pc'[p] = "create"
      BY <1>1, <1>2, <2>4, <3>1, <3>2 DEF MadeOf, PastGlobal, Early, n
    <3>3. CASE pc'[p] # "create"
      <4>1. i + 1 \notin Pieces
        BY <1>7, <1>8, <3>3
      <4>2. \A j \in Pieces : j # i => j \in 0 .. i - 1
        BY <1>1, <4>1, PiecesLemma
      <4>3. \A j \in Pieces : mapped'[p][j] # 0
        BY <1>1, <1>7, <1>8, <1>10, <4>2 DEF SimpleTypes
      <4> QED
        BY <1>1, <1>2, <1>9, <2>4, <3>1, <3>3, <4>3 DEF MadeOf, PastGlobal, Early, n
    <3> QED
      BY <3>2, <3>3
  <2> QED
    BY <2>3, <2>4
<1> QED
  BY <1>2, <1>3, <1>4, <1>5, <1>6 DEF SegmentInv

(* Whoever opens the segment of its node finds it complete.                *)
LEMMA AllThere ==
  ASSUME SegmentInv, NEW p \in Proc, pc[p] \in {"attach", "open"}, SharedMemory
  PROVE  \A i \in Pieces : names[Node(p)][i] = job
<1>1. PICK o \in Proc : Owner(o) /\ Node(o) = Node(p)
  BY OwnerLemma DEF SegmentInv
<1>2. /\ BarriersOf(p, o) /\ BarriersOf(o, p) /\ MadeOf(o) /\ WhereOf(p)
      /\ o \in Servers
  BY <1>1 DEF SegmentInv, Owner
<1>3. pc[o] \notin Early \cup {"failed", "done"}
  BY <1>1, <1>2 DEF BarriersOf, PastGlobal, PastStart, BeforeGlobal, BeforeStart, Early
<1> QED
  BY <1>1, <1>2, <1>3 DEF MadeOf

(* Another process finds all the pieces there.                             *)
LEMMA Opens ==
  ASSUME SegmentInv, NEW p \in Proc, Open(p)
  PROVE  SegmentInv'
<1>1. /\ config' = config /\ job' = job
      /\ Placed /\ SimpleTypes
      /\ \A q \in Proc : WhereOf(q) /\ MadeOf(q)
      /\ \A q, r \in Proc : BarriersOf(q, r)
  BY DEF SegmentInv, Open
<1>2. /\ Placed'
      /\ Proc' = Proc /\ Clients' = Clients /\ Servers' = Servers /\ Pieces' = Pieces
      /\ SharedMemory' <=> SharedMemory
      /\ Nothing' = Nothing
      /\ \A q : Node(q)' = Node(q)
      /\ \A q : Owner(q)' <=> Owner(q)
  BY <1>1, FixedLemma
<1>7. /\ pc[p] \in {"attach", "open"}
      /\ names' = names
      /\ ~ Owner(p)
      /\ pc[p] = "attach" => p \in Servers /\ SharedMemory
      /\ pc[p] = "open" => p \in Clients /\ p \notin Servers
  <2>1. WhereOf(p)
    BY <1>1
  <2> QED
    BY <2>1 DEF Open, At, WhereOf, Owner, Servers
<1>8. Node(p) \in 0 .. config.nodes - 1
  BY <1>1, NodeLemma
<1>9. SharedMemory => \A i \in Pieces : names[Node(p)][i] = job
  BY <1>7, AllThere
<1>10. /\ pc' = [pc EXCEPT ![p] = IF SharedMemory /\ p \in Servers THEN "global"
                                                               ELSE "connect"]
       /\ SharedMemory => mapped' = [mapped EXCEPT ![p] = names[Node(p)]]
       /\ ~ SharedMemory => mapped' = mapped
  BY <1>1, <1>7, <1>9 DEF Open, Go, SimpleTypes
<1>11. /\ pc'[p] = IF SharedMemory /\ p \in Servers THEN "global" ELSE "connect"
       /\ \A q \in Proc : q # p => pc'[q] = pc[q] /\ mapped'[q] = mapped[q]
       /\ SharedMemory => mapped'[p] = names[Node(p)]
  BY <1>1, <1>10 DEF SimpleTypes
<1>3. SimpleTypes'
  <2>1. names[Node(p)] \in [Pieces -> Nat]
    BY <1>1, <1>8 DEF SimpleTypes
  <2> QED
    BY <1>1, <1>2, <1>7, <1>10, <2>1 DEF SimpleTypes, Places, BeforeStart,
                                         BeforeGlobal, Early
<1>4. ASSUME NEW q \in Proc
      PROVE  WhereOf(q)'
  <2>1. WhereOf(q)
    BY <1>1
  <2> QED
    BY <1>2, <1>7, <1>11, <2>1 DEF WhereOf
<1>5. ASSUME NEW q \in Proc, NEW r \in Proc
      PROVE  BarriersOf(q, r)'
  <2>1. BarriersOf(q, r) /\ BarriersOf(q, p) /\ BarriersOf(p, r)
    BY <1>1
  <2> QED
    BY <1>2, <1>7, <1>11, <2>1 DEF BarriersOf, PastGlobal, PastStart, BeforeStart,
                                   BeforeGlobal, Early
<1>6. ASSUME NEW q \in Proc
      PROVE  MadeOf(q)'
  <2>1. MadeOf(q)
    BY <1>1
  <2>2. CASE q = p
    BY <1>1, <1>2, <1>7, <1>9, <1>11, <2>2 DEF MadeOf, PastGlobal, Early
  <2>3. CASE q # p
    BY <1>1, <1>2, <1>7, <1>11, <2>1, <2>3 DEF MadeOf, PastGlobal, Early
  <2> QED
    BY <2>2, <2>3
<1> QED
  BY <1>2, <1>3, <1>4, <1>5, <1>6 DEF SegmentInv

(* The end of a process: its owner removes a name.                         *)
LEMMA Finalizes ==
  ASSUME SegmentInv, NEW p \in Proc, Finalize(p)
  PROVE  SegmentInv'
<1>1. /\ config' = config /\ job' = job
      /\ Placed /\ SimpleTypes
      /\ \A q \in Proc : WhereOf(q) /\ MadeOf(q)
      /\ \A q, r \in Proc : BarriersOf(q, r)
  BY DEF SegmentInv, Finalize
<1>2. /\ Placed'
      /\ Proc' = Proc /\ Clients' = Clients /\ Servers' = Servers /\ Pieces' = Pieces
      /\ SharedMemory' <=> SharedMemory
      /\ Nothing' = Nothing
      /\ \A q : Node(q)' = Node(q)
      /\ \A q : Owner(q)' <=> Owner(q)
  BY <1>1, FixedLemma
<1>7. /\ names' \in [0 .. config.nodes - 1 -> [Pieces -> Nat]]
      /\ \A q \in Proc : Owner(q) /\ q # p => names'[Node(q)] = names[Node(q)]
  BY <1>1, NodeNames DEF Finalize
<1>3. SimpleTypes'
  <2>1. mapped' \in [Proc -> [Pieces -> Nat]]
    BY <1>1 DEF Finalize, SimpleTypes, Nothing
  <2> QED
    BY <1>1, <1>2, <1>7, <2>1 DEF SimpleTypes, Finalize, At, Go, Places, BeforeStart,
                                  BeforeGlobal, Early
<1>4. ASSUME NEW q \in Proc
      PROVE  WhereOf(q)'
  <2>1. WhereOf(q) /\ WhereOf(p)
    BY <1>1
  <2> QED
    BY <1>1, <1>2, <2>1 DEF WhereOf, SimpleTypes, Finalize, At, Go
<1>5. ASSUME NEW q \in Proc, NEW r \in Proc
      PROVE  BarriersOf(q, r)'
  <2>1. /\ BarriersOf(q, r) /\ BarriersOf(q, p) /\ BarriersOf(p, r)
        /\ WhereOf(p)
    BY <1>1
  <2> QED
    BY <1>1, <1>2, <2>1
       DEF BarriersOf, WhereOf, SimpleTypes, Finalize, At, Go, PastGlobal, PastStart,
           Places, BeforeStart, BeforeGlobal, Early
<1>6. ASSUME NEW q \in Proc
      PROVE  MadeOf(q)'
  <2>1. MadeOf(q) /\ WhereOf(q)
    BY <1>1
  <2>2. CASE q = p
    <3>1. pc'[p] = "done"
      BY <1>1 DEF Finalize, Go, SimpleTypes
    <3> QED
      BY <2>2, <3>1 DEF MadeOf, PastGlobal, Early
  <2>3. CASE q # p
    <3>1. pc'[q] = pc[q] /\ mapped'[q] = mapped[q]
      BY <1>1, <2>3 DEF Finalize, Go, SimpleTypes
    <3> QED
      BY <1>1, <1>2, <1>7, <2>1, <2>3, <3>1 DEF MadeOf, WhereOf, PastGlobal, Early
  <2> QED
    BY <2>2, <2>3
<1> QED
  BY <1>2, <1>3, <1>4, <1>5, <1>6 DEF SegmentInv

(* The next job.                                                           *)
LEMMA StartsAgain ==
  ASSUME SegmentInv, NextJob
  PROVE  SegmentInv'
<1>1. /\ config' = config /\ Placed /\ SimpleTypes
  BY DEF SegmentInv, NextJob
<1>2. /\ Placed'
      /\ Proc' = Proc /\ Pieces' = Pieces /\ Nothing' = Nothing
  BY <1>1, FixedLemma
<1>3. /\ pc' = [p \in Proc |-> "off"] /\ mapped' = [p \in Proc |-> Nothing]
      /\ names' = names /\ job' = job + 1
  BY DEF NextJob
<1>4. SimpleTypes'
  <2>1. mapped' \in [Proc -> [Pieces -> Nat]]
    BY <1>3 DEF Nothing
  <2>2. pc' \in [Proc -> Places]
    BY <1>3 DEF Places, BeforeStart, BeforeGlobal, Early
  <2> QED
    BY <1>1, <1>2, <1>3, <2>1, <2>2 DEF SimpleTypes
<1>5. \A p \in Proc : pc'[p] = "off" /\ \A i \in Pieces : mapped'[p][i] = 0
  BY <1>3 DEF Nothing
<1>6. \A p \in Proc : WhereOf(p)' /\ MadeOf(p)'
  BY <1>2, <1>5 DEF WhereOf, MadeOf, PastGlobal, Early
<1>7. \A p, q \in Proc : BarriersOf(p, q)'
  BY <1>5 DEF BarriersOf, PastGlobal, PastStart
<1> QED
  BY <1>2, <1>4, <1>6, <1>7 DEF SegmentInv

LEMMA Stutters ==
  ASSUME SegmentInv, UNCHANGED startupVars
  PROVE  SegmentInv'
<1>1. config' = config /\ job' = job /\ pc' = pc /\ names' = names /\ mapped' = mapped
  BY DEF startupVars
<1>2. /\ Placed' <=> Placed
      /\ Proc' = Proc /\ Clients' = Clients /\ Servers' = Servers /\ Pieces' = Pieces
      /\ SharedMemory' <=> SharedMemory
      /\ \A q : Node(q)' = Node(q)
      /\ \A q : Owner(q)' <=> Owner(q)
  BY <1>1, FixedLemma
<1>3. SimpleTypes' <=> SimpleTypes
  BY <1>1, <1>2 DEF SimpleTypes
<1>4. \A p \in Proc : WhereOf(p) => WhereOf(p)'
  BY <1>1, <1>2 DEF WhereOf
<1>5. \A p, q \in Proc : BarriersOf(p, q) => BarriersOf(p, q)'
  BY <1>1, <1>2 DEF BarriersOf
<1>6. \A p \in Proc : MadeOf(p) => MadeOf(p)'
  BY <1>1, <1>2 DEF MadeOf
<1> QED
  BY <1>2, <1>3, <1>4, <1>5, <1>6 DEF SegmentInv
----------------------------------------------------------------------------
LEMMA SegmentKept ==
  ASSUME SegmentInv, [Next]_vars
  PROVE  SegmentInv'
<1>1. pc = [p \in Proc |-> pc[p]]
  BY DEF SegmentInv, SimpleTypes
<1>2. CASE Next
  <2>1. \/ \E p \in Proc : InitializeStep(p) \/ Finalize(p) \/ Sent(p)
        \/ NextJob
        \/ UNCHANGED startupVars
    BY <1>1, <1>2, StartupSteps
  <2>2. ASSUME NEW p \in Proc, InitializeStep(p) \/ Finalize(p) \/ Sent(p)
        PROVE  SegmentInv'
    BY <2>2, Begins, Creates, Fails, LeavesEntity, Opens, LeavesGlobal, LeavesStart,
       Finalizes, Sends DEF InitializeStep
  <2> QED
    BY <2>1, <2>2, StartsAgain, Stutters
<1>3. CASE UNCHANGED vars
  BY <1>3, Stutters DEF vars
<1> QED
  BY <1>2, <1>3

(* The invariant of the start-up, through any number of jobs, killed or    *)
(* not: what the barriers keep apart and which names are whose             *)
(* (Environment::InitDedicatedCores, SharedMemorySegment::Create).         *)
THEOREM StartupInvariant == Spec => []SegmentInv
<1>1. Init => SegmentInv
  BY SegmentInit DEF Init
<1>2. SegmentInv /\ [Next]_vars => SegmentInv'
  BY SegmentKept
<1> QED
  BY <1>1, <1>2, PTL DEF Spec

(* Clients and servers of every architecture that is accepted agree on who *)
(* serves whom (InitDedicatedCores, InitDedicatedNodes).                   *)
THEOREM WhoServesWhom == Spec => []PlacementAgrees
<1>1. SegmentInv => PlacementAgrees
  BY Placement DEF SegmentInv
<1> QED
  BY <1>1, StartupInvariant, PTL

(* Nobody runs with a segment of an earlier job, or with a part of one.    *)
THEOREM SegmentsAreShared == Spec => []SameSegment
<1>1. SegmentInv => SameSegment
  BY DEF SegmentInv, MadeOf, SameSegment, PastGlobal
<1> QED
  BY <1>1, StartupInvariant, PTL
----------------------------------------------------------------------------
(* The start of a job whose segment is one block: the one name there may   *)
(* be is removed before it is made again.                                  *)
CleanOf(p) ==
  config.blocks <= 1 =>
    /\ pc[p] # "failed"
    /\ pc[p] = "create" => \A i \in Pieces : mapped[p][i] = 0 => names[Node(p)][i] = 0

CleanInv == SegmentInv /\ \A p \in Proc : CleanOf(p)

LEMMA OneBlock ==
  ASSUME SegmentInv, config.blocks <= 1, NEW n \in 0 .. config.nodes - 1
  PROVE  Removed(n) = Nothing
<1>1. Pieces = 0 .. 0 /\ 0 \in Pieces /\ \A i \in Pieces : i = 0
  BY StartupOK DEF Pieces, SegmentInv, Placed, ConfigOK
<1>2. names[n] \in [Pieces -> Nat]
  BY DEF SegmentInv, SimpleTypes
<1>3. CASE names[n] = Nothing
  BY <1>3 DEF Removed
<1>4. CASE names[n] # Nothing
  <2>1. names[n][0] # 0
    BY <1>1, <1>2, <1>4 DEF Nothing
  <2>2. First(n) = 0
    BY <1>1, <2>1 DEF First
  <2>3. [names[n] EXCEPT ![0] = 0] = Nothing
    BY <1>1, <1>2 DEF Nothing
  <2> QED
    BY <1>4, <2>2, <2>3 DEF Removed
<1> QED
  BY <1>3, <1>4

LEMMA CleanKept ==
  ASSUME CleanInv, [Next]_vars
  PROVE  CleanInv'
<1>1. SegmentInv' /\ SegmentInv /\ Placed /\ SimpleTypes
  BY SegmentKept DEF CleanInv, SegmentInv
<1>2. \/ \E p \in Proc : InitializeStep(p) \/ Finalize(p) \/ Sent(p)
      \/ NextJob
      \/ UNCHANGED startupVars
  BY <1>1, StartupSteps DEF SimpleTypes, vars
<1>3. config' = config
  BY <1>2, ConfigKept
<1>4. Proc' = Proc /\ Pieces' = Pieces /\ \A q : Node(q)' = Node(q)
  BY <1>3, FixedLemma
<1>5. SUFFICES ASSUME config.blocks <= 1, NEW q \in Proc
               PROVE  /\ pc'[q] # "failed"
                      /\ pc'[q] = "create" =>
                           \A i \in Pieces : mapped'[q][i] = 0 => names'[Node(q)][i] = 0
  BY <1>1, <1>3, <1>4 DEF CleanInv, CleanOf
<1>6. /\ pc[q] # "failed"
      /\ pc[q] = "create" =>
           \A i \in Pieces : mapped[q][i] = 0 => names[Node(q)][i] = 0
      /\ Node(q) \in 0 .. config.nodes - 1
      /\ WhereOf(q)
  BY <1>1, <1>5, NodeLemma DEF CleanInv, CleanOf, SegmentInv
<1>7. ASSUME NEW p \in Proc, Begin(p) \/ Finalize(p)
      PROVE  /\ Owner(q) /\ q # p => names'[Node(q)] = names[Node(q)]
             /\ q # p => pc'[q] = pc[q] /\ mapped'[q] = mapped[q]
             /\ pc'[p] # "failed"
             /\ pc'[p] = "create" => names'[Node(p)] = Nothing
  <2>1. Owner(q) /\ q # p => names'[Node(q)] = names[Node(q)]
    BY <1>1, <1>7, NodeNames DEF Begin, Finalize
  <2>2. q # p => pc'[q] = pc[q] /\ mapped'[q] = mapped[q]
    BY <1>1, <1>7 DEF Begin, Finalize, Go, SimpleTypes
  <2>3. pc'[p] # "failed" /\ (pc'[p] = "create" => Begin(p) /\ Owner(p))
    BY <1>1, <1>7 DEF Begin, Finalize, Go, SimpleTypes
  <2>4. ASSUME Begin(p), Owner(p)
        PROVE  names'[Node(p)] = Nothing
    <3>1. Node(p) \in 0 .. config.nodes - 1
      BY <1>1, NodeLemma
    <3>2. Removed(Node(p)) = Nothing
      BY <1>1, <1>5, <3>1, OneBlock
    <3> QED
      BY <1>1, <2>4, <3>1, <3>2 DEF Begin, SimpleTypes
  <2> QED
    BY <2>1, <2>2, <2>3, <2>4
<1>8. ASSUME NEW p \in Proc, Begin(p) \/ Finalize(p)
      PROVE  /\ pc'[q] # "failed"
             /\ pc'[q] = "create" =>
                  \A i \in Pieces : mapped'[q][i] = 0 => names'[Node(q)][i] = 0
  <2>1. \A i \in Pieces : Nothing[i] = 0
    BY DEF Nothing
  <2> QED
    BY <1>6, <1>7, <1>8, <2>1 DEF WhereOf
<1>9. ASSUME NEW p \in Proc, CreatePiece(p)
      PROVE  /\ pc'[q] # "failed"
             /\ pc'[q] = "create" =>
                  \A i \in Pieces : mapped'[q][i] = 0 => names'[Node(q)][i] = 0
  <2>1. PICK i \in Pieces :
          /\ names' = [names EXCEPT ![Node(p)][i] = job]
          /\ mapped' = [mapped EXCEPT ![p][i] = job]
          /\ IF i + 1 \in Pieces THEN UNCHANGED pc ELSE Go(p, "entity")
    BY <1>9 DEF CreatePiece
  <2>2. Owner(p) /\ Node(p) \in 0 .. config.nodes - 1 /\ WhereOf(p)
    BY <1>1, <1>9, NodeLemma DEF CreatePiece, At, WhereOf, SegmentInv
  <2>3. pc'[p] = "entity" /\ (q # p => pc'[q] = pc[q] /\ mapped'[q] = mapped[q])
    <3>1. i + 1 \notin Pieces
      BY <1>1, <1>5, StartupOK DEF Pieces, Placed, ConfigOK
    <3> QED
      BY <1>1, <2>1, <3>1 DEF Go, SimpleTypes
  <2>4. Owner(q) /\ q # p => names'[Node(q)] = names[Node(q)]
    BY <1>1, <1>6, <2>1, <2>2, OwnerLemma DEF SimpleTypes
  <2> QED
    BY <1>6, <2>3, <2>4 DEF WhereOf
<1>10. ASSUME NEW p \in Proc
       PROVE  ~ CreateFails(p)
  <2>1. pc[p] = "create" => \A i \in Pieces : mapped[p][i] = 0 => names[Node(p)][i] = 0
    BY <1>5 DEF CleanInv, CleanOf
  <2> QED
    BY <2>1 DEF CreateFails, At
<1>11. ASSUME NEW p \in Proc, Open(p)
       PROVE  \/ pc'[q] \notin {"failed", "create"}
              \/ pc'[q] = pc[q] /\ UNCHANGED names /\ mapped'[q] = mapped[q]
  <2>1. pc[p] \in {"attach", "open"}
    BY <1>11 DEF Open, At
  <2>2. SharedMemory => \A i \in Pieces : names[Node(p)][i] = job /\ job # 0
    BY <1>1, <2>1, AllThere DEF SimpleTypes
  <2>3. /\ pc' = [pc EXCEPT ![p] = IF SharedMemory /\ p \in Servers THEN "global"
                                                               ELSE "connect"]
        /\ UNCHANGED names
        /\ mapped' = mapped \/ mapped' = [mapped EXCEPT ![p] = names[Node(p)]]
    BY <1>11, <2>2 DEF Open, Go
  <2> QED
    BY <1>1, <2>3 DEF SimpleTypes
<1>12. ASSUME NEW p \in Proc,
              \/ LeaveEntityBarrier(p) \/ LeaveGlobalBarrier(p)
              \/ LeaveStartBarrier(p) \/ Sent(p)
       PROVE  /\ pc'[q] = pc[q] \/ pc'[q] \notin {"failed", "create"}
              /\ UNCHANGED <<names, mapped>>
  BY <1>1, <1>12 DEF LeaveEntityBarrier, LeaveGlobalBarrier, LeaveStartBarrier, Sent,
                     At, Go,
                     SimpleTypes
<1>13. ASSUME NextJob
       PROVE  pc'[q] = "off"
  BY <1>13 DEF NextJob
<1> QED
  BY <1>2, <1>6, <1>8, <1>9, <1>10, <1>11, <1>12, <1>13 DEF InitializeStep, startupVars

(* With a segment of one block, a job starts whatever earlier ones have    *)
(* left behind (SharedMemorySegment::Remove and Create).                   *)
THEOREM JobsStart == Spec => []StartSucceeds
<1>1. Init => CleanInv
  <2>1. ASSUME InitStartup, NEW p \in Proc
        PROVE  pc[p] = "off"
    BY <2>1 DEF InitStartup
  <2> QED
    BY <2>1, SegmentInit DEF Init, CleanInv, CleanOf
<1>2. CleanInv /\ [Next]_vars => CleanInv'
  BY CleanKept
<1>3. CleanInv => StartSucceeds
  <2>1. ASSUME CleanInv
        PROVE  config.blocks \in Nat
    BY <2>1, StartupOK DEF CleanInv, SegmentInv, Placed, ConfigOK
  <2>2. ASSUME CleanInv, NEW p \in Proc, At(p, "failed")
        PROVE  config.blocks > 1
    BY <2>1, <2>2 DEF CleanInv, CleanOf, At
  <2> QED
    BY <2>2 DEF StartSucceeds
<1> QED
  BY <1>1, <1>2, <1>3, PTL DEF Spec
----------------------------------------------------------------------------
(* What a tuple of two or three elements is as a sequence.                 *)
LEMMA TuplesLemma ==
  ASSUME NEW S, NEW a \in S, NEW b \in S, NEW c \in S
  PROVE  /\ <<a, b>> \in Seq(S) /\ Len(<<a, b>>) = 2
         /\ <<a, b>>[1] = a /\ <<a, b>>[2] = b
         /\ <<a, b, c>> \in Seq(S) /\ Len(<<a, b, c>>) = 3
         /\ <<a, b, c>>[1] = a /\ <<a, b, c>>[2] = b /\ <<a, b, c>>[3] = c
  OBVIOUS

(* The elements of one sequence put behind another.                        *)
LEMMA ConcatLemma ==
  ASSUME NEW S, NEW s \in Seq(S), NEW t \in Seq(S)
  PROVE  /\ s \o t \in Seq(S) /\ Len(s \o t) = Len(s) + Len(t)
         /\ Len(s) \in Nat /\ Len(t) \in Nat
         /\ \A i \in 1 .. Len(s) : (s \o t)[i] = s[i]
         /\ \A i \in 1 .. Len(t) : (s \o t)[Len(s) + i] = t[i]
  BY ConcatProperties, LenProperties

(* What a client calls in each of its turns.                               *)
LEMMA ProgramLemma ==
  ASSUME NEW k \in Int
  PROVE  /\ Rounds \in Nat /\ Rounds <= Iterations
         /\ k = -1 => Program(k) = << Call("HEADER", "CONNECT") >>
         /\ k \in 0 .. Rounds - 1 =>
              /\ Len(Program(k)) = 7
              /\ Program(k)[1] = Call("HEADER", "WRITE")
              /\ Program(k)[2] = Call("BODY", "WRITE")
              /\ Program(k)[3] = Call("DATA", "WRITE")
              /\ Program(k)[4] = Call("HEADER", "ACTION")
              /\ Program(k)[5] = Call("BODY", "ACTION")
              /\ Program(k)[6] = Call("none", "ALLREDUCE")
              /\ Program(k)[7] = Call("HEADER", "NEXT_ITERATION")
         /\ k >= Rounds => Program(k) = << Call("HEADER", "STOP") >>
<1>1. Rounds \in Nat /\ Rounds <= Iterations
  BY SessionOK DEF Rounds
<1> DEFINE C == {Call("HEADER", "WRITE"), Call("BODY", "WRITE"), Call("DATA", "WRITE"),
                Call("HEADER", "ACTION"), Call("BODY", "ACTION"),
                Call("none", "ALLREDUCE"), Call("HEADER", "NEXT_ITERATION")}
<1> HIDE DEF C
<1>3. /\ Write \in Seq(C) /\ Len(Write) = 3
      /\ Write[1] = Call("HEADER", "WRITE")
      /\ Write[2] = Call("BODY", "WRITE")
      /\ Write[3] = Call("DATA", "WRITE")
  <2> DEFINE a == Call("HEADER", "WRITE")
             b == Call("BODY", "WRITE")
             c == Call("DATA", "WRITE")
  <2>1. a \in C /\ b \in C /\ c \in C
    BY DEF C
  <2>2. Write = <<a, b, c>>
    BY DEF Write
  <2> HIDE DEF a, b, c
  <2>3. /\ <<a, b, c>> \in Seq(C) /\ Len(<<a, b, c>>) = 3
        /\ <<a, b, c>>[1] = a /\ <<a, b, c>>[2] = b /\ <<a, b, c>>[3] = c
    BY <2>1, TuplesLemma
  <2> QED
    BY <2>2, <2>3 DEF a, b, c
<1>4. /\ Signal \in Seq(C) /\ Len(Signal) = 2
      /\ Signal[1] = Call("HEADER", "ACTION")
      /\ Signal[2] = Call("BODY", "ACTION")
  <2> DEFINE a == Call("HEADER", "ACTION")
             b == Call("BODY", "ACTION")
  <2>1. a \in C /\ b \in C
    BY DEF C
  <2>2. Signal = <<a, b>>
    BY DEF Signal
  <2> HIDE DEF a, b
  <2>3. <<a, b>> \in Seq(C) /\ Len(<<a, b>>) = 2 /\ <<a, b>>[1] = a /\ <<a, b>>[2] = b
    BY <2>1, TuplesLemma
  <2> QED
    BY <2>2, <2>3 DEF a, b
<1>5. /\ EndIteration \in Seq(C) /\ Len(EndIteration) = 2
      /\ EndIteration[1] = Call("none", "ALLREDUCE")
      /\ EndIteration[2] = Call("HEADER", "NEXT_ITERATION")
  <2> DEFINE a == Call("none", "ALLREDUCE")
             b == Call("HEADER", "NEXT_ITERATION")
  <2>1. a \in C /\ b \in C
    BY DEF C
  <2>2. EndIteration = <<a, b>>
    BY DEF EndIteration
  <2> HIDE DEF a, b
  <2>3. <<a, b>> \in Seq(C) /\ Len(<<a, b>>) = 2 /\ <<a, b>>[1] = a /\ <<a, b>>[2] = b
    BY <2>1, TuplesLemma
  <2> QED
    BY <2>2, <2>3 DEF a, b
<1> DEFINE P == Write \o Signal
<1>6. /\ P \in Seq(C) /\ Len(P) = 5
      /\ \A i \in 1 .. 3 : P[i] = Write[i]
      /\ \A i \in 1 .. 2 : P[3 + i] = Signal[i]
  <2>0. Write \in Seq(C) /\ Signal \in Seq(C)
    BY <1>3, <1>4
  <2>1. /\ P \in Seq(C) /\ Len(P) = Len(Write) + Len(Signal)
        /\ \A i \in 1 .. Len(Write) : P[i] = Write[i]
        /\ \A i \in 1 .. Len(Signal) : P[Len(Write) + i] = Signal[i]
    BY <2>0, ConcatLemma
  <2> HIDE DEF P
  <2> QED
    BY <2>1, <1>3, <1>4
<1> HIDE DEF P
<1> DEFINE Q == P \o EndIteration
<1>7. /\ Len(Q) = 7
      /\ \A i \in 1 .. 5 : Q[i] = P[i]
      /\ \A i \in 1 .. 2 : Q[5 + i] = EndIteration[i]
  <2>0. P \in Seq(C) /\ EndIteration \in Seq(C)
    BY <1>5, <1>6
  <2>1. /\ Len(Q) = Len(P) + Len(EndIteration)
        /\ \A i \in 1 .. Len(P) : Q[i] = P[i]
        /\ \A i \in 1 .. Len(EndIteration) : Q[Len(P) + i] = EndIteration[i]
    BY <2>0, ConcatLemma
  <2> HIDE DEF Q
  <2> QED
    BY <2>1, <1>5, <1>6
<1>8. k \in 0 .. Rounds - 1 => Program(k) = Q
  BY <1>1 DEF Program, Q, P
<1> HIDE DEF Q
<1>9. k >= Rounds => Program(k) = << Call("HEADER", "STOP") >>
  BY <1>1 DEF Program
<1>10. k = -1 => Program(k) = << Call("HEADER", "CONNECT") >>
  BY DEF Program
<1>11. k \in 0 .. Rounds - 1 =>
         /\ Len(Program(k)) = 7
         /\ \A i \in 1 .. 7 : Program(k)[i] = Q[i]
  BY <1>7, <1>8
<1>12. /\ Q[1] = P[1] /\ Q[2] = P[2] /\ Q[3] = P[3] /\ Q[4] = P[4] /\ Q[5] = P[5]
       /\ Q[5 + 1] = EndIteration[1] /\ Q[5 + 2] = EndIteration[2]
       /\ P[1] = Write[1] /\ P[2] = Write[2] /\ P[3] = Write[3]
       /\ P[3 + 1] = Signal[1] /\ P[3 + 2] = Signal[2]
  BY <1>6, <1>7
<1>13. k \in 0 .. Rounds - 1 =>
         /\ Program(k)[1] = Q[1] /\ Program(k)[2] = Q[2] /\ Program(k)[3] = Q[3]
         /\ Program(k)[4] = Q[4] /\ Program(k)[5] = Q[5] /\ Program(k)[6] = Q[6]
         /\ Program(k)[7] = Q[7]
  BY <1>11
<1>14. 5 + 1 = 6 /\ 5 + 2 = 7 /\ 3 + 1 = 4 /\ 3 + 2 = 5
  OBVIOUS
<1>15. k \in 0 .. Rounds - 1 =>
              /\ Len(Program(k)) = 7
              /\ Program(k)[1] = Call("HEADER", "WRITE")
              /\ Program(k)[2] = Call("BODY", "WRITE")
              /\ Program(k)[3] = Call("DATA", "WRITE")
              /\ Program(k)[4] = Call("HEADER", "ACTION")
              /\ Program(k)[5] = Call("BODY", "ACTION")
              /\ Program(k)[6] = Call("none", "ALLREDUCE")
              /\ Program(k)[7] = Call("HEADER", "NEXT_ITERATION")
  BY <1>3, <1>4, <1>5, <1>11, <1>12, <1>13, <1>14
<1> QED
  BY <1>1, <1>9, <1>10, <1>15
----------------------------------------------------------------------------
(* Where a client is: which turn it is in, and what it has sent by tag.    *)
TurnOK(t, m) ==
  /\ t \in Int /\ -1 <= t /\ t <= Rounds + 1
  /\ m \in Nat /\ m <= 6
  /\ m # 0 => 0 <= t /\ t < Rounds

From(m, n) == IF m >= n THEN 1 ELSE 0

PostedAt(t, m, tag) ==
  IF t = -1 THEN 0
  ELSE IF tag = "HEADER"
       THEN IF t > Rounds THEN 3 * Rounds + 2 ELSE 3 * t + 1 + From(m, 1) + From(m, 4)
  ELSE IF tag = "BODY"
       THEN IF t >= Rounds THEN 2 * Rounds ELSE 2 * t + From(m, 2) + From(m, 5)
  ELSE IF t >= Rounds THEN Rounds ELSE t + From(m, 3)

Posted(c, tag) == PostedAt(turn[c], made[c], tag)

(* What a client has sent with a tag is a number.                          *)
LEMMA PostedLemma ==
  ASSUME NEW t, NEW m, TurnOK(t, m), NEW g
  PROVE  PostedAt(t, m, g) \in Int
<1>1. Rounds \in Int /\ t \in Int
  BY ProgramLemma DEF TurnOK
<1>2. \A n : From(m, n) \in Int
  BY DEF From
<1> QED
  BY <1>1, <1>2 DEF PostedAt

(* The j-th message that a client sends with a tag.                        *)
Fits(tag, kind, k, j) ==
  \/ tag = "HEADER" /\ kind = "CONNECT" /\ j = 1
  \/ tag = "HEADER" /\ kind = "WRITE" /\ k \in 0 .. Rounds - 1 /\ j = 3 * k + 2
  \/ tag = "HEADER" /\ kind = "ACTION" /\ k \in 0 .. Rounds - 1 /\ j = 3 * k + 3
  \/ tag = "HEADER" /\ kind = "NEXT_ITERATION" /\ k \in 0 .. Rounds - 1 /\ j = 3 * k + 4
  \/ tag = "HEADER" /\ kind = "STOP" /\ j = 3 * Rounds + 2
  \/ tag = "BODY" /\ kind = "WRITE" /\ k \in 0 .. Rounds - 1 /\ j = 2 * k + 1
  \/ tag = "BODY" /\ kind = "ACTION" /\ k \in 0 .. Rounds - 1 /\ j = 2 * k + 2
  \/ tag = "DATA" /\ kind = "WRITE" /\ k \in 0 .. Rounds - 1 /\ j = k + 1

CallAt(t, m) == Program(t)[m + 1]

(* The next call of a client and where it leaves it.                       *)
LEMMA CallLemma ==
  ASSUME NEW t, NEW m, TurnOK(t, m), t <= Rounds,
         NEW u, NEW n,
         IF m + 1 < Len(Program(t)) THEN n = m + 1 /\ u = t ELSE n = 0 /\ u = t + 1
  PROVE  /\ TurnOK(u, n)
         /\ t <= u
         /\ CallAt(t, m).tag \in Tags \cup {"none"}
         /\ CallAt(t, m).tag \in Tags =>
              Fits(CallAt(t, m).tag, CallAt(t, m).kind, t, PostedAt(t, m, CallAt(t, m).tag) + 1)
         /\ \A g \in Tags : PostedAt(u, n, g)
                              = PostedAt(t, m, g) + (IF g = CallAt(t, m).tag THEN 1 ELSE 0)
         /\ CallAt(t, m).kind = "ALLREDUCE" =>
              0 <= t /\ t < Rounds /\ CallAt(t, m).tag = "none"
<1> USE DEF CallAt
<1> DEFINE d == Program(t)[m + 1]
<1>1. Rounds \in Nat /\ t \in Int /\ m \in Nat
  BY ProgramLemma DEF TurnOK
<1>2. CASE t = -1
  <2>1. /\ m = 0 /\ d = Call("HEADER", "CONNECT") /\ Len(Program(t)) = 1
    BY <1>1, <1>2, ProgramLemma DEF TurnOK
  <2> HIDE DEF d
  <2>2. u = 0 /\ n = 0 /\ d.tag = "HEADER" /\ d.kind = "CONNECT"
    BY <1>2, <2>1 DEF Call
  <2> USE DEF d
  <2> QED
    BY <1>1, <1>2, <2>1, <2>2 DEF TurnOK, Fits, PostedAt, Tags, From
<1>3. CASE t = Rounds
  <2>1. /\ m = 0 /\ d = Call("HEADER", "STOP") /\ Len(Program(t)) = 1
    BY <1>1, <1>3, ProgramLemma DEF TurnOK
  <2>2. u = t + 1 /\ n = 0 /\ d.tag = "HEADER" /\ d.kind = "STOP"
    BY <1>3, <2>1 DEF Call
  <2> QED
    BY <1>1, <1>3, <2>1, <2>2 DEF TurnOK, Fits, PostedAt, Tags, From
<1>4. CASE t \in 0 .. Rounds - 1
  <2>1. /\ Len(Program(t)) = 7
        /\ \/ m = 0 /\ d = Call("HEADER", "WRITE")
           \/ m = 1 /\ d = Call("BODY", "WRITE")
           \/ m = 2 /\ d = Call("DATA", "WRITE")
           \/ m = 3 /\ d = Call("HEADER", "ACTION")
           \/ m = 4 /\ d = Call("BODY", "ACTION")
           \/ m = 5 /\ d = Call("none", "ALLREDUCE")
           \/ m = 6 /\ d = Call("HEADER", "NEXT_ITERATION")
    BY <1>1, <1>4, ProgramLemma DEF TurnOK
  <2>2. /\ \/ m = 0 /\ d.tag = "HEADER" /\ d.kind = "WRITE"
           \/ m = 1 /\ d.tag = "BODY" /\ d.kind = "WRITE"
           \/ m = 2 /\ d.tag = "DATA" /\ d.kind = "WRITE"
           \/ m = 3 /\ d.tag = "HEADER" /\ d.kind = "ACTION"
           \/ m = 4 /\ d.tag = "BODY" /\ d.kind = "ACTION"
           \/ m = 5 /\ d.tag = "none" /\ d.kind = "ALLREDUCE"
           \/ m = 6 /\ d.tag = "HEADER" /\ d.kind = "NEXT_ITERATION"
        /\ m < 6 => n = m + 1 /\ u = t
        /\ m = 6 => n = 0 /\ u = t + 1
    BY <1>1, <2>1 DEF Call
  <2> HIDE DEF d
  <2>3. TurnOK(u, n) /\ t <= u
    BY <1>1, <1>4, <2>2 DEF TurnOK
  <2>4. d.tag \in Tags \cup {"none"}
    BY <2>2 DEF Tags
  <2>5. d.tag \in Tags => Fits(d.tag, d.kind, t, PostedAt(t, m, d.tag) + 1)
    BY <1>1, <1>4, <2>2 DEF Tags, Fits, PostedAt, From
  <2>6. \A g \in Tags : PostedAt(u, n, g)
                         = PostedAt(t, m, g) + (IF g = d.tag THEN 1 ELSE 0)
    <3> DEFINE Right(g) == PostedAt(u, n, g)
                             = PostedAt(t, m, g) + (IF g = d.tag THEN 1 ELSE 0)
    <3>1. t \in Int /\ 0 <= t /\ t < Rounds
      BY <1>1, <1>4
    <3>2. ASSUME m = 0, d.tag = "HEADER"
          PROVE  Right("HEADER") /\ Right("BODY") /\ Right("DATA")
      <4>1. n = 1 /\ u = t
        BY <2>2, <3>2
      <4> QED
        BY <1>1, <3>1, <3>2, <4>1 DEF PostedAt, From
    <3>3. ASSUME m = 1, d.tag = "BODY"
          PROVE  Right("HEADER") /\ Right("BODY") /\ Right("DATA")
      <4>1. n = 2 /\ u = t
        BY <2>2, <3>3
      <4> QED
        BY <1>1, <3>1, <3>3, <4>1 DEF PostedAt, From
    <3>4. ASSUME m = 2, d.tag = "DATA"
          PROVE  Right("HEADER") /\ Right("BODY") /\ Right("DATA")
      <4>1. n = 3 /\ u = t
        BY <2>2, <3>4
      <4> QED
        BY <1>1, <3>1, <3>4, <4>1 DEF PostedAt, From
    <3>5. ASSUME m = 3, d.tag = "HEADER"
          PROVE  Right("HEADER") /\ Right("BODY") /\ Right("DATA")
      <4>1. n = 4 /\ u = t
        BY <2>2, <3>5
      <4> QED
        BY <1>1, <3>1, <3>5, <4>1 DEF PostedAt, From
    <3>6. ASSUME m = 4, d.tag = "BODY"
          PROVE  Right("HEADER") /\ Right("BODY") /\ Right("DATA")
      <4>1. n = 5 /\ u = t
        BY <2>2, <3>6
      <4> QED
        BY <1>1, <3>1, <3>6, <4>1 DEF PostedAt, From
    <3>7. ASSUME m = 5, d.tag = "none"
          PROVE  Right("HEADER") /\ Right("BODY") /\ Right("DATA")
      <4>1. n = 6 /\ u = t
        BY <2>2, <3>7
      <4> QED
        BY <1>1, <3>1, <3>7, <4>1 DEF PostedAt, From
    <3>8. ASSUME m = 6, d.tag = "HEADER"
          PROVE  Right("HEADER") /\ Right("BODY") /\ Right("DATA")
      <4>1. n = 0 /\ u = t + 1
        BY <2>2, <3>8
      <4> QED
        BY <1>1, <3>1, <3>8, <4>1 DEF PostedAt, From
    <3>9. Right("HEADER") /\ Right("BODY") /\ Right("DATA")
      BY <2>2, <3>2, <3>3, <3>4, <3>5, <3>6, <3>7, <3>8
    <3> QED
      BY <3>9 DEF Tags
  <2>7. d.kind = "ALLREDUCE" => 0 <= t /\ t < Rounds /\ d.tag = "none"
    BY <1>1, <1>4, <2>2
  <2> QED
    BY <2>3, <2>4, <2>5, <2>6, <2>7 DEF d
<1> QED
  BY <1>1, <1>2, <1>3, <1>4 DEF TurnOK
----------------------------------------------------------------------------
Kinds == {"CONNECT", "WRITE", "ACTION", "NEXT_ITERATION", "STOP"}
Msg == [client : Int, kind : Kinds, k : Int, buffered : BOOLEAN]

(* What a channel holds, of whose messages n have been taken.              *)
Content(p, t, q, n) ==
  /\ q \in Seq(Msg)
  /\ n \in Nat
  /\ \A i \in 1 .. Len(q) : q[i].client = p /\ Fits(t, q[i].kind, q[i].k, n + i)

(* What is left to complete of it.                                         *)
Unfinished(q) == {i \in 1 .. Len(q) : ~ q[i].buffered}
Owed(q) == Cardinality(Unfinished(q))

(* The sends of a channel that are to be completed are finitely many.      *)
LEMMA OwedLemma ==
  ASSUME NEW q \in Seq(Msg)
  PROVE  Owed(q) \in Nat /\ IsFiniteSet(Unfinished(q))
<1>1. Len(q) \in Nat /\ IsFiniteSet(1 .. Len(q))
  BY LenProperties, FS_Interval
<1>2. Unfinished(q) \in SUBSET (1 .. Len(q))
  BY DEF Unfinished
<1>3. IsFiniteSet(Unfinished(q))
  BY <1>1, <1>2, FS_Subset
<1> QED
  BY <1>3, FS_CardinalityType DEF Owed

(* A client sends: its channel holds one message more, the one that        *)
(* follows the last it has sent with this tag.                             *)
LEMMA AppendContent ==
  ASSUME NEW p, NEW t, NEW q, NEW n, Content(p, t, q, n),
         NEW m \in Msg, m.client = p, Fits(t, m.kind, m.k, n + Len(q) + 1)
  PROVE  /\ Content(p, t, Append(q, m), n)
         /\ Len(q) \in Nat /\ Len(Append(q, m)) = Len(q) + 1
         /\ Owed(q) \in Nat
         /\ Owed(Append(q, m)) = Owed(q) + (IF m.buffered THEN 0 ELSE 1)
         /\ Append(q, m) # <<>>
<1> DEFINE a == Append(q, m)
           l == Len(q) + 1
<1>1. /\ q \in Seq(Msg) /\ n \in Nat
      /\ \A i \in 1 .. Len(q) : q[i].client = p /\ Fits(t, q[i].kind, q[i].k, n + i)
  BY DEF Content
<1>2. /\ a \in Seq(Msg) /\ Len(q) \in Nat /\ Len(a) = l
      /\ \A i \in 1 .. Len(q) : a[i] = q[i]
      /\ a[l] = m
  BY <1>1, AppendProperties, LenProperties
<1>3. a # <<>>
  BY <1>2, EmptySeq
<1> HIDE DEF a
<1>4. Content(p, t, a, n)
  <2>1. ASSUME NEW i \in 1 .. Len(a)
        PROVE  a[i].client = p /\ Fits(t, a[i].kind, a[i].k, n + i)
    <3>1. CASE i \in 1 .. Len(q)
      BY <1>1, <1>2, <3>1
    <3>2. CASE i = l
      <4>1. n + i = n + Len(q) + 1
        BY <1>1, <1>2, <3>2
      <4>2. a[i] = m
        BY <1>2, <3>2
      <4> QED
        BY <4>1, <4>2
    <3> QED
      BY <1>2, <3>1, <3>2
  <2> QED
    BY <1>1, <1>2, <2>1 DEF Content
<1>5. Unfinished(a) = IF m.buffered THEN Unfinished(q) ELSE Unfinished(q) \cup {l}
  BY <1>2 DEF Unfinished
<1>6. l \notin Unfinished(q)
  BY <1>2 DEF Unfinished
<1>7. IsFiniteSet(Unfinished(q)) /\ Owed(q) \in Nat
  BY <1>1, OwedLemma
<1>8. Owed(a) = Owed(q) + (IF m.buffered THEN 0 ELSE 1)
  <2>1. Cardinality(Unfinished(q) \cup {l}) = Cardinality(Unfinished(q)) + 1
    BY <1>6, <1>7, FS_AddElement
  <2> QED
    BY <1>5, <1>7, <2>1 DEF Owed
<1> QED
  BY <1>2, <1>3, <1>4, <1>7, <1>8 DEF a

(* A server receives: the message it takes is the next of those the        *)
(* client sends with this tag.                                             *)
LEMMA TailContent ==
  ASSUME NEW p, NEW t, NEW q, NEW n, Content(p, t, q, n), q # <<>>
  PROVE  /\ Content(p, t, Tail(q), n + 1)
         /\ Len(q) \in Nat \ {0} /\ Len(Tail(q)) = Len(q) - 1
         /\ Head(q) \in Msg /\ Head(q).client = p
         /\ Fits(t, Head(q).kind, Head(q).k, n + 1)
         /\ Owed(q) \in Nat /\ Owed(Tail(q)) \in Nat
         /\ Owed(q) = Owed(Tail(q)) + (IF Head(q).buffered THEN 0 ELSE 1)
<1> DEFINE r == Tail(q)
<1>1. /\ q \in Seq(Msg) /\ n \in Nat
      /\ \A i \in 1 .. Len(q) : q[i].client = p /\ Fits(t, q[i].kind, q[i].k, n + i)
  BY DEF Content
<1>2. /\ r \in Seq(Msg) /\ Head(q) \in Msg
      /\ Len(q) \in Nat \ {0} /\ Len(r) = Len(q) - 1
      /\ \A i \in 1 .. Len(r) : r[i] = q[i + 1]
      /\ q[1] = Head(q)
  BY <1>1, HeadTailProperties, EmptySeq, LenProperties
<1> HIDE DEF r
<1>3. Head(q).client = p /\ Fits(t, Head(q).kind, Head(q).k, n + 1)
  BY <1>1, <1>2
<1>4. Content(p, t, r, n + 1)
  <2>1. ASSUME NEW i \in 1 .. Len(r)
        PROVE  r[i].client = p /\ Fits(t, r[i].kind, r[i].k, n + 1 + i)
    <3>1. i + 1 \in 1 .. Len(q) /\ n + 1 + i = n + (i + 1) /\ r[i] = q[i + 1]
      BY <1>1, <1>2
    <3> QED
      BY <1>1, <3>1
  <2> QED
    BY <1>1, <1>2, <2>1 DEF Content
<1> DEFINE S == {i \in Unfinished(q) : i > 1}
<1>5. /\ S \in SUBSET Nat /\ Unfinished(r) \in SUBSET Nat /\ 0 \notin S /\ 1 \notin S
      /\ S \in SUBSET (1 .. Len(q)) /\ Unfinished(r) \in SUBSET (1 .. Len(r))
  BY DEF Unfinished
<1>6. IsFiniteSet(S) /\ IsFiniteSet(Unfinished(r))
  <2>1. IsFiniteSet(1 .. Len(q)) /\ IsFiniteSet(1 .. Len(r))
    BY <1>2, FS_Interval
  <2> HIDE DEF S
  <2> QED
    BY <1>5, <2>1, FS_Subset
<1>7. \A i \in Nat : i \in Unfinished(r) <=> i + 1 \in S
  BY <1>2 DEF Unfinished
<1>8. Unfinished(q) = IF Head(q).buffered THEN S ELSE S \cup {1}
  BY <1>2 DEF Unfinished
<1> HIDE DEF S
<1>9. Cardinality(Unfinished(r)) = Cardinality(S)
  BY <1>5, <1>6, <1>7, ShiftLemma
<1>10. Cardinality(S \cup {1}) = Cardinality(S) + 1 /\ Cardinality(S) \in Nat
  BY <1>5, <1>6, FS_AddElement, FS_CardinalityType
<1> QED
  BY <1>2, <1>3, <1>4, <1>8, <1>9, <1>10 DEF r, Owed
----------------------------------------------------------------------------
(* How many messages with a tag a server has taken from a client.          *)
Taken(p, t) == Posted(p, t) - Len(channel[p][t])

ClientTypes ==
  /\ turn \in [Proc -> Int] /\ made \in [Proc -> Int]
  /\ channel \in [Proc -> [Tags -> Seq(Msg)]]
  /\ asyncCount \in [Proc -> Int] /\ finished \in [Proc -> Int]
  /\ reduced \in [Proc -> Int]

(* The queue of a client: every send that is counted is complete, or still *)
(* to be received.                                                         *)
QueueOf(p) ==
  /\ finished[p] \in Nat
  /\ asyncCount[p] <= QueueSize - 1
  /\ asyncCount[p] = finished[p] + Owed(channel[p]["HEADER"])
                       + Owed(channel[p]["BODY"]) + Owed(channel[p]["DATA"])

ClientOf(p) ==
  /\ TurnOK(turn[p], made[p])
  /\ \A t \in Tags : Content(p, t, channel[p][t], Taken(p, t))
  /\ QueueOf(p)
  /\ reduced[p] \in 0 .. Iterations

ClientInv == ClientTypes /\ \A p \in Proc : ClientOf(p)

(* What a client sends is read off the architecture as well.               *)
LEMMA FixedRounds ==
  ASSUME config' = config
  PROVE  /\ Rounds' = Rounds
         /\ \A t, m : TurnOK(t, m)' <=> TurnOK(t, m)
         /\ \A t, m, g : PostedAt(t, m, g)' = PostedAt(t, m, g)
         /\ \A p, t, q, n : Content(p, t, q, n)' <=> Content(p, t, q, n)
         /\ \A k : Program(k)' = Program(k)
<1>1. SharedMemory' <=> SharedMemory
  BY FixedLemma
<1>2. Rounds' = Rounds
  BY <1>1 DEF Rounds
<1>3. \A t, m : TurnOK(t, m)' <=> TurnOK(t, m)
  BY <1>2 DEF TurnOK
<1>4. \A t, m, g : PostedAt(t, m, g)' = PostedAt(t, m, g)
  BY <1>2 DEF PostedAt
<1>5. \A t, kind, k, j : Fits(t, kind, k, j)' <=> Fits(t, kind, k, j)
  BY <1>2 DEF Fits
<1>6. \A p, t, q, n : Content(p, t, q, n)' <=> Content(p, t, q, n)
  BY <1>5 DEF Content
<1>7. \A k : Program(k)' = Program(k)
  BY <1>2 DEF Program
<1> QED
  BY <1>2, <1>3, <1>4, <1>6, <1>7

(* What a step leaves alone of a client.                                   *)
Alike(p) ==
  /\ turn'[p] = turn[p] /\ made'[p] = made[p] /\ channel'[p] = channel[p]
  /\ asyncCount'[p] = asyncCount[p] /\ finished'[p] = finished[p]
  /\ reduced'[p] = reduced[p]

(* A client that a step leaves alone is as it was.                         *)
LEMMA AlikeLemma ==
  ASSUME config' = config, NEW p, Alike(p)
  PROVE  /\ ClientOf(p)' <=> ClientOf(p)
         /\ \A t : Taken(p, t)' = Taken(p, t)
<1>1. \A t : Posted(p, t)' = Posted(p, t)
  BY FixedRounds DEF Posted, Alike
<1>2. \A t : Taken(p, t)' = Taken(p, t)
  BY <1>1 DEF Taken, Alike
<1>3. TurnOK(turn[p], made[p])' <=> TurnOK(turn[p], made[p])
  BY FixedRounds DEF Alike
<1>4. (\A t \in Tags : Content(p, t, channel[p][t], Taken(p, t)))'
        <=> (\A t \in Tags : Content(p, t, channel[p][t], Taken(p, t)))
  BY <1>2, FixedRounds DEF Alike
<1>5. QueueOf(p)' <=> QueueOf(p)
  BY DEF QueueOf, Alike
<1>6. (reduced[p] \in 0 .. Iterations)' <=> reduced[p] \in 0 .. Iterations
  BY DEF Alike
<1> QED
  BY <1>2, <1>3, <1>4, <1>5, <1>6 DEF ClientOf

(* A function of two arguments, changed in one place.                      *)
LEMMA PlaceChanged ==
  ASSUME NEW P, NEW T, NEW S, NEW f \in [P -> [T -> S]], NEW c \in P, NEW t \in T,
         NEW x \in S, NEW g, g = [f EXCEPT ![c][t] = x]
  PROVE  /\ g \in [P -> [T -> S]]
         /\ g[c][t] = x
         /\ \A u \in T : u # t => g[c][u] = f[c][u]
         /\ \A p \in P : p # c => g[p] = f[p]
<1> DEFINE h == [f[c] EXCEPT ![t] = x]
<1>1. h \in [T -> S] /\ h[t] = x /\ \A u \in T : u # t => h[u] = f[c][u]
  OBVIOUS
<1> HIDE DEF h
<1>2. g = [f EXCEPT ![c] = h]
  BY DEF h
<1> QED
  BY <1>1, <1>2

(* The session as a job begins.                                            *)
AtFirst ==
  /\ turn = Fresh.turn /\ made = Fresh.zero /\ channel = Fresh.channel
  /\ asyncCount = Fresh.zero /\ finished = Fresh.zero /\ reduced = Fresh.zero
  /\ listening = Fresh.listening /\ handling = Fresh.handling /\ known = Fresh.nobody
  /\ ended = Fresh.nobody /\ arrived = Fresh.zero /\ released = Fresh.zero
  /\ stored = Fresh.nobody /\ stops = Fresh.nobody
  /\ locks = Fresh.counts /\ fired = Fresh.counts

(* At the start of a job no client has sent anything.                      *)
LEMMA ClientFirst == AtFirst => ClientInv /\ \A p \in Proc, t \in Tags : Taken(p, t) = 0
<1> SUFFICES ASSUME AtFirst
             PROVE  ClientInv /\ \A p \in Proc, t \in Tags : Taken(p, t) = 0
  OBVIOUS
<1>1. /\ turn = [p \in Proc |-> -1] /\ made = [p \in Proc |-> 0]
      /\ channel = [p \in Proc |-> [t \in Tags |-> <<>>]]
      /\ asyncCount = [p \in Proc |-> 0] /\ finished = [p \in Proc |-> 0]
      /\ reduced = [p \in Proc |-> 0]
  BY DEF AtFirst, Fresh
<1>2. Rounds \in Nat /\ Iterations \in Nat /\ QueueSize \in Nat \ {0, 1}
  BY SessionOK, ProgramLemma
<1>3. <<>> \in Seq(Msg) /\ Len(<<>>) = 0
  BY EmptySeq
<1>4. ClientTypes
  BY <1>1, <1>3 DEF ClientTypes
<1>5. Unfinished(<<>>) = {} /\ Owed(<<>>) = 0
  <2>1. Unfinished(<<>>) = {}
    BY <1>3 DEF Unfinished
  <2> QED
    BY <2>1, FS_EmptySet DEF Owed
<1>6. ASSUME NEW p \in Proc
      PROVE  ClientOf(p) /\ \A t \in Tags : Taken(p, t) = 0
  <2>1. /\ turn[p] = -1 /\ made[p] = 0 /\ \A t \in Tags : channel[p][t] = <<>>
        /\ asyncCount[p] = 0 /\ finished[p] = 0 /\ reduced[p] = 0
    BY <1>1
  <2>2. TurnOK(turn[p], made[p])
    BY <2>1, <1>2 DEF TurnOK
  <2>3. \A t \in Tags : Taken(p, t) = 0
    BY <2>1, <1>3 DEF Taken, Posted, PostedAt
  <2>4. \A t \in Tags : Content(p, t, channel[p][t], Taken(p, t))
    <3>1. \A t \in Tags : Content(p, t, <<>>, 0)
      BY <1>3 DEF Content
    <3> QED
      BY <2>1, <2>3, <3>1
  <2>5. QueueOf(p)
    BY <2>1, <1>2, <1>5 DEF QueueOf, Tags
  <2> QED
    BY <2>1, <2>2, <2>3, <2>4, <2>5, <1>2 DEF ClientOf
<1> QED
  BY <1>4, <1>6 DEF ClientInv
----------------------------------------------------------------------------
(* The steps of a client.                                                  *)
LEMMA OneClient ==
  ASSUME ClientInv, config' = config, NEW c \in Proc,
         ClientTypes', ClientOf(c)', \A p \in Proc : p # c => Alike(p)
  PROVE  /\ ClientInv'
         /\ \A p \in Proc, t \in Tags : p # c => Taken(p, t)' = Taken(p, t)
<1>1. Proc' = Proc
  BY FixedLemma
<1>2. ASSUME NEW p \in Proc, p # c
      PROVE  ClientOf(p)' /\ \A t : Taken(p, t)' = Taken(p, t)
  <2>1. Alike(p) /\ ClientOf(p)
    BY <1>2 DEF ClientInv
  <2> QED
    BY <2>1, AlikeLemma
<1> QED
  BY <1>1, <1>2 DEF ClientInv

(* The numbers of a client.                                                *)
LEMMA ClientNumbers ==
  ASSUME ClientInv, NEW p \in Proc
  PROVE  /\ ClientOf(p) /\ turn[p] \in Int /\ made[p] \in Int
         /\ QueueSize \in Nat /\ QueueSize >= 2 /\ Iterations \in Nat
         /\ Rounds \in Nat /\ Rounds <= Iterations
         /\ finished[p] \in Nat /\ asyncCount[p] \in Int
         /\ reduced[p] \in Nat
         /\ \A t \in Tags : /\ channel[p][t] \in Seq(Msg)
                            /\ Len(channel[p][t]) \in Nat
                            /\ Owed(channel[p][t]) \in Nat
                            /\ Taken(p, t) \in Nat
<1>1. ClientOf(p) /\ ClientTypes
  BY DEF ClientInv
<1>2. ASSUME NEW t \in Tags
      PROVE  channel[p][t] \in Seq(Msg) /\ Taken(p, t) \in Nat
  BY <1>1 DEF ClientOf, Content
<1>3. ASSUME NEW t \in Tags
      PROVE  Len(channel[p][t]) \in Nat /\ Owed(channel[p][t]) \in Nat
  BY <1>2, LenProperties, OwedLemma
<1> QED
  BY <1>1, <1>2, <1>3, SessionOK, ProgramLemma DEF ClientTypes, ClientOf, QueueOf

(* The reactor runs the callback of a send that is complete: the count     *)
(* and the completed sends go down together.                               *)
LEMMA Polls ==
  ASSUME ClientInv, NEW c \in Proc, PollOne(c)
  PROVE  ClientInv' /\ \A p \in Proc, t \in Tags : Taken(p, t)' = Taken(p, t)
<1>1. /\ finished[c] > 0 /\ finished' = [finished EXCEPT ![c] = finished[c] - 1]
      /\ asyncCount' = [asyncCount EXCEPT ![c] = asyncCount[c] - 1]
      /\ reduced' = reduced /\ turn' = turn /\ made' = made /\ channel' = channel
      /\ config' = config
  BY DEF PollOne, startupVars
<1>2. Proc' = Proc
  BY <1>1, FixedLemma
<1>3. ClientTypes /\ ClientOf(c)
  BY DEF ClientInv
<1>4. ClientTypes'
  BY <1>1, <1>2, <1>3 DEF ClientTypes
<1>5. \A p \in Proc : p # c => Alike(p)
  BY <1>1, <1>3 DEF Alike, ClientTypes
<1>6. finished'[c] = finished[c] - 1 /\ asyncCount'[c] = asyncCount[c] - 1
  BY <1>1, <1>3 DEF ClientTypes
<1>7. \A t : Taken(c, t)' = Taken(c, t)
  BY <1>1, FixedRounds DEF Posted, Taken
<1>8. TurnOK(turn[c], made[c])'
  BY <1>1, <1>3, FixedRounds DEF ClientOf
<1>9. (\A t \in Tags : Content(c, t, channel[c][t], Taken(c, t)))'
  BY <1>1, <1>3, <1>7, FixedRounds DEF ClientOf
<1>10. QueueOf(c)'
  <2>1. QueueOf(c)
    BY <1>3 DEF ClientOf
  <2>2. /\ Owed(channel[c]["HEADER"]) \in Nat /\ Owed(channel[c]["BODY"]) \in Nat
        /\ Owed(channel[c]["DATA"]) \in Nat /\ QueueSize \in Nat
        /\ finished[c] \in Nat /\ asyncCount[c] \in Int
    BY ClientNumbers DEF Tags
  <2> QED
    BY <1>1, <1>6, <2>1, <2>2 DEF QueueOf
<1>11. ClientOf(c)'
  BY <1>1, <1>3, <1>8, <1>9, <1>10 DEF ClientOf
<1> QED
  BY <1>1, <1>4, <1>5, <1>7, <1>11, OneClient

(* What a client has still to call.                                        *)
LEMMA NextOf ==
  ASSUME ClientInv, NEW c \in Proc, Busy(c), Proceed(c), config' = config
  PROVE  /\ turn' \in [Proc -> Int] /\ made' \in [Proc -> Int]
         /\ \A p \in Proc : p # c => turn'[p] = turn[p] /\ made'[p] = made[p]
         /\ TurnOK(turn[c], made[c])'
         /\ turn[c] <= turn'[c]
         /\ Todo(c).tag \in Tags \cup {"none"}
         /\ Todo(c).tag \in Tags =>
              Fits(Todo(c).tag, Todo(c).kind, turn[c], Posted(c, Todo(c).tag) + 1)
         /\ \A g \in Tags : Posted(c, g)'
                              = Posted(c, g) + (IF g = Todo(c).tag THEN 1 ELSE 0)
         /\ Todo(c).kind = "ALLREDUCE" => /\ 0 <= turn[c] /\ turn[c] < Rounds
                                          /\ Todo(c).tag = "none"
<1>1. /\ turn \in [Proc -> Int] /\ made \in [Proc -> Int]
      /\ TurnOK(turn[c], made[c]) /\ turn[c] <= Rounds
      /\ turn[c] \in Int /\ made[c] \in Int
  BY DEF ClientInv, ClientTypes, ClientOf, Busy
<1>2. /\ turn' \in [Proc -> Int] /\ made' \in [Proc -> Int]
      /\ \A p \in Proc : p # c => turn'[p] = turn[p] /\ made'[p] = made[p]
      /\ IF made[c] + 1 < Len(Program(turn[c]))
         THEN made'[c] = made[c] + 1 /\ turn'[c] = turn[c]
         ELSE made'[c] = 0 /\ turn'[c] = turn[c] + 1
  BY <1>1 DEF Proceed
<1> DEFINE d == CallAt(turn[c], made[c])
<1>3. /\ TurnOK(turn'[c], made'[c])
      /\ turn[c] <= turn'[c]
      /\ d.tag \in Tags \cup {"none"}
      /\ d.tag \in Tags =>
           Fits(d.tag, d.kind, turn[c], PostedAt(turn[c], made[c], d.tag) + 1)
      /\ \A g \in Tags : PostedAt(turn'[c], made'[c], g)
                         = PostedAt(turn[c], made[c], g) + (IF g = d.tag THEN 1 ELSE 0)
      /\ d.kind = "ALLREDUCE" => 0 <= turn[c] /\ turn[c] < Rounds /\ d.tag = "none"
  <2>1. PICK t : t = turn[c]
    OBVIOUS
  <2>2. PICK m : m = made[c]
    OBVIOUS
  <2>3. PICK u : u = turn'[c]
    OBVIOUS
  <2>4. PICK n : n = made'[c]
    OBVIOUS
  <2>5. /\ TurnOK(t, m) /\ t <= Rounds
        /\ IF m + 1 < Len(Program(t)) THEN n = m + 1 /\ u = t ELSE n = 0 /\ u = t + 1
    BY <1>1, <1>2, <2>1, <2>2, <2>3, <2>4
  <2>6. /\ TurnOK(u, n)
        /\ t <= u
        /\ CallAt(t, m).tag \in Tags \cup {"none"}
        /\ CallAt(t, m).tag \in Tags =>
             Fits(CallAt(t, m).tag, CallAt(t, m).kind, t, PostedAt(t, m, CallAt(t, m).tag) + 1)
        /\ \A g \in Tags : PostedAt(u, n, g)
                             = PostedAt(t, m, g) + (IF g = CallAt(t, m).tag THEN 1 ELSE 0)
        /\ CallAt(t, m).kind = "ALLREDUCE" =>
             0 <= t /\ t < Rounds /\ CallAt(t, m).tag = "none"
    BY <2>5, CallLemma
  <2> QED
    BY <2>1, <2>2, <2>3, <2>4, <2>6
<1>4. TurnOK(turn[c], made[c])'
  BY <1>3, FixedRounds
<1>5. \A g : Posted(c, g)' = PostedAt(turn'[c], made'[c], g)
  BY FixedRounds DEF Posted
<1> HIDE DEF d
<1>6. Todo(c) = d
  BY DEF Todo, d, CallAt
<1> QED
  BY <1>2, <1>3, <1>4, <1>5, <1>6 DEF Posted
----------------------------------------------------------------------------
(* A client sends (SimpleAsyncSend): the count stays below the size of     *)
(* the queue, and counts what is in the channels or complete.              *)
LEMMA Posts ==
  ASSUME Placed, ClientInv, NEW c \in Proc, Post(c)
  PROVE  ClientInv' /\ \A p \in Proc, t \in Tags : Taken(p, t)' = Taken(p, t)
<1>0. PICK g : g = Todo(c).tag
  OBVIOUS
<1>1. PICK b \in config.buffered :
        /\ channel' = [channel EXCEPT ![c][g] = Append(channel[c][g], Message(c, b))]
        /\ asyncCount' = [asyncCount EXCEPT ![c] = asyncCount[c] + Counted(b) - Reclaimed(c)]
  BY <1>0 DEF Post
<1>2. /\ Busy(c) /\ g \in Tags /\ Proceed(c) /\ config' = config
      /\ finished' = [finished EXCEPT ![c] = finished[c] - Reclaimed(c)]
      /\ reduced' = reduced
      /\ ~ (asyncCount[c] + 1 - Reclaimed(c) >= QueueSize)
  BY <1>0 DEF Post, Sending, Full
<1>3. Proc' = Proc
  BY <1>2, FixedLemma
<1>4. ClientTypes /\ ClientOf(c) /\ c \in Int
  BY DEF ClientInv, Proc
<1>5. /\ turn' \in [Proc -> Int] /\ made' \in [Proc -> Int]
      /\ \A p \in Proc : p # c => turn'[p] = turn[p] /\ made'[p] = made[p]
      /\ TurnOK(turn[c], made[c])'
      /\ Fits(g, Todo(c).kind, turn[c], Posted(c, g) + 1)
      /\ \A t \in Tags : Posted(c, t)' = Posted(c, t) + (IF t = g THEN 1 ELSE 0)
  BY <1>0, <1>2, NextOf
<1> DEFINE m == Message(c, b)
           q == channel[c][g]
<1>6. m \in Msg /\ m.client = c /\ m.kind = Todo(c).kind /\ m.k = turn[c] /\ m.buffered = b
  <2>1. b \in BOOLEAN
    BY StartupOK DEF Placed, ConfigOK
  <2>2. Todo(c).kind \in Kinds
    BY <1>5 DEF Fits, Kinds
  <2>3. turn[c] \in Int
    BY <1>4 DEF ClientTypes
  <2> QED
    BY <1>4, <2>1, <2>2, <2>3 DEF Message, Msg
<1>7. /\ Content(c, g, q, Taken(c, g)) /\ Len(q) \in Nat
      /\ Posted(c, g) + 1 = Taken(c, g) + Len(q) + 1
  <2>1. Content(c, g, q, Taken(c, g))
    BY <1>2, <1>4 DEF ClientOf
  <2>2. Len(q) \in Nat /\ Taken(c, g) \in Nat
    BY <1>2, ClientNumbers
  <2>3. Taken(c, g) = Posted(c, g) - Len(q)
    BY DEF Taken
  <2>4. Posted(c, g) \in Int
    BY <1>4, PostedLemma DEF Posted, ClientOf
  <2> HIDE DEF q
  <2> QED
    BY <2>1, <2>2, <2>3, <2>4
<1> HIDE DEF m
<1>8. /\ Content(c, g, Append(q, m), Taken(c, g))
      /\ Len(Append(q, m)) = Len(q) + 1
      /\ Owed(q) \in Nat
      /\ Owed(Append(q, m)) = Owed(q) + Counted(b)
  <2>1. Fits(g, m.kind, m.k, Taken(c, g) + Len(q) + 1)
    BY <1>5, <1>6, <1>7
  <2> HIDE DEF q
  <2>2. /\ Content(c, g, Append(q, m), Taken(c, g))
        /\ Len(Append(q, m)) = Len(q) + 1
        /\ Owed(q) \in Nat
        /\ Owed(Append(q, m)) = Owed(q) + (IF m.buffered THEN 0 ELSE 1)
    BY <1>6, <1>7, <2>1, AppendContent
  <2> QED
    BY <1>6, <2>2 DEF Counted
<1>9. /\ channel' \in [Proc -> [Tags -> Seq(Msg)]]
      /\ channel'[c][g] = Append(q, m)
      /\ \A u \in Tags : u # g => channel'[c][u] = channel[c][u]
      /\ \A p \in Proc : p # c => channel'[p] = channel[p]
  <2>1. channel \in [Proc -> [Tags -> Seq(Msg)]] /\ Append(q, m) \in Seq(Msg)
    BY <1>4, <1>8 DEF ClientTypes, Content
  <2>2. channel' = [channel EXCEPT ![c][g] = Append(q, m)]
    BY <1>1 DEF m
  <2> DEFINE a == Append(q, m)
             f == channel'
  <2>3. a \in Seq(Msg) /\ f = [channel EXCEPT ![c][g] = a]
    BY <2>1, <2>2
  <2> HIDE DEF a, f
  <2>4. /\ f \in [Proc -> [Tags -> Seq(Msg)]]
        /\ f[c][g] = a
        /\ \A u \in Tags : u # g => f[c][u] = channel[c][u]
        /\ \A p \in Proc : p # c => f[p] = channel[p]
    BY <1>2, <2>1, <2>3, PlaceChanged
  <2> QED
    BY <2>4 DEF a, f
<1> HIDE DEF q
<1>10. /\ finished'[c] = finished[c] - Reclaimed(c)
       /\ asyncCount'[c] = asyncCount[c] + Counted(b) - Reclaimed(c)
       /\ finished[c] \in Nat /\ asyncCount[c] \in Int
       /\ Reclaimed(c) \in Nat /\ Reclaimed(c) <= finished[c] /\ Counted(b) \in {0, 1}
  <2>1. finished[c] \in Nat /\ asyncCount[c] \in Int
    BY ClientNumbers
  <2> QED
    BY <1>1, <1>2, <1>4, <2>1 DEF ClientTypes, Reclaimed, Counted
<1>11. ClientTypes'
  <2>1. finished' \in [Proc -> Int] /\ asyncCount' \in [Proc -> Int]
    <3>1. /\ finished[c] - Reclaimed(c) \in Int
          /\ asyncCount[c] + Counted(b) - Reclaimed(c) \in Int
      BY <1>10
    <3> QED
      BY <1>1, <1>2, <1>4, <3>1 DEF ClientTypes
  <2> QED
    BY <1>2, <1>3, <1>4, <1>5, <1>9, <2>1 DEF ClientTypes
<1>12. \A p \in Proc : p # c => Alike(p)
  <2>1. \A p \in Proc : p # c => finished'[p] = finished[p] /\ asyncCount'[p] = asyncCount[p]
    BY <1>1, <1>2, <1>4 DEF ClientTypes
  <2> QED
    BY <1>2, <1>5, <1>9, <2>1 DEF Alike
<1>13. ASSUME NEW t \in Tags
       PROVE  /\ Taken(c, t)' = Taken(c, t)
              /\ Content(c, t, channel'[c][t], Taken(c, t))
  <2>1. CASE t = g
    <3>1. Len(channel'[c][g]) = Len(q) + 1 /\ Posted(c, g)' = Posted(c, g) + 1
      BY <1>2, <1>5, <1>8, <1>9
    <3>2. Taken(c, g) \in Nat /\ Posted(c, g) + 1 = Taken(c, g) + Len(q) + 1 /\ Len(q) \in Nat
      BY <1>2, <1>7, ClientNumbers
    <3>3. Taken(c, g)' = Posted(c, g)' - Len(channel'[c][g])
      BY DEF Taken
    <3>4. Taken(c, g)' = Taken(c, g)
      BY <3>1, <3>2, <3>3
    <3> QED
      BY <1>8, <1>9, <2>1, <3>4
  <2>2. CASE t # g
    <3>1. Content(c, t, channel[c][t], Taken(c, t))
      BY <1>4 DEF ClientOf
    <3>2. Posted(c, t)' = Posted(c, t) + 0 /\ channel'[c][t] = channel[c][t]
      BY <1>5, <1>9, <2>2
    <3>3. Posted(c, t) \in Int
      BY <1>4, PostedLemma DEF Posted, ClientOf
    <3>4. Taken(c, t)' = Taken(c, t)
      BY <3>2, <3>3 DEF Taken
    <3> QED
      BY <3>1, <3>2, <3>4
  <2> QED
    BY <2>1, <2>2
<1>14. QueueOf(c)'
  <2>1. QueueOf(c)
    BY <1>4 DEF ClientOf
  <2> DEFINE O(t) == Owed(channel[c][t])
             O2(t) == Owed(channel'[c][t])
  <2>2. \A t \in Tags : O2(t) = O(t) + (IF t = g THEN Counted(b) ELSE 0) /\ O(t) \in Nat
    <3>1. \A t \in Tags : O(t) \in Nat
      BY ClientNumbers
    <3>2. O2(g) = O(g) + Counted(b)
      BY <1>8, <1>9 DEF q
    <3>3. \A t \in Tags : t # g => O2(t) = O(t)
      BY <1>9
    <3> HIDE DEF O, O2
    <3> QED
      BY <3>1, <3>2, <3>3
  <2>3. QueueSize \in Nat
    BY SessionOK
  <2>4. asyncCount[c] = finished[c] + O("HEADER") + O("BODY") + O("DATA")
    BY <2>1 DEF QueueOf
  <2> HIDE DEF O, O2
  <2>5. O2("HEADER") + O2("BODY") + O2("DATA")
          = O("HEADER") + O("BODY") + O("DATA") + Counted(b)
    BY <1>2, <1>10, <2>2 DEF Tags
  <2>6. \A t \in Tags : O2(t) \in Nat /\ O(t) \in Nat
    BY <1>10, <2>2
  <2>7. /\ finished'[c] \in Nat /\ asyncCount'[c] <= QueueSize - 1
        /\ asyncCount'[c] = finished'[c] + O2("HEADER") + O2("BODY") + O2("DATA")
    <3>1. finished'[c] \in Nat
      BY <1>10
    <3>2. asyncCount'[c] <= QueueSize - 1
      BY <1>2, <1>10, <2>3
    <3>3. /\ O("HEADER") \in Nat /\ O("BODY") \in Nat /\ O("DATA") \in Nat
          /\ O2("HEADER") \in Nat /\ O2("BODY") \in Nat /\ O2("DATA") \in Nat
      BY <2>6 DEF Tags
    <3> QED
      BY <1>10, <2>4, <2>5, <3>1, <3>2, <3>3
  <2> QED
    BY <2>7 DEF QueueOf, O2
<1>15. ClientOf(c)'
  <2>1. (\A t \in Tags : Content(c, t, channel[c][t], Taken(c, t)))'
    BY <1>2, <1>13, FixedRounds
  <2>2. reduced'[c] \in 0 .. Iterations
    BY <1>2, <1>4 DEF ClientOf
  <2> QED
    BY <1>5, <1>14, <2>1, <2>2 DEF ClientOf
<1> QED
  BY <1>2, <1>11, <1>12, <1>13, <1>15, OneClient

(* A client calls MPI_Allreduce in an iteration only.                      *)
LEMMA AllreduceLemma ==
  ASSUME ClientInv, NEW c \in Proc, Busy(c), Todo(c).kind = "ALLREDUCE"
  PROVE  0 <= turn[c] /\ turn[c] < Rounds /\ Todo(c).tag = "none"
<1> DEFINE t == turn[c]
           m == made[c]
           last == ~ (m + 1 < Len(Program(t)))
           u == IF last THEN t + 1 ELSE t
           n == IF last THEN 0 ELSE m + 1
<1>1. TurnOK(t, m) /\ t <= Rounds
  BY DEF ClientInv, ClientOf, Busy
<1>2. IF m + 1 < Len(Program(t)) THEN n = m + 1 /\ u = t ELSE n = 0 /\ u = t + 1
  OBVIOUS
<1>3. CallAt(t, m) = Todo(c)
  BY DEF CallAt, Todo
<1> HIDE DEF t, m, last, u, n
<1>4. CallAt(t, m).kind = "ALLREDUCE" => 0 <= t /\ t < Rounds /\ CallAt(t, m).tag = "none"
  BY <1>1, <1>2, CallLemma
<1> QED
  BY <1>3, <1>4 DEF t

(* A client comes to MPI_Allreduce of Client::EndIteration.                *)
LEMMA Enters ==
  ASSUME ClientInv, NEW c \in Proc, EnterAllreduce(c)
  PROVE  ClientInv' /\ \A p \in Proc, t \in Tags : Taken(p, t)' = Taken(p, t)
<1>1. /\ Busy(c) /\ Todo(c).kind = "ALLREDUCE" /\ reduced[c] = turn[c]
      /\ reduced' = [reduced EXCEPT ![c] = reduced[c] + 1]
      /\ finished' = finished /\ asyncCount' = asyncCount
      /\ turn' = turn /\ made' = made /\ channel' = channel
      /\ config' = config
  BY DEF EnterAllreduce, InAllreduce, startupVars
<1>2. Proc' = Proc
  BY <1>1, FixedLemma
<1>3. ClientTypes /\ ClientOf(c)
  BY DEF ClientInv
<1>4. reduced'[c] \in 0 .. Iterations /\ reduced' \in [Proc -> Int]
  <2>1. 0 <= turn[c] /\ turn[c] < Rounds
    BY <1>1, AllreduceLemma
  <2>2. reduced[c] \in Nat /\ Rounds \in Nat /\ Rounds <= Iterations /\ Iterations \in Nat
    BY ClientNumbers
  <2>3. reduced[c] + 1 \in 0 .. Iterations
    BY <1>1, <2>1, <2>2
  <2> QED
    BY <1>1, <1>3, <2>3 DEF ClientTypes
<1>5. ClientTypes'
  BY <1>1, <1>2, <1>3, <1>4 DEF ClientTypes
<1>6. \A p \in Proc : p # c => Alike(p)
  BY <1>1, <1>3 DEF Alike, ClientTypes
<1>7. \A t : Taken(c, t)' = Taken(c, t)
  BY <1>1, FixedRounds DEF Posted, Taken
<1>8. TurnOK(turn[c], made[c])'
  BY <1>1, <1>3, FixedRounds DEF ClientOf
<1>9. (\A t \in Tags : Content(c, t, channel[c][t], Taken(c, t)))'
  BY <1>1, <1>3, <1>7, FixedRounds DEF ClientOf
<1>10. QueueOf(c)'
  BY <1>1, <1>3 DEF QueueOf, ClientOf
<1>11. ClientOf(c)'
  BY <1>4, <1>8, <1>9, <1>10 DEF ClientOf
<1> QED
  BY <1>1, <1>5, <1>6, <1>7, <1>11, OneClient

(* A client goes on from it.                                               *)
LEMMA Leaves ==
  ASSUME ClientInv, NEW c \in Proc, LeaveAllreduce(c)
  PROVE  ClientInv' /\ \A p \in Proc, t \in Tags : Taken(p, t)' = Taken(p, t)
<1>1. /\ Busy(c) /\ Todo(c).kind = "ALLREDUCE" /\ Proceed(c)
      /\ reduced' = reduced
      /\ finished' = finished /\ asyncCount' = asyncCount
      /\ channel' = channel
      /\ config' = config
  BY DEF LeaveAllreduce, InAllreduce, startupVars
<1>2. Proc' = Proc
  BY <1>1, FixedLemma
<1>3. ClientTypes /\ ClientOf(c)
  BY DEF ClientInv
<1>4. /\ turn' \in [Proc -> Int] /\ made' \in [Proc -> Int]
      /\ \A p \in Proc : p # c => turn'[p] = turn[p] /\ made'[p] = made[p]
      /\ TurnOK(turn[c], made[c])'
      /\ Todo(c).tag = "none"
      /\ \A t \in Tags : Posted(c, t)'
                           = Posted(c, t) + (IF t = Todo(c).tag THEN 1 ELSE 0)
  BY <1>1, NextOf
<1>5. ClientTypes'
  BY <1>1, <1>2, <1>3, <1>4 DEF ClientTypes
<1>6. \A p \in Proc : p # c => Alike(p)
  BY <1>1, <1>4 DEF Alike
<1>7. \A t \in Tags : Taken(c, t)' = Taken(c, t)
  <2>1. \A t \in Tags : Posted(c, t) \in Int
    BY <1>3, PostedLemma DEF Posted, ClientOf
  <2>2. \A t \in Tags : Posted(c, t)' = Posted(c, t)
    BY <1>4, <2>1 DEF Tags
  <2> QED
    BY <1>1, <2>2 DEF Taken
<1>9. (\A t \in Tags : Content(c, t, channel[c][t], Taken(c, t)))'
  BY <1>1, <1>3, <1>7, FixedRounds DEF ClientOf
<1>10. QueueOf(c)'
  BY <1>1, <1>3 DEF QueueOf, ClientOf
<1>11. ClientOf(c)'
  BY <1>1, <1>3, <1>4, <1>9, <1>10 DEF ClientOf
<1> QED
  BY <1>1, <1>5, <1>6, <1>7, <1>11, OneClient

(* What a server receives next from a client.                              *)
LEMMA Receives ==
  ASSUME ClientInv, NEW c \in Proc, NEW g \in Tags, Receive(c, g)
  PROVE  /\ ClientInv'
         /\ Taken(c, g)' = Taken(c, g) + 1
         /\ \A p \in Proc, t \in Tags : p # c \/ t # g => Taken(p, t)' = Taken(p, t)
         /\ Head(channel[c][g]).client = c
         /\ Fits(g, Head(channel[c][g]).kind, Head(channel[c][g]).k, Taken(c, g) + 1)
<1> DEFINE q == channel[c][g]
<1>1. /\ q # <<>>
      /\ channel' = [channel EXCEPT ![c][g] = Tail(q)]
      /\ finished' = IF Head(q).buffered THEN finished
                     ELSE [finished EXCEPT ![c] = finished[c] + 1]
      /\ config' = config /\ turn' = turn /\ made' = made
      /\ asyncCount' = asyncCount /\ reduced' = reduced
  BY DEF Receive
<1>2. Proc' = Proc
  BY <1>1, FixedLemma
<1>3. ClientTypes /\ ClientOf(c)
  BY DEF ClientInv
<1>4. Content(c, g, q, Taken(c, g)) /\ finished[c] \in Nat /\ asyncCount[c] \in Int
  BY <1>3, ClientNumbers DEF ClientOf
<1> HIDE DEF q
<1>5. /\ Content(c, g, Tail(q), Taken(c, g) + 1)
      /\ Len(q) \in Nat \ {0} /\ Len(Tail(q)) = Len(q) - 1
      /\ Head(q) \in Msg /\ Head(q).client = c
      /\ Fits(g, Head(q).kind, Head(q).k, Taken(c, g) + 1)
      /\ Owed(q) \in Nat /\ Owed(Tail(q)) \in Nat
      /\ Owed(q) = Owed(Tail(q)) + (IF Head(q).buffered THEN 0 ELSE 1)
  BY <1>1, <1>4, TailContent
<1>6. /\ channel' \in [Proc -> [Tags -> Seq(Msg)]]
      /\ channel'[c][g] = Tail(q)
      /\ \A u \in Tags : u # g => channel'[c][u] = channel[c][u]
      /\ \A p \in Proc : p # c => channel'[p] = channel[p]
  <2> DEFINE a == Tail(q)
             f == channel'
  <2>1. channel \in [Proc -> [Tags -> Seq(Msg)]] /\ a \in Seq(Msg)
    BY <1>3, <1>5 DEF ClientTypes, Content
  <2>2. f = [channel EXCEPT ![c][g] = a]
    BY <1>1
  <2> HIDE DEF a, f
  <2>3. /\ f \in [Proc -> [Tags -> Seq(Msg)]]
        /\ f[c][g] = a
        /\ \A u \in Tags : u # g => f[c][u] = channel[c][u]
        /\ \A p \in Proc : p # c => f[p] = channel[p]
    BY <2>1, <2>2, PlaceChanged
  <2> QED
    BY <2>3 DEF a, f
<1>7. /\ finished' \in [Proc -> Int]
      /\ finished'[c] = finished[c] + (IF Head(q).buffered THEN 0 ELSE 1)
      /\ \A p \in Proc : p # c => finished'[p] = finished[p]
  BY <1>1, <1>3, <1>4 DEF ClientTypes
<1>8. ClientTypes'
  BY <1>1, <1>2, <1>3, <1>6, <1>7 DEF ClientTypes
<1>9. \A p \in Proc : p # c => Alike(p)
  BY <1>1, <1>6, <1>7 DEF Alike
<1>10. \A t : Posted(c, t)' = Posted(c, t) /\ Posted(c, t) \in Int
  BY <1>1, <1>3, FixedRounds, PostedLemma DEF Posted, ClientOf
<1>11. Taken(c, g)' = Taken(c, g) + 1
  <2>1. Taken(c, g) = Posted(c, g) - Len(q)
    BY DEF Taken, q
  <2>2. Taken(c, g)' = Posted(c, g)' - Len(Tail(q))
    BY <1>6 DEF Taken
  <2> QED
    BY <1>5, <1>10, <2>1, <2>2
<1>12. \A t \in Tags : t # g => Taken(c, t)' = Taken(c, t)
  BY <1>6, <1>10 DEF Taken
<1>13. (\A t \in Tags : Content(c, t, channel[c][t], Taken(c, t)))'
  <2>1. ASSUME NEW t \in Tags
        PROVE  Content(c, t, channel'[c][t], Taken(c, t)')
    <3>1. CASE t = g
      BY <1>5, <1>6, <1>11, <3>1
    <3>2. CASE t # g
      BY <1>3, <1>6, <1>12, <3>2 DEF ClientOf
    <3> QED
      BY <3>1, <3>2
  <2> QED
    BY <1>1, <2>1, FixedRounds
<1>14. TurnOK(turn[c], made[c])'
  BY <1>1, <1>3, FixedRounds DEF ClientOf
<1>15. QueueOf(c)'
  <2> DEFINE O(t) == Owed(channel[c][t])
             O2(t) == Owed(channel'[c][t])
             d == IF Head(q).buffered THEN 0 ELSE 1
  <2>1. \A t \in Tags : O(t) \in Nat
    BY ClientNumbers
  <2>2. O(g) = O2(g) + d /\ O2(g) \in Nat
    BY <1>5, <1>6 DEF q
  <2>3. \A t \in Tags : t # g => O2(t) = O(t)
    BY <1>6
  <2>4. /\ asyncCount[c] = finished[c] + O("HEADER") + O("BODY") + O("DATA")
        /\ asyncCount[c] <= QueueSize - 1
    BY <1>3 DEF QueueOf, ClientOf
  <2>5. finished'[c] = finished[c] + d /\ d \in Nat /\ asyncCount'[c] = asyncCount[c]
    BY <1>1, <1>7
  <2> HIDE DEF O, O2, d
  <2>6. O2("HEADER") + O2("BODY") + O2("DATA") + d = O("HEADER") + O("BODY") + O("DATA")
    BY <2>1, <2>2, <2>3, <2>5 DEF Tags
  <2>7. /\ O("HEADER") \in Nat /\ O("BODY") \in Nat /\ O("DATA") \in Nat
        /\ O2("HEADER") \in Nat /\ O2("BODY") \in Nat /\ O2("DATA") \in Nat
    BY <2>1, <2>2, <2>3 DEF Tags
  <2>8. /\ finished'[c] \in Nat /\ asyncCount'[c] <= QueueSize - 1
        /\ asyncCount'[c] = finished'[c] + O2("HEADER") + O2("BODY") + O2("DATA")
    BY <1>4, <2>4, <2>5, <2>6, <2>7
  <2> QED
    BY <2>8 DEF QueueOf, O2
<1>16. ClientOf(c)'
  BY <1>1, <1>3, <1>13, <1>14, <1>15 DEF ClientOf
<1>17. /\ ClientInv'
       /\ \A p \in Proc, t \in Tags : p # c => Taken(p, t)' = Taken(p, t)
  BY <1>1, <1>8, <1>9, <1>16, OneClient
<1> QED
  BY <1>5, <1>11, <1>12, <1>17 DEF q
----------------------------------------------------------------------------
(* A job that is started again begins as the first did.                    *)
LEMMA FirstAgain == Restart => AtFirst'
<1> SUFFICES ASSUME Restart
             PROVE  AtFirst'
  OBVIOUS
<1>1. config' = config
  BY DEF Restart, NextJob
<1>2. Proc' = Proc /\ Servers' = Servers /\ \A p : ClientsOf(p)' = ClientsOf(p)
  BY <1>1 DEF Proc, Servers, Clients, ClientsOf, IsClient, DedicatedCores,
         RankInNode, ClientsPerNode, FirstClient, Ratio, ServersPerNode, Node
<1>3. Fresh' = Fresh
  BY <1>2 DEF Fresh
<1>4. /\ turn' = Fresh.turn /\ made' = Fresh.zero /\ channel' = Fresh.channel
      /\ asyncCount' = Fresh.zero /\ finished' = Fresh.zero /\ reduced' = Fresh.zero
      /\ listening' = Fresh.listening /\ handling' = Fresh.handling /\ known' = Fresh.nobody
      /\ ended' = Fresh.nobody /\ arrived' = Fresh.zero /\ released' = Fresh.zero
      /\ stored' = Fresh.nobody /\ stops' = Fresh.nobody
      /\ locks' = Fresh.counts /\ fired' = Fresh.counts
  BY DEF Restart
<1> QED
  BY <1>3, <1>4 DEF AtFirst
----------------------------------------------------------------------------
(* The server.                                                             *)
Handled == [client : Int, awaits : {"none", "BODY", "DATA"},
            kind : {"none", "WRITE", "ACTION"}, k : Int]
Stored == [client : Int, k : Int, from : Int, of : Int]

ServerTypes ==
  /\ listening \in [Proc -> SUBSET Clients] /\ known \in [Proc -> SUBSET Clients]
  /\ ended \in [Proc -> SUBSET Clients] /\ stops \in [Proc -> SUBSET Clients]
  /\ handling \in [Proc -> Handled]
  /\ arrived \in [Proc -> Int] /\ released \in [Proc -> Int]
  /\ stored \in [Proc -> SUBSET Stored]
  /\ locks \in [Proc -> [Steps -> Int]] /\ fired \in [Proc -> [Steps -> Int]]
  /\ \A p \in Proc : \A k \in Steps : locks[p][k] >= 0
  /\ \A p \in Clients : \A k \in Steps : locks[p][k] = 0

(* The iterations of c that the server s has been told the end of.         *)
Wave(s, c) == released[s] + (IF c \in listening[s] THEN 0 ELSE 1)

(* What the server, in the handler of h or in none of c, has taken of what *)
(* c sends: a, b, d of its headers, bodies and data, in the iteration r.   *)
Stage(h, c, r, a, b, d) ==
  \/ h.client # c /\ r = 0 /\ a = 0 /\ b = 0 /\ d = 0
  \/ h.client # c /\ a = 3 * r + 1 /\ b = 2 * r /\ d = r
  \/ h.client # c /\ a = 3 * r + 2 /\ b = 2 * r + 1 /\ d = r + 1 /\ r < Rounds
  \/ h.client # c /\ a = 3 * r + 3 /\ b = 2 * r + 2 /\ d = r + 1 /\ r < Rounds
  \/ h.client # c /\ a = 3 * r + 2 /\ b = 2 * r /\ d = r /\ r = Rounds
  \/ /\ h.client = c /\ h.awaits = "BODY" /\ h.kind = "WRITE"
     /\ a = 3 * r + 2 /\ b = 2 * r /\ d = r /\ r < Rounds
  \/ /\ h.client = c /\ h.awaits = "DATA" /\ h.kind = "WRITE" /\ h.k = r
     /\ a = 3 * r + 2 /\ b = 2 * r + 1 /\ d = r /\ r < Rounds
  \/ /\ h.client = c /\ h.awaits = "BODY" /\ h.kind = "ACTION"
     /\ a = 3 * r + 3 /\ b = 2 * r + 1 /\ d = r + 1 /\ r < Rounds

(* A client is not listened to from the end of its iteration on.           *)
StageOf(s, c) ==
  /\ Wave(s, c) \in Nat
  /\ Stage(handling[s], c, Wave(s, c), Taken(c, "HEADER"), Taken(c, "BODY"), Taken(c, "DATA"))
  /\ c \notin listening[s] => Taken(c, "HEADER") = 3 * Wave(s, c) + 1
  /\ Taken(c, "HEADER") >= 1 => c \in known[s]

HandlingOf(s) == handling[s] = Idle \/ handling[s].client \in ClientsOf(s)

(* Between two waves the server counts the clients that it listens to no   *)
(* more, at one it listens to none.                                        *)
WaveOf(s) ==
  /\ listening[s] \subseteq ClientsOf(s)
  /\ known[s] \subseteq ClientsOf(s)
  /\ released[s] \in Nat
  /\ \/ /\ arrived[s] = released[s] /\ listening[s] # {}
        /\ ended[s] = ClientsOf(s) \ listening[s]
     \/ arrived[s] = released[s] + 1 /\ listening[s] = {} /\ ended[s] = {}

(* The block of an iteration is stored once, from the data of that.        *)
StoredOf(s) ==
  \A b \in stored[s] :
    /\ b.client \in ClientsOf(s) /\ b.from = b.client /\ b.of = b.k
    /\ b.k < Taken(b.client, "DATA")

(* The clients whose signal of iteration k has come.                       *)
Come(s, k) == {c \in ClientsOf(s) : Taken(c, "BODY") >= 2 * k + 2}

GroupOf(s, k) ==
  IF k = 0 THEN locks[s][k] <= Cardinality(Come(s, k))
  ELSE IF Come(s, k) = ClientsOf(s) THEN fired[s][k] = 1 /\ locks[s][k] = 0
  ELSE fired[s][k] = 0 /\ locks[s][k] = Cardinality(Come(s, k))

ServerOK(s) ==
  /\ WaveOf(s)
  /\ HandlingOf(s)
  /\ \A c \in ClientsOf(s) : StageOf(s, c)
  /\ StoredOf(s)
  /\ \A k \in Steps : GroupOf(s, k)

ServerInv == ServerTypes /\ \A s \in Servers : ServerOK(s)

(* Whose clients are whose.                                                *)
LEMMA WhoseLemma ==
  ASSUME Placed
  PROVE  /\ \A s \in Servers : /\ s \in Proc /\ ClientsOf(s) \subseteq Clients
                                /\ ClientsOf(s) # {} /\ IsFiniteSet(ClientsOf(s))
                                /\ s \notin Clients
         /\ Clients \subseteq Proc /\ Proc \subseteq Nat
         /\ IsFiniteSet(Clients)
         /\ \A s, q \in Servers : \A c \in ClientsOf(s) : c \in ClientsOf(q) => s = q
         /\ \A c \in Clients : ServerOf(c) \in Servers /\ c \in ClientsOf(ServerOf(c))
<1>1. PlacementAgrees
  BY Placement
<1>2. Clients \subseteq Proc /\ Servers \subseteq Proc /\ \A s \in Servers : s \notin Clients
  BY DEF Clients, Servers
<1>3. /\ Ratio \in Nat \ {0} /\ config.nodes * config.cores \in Nat
      /\ ClientsPerNode \div ServersPerNode = Ratio
  BY PlacedLemma DEF Ratio
<1>4. Proc \subseteq Nat /\ IsFiniteSet(Proc)
  <2> DEFINE N == config.nodes * config.cores
  <2>1. N \in Nat /\ Proc = 0 .. N - 1
    BY <1>3 DEF Proc
  <2> HIDE DEF N
  <2>2. IsFiniteSet(0 .. N - 1)
    BY <2>1, FS_Interval
  <2> QED
    BY <2>1, <2>2
<1>5. IsFiniteSet(Clients)
  BY <1>2, <1>4, FS_Subset
<1>6. ASSUME NEW s \in Servers
      PROVE  /\ ClientsOf(s) \subseteq Clients /\ ClientsOf(s) # {}
             /\ IsFiniteSet(ClientsOf(s))
             /\ \A c \in ClientsOf(s) : ServerOf(c) = s
  <2>1. /\ Cardinality(ClientsOf(s)) = Ratio
        /\ \A c \in ClientsOf(s) : c \in Clients /\ ServerOf(c) = s
    BY <1>1, <1>3 DEF PlacementAgrees
  <2>2. ClientsOf(s) # {}
    BY <2>1, <1>3, FS_EmptySet
  <2>3. IsFiniteSet(ClientsOf(s))
    BY <2>1, <1>5, FS_Subset
  <2> QED
    BY <2>1, <2>2, <2>3
<1> QED
  BY <1>1, <1>2, <1>4, <1>5, <1>6 DEF PlacementAgrees

(* At the start of a job no server has taken anything.                     *)
LEMMA ServerFirst == Placed /\ AtFirst => ServerInv
<1> SUFFICES ASSUME Placed, AtFirst
             PROVE  ServerInv
  OBVIOUS
<1>1. /\ listening = [p \in Proc |-> IF p \in Servers THEN ClientsOf(p) ELSE {}]
      /\ handling = [p \in Proc |-> Idle]
      /\ known = [p \in Proc |-> {}] /\ ended = [p \in Proc |-> {}]
      /\ stored = [p \in Proc |-> {}] /\ stops = [p \in Proc |-> {}]
      /\ arrived = [p \in Proc |-> 0] /\ released = [p \in Proc |-> 0]
      /\ locks = [p \in Proc |-> [k \in Steps |-> 0]]
      /\ fired = [p \in Proc |-> [k \in Steps |-> 0]]
  BY DEF AtFirst, Fresh
<1>2. \A p \in Proc, t \in Tags : Taken(p, t) = 0
  BY ClientFirst
<1>3. Idle \in Handled /\ Idle.client = -1
  BY DEF Idle, Handled
<1>4. ServerTypes
  <2>1. Clients \subseteq Proc
    BY WhoseLemma
  <2>2. listening \in [Proc -> SUBSET Clients]
    BY <1>1, WhoseLemma
  <2> QED
    BY <1>1, <1>3, <2>1, <2>2 DEF ServerTypes
<1>5. ASSUME NEW s \in Servers
      PROVE  ServerOK(s)
  <2>1. /\ s \in Proc /\ ClientsOf(s) # {} /\ ClientsOf(s) \subseteq Proc
        /\ ClientsOf(s) \subseteq Nat /\ IsFiniteSet(ClientsOf(s))
    BY WhoseLemma
  <2>2. /\ listening[s] = ClientsOf(s) /\ handling[s] = Idle /\ known[s] = {}
        /\ ended[s] = {} /\ stored[s] = {} /\ arrived[s] = 0 /\ released[s] = 0
        /\ \A k \in Steps : locks[s][k] = 0 /\ fired[s][k] = 0
    BY <1>1, <2>1
  <2>3. WaveOf(s) /\ HandlingOf(s) /\ StoredOf(s)
    BY <2>1, <2>2 DEF WaveOf, HandlingOf, StoredOf
  <2>4. ASSUME NEW c \in ClientsOf(s)
        PROVE  StageOf(s, c)
    <3>1. /\ Taken(c, "HEADER") = 0 /\ Taken(c, "BODY") = 0 /\ Taken(c, "DATA") = 0
      BY <1>2, <2>1 DEF Tags
    <3>2. handling[s].client # c /\ Wave(s, c) = 0 /\ c \in listening[s]
      BY <1>3, <2>1, <2>2 DEF Wave
    <3> QED
      BY <3>1, <3>2 DEF StageOf, Stage
  <2>5. ASSUME NEW k \in Steps
        PROVE  GroupOf(s, k)
    <3>1. Come(s, k) = {}
      BY <1>2, <2>1 DEF Come, Steps, Tags
    <3> QED
      BY <2>1, <2>2, <3>1, FS_EmptySet DEF GroupOf
  <2> QED
    BY <2>3, <2>4, <2>5 DEF ServerOK
<1> QED
  BY <1>4, <1>5 DEF ServerInv
----------------------------------------------------------------------------
(* What a step leaves alone of a server.                                   *)
AlikeServer(s) ==
  /\ listening'[s] = listening[s] /\ known'[s] = known[s] /\ ended'[s] = ended[s]
  /\ handling'[s] = handling[s] /\ stored'[s] = stored[s]
  /\ arrived'[s] = arrived[s] /\ released'[s] = released[s]
  /\ locks'[s] = locks[s] /\ fired'[s] = fired[s]

(* The clients of a server are read off the architecture.                  *)
LEMMA FixedClients ==
  ASSUME config' = config
  PROVE  /\ \A s : ClientsOf(s)' = ClientsOf(s)
         /\ \A h, c, r, a, b, d : Stage(h, c, r, a, b, d)' <=> Stage(h, c, r, a, b, d)
         /\ Proc' = Proc /\ Clients' = Clients /\ Servers' = Servers
<1>1. \A s : ClientsOf(s)' = ClientsOf(s)
  BY DEF ClientsOf, DedicatedCores, RankInNode, ClientsPerNode, FirstClient, Ratio,
         ServersPerNode, Node
<1>2. \A h, c, r, a, b, d : Stage(h, c, r, a, b, d)' <=> Stage(h, c, r, a, b, d)
  BY FixedRounds DEF Stage
<1> QED
  BY <1>1, <1>2, FixedLemma

(* What a server has taken of a client stays in order in a step that       *)
(* receives nothing from it.                                               *)
LEMMA StageKept ==
  ASSUME NEW s, NEW c, StageOf(s, c), config' = config,
         released'[s] = released[s], c \in listening'[s] <=> c \in listening[s],
         \/ handling'[s] = handling[s]
         \/ handling'[s].client # c /\ handling[s].client # c,
         known[s] \subseteq known'[s],
         \A t \in Tags : Taken(c, t)' = Taken(c, t)
  PROVE  StageOf(s, c)'
<1>1. Wave(s, c)' = Wave(s, c)
  BY DEF Wave
<1>2. /\ Taken(c, "HEADER")' = Taken(c, "HEADER") /\ Taken(c, "BODY")' = Taken(c, "BODY")
      /\ Taken(c, "DATA")' = Taken(c, "DATA")
  BY DEF Tags
<1>3. Stage(handling'[s], c, Wave(s, c), Taken(c, "HEADER"), Taken(c, "BODY"), Taken(c, "DATA"))
  <2>1. Stage(handling[s], c, Wave(s, c), Taken(c, "HEADER"), Taken(c, "BODY"), Taken(c, "DATA"))
    BY DEF StageOf
  <2>2. CASE handling'[s] = handling[s]
    BY <2>1, <2>2
  <2>3. CASE handling'[s].client # c /\ handling[s].client # c
    BY <2>1, <2>3 DEF Stage
  <2> QED
    BY <2>2, <2>3
<1>4. Stage(handling[s], c, Wave(s, c), Taken(c, "HEADER"), Taken(c, "BODY"), Taken(c, "DATA"))'
  BY <1>1, <1>2, <1>3, FixedClients
<1> QED
  BY <1>1, <1>2, <1>4 DEF StageOf

(* The count of an action of scope group stays right in a step that        *)
(* receives no signal of it.                                               *)
LEMMA GroupKept ==
  ASSUME NEW s, NEW k, GroupOf(s, k), config' = config,
         locks'[s] = locks[s], fired'[s] = fired[s],
         Come(s, k)' = Come(s, k)
  PROVE  GroupOf(s, k)'
<1>1. ClientsOf(s)' = ClientsOf(s)
  BY FixedClients
<1> QED
  BY <1>1 DEF GroupOf

(* The clients whose signal has come stay the same in such a step.         *)
LEMMA ComeKept ==
  ASSUME NEW s, NEW k, config' = config,
         \A c \in ClientsOf(s) : (Taken(c, "BODY") >= 2 * k + 2)' <=> Taken(c, "BODY") >= 2 * k + 2
  PROVE  Come(s, k)' = Come(s, k)
<1>1. ClientsOf(s)' = ClientsOf(s)
  BY FixedClients
<1> QED
  BY <1>1 DEF Come

(* A server that a step leaves alone is as it was.                         *)
LEMMA ServerAlike ==
  ASSUME NEW s \in Servers, ServerOK(s), AlikeServer(s), config' = config,
         \A c \in ClientsOf(s), t \in Tags : Taken(c, t)' = Taken(c, t)
  PROVE  ServerOK(s)'
<1>1. ClientsOf(s)' = ClientsOf(s)
  BY FixedClients
<1>2. WaveOf(s)'
  BY <1>1 DEF ServerOK, AlikeServer, WaveOf
<1>3. HandlingOf(s)'
  BY <1>1 DEF ServerOK, AlikeServer, HandlingOf
<1>4. ASSUME NEW c \in ClientsOf(s)
      PROVE  StageOf(s, c)'
  <2>1. StageOf(s, c)
    BY DEF ServerOK
  <2>2. \A t \in Tags : Taken(c, t)' = Taken(c, t)
    OBVIOUS
  <2> QED
    BY <2>1, <2>2, StageKept DEF AlikeServer
<1>5. StoredOf(s)'
  BY <1>1 DEF ServerOK, AlikeServer, StoredOf, Tags
<1>6. ASSUME NEW k \in Steps
      PROVE  GroupOf(s, k)'
  <2>1. GroupOf(s, k)
    BY DEF ServerOK
  <2>2. Come(s, k)' = Come(s, k)
    BY ComeKept DEF Tags
  <2> QED
    BY <2>1, <2>2, GroupKept DEF AlikeServer
<1> QED
  BY <1>1, <1>2, <1>3, <1>4, <1>5, <1>6 DEF ServerOK

(* A step of one server, and with one of its clients.                      *)
LEMMA OneServer ==
  ASSUME Placed, ServerInv, config' = config, NEW s \in Servers,
         ServerTypes', ServerOK(s)', \A q \in Servers : q # s => AlikeServer(q),
         \A c \in Proc, t \in Tags : c \notin ClientsOf(s) => Taken(c, t)' = Taken(c, t)
  PROVE  ServerInv'
<1>1. Servers' = Servers
  BY FixedClients
<1>2. ASSUME NEW q \in Servers, q # s
      PROVE  ServerOK(q)'
  <2>1. ServerOK(q) /\ AlikeServer(q)
    BY <1>2 DEF ServerInv
  <2>2. \A c \in ClientsOf(q) : c \in Proc /\ c \notin ClientsOf(s)
    BY <1>2, WhoseLemma
  <2> QED
    BY <2>1, <2>2, ServerAlike
<1> QED
  BY <1>1, <1>2 DEF ServerInv

(* The step of a client, or of the start-up.                               *)
LEMMA ServersRest ==
  ASSUME Placed, ServerInv, config' = config, UNCHANGED serverVars,
         \A c \in Proc, t \in Tags : Taken(c, t)' = Taken(c, t)
  PROVE  ServerInv'
<1>1. /\ listening' = listening /\ handling' = handling /\ known' = known
      /\ ended' = ended /\ arrived' = arrived /\ released' = released
      /\ stored' = stored /\ locks' = locks /\ fired' = fired /\ stops' = stops
  BY DEF serverVars, barrierVars
<1>2. Servers' = Servers /\ Proc' = Proc /\ Clients' = Clients
  BY FixedClients
<1>3. ServerTypes'
  BY <1>1, <1>2 DEF ServerInv, ServerTypes
<1>4. ASSUME NEW q \in Servers
      PROVE  ServerOK(q)'
  <2>1. ServerOK(q) /\ AlikeServer(q)
    BY <1>1 DEF ServerInv, AlikeServer
  <2>2. \A c \in ClientsOf(q) : c \in Proc
    BY WhoseLemma
  <2> QED
    BY <2>1, <2>2, ServerAlike
<1> QED
  BY <1>2, <1>3, <1>4 DEF ServerInv
----------------------------------------------------------------------------
(* The numbers of a server and of one of its clients.                      *)
LEMMA StageNow ==
  ASSUME Placed, ClientInv, ServerInv, NEW s \in Servers, NEW c \in ClientsOf(s)
  PROVE  /\ s \in Proc /\ c \in Proc /\ c \in Clients /\ c \in Nat
         /\ Rounds \in Nat /\ Rounds <= Iterations /\ Iterations \in Nat
         /\ ServerTypes /\ ServerOK(s) /\ StageOf(s, c)
         /\ Wave(s, c) \in Nat /\ released[s] \in Nat
         /\ Taken(c, "HEADER") \in Nat /\ Taken(c, "BODY") \in Nat
         /\ Taken(c, "DATA") \in Nat
<1>1. s \in Proc /\ c \in Proc /\ c \in Clients /\ c \in Nat
  BY WhoseLemma
<1>2. ServerTypes /\ ServerOK(s) /\ StageOf(s, c)
  BY DEF ServerInv, ServerOK
<1>3. \A t \in Tags : Taken(c, t) \in Nat
  BY <1>1, ClientNumbers
<1>4. Taken(c, "HEADER") \in Nat /\ Taken(c, "BODY") \in Nat /\ Taken(c, "DATA") \in Nat
  BY <1>3 DEF Tags
<1> QED
  BY <1>1, <1>2, <1>4, ClientNumbers DEF StageOf, ServerOK, WaveOf

(* The header that a server receives is the one its client is at.          *)
HeaderOf(m, r, a, b, d) ==
  \/ m.kind = "CONNECT" /\ r = 0 /\ a = 0 /\ b = 0 /\ d = 0
  \/ m.kind = "WRITE" /\ r < Rounds /\ a = 3 * r + 1 /\ b = 2 * r /\ d = r
  \/ m.kind = "ACTION" /\ r < Rounds /\ a = 3 * r + 2 /\ b = 2 * r + 1 /\ d = r + 1
  \/ m.kind = "NEXT_ITERATION" /\ r < Rounds /\ a = 3 * r + 3 /\ b = 2 * r + 2 /\ d = r + 1
  \/ m.kind = "STOP" /\ r = Rounds /\ a = 3 * r + 1 /\ b = 2 * r /\ d = r

(* The next header of a client that the server is not busy with is one of  *)
(* those its stage allows.                                                 *)
LEMMA FitLemma ==
  ASSUME NEW h, NEW c, h.client # c, NEW m, NEW r \in Nat, NEW a \in Nat, NEW b \in Nat,
         NEW d \in Nat, Stage(h, c, r, a, b, d),
         Fits("HEADER", m.kind, m.k, a + 1)
  PROVE  HeaderOf(m, r, a, b, d)
<1>1. Rounds \in Nat
  BY ProgramLemma
<1>2. CASE m.kind = "CONNECT"
  BY <1>1, <1>2 DEF Stage, Fits, HeaderOf
<1>3. CASE m.kind = "WRITE"
  BY <1>1, <1>3 DEF Stage, Fits, HeaderOf
<1>4. CASE m.kind = "ACTION"
  BY <1>1, <1>4 DEF Stage, Fits, HeaderOf
<1>5. CASE m.kind = "NEXT_ITERATION"
  BY <1>1, <1>5 DEF Stage, Fits, HeaderOf
<1>6. CASE m.kind = "STOP"
  BY <1>1, <1>6 DEF Stage, Fits, HeaderOf
<1> QED
  BY <1>2, <1>3, <1>4, <1>5, <1>6 DEF Fits

(* A server takes a header of a client (Server::Run): what it is.          *)
LEMMA HeaderTaken ==
  ASSUME Placed, ClientInv, ServerInv, NEW s \in Servers, NEW c \in ClientsOf(s),
         NEW kinds, OnHeader(s, c, kinds)
  PROVE  /\ config' = config /\ ClientInv'
         /\ handling[s] = Idle /\ c \in listening[s] /\ handling[s].client = -1
         /\ Wave(s, c) = released[s]
         /\ Taken(c, "HEADER")' = Taken(c, "HEADER") + 1
         /\ Taken(c, "BODY")' = Taken(c, "BODY") /\ Taken(c, "DATA")' = Taken(c, "DATA")
         /\ \A p \in Proc, t \in Tags : p # c \/ t # "HEADER" => Taken(p, t)' = Taken(p, t)
         /\ Head(channel[c]["HEADER"]).kind \in kinds
         /\ HeaderOf(Head(channel[c]["HEADER"]), released[s], Taken(c, "HEADER"),
                     Taken(c, "BODY"), Taken(c, "DATA"))
<1> DEFINE m == Head(channel[c]["HEADER"])
<1>1. /\ Receive(c, "HEADER") /\ handling[s] = Idle /\ c \in listening[s]
      /\ m.kind \in kinds
  BY DEF OnHeader
<1>2. config' = config
  BY <1>1 DEF Receive
<1>3. c \in Proc /\ "HEADER" \in Tags /\ "BODY" \in Tags /\ "DATA" \in Tags
  BY StageNow DEF Tags
<1>4. /\ ClientInv'
      /\ Taken(c, "HEADER")' = Taken(c, "HEADER") + 1
      /\ \A p \in Proc, t \in Tags : p # c \/ t # "HEADER" => Taken(p, t)' = Taken(p, t)
      /\ Fits("HEADER", m.kind, m.k, Taken(c, "HEADER") + 1)
  BY <1>1, <1>3, Receives
<1>5. Taken(c, "BODY")' = Taken(c, "BODY") /\ Taken(c, "DATA")' = Taken(c, "DATA")
  BY <1>3, <1>4
<1>6. handling[s].client = -1 /\ handling[s].client # c
  BY <1>1, StageNow DEF Idle
<1>7. Wave(s, c) = released[s]
  BY <1>1, StageNow DEF Wave
<1>8. /\ Stage(handling[s], c, released[s], Taken(c, "HEADER"), Taken(c, "BODY"),
               Taken(c, "DATA"))
      /\ released[s] \in Nat /\ Taken(c, "HEADER") \in Nat
      /\ Taken(c, "BODY") \in Nat /\ Taken(c, "DATA") \in Nat
  BY <1>7, StageNow DEF StageOf
<1> HIDE DEF m
<1>9. HeaderOf(m, released[s], Taken(c, "HEADER"), Taken(c, "BODY"), Taken(c, "DATA"))
  BY <1>4, <1>6, <1>8, FitLemma
<1> QED
  BY <1>1, <1>2, <1>4, <1>5, <1>6, <1>7, <1>9 DEF m

(* What a header leaves alone: what the server has stored and counted, and *)
(* what it has of its other clients.                                       *)
LEMMA HeaderKeeps ==
  ASSUME Placed, ClientInv, ServerInv, NEW s \in Servers, NEW c \in ClientsOf(s),
         NEW kinds, OnHeader(s, c, kinds),
         stored' = stored, locks' = locks, fired' = fired, released' = released,
         \A q \in Proc : q # s => /\ listening'[q] = listening[q] /\ known'[q] = known[q]
                                 /\ ended'[q] = ended[q] /\ handling'[q] = handling[q]
                                 /\ arrived'[q] = arrived[q],
         \A x : x # c => (x \in listening'[s] <=> x \in listening[s]),
         handling'[s].client \in {-1, c}, known[s] \subseteq known'[s],
         WaveOf(s)', HandlingOf(s)', StageOf(s, c)', ServerTypes'
  PROVE  ServerInv'
<1>1. /\ config' = config /\ handling[s].client = -1
      /\ \A p \in Proc, t \in Tags : p # c \/ t # "HEADER" => Taken(p, t)' = Taken(p, t)
  BY HeaderTaken
<1>2. ServerOK(s) /\ s \in Proc /\ c \in Nat
  BY StageNow
<1>3. ClientsOf(s)' = ClientsOf(s) /\ ClientsOf(s) \subseteq Nat /\ ClientsOf(s) \subseteq Proc
  BY <1>1, FixedClients, WhoseLemma
<1>4. ASSUME NEW x \in ClientsOf(s), x # c
      PROVE  StageOf(s, x)'
  <2>1. StageOf(s, x)
    BY <1>2 DEF ServerOK
  <2>2. handling'[s].client # x /\ handling[s].client # x
    BY <1>1, <1>3, <1>4
  <2>3. released'[s] = released[s] /\ (x \in listening'[s] <=> x \in listening[s])
    BY <1>4
  <2>4. \A t \in Tags : Taken(x, t)' = Taken(x, t)
    BY <1>1, <1>3, <1>4
  <2> QED
    BY <1>1, <2>1, <2>2, <2>3, <2>4, StageKept
<1>5. \A x \in ClientsOf(s) : StageOf(s, x)'
  BY <1>4
<1>6. \A x \in ClientsOf(s) : /\ Taken(x, "BODY")' = Taken(x, "BODY")
                              /\ Taken(x, "DATA")' = Taken(x, "DATA")
  BY <1>1, <1>3 DEF Tags
<1>7. StoredOf(s)'
  BY <1>2, <1>3, <1>6 DEF StoredOf, ServerOK
<1>8. ASSUME NEW k \in Steps
      PROVE  GroupOf(s, k)'
  <2>1. GroupOf(s, k)
    BY <1>2 DEF ServerOK
  <2>2. Come(s, k)' = Come(s, k)
    BY <1>1, <1>6, ComeKept
  <2> QED
    BY <1>1, <2>1, <2>2, GroupKept
<1>9. ServerOK(s)'
  BY <1>3, <1>5, <1>7, <1>8 DEF ServerOK
<1>10. \A q \in Servers : q # s => AlikeServer(q)
  BY WhoseLemma DEF AlikeServer
<1>11. \A x \in Proc, t \in Tags : x \notin ClientsOf(s) => Taken(x, t)' = Taken(x, t)
  BY <1>1
<1> QED
  BY <1>1, <1>9, <1>10, <1>11, OneServer

(* Server::OnConnect.                                                      *)
LEMMA Connects ==
  ASSUME Placed, ClientInv, ServerInv, NEW s \in Servers, NEW c \in ClientsOf(s),
         OnConnect(s, c)
  PROVE  ServerInv'
<1>1. /\ OnHeader(s, c, {"CONNECT"})
      /\ known' = [known EXCEPT ![s] = known[s] \cup {c}]
      /\ listening' = listening /\ handling' = handling /\ ended' = ended
      /\ arrived' = arrived /\ released' = released /\ stored' = stored
      /\ locks' = locks /\ fired' = fired /\ stops' = stops
  BY DEF OnConnect, barrierVars
<1>2. /\ config' = config /\ handling[s] = Idle /\ c \in listening[s] /\ handling[s].client = -1
      /\ Wave(s, c) = released[s]
      /\ Taken(c, "HEADER")' = Taken(c, "HEADER") + 1
      /\ Taken(c, "BODY")' = Taken(c, "BODY") /\ Taken(c, "DATA")' = Taken(c, "DATA")
      /\ Head(channel[c]["HEADER"]).kind = "CONNECT"
      /\ HeaderOf(Head(channel[c]["HEADER"]), released[s], Taken(c, "HEADER"),
                  Taken(c, "BODY"), Taken(c, "DATA"))
  BY <1>1, HeaderTaken
<1>3. /\ s \in Proc /\ c \in Clients /\ c \in Nat /\ ServerTypes /\ ServerOK(s)
  BY StageNow
<1>4. /\ released[s] = 0 /\ Taken(c, "HEADER") = 0 /\ Taken(c, "BODY") = 0
      /\ Taken(c, "DATA") = 0
  BY <1>2 DEF HeaderOf
<1>5. /\ known'[s] = known[s] \cup {c} /\ known' \in [Proc -> SUBSET Clients]
      /\ \A q \in Proc : q # s => known'[q] = known[q]
  BY <1>1, <1>3 DEF ServerTypes
<1>6. ServerTypes'
  <2>1. Proc' = Proc /\ Clients' = Clients
    BY <1>2, FixedClients
  <2> QED
    BY <1>1, <1>3, <1>5, <2>1 DEF ServerTypes
<1>7. WaveOf(s)' /\ HandlingOf(s)'
  <2>1. ClientsOf(s)' = ClientsOf(s)
    BY <1>2, FixedClients
  <2> QED
    BY <1>1, <1>3, <1>5, <2>1 DEF WaveOf, HandlingOf, ServerOK
<1>8. StageOf(s, c)'
  <2>1. Wave(s, c)' = 0
    BY <1>1, <1>2, <1>4 DEF Wave
  <2>2. Stage(handling[s], c, 0, 1, 0, 0)
    BY <1>2, <1>3 DEF Stage
  <2>3. (Stage(handling[s], c, Wave(s, c), Taken(c, "HEADER"), Taken(c, "BODY"),
               Taken(c, "DATA")))'
    BY <1>1, <1>2, <1>4, <2>1, <2>2, FixedClients
  <2> QED
    BY <1>1, <1>2, <1>5, <2>1, <2>3 DEF StageOf
<1>9. handling'[s].client \in {-1, c} /\ known[s] \subseteq known'[s]
  BY <1>1, <1>2, <1>5
<1> QED
  BY <1>1, <1>5, <1>6, <1>7, <1>8, <1>9, HeaderKeeps
----------------------------------------------------------------------------
(* The header of a call or of a block: the server goes on to wait for the  *)
(* body from the same client.                                              *)
LEMMA HeadersOfBody ==
  ASSUME Placed, ClientInv, ServerInv, NEW s \in Servers, NEW c \in ClientsOf(s),
         OnHeaderOfBody(s, c)
  PROVE  ServerInv'
<1> DEFINE m == Head(channel[c]["HEADER"])
<1>1. PICK h : h = [client |-> c, awaits |-> "BODY", kind |-> m.kind, k |-> 0]
  OBVIOUS
<1>2. /\ OnHeader(s, c, {"WRITE", "ACTION"})
      /\ handling' = [handling EXCEPT ![s] = h]
      /\ listening' = listening /\ known' = known /\ ended' = ended
      /\ arrived' = arrived /\ released' = released /\ stored' = stored
      /\ locks' = locks /\ fired' = fired /\ stops' = stops
  BY <1>1 DEF OnHeaderOfBody, barrierVars
<1>3. /\ config' = config /\ c \in listening[s] /\ handling[s].client = -1
      /\ Wave(s, c) = released[s]
      /\ Taken(c, "HEADER")' = Taken(c, "HEADER") + 1
      /\ Taken(c, "BODY")' = Taken(c, "BODY") /\ Taken(c, "DATA")' = Taken(c, "DATA")
      /\ m.kind \in {"WRITE", "ACTION"}
      /\ HeaderOf(m, released[s], Taken(c, "HEADER"), Taken(c, "BODY"), Taken(c, "DATA"))
  BY <1>2, HeaderTaken
<1> HIDE DEF m
<1>4. /\ s \in Proc /\ c \in Clients /\ c \in Nat /\ ServerTypes /\ ServerOK(s)
      /\ StageOf(s, c) /\ released[s] \in Nat /\ Rounds \in Nat
  BY StageNow
<1>5. /\ h.client = c /\ h.awaits = "BODY" /\ h.kind = m.kind /\ h \in Handled
  BY <1>1, <1>3, <1>4 DEF Handled
<1>6. /\ handling'[s] = h /\ handling' \in [Proc -> Handled]
      /\ \A q \in Proc : q # s => handling'[q] = handling[q]
  BY <1>2, <1>4, <1>5 DEF ServerTypes
<1>7. ServerTypes'
  <2>1. Proc' = Proc /\ Clients' = Clients
    BY <1>3, FixedClients
  <2> QED
    BY <1>2, <1>4, <1>6, <2>1 DEF ServerTypes
<1>8. WaveOf(s)' /\ HandlingOf(s)'
  <2>1. ClientsOf(s)' = ClientsOf(s)
    BY <1>3, FixedClients
  <2> QED
    BY <1>2, <1>4, <1>5, <1>6, <2>1 DEF WaveOf, HandlingOf, ServerOK
<1>9. StageOf(s, c)'
  <2>1. Wave(s, c)' = released[s]
    BY <1>2, <1>3 DEF Wave
  <2>2. Stage(h, c, released[s], Taken(c, "HEADER") + 1, Taken(c, "BODY"), Taken(c, "DATA"))
    BY <1>3, <1>4, <1>5 DEF Stage, HeaderOf
  <2>3. (Stage(handling[s], c, Wave(s, c), Taken(c, "HEADER"), Taken(c, "BODY"),
               Taken(c, "DATA")))'
    BY <1>3, <1>6, <2>1, <2>2, FixedClients
  <2>4. Taken(c, "HEADER") >= 1
    <3>1. \/ Taken(c, "HEADER") = 3 * released[s] + 1
          \/ Taken(c, "HEADER") = 3 * released[s] + 2
      BY <1>3 DEF HeaderOf
    <3> QED
      BY <1>4, <3>1
  <2>5. c \in known[s]
    BY <1>4, <2>4 DEF StageOf
  <2> QED
    BY <1>2, <1>3, <1>4, <2>1, <2>3, <2>5 DEF StageOf
<1>10. handling'[s].client \in {-1, c}
  BY <1>5, <1>6
<1> QED
  BY <1>2, <1>6, <1>7, <1>8, <1>9, <1>10, HeaderKeeps

(* The last client to end the iteration takes the server to the barrier,   *)
(* and no other does.                                                      *)
LEMMA EndsIteration ==
  ASSUME Placed, ClientInv, ServerInv, NEW s \in Servers, NEW c \in ClientsOf(s),
         OnNextIteration(s, c)
  PROVE  ServerInv'
<1> DEFINE last == ended[s] \cup {c} = ClientsOf(s)
<1>1. /\ OnHeader(s, c, {"NEXT_ITERATION"})
      /\ listening' = [listening EXCEPT ![s] = listening[s] \ {c}]
      /\ ended' = [ended EXCEPT ![s] = IF last THEN {} ELSE ended[s] \cup {c}]
      /\ arrived' = IF last THEN [arrived EXCEPT ![s] = arrived[s] + 1] ELSE arrived
      /\ handling' = handling /\ known' = known /\ released' = released /\ stored' = stored
      /\ locks' = locks /\ fired' = fired /\ stops' = stops
  BY DEF OnNextIteration, LastToEnd
<1>2. /\ config' = config /\ c \in listening[s] /\ handling[s].client = -1
      /\ Wave(s, c) = released[s]
      /\ Taken(c, "HEADER")' = Taken(c, "HEADER") + 1
      /\ Taken(c, "BODY")' = Taken(c, "BODY") /\ Taken(c, "DATA")' = Taken(c, "DATA")
      /\ Head(channel[c]["HEADER"]).kind = "NEXT_ITERATION"
      /\ HeaderOf(Head(channel[c]["HEADER"]), released[s], Taken(c, "HEADER"),
                  Taken(c, "BODY"), Taken(c, "DATA"))
  BY <1>1, HeaderTaken
<1>3. /\ s \in Proc /\ c \in Clients /\ c \in Nat /\ ServerTypes /\ ServerOK(s)
      /\ StageOf(s, c) /\ released[s] \in Nat /\ Rounds \in Nat
  BY StageNow
<1>4. /\ released[s] < Rounds /\ Taken(c, "HEADER") = 3 * released[s] + 3
      /\ Taken(c, "BODY") = 2 * released[s] + 2 /\ Taken(c, "DATA") = released[s] + 1
  BY <1>2 DEF HeaderOf
<1>5. /\ listening'[s] = listening[s] \ {c} /\ listening' \in [Proc -> SUBSET Clients]
      /\ \A q \in Proc : q # s => listening'[q] = listening[q]
  BY <1>1, <1>3 DEF ServerTypes
<1>6. /\ ended'[s] = (IF last THEN {} ELSE ended[s] \cup {c}) /\ ended' \in [Proc -> SUBSET Clients]
      /\ \A q \in Proc : q # s => ended'[q] = ended[q]
  BY <1>1, <1>3 DEF ServerTypes
<1>7. /\ arrived'[s] = (IF last THEN arrived[s] + 1 ELSE arrived[s]) /\ arrived' \in [Proc -> Int]
      /\ \A q \in Proc : q # s => arrived'[q] = arrived[q]
  BY <1>1, <1>3 DEF ServerTypes
<1>8. ServerTypes'
  <2>1. Proc' = Proc /\ Clients' = Clients
    BY <1>2, FixedClients
  <2> QED
    BY <1>1, <1>3, <1>5, <1>6, <1>7, <2>1 DEF ServerTypes
<1>9. WaveOf(s)' /\ HandlingOf(s)'
  <2>1. ClientsOf(s)' = ClientsOf(s)
    BY <1>2, FixedClients
  <2>2. WaveOf(s) /\ HandlingOf(s)
    BY <1>3 DEF ServerOK
  <2>3. arrived[s] = released[s] /\ ended[s] = ClientsOf(s) \ listening[s]
    BY <1>2, <2>2 DEF WaveOf
  <2>4. listening[s] \subseteq ClientsOf(s)
    BY <2>2 DEF WaveOf
  <2>5. last => listening'[s] = {}
    BY <1>5, <2>3, <2>4
  <2>6. ~ last => listening'[s] # {} /\ ended'[s] = ClientsOf(s) \ listening'[s]
    BY <1>2, <1>5, <1>6, <2>3, <2>4
  <2>7. WaveOf(s)'
    BY <1>1, <1>5, <1>6, <1>7, <2>1, <2>2, <2>3, <2>5, <2>6 DEF WaveOf
  <2> QED
    BY <1>1, <2>1, <2>2, <2>7 DEF HandlingOf
<1>10. StageOf(s, c)'
  <2>1. Wave(s, c)' = released[s] + 1
    BY <1>1, <1>5 DEF Wave
  <2>2. Stage(handling[s], c, released[s] + 1, Taken(c, "HEADER") + 1, Taken(c, "BODY"),
              Taken(c, "DATA"))
    BY <1>2, <1>3, <1>4 DEF Stage
  <2>3. (Stage(handling[s], c, Wave(s, c), Taken(c, "HEADER"), Taken(c, "BODY"),
               Taken(c, "DATA")))'
    BY <1>1, <1>2, <2>1, <2>2, FixedClients
  <2>4. c \in known[s]
    BY <1>3, <1>4 DEF StageOf
  <2>5. Taken(c, "HEADER")' = 3 * (released[s] + 1) + 1
    BY <1>2, <1>3, <1>4
  <2> QED
    BY <1>1, <1>3, <2>1, <2>3, <2>4, <2>5 DEF StageOf
<1>11. \A x : x # c => (x \in listening'[s] <=> x \in listening[s])
  BY <1>5
<1>12. handling'[s].client \in {-1, c} /\ known[s] \subseteq known'[s]
  BY <1>1, <1>2
<1> QED
  BY <1>1, <1>5, <1>6, <1>7, <1>8, <1>9, <1>10, <1>11, <1>12, HeaderKeeps

(* A client's STOP is the last of its headers.                             *)
LEMMA Stops ==
  ASSUME Placed, ClientInv, ServerInv, NEW s \in Servers, NEW c \in ClientsOf(s),
         OnStop(s, c)
  PROVE  ServerInv'
<1>1. /\ OnHeader(s, c, {"STOP"})
      /\ stops' = [stops EXCEPT ![s] = stops[s] \cup {c}]
      /\ listening' = listening /\ handling' = handling /\ known' = known /\ ended' = ended
      /\ arrived' = arrived /\ released' = released /\ stored' = stored
      /\ locks' = locks /\ fired' = fired
  BY DEF OnStop, barrierVars
<1>2. /\ config' = config /\ c \in listening[s] /\ handling[s].client = -1
      /\ Wave(s, c) = released[s]
      /\ Taken(c, "HEADER")' = Taken(c, "HEADER") + 1
      /\ Taken(c, "BODY")' = Taken(c, "BODY") /\ Taken(c, "DATA")' = Taken(c, "DATA")
      /\ Head(channel[c]["HEADER"]).kind = "STOP"
      /\ HeaderOf(Head(channel[c]["HEADER"]), released[s], Taken(c, "HEADER"),
                  Taken(c, "BODY"), Taken(c, "DATA"))
  BY <1>1, HeaderTaken
<1>3. /\ s \in Proc /\ c \in Clients /\ c \in Nat /\ ServerTypes /\ ServerOK(s)
      /\ StageOf(s, c) /\ released[s] \in Nat /\ Rounds \in Nat
  BY StageNow
<1>4. /\ released[s] = Rounds /\ Taken(c, "HEADER") = 3 * released[s] + 1
      /\ Taken(c, "BODY") = 2 * released[s] /\ Taken(c, "DATA") = released[s]
  BY <1>2 DEF HeaderOf
<1>5. ServerTypes'
  <2>1. Proc' = Proc /\ Clients' = Clients
    BY <1>2, FixedClients
  <2>2. stops' \in [Proc -> SUBSET Clients]
    BY <1>1, <1>3 DEF ServerTypes
  <2> QED
    BY <1>1, <1>3, <2>1, <2>2 DEF ServerTypes
<1>6. WaveOf(s)' /\ HandlingOf(s)'
  <2>1. ClientsOf(s)' = ClientsOf(s)
    BY <1>2, FixedClients
  <2> QED
    BY <1>1, <1>3, <2>1 DEF WaveOf, HandlingOf, ServerOK
<1>7. StageOf(s, c)'
  <2>1. Wave(s, c)' = released[s]
    BY <1>1, <1>2 DEF Wave
  <2>2. Stage(handling[s], c, released[s], Taken(c, "HEADER") + 1, Taken(c, "BODY"),
              Taken(c, "DATA"))
    BY <1>2, <1>3, <1>4 DEF Stage
  <2>3. (Stage(handling[s], c, Wave(s, c), Taken(c, "HEADER"), Taken(c, "BODY"),
               Taken(c, "DATA")))'
    BY <1>1, <1>2, <2>1, <2>2, FixedClients
  <2>4. c \in known[s]
    BY <1>3, <1>4 DEF StageOf
  <2> QED
    BY <1>1, <1>2, <1>3, <2>1, <2>3, <2>4 DEF StageOf
<1>8. handling'[s].client \in {-1, c}
  BY <1>1, <1>2
<1> QED
  BY <1>1, <1>5, <1>6, <1>7, <1>8, HeaderKeeps
----------------------------------------------------------------------------
(* A body or data, received in the handler of a header of c.               *)
LEMMA BodyKeeps ==
  ASSUME Placed, ClientInv, ServerInv, NEW s \in Servers, NEW c \in ClientsOf(s),
         NEW g \in {"BODY", "DATA"}, Receive(c, g), handling[s].client = c,
         NEW h \in Handled, h = Idle \/ h.client = c, handling' = [handling EXCEPT ![s] = h],
         UNCHANGED <<listening, known, ended, arrived, released, stops>>,
         stored' \in [Proc -> SUBSET Stored],
         locks' \in [Proc -> [Steps -> Int]], fired' \in [Proc -> [Steps -> Int]],
         \A k \in Steps : locks'[s][k] >= 0,
         \A q \in Proc : q # s => /\ stored'[q] = stored[q] /\ locks'[q] = locks[q]
                                  /\ fired'[q] = fired[q],
         StageOf(s, c)', StoredOf(s)', \A k \in Steps : GroupOf(s, k)'
  PROVE  ServerInv'
<1>1. /\ config' = config /\ g \in Tags
      /\ listening' = listening /\ known' = known /\ ended' = ended
      /\ arrived' = arrived /\ released' = released /\ stops' = stops
  BY DEF Receive, Tags
<1>2. /\ s \in Proc /\ c \in Proc /\ c \in Nat /\ ServerTypes /\ ServerOK(s) /\ s \notin Clients
  BY StageNow, WhoseLemma
<1>3. \A p \in Proc, t \in Tags : p # c => Taken(p, t)' = Taken(p, t)
  BY <1>1, <1>2, Receives
<1>4. /\ ClientsOf(s)' = ClientsOf(s) /\ ClientsOf(s) \subseteq Nat
      /\ ClientsOf(s) \subseteq Proc /\ Proc' = Proc /\ Clients' = Clients /\ Clients \subseteq Proc
  BY <1>1, FixedClients, WhoseLemma
<1>5. /\ handling'[s] = h /\ handling' \in [Proc -> Handled]
      /\ \A q \in Proc : q # s => handling'[q] = handling[q]
  BY <1>2 DEF ServerTypes
<1>6. ServerTypes'
  <2>1. \A p \in Proc : \A k \in Steps : locks'[p][k] >= 0
    BY <1>2 DEF ServerTypes
  <2>2. \A p \in Clients : \A k \in Steps : locks'[p][k] = 0
    BY <1>2, <1>4 DEF ServerTypes
  <2> QED
    BY <1>1, <1>2, <1>4, <1>5, <2>1, <2>2 DEF ServerTypes
<1>7. h.client \in {-1, c}
  BY DEF Idle
<1>8. WaveOf(s)' /\ HandlingOf(s)'
  BY <1>1, <1>2, <1>4, <1>5, <1>7 DEF WaveOf, HandlingOf, ServerOK
<1>9. ASSUME NEW x \in ClientsOf(s), x # c
      PROVE  StageOf(s, x)'
  <2>1. StageOf(s, x)
    BY <1>2 DEF ServerOK
  <2>2. handling'[s].client # x /\ handling[s].client # x
    BY <1>4, <1>5, <1>7, <1>9
  <2>3. \A t \in Tags : Taken(x, t)' = Taken(x, t)
    BY <1>3, <1>4, <1>9
  <2> QED
    BY <1>1, <2>1, <2>2, <2>3, StageKept
<1>10. \A x \in ClientsOf(s) : StageOf(s, x)'
  BY <1>9
<1>11. ServerOK(s)'
  BY <1>4, <1>8, <1>10 DEF ServerOK
<1>12. \A q \in Servers : q # s => AlikeServer(q)
  BY <1>1, <1>5, WhoseLemma DEF AlikeServer
<1>13. \A x \in Proc, t \in Tags : x \notin ClientsOf(s) => Taken(x, t)' = Taken(x, t)
  BY <1>3
<1> QED
  BY <1>1, <1>6, <1>11, <1>12, <1>13, OneServer

(* Whom the server is in a handler of.                                     *)
LEMMA HandlerOf ==
  ASSUME Placed, ClientInv, ServerInv, NEW s \in Servers, handling[s].awaits # "none"
  PROVE  handling[s].client \in ClientsOf(s)
  BY DEF ServerInv, ServerOK, HandlingOf, Idle

(* The body that follows the header of a block: it is of that block.       *)
LEMMA WriteBodies ==
  ASSUME Placed, ClientInv, ServerInv, NEW s \in Servers, OnWriteBody(s)
  PROVE  ServerInv'
<1>1. PICK c : c = handling[s].client
  OBVIOUS
<1>2. PICK k : k = Head(channel[c]["BODY"]).k
  OBVIOUS
<1>3. /\ handling[s].awaits = "BODY" /\ handling[s].kind = "WRITE" /\ Receive(c, "BODY")
      /\ handling' = [handling EXCEPT ![s] = IF Exists(s, c, k) THEN Idle
                       ELSE [handling[s] EXCEPT !.awaits = "DATA", !.k = k]]
      /\ listening' = listening /\ known' = known /\ ended' = ended
      /\ arrived' = arrived /\ released' = released /\ stored' = stored
      /\ locks' = locks /\ fired' = fired /\ stops' = stops
  BY <1>1, <1>2 DEF OnWriteBody, barrierVars
<1>4. c \in ClientsOf(s)
  BY <1>1, <1>3, HandlerOf
<1>5. /\ s \in Proc /\ c \in Proc /\ c \in Clients /\ c \in Nat
      /\ ServerTypes /\ ServerOK(s) /\ StageOf(s, c) /\ Wave(s, c) \in Nat
      /\ Rounds \in Nat /\ Rounds <= Iterations
      /\ Taken(c, "HEADER") \in Nat /\ Taken(c, "BODY") \in Nat /\ Taken(c, "DATA") \in Nat
  BY <1>4, StageNow
<1>6. PICK r \in Nat : r = Wave(s, c)
  BY <1>5
<1>7. /\ r < Rounds /\ Taken(c, "HEADER") = 3 * r + 2 /\ Taken(c, "BODY") = 2 * r
      /\ Taken(c, "DATA") = r
  BY <1>1, <1>3, <1>5, <1>6 DEF StageOf, Stage
<1>8. config' = config
  BY <1>3 DEF Receive
<1>9. /\ Taken(c, "BODY")' = 2 * r + 1
      /\ \A p \in Proc, t \in Tags : p # c \/ t # "BODY" => Taken(p, t)' = Taken(p, t)
      /\ Fits("BODY", Head(channel[c]["BODY"]).kind, k, 2 * r + 1)
  BY <1>2, <1>3, <1>5, <1>7, Receives DEF Tags
<1>10. k = r
  BY <1>7, <1>9 DEF Fits
<1>11. ~ Exists(s, c, k)
  <2>1. ASSUME NEW b \in stored[s], b.client = c, b.k = r
        PROVE  FALSE
    <3>1. b.k < Taken(b.client, "DATA")
      BY <1>5 DEF ServerOK, StoredOf
    <3> QED
      BY <1>7, <2>1, <3>1
  <2> QED
    BY <1>10, <2>1 DEF Exists
<1>12. PICK h : h = [handling[s] EXCEPT !.awaits = "DATA", !.k = r]
  OBVIOUS
<1>13. /\ handling' = [handling EXCEPT ![s] = h]
       /\ h.client = c /\ h.awaits = "DATA" /\ h.kind = "WRITE" /\ h.k = r /\ h \in Handled
  <2>1. handling[s] \in Handled
    BY <1>5 DEF ServerTypes
  <2>2. h = [client |-> c, awaits |-> "DATA", kind |-> "WRITE", k |-> r]
    BY <1>1, <1>3, <1>12, <2>1 DEF Handled
  <2>3. handling' = [handling EXCEPT ![s] = h]
    BY <1>3, <1>10, <1>11, <1>12
  <2> QED
    BY <1>5, <2>2, <2>3 DEF Handled
<1>14. handling'[s] = h
  BY <1>5, <1>13 DEF ServerTypes
<1>15. Taken(c, "HEADER")' = 3 * r + 2 /\ Taken(c, "DATA")' = r
  BY <1>5, <1>7, <1>9 DEF Tags
<1>16. StageOf(s, c)'
  <2>1. Wave(s, c)' = r
    BY <1>3, <1>6 DEF Wave
  <2>2. Stage(h, c, r, 3 * r + 2, 2 * r + 1, r)
    BY <1>7, <1>13 DEF Stage
  <2>3. (Stage(handling[s], c, Wave(s, c), Taken(c, "HEADER"), Taken(c, "BODY"),
               Taken(c, "DATA")))'
    BY <1>8, <1>9, <1>14, <1>15, <2>1, <2>2, FixedClients
  <2>4. c \in known[s] /\ c \in listening[s]
    <3>1. Taken(c, "HEADER") >= 1 /\ Taken(c, "HEADER") # 3 * r + 1
      BY <1>7
    <3> QED
      BY <1>5, <1>6, <3>1 DEF StageOf
  <2> QED
    BY <1>3, <2>1, <2>3, <2>4 DEF StageOf
<1>17. ClientsOf(s)' = ClientsOf(s) /\ ClientsOf(s) \subseteq Proc
  BY <1>8, FixedClients, WhoseLemma
<1>18. StoredOf(s)'
  <2>1. \A x \in ClientsOf(s) : Taken(x, "DATA")' = Taken(x, "DATA")
    BY <1>9, <1>17 DEF Tags
  <2> QED
    BY <1>3, <1>5, <1>17, <2>1 DEF StoredOf, ServerOK
<1>19. ASSUME NEW j \in Steps
       PROVE  GroupOf(s, j)'
  <2>1. j \in Int
    BY DEF Steps
  <2>2. ASSUME NEW x \in ClientsOf(s)
        PROVE  (Taken(x, "BODY") >= 2 * j + 2)' <=> Taken(x, "BODY") >= 2 * j + 2
    <3>1. CASE x = c
      BY <1>7, <1>9, <2>1, <3>1
    <3>2. CASE x # c
      BY <1>9, <1>17, <3>2 DEF Tags
    <3> QED
      BY <3>1, <3>2
  <2>3. Come(s, j)' = Come(s, j)
    BY <1>8, <2>2, ComeKept
  <2>4. GroupOf(s, j)
    BY <1>5 DEF ServerOK
  <2> QED
    BY <1>3, <1>8, <2>3, <2>4, GroupKept
<1>20. /\ stored' \in [Proc -> SUBSET Stored]
       /\ locks' \in [Proc -> [Steps -> Int]] /\ fired' \in [Proc -> [Steps -> Int]]
       /\ \A j \in Steps : locks'[s][j] >= 0
  BY <1>3, <1>5 DEF ServerTypes
<1> QED
  BY <1>1, <1>3, <1>4, <1>13, <1>16, <1>18, <1>19, <1>20, BodyKeeps
----------------------------------------------------------------------------
(* The data that follows it: what is stored under the name of a block is   *)
(* what the client wrote to it.                                            *)
LEMMA DataComes ==
  ASSUME Placed, ClientInv, ServerInv, NEW s \in Servers, OnData(s)
  PROVE  ServerInv'
<1>1. PICK c : c = handling[s].client
  OBVIOUS
<1>2. PICK m : m = Head(channel[c]["DATA"])
  OBVIOUS
<1>3. PICK n : n = [client |-> c, k |-> handling[s].k, from |-> m.client, of |-> m.k]
  OBVIOUS
<1>4. /\ handling[s].awaits = "DATA" /\ Receive(c, "DATA")
      /\ handling' = [handling EXCEPT ![s] = Idle]
      /\ stored' = [stored EXCEPT ![s] = stored[s] \cup {n}]
      /\ listening' = listening /\ known' = known /\ ended' = ended
      /\ arrived' = arrived /\ released' = released
      /\ locks' = locks /\ fired' = fired /\ stops' = stops
  BY <1>1, <1>2, <1>3 DEF OnData, barrierVars
<1>5. c \in ClientsOf(s)
  BY <1>1, <1>4, HandlerOf
<1>6. /\ s \in Proc /\ c \in Proc /\ c \in Clients /\ c \in Nat
      /\ ServerTypes /\ ServerOK(s) /\ StageOf(s, c) /\ Wave(s, c) \in Nat
      /\ Rounds \in Nat /\ Rounds <= Iterations
      /\ Taken(c, "HEADER") \in Nat /\ Taken(c, "BODY") \in Nat /\ Taken(c, "DATA") \in Nat
  BY <1>5, StageNow
<1>7. PICK r \in Nat : r = Wave(s, c)
  BY <1>6
<1>8. /\ r < Rounds /\ Taken(c, "HEADER") = 3 * r + 2 /\ Taken(c, "BODY") = 2 * r + 1
      /\ Taken(c, "DATA") = r /\ handling[s].k = r
  BY <1>1, <1>4, <1>6, <1>7 DEF StageOf, Stage
<1>9. config' = config
  BY <1>4 DEF Receive
<1>10. /\ Taken(c, "DATA")' = r + 1
       /\ \A p \in Proc, t \in Tags : p # c \/ t # "DATA" => Taken(p, t)' = Taken(p, t)
       /\ Fits("DATA", m.kind, m.k, r + 1) /\ m.client = c
  BY <1>2, <1>4, <1>6, <1>8, Receives DEF Tags
<1>11. m.k = r
  BY <1>8, <1>10 DEF Fits
<1>12. /\ n.client = c /\ n.k = r /\ n.from = c /\ n.of = r /\ n \in Stored
  BY <1>3, <1>6, <1>8, <1>10, <1>11 DEF Stored
<1>13. /\ stored'[s] = stored[s] \cup {n} /\ stored' \in [Proc -> SUBSET Stored]
       /\ \A q \in Proc : q # s => stored'[q] = stored[q]
  BY <1>4, <1>6, <1>12 DEF ServerTypes
<1>14. Idle \in Handled /\ Idle.client = -1 /\ handling'[s] = Idle
  BY <1>4, <1>6 DEF Idle, Handled, ServerTypes
<1>15. Taken(c, "HEADER")' = 3 * r + 2 /\ Taken(c, "BODY")' = 2 * r + 1
  BY <1>6, <1>8, <1>10 DEF Tags
<1>16. StageOf(s, c)'
  <2>1. Wave(s, c)' = r
    BY <1>4, <1>7 DEF Wave
  <2>2. Stage(Idle, c, r, 3 * r + 2, 2 * r + 1, r + 1)
    BY <1>6, <1>8, <1>14 DEF Stage
  <2>3. (Stage(handling[s], c, Wave(s, c), Taken(c, "HEADER"), Taken(c, "BODY"),
               Taken(c, "DATA")))'
    BY <1>9, <1>10, <1>14, <1>15, <2>1, <2>2, FixedClients
  <2>4. c \in known[s] /\ c \in listening[s]
    <3>1. Taken(c, "HEADER") >= 1 /\ Taken(c, "HEADER") # 3 * r + 1
      BY <1>8
    <3> QED
      BY <1>6, <1>7, <3>1 DEF StageOf
  <2> QED
    BY <1>4, <2>1, <2>3, <2>4 DEF StageOf
<1>17. ClientsOf(s)' = ClientsOf(s) /\ ClientsOf(s) \subseteq Proc
  BY <1>9, FixedClients, WhoseLemma
<1>18. StoredOf(s)'
  <2>1. ASSUME NEW b \in stored'[s]
        PROVE  /\ b.client \in ClientsOf(s) /\ b.from = b.client /\ b.of = b.k
               /\ b.k < Taken(b.client, "DATA")'
    <3>1. CASE b = n
      BY <1>5, <1>10, <1>12, <3>1
    <3>2. CASE b \in stored[s]
      <4>1. /\ b.client \in ClientsOf(s) /\ b.from = b.client /\ b.of = b.k
            /\ b.k < Taken(b.client, "DATA")
        BY <1>6, <3>2 DEF ServerOK, StoredOf
      <4>2. b.k \in Int
        BY <1>6, <3>2 DEF ServerTypes, Stored
      <4>3. CASE b.client = c
        BY <1>8, <1>10, <4>1, <4>2, <4>3
      <4>4. CASE b.client # c
        BY <1>10, <1>17, <4>1, <4>4 DEF Tags
      <4> QED
        BY <4>1, <4>3, <4>4
    <3> QED
      BY <1>13, <3>1, <3>2
  <2> QED
    BY <1>17, <2>1 DEF StoredOf
<1>19. ASSUME NEW j \in Steps
       PROVE  GroupOf(s, j)'
  <2>1. \A x \in ClientsOf(s) : Taken(x, "BODY")' = Taken(x, "BODY")
    BY <1>10, <1>17 DEF Tags
  <2>2. Come(s, j)' = Come(s, j)
    BY <1>9, <2>1, ComeKept
  <2>3. GroupOf(s, j)
    BY <1>6 DEF ServerOK
  <2> QED
    BY <1>4, <1>9, <2>2, <2>3, GroupKept
<1>20. /\ locks' \in [Proc -> [Steps -> Int]] /\ fired' \in [Proc -> [Steps -> Int]]
       /\ \A j \in Steps : locks'[s][j] >= 0
  BY <1>4, <1>6 DEF ServerTypes
<1> QED
  BY <1>1, <1>4, <1>5, <1>13, <1>14, <1>16, <1>18, <1>19, <1>20, BodyKeeps

(* GroupAction::Call, with the body of a client's signal: by then the      *)
(* server knows all of its clients, from the second iteration on.          *)
LEMMA ActionBodies ==
  ASSUME Placed, ClientInv, ServerInv, NEW s \in Servers, OnActionBody(s)
  PROVE  ServerInv'
<1>1. PICK c : c = handling[s].client
  OBVIOUS
<1>2. PICK k : k = Head(channel[c]["BODY"]).k
  OBVIOUS
<1>3. /\ handling[s].awaits = "BODY" /\ handling[s].kind = "ACTION" /\ Receive(c, "BODY")
      /\ handling' = [handling EXCEPT ![s] = Idle]
      /\ IF locks[s][k] + 1 >= Cardinality(known[s])
         THEN /\ fired' = [fired EXCEPT ![s][k] = fired[s][k] + 1]
              /\ locks' = [locks EXCEPT ![s][k] = 0]
         ELSE /\ locks' = [locks EXCEPT ![s][k] = locks[s][k] + 1]
              /\ fired' = fired
      /\ listening' = listening /\ known' = known /\ ended' = ended
      /\ arrived' = arrived /\ released' = released /\ stored' = stored
      /\ stops' = stops
  BY <1>1, <1>2 DEF OnActionBody, barrierVars
<1>4. c \in ClientsOf(s)
  BY <1>1, <1>3, HandlerOf
<1>5. /\ s \in Proc /\ c \in Proc /\ c \in Clients /\ c \in Nat
      /\ ServerTypes /\ ServerOK(s) /\ StageOf(s, c) /\ Wave(s, c) \in Nat
      /\ Rounds \in Nat /\ Rounds <= Iterations /\ Iterations \in Nat
      /\ Taken(c, "HEADER") \in Nat /\ Taken(c, "BODY") \in Nat /\ Taken(c, "DATA") \in Nat
  BY <1>4, StageNow
<1>6. PICK r \in Nat : r = Wave(s, c)
  BY <1>5
<1>7. /\ r < Rounds /\ Taken(c, "HEADER") = 3 * r + 3 /\ Taken(c, "BODY") = 2 * r + 1
      /\ Taken(c, "DATA") = r + 1
  BY <1>1, <1>3, <1>5, <1>6 DEF StageOf, Stage
<1>8. config' = config
  BY <1>3 DEF Receive
<1>9. /\ Taken(c, "BODY")' = 2 * r + 2
      /\ \A p \in Proc, t \in Tags : p # c \/ t # "BODY" => Taken(p, t)' = Taken(p, t)
      /\ Fits("BODY", Head(channel[c]["BODY"]).kind, k, 2 * r + 2)
  BY <1>2, <1>3, <1>5, <1>7, Receives DEF Tags
<1>10. k = r /\ k \in Steps
  <2>1. k \in Int /\ (2 * r + 2 = 2 * k + 1 \/ 2 * r + 2 = 2 * k + 2)
    BY <1>9 DEF Fits
  <2>3. k = r
    <3> HIDE DEF Rounds
    <3>1. \A x, y \in Int : (2 * x + 2 = 2 * y + 1 \/ 2 * x + 2 = 2 * y + 2) => y = x
      OBVIOUS
    <3> QED
      BY <2>1, <3>1
  <2> QED
    BY <1>5, <1>7, <2>3 DEF Steps
<1>11. Idle \in Handled /\ Idle.client = -1 /\ handling'[s] = Idle
  BY <1>3, <1>5 DEF Idle, Handled, ServerTypes
<1>12. Taken(c, "HEADER")' = 3 * r + 3 /\ Taken(c, "DATA")' = r + 1
  BY <1>5, <1>7, <1>9 DEF Tags
<1>13. c \in known[s] /\ c \in listening[s] /\ released[s] = r
  <2>1. Taken(c, "HEADER") >= 1 /\ Taken(c, "HEADER") # 3 * r + 1
    BY <1>7
  <2>2. c \in known[s] /\ c \in listening[s]
    BY <1>5, <1>6, <2>1 DEF StageOf
  <2>3. released[s] \in Int
    BY <1>5 DEF ServerTypes
  <2> QED
    BY <1>6, <2>2, <2>3 DEF Wave
<1>14. StageOf(s, c)'
  <2>1. Wave(s, c)' = r
    BY <1>3, <1>6 DEF Wave
  <2>2. Stage(Idle, c, r, 3 * r + 3, 2 * r + 2, r + 1)
    BY <1>5, <1>7, <1>11 DEF Stage
  <2>3. (Stage(handling[s], c, Wave(s, c), Taken(c, "HEADER"), Taken(c, "BODY"),
               Taken(c, "DATA")))'
    BY <1>8, <1>9, <1>11, <1>12, <2>1, <2>2, FixedClients
  <2> QED
    BY <1>3, <1>13, <2>1, <2>3 DEF StageOf
<1>15. /\ ClientsOf(s)' = ClientsOf(s) /\ ClientsOf(s) \subseteq Proc
       /\ IsFiniteSet(ClientsOf(s)) /\ ClientsOf(s) # {}
  BY <1>8, FixedClients, WhoseLemma
<1>16. StoredOf(s)'
  <2>1. \A x \in ClientsOf(s) : Taken(x, "DATA")' = Taken(x, "DATA")
    BY <1>9, <1>15 DEF Tags
  <2> QED
    BY <1>3, <1>5, <1>15, <2>1 DEF StoredOf, ServerOK
<1>17. locks[s][k] \in Nat /\ fired[s][k] \in Int
  BY <1>5, <1>10 DEF ServerTypes
<1>18. /\ locks' \in [Proc -> [Steps -> Int]] /\ fired' \in [Proc -> [Steps -> Int]]
       /\ IF locks[s][k] + 1 >= Cardinality(known[s])
          THEN locks'[s][k] = 0 /\ fired'[s][k] = fired[s][k] + 1
          ELSE locks'[s][k] = locks[s][k] + 1 /\ fired'[s][k] = fired[s][k]
       /\ \A j \in Steps : j # k => locks'[s][j] = locks[s][j] /\ fired'[s][j] = fired[s][j]
       /\ \A q \in Proc : q # s => locks'[q] = locks[q] /\ fired'[q] = fired[q]
  <2>1. locks \in [Proc -> [Steps -> Int]] /\ fired \in [Proc -> [Steps -> Int]]
    BY <1>5 DEF ServerTypes
  <2>2. locks[s][k] + 1 \in Int /\ fired[s][k] + 1 \in Int /\ 0 \in Int
    BY <1>17
  <2>3. CASE locks[s][k] + 1 >= Cardinality(known[s])
    <3>1. /\ fired' = [fired EXCEPT ![s][k] = fired[s][k] + 1]
          /\ locks' = [locks EXCEPT ![s][k] = 0]
      BY <1>3, <2>3
    <3>2. /\ fired' \in [Proc -> [Steps -> Int]] /\ fired'[s][k] = fired[s][k] + 1
          /\ \A j \in Steps : j # k => fired'[s][j] = fired[s][j]
          /\ \A q \in Proc : q # s => fired'[q] = fired[q]
      BY <1>5, <1>10, <2>1, <2>2, <3>1, PlaceChanged
    <3>3. /\ locks' \in [Proc -> [Steps -> Int]] /\ locks'[s][k] = 0
          /\ \A j \in Steps : j # k => locks'[s][j] = locks[s][j]
          /\ \A q \in Proc : q # s => locks'[q] = locks[q]
      BY <1>5, <1>10, <2>1, <2>2, <3>1, PlaceChanged
    <3> QED
      BY <2>3, <3>2, <3>3
  <2>4. CASE ~ (locks[s][k] + 1 >= Cardinality(known[s]))
    <3>1. fired' = fired /\ locks' = [locks EXCEPT ![s][k] = locks[s][k] + 1]
      BY <1>3, <2>4
    <3>2. /\ locks' \in [Proc -> [Steps -> Int]] /\ locks'[s][k] = locks[s][k] + 1
          /\ \A j \in Steps : j # k => locks'[s][j] = locks[s][j]
          /\ \A q \in Proc : q # s => locks'[q] = locks[q]
      BY <1>5, <1>10, <2>1, <2>2, <3>1, PlaceChanged
    <3> QED
      BY <2>1, <2>4, <3>1, <3>2
  <2> QED
    BY <2>3, <2>4
<1>19. \A j \in Steps : locks'[s][j] >= 0
  BY <1>5, <1>17, <1>18 DEF ServerTypes
<1>20. ASSUME NEW j \in Steps, j # k
       PROVE  GroupOf(s, j)'
  <2>1. j \in Int
    BY DEF Steps
  <2>2. ASSUME NEW x \in ClientsOf(s)
        PROVE  (Taken(x, "BODY") >= 2 * j + 2)' <=> Taken(x, "BODY") >= 2 * j + 2
    <3>1. CASE x = c
      BY <1>7, <1>9, <1>10, <1>20, <2>1, <3>1
    <3>2. CASE x # c
      BY <1>9, <1>15, <3>2 DEF Tags
    <3> QED
      BY <3>1, <3>2
  <2>3. Come(s, j)' = Come(s, j)
    BY <1>8, <2>2, ComeKept
  <2>4. GroupOf(s, j)
    BY <1>5 DEF ServerOK
  <2>5. locks'[s][j] = locks[s][j] /\ fired'[s][j] = fired[s][j]
    BY <1>18, <1>20
  <2> QED
    BY <1>15, <2>3, <2>4, <2>5 DEF GroupOf
<1>21. GroupOf(s, k)'
  <2> DEFINE S == Come(s, k)
             C == ClientsOf(s)
  <2>1. Come(s, k)' = S \cup {c} /\ c \notin S /\ S \subseteq C
    <3>1. c \notin S
      BY <1>7, <1>10 DEF Come
    <3>2. ASSUME NEW x \in ClientsOf(s)
          PROVE  (Taken(x, "BODY") >= 2 * k + 2)'
                    <=> (x = c \/ Taken(x, "BODY") >= 2 * k + 2)
      <4>1. CASE x = c
        BY <1>7, <1>9, <1>10, <4>1
      <4>2. CASE x # c
        BY <1>9, <1>15, <4>2 DEF Tags
      <4> QED
        BY <4>1, <4>2
    <3>3. Come(s, k)' = S \cup {c}
      BY <1>4, <1>15, <3>2 DEF Come
    <3> QED
      BY <3>1, <3>3 DEF Come
  <2>2. IsFiniteSet(S) /\ IsFiniteSet(S \cup {c})
    BY <1>4, <1>15, <2>1, FS_Subset
  <2>3. Cardinality(S \cup {c}) = Cardinality(S) + 1 /\ Cardinality(S) \in Nat
    BY <2>1, <2>2, FS_AddElement, FS_CardinalityType
  <2>4. GroupOf(s, k)
    BY <1>5, <1>10 DEF ServerOK
  <2> HIDE DEF S
  <2>5. CASE k = 0
    <3>1. locks[s][k] <= Cardinality(S)
      BY <2>4, <2>5 DEF GroupOf, S
    <3>2. locks'[s][k] <= Cardinality(S) + 1
      BY <1>17, <1>18, <2>3, <3>1
    <3> QED
      BY <2>1, <2>3, <2>5, <3>2 DEF GroupOf
  <2>6. CASE k # 0
    <3>1. S # C
      BY <1>4, <2>1
    <3>2. fired[s][k] = 0 /\ locks[s][k] = Cardinality(S)
      BY <2>4, <2>6, <3>1 DEF GroupOf, S
    <3>3. known[s] = C
      <4>1. ASSUME NEW x \in C
            PROVE  x \in known[s]
        <5>1. /\ StageOf(s, x) /\ Taken(x, "HEADER") \in Nat /\ Taken(x, "BODY") \in Nat
              /\ Taken(x, "DATA") \in Nat /\ Wave(s, x) \in Nat
          BY StageNow
        <5>2. Wave(s, x) >= 1
          BY <1>10, <1>13, <2>6 DEF Wave
        <5>3. Taken(x, "HEADER") >= 1
          BY <5>1, <5>2 DEF StageOf, Stage
        <5> QED
          BY <5>1, <5>3 DEF StageOf
      <4> QED
        BY <1>5, <4>1 DEF ServerOK, WaveOf
    <3>4. Cardinality(C) \in Nat /\ Cardinality(S \cup {c}) <= Cardinality(C)
          /\ (Cardinality(S \cup {c}) = Cardinality(C) => S \cup {c} = C)
      BY <1>4, <1>15, <2>1, FS_Subset, FS_CardinalityType
    <3>7. PICK a \in Nat, b \in Nat : a = Cardinality(S) /\ b = Cardinality(C)
      BY <2>3, <3>4
    <3>8. /\ a + 1 <= b /\ (a + 1 = b => S \cup {c} = C)
          /\ locks[s][k] = a /\ Cardinality(known[s]) = b
          /\ Cardinality(S \cup {c}) = a + 1
      BY <2>3, <3>2, <3>3, <3>4, <3>7
    <3>9. /\ a + 1 >= b => locks'[s][k] = 0 /\ fired'[s][k] = 0 + 1
          /\ ~ (a + 1 >= b) => locks'[s][k] = a + 1 /\ fired'[s][k] = 0
      BY <1>18, <3>2, <3>8
    <3>5. CASE S \cup {c} = C
      <4>2. Cardinality(S \cup {c}) = Cardinality(C)
        BY <3>5
      <4>3. a + 1 = b
        BY <3>7, <3>8, <4>2
      <4>1. locks'[s][k] = 0 /\ fired'[s][k] = 1
        BY <3>7, <3>9, <4>3
      <4> QED
        BY <1>15, <2>1, <2>6, <3>5, <4>1 DEF GroupOf
    <3>6. CASE S \cup {c} # C
      <4>1. locks'[s][k] = Cardinality(S \cup {c}) /\ fired'[s][k] = 0
        BY <3>6, <3>8, <3>9
      <4> QED
        BY <1>15, <2>1, <2>6, <3>6, <4>1 DEF GroupOf
    <3> QED
      BY <3>5, <3>6
  <2> QED
    BY <2>5, <2>6
<1>22. \A j \in Steps : GroupOf(s, j)'
  BY <1>20, <1>21
<1>23. stored' \in [Proc -> SUBSET Stored]
  BY <1>3, <1>5 DEF ServerTypes
<1> QED
  BY <1>1, <1>3, <1>4, <1>11, <1>14, <1>16, <1>18, <1>19, <1>22, <1>23, BodyKeeps
----------------------------------------------------------------------------
(* Servers leave the barrier, and listen to all of their clients again.    *)
LEMMA EndsWave ==
  ASSUME Placed, ClientInv, ServerInv, NEW s \in Servers, EndOfIteration(s)
  PROVE  ClientInv' /\ ServerInv'
<1>1. /\ handling[s] = Idle /\ \A q \in Servers : released[s] < arrived[q]
      /\ released' = [released EXCEPT ![s] = released[s] + 1]
      /\ listening' = [listening EXCEPT ![s] = ClientsOf(s)]
      /\ handling' = handling /\ known' = known /\ ended' = ended /\ arrived' = arrived
      /\ stored' = stored /\ locks' = locks /\ fired' = fired /\ stops' = stops
      /\ turn' = turn /\ made' = made /\ channel' = channel
      /\ asyncCount' = asyncCount /\ finished' = finished /\ reduced' = reduced
      /\ config' = config
  BY DEF EndOfIteration, startupVars, clientVars
<1>2. /\ Proc' = Proc /\ Clients' = Clients /\ Servers' = Servers
      /\ ClientsOf(s)' = ClientsOf(s)
  BY <1>1, FixedClients
<1>3. \A p \in Proc : Alike(p)
  BY <1>1 DEF Alike
<1>4. \A p \in Proc : ClientOf(p)' /\ \A t : Taken(p, t)' = Taken(p, t)
  BY <1>1, <1>3, AlikeLemma DEF ClientInv
<1>5. ClientInv'
  BY <1>1, <1>2, <1>4 DEF ClientInv, ClientTypes
<1>6. /\ s \in Proc /\ ClientsOf(s) \subseteq Proc /\ ClientsOf(s) \subseteq Clients
      /\ ClientsOf(s) # {} /\ IsFiniteSet(ClientsOf(s)) /\ ClientsOf(s) \subseteq Nat
  BY WhoseLemma
<1>7. ServerTypes /\ ServerOK(s)
  BY DEF ServerInv
<1>8. /\ released[s] \in Nat /\ arrived[s] = released[s] + 1
      /\ listening[s] = {} /\ ended[s] = {}
      /\ known[s] \subseteq ClientsOf(s)
  <2>1. released[s] \in Nat /\ arrived[s] # released[s]
    BY <1>1, <1>7 DEF ServerOK, WaveOf
  <2> QED
    BY <1>7, <2>1 DEF ServerOK, WaveOf
<1>9. /\ released'[s] = released[s] + 1 /\ listening'[s] = ClientsOf(s)
      /\ \A q \in Servers : q # s => released'[q] = released[q] /\ listening'[q] = listening[q]
  <2>1. released \in [Proc -> Int] /\ listening \in [Proc -> SUBSET Clients]
    BY <1>7 DEF ServerTypes
  <2> QED
    BY <1>1, <1>6, <2>1, WhoseLemma
<1>10. ServerTypes'
  <2>1. released' \in [Proc -> Int] /\ listening' \in [Proc -> SUBSET Clients]
    BY <1>1, <1>6, <1>7, <1>8 DEF ServerTypes
  <2> QED
    BY <1>1, <1>2, <1>7, <2>1 DEF ServerTypes
<1>11. WaveOf(s)' /\ HandlingOf(s)'
  <2>1. HandlingOf(s)'
    BY <1>1, <1>2 DEF HandlingOf, Idle
  <2>2. arrived'[s] = released'[s] /\ released'[s] \in Nat
    BY <1>1, <1>8, <1>9
  <2> QED
    BY <1>1, <1>2, <1>6, <1>8, <1>9, <2>1, <2>2 DEF WaveOf
<1>12. ASSUME NEW c \in ClientsOf(s)
       PROVE  StageOf(s, c)'
  <2>1. StageOf(s, c) /\ c \in Proc
    BY <1>6, <1>7 DEF ServerOK
  <2>2. Wave(s, c)' = Wave(s, c)
    BY <1>8, <1>9 DEF Wave
  <2>3. /\ Taken(c, "HEADER")' = Taken(c, "HEADER") /\ Taken(c, "BODY")' = Taken(c, "BODY")
        /\ Taken(c, "DATA")' = Taken(c, "DATA")
    BY <1>4, <2>1
  <2>4. (Stage(handling[s], c, Wave(s, c), Taken(c, "HEADER"), Taken(c, "BODY"),
               Taken(c, "DATA")))'
    BY <1>1, <2>1, <2>2, <2>3, FixedClients DEF StageOf
  <2> QED
    BY <1>1, <1>9, <2>1, <2>2, <2>3, <2>4 DEF StageOf
<1>13. StoredOf(s)'
  BY <1>1, <1>2, <1>4, <1>6, <1>7 DEF ServerOK, StoredOf
<1>14. ASSUME NEW k \in Steps
       PROVE  GroupOf(s, k)'
  <2>1. \A c \in ClientsOf(s) : Taken(c, "BODY")' = Taken(c, "BODY")
    BY <1>4, <1>6
  <2>2. Come(s, k)' = Come(s, k)
    BY <1>1, <2>1, ComeKept
  <2>3. GroupOf(s, k)
    BY <1>7 DEF ServerOK
  <2> QED
    BY <1>1, <2>2, <2>3, GroupKept
<1>15. ServerOK(s)'
  BY <1>2, <1>11, <1>12, <1>13, <1>14 DEF ServerOK
<1>16. \A q \in Servers : q # s => AlikeServer(q)
  BY <1>1, <1>9 DEF AlikeServer
<1>17. ServerInv'
  BY <1>1, <1>4, <1>10, <1>15, <1>16, OneServer
<1> QED
  BY <1>5, <1>17

(* The client side of a step of the server.                                *)
LEMMA ServerStepKept ==
  ASSUME Placed, ClientInv, ServerInv, NEW s \in Servers, ServerStep(s)
  PROVE  ClientInv' /\ ServerInv'
<1>1. ASSUME NEW c \in ClientsOf(s), OnConnect(s, c)
      PROVE  ClientInv' /\ ServerInv'
  <2>1. OnHeader(s, c, {"CONNECT"})
    BY <1>1 DEF OnConnect
  <2> QED
    BY <1>1, <2>1, HeaderTaken, Connects
<1>2. ASSUME NEW c \in ClientsOf(s), OnHeaderOfBody(s, c)
      PROVE  ClientInv' /\ ServerInv'
  <2>1. OnHeader(s, c, {"WRITE", "ACTION"})
    BY <1>2 DEF OnHeaderOfBody
  <2> QED
    BY <1>2, <2>1, HeaderTaken, HeadersOfBody
<1>3. ASSUME NEW c \in ClientsOf(s), OnNextIteration(s, c)
      PROVE  ClientInv' /\ ServerInv'
  <2>1. OnHeader(s, c, {"NEXT_ITERATION"})
    BY <1>3 DEF OnNextIteration
  <2> QED
    BY <1>3, <2>1, HeaderTaken, EndsIteration
<1>4. ASSUME NEW c \in ClientsOf(s), OnStop(s, c)
      PROVE  ClientInv' /\ ServerInv'
  <2>1. OnHeader(s, c, {"STOP"})
    BY <1>4 DEF OnStop
  <2> QED
    BY <1>4, <2>1, HeaderTaken, Stops
<1>5. ASSUME NEW g \in {"BODY", "DATA"}, handling[s].awaits = g,
             Receive(handling[s].client, g)
      PROVE  ClientInv'
  <2>1. handling[s].client \in Proc /\ g \in Tags
    BY <1>5, HandlerOf, WhoseLemma DEF Tags
  <2> QED
    BY <1>5, <2>1, Receives
<1>6. CASE OnWriteBody(s)
  <2>1. handling[s].awaits = "BODY" /\ Receive(handling[s].client, "BODY")
    BY <1>6 DEF OnWriteBody
  <2> QED
    BY <1>5, <1>6, <2>1, WriteBodies
<1>7. CASE OnData(s)
  <2>1. handling[s].awaits = "DATA" /\ Receive(handling[s].client, "DATA")
    BY <1>7 DEF OnData
  <2> QED
    BY <1>5, <1>7, <2>1, DataComes
<1>8. CASE OnActionBody(s)
  <2>1. handling[s].awaits = "BODY" /\ Receive(handling[s].client, "BODY")
    BY <1>8 DEF OnActionBody
  <2> QED
    BY <1>5, <1>8, <2>1, ActionBodies
<1>9. CASE EndOfIteration(s)
  BY <1>9, EndsWave
<1> QED
  BY <1>1, <1>2, <1>3, <1>4, <1>6, <1>7, <1>8, <1>9 DEF ServerStep

(* The steps of a client leave the server's part of the session alone.     *)
LEMMA ClientStepKept ==
  ASSUME Placed, ClientInv, ServerInv, NEW c \in Clients, ClientStep(c)
  PROVE  ClientInv' /\ ServerInv'
<1>1. c \in Proc
  BY WhoseLemma
<1>2. ClientInv' /\ \A p \in Proc, t \in Tags : Taken(p, t)' = Taken(p, t)
  <2>1. CASE PollOne(c)
    BY <1>1, <2>1, Polls
  <2>2. CASE Post(c)
    BY <1>1, <2>2, Posts
  <2>3. CASE EnterAllreduce(c)
    BY <1>1, <2>3, Enters
  <2>4. CASE LeaveAllreduce(c)
    BY <1>1, <2>4, Leaves
  <2> QED
    BY <2>1, <2>2, <2>3, <2>4 DEF ClientStep
<1>3. config' = config /\ UNCHANGED serverVars
  BY DEF ClientStep, PollOne, Post, EnterAllreduce, LeaveAllreduce, startupVars
<1> QED
  BY <1>2, <1>3, ServersRest

(* A step that leaves what is sent and received alone.                     *)
LEMMA OthersKept ==
  ASSUME Placed, ClientInv, ServerInv, config' = config, UNCHANGED <<clientVars, serverVars>>
  PROVE  ClientInv' /\ ServerInv'
<1>1. /\ turn' = turn /\ made' = made /\ channel' = channel
      /\ asyncCount' = asyncCount /\ finished' = finished /\ reduced' = reduced
      /\ UNCHANGED serverVars
  BY DEF clientVars
<1>2. \A p \in Proc : Alike(p)
  BY <1>1 DEF Alike
<1>3. \A p \in Proc : ClientOf(p)' /\ \A t : Taken(p, t)' = Taken(p, t)
  BY <1>2, AlikeLemma DEF ClientInv
<1>4. ClientInv'
  BY <1>1, <1>3, FixedClients DEF ClientInv, ClientTypes
<1> QED
  BY <1>1, <1>3, <1>4, ServersRest

(* The session as a job begins, first or again.                            *)
LEMMA FirstInv == Placed /\ AtFirst => ClientInv /\ ServerInv
  BY ClientFirst, ServerFirst

SessionInv == SegmentInv /\ ClientInv /\ ServerInv

(* Every step of a job keeps the session in order.                         *)
LEMMA SessionKept ==
  ASSUME SessionInv, [Next]_vars
  PROVE  SessionInv'
<1>1. SegmentInv /\ Placed /\ ClientInv /\ ServerInv
  BY DEF SessionInv, SegmentInv
<1>2. SegmentInv'
  BY <1>1, SegmentKept
<1> SUFFICES ClientInv' /\ ServerInv'
  BY <1>2 DEF SessionInv
<1>3. ASSUME NEW p \in Proc, StartupStep(p)
      PROVE  ClientInv' /\ ServerInv'
  <2>1. InitializeStep(p) \/ Finalize(p)
    BY <1>3 DEF StartupStep
  <2>2. config' = config
    BY <2>1, ConfigKept
  <2> QED
    BY <1>1, <1>3, <2>2, OthersKept DEF StartupStep
<1>4. ASSUME NEW c \in Clients, ClientStep(c)
      PROVE  ClientInv' /\ ServerInv'
  BY <1>1, <1>4, ClientStepKept
<1>5. ASSUME NEW s \in Servers, ServerStep(s)
      PROVE  ClientInv' /\ ServerInv'
  BY <1>1, <1>5, ServerStepKept
<1>6. CASE Restart
  <2>1. AtFirst'
    BY <1>6, FirstAgain
  <2>2. (Placed /\ AtFirst => ClientInv /\ ServerInv)'
    BY FirstInv, PTL
  <2>3. config' = config
    BY <1>6 DEF Restart, NextJob
  <2>4. Placed'
    BY <1>1, <2>3, FixedLemma
  <2> QED
    BY <2>1, <2>2, <2>4
<1>7. CASE UNCHANGED vars
  <2>1. config' = config /\ UNCHANGED <<clientVars, serverVars>>
    BY <1>7 DEF vars, startupVars
  <2> QED
    BY <1>1, <2>1, OthersKept
<1> QED
  BY <1>3, <1>4, <1>5, <1>6, <1>7 DEF Next

(* The messages of a client come in the order of its program, each in      *)
(* the channel or taken in its turn; the server's waves, blocks and group  *)
(* counts are what the messages it has taken say.                          *)
THEOREM SessionInvariant == Spec => []SessionInv
<1>1. Init => SessionInv
  <2> SUFFICES ASSUME Init
               PROVE  SessionInv
    OBVIOUS
  <2>1. SegmentInv
    BY SegmentInit DEF Init
  <2>2. AtFirst
    BY DEF Init, AtFirst
  <2>3. Placed
    BY <2>1 DEF SegmentInv
  <2> QED
    BY <2>1, <2>2, <2>3, FirstInv DEF SessionInv
<1>2. SessionInv /\ [Next]_vars => SessionInv'
  BY SessionKept
<1> QED
  BY <1>1, <1>2, PTL DEF Spec
----------------------------------------------------------------------------
(* Client::Signal has come to the server when its body has been taken.     *)
LEMMA LengthsLemma == Len(Write) + Len(Signal) = 5
<1> DEFINE a == Call("HEADER", "WRITE")
           b == Call("BODY", "WRITE")
           c == Call("DATA", "WRITE")
           d == Call("HEADER", "ACTION")
           e == Call("BODY", "ACTION")
           S == {a, b, c, d, e}
<1>1. a \in S /\ b \in S /\ c \in S /\ d \in S /\ e \in S
  OBVIOUS
<1>2. Write = <<a, b, c>> /\ Signal = <<d, e>>
  BY DEF Write, Signal
<1> HIDE DEF a, b, c, d, e, S
<1>3. Len(<<a, b, c>>) = 3 /\ Len(<<d, e>>) = 2
  BY <1>1, TuplesLemma
<1> QED
  BY <1>2, <1>3

(* A signal has come when as many bodies have been taken as that takes.    *)
LEMMA SignalledLemma ==
  ASSUME ClientInv, NEW c \in Proc, NEW k \in Nat, k < Rounds
  PROVE  Signalled(c, k) <=> Taken(c, "BODY") >= 2 * k + 2
<1>1. PICK t : t = turn[c]
  OBVIOUS
<1>2. PICK m : m = made[c]
  OBVIOUS
<1>3. PICK q : q = channel[c]["BODY"]
  OBVIOUS
<1>4. PICK n : n = Taken(c, "BODY")
  OBVIOUS
<1>5. PICK w : w = PostedAt(t, m, "BODY")
  OBVIOUS
<1>6. /\ TurnOK(t, m) /\ t \in Int /\ m \in Nat /\ Rounds \in Nat
      /\ Content(c, "BODY", q, n) /\ n \in Nat /\ q \in Seq(Msg)
      /\ \A i \in 1 .. Len(q) : Fits("BODY", q[i].kind, q[i].k, n + i)
  <2>1. ClientOf(c) /\ "BODY" \in Tags
    BY DEF ClientInv, Tags
  <2> QED
    BY <1>1, <1>2, <1>3, <1>4, <2>1, ProgramLemma DEF ClientOf, TurnOK, Content
<1>7. n = w - Len(q) /\ Len(q) \in Nat /\ DOMAIN q = 1 .. Len(q)
  BY <1>1, <1>2, <1>3, <1>4, <1>5, <1>6, LenProperties DEF Taken, Posted
<1>8. w \in Int
  BY <1>5, <1>6, PostedLemma
<1>9. Signalled(c, k) <=>
        /\ t >= k
        /\ t = k => m >= 5
        /\ \A i \in 1 .. Len(q) : ~ (q[i].kind = "ACTION" /\ q[i].k = k)
  BY <1>1, <1>2, <1>3, <1>7, LengthsLemma DEF Signalled
<1>10. t >= k /\ (t = k => m >= 5) <=> w >= 2 * k + 2
  <2>1. CASE t = -1
    BY <1>5, <2>1 DEF PostedAt
  <2>2. CASE t >= Rounds
    <3>1. w = 2 * Rounds
      BY <1>5, <1>6, <2>2 DEF PostedAt
    <3> QED
      BY <1>6, <2>2, <3>1
  <2>3. CASE 0 <= t /\ t < Rounds
    <3>1. w = 2 * t + From(m, 2) + From(m, 5)
      BY <1>5, <1>6, <2>3 DEF PostedAt
    <3>2. \/ m >= 5 /\ w = 2 * t + 2
          \/ m < 5 /\ (w = 2 * t + 1 \/ w = 2 * t)
      BY <1>6, <3>1 DEF From
    <3> QED
      BY <1>6, <2>3, <3>2
  <2> QED
    BY <1>6, <2>1, <2>2, <2>3 DEF TurnOK
<1>11. ASSUME Signalled(c, k), n < 2 * k + 2
       PROVE  FALSE
  <2>1. w >= 2 * k + 2
    BY <1>9, <1>10, <1>11
  <2>2. PICK i \in Int : i = 2 * k + 2 - n
    BY <1>6
  <2>3. i \in 1 .. Len(q) /\ n + i = 2 * k + 2
    BY <1>6, <1>7, <1>8, <1>11, <2>1, <2>2
  <2>4. Fits("BODY", q[i].kind, q[i].k, 2 * k + 2)
    BY <1>6, <2>3
  <2>5. \/ q[i].kind = "WRITE" /\ q[i].k \in Int /\ 2 * k + 2 = 2 * q[i].k + 1
        \/ q[i].kind = "ACTION" /\ q[i].k \in Int /\ 2 * k + 2 = 2 * q[i].k + 2
    BY <2>4 DEF Fits
  <2>6. \A x, y \in Int : /\ 2 * x + 2 # 2 * y + 1
                          /\ 2 * x + 2 = 2 * y + 2 => y = x
    OBVIOUS
  <2>7. q[i].kind = "ACTION" /\ q[i].k = k
    BY <2>5, <2>6
  <2> QED
    BY <1>9, <1>11, <2>3, <2>7
<1>12. ASSUME n >= 2 * k + 2
       PROVE  Signalled(c, k)
  <2>1. w >= 2 * k + 2
    BY <1>6, <1>7, <1>8, <1>12
  <2>2. ASSUME NEW i \in 1 .. Len(q), q[i].kind = "ACTION", q[i].k = k
        PROVE  FALSE
    <3>1. Fits("BODY", "ACTION", k, n + i)
      BY <1>6, <2>2
    <3>2. n + i = 2 * k + 2
      BY <3>1 DEF Fits
    <3> QED
      BY <1>6, <1>7, <1>12, <3>2
  <2> QED
    BY <1>9, <1>10, <2>1, <2>2
<1> QED
  BY <1>4, <1>6, <1>11, <1>12

(* A server has run the action of an iteration when all of its clients'    *)
(* signals have come, and then once.                                       *)
LEMMA GroupLemma == SessionInv => GroupActionOnce
<1> SUFFICES ASSUME SessionInv, NEW s \in Servers, NEW k \in Steps \ {0}
             PROVE  fired[s][k] =
                      IF ~ SharedMemory /\ \A c \in ClientsOf(s) : Signalled(c, k)
                      THEN 1 ELSE 0
  BY DEF GroupActionOnce
<1>1. /\ Placed /\ ClientInv /\ ServerInv
      /\ k \in Nat /\ k >= 1 /\ k \in Steps /\ k < Iterations /\ k # 0
  BY SessionOK DEF SessionInv, SegmentInv, Steps
<1>2. ClientsOf(s) # {} /\ ClientsOf(s) \subseteq Proc
  BY <1>1, WhoseLemma
<1>3. fired[s][k] = IF Come(s, k) = ClientsOf(s) THEN 1 ELSE 0
  BY <1>1 DEF ServerInv, ServerOK, GroupOf
<1>4. CASE SharedMemory
  <2>1. PICK c \in ClientsOf(s) : TRUE
    BY <1>2
  <2>2. Rounds = 0 /\ c \in Proc
    BY <1>2, <1>4 DEF Rounds
  <2>3. /\ turn[c] \in Int /\ Len(channel[c]["BODY"]) \in Nat /\ Taken(c, "BODY") \in Nat
    BY <1>1, <2>2, ClientNumbers DEF Tags
  <2>4. TurnOK(turn[c], made[c])
    BY <1>1, <2>2 DEF ClientInv, ClientOf
  <2>5. Posted(c, "BODY") = 0
    BY <2>2, <2>3, <2>4 DEF Posted, PostedAt, TurnOK
  <2>6. Taken(c, "BODY") <= 0
    BY <2>3, <2>5 DEF Taken
  <2>7. ~ (Taken(c, "BODY") >= 2 * k + 2)
    BY <1>1, <2>3, <2>6
  <2> QED
    BY <1>3, <1>4, <2>1, <2>7 DEF Come
<1>5. CASE ~ SharedMemory
  <2>1. k < Rounds
    BY <1>1, <1>5 DEF Rounds
  <2>2. \A c \in ClientsOf(s) : Signalled(c, k) <=> Taken(c, "BODY") >= 2 * k + 2
    BY <1>1, <1>2, <2>1, SignalledLemma
  <2>3. Come(s, k) = ClientsOf(s) <=> \A c \in ClientsOf(s) : Signalled(c, k)
    BY <2>2 DEF Come
  <2> QED
    BY <1>3, <1>5, <2>3
<1> QED
  BY <1>4, <1>5

(* GroupAction::Call runs the action once in each iteration but the first, *)
(* when the last client's signal has come, and in none before that.        *)
THEOREM GroupActionsOnce == Spec => []GroupActionOnce
  BY SessionInvariant, GroupLemma, PTL

(* Server::OnRemoteWrite stores under the name of a block what the client  *)
(* that named it sent for it, though the body and the data travel apart.   *)
THEOREM DataIsOfItsHeader == Spec => []DataMatchesHeader
<1>1. SessionInv => DataMatchesHeader
  BY DEF SessionInv, ServerInv, ServerOK, StoredOf, DataMatchesHeader
<1> QED
  BY <1>1, SessionInvariant, PTL
----------------------------------------------------------------------------
(* No name is of a later job.                                              *)
Bounded(top) ==
  /\ names \in [0 .. config.nodes - 1 -> [Pieces -> 0 .. top]]
  /\ mapped \in [Proc -> [Pieces -> 0 .. top]]

JobInv == job \in 1 .. config.jobs /\ Bounded(job)

(* Removing a name leaves those of the other jobs.                         *)
LEMMA RemovedBounded ==
  ASSUME NEW top \in Nat, Bounded(top), NEW n \in 0 .. config.nodes - 1
  PROVE  Removed(n) \in [Pieces -> 0 .. top]
<1>1. names[n] \in [Pieces -> 0 .. top] /\ Nothing \in [Pieces -> 0 .. top]
  BY DEF Bounded, Nothing
<1>2. ASSUME NEW T, 0 \in T, NEW f \in [Pieces -> T], NEW x
      PROVE  [f EXCEPT ![x] = 0] \in [Pieces -> T]
  <2> DEFINE g == [f EXCEPT ![x] = 0]
  <2>1. g = [y \in Pieces |-> IF y = x THEN 0 ELSE f[y]]
    OBVIOUS
  <2>2. \A y \in Pieces : (IF y = x THEN 0 ELSE f[y]) \in T
    BY <1>2
  <2> HIDE DEF g
  <2>3. g \in [Pieces -> T]
    BY <2>1, <2>2
  <2> QED
    BY <2>3 DEF g
<1>3. 0 \in 0 .. top
  OBVIOUS
<1> QED
  BY <1>1, <1>2, <1>3 DEF Removed

(* A name or a mapped piece is of this job or of an earlier one.           *)
LEMMA JobKept ==
  ASSUME SegmentInv, JobInv, [Next]_vars
  PROVE  JobInv'
<1>1. /\ Placed /\ SimpleTypes /\ Bounded(job) /\ job \in Nat \ {0} /\ job <= config.jobs
      /\ config.jobs \in Nat \ {0}
      /\ pc = [p \in Proc |-> pc[p]]
  BY PlacedLemma DEF SegmentInv, SimpleTypes, JobInv
<1>2. \/ \E p \in Proc : InitializeStep(p) \/ Finalize(p) \/ Sent(p)
      \/ NextJob
      \/ UNCHANGED startupVars
  <2>1. CASE Next
    BY <1>1, <2>1, StartupSteps
  <2>2. CASE UNCHANGED vars
    BY <2>2 DEF vars
  <2> QED
    BY <2>1, <2>2
<1>3. config' = config
  BY <1>2, ConfigKept
<1>4. Proc' = Proc /\ Pieces' = Pieces /\ Nothing' = Nothing
  BY <1>3, FixedLemma
<1> DEFINE N == [0 .. config.nodes - 1 -> [Pieces -> 0 .. job]]
           M == [Proc -> [Pieces -> 0 .. job]]
<1>5. names \in N /\ mapped \in M
  BY <1>1 DEF Bounded
<1>6. ASSUME job' = job, names' \in N, mapped' \in M
      PROVE  JobInv'
  BY <1>1, <1>3, <1>4, <1>6 DEF JobInv, Bounded
<1>7. Nothing \in [Pieces -> 0 .. job]
  BY <1>1 DEF Nothing
<1>8. \A p \in Proc : Node(p) \in 0 .. config.nodes - 1
  BY <1>1, NodeLemma
<1>9. \A p \in Proc : Removed(Node(p)) \in [Pieces -> 0 .. job]
  BY <1>1, <1>8, RemovedBounded
<1>10. ASSUME NEW p \in Proc,
              names' = IF Owner(p) THEN [names EXCEPT ![Node(p)] = Removed(Node(p))]
                       ELSE names
       PROVE  names' \in N
  BY <1>5, <1>8, <1>9, <1>10
<1>11. ASSUME NEW p \in Proc, InitializeStep(p)
       PROVE  JobInv'
  <2>1. CASE Begin(p)
    <3>1. names' \in N
      BY <1>10, <2>1 DEF Begin
    <3> QED
      BY <1>5, <1>6, <2>1, <3>1 DEF Begin
  <2>2. CASE CreatePiece(p)
    <3>1. PICK i \in Pieces : /\ names' = [names EXCEPT ![Node(p)][i] = job]
                              /\ mapped' = [mapped EXCEPT ![p][i] = job]
      BY <2>2 DEF CreatePiece
    <3>2. job \in 0 .. job
      BY <1>1
    <3>3. PICK n \in 0 .. config.nodes - 1 : n = Node(p)
      BY <1>8
    <3>4. names' \in N
      BY <1>5, <3>1, <3>2, <3>3, PlaceChanged
    <3>5. mapped' \in M
      BY <1>5, <3>1, <3>2, PlaceChanged
    <3> QED
      BY <1>6, <2>2, <3>4, <3>5 DEF CreatePiece
  <2>3. CASE Open(p)
    <3>1. names[Node(p)] \in [Pieces -> 0 .. job]
      BY <1>5, <1>8
    <3>2. mapped' \in M
      BY <1>5, <2>3, <3>1 DEF Open
    <3> QED
      BY <1>5, <1>6, <2>3, <3>2 DEF Open
  <2>4. CASE CreateFails(p) \/ LeaveEntityBarrier(p) \/ LeaveGlobalBarrier(p)
               \/ LeaveStartBarrier(p)
    BY <1>5, <1>6, <2>4 DEF CreateFails, LeaveEntityBarrier, LeaveGlobalBarrier,
                            LeaveStartBarrier
  <2> QED
    BY <1>11, <2>1, <2>2, <2>3, <2>4 DEF InitializeStep
<1>12. ASSUME NEW p \in Proc, Finalize(p)
       PROVE  JobInv'
  <2>1. names' \in N
    BY <1>10, <1>12 DEF Finalize
  <2>2. mapped' \in M
    BY <1>5, <1>7, <1>12 DEF Finalize
  <2> QED
    BY <1>6, <1>12, <2>1, <2>2 DEF Finalize
<1>13. ASSUME NEW p \in Proc, Sent(p)
       PROVE  JobInv'
  BY <1>5, <1>6, <1>13 DEF Sent
<1>14. CASE NextJob
  <2>1. PICK j \in Nat : j = job + 1
    BY <1>1
  <2>2. job' = j /\ j \in 1 .. config.jobs /\ names' = names
        /\ mapped' = [p \in Proc |-> Nothing]
    BY <1>1, <1>14, <2>1 DEF NextJob
  <2>3. Nothing \in [Pieces -> 0 .. j]
    BY <2>1 DEF Nothing
  <2>4. mapped' \in [Proc -> [Pieces -> 0 .. j]]
    BY <2>2, <2>3
  <2>5. 0 .. job \subseteq 0 .. j
    BY <1>1, <2>1
  <2>6. names' \in [0 .. config.nodes - 1 -> [Pieces -> 0 .. j]]
    <3>1. ASSUME NEW f \in [Pieces -> 0 .. job]
          PROVE  f \in [Pieces -> 0 .. j]
      BY <2>5
    <3> QED
      BY <1>5, <2>2, <3>1
  <2> QED
    BY <1>3, <1>4, <2>2, <2>4, <2>6 DEF JobInv, Bounded
<1>15. CASE UNCHANGED startupVars
  BY <1>5, <1>6, <1>15 DEF startupVars
<1> QED
  BY <1>2, <1>11, <1>12, <1>13, <1>14, <1>15

(* So it is at first.                                                      *)
LEMMA JobFirst == InitStartup => JobInv
<1> SUFFICES ASSUME InitStartup
             PROVE  JobInv
  OBVIOUS
<1>1. Placed
  BY DEF InitStartup, Placed
<1>2. config.jobs \in Nat \ {0} /\ job = 1
  BY <1>1, PlacedLemma DEF InitStartup
<1>3. Nothing \in [Pieces -> 0 .. 1]
  BY DEF Nothing
<1> QED
  BY <1>2, <1>3 DEF InitStartup, JobInv, Bounded

(* The queue of a client is never at its size, and a group counts no more  *)
(* events than there are clients.                                          *)
LEMMA TypeLemma == SessionInv /\ JobInv => TypeOK
<1> SUFFICES ASSUME SessionInv, JobInv
             PROVE  TypeOK
  OBVIOUS
<1>1. /\ SegmentInv /\ Placed /\ SimpleTypes /\ ClientInv /\ ServerInv /\ ServerTypes
  BY DEF SessionInv, SegmentInv, ServerInv
<1>2. StartupTypeOK
  <2>1. config \in Configs /\ pc \in [Proc -> Places]
    BY <1>1 DEF Placed, SimpleTypes
  <2> QED
    BY <2>1 DEF StartupTypeOK, JobInv, Bounded, Places
<1>3. ASSUME NEW p \in Proc
      PROVE  /\ asyncCount[p] \in 0 .. QueueSize - 1
             /\ finished[p] \in 0 .. asyncCount[p]
             /\ reduced[p] \in 0 .. Iterations
  <2>1. /\ ClientOf(p) /\ QueueSize \in Nat /\ finished[p] \in Nat /\ asyncCount[p] \in Int
        /\ Owed(channel[p]["HEADER"]) \in Nat /\ Owed(channel[p]["BODY"]) \in Nat
        /\ Owed(channel[p]["DATA"]) \in Nat
    BY <1>1, ClientNumbers DEF Tags
  <2>2. QueueOf(p) /\ reduced[p] \in 0 .. Iterations
    BY <2>1 DEF ClientOf
  <2>3. asyncCount[p] <= QueueSize - 1 /\ finished[p] <= asyncCount[p]
    BY <2>1, <2>2 DEF QueueOf
  <2> QED
    BY <2>1, <2>2, <2>3
<1>4. ASSUME NEW p \in Proc
      PROVE  /\ listening[p] \subseteq Clients
             /\ handling[p].awaits \in {"none", "BODY", "DATA"}
             /\ known[p] \subseteq Clients /\ stops[p] \subseteq Clients
  BY <1>1 DEF ServerTypes, Handled
<1>5. ASSUME NEW p \in Proc
      PROVE  locks[p] \in [Steps -> 0 .. Cardinality(Clients)]
  <2>1. IsFiniteSet(Clients) /\ Cardinality(Clients) \in Nat
    BY <1>1, WhoseLemma, FS_CardinalityType
  <2>2. locks[p] \in [Steps -> Int] /\ \A k \in Steps : locks[p][k] >= 0
    BY <1>1 DEF ServerTypes
  <2>3. ASSUME NEW k \in Steps
        PROVE  locks[p][k] <= Cardinality(Clients)
    <3>1. CASE p \in Clients
      BY <1>1, <2>1, <3>1 DEF ServerTypes
    <3>2. CASE p \notin Clients
      <4>1. p \in Servers
        BY <3>2 DEF Servers
      <4>2. GroupOf(p, k) /\ ClientsOf(p) \subseteq Clients
        BY <1>1, <4>1, WhoseLemma DEF ServerInv, ServerOK
      <4>3. Come(p, k) \subseteq Clients
        BY <4>2 DEF Come
      <4>4. Cardinality(Come(p, k)) \in Nat /\ Cardinality(Come(p, k)) <= Cardinality(Clients)
        BY <2>1, <4>3, FS_Subset, FS_CardinalityType
      <4>5. locks[p][k] = 0 \/ locks[p][k] <= Cardinality(Come(p, k))
        BY <2>2, <4>2, <4>4 DEF GroupOf
      <4> QED
        BY <2>1, <2>2, <4>4, <4>5
    <3> QED
      BY <3>1, <3>2
  <2> QED
    BY <2>1, <2>2, <2>3
<1> QED
  BY <1>2, <1>3, <1>4, <1>5 DEF TypeOK

(* Every variable stays within its type: Channel's count of sends stays    *)
(* below the size of the queue, and the locks of GroupAction do not count  *)
(* more than the clients.                                                  *)
THEOREM SessionTypeCorrect == Spec => []TypeOK
<1>1. Init => JobInv
  BY JobFirst DEF Init
<1>2. SegmentInv /\ JobInv /\ [Next]_vars => JobInv'
  BY JobKept
<1>3. SessionInv /\ JobInv => TypeOK
  BY TypeLemma
<1> QED
  BY <1>1, <1>2, <1>3, StartupInvariant, SessionInvariant, PTL DEF Spec
----------------------------------------------------------------------------
(* What a server that returns leaves.                                      *)
Over == {"stopped", "done"}

AllStored(s) ==
  \A c \in ClientsOf(s) : \A k \in Nat : k < Taken(c, "DATA") => Exists(s, c, k)

StopInv ==
  /\ \A c \in Clients : turn[c] > Rounds => pc[c] \in Over
  /\ \A s \in Servers : \A c \in stops[s] :
       c \in ClientsOf(s) /\ Taken(c, "HEADER") >= 3 * Rounds + 2
  /\ \A s \in Servers : pc[s] \in Over => stops[s] = ClientsOf(s)
  /\ \A s \in Servers : AllStored(s)

(* A step of a job: what is taken and stored grows, who is over stays so.  *)
LEMMA StopGrows ==
  ASSUME Placed, ClientInv, ClientInv', StopInv, config' = config,
         \A p \in Proc, t \in Tags : Taken(p, t)' >= Taken(p, t),
         \A p \in Proc : pc[p] \in Over => pc'[p] \in Over,
         \A c \in Clients : turn'[c] > Rounds => turn[c] > Rounds \/ pc'[c] \in Over,
         \A s \in Servers : \A c \in stops'[s] :
           c \in stops[s] \/ (c \in ClientsOf(s) /\ Taken(c, "HEADER")' >= 3 * Rounds + 2),
         \A s \in Servers : stops[s] \subseteq stops'[s],
         \A s \in Servers : pc'[s] \in Over => pc[s] \in Over \/ stops'[s] = ClientsOf(s),
         \A s \in Servers : stored[s] \subseteq stored'[s],
         \A s \in Servers : \A c \in ClientsOf(s) :
           \/ Taken(c, "DATA")' = Taken(c, "DATA")
           \/ /\ Taken(c, "DATA")' = Taken(c, "DATA") + 1
              /\ \E b \in stored'[s] : b.client = c /\ b.k = Taken(c, "DATA")
  PROVE  StopInv'
<1>1. /\ Rounds' = Rounds /\ Rounds \in Nat
      /\ Clients' = Clients /\ Servers' = Servers
      /\ \A s : ClientsOf(s)' = ClientsOf(s)
  BY FixedRounds, FixedClients, ProgramLemma
<1>2. \A c \in Clients : turn'[c] > Rounds => pc'[c] \in Over
  BY WhoseLemma DEF StopInv
<1>3. ASSUME NEW s \in Servers, NEW c \in stops'[s]
      PROVE  c \in ClientsOf(s) /\ Taken(c, "HEADER")' >= 3 * Rounds + 2
  <2>1. CASE c \in stops[s]
    <3>1. c \in ClientsOf(s) /\ Taken(c, "HEADER") >= 3 * Rounds + 2
      BY <2>1 DEF StopInv
    <3>2. c \in Proc /\ "HEADER" \in Tags
      BY <3>1, WhoseLemma DEF Tags
    <3>3. Taken(c, "HEADER")' >= Taken(c, "HEADER") /\ Taken(c, "HEADER") \in Nat
      BY <3>2, ClientNumbers
    <3>4. Taken(c, "HEADER")' \in Nat
      <4>1. ClientOf(c)'
        BY <3>2, FixedClients DEF ClientInv
      <4> QED
        BY <3>2, <4>1 DEF ClientOf, Content
    <3> QED
      BY <1>1, <3>1, <3>3, <3>4
  <2> QED
    BY <1>3, <2>1
<1>4. ASSUME NEW s \in Servers, pc'[s] \in Over
      PROVE  stops'[s] = ClientsOf(s)
  <2>1. pc[s] \in Over \/ stops'[s] = ClientsOf(s)
    BY <1>4
  <2>2. ASSUME pc[s] \in Over
        PROVE  stops'[s] = ClientsOf(s)
    <3>1. stops[s] = ClientsOf(s)
      BY <2>2 DEF StopInv
    <3>2. stops[s] \subseteq stops'[s]
      OBVIOUS
    <3>3. stops'[s] \subseteq ClientsOf(s)
      BY <1>3
    <3> QED
      BY <3>1, <3>2, <3>3
  <2> QED
    BY <2>1, <2>2
<1>5. ASSUME NEW s \in Servers
      PROVE  AllStored(s)'
  <2>1. ASSUME NEW c \in ClientsOf(s), NEW k \in Nat, k < Taken(c, "DATA")'
        PROVE  Exists(s, c, k)'
    <3>1. Taken(c, "DATA") \in Nat
      BY WhoseLemma, ClientNumbers DEF Tags
    <3>2. CASE k < Taken(c, "DATA")
      <4>1. Exists(s, c, k)
        BY <3>2 DEF StopInv, AllStored
      <4> QED
        BY <4>1 DEF Exists
    <3>3. CASE ~ (k < Taken(c, "DATA"))
      <4>1. /\ Taken(c, "DATA")' = Taken(c, "DATA") + 1
            /\ \E b \in stored'[s] : b.client = c /\ b.k = Taken(c, "DATA")
        <5>1. Taken(c, "DATA")' # Taken(c, "DATA")
          BY <2>1, <3>3
        <5> QED
          BY <5>1
      <4>2. k = Taken(c, "DATA")
        BY <2>1, <3>1, <3>3, <4>1
      <4> QED
        BY <4>1, <4>2 DEF Exists
    <3> QED
      BY <3>2, <3>3
  <2> QED
    BY <1>1, <2>1 DEF AllStored
<1> QED
  BY <1>1, <1>2, <1>3, <1>4, <1>5 DEF StopInv

(* What neither takes, stores nor stops anything.                          *)
LEMMA StopRests ==
  ASSUME Placed, ClientInv, ClientInv', StopInv, config' = config, UNCHANGED clientVars,
         stops' = stops, stored' = stored,
         \A p \in Proc : pc'[p] \in Over <=> pc[p] \in Over
  PROVE  StopInv'
<1>1. turn' = turn /\ made' = made /\ channel' = channel
  BY DEF clientVars
<1>2. \A p, t : Taken(p, t)' = Taken(p, t)
  BY <1>1, FixedRounds DEF Taken, Posted
<1>3. \A p \in Proc, t \in Tags : Taken(p, t)' >= Taken(p, t)
  BY <1>2, ClientNumbers
<1> QED
  BY <1>1, <1>2, <1>3, WhoseLemma, StopGrows

(* The steps of a client.                                                  *)
LEMMA ClientStops ==
  ASSUME Placed, SimpleTypes, ClientInv, StopInv, NEW c \in Clients, ClientStep(c)
  PROVE  StopInv'
<1>1. c \in Proc /\ ClientOf(c) /\ \A s \in Servers : s \in Proc /\ s # c
  BY WhoseLemma DEF ClientInv
<1>2. ClientInv' /\ \A p \in Proc, t \in Tags : Taken(p, t)' = Taken(p, t)
  <2>1. CASE PollOne(c)
    BY <1>1, <2>1, Polls
  <2>2. CASE Post(c)
    BY <1>1, <2>2, Posts
  <2>3. CASE EnterAllreduce(c)
    BY <1>1, <2>3, Enters
  <2>4. CASE LeaveAllreduce(c)
    BY <1>1, <2>4, Leaves
  <2> QED
    BY <2>1, <2>2, <2>3, <2>4 DEF ClientStep
<1>3. config' = config /\ stops' = stops /\ stored' = stored
  BY DEF ClientStep, PollOne, Post, EnterAllreduce, LeaveAllreduce, startupVars, serverVars
<1>4. /\ \A p \in Proc : p # c => pc'[p] = pc[p]
      /\ pc[c] \in Over => pc'[c] \in Over
      /\ \A d \in Clients : turn'[d] > Rounds => turn[d] > Rounds \/ pc'[d] \in Over
  <2>1. CASE Post(c)
    <3>1. /\ Busy(c) /\ Proceed(c) /\ pc[c] \in {"connect", "running"}
          /\ pc[c] = "connect" <=> turn[c] = -1
          /\ pc' = [pc EXCEPT ![c] = IF pc[c] = "connect" THEN "start"
                                     ELSE IF Todo(c).kind = "STOP" THEN "stopped"
                                     ELSE pc[c]]
      BY <2>1 DEF Post, Sending
    <3>2. /\ \A p \in Proc : p # c => turn'[p] = turn[p] /\ pc'[p] = pc[p]
          /\ pc'[c] = IF pc[c] = "connect" THEN "start"
                      ELSE IF Todo(c).kind = "STOP" THEN "stopped" ELSE pc[c]
      BY <1>1, <1>3, <3>1, NextOf DEF SimpleTypes
    <3>3. turn'[c] > Rounds => pc'[c] \in Over
      <4>1. /\ turn[c] \in Int /\ turn[c] <= Rounds /\ Rounds \in Nat
            /\ turn'[c] = turn[c] \/ turn'[c] = turn[c] + 1
        BY <1>1, <3>1, ClientNumbers DEF Busy, Proceed, ClientInv, ClientTypes
      <4>2. CASE turn[c] = Rounds
        <5>1. made[c] = 0
          BY <1>1, <4>2 DEF ClientOf, TurnOK
        <5>2. Todo(c).kind = "STOP"
          BY <4>1, <4>2, <5>1, ProgramLemma DEF Todo, Call
        <5> QED
          BY <3>1, <3>2, <4>1, <4>2, <5>2 DEF Over
      <4>3. CASE turn[c] # Rounds
        BY <4>1, <4>3
      <4> QED
        BY <4>2, <4>3
    <3> QED
      BY <1>1, <3>1, <3>2, <3>3, WhoseLemma DEF Over
  <2>2. CASE PollOne(c) \/ EnterAllreduce(c)
    BY <2>2 DEF PollOne, EnterAllreduce, startupVars
  <2>3. CASE LeaveAllreduce(c)
    <3>1. pc' = pc /\ Busy(c) /\ Proceed(c) /\ Todo(c).kind = "ALLREDUCE"
      BY <2>3 DEF LeaveAllreduce, InAllreduce, startupVars
    <3>2. \A p \in Proc : p # c => turn'[p] = turn[p]
      BY <1>1, <1>3, <3>1, NextOf
    <3>3. ~ (turn'[c] > Rounds)
      <4>1. /\ turn[c] \in Int /\ turn[c] <= Rounds /\ Rounds \in Nat
            /\ turn'[c] = turn[c] \/ turn'[c] = turn[c] + 1
        BY <1>1, <3>1, ClientNumbers DEF Busy, Proceed, ClientInv, ClientTypes
      <4>2. turn[c] # Rounds
        <5> SUFFICES ASSUME turn[c] = Rounds
                     PROVE  FALSE
          OBVIOUS
        <5>1. made[c] = 0
          BY <1>1 DEF ClientOf, TurnOK
        <5>2. Todo(c).kind = "STOP"
          BY <4>1, <5>1, ProgramLemma DEF Todo, Call
        <5> QED
          BY <3>1, <5>2
      <4> QED
        BY <4>1, <4>2
    <3> QED
      BY <3>1, <3>2, <3>3, WhoseLemma
  <2> QED
    BY <2>1, <2>2, <2>3 DEF ClientStep
<1>5. \A p \in Proc, t \in Tags : Taken(p, t)' >= Taken(p, t)
  BY <1>2, ClientNumbers
<1>6. \A p \in Proc : pc[p] \in Over => pc'[p] \in Over
  BY <1>4
<1>7. \A s \in Servers : pc'[s] \in Over => pc[s] \in Over
  BY <1>1, <1>4
<1>8. \A s \in Servers : \A d \in ClientsOf(s) : Taken(d, "DATA")' = Taken(d, "DATA")
  BY <1>2, WhoseLemma DEF Tags
<1> QED
  BY <1>2, <1>3, <1>4, <1>5, <1>6, <1>7, <1>8, StopGrows

(* A server takes what is neither a STOP nor data.                         *)
LEMMA TakesStop ==
  ASSUME Placed, ClientInv, StopInv, NEW s \in Servers, NEW c \in ClientsOf(s),
         NEW g \in {"HEADER", "BODY"}, Receive(c, g),
         pc' = pc, stops' = stops, stored' = stored
  PROVE  StopInv'
<1>1. c \in Proc /\ g \in Tags
  BY WhoseLemma DEF Tags
<1>2. /\ ClientInv' /\ Taken(c, g)' = Taken(c, g) + 1
      /\ \A p \in Proc, t \in Tags : p # c \/ t # g => Taken(p, t)' = Taken(p, t)
  BY <1>1, Receives
<1>3. ASSUME NEW p \in Proc, NEW t \in Tags
      PROVE  Taken(p, t)' >= Taken(p, t)
  <2>1. Taken(p, t) \in Nat
    BY ClientNumbers
  <2>2. Taken(p, t)' = Taken(p, t) \/ Taken(p, t)' = Taken(p, t) + 1
    BY <1>2
  <2> QED
    BY <2>1, <2>2
<1>4. \A q \in Servers : \A d \in ClientsOf(q) : Taken(d, "DATA")' = Taken(d, "DATA")
  BY <1>2, WhoseLemma DEF Tags
<1>5. config' = config /\ turn' = turn
  BY DEF Receive
<1> QED
  BY <1>2, <1>3, <1>4, <1>5, StopGrows

(* Server::OnStop: the last STOP is that of the last of its clients.       *)
LEMMA StopsAll ==
  ASSUME Placed, SimpleTypes, ClientInv, ServerInv, StopInv, NEW s \in Servers,
         NEW c \in ClientsOf(s), OnStop(s, c)
  PROVE  StopInv'
<1>1. /\ OnHeader(s, c, {"STOP"}) /\ stops' = [stops EXCEPT ![s] = stops[s] \cup {c}]
      /\ stored' = stored
      /\ IF LastToStop(s, c) THEN pc' = [pc EXCEPT ![s] = "stopped"] ELSE pc' = pc
  BY DEF OnStop, Go
<1>2. /\ config' = config /\ ClientInv'
      /\ Taken(c, "HEADER")' = Taken(c, "HEADER") + 1
      /\ \A p \in Proc, t \in Tags : p # c \/ t # "HEADER" => Taken(p, t)' = Taken(p, t)
      /\ Head(channel[c]["HEADER"]).kind = "STOP"
      /\ HeaderOf(Head(channel[c]["HEADER"]), released[s], Taken(c, "HEADER"),
                  Taken(c, "BODY"), Taken(c, "DATA"))
  BY <1>1, HeaderTaken
<1>3. s \in Proc /\ c \in Proc /\ ServerTypes /\ released[s] \in Nat /\ Rounds \in Nat
  BY StageNow
<1>4. Taken(c, "HEADER")' >= 3 * Rounds + 2
  BY <1>2, <1>3 DEF HeaderOf
<1>5. /\ stops'[s] = stops[s] \cup {c}
      /\ \A q \in Servers : q # s => stops'[q] = stops[q]
  BY <1>1, <1>3, WhoseLemma DEF ServerTypes
<1>6. turn' = turn
  BY <1>1 DEF OnHeader, Receive
<1>7. ASSUME NEW p \in Proc, NEW t \in Tags
      PROVE  Taken(p, t)' >= Taken(p, t)
  <2>1. Taken(p, t) \in Nat
    BY ClientNumbers
  <2>2. Taken(p, t)' = Taken(p, t) \/ Taken(p, t)' = Taken(p, t) + 1
    BY <1>2
  <2> QED
    BY <2>1, <2>2
<1>8. \A q \in Servers : \A d \in ClientsOf(q) : Taken(d, "DATA")' = Taken(d, "DATA")
  BY <1>2, WhoseLemma DEF Tags
<1>9. \A p \in Proc : (pc[p] \in Over => pc'[p] \in Over)
                      /\ (p # s \/ ~ LastToStop(s, c) => pc'[p] = pc[p])
  BY <1>1, <1>3 DEF SimpleTypes, Over
<1>10. LastToStop(s, c) => stops'[s] = ClientsOf(s)
  <2>1. SUFFICES ASSUME LastToStop(s, c)
                 PROVE  stops'[s] = ClientsOf(s)
    OBVIOUS
  <2>2. Cardinality(stops'[s]) = ClientsPerNode \div ServersPerNode
    BY <1>5, <2>1 DEF LastToStop
  <2>3. stops'[s] \subseteq ClientsOf(s) /\ IsFiniteSet(ClientsOf(s))
    BY <1>5, WhoseLemma DEF StopInv
  <2>4. Cardinality(ClientsOf(s)) = ClientsPerNode \div ServersPerNode
    BY Placement DEF PlacementAgrees
  <2> QED
    BY <2>2, <2>3, <2>4, FS_Subset
<1>11. \A q \in Servers : \A d \in stops'[q] :
         d \in stops[q] \/ (d \in ClientsOf(q) /\ Taken(d, "HEADER")' >= 3 * Rounds + 2)
  BY <1>4, <1>5
<1>12. \A q \in Servers : stops[q] \subseteq stops'[q]
  BY <1>5
<1>13. \A q \in Servers : pc'[q] \in Over => pc[q] \in Over \/ stops'[q] = ClientsOf(q)
  BY <1>9, <1>10, WhoseLemma
<1>14. \A p \in Proc : pc[p] \in Over => pc'[p] \in Over
  BY <1>9
<1> QED
  BY <1>1, <1>2, <1>6, <1>7, <1>8, <1>11, <1>12, <1>13, <1>14, StopGrows

(* The data is stored under the iteration whose turn it is.                *)
LEMMA DataStops ==
  ASSUME Placed, ClientInv, ServerInv, StopInv, NEW s \in Servers, OnData(s)
  PROVE  StopInv'
<1>1. PICK c : c = handling[s].client
  OBVIOUS
<1>2. PICK n : n = [client |-> c, k |-> handling[s].k,
                    from |-> Head(channel[c]["DATA"]).client,
                    of |-> Head(channel[c]["DATA"]).k]
  OBVIOUS
<1>3. /\ handling[s].awaits = "DATA" /\ Receive(c, "DATA") /\ pc' = pc /\ stops' = stops
      /\ stored' = [stored EXCEPT ![s] = stored[s] \cup {n}]
  BY <1>1, <1>2 DEF OnData
<1>4. c \in ClientsOf(s)
  BY <1>1, <1>3, HandlerOf
<1>5. s \in Proc /\ c \in Proc /\ ServerTypes /\ StageOf(s, c) /\ "DATA" \in Tags
  BY <1>4, StageNow DEF Tags
<1>6. n.client = c /\ n.k = Taken(c, "DATA")
  <2>1. n.client = c /\ n.k = handling[s].k
    BY <1>2
  <2>2. handling[s].k = Taken(c, "DATA")
    BY <1>1, <1>3, <1>5 DEF StageOf, Stage
  <2> QED
    BY <2>1, <2>2
<1>7. /\ ClientInv' /\ Taken(c, "DATA")' = Taken(c, "DATA") + 1
      /\ \A p \in Proc, t \in Tags : p # c \/ t # "DATA" => Taken(p, t)' = Taken(p, t)
  BY <1>3, <1>5, Receives
<1>8. ASSUME NEW p \in Proc, NEW t \in Tags
      PROVE  Taken(p, t)' >= Taken(p, t)
  <2>1. Taken(p, t) \in Nat
    BY ClientNumbers
  <2>2. Taken(p, t)' = Taken(p, t) \/ Taken(p, t)' = Taken(p, t) + 1
    BY <1>7
  <2> QED
    BY <2>1, <2>2
<1>9. n \in stored'[s] /\ \A q \in Servers : stored[q] \subseteq stored'[q]
  BY <1>3, <1>5, WhoseLemma DEF ServerTypes
<1>10. ASSUME NEW q \in Servers, NEW d \in ClientsOf(q)
       PROVE  \/ Taken(d, "DATA")' = Taken(d, "DATA")
              \/ /\ Taken(d, "DATA")' = Taken(d, "DATA") + 1
                 /\ \E b \in stored'[q] : b.client = d /\ b.k = Taken(d, "DATA")
  <2>1. CASE d = c
    <3>1. q = s
      BY <1>4, <2>1, WhoseLemma
    <3> QED
      BY <1>6, <1>7, <1>9, <2>1, <3>1
  <2>2. CASE d # c
    <3>1. d \in Proc
      BY WhoseLemma
    <3> QED
      BY <1>5, <1>7, <2>2, <3>1
  <2> QED
    BY <2>1, <2>2
<1>11. config' = config /\ turn' = turn
  BY <1>3 DEF Receive
<1> QED
  BY <1>3, <1>7, <1>8, <1>9, <1>10, <1>11, StopGrows

(* The steps of a server.                                                  *)
LEMMA ServerStops ==
  ASSUME Placed, SimpleTypes, ClientInv, ServerInv, StopInv, NEW s \in Servers,
         ServerStep(s)
  PROVE  StopInv'
<1>1. ASSUME NEW c \in ClientsOf(s), OnConnect(s, c) \/ OnHeaderOfBody(s, c)
                                     \/ OnNextIteration(s, c)
      PROVE  StopInv'
  <2>1. /\ Receive(c, "HEADER")
        /\ pc' = pc /\ stops' = stops /\ stored' = stored
    BY <1>1 DEF OnConnect, OnHeaderOfBody, OnNextIteration, OnHeader
  <2> QED
    BY <2>1, TakesStop
<1>2. ASSUME NEW c \in ClientsOf(s), OnStop(s, c)
      PROVE  StopInv'
  BY <1>2, StopsAll
<1>3. CASE OnWriteBody(s) \/ OnActionBody(s)
  <2>1. PICK c : c = handling[s].client
    OBVIOUS
  <2>2. /\ handling[s].awaits = "BODY" /\ Receive(c, "BODY")
        /\ pc' = pc /\ stops' = stops /\ stored' = stored
    BY <1>3, <2>1 DEF OnWriteBody, OnActionBody
  <2>3. c \in ClientsOf(s)
    BY <2>1, <2>2, HandlerOf
  <2> QED
    BY <2>2, <2>3, TakesStop
<1>4. CASE OnData(s)
  BY <1>4, DataStops
<1>5. CASE EndOfIteration(s)
  <2>1. /\ config' = config /\ pc' = pc /\ stops' = stops /\ stored' = stored
        /\ UNCHANGED clientVars
    BY <1>5 DEF EndOfIteration, startupVars
  <2> QED
    BY <1>5, <2>1, EndsWave, StopRests
<1> QED
  BY <1>1, <1>2, <1>3, <1>4, <1>5 DEF ServerStep

(* Server::OnStop, at the end: every client has sent its STOP, and it has  *)
(* been taken with all there was before it.                                *)
LEMMA BehindLemma == SessionInv /\ StopInv => NothingIsLeftBehind
<1> SUFFICES ASSUME SessionInv, StopInv, NEW s \in Servers, pc[s] \in Over,
                    NEW c \in ClientsOf(s)
             PROVE  /\ pc[c] \in Over
                    /\ \A t \in Tags : channel[c][t] = <<>>
                    /\ \A k \in 0 .. Rounds - 1 : Exists(s, c, k)
  BY DEF NothingIsLeftBehind, Over
<1>1. Placed /\ ClientInv /\ ServerInv
  BY DEF SessionInv, SegmentInv
<1>2. /\ c \in Proc /\ c \in Clients /\ StageOf(s, c) /\ Wave(s, c) \in Nat
      /\ Rounds \in Nat /\ Taken(c, "HEADER") \in Nat
      /\ Taken(c, "BODY") \in Nat /\ Taken(c, "DATA") \in Nat
  BY <1>1, StageNow
<1>3. Taken(c, "HEADER") >= 3 * Rounds + 2
  BY DEF StopInv
<1>4. \A t \in Tags : channel[c][t] \in Seq(Msg) /\ Len(channel[c][t]) \in Nat
  BY <1>1, <1>2, ClientNumbers
<1>5. TurnOK(turn[c], made[c])
  BY <1>1, <1>2 DEF ClientInv, ClientOf
<1>6. turn[c] > Rounds
  <2> SUFFICES ASSUME ~ (turn[c] > Rounds)
               PROVE  FALSE
    OBVIOUS
  <2>1. Posted(c, "HEADER") <= 3 * Rounds + 1
    BY <1>2, <1>5 DEF Posted, PostedAt, TurnOK, From
  <2>2. Posted(c, "HEADER") \in Int
    BY <1>5, PostedLemma DEF Posted
  <2>3. Taken(c, "HEADER") <= Posted(c, "HEADER")
    BY <1>4, <2>2 DEF Taken, Tags
  <2> QED
    BY <1>2, <1>3, <2>1, <2>2, <2>3
<1>7. /\ Posted(c, "HEADER") = 3 * Rounds + 2 /\ Posted(c, "BODY") = 2 * Rounds
      /\ Posted(c, "DATA") = Rounds
  BY <1>2, <1>5, <1>6 DEF Posted, PostedAt, TurnOK
<1>8. Taken(c, "HEADER") = 3 * Rounds + 2 /\ Len(channel[c]["HEADER"]) = 0
  <2>1. Len(channel[c]["HEADER"]) \in Nat
    BY <1>4 DEF Tags
  <2>2. PICK l \in Nat : l = Len(channel[c]["HEADER"])
    BY <2>1
  <2>3. PICK n \in Nat : n = 3 * Rounds + 2
    BY <1>2
  <2>4. Taken(c, "HEADER") = n - l
    BY <1>7, <2>2, <2>3 DEF Taken
  <2>5. l = 0 /\ Taken(c, "HEADER") = n
    BY <1>2, <1>3, <2>3, <2>4
  <2> QED
    BY <2>2, <2>3, <2>5
<1>9. Taken(c, "BODY") = 2 * Rounds /\ Taken(c, "DATA") = Rounds
  <2>1. PICK h : h = handling[s]
    OBVIOUS
  <2>4. PICK r \in Nat : r = Wave(s, c)
    BY <1>2
  <2>5. PICK a \in Nat : a = Taken(c, "HEADER")
    BY <1>2
  <2>6. PICK b \in Nat : b = Taken(c, "BODY")
    BY <1>2
  <2>7. PICK d \in Nat : d = Taken(c, "DATA")
    BY <1>2
  <2>2. Stage(h, c, r, a, b, d) /\ a = 3 * Rounds + 2
    BY <1>2, <1>8, <2>1, <2>4, <2>5, <2>6, <2>7 DEF StageOf
  <2>3. b = 2 * Rounds /\ d = Rounds
    BY <1>2, <2>2 DEF Stage
  <2> QED
    BY <2>3, <2>6, <2>7
<1>10. Len(channel[c]["BODY"]) = 0 /\ Len(channel[c]["DATA"]) = 0
  <2>1. PICK b \in Nat : b = Len(channel[c]["BODY"])
    BY <1>4 DEF Tags
  <2>2. PICK d \in Nat : d = Len(channel[c]["DATA"])
    BY <1>4 DEF Tags
  <2>3. PICK r \in Nat : r = Rounds
    BY <1>2
  <2>4. 2 * r = 2 * r - b /\ r = r - d
    BY <1>7, <1>9, <2>1, <2>2, <2>3 DEF Taken
  <2>5. b = 0 /\ d = 0
    BY <2>4
  <2> QED
    BY <2>1, <2>2, <2>5
<1>11. \A t \in Tags : channel[c][t] = <<>>
  BY <1>4, <1>8, <1>10, EmptySeq DEF Tags
<1>12. \A k \in 0 .. Rounds - 1 : Exists(s, c, k)
  BY <1>2, <1>9 DEF StopInv, AllStored
<1> QED
  BY <1>2, <1>6, <1>11, <1>12 DEF StopInv

(* At the start of a job nobody has stopped.                               *)
LEMMA StopFirst ==
  Placed /\ AtFirst /\ pc = [p \in Proc |-> "off"] => StopInv
<1> SUFFICES ASSUME Placed, AtFirst, pc = [p \in Proc |-> "off"]
             PROVE  StopInv
  OBVIOUS
<1>1. /\ turn = [p \in Proc |-> -1] /\ stops = [p \in Proc |-> {}]
      /\ \A p \in Proc, t \in Tags : Taken(p, t) = 0
  BY ClientFirst DEF AtFirst, Fresh
<1>2. \A c \in Clients : ~ (turn[c] > Rounds)
  BY <1>1, ProgramLemma, WhoseLemma
<1>3. \A s \in Servers : pc[s] \notin Over /\ stops[s] = {}
  BY <1>1, WhoseLemma DEF Over
<1>4. \A s \in Servers : \A c \in ClientsOf(s) : Taken(c, "DATA") = 0
  BY <1>1, WhoseLemma DEF Tags
<1>5. \A s \in Servers : AllStored(s)
  BY <1>4 DEF AllStored
<1> QED
  BY <1>2, <1>3, <1>5 DEF StopInv

(* Every step keeps it.                                                    *)
LEMMA StopKept ==
  ASSUME SessionInv, StopInv, [Next]_vars
  PROVE  StopInv'
<1>1. SegmentInv /\ Placed /\ SimpleTypes /\ ClientInv /\ ServerInv
  BY DEF SessionInv, SegmentInv
<1>2. ClientInv' /\ SessionInv'
  BY SessionKept DEF SessionInv
<1>3. ASSUME NEW p \in Proc, StartupStep(p)
      PROVE  StopInv'
  <2>1. config' = config /\ UNCHANGED clientVars /\ stops' = stops /\ stored' = stored
    BY <1>3, ConfigKept DEF StartupStep, serverVars
  <2>2. \A q \in Proc : pc'[q] \in Over <=> pc[q] \in Over
    <3>1. CASE InitializeStep(p)
      BY <1>1, <3>1 DEF InitializeStep, Begin, CreatePiece, CreateFails,
           LeaveEntityBarrier, Open, LeaveGlobalBarrier, LeaveStartBarrier, At, Go,
           Over, SimpleTypes
    <3>2. CASE Finalize(p)
      BY <1>1, <3>2 DEF Finalize, At, Go, Over, SimpleTypes
    <3> QED
      BY <1>3, <3>1, <3>2 DEF StartupStep
  <2> QED
    BY <1>1, <1>2, <2>1, <2>2, StopRests
<1>4. ASSUME NEW c \in Clients, ClientStep(c)
      PROVE  StopInv'
  BY <1>1, <1>4, ClientStops
<1>5. ASSUME NEW s \in Servers, ServerStep(s)
      PROVE  StopInv'
  BY <1>1, <1>5, ServerStops
<1>6. CASE Restart
  <2>1. AtFirst'
    BY <1>6, FirstAgain
  <2>2. config' = config /\ pc' = [p \in Proc |-> "off"]
    BY <1>6 DEF Restart, NextJob
  <2>3. Placed' /\ Proc' = Proc
    BY <1>1, <2>2, FixedLemma
  <2>4. (Placed /\ AtFirst /\ pc = [p \in Proc |-> "off"] => StopInv)'
    BY StopFirst, PTL
  <2> QED
    BY <2>1, <2>2, <2>3, <2>4
<1>7. CASE UNCHANGED vars
  <2>1. /\ config' = config /\ UNCHANGED clientVars /\ stops' = stops /\ stored' = stored
        /\ pc' = pc
    BY <1>7 DEF vars, startupVars, serverVars
  <2> QED
    BY <1>1, <1>2, <2>1, StopRests
<1> QED
  BY <1>3, <1>4, <1>5, <1>6, <1>7 DEF Next

(* A server that returns (Server::OnStop) leaves no message of its clients *)
(* behind, and has stored every block that they have written.              *)
THEOREM ServersLeaveNothing == Spec => []NothingIsLeftBehind
<1>1. Init => StopInv
  <2> SUFFICES ASSUME Init
               PROVE  StopInv
    OBVIOUS
  <2>1. SegmentInv
    BY SegmentInit DEF Init
  <2>2. Placed /\ AtFirst /\ pc = [p \in Proc |-> "off"]
    BY <2>1 DEF Init, InitStartup, AtFirst, SegmentInv
  <2> QED
    BY <2>2, StopFirst
<1>2. SessionInv /\ StopInv /\ [Next]_vars => StopInv'
  BY StopKept
<1>3. Spec => []SessionInv
  BY SessionInvariant
<1> QED
  BY <1>1, <1>2, <1>3, BehindLemma, PTL DEF Spec
=============================================================================
