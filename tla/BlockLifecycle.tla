--------------------------- MODULE BlockLifecycle ---------------------------
(***************************************************************************)
(* The life of a block of a variable in shared memory, between a client    *)
(* and its server: Client::Write, Alloc, Commit, Clear and EndIteration,   *)
(* Server::OnWrite, OnCommit, OnClear and the garbage collector.  Each     *)
(* side indexes blocks by iteration and domain id (the container of        *)
(* Variable); a block knows whether its side has to free its memory (the   *)
(* data ownership of its DataSpace).                                       *)
(*                                                                         *)
(* One client: its server keeps the blocks of different sources apart.     *)
(* Memory is a set of regions, each of the size of a block; waiting for    *)
(* one is the matter of SegmentAlloc, the end of an iteration that of      *)
(* IterationProtocol.  A message is its header and its body.               *)
(***************************************************************************)
EXTENDS Integers, Sequences, FiniteSets

CONSTANTS
  Vars,          \* the variables
  TimeVarying,   \* those declared time-varying
  Domains,       \* domain ids
  Regions,       \* regions of the shared memory segment
  MaxIter,       \* bound: iterations of the client
  Collects,      \* RunActions collects garbage (HAVE_PYTHON_ENABLED)
  AnyIteration   \* the client also commits and clears past iterations

NoRegion == "none"
NoVar == "none"

ASSUME LifecycleOK ==
  /\ TimeVarying \subseteq Vars
  /\ NoRegion \notin Regions
  /\ MaxIter \in Nat
  /\ Collects \in BOOLEAN
  /\ AnyIteration \in BOOLEAN

VARIABLES
  clientIter,     \* _lastIteration_ of the client
  errorOccured,   \* errorOccured_
  clientBlocks,   \* blocks_ of the client's variables
  begun,          \* history: what the client has written or allocated
  chan,           \* messages to the server, in order
  serverIter,     \* _lastIteration_ of the server
  serverBlocks,   \* blocks_ of the server's variables
  free,           \* regions the allocator can give
  crashed         \* the server has followed a null pointer

clientVars == <<clientIter, errorOccured, begun>>
vars == <<clientVars, clientBlocks, chan, serverIter, serverBlocks, free, crashed>>

(* The iteration a variable's blocks are indexed under.                    *)
IndexIter(v, k) == IF v \in TimeVarying THEN k ELSE 0

Block(v, k, d, r, owner, readOnly) ==
  [var |-> v, iter |-> IndexIter(v, k), id |-> d, region |-> r, owner |-> owner,
   readOnly |-> readOnly]

Msg(type, v, k, d, r) ==
  [type |-> type, var |-> v, iter |-> k, id |-> d, region |-> r]

(* Variable::GetBlock: the block of v indexed under k and d, if any.       *)
GetBlock(blocks, v, k, d) ==
  {b \in blocks : b.var = v /\ b.iter = IndexIter(v, k) /\ b.id = d}

Key(b) == <<b.var, b.iter, b.id>>

(* Client::Write, Commit, Clear and Signal: AsyncSend of header and body.   *)
Send(m) == chan' = Append(chan, m)
----------------------------------------------------------------------------
Init ==
  /\ clientIter = 0
  /\ errorOccured = FALSE
  /\ clientBlocks = {}
  /\ begun = {}
  /\ chan = <<>>
  /\ serverIter = 0
  /\ serverBlocks = {}
  /\ free = Regions
  /\ crashed = FALSE
----------------------------------------------------------------------------
(* The client.  A simulation writes each block once per iteration, and one *)
(* that does not vary once (the warning of Variable::Allocate); it commits *)
(* what it has allocated, then may clear it.                               *)
MayBegin(v, d) ==
  /\ clientIter < MaxIter
  /\ v \notin TimeVarying => clientIter = 0
  /\ <<v, clientIter, d>> \notin begun

(* Variable::Allocate finds the block indexed already.                     *)
Exists(v, d) == GetBlock(clientBlocks, v, clientIter, d) # {}

Write(v, d) ==
  /\ MayBegin(v, d)
  /\ ~ Exists(v, d)
  /\ begun' = begun \cup {<<v, clientIter, d>>}
  /\ \E r \in free :
       /\ free' = free \ {r}
       /\ Send(Msg("WRITE", v, clientIter, d, r))
  /\ UNCHANGED <<clientIter, errorOccured, clientBlocks, serverIter,
                 serverBlocks, crashed>>

(* Write does not wait for memory: it only remembers the error.            *)
WriteFails(v, d) ==
  /\ MayBegin(v, d)
  /\ Exists(v, d) \/ free = {}
  /\ begun' = begun \cup {<<v, clientIter, d>>}
  /\ errorOccured' = TRUE
  /\ UNCHANGED <<clientIter, clientBlocks, chan, serverIter, serverBlocks,
                 free, crashed>>

(* Alloc waits for memory.                                                 *)
Alloc(v, d) ==
  /\ MayBegin(v, d)
  /\ ~ Exists(v, d)
  /\ begun' = begun \cup {<<v, clientIter, d>>}
  /\ \E r \in free :
       /\ free' = free \ {r}
       /\ clientBlocks' = clientBlocks \cup {Block(v, clientIter, d, r, TRUE, FALSE)}
  /\ UNCHANGED <<clientIter, errorOccured, chan, serverIter, serverBlocks,
                 crashed>>

(* The iterations the client names in Commit and Clear.                    *)
Named(k) == AnyIteration \/ k = clientIter

(* Variant: the message is numbered from 1.                                *)
CommitOffByOne(v, k, d) ==
  /\ Named(k)
  /\ \E b \in GetBlock(clientBlocks, v, k, d) :
       /\ ~ b.readOnly
       /\ clientBlocks' = (clientBlocks \ {b}) \cup
            {[b EXCEPT !.readOnly = TRUE, !.owner = FALSE]}
       /\ Send(Msg("COMMIT", v, clientIter + 1, d, b.region))
  /\ UNCHANGED <<clientVars, serverIter, serverBlocks, free, crashed>>

(* One commit per block, as the simulation does it.  The message carries   *)
(* the client's iteration and not the one named.                           *)
Commit(v, k, d) ==
  /\ Named(k)
  /\ \E b \in GetBlock(clientBlocks, v, k, d) :
       /\ ~ b.readOnly
       /\ clientBlocks' = (clientBlocks \ {b}) \cup
            {[b EXCEPT !.readOnly = TRUE, !.owner = FALSE]}
       /\ Send(Msg("COMMIT", v, clientIter, d, b.region))
  /\ UNCHANGED <<clientVars, serverIter, serverBlocks, free, crashed>>

(* The block leaves the client's index, its memory does not move.  The     *)
(* message carries the client's iteration.                                 *)
Clear(v, k, d) ==
  /\ Named(k)
  /\ \E b \in GetBlock(clientBlocks, v, k, d) :
       /\ b.readOnly        \* committed: the caller's order, not a check
       /\ clientBlocks' = clientBlocks \ {b}
       /\ Send(Msg("CLEAR", v, clientIter, d, NoRegion))
  /\ UNCHANGED <<clientVars, serverIter, serverBlocks, free, crashed>>

EndIteration ==
  /\ clientIter < MaxIter
  /\ clientIter' = clientIter + 1
  /\ Send(Msg(IF errorOccured THEN "NEXT_ITERATION_ERR" ELSE "NEXT_ITERATION",
              NoVar, 0, 0, NoRegion))
  /\ errorOccured' = FALSE
  /\ UNCHANGED <<clientBlocks, begun, serverIter, serverBlocks, free, crashed>>
----------------------------------------------------------------------------
(* The server *)

(* Variant: a message overtakes those sent before it.                      *)
ReceiveAny(m) ==
  /\ ~ crashed
  /\ \E i \in DOMAIN chan :
       /\ m = chan[i]
       /\ chan' = SubSeq(chan, 1, i-1) \o SubSeq(chan, i+1, Len(chan))

(* m is the next message from the client.                                  *)
Receive(m) ==
  /\ ~ crashed
  /\ chan # <<>>
  /\ m = Head(chan)
  /\ chan' = Tail(chan)

(* Variable::Retrieve: index the region under the key of the message,      *)
(* unless a block is there already (the region is then forgotten); the     *)
(* handler then sets the ownership and the read-only flag.                 *)
Retrieve(m, owner, readOnly) ==
  serverBlocks' =
    IF GetBlock(serverBlocks, m.var, m.iter, m.id) # {}
    THEN serverBlocks
    ELSE serverBlocks \cup
           {Block(m.var, m.iter, m.id, m.region, owner, readOnly)}

OnWrite(m) ==
  /\ m.type = "WRITE"
  /\ Receive(m)
  /\ Retrieve(m, TRUE, FALSE)
  /\ UNCHANGED <<clientVars, clientBlocks, serverIter, free, crashed>>

(* Variant: a committed block belongs to the server, as a written one.     *)
OnCommitOwning(m) ==
  /\ m.type = "COMMIT"
  /\ Receive(m)
  /\ Retrieve(m, TRUE, TRUE)
  /\ UNCHANGED <<clientVars, clientBlocks, serverIter, free, crashed>>

(* The client keeps the block.  When Retrieve returns nothing the handler  *)
(* reports it and uses the null pointer all the same.                      *)
OnCommit(m) ==
  /\ m.type = "COMMIT"
  /\ Receive(m)
  /\ Retrieve(m, FALSE, TRUE)
  /\ crashed' = (GetBlock(serverBlocks, m.var, m.iter, m.id) # {})
  /\ UNCHANGED <<clientVars, clientBlocks, serverIter, free>>

(* The server is now the one to free the memory.                           *)
OnClear(m) ==
  LET found == GetBlock(serverBlocks, m.var, m.iter, m.id) IN
  /\ m.type = "CLEAR"
  /\ Receive(m)
  /\ serverBlocks' = (serverBlocks \ found) \cup 
                      {[b EXCEPT !.owner = TRUE, !.readOnly = FALSE] : b \in found}
  /\ crashed' = (found = {})
  /\ UNCHANGED <<clientVars, clientBlocks, serverIter, free>>

(* Variant: erase those of variables that do not vary as well.             *)
CollectAll(k) ==
  LET old == {b \in serverBlocks : b.iter <= k} IN
  /\ serverBlocks' = serverBlocks \ old
  /\ free' = free \cup {b.region : b \in {o \in old : o.owner}}

(* GarbageCollector::Call, ClearUpToIteration: erase the time-varying      *)
(* blocks up to iteration k, and free the memory of those that are owned.  *)
CollectUpTo(k) ==
  LET old == {b \in serverBlocks : b.var \in TimeVarying /\ b.iter <= k} IN
  /\ serverBlocks' = serverBlocks \ old
  /\ free' = free \cup {b.region : b \in {o \in old : o.owner}}

(* The end of an iteration: stored, and collected by the actions RunActions*)
(* calls when the build has them.                                          *)
OnNextIteration(m) ==
  /\ m.type = "NEXT_ITERATION"
  /\ Receive(m)
  /\ serverIter' = serverIter + 1
  /\ IF Collects THEN CollectUpTo(serverIter) ELSE UNCHANGED <<serverBlocks, free>>
  /\ UNCHANGED <<clientVars, clientBlocks, crashed>>

(* The #error action is the collector unless the configuration names       *)
(* another, and there always is one (ActionManager::Init).                 *)
OnNextIterationWithErrors(m) ==
  /\ m.type = "NEXT_ITERATION_ERR"
  /\ Receive(m)
  /\ serverIter' = serverIter + 1
  /\ CollectUpTo(serverIter)
  /\ UNCHANGED <<clientVars, clientBlocks, crashed>>

ClientNext ==
  \/ \E v \in Vars, d \in Domains : Write(v, d)
  \/ \E v \in Vars, d \in Domains : WriteFails(v, d)
  \/ \E v \in Vars, d \in Domains : Alloc(v, d)
  \/ \E v \in Vars, k \in 0..MaxIter, d \in Domains : Commit(v, k, d)
  \/ \E v \in Vars, k \in 0..MaxIter, d \in Domains : Clear(v, k, d)
  \/ EndIteration

ServerNext ==
  \E i \in DOMAIN chan :
    \/ OnWrite(chan[i])
    \/ OnCommit(chan[i])
    \/ OnClear(chan[i])
    \/ OnNextIteration(chan[i])
    \/ OnNextIterationWithErrors(chan[i])

Next == ClientNext \/ ServerNext

Spec == Init /\ [][Next]_vars
----------------------------------------------------------------------------
Blocks == [var : Vars, iter : 0..MaxIter, id : Domains, region : Regions,
           owner : BOOLEAN, readOnly : BOOLEAN]

Messages ==
  [type : {"WRITE", "COMMIT", "CLEAR", "NEXT_ITERATION", "NEXT_ITERATION_ERR"},
   var : Vars \cup {NoVar}, iter : 0..MaxIter, id : Domains \cup {0},
   region : Regions \cup {NoRegion}]

TypeOK ==
  /\ clientIter \in 0..MaxIter
  /\ errorOccured \in BOOLEAN
  /\ clientBlocks \subseteq Blocks
  /\ begun \subseteq Vars \X (0..MaxIter) \X Domains
  /\ chan \in Seq(Messages)
  /\ serverIter \in 0..MaxIter
  /\ serverBlocks \subseteq Blocks
  /\ free \subseteq Regions
  /\ crashed \in BOOLEAN

(* The server finds what the client talks about: no Commit hits a block    *)
(* indexed before, no Clear a block that is not there.  Both handlers only *)
(* report a missing block, then follow the null pointer (OnCommit, OnClear;*)
(* Damaris.h.in:228-231 lets a client clear the block of any iteration).   *)
(* It holds of clients that keep to an order the code does not enforce: a  *)
(* block is begun once (MayBegin), committed once, cleared after that, and *)
(* both in its own iteration (~ AnyIteration).                             *)
ServerSurvives == ~ crashed

InFlight == {chan[i] : i \in DOMAIN chan}

(* The key of the block that a message is about.                           *)
MKey(m) == <<m.var, IndexIter(m.var, m.iter), m.id>>

(* What the server has without owning it, or is about to have.             *)
Committed ==
  {<<b.region, Key(b)>> : b \in {s \in serverBlocks : ~ s.owner}}
  \cup {<<m.region, MKey(m)>> : m \in {n \in InFlight : n.type = "COMMIT"}}

(* The client can still call Clear for its block b.                        *)
MayClear(b) ==
  b.readOnly /\ \E k \in 0..MaxIter : Named(k) /\ b.iter = IndexIter(b.var, k)

(* A Clear of this key is on its way, or may come.                         *)
ClearComes(key) ==
  \/ \E m \in InFlight : m.type = "CLEAR" /\ MKey(m) = key
  \/ \E b \in clientBlocks : Key(b) = key /\ MayClear(b)

(* Regions that have someone to free them: one side owns the block (and    *)
(* frees the memory with it), or the server will, when it gets what was    *)
(* written or the Clear of what it knows as committed.  The client's index *)
(* is no such thing: Commit takes the ownership away from it.              *)
Accounted ==
  {b.region : b \in {o \in clientBlocks \cup serverBlocks : o.owner}}
  \cup {m.region : m \in {n \in InFlight : n.type = "WRITE"}}
  \cup {x[1] : x \in {y \in Committed : ClearComes(y[2])}}

(* Regions of blocks that the client has committed and can clear no more:  *)
(* time-varying ones that it had not cleared at the end of their iteration.*)
(* It does not own them, and the collector forgets the server's block      *)
(* without freeing what that does not own: they are lost.                  *)
LeftUncleared == {b.region : b \in {c \in clientBlocks : c.readOnly /\ ~ MayClear(c)}}

(* No memory is lost but that: whatever becomes of a block (written,       *)
(* committed, cleared, collected after an iteration or after an error), a  *)
(* region that is not free will find its owner, unless the client ends an  *)
(* iteration without the Clear that gives it to the server (OnClear,       *)
(* GarbageCollector; Damaris.h.in:211-217, Example.cpp:86-96).  The client *)
(* keeps to the order of ServerSurvives.                                   *)
NoLeak == Regions \subseteq free \cup Accounted \cup LeftUncleared

(* No memory has two lives: a region that a block or a message refers to   *)
(* is not free, and all who refer to it mean the same block: the collector *)
(* never frees what the client still holds (OnCommit, GarbageCollector).   *)
NoSharing ==
  LET refs == {<<b.region, Key(b)>> : b \in clientBlocks \cup serverBlocks}
              \cup {<<m.region, MKey(m)>> : m \in {n \in InFlight : n.region # NoRegion}}
  IN  /\ \A x \in refs : x[1] \notin free
      /\ \A x, y \in refs : x[1] = y[1] => x[2] = y[2]
============================================================================
