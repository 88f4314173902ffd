# A verification of Damaris

Damaris takes the I/O of an MPI simulation off its hands: some cores of each node (or some nodes)
are *servers*, the others are *clients*. A client copies the blocks of its variables into a segment
of shared memory and tells its server; the server indexes them and, at the end of each iteration,
stores them, shows them, and frees them. This directory holds TLA+ models of the parts of the code
whose correctness is a matter of order (who may do what before whom), TLC configurations that check
them on small instances, and proofs for every instance. File names below are relative to `src/`.

## Inventory

Paths: `src/` is `src/src/`, `include/` is `src/include/damaris/`.

| Component | State | Operations | Talks to | What makes it correct |
|---|---|---|---|---|
| Reactor (`src/comm/MPI2Reactor.cpp`, `Reactor.cpp`) | requests with their callbacks; the tree; `sync_tags_`, `sync_counters_`, `pending_sync_tags_`, `bcast_buffers_` | `Sync`, `SyncCallback`, `Broadcast`, `BcastCallback`, `Dispatch`, `Run`, `Poll` | other reactors by MPI, the server by callbacks | no callback before everybody has called; one order everywhere; every call is answered; a broadcast reaches all or is refused |
| Channel (`include/comm/Channel.hpp`) | the number of asynchronous sends under way | `Send`, `Recv`, `AsyncSend`, `AsyncRecv` | the reactor, which it polls | the queue never exceeds its capacity and always drains; header and body stay together |
| Server (`src/server/Server.cpp`) | channels to its clients, a header buffer and a posted receive for each; static set of stop requests | `Run`, `OnHeader` and ten handlers, `EndOfIterationCallback` | clients (messages), reactor (`Sync`, `Broadcast`), variables, storage, actions | one receive per client at a time; an iteration is stored when it is complete and once; a server returns when its clients have stopped |
| Client (`src/client/Client.cpp`) | `errorOccured_` | `Write`, `Alloc`, `Commit`, `Clear`, `Signal`, `EndIteration`, `StopServer`, `Connect` | its server; the other clients by `MPI_Allreduce` | what it announces is what the server finds |
| Environment (`src/env/Environment.cpp`) | `_lastIteration_`, the static counter `locks`, known clients, placement | `Init*`, `StartNextIteration`, `AddConnectedClient`, `Finalize` | everybody (static) | an iteration of a server never gets ahead of its clients; clients and servers agree on who serves whom |
| Segment (`src/buffer/SharedMemorySegment.cpp`) | per block, a Boost allocator and a mutex with a condition | `Create`, `Open`, `Remove`, `Allocate`, `AllocateAligned`, `Deallocate`, `WaitAvailable`, `GetFreeMemory` | processes of the node, by shared memory | no wakeup lost; no range given twice; a blocking allocation returns |
| Variable, Block (`src/data/Variable.cpp`, `Block.cpp`) | `blocks_`, indexed by source, iteration and id | `Allocate` and two variants, `Retrieve`, `AttachBlock`, `DetachBlock`, `Clear...` | the segment, client, server, collector | a block has one life and one memory |
| DataSpace (`include/buffer/DataSpace.hpp`) | address, shared reference count, shared ownership flag | copy, assign, `Link`, `Unlink`, `Lose`/`GainDataOwnership` | the segment | memory is freed once, by the owner, at the last reference |
| Garbage collector (`include/gc/GarbageCollector.hpp`) | none | `Call` | variables | frees what the server owns and no more |
| Actions (`src/action/`, `include/action/`) | `GroupAction::locks_` per iteration | `Call`, `RunActions` | the server's events | a group action runs once per iteration, when all clients have fired it |
| Scripts (`src/scripts`, `ScriptManager`) | a Python interpreter | `RunScripts` | variables | |
| Storage (`src/storage/`) | files, variables per store | `Update`, `Output` | all servers, by collective HDF5 calls | all servers make the same collective calls |
| Remote and standalone clients (`src/client/`) | as a client | as a client | server by messages with the data; or none | data messages stay aligned with their headers |
| Managers, parameters, layouts (`include/util/Manager.hpp`, `src/data/`) | objects by name and id; observers | `Create`, `Search`, `Delete`; `SetValue` and the updates it triggers | each other | ids are unique; layouts follow the parameters |
| Visualisation (`src/visit`, `src/paraview`) | `visitstate_` | `Connected`, `EnterSyncSection`, `Update` | reactor (`Broadcast`), all servers | all servers enter the same collective section |
| Configuration (`src/model/`, `include/model/`), meshes, curves, logging, bindings | | | | |

What is hard here: processes that synchronise without a common clock, several tags at a time; static
counters that stand for sets of processes; receives posted in one handler and completed in another;
memory that changes owner by message; a mutex and a condition shared by processes; blocking loops and
blocking collective calls inside event handlers. `PROJECT.json` lists these hazards line by line.

## Modules

| Module | Models | Extends / uses |
|---|---|---|
| `SyncBarrier` | what `Reactor::Sync` promises: a barrier per tag | |
| `ReactorSync` | `MPI2Reactor::Sync`, `SyncCallback`, and the tree of `Init` | refines `SyncBarrier` |
| `ReactorSyncProofs` | theorems about it | `ReactorSync`, TLAPS |
| `IterationProtocol` | the end of an iteration: `Client::Write`, `EndIteration`, `StopServer`; `Server::OnHeader` and its handlers, `EndOfIterationCallback`; `StartNextIteration` | uses `SyncBarrier` among its servers |
| `ChannelLemmas` | lemmas: the messages of a kind in a channel, counted when one comes or goes | TLAPS |
| `IterationProtocolProofs` | theorems about it | `IterationProtocol`, `ChannelLemmas` |
| `SegmentAlloc` | the blocking loop of `Variable::Allocate` over `SharedMemorySegment` | |
| `SegmentAllocProofs` | theorems about it | `SegmentAlloc`, TLAPS |
| `BlockLifecycle` | a block from `Write` or `Alloc` to the collector | |
| `BlockLifecycleProofs` | theorems about it | `BlockLifecycle`, `ChannelLemmas` |
| `AtomicBroadcast` | what `Reactor::Broadcast` promises: one order of all messages, delivered everywhere | |
| `ReactorBcast` | `MPI2Reactor::Broadcast` and `BcastCallback` | refines `AtomicBroadcast` |
| `ReactorBcastProofs` | theorems about it | `ReactorBcast`, TLAPS |
| `ServerCollectives` | all that the servers do together: broadcast events, the barrier, `HDF5Store::OutputCollective`, VisIt's section, and stopping | extends `ReactorBcast`, uses `SyncBarrier`; still refines `AtomicBroadcast` |
| `ServerCollectivesProofs` | theorems about it | `ServerCollectives`, `ReactorBcastProofs` |
| `Startup` | `damaris_initialize` and `damaris_finalize`: placement, barriers, names of segments, jobs killed and started again | |
| `Session` | whole jobs: `Startup`, then clients without shared memory (`RemoteClient`) and their channels, actions of scope group, stopping | extends `Startup` |
| `SessionProofs` | theorems about it and about `Startup` | `Session`, `ChannelLemmas` |
| `MC...` | small instances for TLC | the module of that name |

**ReactorSync.** The state is the three containers of the class and the messages in flight. A handler
is one step: a process has one thread and runs one callback at a time, reads only its own state, and
its sends do not wait for the receiver. `SYNC` messages with one tag are equal, so they are counted
(`up`); `SYNC_WAVE`s go down a FIFO (`down`), since one receive is posted at a time on each channel and
MPI keeps the order of a channel. `done` and `log` are histories of the callbacks run. A callback that
calls `Sync` on its own tag is the action `SyncPending` just before the wave: the tag is still in
`sync_tags_`. `ImplementsBarrier` maps `arrived` to the synchronisations started and `released` to
`done`; messages and calls put aside are steps the barrier does not see.

**IterationProtocol.** The barrier stands for the reactor: `EndOfIteration` is `Release` and the call in
`OnNextIteration` is `Arrive` (or nothing, when a synchronisation is under way: it would be put aside
for ever, as `ReactorSyncPending` shows). `listening[c]` counts the receives posted for the next header
of `c`, all of which share one buffer. `MPI_Allreduce` is `EnterAllreduce` and the wait in
`EndIteration`. `Environment::ClientsPerNode()/ServersPerNode()` is the size of the server's group,
since `InitDedicatedCores` and `InitDedicatedNodes` refuse groups of unequal sizes. A header and its body
are one message: the body is received in the handler of its header, on the same channel.

**SegmentAlloc.** Each process walks through the loop with the program counter `pc`: first attempt,
attempt in the loop, call of `WaitAvailable`, scan of the free memory of each block under the lock, the
wait. The mutex is held from the lock to the wait; `Deallocate` is one step, under the lock of its
block. `ds` is the loop's local variable: memory that a process holds is not yet the server's to free
(`HandedOver`). Sizes are small numbers and the allocator may choose any range that fits.

**BlockLifecycle.** One client and one server with a FIFO between them. Regions of memory are model values;
a block carries the flag `owner` that its `DataSpace` has. `crashed` is the null pointer that `OnCommit`
and `OnClear` follow after reporting a missing block. `MayBegin` is the discipline of the callers that the
tests and examples follow (`examples/Example.cpp`: each block is written, or allocated, committed and
cleared, once per iteration); the code does not enforce it.

**ReactorBcast.** `buffer` is `bcast_buffers_`, `toLeader` and `toChild` the `BCAST` messages on their way to
rank 0 and down the tree. A handler is two steps: `LeaderCallback` or `ChildCallback` up to and into `MPI_Bcast`, and `Call`
from there to the end, because the process is blocked in between and others are not. `entered`, `brought` and
`called` are histories: MPI matches the n-th call of one process on the communicator with the n-th of another, so
what `Call` gives to the callback is what the root *brought* to its n-th call, whichever message that was for.
`ImplementsAtomicBroadcast` maps `pending` to what is on its way to rank 0, `order` to the calls rank 0 has
entered, and `delivered` to the callbacks; passing a message on, entering the call and a refusal are invisible to it.
A caller is never inside `MPI_Bcast` itself: the callbacks bound in `src/` do not broadcast.

**ServerCollectives.** Each server is a process of `ReactorBcast` with more handlers. `Ready` says that it is in none
(and that the reactor's loop goes on); every action of it is then one of the requests `MPI_Waitany` may return.
`Program(p, c, k)` is what client c sends p in iteration k (an event if `signals` has k, its blocks, the end; after the last
iteration the stop). All of it may be on its way from the start, since a client does not wait for its server here; so the
channel is two counters, `ended`, the ends of iterations p has handled, and `done`, the headers it has handled since.
`indexed` has, for a variable and an iteration, the clients and numbers of the blocks the server has (one key for each: the
second write of a variable that does not vary in time finds its block, `Variable::Retrieve`). `arrived` and `released` are the
barrier of `SyncBarrier`, which comes down the tree (`WaveHere`). `output` is the collective HDF5 call that
`OutputCollective` is in, or `NoCall`; the next is read off the blocks the server has then, and `fileCalls` is the history of
those it has entered. `section` is the `MPI_Bcast` of VisIt's section a server is in;
rank 0 may send any number of `PROCESS` commands, up to a bound, then the outcome. With VisIt, the server's loop is
`while(not needStop_) PollSome(100)`, which may call further handlers after the stop: `draining`.

**Startup and Session.** `pc` follows a process through `InitDedicatedCores` or `InitDedicatedNodes`; `names` holds,
for each name of a node's segment, the job that made it, and `mapped` what each process has mapped. Names survive
`NextJob`, everything else starts anew. Its client makes the calls of `Program`, turn by turn: the connection (turn -1, before the barrier
of `damaris_start`), what it sends and reduces in each iteration, the stop; `made` counts those of the present `turn`. `Post` is
`MPI_Isend`, which MPI may complete at once (its callback runs in the send) or when the message is
received (the callback then waits in `finished` until some later send polls). The three MPI tags are three queues, which
MPI keeps in order each, but not one with another. A server takes a header from any client it listens to, then stays in
`handling` until it has the body and the data of that client.
With shared memory `Session` sends only `CONNECT` and `STOP`: the messages in between are those of `IterationProtocol`.

## Runs

| Run | Instance | Shows |
|---|---|---|
| `reactor_sync` | 4 processes, radix 2 (0 - (1 - (3), 2)), two tags, called up to twice and once; 33,917 states | no callback is early, all orders agree, the barrier is implemented with its liveness; `RoundInv`, the invariant of the proofs |
| `reactor_sync_pending` | the same | **violation**: a second `Sync` on a tag under way is never initiated |
| `iteration_protocol` | 2 servers of 2 clients, one writer in each group, 2 iterations, the last may fail; 145,453 states | one receive per client, no server ends an iteration before it has handled the end of it of each client, iterations stored complete, servers return |
| `iteration_run_ahead` | one writer, the first iteration fails | **violation**: a server takes two ends of iterations of one client, and counts them for two clients, before the first of the other |
| `segment_alloc` | one block of 4 units; two processes that block (1 and 2 units), one that does not, one that asks for 5; 20,052 states | no wakeup is lost, blocking allocations return |
| `segment_composite` | two blocks of 1 unit | **violation**: freeing in block 1 does not wake who waits on block 0 |
| `segment_holding` | one block that one allocation fills | **violation**: the loop waits for memory it already holds |
| `block_lifecycle` | 2 variables (one varies in time), 2 domains, 3 regions, 2 iterations; 366,875 states, up to symmetry of the regions | no null pointer, no region shared, none lost but those of blocks left uncleared |
| `block_past_iteration` | the same, the client may name past iterations | **violation**: the server follows a null pointer |
| `server_collectives` | 3 servers in a chain, five configurations (below); 132,729 states | broadcasts agree and are atomic, files and VisIt get the same collective calls everywhere, news of VisIt is never refused, events reach everyone, servers without events return |
| `servers_stuck` | 3 servers, two of which broadcast an event, then stop | **violation**: a server that has stopped leaves the others in `MPI_Bcast` |
| `session` | five machines (below); 113,264 states | who serves whom, one segment per node and job, every job with a segment of one block starts, data under its name, one group action per iteration, a server that returns leaves no message and no block behind, every job that starts and is not killed ends |

Bounds. A tree of four has a root, an inner node, and leaves at two depths; a third round on a tag repeats
the second, and two tags are enough for two orders to disagree. Two clients per server are what it takes to
count one of them twice, and two servers to store before a neighbour has finished. Two iterations let the
messages of the second meet the first. In `segment_alloc` the two blocking processes can hold three units of
four, so one of them can always go on: the self-inflicted deadlock is the subject of `segment_holding`
alone. Three regions for four blocks per iteration make allocation fail.

A chain of three servers has a root, one that passes on, and a leaf: it is a path of the tree the program builds, and
breadth adds only independent channels. `server_collectives` runs: two iterations with events of servers 0 and 2 and no
stop; one event with one piece of news of VisIt; events with collective files and stops; two pieces of news of VisIt with
stops; two clients each, two iterations, files and stops. `MaxBroadcasts` is three: two of one tag, so that a second may be
refused, and one of the other. `MaxVisItCalls` is three, enough for a state, a command and an outcome; a second section
then follows a first connection. The variable `mesh` does not vary in time, so that the second iteration makes other calls: `Written` writes it
again there, and the server finds the block it has. What a client writes is the same at every server, which the code itself
assumes when it counts the blocks of all from its own (`Variable::CountTotalBlocks`, `Variable.cpp:69-74`).
`session` runs: two nodes of a client and a server each, and one node with a segment of two blocks, both with a job killed
at any moment, or ended, and started again; one node of four clients and two servers, where the arithmetic of placement has a
quotient above one; two clients and a server without shared memory; a dedicated node and two client nodes. A queue of two
is the smallest that sends anything (`SessionOK`: with one, a send counts itself as under way and waits for itself; with
zero every send fails): with it every send but the first finds the queue full until an earlier one is reclaimed.

CHECK_DEADLOCK is off because every
run stops when the bounded number of calls or iterations is spent.

In `iteration_protocol` only the last iteration may fail. A failure earlier is the case of
`iteration_run_ahead`, after which none of the invariants can be expected to hold: there the regular end of one client
and the end with errors of another are handled in one count, and `NoRunAhead` and `OneListener` are false as well.

What the client of `BlockLifecycle` does is the order of the examples (`examples/Example.cpp:86-96`: alloc, commit, clear, end
of the iteration), none of which the code enforces: a block is begun once per iteration, committed once, cleared after that
and in the same iteration (except in `block_past_iteration`). It need not clear. `Commit` takes the data ownership from the
client's block (`Client.cpp:179-180`) and gives the server none; only a `CLEAR` does. A client that ends the iteration
without one has no later chance, and the collector forgets the server's block without freeing it. So `NoLeak` counts a
region as kept if a side owns its block, or the server will once it gets the message that is on its way or, for a
committed block, the `CLEAR` that the client may still send; and it excepts, by name, the regions of such blocks
(`LeftUncleared`), which nobody can free any more.

Fairness. `ReactorSync` and `IterationProtocol`: each handler with a message to handle is weakly fair
(`Reactor::Run` loops on `MPI_Waitany` and a round has finitely many messages); nobody is obliged to call
`Sync`, to write or to end an iteration. `SegmentAlloc`: a process in `Allocate` goes on, the server frees
what it was given (strong fairness, since it needs the lock), and the mutex starves nobody. That the server
frees everything in the end is an assumption about the rest of the system: `BlockLifecycle` shows that memory
finds an owner as long as the client clears what it commits. Spurious wakeups are left out: the loop re-tests. A blocking allocation larger
than `max` spins for ever (`WaitRefused`), and the liveness property is stated for sizes that fit.

`ServerCollectives`: each server in its loop is weakly fair, all its handlers together (`MPI_Waitany` may prefer one request
to another as long as both come in the end, and each is posted once). MPI promises to let a process out of a collective
call once all are in it, and no more: that is all `Fairness` uses. Under that promise an event in flight and a file
being written can wait for one another (a server in `MPI_Bcast` while the rest are in `H5Fcreate`, on another
communicator), so `EventsDelivered` is stated without files and stops, and
`ServersReturnWithoutEvents` without events. `servers_stuck` grants more (`EagerSpec`: an MPI that lets a process out as
soon as it has the root's data), so that its counterexample does not rest on a slow MPI. VisIt need never be heard from.
`Session`: one weak fairness for all steps of all processes. No step of a job undoes or repeats another (each consumes a part
of a program or of a channel), so that no process can starve the others for ever; that a killed job is started again
is not assumed. `EveryJobEnds` is about each job and not only the first: from any moment on, the job that goes on ends, or
one that was started after it was killed does. It excepts jobs that fail to start, which `StartSucceeds` confines to
segments of several blocks.

## Findings

1. `MPI2Reactor.cpp:203` looks for a pending synchronisation under `tag` (`SYNC_WAVE`), not `info->tag`.
2. `Server.cpp:278-281`: a server that has got the end of an iteration means to wait for the `Sync` phase before it listens
   again, but tests for `NEXT_ITERATION` only. After an iteration with errors it hears one client twice, and
   `StartNextIteration`, which counts messages, takes the two for two clients. (The clients themselves stay within one
   `MPI_Allreduce` of one another: the other client has ended the iteration too, but its message, and the blocks before
   it, have not been handled.)
3. `SharedMemorySegment.cpp:367`: a composite segment frees under the block's size manager and waits on the first.
4. `Variable.cpp:169-172` (and 235-239, 290-294): allocate, then wait, then test.
5. `Client.cpp:197, 249`: `Commit` and `Clear` announce the current iteration, whatever iteration they were given.
6. `MPI2Reactor.cpp:122` with `Server.cpp:300-303`: a server stops when its own clients have, though a broadcast is on its
   way to it, and the others wait for it in `MPI_Bcast` (`Damaris.h.in:118-124` says servers return).

Met while reading, outside what these runs claim: a second commit of a block in one iteration, or an
allocation of it after it was cleared, makes `OnCommit` follow a null pointer (`Server.cpp:437-442`), a clear
that was not preceded by a commit does the same in `OnClear`; writing a block twice in an iteration leaks the
second region (`Variable.cpp:320-325`). `RemoveMultiBlock` (`SharedMemorySegment.cpp:308-314`), which "Removes
multiple blocks of shared memory" (`SharedMemorySegment.hpp:211-216`), stops removing at its first success: a job killed
with a segment of two blocks cannot be started again until one name is removed by hand, and with three blocks not even one
that ended well. The run `session` reaches this on its machine with two blocks: `StartSucceeds` claims success for segments
of one block, for which it is proved. A time-varying block that is committed and not cleared in its iteration is lost
(`LeftUncleared`, above). An event broadcast while one is under way is refused, and lost (`MPI2Reactor.cpp:82`).
`BcastCallback` gives the callback the size of its own announcement, not that of the data (`MPI2Reactor.cpp:125`, `count`
for `cnt`). `GroupActionOnce` leaves out the first iteration: an event may be handled before the `CONNECT` of another
client, and then counts alone (`GroupAction.hpp:80`). `OutputCollective` closes a dataset after the loop over blocks even when it
made none (`HDF5Store.cpp:509`).

## Proofs

`ReactorSyncProofs` proves, for every number of processes, every radix, every set of tags and any number of
calls, `TypeCorrect`, `RoundsKept`, `NoCallbackIsEarly`, `OrderIsUniform` and `TreeIsBarrier`. They assume
`ConstantsOK` only. None of the properties is inductive by itself: that the root has released a round says
nothing of a leaf unless one knows what the counters between them have counted. `RoundInv` says it:

- `WaveInv`: a process is behind its parent by the wave on its way, which comes once (`OnceInv`) and only to a
  process whose subtree has reported (`ComingInv`);
- `UpInv`, `CountInv`: a complete process has at most one `SYNC` in flight, and a counter is the number of
  children counted in this round, plus one once the process has called `Sync`;
- `RootInv`: the root's round is nobody's future. When the root completes, `CountInv` makes each of its children
  complete, and `TreeInduction` carries this down the tree to every process;
- `LogInv`: what a process has run, followed by what is on its way, is what its parent has run.

`NoEarlyCallback` follows from `WaveInv` and `RootInv`, `UniformOrder` from `LogInv` (every log is a prefix of the
root's), and the refinement from both. `TreeInduction` rests on the smallest element of a set of naturals
(`NatLessThanWellFounded`), since induction over an operator is not available to the provers. Liveness (that the
barrier opens, `ImplementsBarrier` with its fairness) is model-checked only.

`ReactorBcastProofs` proves `TypeCorrect`, `BroadcastsAgree` and `TreeIsAtomicBroadcast`, assuming `BcastOK`, for every number
of processes, radix, set of tags and number of calls. `BroadcastInv`, which the run checks too, is the inductive invariant:

- `PathInv`: what a parent has entered is what its child has, followed by what is in the channel between them. This is
  where the order could be lost: a process passes a message on *before* it enters the call;
- `OrderInv`: hence every process enters the calls of rank 0, in its order (each step keeps what it adds to a process a
  part of what its parent has);
- `BufferInv`: each message a process has announced and not entered has its own tag and its own buffer; it is on its way to
  rank 0, or ordered by rank 0 and on its way back, and never both. Only with the refusal in `Broadcast` is this kept;
- `BroughtInv`: so the root brings to its n-th call the buffer of the n-th message, and `CalledInv`: so the callbacks get
  what was given to `Broadcast`.

`ServerCollectivesProofs` lifts these to the servers (`ServersAgree`, `ServersRefine`): each of their handlers is a step
of `ReactorBcast` or leaves it alone. `VisItIsNeverRefused` needs an invariant of its own, which relates `visitstate_` of rank 0
to the message under way: while the tag `VISIT_CONNECTED` has a buffer, or rank 0 is in the call for one, the state is
not zero; rank 0 enters VisIt's section only from that call, and only the section resets the state.

`SectionsMatch` adds `SectionInv` for VisIt, whose processes do not count sections: rank 0's history of calls is a sequence of
sections, each from its state to the outcome of the last command (or a state that needs none); another server's n-th call is the
first of a section exactly where rank 0's n-th is, and runs at most one call ahead; and where a server is in its section is
what it has last entered. So a state never meets a command.

`FilesMatch` is about calls that nobody sends: each server reads its next HDF5 call off the blocks it has then. Its invariant
`CollectivesInv` has four parts. `HeaderInv` and `BarrierInv` say where a server is with each client: no client is listened to
beyond the wave, so between waves every client is in the iteration of the server or has just ended it. `IndexInv`: then the
server has exactly the blocks that `Written` gives for what it has handled (`HasBlock`), and at the end of an iteration this no
longer depends on the server. `FileInv`: what it has entered is in the order of `OutputCollective` (files by iteration, datasets
by variable and block), starts with the least call there is, and leaves out none in between. Two servers that differed would
differ first at some n; there each call would be the next after the same one, and there is one such. The smallest difference
is found with `NatLessThanWellFounded`, since induction over an operator is not available. `ServersTypeCorrect` follows from
the same parts.

`SegmentAllocProofs` proves `SegmentTypeCorrect`, `NobodySleepsOnFreeMemory` and `NoWakeupIsLost` from the assumptions of
`SegmentAlloc`. A process decides to sleep by looking at each block under that block's lock, and sleeps on the condition of
block 0. So the invariant is about block 0 only: whoever sleeps, or has passed block 0 on its tour, wants more than is free
there (`SleepersMissNothing`), since what is freed there wakes all. With one block that is `NoSleeperMissed`; with several it is not
(finding `segment_composite`), and the theorem says so by its hypothesis. The free memory is a cardinality, which shrinks as
ranges are taken (`FreeShrinks`).

`SessionProofs` proves `WhoServesWhom`, `SegmentsAreShared`, `JobsStart`, `DataIsOfItsHeader`, `GroupActionsOnce`,
`SessionTypeCorrect` and `ServersLeaveNothing`, assuming `StartupOK` and `SessionOK`. The first
is arithmetic: with R clients per server, x div R and the interval from R(x div R) on are two views of one division, for ranks
in a node and for ranks in the whole job. The second rests on `SegmentInv`: where each process is (`WhereOf`), what the barriers
mean for the others (`BarriersOf`: once one process has passed the first, no server is still creating; once one client
opens, every owner is done), and what has been made (`MadeOf`: past its creation a node's names are this job's, all of
them). The third adds, for one block, that a process in `create` has removed the name before. Why the second needs no
bound on what was left: `Create` refuses names that exist, so what is mapped is this job's or the process has failed.

The last four rest on one invariant, `SessionInv`, about what a client has sent and its server has taken. A client's program
fixes the j-th message it sends with each MPI tag (`Fits`), so that positions say it all:

- `ClientOf`: a channel holds the messages from position `Taken` to position `Posted`, in that order (`Content`), and the
  client's count is what is complete plus what is unbuffered in its three channels (`QueueOf`): whence the bound on the queue;
- `StageOf`: three tags travel apart, so nothing in a channel says which body belongs to which header. But a server takes
  from one client in stages: in the r-th wave it has taken 3r + 1, 2r, r of the three tags or is at one of seven other places,
  three of them inside the handler of that client. At each the next header can only be of one kind (`FitLemma`), and
  the next body and the next data are of the write whose header came: hence `StoredOf`, which is `DataMatchesHeader`;
- `WaveOf`: between two waves the server has counted the clients it no longer listens to, at a wave all of them and none;
- `GroupOf`: `GroupAction::locks_` counts the clients whose signal has come, which are sets of clients and not
  messages because each signals once (`SignalledLemma`). From the second iteration on, a signal is handled after a wave, for which
  every client has ended an iteration and so has connected: the server then knows all of its clients, and runs the action
  at the last signal. In the first that argument fails, as does the property.

`ServersLeaveNothing` adds `StopInv`. `Server::OnStop` compares the *size* of a set of clients with a quotient of the
architecture; by `Placement` that quotient is the number of the server's own clients, so that the set is all of them. A
`STOP` is message 3R + 2 of the headers of R iterations, and a server that has taken that many has, by `StageOf`, also taken
all bodies and all data; each data was stored as the block of the iteration whose turn it was (`AllStored`).

`IterationProtocolProofs` proves `Types`, `Listeners`, `ServersFollow` and `StoredIterations` from `ProtocolOK`, for every
finite set of clients, any servers and any number of iterations. The last three need `LateFailures`, that allocations fail
in the last iteration only; after an earlier failure they are false (the case of `iteration_run_ahead`). The invariant `IInv`
ties together what the code keeps in four places that never compare notes:

- `AgreeInv`: clients are at most one reduction apart, so a reduction that finds an error is one from which no client has
  come back;
- `ChannelInv`: what may lie between a client and its server; a message of errors is the last end of an iteration in it;
- `ServedInv`: a server listens to a client once for each barrier it has passed, less the ends of that client it has
  handled (`Syncs`: the failed one is not synchronised). So it does not listen to a client that is ahead of it;
- `ServerInv`: hence its counter of *messages* is the number of *clients* that are ahead of it, and reaches the size of the
  group when all are. The barrier has then been passed for the iterations before, so that `Sync` is never called while one
  is under way, which `ReactorSync` shows would be lost.

`ChannelLemmas` counts the ends of iterations in a channel when a message comes or goes.

`BlockLifecycleProofs` proves `BlockTypes`, `Survives`, `MemoryIsKept` and `MemoryIsNotShared` from `LifecycleOK`, for any
variables, domains, regions and number of iterations, with and without the collector. They need `~ AnyIteration`, that
the client commits and clears blocks of its present iteration only: otherwise the server may follow a null pointer (finding
`block_past_iteration`), and nothing is claimed. The discipline of `MayBegin` is part of the model. The invariant `IInv` follows a block through
what the two sides and the channel say of it:

- `MessagesInv`: a message about a block carries the iteration in which it was sent, which is the client's less the ends
  of iterations behind it. So what is behind the end of an iteration is about a later one, and `EndStep` concludes that the
  collector takes no block that a message on its way is about;
- `UniqueInv`: a key is begun once, so each side has one block for it, one message brings it and one clears it;
- `WriteInv`, `CommitInv`, `ClearInv`, `ClientInv`, `ServerInv`: who holds the block while it is written, committed and
  cleared. While a `COMMIT` is on its way the server has no block of its key; a `CLEAR` finds the block at the server, or its `COMMIT` before it;
  memory that the server does not own is the client's or a `CLEAR` is on its way;
- `RegionInv`: a region is free, or someone refers to it and all who do mean one key. Each step gives the region to
  another holder of the same key, or (`EndStep`) frees one that only the collected block refers to.

That someone refers to a region is not enough for `MemoryIsKept`: a client that has committed a block refers to it and
cannot free it. `NoLeakLemma` finds the owner: what the client has not committed it owns (`OwnerInv`); what it has, and may
still clear, the server has under the same key and with the same region, or a `COMMIT` brings it (`ClientInv`, `ServerInv`,
`CommitInv`, `UniqueInv`); what the server has without owning it a `CLEAR` is about, or such a block of the client. What
remains is `LeftUncleared`.

Every invariant and every step property that a run checks is proved, for all values of the constants, under the named assumptions
and the hypotheses above. Only model-checked: liveness (`EveryAllocationReturns`, `ServersReturn`, `EventsDelivered`,
`ServersReturnWithoutEvents`, `EveryJobEnds`, and the fairness of `ImplementsBarrier`), which is out of the provers' reach; and the
six runs that expect a violation, whose counterexamples are their own proof.

## Not modelled

`Dispatch` (only a test calls it), `SetPosition`, sends with a callback of the caller, the reference counts of `DataSpace`,
`RemoteClient::Alloc` and `Commit`, `StandaloneClient` (a process without servers), the standalone mode of `Environment`,
containers by name (`Manager`), parameters and layouts: left, or local to one process. The plugin and Python loaders, meshes,
curves, the data given to ParaView and VisIt, HDF5 types and dataspaces, XML parsing, logging, Fortran bindings: libraries
and conversions without a protocol of their own.

The map covers a small share of the repository's lines. Some twenty thousand lines, more than a third, are `Model.cpp` and
`Model.hpp`, generated from the XML schema and present twice; another large part is example code of VisIt and other
simulations, which calls the library and is no part of it; and much of the rest converts data for HDF5, VTK and VisIt. The
protocols of the library proper (reactor, server, client, environment, segment, variables) are some six thousand lines,
and it is these the modules translate.

## Plan

1. Done: synchronisation, iteration protocol, allocation, life of a block; broadcasts; the collective work of the servers;
   placement, start-up, restart after a kill; the session of remote clients with its bounded queue and group actions; the
   proofs about synchronisation, broadcasts, the servers' collective work, the iteration protocol, allocation, the life of a
   block, the start-up and the session.
2. Left to model: reference counts of `DataSpace`; `RemoteClient::Alloc` and `Commit`; the standalone client with VisIt's
   section entered by some processes only; observers of parameters.
3. Left to prove: that `Session`, `IterationProtocol` and `ServerCollectives`, which share the barrier and the end of an
   iteration, keep to one abstract iteration of a server, so that what is shown of one can be used for the others.
