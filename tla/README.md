# DungeonSync in TLA+

DungeonSync is a C++20 client and server for Windows: a Direct3D 11 client that
plays a small dungeon, streams textures in the background, measures itself, and
has its movement approved by a server over TCP. This directory holds
specifications of its stateful parts, the TLC configurations that check them on
small instances, and proofs, for every value of the constants, of nearly all
their safety properties.

    tlc -workers 2 -config MCAsyncTextureLoader.cfg MCAsyncTextureLoader
    tlapm AsyncTextureLoader_proofs.tla

`PROJECT.json` lists the components, the runs, the hazards at their lines, and
for every definition the lines it was translated from. Source paths below are
relative to `src/`.

## Inventory

**The client's main thread** (`Client/Application.cpp`, `Run`) drives
everything. A frame does, in this order: record the last frame's time;
`TextureResourceManager::Update`; put a finished texture set on the ground; the
keys (1-6 stress scene, 9 load at once, 0 stream, = default ground, 7 and 8 start
and cancel a benchmark session); update the session; R restarts the dungeon;
update the scene; send the move; consume the server's answer; render; record.
There are two more threads, the texture worker and the network receiver, and one
other process, the server.

| Component | State | Operations | Interacts by | What is hard |
|---|---|---|---|---|
| `AsyncTextureLoader` | two queues, the pending paths, ids, byte and failure counters, flags, the worker's locals | `Start`, `Request`, `TryPopCompleted`, `Stop`; the worker loop | one mutex, two condition variables, `join` | lost wakeups (both notifications are sent after the unlock), a stop racing a full queue, order and bookkeeping across two threads |
| `TextureResourceManager` | the cache: path to state, id, texture | `Start`, `RequestAsync`, `Update`, `Stop` | calls the loader; results come back matched by path and id | stale results, retry after a failure, an upload that fails after a decode that succeeded |
| Texture streaming in `Run` | the ground override, whether the ready set was shown | keys 9, 0, = and the check at the top of a frame | the cache, the renderer, the benchmark session | results that arrive after the user went on; the override outliving the cache |
| `DungeonController` | the rooms' states, the current room, event flags | `Update`, `Restart`, `Consume...` | called by the scene up to three times a frame | one flag stands for several events; the room changes in the middle of a frame |
| `DemoScene`, `SpriteEffectPool` | monsters, player, effects, what is drawn | `Update`, `RestartDungeon`, `ReconcilePlayerPosition` | the controller; the grid; the server's answers | dead monsters of the old room while the new one is updated; a grid rebuilt only with the room; counts kept apart from slots |
| `SpatialGrid`, `CombatSystem` | the cells: packed key to slots | `Rebuild`, `Query`; the two attacks | called by the scene | negative cells in a packed key, edges of cells, the dead still listed |
| `TcpClient`, `ServerStateReceiver`, `Packet.h`, the server | the socket, a mailbox of size one, sequence numbers, the approved position | connect, send, receive, `TryConsumeLatest`, `Stop`; receive, validate, approve, answer | packets in order; a shared socket; `join` | partial `send` and `recv`, answers overwritten before they are seen, both directions full, a connection that breaks inside a packet |
| `BenchmarkSession`, `FrameTimeProfiler`, stress scene, GPU queries of `D3D11Renderer` | phase, scenario, sample rings, query sets with generations, VSync, mode, the counts of the last frame | keys 1-8, `Update`, `Render`, `CaptureSnapshot` | the frame loop; the GPU, frames later | answers that belong to an earlier measurement, query sets that stay taken, the user's keys against the session, ranks and rings at their edges |
| The instance buffer of `D3D11Renderer` | capacity, the buffer | `EnsureInstanceBufferCapacity`, `Render` | the number of items of a frame | two overflow checks of different widths, a growth that fails |
| `wWinMain`, start and end of `Application`, `Window`, `WinsockRuntime`, `TcpListener`, `D3D11Renderer::Initialize`, `DiagnosticsOverlay::Initialize` | what has been made and is still alive | start, message loop, destructors in the reverse order of the members | threads, COM, Winsock, the window's messages | a failure at any step with a thread blocked in `recv`; COM left before what needs it; a server that serves someone else |
| CSV writer, what the overlay draws, memory sampler, shaders, project site | none that decides anything above | output | | not modelled, see below |

What makes each correct, in a sentence:

- the loader is a first-in first-out line seen from its caller, it loses no
  wakeup, and `Stop` always returns and leaves nothing behind;
- an entry of the cache waits exactly while the loader owes it a result;
- the streamed ground is shown when, and only when, the whole set is there and
  the user asked for it last;
- rooms are cleared in order by their own monsters and announced once, and a
  fight can always go on;
- the grid changes no outcome of an attack;
- packets come out whole and in order, the newest answer under way is the
  server's state, and acting on it makes client and server agree;
- nothing is in use without what it stands on, and client and server end clean;
- a saved benchmark result holds samples and counts of its own scenario only.

## Modules

| Module | Models | Built on |
|---|---|---|
| `AsyncTextureLoader` | the loader with both threads | |
| `LoaderContract` | what the loader promises, without threads, locks and queues | |
| `TextureResourceManager` | the cache over the whole loader | `AsyncTextureLoader` |
| `TextureStreaming` | the frame loop's streaming over the whole cache | `TextureResourceManager` |
| `DungeonController` | the rooms; its `Update` is an operator, for the scene calls it three times | |
| `DemoScene` | the scene over the rooms | `DungeonController` |
| `GridCombat` | grid and attacks with their geometry | |
| `PacketLine` | what one direction of the connection promises | |
| `TcpFraming` | the loops over `send` and `recv`, the packets field by field | implements `PacketLine`, twice |
| `MoveSync` | client, receive thread, socket and server, over lines of whole packets | |
| `ClientLifecycle` | start and end of client and server, with a failure at each step | |
| `BenchmarkRun` | session, profilers, stress scene, GPU queries, counts and the keys | |
| `FrameTimeStatistics` | the ring of samples and its snapshot | |
| `InstanceBuffer` | the growth of the instance buffer | |
| `AsyncTextureLoader_proofs`, `TextureResourceManager_proofs`, `TextureStreaming_proofs` | theorems of the loader, the cache and the streaming, each on top of the one before | the module of that name, TLAPS |
| `DemoScene_proofs`, `MoveSync_proofs`, `TcpFraming_proofs`, `BenchmarkRun_proofs` | the theorems of one module each | the module of that name, TLAPS |
| `Algorithms_proofs` | the theorems of the grid, the statistics and the buffer | `GridCombat`, `FrameTimeStatistics`, `InstanceBuffer`, TLAPS |
| `MC...` | small instances: which names spell which path, which rooms, which scenarios; `MCAlgorithms` runs the last two and `GridCombat`, one at a time | the module of that name |

### How state and actions correspond to the code

Variables carry the names of the members they stand for, without the underscore.
Variables marked "history" in their comment are not in the code and decide nothing.
Definitions called `Mutant...` are not part of a specification: each is a wrong
form of the definition below it, with which the property it is meant for fails.

*Loader.* A critical section is one step, because one mutex protects all shared
state. A notification is a step of its own after it, because the code sends it
after the unlock. A thread asleep on a condition variable is a value of `worker`
(`RequestWait`, `SpaceWait`); a notification or a spurious wakeup moves it to the
test of its predicate. Decoding touches nothing shared and ends where the second
critical section begins, so that `WorkerDecodes` is that section up to the wait,
and `WorkerRetests` the same from a wakeup on; `HandOver` is what the two share.
The decoder may not come up, and the thread constructor may throw. `Lexical` is
`path::lexically_normal`, as a function with two spellings of one path. Images
are sizes; durations are left out.

*Cache.* `RequestAsync` and `Update` contain a call of the loader that ends with
its notification, so that the worker may run before the cache's own assignment:
each is two actions, as in the code. States that exist only inside one call
(`Loading`, `ReadyForUpload`) are passed over.

*Streaming.* The main thread is split where it calls the cache. Several keys may
act in one frame, in the order of the code. The benchmark session is a flag
here. `Quit` is the ordinary end, `Abort` the early return of `Run` when a move
cannot be sent, where destructors stop the cache and the override is not taken
back.

*Scene.* A frame is five actions in the order of `DemoScene::Update`. One
coordinate stands for two. The monsters an attack reaches are any subset of the
living ones in the grid; health counts attacks survived. A jump may land in any
frame.

*Grid and attacks.* `GridCombat` has the geometry the scene leaves open, over
integer coordinates finer than a cell: the cells a square touches, the packed
key with a reduced width, the circle and the cone (the cosine of 45 degrees
becomes a comparison of squares). `TimesFound` counts how often a query lists a
monster, because an attack strikes once per listing. `ApplyAreaAttack`, which has
no caller, looks at every monster and is the reference.

*Movement.* In `MoveSync` packets are whole and the connection is two bounded
lines. One coordinate stands for two, one step outside the world for everything
the server rejects by its bounds, non-finite numbers included. The allowed
distance, which depends on the time since the last packet, is a choice. Distances
of zero and beyond, sending, not sending, and a send after the server is gone
that still succeeds are all possible.

*Framing.* `TcpFraming` splits those packets: one action is one round of one of
the four loops, and a call of `send` or `recv` moves any part but nothing. The
unit is a field of the packet, so that a cut inside a field does not occur; a
field is in network byte order, so that a missing conversion does. The two
processes are taken to be little-endian, as on Windows. What the answer says is
left open there. `ImplementsLine` maps the handed and the decoded packets of each
direction to `PacketLine`.

*Lifecycle.* The start is one action per call that can fail, each with its early
return; `Initialization` lists what `D3D11Renderer::Initialize` makes and from
what. Leaving is a list of steps: the end of `Run`, if it got there, then the
destructors of `Members` in reverse, then COM. Both threads and the server run
beside it; what they do while they live is reduced to where they can block.
`PostQuitMessage`, `WM_CLOSE` and the order of messages are as Win32 has them. A
server serves the client it accepted first, which may be another one.

*Benchmark.* A sample is abstracted to the measurement its frame belonged to, or
0 for none. The generation of a query is abstracted to whether it is the present
one, since generations only grow. `Draw` may give up where the buffer of the
camera or that of the items cannot be mapped, and `Counts` says what it leaves in
the statistics; the early return for no items at all is left out, because the
scene always draws the player. A GPU answer with equal timestamps, which the code
treats as valid and the profiler then refuses because it is not positive, is not
modelled.

*Statistics and buffer.* Milliseconds and percents are integers; the rank of
`CaptureSnapshot`, computed in floats, is the integer ceiling for the code's
percentiles (95 and 99) and every count up to 600. `Sorted` is what `std::sort`
promises: the same samples in an order in which they do not fall, chosen among the
rearrangements and not computed by any algorithm. `InstanceBuffer` has the two
widths, of `std::size_t` and of `UINT`, as constants; the cast of the size in
bytes to `UINT` is a remainder. The requests of the present callers (at most
10000 items of 96 bytes) stay far from either limit; the function is checked, and
proved, for every request.

## Runs

| Run | Module | Distinct states | Shows |
|---|---|---|---|
| `MCAsyncTextureLoader` | loader | 649,870 | order, pending paths, memory account, wakeups, clean stop, refinement of `LoaderContract` |
| `MCAsyncTextureLoaderLive` | loader | 8,605 | `Stop` returns; an accepted request is served |
| `MCTextureResourceManager` | cache | 119,679 | cache and loader agree through failures and retries; statistics reconcile; `Ready` is kept; a queued entry is resolved |
| `MCTextureStreaming` | streaming | 54,546 | the ground against late results, keys, both ways of ending |
| `MCDemoScene` | scene | 30,492 | rooms in order, by their own monsters, announced once; a fight can go on; effects counted exactly |
| `MCMoveSync` | movement | 395,919 | newest answer is current; correction agrees; a send does not block for ever |
| `MCTcpFraming` | framing | 57,649 | refinement of `PacketLine` in both directions; nothing is taken for malformed; packets arrive |
| `MCClientLifecycle` | lifecycle | 4,134 | order of destruction; clean ends; the client ends |
| `MCBenchmarkRun` | benchmark | 378,980 | results are pure; the session owns its conditions and ends |
| `MCAlgorithms` | grid, statistics, buffer | 7,493 | each against its definition |
| `MCAllowedTransitions` | cache | (violation) | finding 1 |
| `MCSessionKeepsGround` | streaming | (violation) | finding 2 |

### Bounds, and why they are enough

- Queue limits (32 and 8 in the code) are 1 or 2: with one place a queue is full
  as soon as it is used, with two it can also be partly full. The liveness run
  uses 1 and 1, where the worker has to wait for room most often. The proofs
  cover every limit.
- `MaxAccepted` ids per session exceed what both queues and the worker's hand
  hold at a time, so that everything fills and empties at least once. Sessions
  are not bounded: `Start` resets the counters.
- `MaxCounted` = 1 rejected request per session; the counter is only shown to
  the user, and a rejection changes nothing else.
- Three or four paths, one of them with two spellings, one that is empty.
  Requests for a path already under way, failed and retried all occur.
- Streaming has a set of two textures; the code has seven. With two, one may be
  ready while the other is queued, failed or refused. Key 0 is bounded by the
  ids left.
- Three rooms: a first, a middle and a last one, one of them using every slot
  and the others not, with different health. Two effect slots are full after two
  attacks. Effects live for three units of the longest simulated frame, so that
  they overlap.
- Movement: a world of two places, one apart, five sequence numbers, connections
  of one packet. With five packets the server, the two lines, the receive thread
  and the mailbox can each hold one at the same time, which `SendReturns` needs;
  two places suffice for an accepted and a rejected move, a correction that
  matters and one that does not.
- Framing: a pipe that holds one packet and a part of the next, so that a packet
  may pass in one piece, in parts, or with the end of the one before it, and four
  packets, which fill both directions and both ends. The coordinate's value reads
  differently with its bytes swapped. `LargestWord`, which bounds coordinates and
  sequence numbers in the module itself, is the largest number TLC counts with:
  a word has 31 bits there and 32 in the code.
- Lifecycle: no bound but one client, one foreign client and one server; every
  state is reached.
- Benchmark: two scenarios that differ in the submission mode and the second in
  needing a larger buffer, rings of two samples, two query sets, a minimum time of
  one unit. There is always a set still in flight when the other is answered, and
  always a ring partly filled. The keys ask for more stress instances than the
  scene allows, so that the clamp of `SetInstanceCount` takes effect.
- Grid: two monsters, cells of two units, keys of two bits per coordinate, ranges
  up to three units, points on both sides of the origin and on the edges of cells:
  a query looks up at most four cells in a row, so that two bits give each a key
  of its own, as 32 bits do in the code. Statistics: four samples of up to four
  milliseconds and percentiles whose ranks fall on, below and above a sample.
  Buffer: sizes of six bits, bytes of five, instances of three bytes: each of the
  two checks refuses some request.

Deadlock is checked in every run. Where the program may end, the models say so
with a step `Ended` that changes nothing.

### Fairness, and why the code justifies it

- Loader: weak fairness of a main thread inside a call and of the worker (both
  are scheduled, and a decode ends); strong fairness of `TryPopCompleted`, for
  the frame loop polls each frame whatever else happens. Nothing makes anyone
  call `Start`, `Request` or `Stop`, and no spurious wakeup is ever needed.
- Cache: the same, with `Update` in place of `TryPopCompleted`. Streaming needs
  only that the frame loop runs on and the worker is scheduled: the frame order
  already says that every frame polls.
- Movement and framing: both processes and all threads are scheduled, and the
  network moves what it has taken. No fairness for the user closing the window nor
  for the end of the server process.
- Lifecycle: the same. The other client need never leave, and a client that is
  not served may block in `send` for ever: `ClosingEnds` says so.
- Benchmark: frames follow one another; again and again a frame takes time, a
  draw succeeds, and the GPU answers with usable timestamps. A GPU that never
  does so does stall the session: the code has no time limit there.

## Proofs

Each `..._proofs` module proves its theorems for every value of the constants
that satisfies the assumptions of its model, from one inductive invariant. None of
the properties is inductive alone; what follows says what had to be added and
why.

| Proofs of | Inductive invariant | Properties of the runs | Further theorems |
|---|---|---|---|
| the loader | `IInv` (`Invariance`) | `TypeOK`, `NoLostWakeup`, `StoppedClean`, `OutstandingInOrder`, `PendingExact`, `DecodedMemoryAccounted`, `ImplementsContract` | `LimitsKept`: neither queue outgrows its limit |
| the cache | `CacheInv`, `ManagerInv` (`ManagerInvariance`) | `QueuedIsOwed`, `ReadyIsKept`, `StatisticsReconcile` | `ManagerTypeCorrect`; `NoResultDropped`; `LoaderUnderneath` |
| streaming | `StreamInv` (`StreamInvariance`) | `StreamTypeOK`, `StreamedGroundIsCached`, `ResetIsNotUndone` | `CacheUnderneath` |
| the scene | `SceneInv` (`SceneInvariance`) | `SceneTypeOK`, `RoomsInOrder`, `FightGoesOn`, `ClearsAnnounced`, `PoolCountIsExact`, `ClearedByOwnMonsters` | |
| movement | `SyncInv` (`SyncInvariance`) | `TypeOK`, `NewestAnswerIsCurrent`, `CorrectionAgrees` | |
| framing | `FramingInv` (`FramingInvariance`) | `TypeOK`, `NothingRejected`, `ImplementsLine` | |
| the benchmark | `BenchInv` (`BenchInvariance`) | `SessionOwnsConditions`, `ResultIsPure` | |
| grid and attacks | `GridInv` (`GridInvariance`) | `GridMissesNothing` | |
| statistics | `RingInv` (`RingInvariance`) | `SnapshotIsOfLastSamples` | |
| the instance buffer | `BufferInv` (`BufferInvariance`) | `BufferHoldsWhatIsWritten` | |

In each of them an argument per conjunct or per action is a lemma, and a lemma
about the effect of a step (what a packet taken does to the server, what a
hand-over does to the queues) is stated once where several cases need it.

### The loader

- `SessionShape` says how the flags, the thread handle and the places of the two
  threads hang together: a worker exists only while the loader runs; `running_`
  and `stopRequested_` are both set exactly while `Stop` is at work; the queue of
  requests stays empty from then on; the last part of `Stop` runs after the join;
  `decoding_` is set exactly while the worker decodes; a loader that does not run
  is empty. `StoppedClean` is its consequence.
- `HoldsRequest` says the worker has a real request in hand where it uses one.
- `NoLostWakeup` is inductive together with `SessionShape`: a `Start` while a
  worker slept would break it.
- `IdsInOrder` states the ids at each of the three places (the results, the hand,
  the queue) by an offset from `nextRequestId`. `OutstandingInOrder`, over the
  concatenation of the three, follows. Stating it per place keeps sequence
  reasoning out of the steps that touch one place only.
- `PendingExact` goes the other way: it is about the whole line, so `LineSteps`
  first says what every step does to the line (it grows by one at the end, loses
  its first, restarts, closes, or rests), and the property follows from that
  alone. So does the refinement: each kind of step is one action of
  `LoaderContract`, which makes the loader, seen by its caller, one queue.
- `DecodedMemoryAccounted` compares a counter with a sum over a queue, which a
  recursive function defines. What such a function computes is proved by taking
  the least index at which a claim fails (`WFMin`): appending an element adds its
  size to the sum, and taking the first one off subtracts it.

### Cache and streaming

`LoaderUnderneath` and `CacheUnderneath` say that the cache drives the loader, and
the frame loop the cache, only through their own operations, so that what is
proved of the lower one holds where it is used.

`CacheInv` adds to the loader's invariant, while the loader runs and is not being
stopped: the requests under way, with the one `Update` has in hand, are exactly
the `Queued` entries with their ids, except for the one `RequestAsync` is about to
insert, whose path is then not `Queued`. That exception is the gap between
a call of the loader and the assignment after it in which the worker may already
run. `NoResultDropped` follows: the test for unknown and stale results in
`Update` is a precaution that never takes effect. The statistics need
`RequestsCounted` as well, a count of the requests nobody has decided yet; it
changes by one wherever a set of paths gains or loses one.

`StreamInv` says where in a frame the cache runs and a call of it is open
(`CacheFollowsFrame`), and what the last key means for what may still happen to
the ground (`KeyShape`): after the key = the set counts as already announced.

### Scene

The invariant follows a frame. A changed room is prepared first thing in a frame
and entered before the first attack (`FrameShape`), so the slots hold the monsters
of the current room whenever an attack may clear it (`MonstersShape`): that is
why the room before cannot clear the next one with its dead, although the
controller looks at the slots three times a frame. At most one room is cleared and
not yet announced (`AnnouncedShape`), so that one flag is enough. That
every room is entered rests on `BoundsAssumption`: the ground the clamp leaves to
the player is inside the bounds of the rooms.

### Movement

An answer passes four places: the server's reply, the connection, the local
snapshot of the receive thread, the mailbox. `AnswersFresh` says, place by place,
that no answer is about more than the server has seen and that one about the last
packet seen has the approved position; `AnswersOrdered` that the places are in
order of age; `NewestIsLast` that, as long as the server lives, the last one
occupied is about the last packet it has seen. Overwriting the mailbox then loses only what is out of
date. `CorrectionAgrees` is a consequence of `AnswersFresh` for the mailbox.

### Framing

`Carries` says of one direction what each field under way is: the i-th in the pipe
is the field of the packet, counted through over all packets handed over, that
comes next after those received, and what the receiver has of its packet
are the first fields of it. Each field has one place in this count
(`OnePlace`), which is why reading past the end of a packet or joining two parts
wrongly would show. With it the loops' progress and the byte order (converting
twice gives the number back: `Swap32Twice`, `Swap16Twice`) make a packet that is
complete equal to the one handed over; the server's test of the sequence number
then never rejects one, and each direction implements `PacketLine`. This covers
any way of cutting and joining, for any size of the pipe.

### Benchmark

For each container a sample passes through there is a conjunct that says it holds,
while measuring, nothing of any other measurement: the three profilers
(`PureSamples`), the query sets that would still be recorded (`PureQueries`), the
counts of the frame last drawn (`LastFrameIsOurs`). `OwnConditions` holds at every
point of a frame, `SessionOwnsConditions` only where it draws.

### Grid

Two facts of geometry and one of arithmetic. A monster in range lies in a cell of
the square that is looked up, on either side of the origin, since division rounds
down (`SquareAround`, `CellsInOrder`). Fewer cells are in a row of it than a
coordinate of a key has values (`FewCells`), so no two of them share a key
although coordinates are taken modulo that number (`UnsignedApart`,
`KeyHalves`), and nobody is found twice. Together with the invariant, that the
living are listed under the key of their cell and nobody elsewhere, an attack
through the grid does what a scan of all monsters does. That the dead stay listed
until the next `Rebuild` needs no more than this.

### Statistics

`RingInv` says at which place of the circle the i-th of the newest samples is: at
the i-th while the circle fills, and from the place that is overwritten next
on, round the end, once it is full. `RecordMilliseconds` keeps it because one step
moves that place and drops the oldest sample at the same time.

The snapshot is of a sorted copy, so what is proved of it must not depend on the
order. Both the copy and the newest samples are the filled part of the circle
rearranged (`SnapshotFacts`), and a rearrangement changes no sum
(`SumRearranged`: take the last sample out of both and exchange one,
`SumWithOneChanged`) and no number of samples above a limit (`CountRearranged`). A sorted copy
exists for every list of samples (`OrderExists`: put the greatest last). Of n
sorted samples at most n - r are above the r-th and at least n - r + 1 are above
whatever is less (`RankInOrder`); with the rounding of `PercentileIndex`
(`PercentilePlaces`) the sample there is the nearest rank, and the last one is
the rank for 100 percent. That the ranks never leave the filled part is
part of it.

### The instance buffer

The second half of `BufferHoldsWhatIsWritten` needs nothing but the doubling; the
first needs that capacity and size of the buffer agree (`BufferInv`), which fails
if the byte count is cut to a `UINT`. `Doubled` is a recursion from smaller to
larger capacities: `DoublingExists` solves it, and `DoubledFacts` says what it
returns, both from the capacities that cannot be doubled downwards. The result is
nothing, or it is enough and the last doubling was necessary.

### Assumptions

They are stated where the constants are declared, TLC evaluates them on the
instances of the runs, and the code justifies each:

- `PathsAssumption`, `TextureSetAssumption`: normalising a name gives a path or
  the empty one; the set of textures is a list of names whose paths are not empty
  and includes the ground's (`Client/Application.cpp:127-136`).
- `LimitsAssumption`, `SizesAssumption`: queues have room for one at least; a
  decoded image has some bytes.
- `RoomsAssumption`, `SceneAssumption`, `BoundsAssumption`: there is a room, each
  has monsters with some health; player and rooms have the same limit, 1.5
  (`Client/Presentation/DemoScene.cpp:152`,
  `Client/Gameplay/DungeonController.cpp:12-27`).
- `SyncAssumption`, `FramingAssumption`: a world of some size, buffers with room
  for something; numbers that fit into a word.
- `BenchmarkAssumption`: there is a scenario, none asks for more instances than
  the stress scene has, rings and query sets are not empty.
- `GridAssumption`: cells have a size, no direction is zero, and a reach of
  `range` does not go round all the keys of a row. In the code the ranges are 0.45 and 0.9
  (`Client/Presentation/DemoScene.cpp:318`, `:358`), the cells 0.5 wide (`:12`) and the keys 32 bits a
  coordinate. It also says that `2^KeyBits` is a positive number, because the
  provers know no laws of powers.
- `StatisticsAssumption`: the circle has a place; percentiles are asked for 1 to
  100 percent (`Client/Diagnostics/FrameTimeProfiler.cpp:96-112` for 95 and 99).
- `BufferAssumption`: a `UINT` is no wider than `std::size_t`, an instance has some
  bytes, and the first buffer has a size a `UINT` holds (1024 instances of 96
  bytes). It says of the two powers of two that they are numbers, one no
  larger than the other.

### Only model-checked

- All liveness, which is out of the prover's reach: `StopReturns`,
  `AcceptedIsServed`, `QueuedIsResolved`, `StreamedGroundIsShown`, `SendReturns`,
  `PacketsArrive`, `ClosingEnds`, `SessionEnds`.
- `UsesOnlyAlive` and `EndsClean`. `ClientLifecycle` has no constants: the run
  visits every state it has, and a theorem would say nothing more.

## Findings

1. `Docs/AsyncResourceStreamingRequirements.md:89-95` lists the allowed state
   transitions and has none out of `Failed`. `TextureResourceManager.cpp:72`
   lets a failed texture be requested again. Run `MCAllowedTransitions`.
2. `Docs/AsyncResourceStreamingRequirements.md:218` refuses keys 9 and 0 during a
   benchmark session so that streaming does not collide with it. The keys are
   refused, but a stream started before the session goes on uploading and
   switches the ground while the session measures (`Application.cpp:270-341`).
   Run `MCSessionKeepsGround`.

## Not modelled

- `BenchmarkCsvWriter` is straight output, after which the session goes on
  whether it succeeded or not. Its one hazard, rows under the header of an older
  version, lies in files written earlier.
- What `DiagnosticsOverlay` draws and what `ProcessMemorySampler` reads is shown
  to the user and decides nothing. Logging and the window's title likewise.
- The contents of what the renderer and the stress scene draw, and the shaders,
  need a model of Direct3D to say anything about.
- Durations, except where a minimum duration is waited for: the session's phases.
  Whether the server's speed limit is right for a client's frame rate needs clocks
  on both sides.
- Exhausted memory ends the process wherever it happens.
- The project's site is no part of the program.

## Plan

Modelled, in this order, the most important behaviour first: the loader and its
contract, its proofs, the cache, streaming, the rooms and the scene, movement,
the benchmark, framing, the lifecycle, the algorithms.

Proved since: the safety properties of the loader with its refinement and its
memory account, the cache, streaming, the scene, movement, framing with its
refinement, the benchmark, the grid, the statistics and the instance buffer.

What is left: `EndsClean` and `UsesOnlyAlive`, should the lifecycle get constants,
for example several clients.
