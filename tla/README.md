# ShardManager: a TLA+ model of the placer, the stream protocol and the key ranges

ShardManager ("psychopomp") distributes shards over bins (containers). A placer
searches for a better arrangement of the shards by iterative local search over
weighted constraints; a service-discovery server and a client library exchange
registrations and shard states over one bidirectional gRPC stream per container.
The orchestrator that would connect the two is missing from the repository
(`README.md`, "Incomplete").

This directory holds TLA+ modules for those parts, TLC configurations that check
them on small instances, and TLAPS proofs of the main properties for every value
of the constants. `PROJECT.json` lists the components, the runs, the source lines
behind every definition, the hazards and the theorems.

## 1. Inventory

### Placer (`psychopomp/placer`)

| Component | State | Operations | Talks to |
|---|---|---|---|
| `MovementMap` | shard -> next bin, bin -> incoming shards | add, remove, clear, addMovements, look-ups | everything below |
| `SparseMappingTree` | parent/child maps per domain (shards, bins, racks, ...) | addMapping, getParents, getChildren, createPartialTree | reads movement maps |
| `ExpressionTree` | `metricsMap_`, one value per node | canaryMoves, commitMoves, initializeMetricState, propagateChanges | mapping tree, a constraint's `calculate` |
| `Constraint` and its kinds (capacity, drain, load balancing) | `domainFaultMap_`, expression trees | construct, canaryMoves, commit | adds weights to the solving state |
| `CommittableMap` / `CommittableKey` | a canary layer over a committed one | get, set, clear, commit | used by all of the above |
| `SolvingState` | assignment tree, metric vectors, `BinWeightInfo`, `movementMap_` | look-ups | shared by constraints and search |
| `IterativeLocalSearch` | locals of `solve` | solve, getMovementForBin, updateWeights | drives the constraints |

The placer is one thread. What makes it hard: values are kept *incrementally*,
one signed delta per move, in two layers, over partial trees; the assignment tree
is never updated, so every reader has to combine it with up to three movement
maps; a rejected trial leaves its values behind until something clears them.
It is right if the weights it compares are those of the arrangements they stand
for, every committed move makes the arrangement better, the returned movement map
is consistent, and `solve` returns.

### Protocol (`server_utils`, `svc_discovery`, `user_libs`)

| Component | State | Operations | Talks to |
|---|---|---|---|
| `server_utils::RequestHandler` | `msgQueue_`, `isWriting_`, `isReading_`, locks | process(op, ok), write, attemptWrite, attemptRead, finishWrite | gRPC stream |
| `server_utils::AsyncServer` | completion queue, polling threads | run, destructor | request handlers |
| `svc_discovery::RequestHandler` | status, authentication flag, shard ranges | handleConnect/Read/Write/Finish, stop | handler manager |
| `svc_discovery::HandlerManager` | handlers, bin registrations | addHandler, process, registerBin, removeBin, removeRequestHandler | request handlers |
| `user_libs::Client` | connection state, shard statuses, worker threads | connect, I/O loop, handlers, message processing, updates | gRPC stream |

Here the difficulty is concurrency: application threads call `write` while the
thread that polls the completion queue processes the end of earlier operations,
streams fail at any point, and handlers must not be deleted while tags that name
them are in flight. The write side is right if at most one gRPC write is
outstanding, messages arrive in order and once, and a queued message is eventually
written; the server, if it always has a handler for the next client, every event
finds its handler, and the handler of a client that is gone is removed; the client, if
the server reads its connection request first and registers it by that, a request to
change shards is answered with their status, and a client that cannot connect yet gets
in later.

### Around them

`SolvingManager` (`populateShardMap`; the rest is declared only or empty) and
`SolvingManagerUtils` cut the key space of a service into shards: every key must be in a
shard, in one, and the loop over unsigned keys must end. `NodeMapper` would turn reported
bins and shards into the placer's vectors; `ServiceMappingProvider` and `BinManager` are
interfaces; there are test-data generators, protocol buffers and an AWS stub. The gRPC
examples and `external_deps` (or-tools, Eigen, protobuf, abseil: nearly all of the
repository's lines) are third-party and out of scope.

## 2. Plan

Done:

1. `MovementMap`; `LocalSearch`: the control of the search for arbitrary weights, with
   proofs.
2. `Committable`, `SparseMappingTree`, `ConstraintUtils`, `ExpressionTree`,
   `Constraints`, composed with `LocalSearch` into `Placer`; `HillClimb` as the abstract
   specification.
3. `StreamWriter` (write side of `RequestHandler`), `MessageChannel` as its abstract
   specification, with a proof of the refinement.
4. `ServerHandler`: the polling threads, the handler manager and the server's handlers
   from construction to Finish, with the read side of `RequestHandler`.
5. `Client`: connection and retries, reads, sequential and asynchronous processing, shard
   statuses, on top of `StreamWriter`; `Session`: a client, gRPC and the server together.
6. `ShardKeyRanges` and `SolvingManager`: the cutting of the key space and
   `populateShardMap`.
7. Proofs about all of them (section 5).

Every safety property that a passing run checks is also proved; liveness stays with TLC.
What cannot be modelled faithfully is in section 6.

## 3. Modules

### Placer

* **`MovementMap`** — a map is a record of the two indexes `next` and `incoming`; the
  member functions the search calls are operators.
* **`LocalSearch`** — `solve` and `getMovementForBin` as a state machine. `pc` is
  the place in the two functions (`start`, `iterate`: head of the outer loop,
  `bins`: the walk over `binWeights`, `pick`: the loop of ten shards, `try`: the
  loop over `binSet`, `done`). The random shard, the random sample of bins and the
  iteration order of the `unordered_set` are nondeterministic. The weight of a
  trial and the order of the bins are parameters of the actions; the module's own
  specification allows every value, so its results hold for any constraints.
* **`Committable`** — the two templates as operators on a committed and a canary
  layer; nested maps are one function on tuples of keys.
* **`SparseMappingTree`** — a tree has its parent ids per domain, the parent of
  every id and the bin of every shard. The loops and the breadth-first search of
  `createPartialTree` become set expressions. How often `getParents` and
  `getChildren` list a node (once per movement map and once for the tree) is kept,
  because the operators add once per occurrence.
* **`ExpressionTree`** — `propagateChanges` as a recursive function over domains: a
  node's parents are visited only if its value changed.
* **`ConstraintUtils`** — `SumOperator`, `ShardCountOperator` and `BalanceOperator`,
  the functions the trees call for a node; `ToInt` is the conversion to
  `int32_t`/`int`.
* **`Constraints`** — the three constraint kinds. `UpdateWeightIfPossible` and
  `UpdateWeights` turn values into weight deltas; `Evaluate` is
  one `canaryMoves` or constructor pass.
* **`Placer`** — composes the search with the constraints: constraints are built
  one after the other, then `solve` runs with the weights they compute and walks
  the bins hottest first. Every trial evaluates all constraints, leaves their canary
  layers dirty when rejected and commits them when accepted.
* **`HillClimb`** — what the placer promises: each step moves one never-moved shard
  to another bin and strictly improves a score.

Two things about the data are taken as the code reads them: metric vectors are
indexed `[metric][shard]`, as in `getShardMetric` (NodeMapper and the test fill
them the other way round), and `SolvingState::movementMap_` is an allocated empty
map (no code assigns it; with the null pointer every use of a constraint over a
bin with shards would end in `getParents`).

### Protocol

* **`StreamWriter`** — the write side of `server_utils::RequestHandler` with the
  client's `handleWrite`. Each critical section of `writeLock_` is one action:
  `AddToWriteQueue` and `WriteAttempts` are the two halves of `write`, run by any of
  the `Writers`; `CompleteWrite`/`FailWrite` are gRPC completing an operation
  (external); `FinishWrite` and `NextWrite` are what the polling thread does then.
  `isWriting_` is not initialised by the code, so `Init` gives it either value.
* **`MessageChannel`** — the abstract FIFO channel that fails once and for good.
* **`ServerHandler`** — the service-discovery server. Each polling thread calls
  `registerService` (`RegisterService`) and then `addHandler`, which is two actions:
  `ConstructHandler` posts the request for a client on `completionQueue_`,
  `InsertHandler` puts the handler in `requestHandlerMap_`. An operation of a handler
  is posted, completed by gRPC (`CompleteOp`, external) and processed by the thread
  that polls the handler's queue: `HandleConnect`, `HandleRead`, `FailedRead`,
  `HandleFinish`, or `DropEvent` when `process` finds no handler. `AfterStop` and
  `Stop` are `stop()`. `status_`, `hasAuthenticated` and `isReading_` are not
  initialised; `Garbage` is the set of values they may start with. `ShutdownServer` is
  the first call of `~AsyncServer`.
* **`Client`** — extends `StreamWriter`, whose threads are here the I/O thread (0) and the
  worker of each message read (by the number of the message); each writes at most once.
  `Connect`, `ConnectFails` and `Connected` are `connect` and `handleConnect`: the read is
  attempted first, then the connection request is queued (`AddToWriteQueue`) and, in a step
  of its own, written. `HandleRead` is `handleRead`: the sequential processing, the start of
  a worker and `attemptRead`. A worker runs `processMessageAsync`: `LogResponse`, or
  `UpdateRanges`/`ForwardRanges` (the application's answer is arbitrary) and then
  `SendShardInfoUpdate`. `SetShardStatus` returns its map unchanged, because the code's
  parameter is a copy. The I/O thread processes an event only when it is polling and not
  inside a write of its own.
* **`Session`** — a `Client`, gRPC and a `ServerHandler` (by `INSTANCE`). The stream
  of the current attempt is given to one of the handlers that wait (`Accept`, external);
  that handler reads what the client's write side has delivered, in order (`ServerReads`),
  and registers the client. An attempt that fails abandons its stream and the handler it
  may have by then (`ClientReconnects`); the stream of an earlier attempt is not accepted
  later on. What the server would send is arbitrary:
  nothing defines `sendMessage`.

### Key space

* **`ShardKeyRanges`** — `generateShardKeyRangeMap`, one action per iteration of its two
  loops; keys are taken modulo `KeyLimit` (2^64 in the code), a limit that
  `CallsAssumption` keeps every range below.
* **`SolvingManager`** — `populateShardMap` around it, called any number of times for any
  services. Random ids matter only if they collide, so `AddShard` either keeps a shard or,
  unless it is the first, loses it; `collided` remembers for which services.

### MC modules and slips

`MCLocalSearch`, `MCPlacer`, `MCStreamWriter`, `MCServerHandler`, `MCSession` and
`MCSolvingManager` give the constants for TLC. Definitions commented "Plausible slip" are mutated versions of
the definition that follows them; no specification uses them.

## 4. Runs

| Run | Instance | Shows |
|---|---|---|
| `local_search` | 2 shards, 3 bins, weights -1..1, 2 iterations, 2 picks, samples of 1 bin | `CommittedMovesConsistent`, `OneShardPerIteration`, `CommittedMovesAreFinal`, `SolveReturns`, `SearchTypeOK` |
| `placer_exact` | 3 shards (one heavier), default bin and 3 containers in 2 racks; drain, AFTER capacities of bins and racks | `CommittedWeightsExact`, `TrialWeightExact`, `IterationsStartClean`, `LoneShardsAreOptimal`, `ClimbsHill` (refinement of `HillClimb`), `UnassignedOnlyShrinks` |
| `placer_covered` | same, drain, BOTH capacity, load balancing over containers and racks, 2 iterations | `BothCoversBeforeAndAfter`, `BalanceMetricsExact` |
| `placer_balance_only` | one load-balancing constraint | `BetterMovesAreTaken` violated: `domainFaultMap_` is never set |
| `placer_metric` | a capacity on metric 1 | `BetterThanInitial` violated: the parameter `metric` is hidden by a local that is 0 |
| `placer_unassigned` | drain of weight 1 beside capacities of weight 5 | `UnassignedFirst` violated: unassigned shards have no priority (`README.md:3`) |
| `stream_writer` | 2 threads, 2 messages each | `OneWriteInFlight`, `NoWriteAfterFailure`, `DeliversInOrder`, `QueueIsDrained` |
| `server_handler` | 1 or 2 threads, 3 handlers, 1 bin, 1 range | `EventsFindHandler`, `AcceptsNextClient`, `WaitersBounded`, `AuthenticatedIsClosed` |
| `server_handler_close` | 1 thread, 2 handlers | `FailedReadCloses` violated: `hasAuthenticated` is never set, so a handler whose client went away stays in the map |
| `session` | a client with 2 connection attempts and up to 2 messages, 1 range; a server of 1 thread and 3 handlers | `AuthIsFirst`, `WorkersDoNotOverlap`, `RegisteredByOwnIds`, `RequestIsAnswered`, `ClientIsRegistered` |
| `client_status` | same | `AssignedIsReported` violated: `setShardStatus` updates a copy, so a range just taken over is reported as dropped (`Client.h:200`) |
| `solving_manager` | 2 services, keys of 5 bits, 15 sets of arguments | `KeysCovered`, `RangesAscend`, `RangesBounded`, `ServiceKeysCovered`, `PopulateReturns` |

**Bounds.** Three shards and four bins let two shards share a bin, a third arrive,
both ends of a move lie in the same rack, in different ones, or outside a partial
tree. All 64 initial arrangements are explored. With `SampleSize = 50` every other
bin is tried, as in the code for up to 51 bins; `local_search` uses a proper sample.
`MaxPicks` is 1 or 2 instead of 10: what a pick leaves behind is what the next one
finds. `MaxIterations = 9` never binds (three shards give at most three moves);
`local_search` and `placer_covered` use 2 so that the limit is reached. `IntLimit` is
one more than the largest `int` (2^31 in the code); TLC's integers have 32 bits
themselves, so it is scaled down, and the weights are chosen to stay below it. Two writers with two messages each are
enough for one to queue while the other's message is in flight and for the queue to
hold messages of both. Three handlers let one thread serve two clients one after
the other (a bin that registers twice), and two threads serve one after they have
both registered in any order; `MaxHandlers` holds back a client whose successor could
not be constructed. `MCGarbage` is zeroed memory, a stray authentication flag and a
byte set in every field; the proofs cover every `Garbage`. Deadlock is not checked
there: a server without clients, or one that was shut down, has nothing to do.

`session` has one polling thread, the number the server is started with
(`TestServer.cpp:12`); two attempts to connect, the first of which may fail with or
without a handler; three handlers, so that the abandoned stream, the second one and their
successor each have one; and two messages, so that a second worker would show up if
`isReading_` let a second read be posted. `solving_manager` cuts the lower half of the
keys, as the code does with `0 .. 2^63 - 1`, into 2 to 7 ranges, and a smaller interval
into up to 9, which includes remainders of zero and above, a `range` of one and one of
zero (no ranges at all). `CallsAssumption` asks for room above `end`: without it the end of
a range wraps and the second loop goes on; the one call in the code leaves half the key
space.

With several threads a CONNECT can be dropped: a thread may construct a handler on
the queue of another, which may process the event before the handler is in the map.
`AcceptsNextClient` holds all the same, because the thread that registered last adds
its handlers to its own queue, and there a handler is in the map before its thread
polls again. `EventsFindHandler` depends on the very flaw of `server_handler_close`:
were `stop` to post Finish for every handler (the mutant `AfterStopAlways`), a first
message that is no connection request would leave a read outstanding on a handler
about to be deleted, since `handleRead` does not return after `stop`.

`WorkersDoNotOverlap` holds because of a lapse: `attemptRead` sets `isReading_` and nothing
resets it, so a client reads one message in its life. The obvious repair (the mutant
`HandleReadAndReadOn`) lets two workers apply and report statuses in either order.
`RegisteredByOwnIds` is about the first message of a stream only: since `hasAuthenticated` is
never set either, the server takes a client's report for another first message, stops the
handler and registers it under ids 0 and 0 too.

A drain of a rack violates `BetterMovesAreTaken` as load balancing does (above the bins
`shardCountOperator` adds one per changed child bin); it is not kept as a run of its own.

`LoneShardsAreOptimal` is about shards that are alone in their bin: only for those
do the picks of a bin necessarily cover every shard. That a *better* arrangement is
always found is not promised by the code, which samples ten shards per bin.

**Fairness.** `LocalSearch`: weak fairness of its next-state relation, because
`solve` is a loop of one thread. That the draw of distinct random bins ends (with
probability one) is part of the atomic `PickShard`. `StreamWriter`: a thread inside
`write` goes on, and the polling thread keeps polling and gRPC completes every
operation, successfully or not, which its API promises. Nothing obliges a thread to
call `write`. `ServerHandler`: the threads keep polling and gRPC completes every
Finish; no client need come or send anything, and no request or read need complete.
`Client`: every thread gets on, applications return and gRPC completes every CONNECT and
WRITE; the server need not send anything. `Session` has one weak-fairness condition per
side: the client's steps, and the server's threads together with gRPC bringing a waiting
client and a waiting handler together and handing a delivered message to the read that is
posted. Every behaviour is finite (attempts, messages and handlers are bounded), so a
condition per thread would say no more. `ClientIsRegistered` assumes that the server stays
up, no write or read fails, and the flags that are not initialised start as false.
`SolvingManager`: `populateShardMap` runs on; nothing obliges anyone to call it.
`QueueIsDrained` is conditional on `isWriting_` starting false and on
the stream not failing, because the code drains the queue in no other case.
`Placer` has no fairness; its termination follows from `LocalSearch`, whose steps its
own are. `placer_*` check safety and refinement of a safety specification only.

## 5. Proofs

All proofs are checked by TLAPS without axioms; the assumptions are those on the
constants (`NoBinAssumption`, `SearchAssumption`, `IntLimitAssumption`,
`ConstraintListAssumption`, `UpperTreeAssumption`, `WriterAssumption`, `ServerAssumption`, `ClientAssumption`, `SessionAssumption`,
`CallsAssumption`): a value that is no bin, natural limits, finite sets of shards and
bins, the client's threads by number, and room above the keys that are cut.

* **`LocalSearchProofs`** — for any shards, bins, weights and limits:
  `CommittedMovesAreConsistent`, `IterationsCountMoves`, `MovesAreFinal`,
  `SearchTypes`. The properties are not inductive: `addMovements` keeps the two
  indexes inverse only for shards without a movement, so the invariant also says
  that the moves still to be tried are of shards that the bin at the head of the
  queue holds and that have no committed move.
* **`PlacerProofs`** — `PlacerMovesAreConsistent`, `PlacerIterationsCountMoves` and
  `PlacerMovesAreFinal` carry over from `LocalSearchProofs`: each step of `Placer` is a
  step of the search (with a weight the constraints compute) or leaves the search's
  variables alone. `PlacerIterationsStartClean` needs `CleanInv`: outside a trial every
  canary layer is empty. These four hold for any list of constraints, overflow included.

  The next five are about lists whose weights are meant to be exact, `ExactList`: drains of
  bins and capacities of any domain, about the arrangement after the moves (AFTER) and the
  metric that `sumOperator` reads, whose total load and faults fit an `int`. Shards, bins,
  the tree above them, their number, loads, limits and weights are arbitrary. That the
  hypothesis is not vacuous is evaluated by TLC (`ExactInstance` in `MCPlacer`), for the
  list that `placer_exact` runs.
  `PlacerWeightsAreExact` (`CommittedWeightsExact`), `PlacerTrialsAreExact`
  (`TrialWeightExact`) and the refinement `PlacerClimbsHill` (`Spec => HillClimb!Spec`)
  follow from `WeightInv`: what is committed, in the trees of every constraint that is
  built and in the weights, are the values of the committed arrangement, and while trials
  go on the canary layer has those of the last one. The argument goes up the code: a
  trial changes the load of two bins and nothing else (`MoveChangesLoads`); the values
  of the bins are right (`BinsWhenBuilt`, `BinsWhenTried`); if the values of one domain are
  right and all its changes recorded, so are those of the next (`SetValuesLevel`, using
  that the load of a node is the sum over its children, `LoadOfChildren`), hence those of
  the constrained domain (`PropagateExact`); the deltas it adds are the differences of the
  faults (`EvaluateExact`), and so the sums of the deltas are the differences of the costs
  (`TriedWeights`, `BuiltWeights`).

  `PlacerLoneShardsAreOptimal` also assumes that a sample has room for all the other bins
  (up to 51 bins in the code) and that a bin is picked from at least once. `LoneInv` says
  what was already established within the iteration: the bins passed, and the one at hand
  once a shard of it was tried, hold no lone shard with a better place.
  `PlacerUnassignsNothing` (`UnassignedOnlyShrinks`) assumes `DrainOutweighs`: the default
  bin is drained at a weight that the other constraints together never exceed
  (`ExactInstance` again).

  `PlacerBothCovers` (`BothCoversBeforeAndAfter`) and `PlacerBalanceIsExact`
  (`BalanceMetricsExact`) need no exact list: `BothFits` and `BalanceFits` speak only of
  the constraints that the properties are about, and the others may be any. A BOTH
  capacity of bins counts a shard that moves in the bin it leaves and in the bin it goes
  to, so twice the total load must fit an `int`; for load balancing the total must
  (`CoveredInstance` in `MCPlacer` evaluates both for the list that `placer_covered` runs).
  Both follow from `MeasureInv`, which says of every built constraint what its committed
  values are. The bounds of `BothCoversBeforeAndAfter` are not inductive: without an upper
  bound the next delta could leave the `int`. `Covers` adds one: a value is at most what
  all shards weigh and the moved ones once more, which stays below twice the total because
  a shard is moved only once (`TrialCovers`). `Balanced` says of a load-balancing tree that
  the values of its bins are their loads, and that a node above them has a value only if a
  child has one, and then the extremum of those. A propagation is described domain by
  domain (`BalancedUpTo`): up to the one at hand the values are those of the new
  arrangement, above it they are the old ones, and a node that is not recorded as changed
  kept its value, so that its parent's extremum stands unless another child's changed
  (`ExtremumStays`, `BalanceAbove`). A trial touches the bins it has to (`TriedParents`),
  each is computed from the shards that the movement maps lead to it (`BalanceBin`), and a
  rejected trial stays in the canary layer (`TriedBalance`, `TriedBoth`).
* **`SumTheorems`** — sums over finite sets (`SumFunctionOnSet`): an element may be taken
  out or added, sums add pointwise, ignore zeros, are monotonic, and may be taken class by
  class. Induction over sets is not available as a theorem the provers can instantiate, so
  each lemma supposes a smallest set that refutes it; `IsSumExists` does the same for the
  recursion that defines the sum. The recursive functions over the tree's domains
  are unfolded in `PlacerProofs` in the same way (`PathExists`, `KeptExists`, `LevelsExist`).
* **`StreamWriterProofs`** — for any threads and any number of messages:
  `WriterTypes`, `AtMostOneWrite`, `FailureStopsWrites` and the refinement
  `WriterImplementsChannel` (`Spec => MessageChannel!Spec`). `OneWriteInFlight` is
  not inductive: `finishWrite` clears the flag, which is safe only because the
  completed write was the one outstanding and its message is still the front of the
  queue. `WriterInv` adds what holds between completion and `finishWrite`, and that
  a failure leaves the flag set. The mapping takes the abstract queue to be what was
  delivered followed by what is queued, less the front while it is delivered but not
  yet popped.

* **`ServerHandlerProofs`** — for any number of threads, handlers, bins and ranges and
  any `Garbage`: `ServerTypes`, `EveryEventFindsHandler`, `ServerAcceptsNextClient`,
  `IdleHandlersAreBounded`.
  `LifeInv` describes a handler's life: CONNECT, READ and FINISH are never outstanding
  together, Finish is posted only for a stopped and authenticated handler that reads no
  more, and the handler whose client a thread is about to serve has nothing outstanding.
  `AcceptsNextClient` is not inductive, since the request that waits may be one that
  gets dropped; `WaitInv` names one that is not: once all threads have registered, the
  thread of `completionQueue_` is adding a handler, or one waits on its queue that is in
  the map or that the thread itself is inserting. `WaitersBounded` is a count, and
  inductive: a handler that is constructed takes the place of the thread that was adding
  it, a thread that adds one takes the place of the handler whose client came, and a new
  thread brings its own.

* **`ClientProofs`** — for any number of messages, attempts and ranges:
  `ClientImplementsChannel`, `AuthComesFirst`, `WorkersAreAlone`. A step of the client is a
  step of `StreamWriter` or leaves it alone, so `WriterInv` and the refinement carry over.
  The other two need `ClientInv`: until the I/O thread has queued the connection request
  nothing is queued and nothing is read (so every report is queued behind it), and a posted
  read implies `isReading_` and an empty history (so there is only one).
* **`SessionProofs`** — `ClientsRegisterByOwnIds`, for any number of threads, handlers,
  messages and attempts and any `Garbage`. `SessionInv` joins `ClientInv` with two facts: an
  attempt that may still fail has delivered nothing, so the handler of a stream does not
  change once it has read; and only constructed handlers have operations, so the flag of the
  serving handler is not overwritten by a constructor.
* **`SolvingManagerProofs`** — for any services, key width and arguments within
  `CallsAssumption`: `AllKeysAreCovered`, `AllRangesAscend`, `RangesAreBounded`,
  `ServicesKeepTheirKeys`. `GenInv` says where the first
  loop has brought `start` (a multiple of `range + 2`, at most `end + 2 * numShards`, so
  nothing wraps), that each range follows on the last, and that all but one have `range + 1`
  keys or more; as `end - start < (range + 1) * numShards`, that bounds their number.
  `ManagerInv` adds that the temporary mapping holds the ranges visited so far, of this
  service and of no other.

Only model-checked: liveness (`SolveReturns`, `QueueIsDrained`, `AuthenticatedIsClosed`,
`RequestIsAnswered`, `ClientIsRegistered`, `PopulateReturns`), which TLAPS does not prove
here.

## 6. Not modelled

* `ExclusionConstraint` (does not compile) and `LocalityConstraint` (empty).
* `NodeMapper`: the look-up `domains[domainIndex]` (line 82) is out of range for every
  configuration with a domain, the shards found in a bin are dropped at the end of the loop,
  and its only caller, `createSolvingState`, is never called. There is no behaviour to state
  properties of. The other members of `SolvingManager` are empty or not defined.
* The destructor of `Client` (it passes an uninitialised pointer to Finish, shuts the queue
  that the I/O thread may still post to, and iterates `threads_` while that thread may add
  to it) and the shutdown of the server's completion queues: what happens then is decided by
  undefined behaviour or inside gRPC.
* `MovementMap::removeMovement` and `HandlerManager::removeBin` have no caller in the program;
  `sendMessage` and `hasConnected` have no body, so a server handler never writes.
  `isConnected_` is written and never read.
* Mapping trees in which a node has several parents: `SolvingState`'s callers build none.
* Test-data generators, protocol buffers, the AWS stub, the gRPC examples and
  `external_deps`.

`Client.h` does not compile as it stands: `processMessageAsync` uses `assignedRanges` and
`forwardedRanges` where it has declared `assignedShards` and `forwardedShards`, and
`sendShardInfoUpdate` fills fields (`ranges`, `statuses`) that `ShardInfoUpdate` does not have.
The model takes the declared names, and takes the update to carry its ranges with their
statuses as `shard_infos`, which the server reads. The multiplier of load balancing is a double
in the code and an integer here.
