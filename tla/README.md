# Verification of model-weights

TLA+ models of `model-weights`: the bounded preparation pipeline, the persistent
cache, tensor-assembly graphs with the preparation engine, and the materializer
with binding plans and overlays. The modules are checked by TLC on small
instances; the safety properties of the pipeline with its refinement, of intake,
of the cache, of the memory of graphs, of binding plans and of the materializer are
proved by TLAPS for every number of items, workers, bytes, processes, nodes,
tensors and sessions. Line numbers and the state of every part are in `PROJECT.json`.

## 1. The system

The library turns checkpoint tensors into prepared weights: a checkpoint is
inventoried, a binding plan maps targets to sources and operations, the
materializer schedules one work item per binding, the pipeline prepares the
items in parallel within byte budgets and delivers them in order, and finished
bindings may be kept in a directory cache shared by several processes.

| Component | State | Operations | Correct when |
|---|---|---|---|
| intake (`Pipeline::execute`, front) | collected items | collect, sort, validate | what is admitted is sorted, unique and within limits |
| resource budget | bytes in use and peaks in three dimensions | acquire, release, split, retain | never above a limit; equal to what live permits hold |
| dispatch window | a counter | acquire, drop | no item `dispatch_lookahead` ahead of the awaited one |
| dispatcher, workers, coordinator | positions, two bounded channels, reorder buffer | `dispatch_work`, `worker_loop`, `with_resources`, `coordinate_results` | caller sees a sequential, schedule-independent delivery; everything returned; it ends |
| cancellation token | one flag | cancel, poll | wakes every waiter, is not mistaken for the pipeline's own stop |
| cache | per key: entry, staging, hidden, evicted and lease directories | lookup, publish, evict, recover | hits are whole, one owner per lease, no miss of what one replacement moves, nothing lost by crashes |
| materializer | plan, opened checkpoint, overlay, cache handle; per binding its route | open, execute, look up, read, transform, publish | a warm hit equals a fresh preparation; reservations cover what routes hold |
| binding plan | sources, targets, bindings | analyze, build, parse back | one canonical form; what is planned can be executed |
| overlay | aliases, layers of operations | build, target digest | the digest determines the composed bytes |
| operation graph | values and their facts; live values and allocations | add, build, estimate, execute | the output is what the graph denotes; exact accounting; within the estimate |
| preparation engine | registry of providers | validate, reuse or allocate | sizes are the plan's |
| checkpoint, inventory, GGUF, quantization | file handles, spans | bounded reads, digests | only the memory a read takes is modelled |
| identities, sources, telemetry, errors, SIMD kernels | none that survives a call | | not modelled |

Interaction. The materializer calls `Pipeline::execute`; its `prepare` callback
looks the cache up, and on a miss asks `PrepareContext::with_resources` for the
bytes that the preparation takes. Threads of one execution share the budget,
the window, the channels and the token. Processes that use one cache root share
nothing but the file system.

Where it is hard. (a) Three kinds of threads wait on two counters and two
channels while they hold bytes of each other's budget; a preparation acquires a
second time while it keeps its worker. (b) Errors, cancellations from outside
and the coordinator's own cancellation meet in one token. (c) Cache calls are
sequences of path operations; any process may run or die between two of them,
and leases are taken from dead owners by age. (d) A plan, an overlay and a cache
entry are made at one time and used at another, possibly by another process
against other files; what they are identified by has to contain everything they
depend on. (e) Bytes are reserved from a plan, before it is known which of
several routes a binding takes and which memory a provider or an alias reuses.
`PROJECT.json` lists these hazards
at their lines.

## 2. The modules

| Module | Models |
|---|---|
| `Intake` | `execute` up to its validation: `collect_bounded_work`, the unstable sort, `validate_work`, under a token cancelled at any time |
| `Pipeline` | the rest of `execute`: all threads, channels, budget, window, token, return |
| `Delivery` | what `execute` promises its caller: an abstract sequential delivery |
| `PipelineProofs` | theorems: types, budget limits, the window, where every item is, the reorder buffer |
| `PipelineCharges` (extends `PipelineProofs`) | theorems: what every item has reserved, conservation, return |
| `PipelineDelivery` (extends `PipelineCharges`) | theorems: outcome, cancellation, refinement of `Delivery` |
| `IntakeProofs` | theorems about `Intake` |
| `Cache` | the directories of one key; lookup, publish, evict, recover, leases, crashes, ageing |
| `CacheProofs` | theorems about `Cache` |
| `Tensors` | shapes, strides, byte lengths, `TensorFacts` |
| `Preparation` (extends `Tensors`) | the preparation engine, its built-in provider and a consumer's provider |
| `OperationGraph` (extends `Preparation`) | graph builder, inference, liveness schedule, estimate, static aliases |
| `GraphExecution` (extends `OperationGraph`) | kernels, `execute_host`, the meaning of a graph, its properties |
| `GraphProofs` | theorems about `GraphExecution` |
| `Plan` (extends `Tensors`) | sources, targets, recipes, resolution, diagnostics, canonical plans |
| `Overlay` (extends `Plan`) | alias tables, layers, overlay plans, target digests |
| `Materializer` (extends `Overlay`) | sessions over a shared cache: obtaining and opening a plan, scheduling, the routes of a binding, publication |
| `PlanProofs` (extends `Plan`) | lemmas about sorting, resolution and canonical plans |
| `MaterializerProofs` (extends `Materializer`, `PlanProofs`) | theorems about `Materializer` |
| `MCPipeline`, `MCIntake`, `MCCache`, `MCGraph`, `MCMaterializer` | instances for TLC |

### Pipeline

`plan` fixes what the caller's callbacks do with each item: the weights it is
scheduled with, the total it asks `with_resources` for, the size of its value
and whether the callbacks fail. Items are numbered by ordinal. A permit's bytes
are `permit[i]` (from the dispatcher) and `extra[i]` (from `with_resources`); a
place in the window is membership of `window`. `used`, `peaks` and `windowUsed`
are the fields of the code, updated with its saturating subtraction, so that
"the counter equals the sum of the permits" is a property and not a definition.

One action is one step between two accesses to shared state. In particular the
test of the token at the head of `acquire` and the locked test of the budget are
different steps, each output of the reorder buffer is dropped in its own step,
and an item sent into a channel whose receiver has gone is dropped with the
channel (`DiscardWork`, `CoordinatorDiscardResult`). A wait with a timeout is a
guard: waking up and finding nothing changed is a stutter.

Three simplifications: a preparation calls `with_resources` at most once for more
than it has reserved (the materializer calls it for a cache hit and again on the
way of a miss, and only the last of these calls acquires anything); a call of the sink is one step; and an item that goes gives up
its bytes and its place in the window together, where the code drops the two
permits one right after the other. A waiting thread that finds bytes and a
cancelled token at once takes the bytes (`WorkerRefuse`), where the code looks at
the token first; the cancellation then reaches it one step later. A sink may answer a cancelled token with the cancellation
error at any time.

### Cache

One key. A generation is a payload with its envelope, named after its publisher
(`Old` was there before). `place` says under which name its directory is:
`staged`, `final`, the name of the publisher that hid it (`previous-`) or of the
evictor that did (`evicted-`); `files` says which of the two files are complete.
Every system call another process can notice is a step: opening the envelope and
then the payload, listing hidden generations, the two renames of a publication,
each file of a `remove_dir_all` whose directory a reader may visit, creating a
lease, writing its owner and its heartbeat, comparing its owner and unlinking it.
A directory listing is a snapshot. Hidden generations are visited in any order
(the code sorts them by modification time, which a rename keeps).

Failure: any rename, write or refresh of a publication may fail; a process may
die at any step of its time under the lease (`Crash`). A deletion that fails
half-way leaves what a crash there leaves. Time: a wait for a lease may end with
the timeout error whenever it would go on waiting; a lease becomes stale
(`Age`) only when no live process works under it, that is, live processes are
taken to be faster than `stale_after` (30 minutes by default). Recovery goes
through its listing by the kind of the name, as the sorted names do; names of one
kind start with a process id, so their order is arbitrary. A publisher that loses
its lease and one that is cancelled end alike (`StagingFail`). `path_is_stale` is
taken to be true of every other path a recovery meets: what it guards is then only
more often touched. A lease that is reaped, renamed to `.lease.reap-` and deleted,
is gone in one step: nobody looks at the renamed directory but a later recovery,
which deletes it, so a death between the two leaves nothing a property sees.
A rename onto a directory fails, also onto an empty one, which no step leaves behind
but a deletion that is almost through.

Two publishers of one key replace each other's entry only if they ask for
different compatibility contracts or the entry does not validate. Keys made with
`CacheKey::derive` contain the contract; `CacheKey::from_digest` and the explicit
arguments of lookup and publish allow mixed contracts, and the code has the
mismatch result for them, so the instances use two contracts.

`Trusting` names readers that validate metadata only. `HitsAreWhole` does not
hold for them: a replacement by another contract between their two opens gives
them the old envelope with the new payload of equal length. The instances leave
the set empty.

Two history variables follow the lookup of each reader: `unseen` says that at some
moment of it nothing was there that it could have found, `crossed` has the
publications that were between their renames or deleting what they had hidden.
No action reads them.

### Operation graphs

A view is whose memory it is, and for each element where that came from and
which conversions it went through, so a kernel that reads or writes one wrong
offset is seen. The builder's calls are actions (`AddInput`, `AddOperation`,
`Build`), and TLC builds every graph of the instance's size; a call that the code
refuses leaves the builder as it was and is not a step. `ScheduleNode` is the
bookkeeping of one node that estimate and execution share; they differ in which
outputs they take for aliases. `MaxWord` stands for the largest `u64`: every
checked product and sum stays below it, and overflow is an error where the code
makes it one. Each of the code's copy loops is a function from output cells to
input cells. An empty view has no memory of its own, as an empty `Box<[u8]>` has
no address of its own; `SameView` is the code's comparison of address and length.
The vectorised 3 x 3 kernel and tiling are left out: they compute the same
function in another order. A cancellation ends an execution between any two
nodes.

Some integrity errors of the code are not steps of the model. That the accounting
subtracts more than there is or misses an allocation is what `AccountingExact`
excludes; the values alive before a node are derived from the schedule and compared
with the uses left. The range checks of the kernels (`copy_element`,
`checked_byte_range`, the ends of a concat and of an OIHW repack) are not modelled, so
`NoInternalError` says nothing of them, and neither does it of an execution with the
wrong number of inputs, which the materializer cannot ask for.

### Plans, overlays, materializer

Names are numbers, ordered as the code orders strings. A digest is the content it
is taken of, so that "equal digest" is "equal content" (no collisions). Bytes are
terms: a span of a file's content, a transform of bytes, a graph, a recipe or a
dequantization of bytes, an overlay on bytes. What the host computes is
`BaseValue`; what a consumer's provider makes of a handoff is the same kind of term
(`ProviderValue`, `Applied`): a provider is taken to depend on nothing but what it
is handed. Whether a preparation reuses its input is the `answer` of a step, the
provider's and not the plan's; `Conforms` is what the engine checks of it.

A request names the checkpoint (inventory, contents, access mode), where the plan
comes from (built, parsed, looked up in the plan cache), an overlay, the
operation mode and the cache validation. A session's steps are those of the code:
obtain a plan, open it against the checkpoint, execute, and then for each binding
look up, read the entry, evict a corrupt one, read the sources, transform, run the
graph, publish. A binding with an overlay first looks up the composed tensor and
then its base (`stage`). `held` is the heap a task holds, `reserved` what it has
reserved of the three budgets. A graph is a record of its inputs, facts, estimate,
peak, the input it is certain to return (`alias`) and whether its output is memory
of its own (`owns`): its inside is `OperationGraph`. It runs in one step
(`RunGraph`), after which the task holds what the graph held at its peak; comparing
that with the estimate is the next step (`CompareScratch`).

The cache is a map from addresses to entries that any session, an evictor
(`EvictForSpace`) or a change from outside (`Tamper`) may alter between two steps;
`Cache` is about one entry on disk. Nobody tampers while a session trusts
metadata, as the documentation of that mode demands. An acquisition succeeds or
fails at once; `Pipeline` is about waiting. An error after a growth of the prepared
bytes, which leaves them at zero in the code, cannot occur while
`PreparedNeverGrows` holds. Sums that overflow exceed every limit, so the errors of
`checked_add` are limit errors here. What a provider holds beyond the scratch it
declares is its own affair. A serialized plan is parsed from canonical bytes of the
right schema version, and its recipes are not validated again (`Parses`): the model
accepts more than the code.

Left out: cancellation and errors of the operating system (such a task stops, and
leaves nothing behind but what it had published); the fixed-size blocks in which
entries and files are read; the direct call `materialize`, which takes the same
path without reservations; the manifest, selection and contract identities of a
plan, which are compared with nothing; the byte limit of a cached plan.

## 3. What TLC checks

| Run | Instance | Shows |
|---|---|---|
| `PipelineSafety` | 3 items, 2 workers, lookahead 2, result channel of 1, a canceller; plans mix items that defer, grow, lie about their size, ask for more than a limit, fail | `TypeOK`, `WithinLimits`, `PermitsConserved`, `SpeculationBounded`, `PendingBounded`, `OutputsCharged`, `ReleasedOnReturn`, `DeterministicOutcome`, `CancelledOnlyIfRequested`, refinement of `Delivery` (`SequentialDelivery`), `Terminates` |
| `PipelineCancel` | 3 items, 1 worker, lookahead 3, a canceller; plans that defer or grow, and plain ones | `CancelReturns`, also from states where the execution alone would hang; `PlainTerminates` |
| `PipelineHang` | 2 items, 1 worker, lookahead 2, a miss before an uncached item | `Terminates` is violated |
| `Intake` | every sequence of up to 4 items over 3 ordinals and 3 weights, at most 3 items allowed | `AdmittedIsValid`, `CollectionBounded`, `RejectionJustified` |
| `CacheLive` | 2 publishers of different contracts, a reader, an evictor; entry missing, intact or corrupt | `TypeOK`, `HitsAreWhole`, `PublishedIsOwn`, `LeaseExclusive`, `OneReplacementVisible` |
| `CacheRecovery` | 1 publisher that may die, a reader, 2 recoveries | `OneReplacementVisible`, `NothingLost` |
| `CacheStartup` | 2 publishers and an evictor of which 2 may die, then a recovery | `RecoveryCleans`, `CallsReturn` |
| `CacheReap` | 3 publishers, 1 may die | `LeaseExclusive` is violated |
| `CacheTwoCrashes` | 2 publishers that may both die, then a recovery | `NothingLost` is violated |
| `Graph` | every graph of at most 2 inputs and 4 inputs and nodes together, over 16 operations on 2 x 2 tensors, padded and overlapping views of a 2 x 3 allocation, a rank-4 tensor | `FactsAddressStorage`, `OutputIsMeaning`, `AccountingExact`, `NoInternalError`, `StaticAliasHonoured`, `EstimateBoundsOwnedOutput` |
| `GraphScratch` | the same | `EstimateBoundsScratch` is violated |
| `Materialize` | 2 sessions, 40 requests: other files behind equal descriptors, two backends, host and provider, adapters on one base, parsed and altered plans, mapped and read sources | `DeliveredIsFresh`, `AddressesDetermineBytes`, `ReservationCovers`, `PreparedNeverGrows`, `PlannedDoesNotFail`, `PlanIsCanonical`, `SharedOnlyWhenTied` |

Why the bounds are enough. Three items are the least with which one output waits
in the reorder buffer while another is being prepared and a third is queued or
waiting for bytes; two workers let results overtake each other; a result channel
of one blocks workers; byte limits admit one item of each pair of large ones, so
waits happen in every dimension. One worker with three
admitted items leaves work in the channel when the worker goes. For intake, four items are one more than the
limit, and three ordinals allow duplicates that are not neighbours before the
sort. For the cache, a replacement involves two generations, a lost lease three
processes; each crash run allows as many deaths as its question names. Deadlock
is checked in all of these but `PipelineHang`, where the hang is the question.
No other counter of pipeline and cache needs a bound: each is limited by the
number of items or processes.

For graphs, `MaxSize` 4 lets a split leave one output unused while the other
lives on through two aliases, and a dead value precede the output; the
operations include every kind, both modes of a permutation, an empty slice, an identity and a widening conversion, a
provider that is missing and one that may answer anything. `MaxWord` 40 is above
every legal size of the instance but below the largest sums, so that overflow
happens. For the materializer, sharing a cache takes two sessions; the byte limits
(`MCLimits`) reject the largest handoff and admit the rest; one
request has more bindings than `MaxWorkItems`; one change from outside
(`MaxTampering`) is enough to meet every reader. Sessions are interchangeable, so
their symmetry is used. Executions of these two models end, so deadlock is not
checked there.

Fairness. Each thread of an execution, and each process of the cache, is weakly
fair: the operating system runs what can run, and the waits of the code wake up
by notification or time-out. Callbacks return. Nobody is obliged to cancel, to
crash or to fail. In the cache, time passes (`Age` is fair): `CallsReturn`
depends on a dead owner's lease getting old.

### Where the code and its documents disagree

* **`PipelineHang`**: with `dispatch_lookahead` above the number of workers, which
  `ExecutionLimits` allows and documents as independent, a cache miss waits in
  `with_resources` for source bytes that an uncached item in the work channel
  holds, and that item waits for the miss's worker. `execute` never returns
  unless it is cancelled. With both equal, the default, `PipelineSafety` shows
  that it ends.
* **`CacheReap`**: two waiters see a dead owner's lease as stale; the slower one
  renames the new lease of the faster one away, and both go on as owners. The
  comment at `path_is_stale` excludes this race for a vanished path only. A
  publication after it may return another publisher's payload as its own.
* **`CacheTwoCrashes`**: one publisher dies while it deletes its hidden generation,
  a later one between its two renames. Recovery may reinstate the half-deleted
  generation and then delete the complete one as superseded.
* **`GraphScratch`**: the estimate of a graph's scratch subtracts the output's
  allocation, also where an identity conversion will reuse an input's memory and
  the execution has nothing to subtract. A dead 4-byte slice beside an output of 8
  bytes is estimated at 0 and reports 4; the materializer then fails with
  "operation graph exceeded its prevalidated scratch estimate". The doc calls the
  estimate an upper bound. `EstimateBoundsOwnedOutput` shows that it is one
  whenever the output is not an input's memory, and that otherwise the excess is at
  most the bytes of the output. The materializer reserves the estimate and compares
  after the execution, so scratch has been held by then that admission did not
  account for; `ReservationCovers` says how far this goes: the prepared bytes reserved
  for the output, which is not allocated, make up for it.

Two limits of the passing results belong here. `NothingLost` is checked for one
publisher in `CacheRecovery`: with two, one crash and a rename that fails twice,
the state before the deletion in `CacheTwoCrashes` is reached with a single crash.
And the comment in the lookup, "publication has no logical visibility gap", is true
of one publication, which is what `OneReplacementVisible` says. Two make a gap,
without a crash: the first look falls between the renames of one that is then undone,
the listing finds nothing hidden, and the other hides the entry before the second
look. The lookup misses an entry that was under one of its two names all the time.

## 4. What is proved

Every theorem is about the specification the runs check, for every value of the
constants that satisfies the assumptions of its module. TLC evaluates these
assumptions on every run. `LimitsAssumption` is what `ExecutionLimits::validate`
accepts with at least one item, `ValidatedWork` what `validate_work` leaves
(`AdmissionSound` proves that intake leaves it), `CacheAssumption` says that the
roles are disjoint and that no process is called like a place.
`InputFactsAssumption` and `OperationsAssumption` are the types of `TensorFacts` and
of what an operation carries. `RequestAssumption` says of every request that its
sources and targets are lists of entries with names and that a serialized plan has
the fields of a plan; and of one whose plan is obtained and opened that each binding
has a source (`Binding::new`) and its storage is of one of the two kinds, that sizes
are numbers of bytes, spans finitely many and transforms a sequence, that a graph's
peak exceeds its estimate by at most the output's bytes, and only if its output is an
input's memory (`EstimateStaysBound`), and that a digest or an address is not the
absence of one.

### Pipeline

* `TypeCorrect` (`TypeOK`), `BudgetSafe` (`WithinLimits`): inductive given the
  types; an acquisition is guarded by `fits`, a release only decreases.
* `LookaheadSafe` (`SpeculationBounded`). The property does not say what the
  counter `windowUsed` means, so it is not inductive. `WindowInv` adds that, while
  the coordinator is in its loop, the window is exactly the interval from the
  awaited item to the dispatcher's, with the counter as its length; that needs
  that everything on its way lies below the dispatcher's item, and that no worker
  leaves while there is work.
* `ReorderBufferSafe` (`PendingBounded`). `OwnInv`: an item that left the
  dispatcher is in exactly one place (work channel, a worker, result channel,
  reorder buffer, sink), and the window is the set of items that are somewhere.
  The buffer then holds window items other than the awaited one.
* `OutputsChargedSafe` (`OutputsCharged`). `ChargeInv` gives the permits of an item
  at each place of its way: nothing, its scheduled weights, what it keeps while it
  waits in `with_resources`, what it asked for, what an output retains.
* `BudgetConserved` (`PermitsConserved`): the counters of the budget, kept with
  saturating subtraction, are the sums of the bytes that live permits hold. The
  sum is stated as the cardinality of the set of pairs of an item and one of its
  bytes (`HeldBytes`), for which the finite-set library has what is needed;
  `Conserved` adds that the set is finite. So no subtraction ever saturates.
* `ReturnReleases` (`ReleasedOnReturn`). `ReturnInv`: the coordinator leaves its
  loop behind with nothing in hand and returns after the workers and the
  dispatcher, which leave nothing either.
* `OutcomeDeterministic` (`DeterministicOutcome`), `CancellationHonest`
  (`CancelledOnlyIfRequested`). `OutcomeInv`: while the coordinator is in its loop
  only an outside request can have cancelled the token (`StopInv`), what was
  delivered is the prefix before the awaited item and all good (`DeliveredPrefix`),
  and the error in hand is that of the awaited item or answers a cancellation
  (`TerminalJustified`).
* `ImplementsDelivery` (`SequentialDelivery`): initial states map to initial
  states, every step to a step of `Delivery` or to a stutter. Its liveness is not
  part of `Delivery`.

### Intake

* `AdmissionSound`, `CollectionSafe`, `RejectionSound` (`AdmittedIsValid`,
  `CollectionBounded`, `RejectionJustified`) for every submission and limit.
  `IntakeInv`: what is stored is the prefix that the iterator has yielded, and the
  sorted work is a permutation of the whole submission. Validation finds duplicates
  in any order (the code keeps a set); the sort only makes the admitted ordinals
  ascending, and without duplicates strictly so.

### Cache

* `CacheTypeCorrect` (`TypeOK`): `TypeInv` adds the types of `pc`, sweeps and
  results.
* `ValidatedHitsWhole` (`HitWhole` of every process that validates), `HitsWhole`
  (`HitsAreWhole`, where nobody trusts metadata): for any processes, deaths and
  interleavings. `HitInv`: the envelope a lookup has seen is of its contract.
* `LeaseExcludes` (`LeaseExclusive`) where nobody dies. `LeaseInv`: whoever is
  between acquiring and releasing is the only one, the lease is there for it and
  fresh, and from its owner write on names it. One death makes the theorem false
  (`CacheReap`).
* `PublicationOwn` (`PublishedIsOwn`) where nobody dies. `DirInv`, which holds
  always: no two directories have one name, a process's name is free until it
  hides the entry under it, staging belongs to a writer that is not through.
  `PublishInv`: from installing to reopening, the publisher's own generation is
  the entry; nobody else works, because of `LeaseInv`.
* `RecoveryComplete` (`RecoveryCleans`), any number of deaths, processes and
  recoveries. `RecoverInv`: after a quiet start everything that is left beside the
  entry is on the remaining list of the recovery at work or in its hands
  (`Covers`), and once one has finished nothing is left for the next (`Clean`).
* `PublicationKeeps` (`NothingLost`) where nobody recovers, and with evictors only
  if nobody dies. `KeepInv`: a publisher that deletes what it hid leaves another
  complete generation that nobody deletes; what is installed is complete.
  Publishers may die and rob each other of their leases.
* `RecoveryKeeps` (`NothingLost`): one publisher, no evictor, any number of readers
  and recoveries, a death at any step. `SoloInv`: recovery touches the lease or a
  hidden generation only after the publisher's end; once the publisher's
  generation is the entry it stays that and complete, and until then the old one
  is complete, because a recovery that found the entry's name taken found either
  the new generation or nothing hidden.

`CacheTwoCrashes` shows why the last two do not combine: with two publishers and
recovery the property is false.

### Graphs

For every graph the builder accepts, of any size, over any operations and facts.

* `AccountingStaysExact` (`AccountingExact`). `Inv`: what the builder accepted
  (`GraphOK`: every node is fed by values before it and has the outputs that were
  inferred), and while a graph runs, an exact schedule (`Exact`). The latter is the
  property with types and with every value on an allocation that has been made, and
  each of the four calls on the schedule keeps it. Live bytes are a set of pairs of
  an allocation and one of its bytes, so that freeing removes what was put there.
* `StaticAliasStaysHonoured` (`StaticAliasHonoured`). The property follows a chain of
  aliases from the output downwards, an execution goes upwards. `AliasesKept` says of
  every live value, and of every input to which aliases lead from it (`Leads`), that
  the value is that input's memory. It uses that `reshape` and an identity
  permutation decide from the same facts as `node_output_alias_input`.
* `EstimateStaysBound` (`EstimateBoundsOwnedOutput`). The estimate takes an output for
  an alias only where that is certain; an execution finds more of them. `Sim` relates
  the two schedules before every node (`Followed`), and inside a node call by call:
  the same values live and the same uses are left; values that share an allocation
  in the estimate share one in the execution (`Coarser`); each value's allocation is
  as large as its facts say (`ByteSized`, for which an alias has to have the bytes of
  its input: `Viewed`). So the execution's live bytes inject into the estimate's,
  and its peak is no larger. What is left is the output's own allocation, which both
  subtract unless the output is an input's memory; in that case of `GraphScratch` the
  estimate is short by no more than the output's bytes.
* `NoInternalErrorEver` (`NoInternalError`). Two kinds of error could be raised.
  A value is missing or a use count wrong: `Waiting` says that before every node the
  counters are the uses by the nodes still to come (`Ready`), so a value leaves only
  after its last use, and the output has one use more. A kernel makes another number
  of bytes than the builder inferred: `ContentsFit` says that every live view holds
  as many elements as its facts say. Each kernel is followed by length: the product
  of a shape is split at the axis that is sliced, joined or padded, chunks of equal
  length are counted when they are joined, and a conversion passes the checks of the
  built-in provider. Where a provider is supplied from outside or uses scratch the
  error is a legitimate answer, and the property does not speak of it (`Plain`).

### Materializer

* `AddressesDetermineBytesAlways` (`AddressesDetermineBytes`). The property speaks
  of sessions that are open now, and is not inductive: an entry may outlive the
  session that published it, and another request may open after it. `EntryInv`
  says it of every request that could be opened at all (`Admitted`). A publication
  keeps it by `AddressDetermines`, the argument why the address is enough: it holds
  the target contract, the backend, the descriptors of the sources and the
  digests of just the files they lie in, which opening compared with the contents
  (`SourcesAgree`), and the digest of the overlay's operations on the target with
  the files those read (`OverlaysAgree`). It uses that a binding's sources are
  what planning selected (`PlanBuilt`, `BindingSources`), also in a plan that was
  parsed or looked up.
* `DeliveredIsFreshAlways` (`DeliveredIsFresh`). `ValueInv` says at each step how
  far a task is on the way to its fresh value: the handle of a hit is that value if
  it is intact, a transform has the value after the steps so far (`Chained`), a
  delivery is the base or the composed tensor. `TrustInv`: while a session trusts
  metadata nothing was changed from outside, so all entries are intact.
* `PreparedNeverGrowsAlways` (`PreparedNeverGrows`). `Enough`: until the sources
  are read, an item has reserved the prepared bytes of a miss and, where it has an
  address, those of a hit, as far as the limit admits; what exceeds the limit fails
  before it grows.

* `ReservationCoversAlways` (`ReservationCovers`). `HoldInv` adds to what a task holds
  what it is going to hold: from the reading of the sources to the publication all of
  `resource_weights` is reserved, a hit has its length reserved before it is read, and
  the bytes in hand have the length the next step was planned with. Each route is
  then added up: the spans read to the heap, also those whose mapping failed, are
  among those not certain to be mapped (`FewerSpans`); a transform holds its input,
  its output and its workspace, which is what `Live` counts for its position, and no
  position exceeds the peak (`PeakBounds`); the first input is a span and no
  intermediate; a handoff is as long as the spans of the binding. Of a graph's peak
  `RequestAssumption` takes what `EstimateStaysBound` proves: it is within the
  estimate if the graph `owns` its output, and within the estimate and the output's
  bytes otherwise (`RanInv`).
* `PlannedDoesNotFailAlways` (`PlannedDoesNotFail`). The length check before a
  publication cannot fail, because what validation accepted has agreeing lengths:
  the last transform makes the target's bytes, a source without transforms is as long
  as the target, a graph's facts are the target's (`StraightAccepted`,
  `GraphAccepted`). It takes that every binding of every plan, also of a parsed one,
  is of a target that was accepted and passed `validate_binding` or
  `validate_operation_binding` (`BindingAccepted`).

The first three follow from `MaterializerInvariant`: `SessionsInv` with `TaskInv` for
every task, `CacheInv` and `TrustInv`; the last two from `HeapInv`, `HoldInv` for
every task, on top of it. What a chain of transforms computes takes an
induction over its length; `LeastNumber`, the least element of a set of numbers,
comes from the well-foundedness of `<` and needs no operator parameter.

### Plans

* `SharedOnlyWhenTiedAlways` (`SharedOnlyWhenTied`). A binding is one of a target
  that resolved (`BindingResolved`). Two bindings with a source in common have two
  different positions among the users of one index, since names are unique without a
  `duplicateSource` (`ValidDistinct`); more than one user without a common group
  is an error, and an accepted plan has none (`SharersTied`, `BindingsTied`).
* `PlanIsCanonicalAlways` (`PlanIsCanonical`). Sorting is counting: an entry comes at
  the position that as many entries precede. `Positions` says that this numbering is
  one to one and onto, so sorting loses and invents nothing (`SortArranges`) and, with
  unique names, forgets the order it was given (`SortForgets`). `Reordering` relates
  two requests through the permutations of their lists; candidates, ambiguity, users
  and each part of the diagnostics move along (`DiagnosticsMove`), and
  so does the plan (`BuiltPlanMoves`). A plan that was parsed equals the rebuilt one
  in all its fields, because lists in ascending order stay as they are (`SortedStays`,
  `ParsedPlan`), so whatever holds of a built plan holds of it.

`PlansInv` says that a session's plan, also one that was rejected when it was
opened, is the one some request obtains.

### What the proofs changed

The `Verdict` of `Pipeline` was a `CASE` with overlapping guards, whose
value TLA+ leaves open; it is now the chain of conditions the code has.
`CacheAssumption` stated disjointness by quantifying over pairs of different
sets, which says nothing when two sets are equal; it is now explicit, and it says
that no process has the name of a place. `PermitsConserved` is stated with
cardinalities instead of a fold. A chain of transforms is a function of the step
(`Chained`) instead of a fold, and the bound targets of a plan are named (`Bound`).
Sorting by name is a rank, and so is the sorting of a set of numbers;
diagnostics are the union of named parts, the length of a set of spans is a
cardinality and the peak of a chain a recursive function; `RequestAssumption` says
what it says of lists, spans and steps, and no longer that `resource_weights` are
numbers, which is proved (`WeightsAreSizes`).
Of graphs, the loops over nodes, the calls for a node, the product of a shape and
the sum along an axis are recursive functions instead of folds, and live bytes and
uses are cardinalities.

### Only model-checked

* `Terminates`, `PlainTerminates`, `CancelReturns`, `CallsReturn`: fairness is
  outside the prover.
* `OneReplacementVisible`: its inductive form has to follow a lookup through each of
  its visits against each step of the one replacement; `CacheLive` and
  `CacheRecovery` check it.
* `FactsAddressStorage` and `OutputIsMeaning`: how much a kernel makes is proved, not
  which bytes. Which offset an index has under given strides is an induction over the
  rank of a tensor with non-linear arithmetic.

## 5. Not modelled

Panics of callbacks and poisoned locks; telemetry; `inspect` and the scan bounds
of the cache, and the order in which `evict_to` chooses; Windows branches of
renaming; a live process that stalls for longer than `stale_after`; the contents
of payloads (a digest identifies a generation).

The readers of file formats (`inventory.rs`, `gguf.rs`, header parsing of
`checkpoint.rs`) are sequential parsers of byte strings whose results, the facts
of sources, are where `Plan` starts. The block arithmetic of packed layouts
(`quantization.rs`) and the vectorised kernels are data without control. Identity
types, errors and drivers keep no state. `PROJECT.json` has every part with its
reason.

## 6. Plan

1. *Done:* `Intake`, `Pipeline`, `Delivery`, `PipelineProofs`; `Cache`; `Tensors`,
   `Preparation`, `OperationGraph`, `GraphExecution`; `Plan`, `Overlay`,
   `Materializer`.
2. *Done:* the theorems of section 4.
3. Theorems about what the kernels compute: their lengths are done
   (`NoInternalErrorEver`), offsets are next (`FactsAddressStorage`).
4. Models: an abstract cache that `Cache` without crashes implements; the parallel
   digests of the checkpoint reader.
