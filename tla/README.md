# Verification of SIREngine

TLA+ models of the concurrent core of the engine, the TLC runs that check them, and the proofs that
hold for every size. Paths below are relative to `src/Source/` unless they say otherwise. Everything
here is read from the code; where a document of the repository disagrees with it, a run shows it
(see *Disagreements*).

## 1. The system

SIREngine is a C++ game engine: a task scheduler and event primitives at the bottom, a resource
graph that publishes immutable CPU data to the renderer and other readers, streaming and world
partition on top of it, a renderer with several graphics backends, audio, scripting, an editor and
tools. What is hard to test is in the parts several threads share, and those come first here.

| Part | State it keeps | Operations | What makes it correct |
|---|---|---|---|
| Task scheduler, `Core/Jobs/SIRTaskScheduler` | task slots with generations, a pool of prerequisite edges, local and global ready queues, counters, owners, two condition variables, one mutex | submit, submitAfter, submitBatch, worker loop, pumpMain/CPU/Provider, cancel, completeProvider, releaseTask, waitTask, shutdown | prerequisites honoured, each task run once on its executor, exact counters and edges, no lost wakeup, every task settles, a shutdown that completes and leaves nothing |
| Fence tracker, `Core/Jobs/SIRTaskFenceTracker` | a ring of tickets in fence order, the last tracked and the completed fence | init, track, untrackLast, advanceCompleted, failQuiesced, shutdown | a deferred task completes after its fence and its finalizer, once; the order survives a rollback |
| Task graph, `Core/Jobs/SIRTaskGraph` | passes with their accesses, explicit and compiled edges, the topological order, the submitted handles | addPass, addDependency, reset, compile, submit, queryExecution, cancelExecution, releaseSubmitted | what must be ordered is ordered and nothing else, conflicting passes exclude each other, reports on a running batch are true |
| Resource graph, `Resources/SIRResourceGraph` | published pointers, read key index, epoch, retired list, reader epochs, pins; for the writer alone: chunks, staging, dependencies, journal, revisions | request, publish, publishExpected, evictChunk, markFailed, retire, collectRetired; find, resolve, read scopes; pinForProvider, releaseProviderPin; pollInvalidations, compileDependencyOrder, compileTaskGraph | no reader or provider loses the memory it uses; a search without a lock misses nothing; handles and revisions are unambiguous; memory returns |
| File loads, `Resources/SIRResourceFileLoad` | the request, a staging buffer, the handle of the read task | begin, cancel, poll | a completion is published over the revision it was begun for or not at all, the buffer never leaks |
| Derived registry, catalog, views, `Resources/` | derived entries, look-ups | build, poll | clients of graph and scheduler |
| Events, `Core/Events/` | single-producer rings, the mailbox of rings; a multi-producer queue, phase table, timing wheel | enqueue, batch, lease, commit, pump, stop; schedule, cancel | bounded FIFO channels that never show or lose a payload twice, no producer starved |
| String pool, `Core/Strings/SIRStringPool` | name table and index, dynamic entries, six tiers of decoded slots with pins and hints, leases, two spin locks | find, intern, acquire, release, retireScope | a lease keeps its text, an atom names one string, no published name is hidden |
| Memory, `Core/Memory/` | twenty allocators, a pressure coordinator | allocate, free, reset | byte-level layout |
| Streaming, `Streaming/` | slots with generations and stages, bridge flags, reconciler entries | reconcile, pump, acknowledge, cancel, shutdown | the provider sees legal calls only, each ticket is retired once, demand is served |
| World partition, terrain, mesh, UI | selections, codecs | deterministic passes | same input, same output |
| Renderer, drivers, audio, platform, input | plans, device objects | | belongs to devices and external libraries |
| Core containers, CVars, console, VFS, registration, scripting, editor, tools | | | sequential code, text and tables |

`PROJECT.json` lists every one of these with its files, what is modelled of it and, where nothing
is, why.

**Interaction.** Every subsystem submits to the scheduler and none is called by it but through the
callback of a task. A provider (render, physics, audio) binds a thread to its executor, pumps it,
leaves tasks pending and acknowledges them when its native work is done; the fence tracker is the
helper for that. The resource graph has one writer thread and any number of readers that take no
lock; providers pin records so that native work can outlive a read scope. The graph turns its
dependencies into a task graph, and a file load is a task whose completion publishes with an
expected revision. Streaming drives one provider per bridge from the main thread; the provider
answers from worker threads. Names are interned and looked up by every subsystem, from any thread.

**What is hard.** (1) Every callback runs outside the scheduler's mutex, so what was read before it
must be read again. (2) Two condition variables are notified by other threads than those that change
the condition. (3) Slots, pins, records, edges and reader slots are all used again, so old handles
and addresses exist at any moment. (4) The readers of the resource graph take no lock. (5) A native
completion races with cancellation, rollback and shutdown, and may arrive twice. (6) The rings and
the string cache publish ordinary stores through single atomic words. The hazards in `PROJECT.json`
give the line of each and the properties that would notice it going wrong.

## 2. The modules

| Module | Models | Composition |
|---|---|---|
| `TaskScheduler` | the scheduler | extended by `TaskFenceTracker`, `MCTaskScheduler`, `MCTaskSchedulerLive` |
| `TaskFenceTracker` | the tracker on the whole scheduler | extended by `MCTaskFenceTracker` |
| `TaskGraph` | building, compiling, submitting and watching a batch | `MCTaskGraph` |
| `ResourceReadScopes` | what the threads share of the resource graph | `MCResourceReadScopes` |
| `ResourceMemory`, `ResourceWriter`, `ResourceFileLoad` | payload memory, the writer on it, one file load on the writer | each extends the one before; `MCResourceFileLoad` |
| `StreamingProvider`, `Streaming` | the contract of a provider; coordinator, bridge and reconcilers | `Streaming` instantiates the contract and implements it; `MCStreaming` |
| `EventChannel`, `EventRings`, `EventMailbox` | a bounded channel; the rings; the mailbox that pumps them | `EventRings` instantiates the channel and implements it, `EventMailbox` extends the rings; `MCEventMailbox` |
| `StringCache`, `StringPool` | the decoded cache; the names over it | `StringPool` extends `StringCache`; `MCStringPool` |
| `TaskScheduler_proofs`, `TaskFenceTracker_proofs`, `TaskGraph_proofs`, `ResourceReadScopes_proofs`, `ResourceFileLoad_proofs`, `Streaming_proofs`, `EventMailbox_proofs`, `StringPool_proofs` | the theorems | each extends the module it is about |

Each property has, beside the definitions of the model, a *faulty variant* of the definition it
depends on (`Bug_...`, or a name that says what is wrong with it): the model with the variant must
violate the property. The variants are never part of the model.

### TaskScheduler

One action is one critical section of `m_Mutex`. A callback is the interval between `Take` (a
dequeue) and `Return`, during which any other step may happen, calls from the callback included
(`CanCall`). A condition variable is the set of threads that wait on it (`asleep` for `m_Ready`,
`waiting` for `m_Finished`); `notifyOne` wakes any one of them, `NotifyFinished` all, and
`SpuriousWakeup` one that nobody notified. `edges` is the pool of prerequisite edges as a set of
records, so `unlinkEdgeLocked` is set difference and `nRemaining` is a counter kept beside it, as in
the code. `Cascade` is what the explicit stack of `cancelTreeLocked` reaches, stated as a least set.
`unmet` is a history variable: the prerequisites a task was submitted with and that have not
completed; the model never reads it.

What the model changes: the order within a ready queue and the choice of a priority class are
abstract, a dequeue returns any task of the queue it may take from (own, else shared, else another
worker's). `m_nActive` is derived. The executor and the flag of a released slot are reset so that
free slots are alike (the code overwrites them on the next submission before reading them). Left
out: thread start and join failures, and the wrap of `nGeneration`.

### TaskFenceTracker

Extends the scheduler with the ring of tickets. Every method runs on the provider's thread and is
one action, since what it asks about a tracked task only that thread can change, except `drain`,
which runs a finalizer and acknowledges a task per ticket: there each ticket is an action
(`FinalizerRefuses`, `Finalize`, `Acknowledge`, `Refused`, `DrainEnd`) and everything else
interleaves. `ProviderKeepsFaith` states what the provider owes the tracker by its header: the
callback of a tracked task returns PENDING, nobody else acknowledges it, and a finalizer neither
pumps nor returns from an enclosing callback. `finalized` and `drained` record what happened, for
the properties.

### TaskGraph

`addPass`, `addDependency`, `reset`, `compile` and `submit` are single calls of the owner. `Compile`
is the code's algorithm: `Ordered` folds `AddAccess` over the accesses in their order, with a
frontier of earlier accesses (the lists of all resources in one), an access dropped from it once a
later write covers it, and deduplicated edges until the capacity runs out; `Topological` is Kahn's
traversal, `queue[n]` the queue when `n` passes were taken, and it ends early on a cycle. `Submit` translates edges between passes
into edges between positions of the order. `queryExecution`, `cancelExecution` and
`releaseSubmitted` take one step per call into the scheduler (`QueryLooks`, `CancelDrops`,
`CancelAsks`, `CheckLooks`, `Release`), and the tasks move in between (`TaskStarts`, `TaskEnds`), or
are released by whoever got a handle (`TaskTakenAway`). The tasks are described by what
`TaskScheduler` promises of them. `outcome` and `summary` are history. Left out: `init` and the
layout of its storage.

### ResourceReadScopes

One action is one sequentially consistent access to a shared word or one critical section of
`m_PinMutex`. `publishRecord` is three steps: `Exchange` of the published pointer, `UpdateIndex`
(one store into the open-addressed index), `Advance` (push to the retired list, store the new
epoch). The callers of `publishRecord` enter through `Introduce`, `Supersede` and `Retire`.
`collectRetired` is `CollectBegin`, one `CollectScan` per reader slot and `CollectEnd`. A scope
enters by `Claim`, `LoadEpoch`, `Announce`, `Confirm` (or `Withdraw`) and leaves by `Leave`; `find`
visits one cell per step. `held` is every record whose address the scope has loaded: it stands for
every dereference the scope may make from then on, which is more than it does. A handle is resolved
to the record of its slot; that the generation check in `resolve` means what it should is
`HandlesNameOneKey`. `Probe` is any family of probe sequences that visit each cell once, so the
proofs do not depend on the hash. `m_pRetired` is a set with `retireEpoch`: a publication pushes at
most one record and then advances the epoch, so the list is the order of the epochs, newest first.

Left out: statistics and the aborts of the destructors. A failed allocation is the absence of an
unused record. Searching for a vacant reader slot is abstracted to finding one; a scope that finds
none stays out. The epoch and the generations do not wrap: `MaxEpoch` and `MaxGeneration` bound
them, which is why the runs of this module do not check deadlock (publication ends at the bound).
`Reserved`, one more than `MaxEpoch`, stands for `UINT64_MAX`.

### ResourceMemory, ResourceWriter, ResourceFileLoad

The other half of the resource graph, as its single writer thread sees it. One action is one writer
call. `ResourceMemory` has the staging buffers, the shared chunks with their references and the
budget, in allocations rather than bytes; `PrepareChunk` follows `prepareRecord` chunk by chunk, so
a publication that fails half way (`PublishFails`) abandons exactly what it had taken.
`ResourceWriter` has the records by slot with dependencies and revisions, the reverse edges, the
ring of invalidation events with a client that polls and rescans, and compiled dependency plans.
`Walk` is the loop of `compileDependencyOrder`, turn by turn, over its explicit stack: `WalkOn` looks
at the next dependency (`Consider`) or finishes the slot (`Leave`). Its function stops after
`MaxResources + MaxEdges` turns, one for each slot it can leave and each edge it can look at. A
client's view of the journal (`reader`) and the plan it holds (`plan`) are there so that what it may
conclude can be stated. `Collect` may give any retired record back at any time: when the code does
so is the matter of `ResourceReadScopes`. `ResourceFileLoad` adds one load whose task runs, fails,
is cancelled or vanishes, and other clients of the same writer in between.

Left out: `compileTaskGraph` and `collectDependents` (they only read), sizes and alignments of
chunks. `MaxChanges` bounds the sequence of changes.

### Streaming

All methods run on the streaming owner thread and are one action each; the provider is what is
concurrent. It accepts or refuses an operation (`Visit(s, accepts)`), finishes it later
(`FinishPrepare`, `FinishActivate`, `FinishRetire`), and its completion (`acks`) is delivered late,
in any order and up to `MaxRepeats` times twice (`Deliver(a, again)`). `Pump` visits one slot at a
time, round robin, as `processSlot` does. `Reconcile` is the whole call: it drops what is no longer
demanded, updates or cancels what is, admits what is missing while there is room, and forgets
entries whose tickets are gone. A demand set is a function from units to targets; costs and
priorities only choose whom to admit first, and any order is allowed. `StreamingProvider` is the
abstract specification: the calls that reach the provider for one ticket, with no stages, flags or
demands in it.

### EventChannel, EventRings, EventMailbox

A ring takes one action per atomic access and one per copied payload, since the payloads are
ordinary stores published by the release of a cursor. The payload is the number of its event, so one
that is torn, repeated or overwritten under a lease shows. Cursors wrap at `Width`. `EventChannel`
is the abstract specification: accept up to the capacity, show each event once and in order, give
back a part and show the rest again. The mailbox pumps registered rings in turn (`DrainBegin`,
`Callback`, `DrainEnd`) with budget and quantum, while its producers publish and any thread stops
it. The orderings are acquire and release on single words, each written by one side, which the
interleaving of whole accesses represents. A mailbox always gives back all it leased; the run
`mailbox` also has behaviours of one ring without a mailbox (`alone`), whose consumer gives back any
part of a lease.

### StringCache, StringPool

One action is one atomic access to a pin, an atom id or a hint, or one step under `m_cacheLock`.
`tryAcquireHot` is `LoadHot`, `CheckAtom`, `Pin`, `Recheck`, `Unpin`; `acquireTiered` looks again
under the lock, walks the tiers (`TryVirgin`, `TryReuse`), reserves a slot, and replaces its text in
the order of the code: `ClearHot`, `ClearAtom`, `Decode`, `Publish`, `Open`, `SetHot`. A text that
is being overwritten is `Garbage`. A user is one lease with the thread that works on it, so a thread
with several leases is several users. `StringPool` adds `find`, one index cell per step and one
lease per comparison with a compressed name, `intern` with its second look under `m_registryLock`,
and `retireScope`, which the code requires its caller to make exclusive (`Free`). The bytes of a
`Damaged` name no longer decode after the catalog was validated. `issued` is history: each atom
given out, with the text it was given out for.

Three facts of the code that the model shows and no document mentions: after a failed decode of a
resident slot the slot has no atom, so the next decode counts it once more as newly used and the
walk skips a slot that never was; a reader's transient pin can make `acquire` answer
ALL_SLOTS_PINNED although the slots were never all pinned at one moment; and when a cooked name no
longer decodes, `retireScope` returns false after the new scope has begun, with an index that ends
before that name. In such a scope the names behind it are not found by text, and an intern of one
appends it a second time, under another atom than its ordinal's. `Unrecognized` says which names
these are, and `AtomsNameOneText` excepts exactly them; the run has a damaged name before two others
and interns one of these.

Left out: the flat two-class cache (the default configuration chooses the tiers), the grouped and
adaptive index (compile-time experiments), `initialize` and `shutdown`, and the calls that only copy
text out. The name and text budgets never refuse anything and are not in the model. `Affordable`
bounds the double counting above.

## 3. The runs

| Run | Question | Bounds |
|---|---|---|
| `scheduler_safety` | may any interleaving of submission, execution, cancellation, release, waiting and shutdown break the scheduler's invariants? | 3 slots, 2 workers, one other thread, 1 provider, 2 edges, 2 parallel edges, batches of 2, each slot reused once |
| `scheduler_progress` | do waits return, tasks settle and shutdowns complete? | 2 slots, 1 worker, 2 calling threads, 1 provider, 1 edge, each slot reused once |
| `fences` | is the ring exact and in fence order, does finalization come first, and does every ticket settle although a head may be refused? | 2 slots, 2 threads, ring of 2, fences up to 2, a slot reused once |
| `read_lookups` | do scopes and providers keep the memory they use, is the index exact, does a search without a lock miss nothing, and does memory return? | 2 keys whose searches start together in the last of 3 cells, 2 slots, 3 records used again, 1 scope, 1 pin, 3 publications, a budget that covers the list |
| `collection_budget` | is memory returned, as documented, with a bounded budget: **violated** | 1 key, a budget of 1, 3 publications |
| `streaming_demands` | does each ticket stay accounted for while demands change and the parts shut down? | 2 slots, 2 units, 1 consumer, one ticket for each slot |
| `streaming_provider` | does the provider see legal calls only, and are cancelled tickets released and demands served? | 1 slot, 2 units, 2 tickets for the slot, one completion that arrives twice |
| `mailbox` | is each ring a bounded channel, by itself too, and is no producer starved? | 2 producers, 2 places, cursors of two bits, budgets 1 and 2, quantum 2; or one ring alone with leases given back in part |
| `resource_writer` | do memory, reverse edges, journal and plans stay exact over any sequence of calls, failing ones included? | 3 resources that depend on one another, 3 edges, 2 payloads under one content key, 6 allocations, 1 staging buffer, a journal of 2, 4 changes |
| `stale_loads` | is an outdated completion rejected, as documented: **violated** | 1 resource, 4 changes |
| `task_graph` | is the compiled order exact, do conflicting passes exclude each other, and are reports true? | 3 passes, 4 accesses over one resource of two units, 3 edges, 1 declared dependency |
| `string_pool` | do leases keep their text, hints find what is decoded, atoms stay unambiguous, and no name hide? | 2 users, 2 tiers of one slot, 4 cooked names (the second damaged), a dynamic name that collides with a cooked one, a malformed one, 2 scopes |

Why the bounds are enough to be worth running: three tasks are a chain with an inner node, a
diamond's half and two competing roots; two workers make one sleep while the other takes its task;
an edge pool of two fills; a generation of two makes stale handles. Two tickets make a head that
blocks a follower and a rollback that restores an earlier fence. Three records let one be current,
one retired and one used again while a scope that loaded the first is still in. Two colliding keys
in three cells that wrap make tombstones and searches that pass cells the writer is changing; a
tombstone that is reused before the old cell of a key that is published again takes one publication
more than the run has, and rests on the proof of `IndexFaithful`. Two streaming slots and two units
make a unit wait for the slot of another; one slot with two tickets makes every late or repeated
completion meet a later ticket (a generation counts one more than the tickets, as a slot at
`MaxGeneration` takes none). A slot that is used again while another is busy rests on the proof of
`DemandFollowed`, which holds for any number of tickets. Cursors of two bits over two places wrap within a few events, and a budget
smaller than a burst cuts the turn short. Three resources make a cycle through an optional edge to a
key that is not there yet; of two journal entries the older is lost as soon as a client lags by three, and one is
still there to read. Three passes
with whole and half accesses make every kind of cover, partial cover and gap; a declared dependency
against the order of the numbers makes cycles and an order that differs from the numbers. Two
one-slot tiers make a text spill to the larger one, every slot pinned, and a slot that goes to
another text between look and pin. What is listed under *proofs* holds beyond these bounds anyway.

`MaxGeneration`, `MaxBatch`, `MaxFence`, `MaxEpoch`, `Copies`, `MaxChanges`, `MaxRepeats`,
`MaxExplicit` and `MaxBase` bound what the code leaves unbounded; `Affordable` is a bound too. Every
other constant is a capacity the code has. In `string_pool`, `MaxGeneration = 1` makes the
generation of a slot constant, so that part of `LeasesKeepTheirText` is checked by the proof only.
Runs whose bounded counters end say CHECK_DEADLOCK FALSE; the scheduler, the fences, the task graph
and the string pool are checked for deadlock.

**Fairness.** Scheduler: workers run their loop, callbacks return, woken threads reacquire the
mutex, and each executor has an owner that binds it, pumps it and acknowledges (weak fairness of
each). `PoliteNext` is an assumption on callers that the code does not enforce: a thread that pumps
an executor does not block in `waitTask` on a task whose unfinished prerequisites need such an
executor; the code's own check (`waitTask` accepts CPU tasks only) looks at the task alone, and such
a call would never return. Tracker: the provider's callbacks return, it drains again and again up to
the fences its native work completes, and a finalizer that is retried succeeds in the end (strong
fairness, since other methods interleave). Resource graph: the writer completes what it began and
calls `collectRetired` again and again, constructors of scopes finish. `RetiredAreCollected`
promises collection only for a record that from some moment on has no pin, while no scope is
entering and none is as old as the record: `collectRetired` gives up when it sees an entering scope,
and nothing in the code bounds how often that happens. Streaming: the owner pumps every frame, the
provider finishes what it accepted and does not refuse a slot for ever (strong fairness of an
accepting visit), completions arrive, and each consumer reconciles its demand again and again.
Mailbox: the owner pumps again and again with any of its budgets, and the consumer of a ring alone
comes again and again; nothing is assumed of the producers.

## 4. What is proved

TLAPS checks these for all values of the constants that satisfy the assumptions in the modules
(finite sets of slots and threads, distinct words, positive capacities, probe sequences that visit
every cell once). The assumptions are evaluated by TLC on every run.

**Scheduler** (`TaskScheduler_proofs`). The inductive invariant is `TypeOK`, `CountersExact`,
`EdgesExact`, `PrerequisitesHonoured` and `RunsOnceOnItsOwner` together; none is inductive alone.
That `nRemaining` never underflows needs the exactness of the edges; that an edge leads to a blocked
task needs that only blocked tasks have prerequisites left; that a completion finds its task running
needs the ownership of jobs; that the provider counters are exact needs all of these. The proof has
one lemma per action and, under it, one step per conjunct. On it rest `ForwardOnly` (every step
moves a task forward), `NoLostWaiter` (whoever sleeps in `waitTask` waits for an unfinished task of
its generation, because each critical section that settles or releases notifies all),
`ShutdownIsComplete` (via `ClosingInv`: nothing cancellable is created once closing) and
`NoLostWorker` (while a worker sleeps, at least as many workers are at the head of their loop as CPU
tasks are queued: each `notifyOne` wakes a sleeper or there is none left). `NoDeadRing`
(`BlockedHasLiveCause`) adds `Acyclic`: every set of tasks has one that waits for none of them. A
new task has no dependents yet, and in a batch the first of a set has its prerequisites among the
earlier ones, so no submission closes a ring. Applied to the blocked tasks behind a blocked task, it
gives one whose prerequisites are not blocked.

**Fence tracker** (`TaskFenceTracker_proofs`). `TrackerRunsScheduler` shows `TrackerSpec` to
implement the scheduler's `Spec`: whatever the tracker does is a step the scheduler allows, so all
of the theorems above hold of a scheduler with a tracker. `TrackerInv` is about the ring: each
ticket names a different task that its provider still owns (`NoDanglingTicket`); the fences do not
decrease and the last tracked one is that of the youngest ticket, after a rollback too
(`RingInFenceOrder`); the flag in a ticket and the finalizers of its task agree (`FinalizersExact`),
which with the order of the ring gives `FinalizedFirst`. It rests on the scheduler's own invariants:
a step of another thread keeps the tickets true because only the provider can settle a task that it
runs or that waits for it, and `ProviderKeepsFaith` says when it does.

**Task graph** (`TaskGraph_proofs`). `ReportsTrue`: whatever a query saw of the tasks it has passed
stays true of them, because every step is `Stable` (the batch keeps its tasks, and one that has
ended stays as it ended); `GraphInv` says what the three walks have established so far.

`CompileExact` and `ConflictsExcluded` have the invariant `OrderInv`. Its parts are `BuildInv` (the
accesses come in the order of their passes), `CompiledInv` (what `compile` left is `Ordered` and
`Topological` of what was built) and `BatchInv` (a task that was cleared to run has all it waits for
behind it). What the fold over the accesses computes is by induction along it (`Upwards`, the
least-counterexample lemma): `Tells(c, k)` says that after `k` accesses every edge was demanded,
that conflicting accesses are ordered over some path, and that each access is still in the frontier
or something stands for it (`StandsFor`): a write that covers it and lies behind it, so whatever
conflicts with the dropped access conflicts with that write and is ordered behind both. Here it
matters that no interval is empty, which `addPass` refuses and `AccessAssumption` states. `Reach` is
shown to be the least set that is closed under the links (by counting: as many rounds as there are
passes reach everything), which gives that edges and demands have the same reach (`EdgesExact`).
Kahn's traversal takes each pass after all those before it (`KahnInv`); if it ends with passes left,
each of them has another one left before it, and among passes like that one lies behind itself
(`CycleIn`). `ConflictsExcluded` then follows by the least-set property: the passes whose tasks are
not cleared are closed under the links, so they contain all that lies behind a pass that has not
completed.

**Resource graph** (`ResourceReadScopes_proofs`). The invariant has eight parts besides the types.
`Memory`: a record is current, about to be retired or retired, and nothing else is allocated.
`Keyed`: current records have distinct keys. `Index`: the index holds exactly the records it should
at each of the three steps of a publication, each where its search arrives. `Views`: a scope
announces the epoch it entered in, and all it has loaded is current or was retired in that epoch or
later. `Collecting`: a scope whose slot was scanned bounds the oldest epoch, or holds nothing
retired. `Pinned`: counts are exact and a granted handle is its pin's current one. `Searching`: a
key that was not missed lies ahead of the search. `Handles`: generations were taken from their slot.
The chain is: a publication works on one key (`Keyed`), so the store replaces exactly the old record
(`Index`), so after `Advance` no word shows the old record, so a scope that loads it entered before
(`Views`), so the scan sees it (`Collecting`), so it is not given back: `NoDanglingView`.
`NoDanglingPin`, `IndexIsFaithful`, `HandlesAreUnambiguous` and `NoFalseMiss` are the other
theorems. The proof of `NoDanglingView` uses neither the second load of the epoch in the constructor
nor the early return of the scan at an entering scope: with sequentially consistent accesses the
announcement alone suffices for safety.

**Streaming** (`Streaming_proofs`). `SlotsInv` relates, slot by slot, the stage of a ticket, the
flags of the bridge, the completions on their way and what the provider does for it; with it every
step of the streaming code is a legal step of `StreamingProvider` or none:
`StreamingImplementsProvider`. `ActiveStaysWanted` and `ShutdownLeavesNothing` follow from the same
invariant. The part that makes it inductive is `AcksLate` with `OtherTickets`: a completion on its
way only names a ticket the provider has finished with, so a repeated or late one cannot match a
flag of a later ticket. `TicketsFollowDemand` needs `DemandInv` besides: an occupied slot is named,
with its generation, by the entry of its consumer and unit, and an entry names a ticket of its own
or of the past, so no slot is left without an entry that could cancel it.

**Resource writer** (`ResourceFileLoad_proofs`). Its theorems are about `LoadSpec`, the writer with
a file load on it, and so about every call of the three modules. They assume what the modules assume
of the constants: `MemoryAssumption` and `WriterAssumption` (finite sets, positive capacities),
`PublicationsAssumption` (the input of a publication is well typed: each chunk has bytes or names
what it shares) and `RequestsAssumption` (the file's publication has one chunk). `NoDependencyCycle`
first shows that following the dependencies of a key for as many rounds as there are records reaches
all there is to reach: each round that adds anything adds a record, so by counting one of them adds
nothing and the result is closed; being the least closed set it is what the search of the code
visits. A publication is accepted only if its key is on no path from its dependencies, and then it
closes no cycle. `EveryInvalidationNoticed` needs `JournalInv`: the last event about a resource that
the ring still holds tells its latest invalidation, and a client that has not learnt of it has such
an event ahead or lost some. `MemoryStaysExact` is the longest: `PrepareChunk` is a fold, so the
state half way through a publication is the value of a function on the number of chunks done, and
`PartsInv` says at each of them that the references, payloads and buffers taken so far are those of
the chunks done and nothing else; `OrderInv` says that a slot only ever shows a newer record than it
did, so that none is counted twice; `LoadInv` says that a load holds a staging slot to hand over.

`ValidPlansAreCurrent` has two parts. `WalkInv` is about one walk over any records: its path leads
from slot to slot by the edges just looked at, all dependencies before the next one are settled,
and what is in the order is settled by what is before it; so a walk that succeeds has put in order
exactly the slots on the paths from its root (`WalkedTells`). `SameWalk` adds that a walk depends only
on the slots it has seen and on where their dependencies are found. The other part relates a plan to
the present. Every call that changes a record is `Changes(x, key)`: one slot `x` gets a record that
is a new identity or a new revision, or loses its own, and every other slot with an edge to `key` is
told (`AffectedFirst`), because the edges of a slot cover the dependencies of its record
(`LinksInv`). `PlanInv` is the invariant: each entry tells of the past (`Past`: no identity, revision
or invalidation that is still to come), and if all entries hold, the plan is current. It is
inductive because an entry that still holds after a change is of a slot that was not told; so if all
hold, none of the slots of the plan depends on the key that changed, and the walk over the new
records is the walk over the old ones. That transitive invalidation reaches further than one edge is
not needed for this: a plan lists everything between its root and what changed.

**Events** (`EventMailbox_proofs`). `Window` says where the cursors, the cached copies, the lease
and the copied payloads of a ring lie relative to one another, modulo `Width`; `RingsAreChannels`
and `MailboxRingsAreChannels` conclude that each ring implements the bounded channel, for every
capacity and cursor width that is a multiple of it. The arithmetic of wrapping distances is in
lemmas of its own. `LeasesFitTheTurn`: a pump leases one ring at a time, that of its turn, within
budget and quantum.

**String pool** (`StringPool_proofs`). `PoolSafe` is the invariant `SafeInv`, in five parts.
`Control`: types, and where a call stands decides whether it has `m_cacheLock`, a slot or a lease.
`SlotsHold`: a slot is either reserved by the one call that fills it, or its pin count is the number
of leases and calls that own a pin of it, and an opened slot with an atom holds the text of that
atom. `UsersHold`: what a filling call, a lease and a lookup hold is what the slots and names say.
`IssuedHolds`: an atom of the current scope that was given out names its text, and the others are
older. `DirectCounts`: the counter of direct leases is exact. So the pin counts never underflow and
never reach the reserved value, `retireScope` sees every lease, and `LeasesSafe` follows: a bound
lease is one of the pins, so its slot cannot be reserved under it. `HintsExact` needs `HintInv` on
top: outside the replacement of a slot, a hint and the atom of its slot name each other; during it
no hint leads to the slot; and a search under the lock sees a hint that stays true, so the name it
decodes has none.

The names have the invariant `NamesInv`, on top of `SafeInv` and in four parts. `IndexTrue`: the
table tags every name that was published, each in one cell, but for those that `retireScope` did not
come to; and from the home of its text up to the cell of a tag no cell is empty, which appending can
only confirm. `SearchTrue`: while a search that must succeed goes on, its text lies at or behind the
cell it looks at. It must succeed if the text was in the index when it began or, for the second look
of an intern, when it took the registry lock; so what is appended by `Admit` is not there yet.
`RegistryHeld` says who has the lock and `NamesDiffer` that no text is in the registry twice, but
for `Unrecognized` ones. `ScopesInv`: the scopes are consecutive ranges of `MaxNames` atoms, and the
atoms of those that ended stay distinguished. `AtomsAreDistinct` and `NoNameIsHidden` follow. The
proof that the index `Init` and `retireScope` build lists the cooked names is by induction along
them, with the least-counterexample lemma `Upwards` in place of the induction theorem; that an empty
cell always exists is the pigeonhole of `CellCount > MaxNames` (`FirstEmptyIs`). Assumed of the
constants is what `requiredBytes` and `loadCatalog` demand: distinct cooked names, at least
one name in a scope, more cells than names.

**Only model-checked.** Liveness, since fairness and ENABLED are beyond the prover: `WaitersReturn`,
`TasksSettle`, `ShutdownCompletes`, `TicketsSettle`, `RetiredAreCollected`, `CancelledAreReleased`,
`WantedAreServed`, `ProducersAreServed`. Every
safety property that a passing run checks has a theorem.

## 5. Disagreements

`collection_budget`: `Source/Resources/README.md:80-82` says the writer collects each retired record
once all remaining readers are newer, subject to pins. `collectRetired` counts every record it
visits against `nMaxRecords` and starts each time at the newest; records that stay pinned there use
up the budget, and older ones that nobody needs are never reached. The run shows it with a budget of
one: a pinned record retired after an unpinned one.

`stale_loads`: `Source/Resources/README.md:42-45` says `publishExpected` rejects outdated
asynchronous completions. It compares revision numbers, and those start again at 1 when a key is
retired and published anew. The run shows a load that was begun against the first revision of a
resource and is published over its successor. The same paragraph says that an expected revision of 0
means absent or requested; a record that returns to REQUESTED when its last chunk is evicted keeps
its revision, so 0 is refused for it (seen while modelling, no run of its own).

## 6. Not modelled, and why

Weak memory: the accesses modelled in `ResourceReadScopes` are sequentially consistent in the code,
the scheduler's are under a mutex, and in the rings and the string cache the words that matter are
published by release stores and read by acquire loads; orderings weaker than an interleaving of
whole accesses are outside these models. Containers, allocators, parsing, formats and geometry are
sequential code with unit tests of their own. Drivers, audio and platform belong to external
libraries. Scripting, the editor and the tools are programs of their own. The reasons are in
`PROJECT.json`, part by part. Together these parts are most of the repository: the models cover the
concurrent and stateful core and not a large share of its lines.

## 7. Plan

What is left, most important first:

1. The multi-producer queue (`Core/Events/SIRMPSCEventQueue.h`): reservation and sequence words,
   refining `EventChannel` per ring of its own; a producer that has reserved and not published hides
   what comes later.
2. `TaskQueues`: the intrusive ready queues against sequences, and the bounded bypass of low
   priorities (`selectPriorityLocked`): a queued task is passed over a bounded number of times.
3. The derived registry: copies released after a fence, composed with `TaskFenceTracker`.
4. The timing wheel, subscriptions that change during a dispatch, the pressure coordinator, and the
   page residency of virtual texturing.
5. An abstract task contract (submitted, running, settled) that the scheduler implements, for
   `TaskGraph` and `ResourceFileLoad`, which today state it in their own actions.
