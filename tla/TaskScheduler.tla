---------------------------- MODULE TaskScheduler ----------------------------
(***************************************************************************)
(* SIRTaskScheduler (Source/Core/Jobs): a bounded pool of generation-      *)
(* checked task slots, a bounded pool of prerequisite edges, CPU workers   *)
(* and owner-pumped executors, all serialised by one mutex.                *)
(*                                                                         *)
(* One action is one critical section of m_Mutex.  Callbacks run outside   *)
(* the mutex, between the action that takes a task and the one that        *)
(* finishes it; a condition variable is the set of the threads that wait   *)
(* on it.  The order of a ready queue and the choice of a priority class   *)
(* are abstracted: a dequeue picks any task of the queue it may pick from. *)
(***************************************************************************)
EXTENDS Integers, FiniteSets

CONSTANTS
    Slots,          \* indices of m_pSlots
    Workers,        \* CPU worker threads; {} selects the pumpCPU fallback
    Threads,        \* every other thread that calls the scheduler
    Owner,          \* the thread that called init()
    Providers,      \* the provider executors in use (RENDER, PHYSICS, AUDIO)
    Copies,         \* parallel edges a batch may hold between the same two tasks
    EdgeCapacity,   \* m_nDependencyCapacity
    MaxGeneration,  \* bound on nGeneration: a slot is reused MaxGeneration - 1 times
    MaxBatch,       \* bound on the tasks of one submitBatch call
    None            \* SIR_TASK_NONE

ASSUME SlotsAssumption == IsFiniteSet(Slots) /\ None \notin Slots
ASSUME ThreadsAssumption ==
    /\ IsFiniteSet(Workers) /\ IsFiniteSet(Threads)
    /\ Owner \in Threads
    /\ Workers \cap Threads = {}
    /\ None \notin Workers \cup Threads
ASSUME ProvidersAssumption == Providers \cap {"CPU", "MAIN"} = {}
ASSUME CapacityAssumption ==
    /\ EdgeCapacity \in Nat
    /\ MaxGeneration \in Nat \ {0}
    /\ MaxBatch \in Nat
    /\ IsFiniteSet(Copies)
    /\ 1 \in Copies

Executors == {"CPU", "MAIN"} \cup Providers

Live     == {"BLOCKED", "QUEUED", "RUNNING", "AWAITING"}
Settled  == {"COMPLETED", "FAILED", "CANCELLED"}
States   == {"INVALID"} \cup Live \cup Settled
Edges    == [parent : Slots, child : Slots, copy : Copies]
Handles  == [slot : Slots, generation : 1..MaxGeneration]
NoHandle == [slot |-> None, generation |-> 0]

VARIABLES
    state,       \* slot -> eState
    generation,  \* slot -> nGeneration
    executor,    \* slot -> eExecutor
    cancelled,   \* slot -> bCancellationRequested
    home,        \* slot -> nQueueWorker: the local queue it is in, None for a global one
    remaining,   \* slot -> nRemaining
    edges,       \* the edges in use of m_pEdges
    readyCpu,    \* m_nReadyCpu
    pending,     \* m_nPendingProviders
    executing,   \* m_nExecutingProviders
    bound,       \* provider -> m_ProviderOwners, None while unbound
    closing,     \* m_bClosing
    initialized, \* m_bInitialized
    asleep,      \* workers waiting on m_Ready
    exited,      \* workers that left workerLoop
    job,         \* thread -> the slot whose callback it runs
    waitFor,     \* thread -> the handle it waits for in waitTask
    waiting,     \* threads waiting on m_Finished
    unmet        \* history: slot -> prerequisites that have not completed

taskVars   == <<state, generation, executor, cancelled, home, remaining, edges, unmet>>
countVars  == <<readyCpu, pending, executing>>
threadVars == <<asleep, exited, job, waitFor, waiting>>
vars == <<taskVars, countVars, threadVars, bound, closing, initialized>>

Init ==
    /\ state = [s \in Slots |-> "INVALID"]
    /\ generation = [s \in Slots |-> 1]
    /\ executor = [s \in Slots |-> "CPU"]
    /\ cancelled = [s \in Slots |-> FALSE]
    /\ home = [s \in Slots |-> None]
    /\ remaining = [s \in Slots |-> 0]
    /\ edges = {}
    /\ readyCpu = 0 /\ pending = 0 /\ executing = 0
    /\ bound = [p \in Providers |-> None]
    /\ closing = FALSE /\ initialized = TRUE
    /\ asleep = {} /\ exited = {}
    /\ job = [t \in Threads \cup Workers |-> None]
    /\ waitFor = [t \in Threads |-> NoHandle]
    /\ waiting = {}
    /\ unmet = [s \in Slots |-> {}]

-----------------------------------------------------------------------------
(* Tasks, edges and queues *)

Free == {s \in Slots : state[s] = "INVALID"}
QueuedCpu == {s \in Slots : state[s] = "QUEUED" /\ executor[s] = "CPU"}
Awaiting == {s \in Slots : state[s] = "AWAITING"}
Cancellable == {s \in Slots : state[s] \in {"BLOCKED", "QUEUED"}}
Incoming(s) == {e \in edges : e.child = s}
Outgoing(s) == {e \in edges : e.parent = s}

IsCurrent(h) ==
    /\ initialized
    /\ h.slot \in Slots
    /\ generation[h.slot] = h.generation
    /\ state[h.slot] # "INVALID"

\* A faulty variant: the wait loop tests only the handle.
Bug_UnsettledUntilReleased(h) == IsCurrent(h)

\* The loop condition of waitTask.
Unsettled(h) == IsCurrent(h) /\ state[h.slot] \in {"QUEUED", "BLOCKED", "RUNNING"}

\* A thread calls the scheduler from a callback it runs, or when it is not
\* blocked: in waitTask, in shutdown's joins, or in the worker loop itself.
CanCall(t) ==
    \/ job[t] # None
    \/ /\ t \in Threads
       /\ waitFor[t] = NoHandle
       /\ ~(t = Owner /\ closing /\ initialized)

\* What one task of executor x adds to m_nReadyCpu while it is queued.
Bug_CountEveryExecutor(x) == 1
CpuCount(x) == IF x = "CPU" THEN 1 ELSE 0

\* The queue enqueueLocked picks for executor x when t holds the mutex.
HomeFor(t, x) == IF x = "CPU" /\ t \in Workers THEN t ELSE None

\* The tasks dequeueLocked may return to worker w: its own queue, else the
\* shared one, else another worker's.
ReadyAt(q) == {s \in QueuedCpu : home[s] = q}
Bug_NextForAnyExecutor(w) == {s \in Slots : state[s] = "QUEUED"}
NextFor(w) ==
    IF ReadyAt(w) # {} THEN ReadyAt(w)
    ELSE IF ReadyAt(None) # {} THEN ReadyAt(None)
    ELSE QueuedCpu

\* A faulty variant: only the dependents themselves are dropped, not theirs.
Bug_CascadeOnce(roots) == roots \cap Cancellable

\* The slots cancelTreeLocked reaches from roots: the least set that holds the
\* cancellable roots and the cancellable children of its members.
Cascade(roots) ==
    {s \in Slots : \A C \in SUBSET Slots :
        (/\ roots \cap Cancellable \subseteq C
         /\ \A e \in edges : e.parent \in C /\ e.child \in Cancellable => e.child \in C)
        => s \in C}

\* Faulty variants: one wakeup for all the tasks a completion readies; none.
Bug_NotifyFirstOnly(n) ==
    \/ n = 0 /\ asleep' = asleep
    \/ n # 0 /\ asleep = {} /\ asleep' = {}
    \/ n # 0 /\ \E w \in asleep : asleep' = asleep \ {w}
Bug_NotifyNobody(n) == asleep' = asleep

\* n calls of m_Ready.notifyOne(): each wakes one sleeping worker, if any.
NotifyReady(n) ==
    \E woken \in SUBSET asleep :
        /\ Cardinality(woken) = n \/ (Cardinality(woken) < n /\ woken = asleep)
        /\ asleep' = asleep \ woken

\* m_Ready.notifyAll() and m_Finished.notifyAll(), each with its omission.
Bug_WakeNobody == asleep' = asleep
WakeAllWorkers == asleep' = {}
Bug_NotifyNoWaiter == waiting' = waiting
NotifyFinished == waiting' = {}

\* unlinkEdgeLocked for each edge of gone.
Unlink(gone) ==
    /\ edges' = edges \ gone
    /\ remaining' = [s \in Slots |-> remaining[s] - Cardinality(gone \cap Incoming(s))]

\* cancelTreeLocked from each of roots.  finished, if it is a slot, is a task
\* that settles as outcome in the same critical section.
CancelTree(roots, finished, outcome) ==
    LET dropped == Cascade(roots)
    IN  /\ state' = [s \in Slots |-> IF s \in dropped THEN "CANCELLED"
                                     ELSE IF s = finished THEN outcome ELSE state[s]]
        /\ cancelled' = [s \in Slots |-> cancelled[s] \/ s \in dropped]
        /\ home' = [s \in Slots |-> IF s \in dropped THEN None ELSE home[s]]
        /\ readyCpu' = readyCpu - Cardinality(dropped \cap QueuedCpu)
        /\ Unlink({e \in edges : e.child \in dropped \/ e.parent \in dropped \cup {finished}})
        /\ NotifyFinished

-----------------------------------------------------------------------------
(* Submission: t is the calling thread *)

\* submit and submitAfter: s is the slot taken from the free list, before the
\* prerequisites whose (current) handles the caller passes.
Submit(t, s, x, before) ==
    LET failed     == \E p \in before : state[p] \in {"FAILED", "CANCELLED"}
        unresolved == {p \in before : state[p] \in Live}
    IN  /\ CanCall(t) /\ initialized /\ ~closing
        /\ s \in Free
        /\ before \cap Free = {}
        /\ Cardinality(before) <= EdgeCapacity
        /\ failed \/ Cardinality(edges) + Cardinality(unresolved) <= EdgeCapacity
        /\ executor' = [executor EXCEPT ![s] = x]
        /\ cancelled' = [cancelled EXCEPT ![s] = failed]
        /\ unmet' = [unmet EXCEPT ![s] = {p \in before : state[p] # "COMPLETED"}]
        /\ IF failed
           THEN /\ state' = [state EXCEPT ![s] = "CANCELLED"]
                /\ remaining' = [remaining EXCEPT ![s] = 0]
                /\ NotifyFinished
                /\ UNCHANGED <<home, edges, readyCpu, asleep>>
           ELSE /\ state' = [state EXCEPT ![s] = IF unresolved = {} THEN "QUEUED" ELSE "BLOCKED"]
                /\ remaining' = [remaining EXCEPT ![s] = Cardinality(unresolved)]
                /\ edges' = edges \cup [parent : unresolved, child : {s}, copy : {1}]
                /\ IF unresolved = {}
                   THEN /\ home' = [home EXCEPT ![s] = HomeFor(t, x)]
                        /\ readyCpu' = readyCpu + CpuCount(x)
                        /\ NotifyReady(CpuCount(x))
                   ELSE UNCHANGED <<home, readyCpu, asleep>>
                /\ UNCHANGED waiting
        /\ UNCHANGED <<generation, pending, executing, exited, job, waitFor,
                       bound, closing, initialized>>

\* The order submitBatch demands of an edge between array positions.
Bug_OrderedEitherWay(position, e) == position[e.parent] # position[e.child]
Ordered(position, e) == position[e.parent] < position[e.child]

\* submitBatch: position is the place of each new slot in pTasks, x its
\* executor, added its dependency edges, which point to higher positions.
SubmitBatch(t, position, x, added) ==
    LET new      == DOMAIN position
        after(s) == {e \in added : e.child = s}
        roots    == {s \in new : after(s) = {}}
        rootsCpu == {s \in roots : x[s] = "CPU"}
    IN  /\ CanCall(t) /\ initialized /\ ~closing
        /\ new \subseteq Free
        /\ \A e \in added : Ordered(position, e)
        /\ Cardinality(edges) + Cardinality(added) <= EdgeCapacity
        /\ state' = [s \in Slots |-> IF s \in roots THEN "QUEUED"
                                     ELSE IF s \in new THEN "BLOCKED" ELSE state[s]]
        /\ executor' = [s \in Slots |-> IF s \in new THEN x[s] ELSE executor[s]]
        /\ cancelled' = [s \in Slots |-> cancelled[s] /\ s \notin new]
        /\ home' = [s \in Slots |-> IF s \in roots THEN HomeFor(t, x[s])
                                    ELSE IF s \in new THEN None ELSE home[s]]
        /\ remaining' = [s \in Slots |-> IF s \in new THEN Cardinality(after(s)) ELSE remaining[s]]
        /\ edges' = edges \cup added
        /\ unmet' = [s \in Slots |-> IF s \in new THEN {e.parent : e \in after(s)} ELSE unmet[s]]
        /\ readyCpu' = readyCpu + Cardinality(rootsCpu)
        /\ IF rootsCpu # {} THEN WakeAllWorkers ELSE asleep' = asleep
        /\ UNCHANGED <<generation, pending, executing, exited, job, waitFor, waiting,
                       bound, closing, initialized>>

-----------------------------------------------------------------------------
(* Running a task *)

\* dequeueLocked returned s to thread t, which leaves the mutex to run it.
Take(t, s) ==
    /\ state' = [state EXCEPT ![s] = "RUNNING"]
    /\ home' = [home EXCEPT ![s] = None]
    /\ readyCpu' = readyCpu - CpuCount(executor[s])
    /\ executing' = IF executor[s] \in Providers THEN executing + 1 ELSE executing
    /\ job' = [job EXCEPT ![t] = s]
    /\ UNCHANGED <<generation, executor, cancelled, remaining, edges, unmet, pending,
                   asleep, exited, waitFor, waiting, bound, closing, initialized>>

\* workerLoop between two callbacks.
AtLoopHead(w) == job[w] = None /\ w \notin asleep /\ w \notin exited

WorkerSleep(w) ==
    /\ AtLoopHead(w) /\ ~closing /\ readyCpu = 0
    /\ asleep' = asleep \cup {w}
    /\ UNCHANGED <<taskVars, countVars, exited, job, waitFor, waiting, bound, closing, initialized>>

WorkerTake(w) ==
    /\ AtLoopHead(w) /\ ~closing /\ readyCpu # 0
    /\ \E s \in NextFor(w) : Take(w, s)

WorkerExit(w) ==
    /\ AtLoopHead(w) /\ closing
    /\ exited' = exited \cup {w}
    /\ UNCHANGED <<taskVars, countVars, asleep, job, waitFor, waiting, bound, closing, initialized>>

\* The executors whose queue pumpExecutor lets t drain.
Pumped(t) ==
    {x \in Executors : \/ x = "MAIN" /\ t = Owner
                       \/ x = "CPU" /\ t = Owner /\ Workers = {}
                       \/ x \in Providers /\ bound[x] = t}

\* One iteration of the loop of pumpMain, pumpCPU or pumpProvider.
Pump(t) ==
    /\ CanCall(t) /\ job[t] = None
    /\ initialized /\ ~closing
    /\ \E s \in Slots : state[s] = "QUEUED" /\ executor[s] \in Pumped(t) /\ Take(t, s)

-----------------------------------------------------------------------------
(* Finishing a task *)

Outcome(s, result) ==
    IF cancelled[s] THEN "CANCELLED"
    ELSE IF result = "SUCCESS" THEN "COMPLETED" ELSE "FAILED"

\* A faulty variant: the first prerequisite to complete releases its dependents.
Bug_ReleasedByAny(s) ==
    {c \in Slots : state[c] = "BLOCKED" /\ Outgoing(s) \cap Incoming(c) # {}}

\* The dependents of s whose last unresolved prerequisite is s.
Released(s) ==
    {c \in Slots : /\ state[c] = "BLOCKED"
                   /\ Outgoing(s) \cap Incoming(c) # {}
                   /\ remaining[c] = Cardinality(Outgoing(s) \cap Incoming(c))}

\* finishTaskLocked, with resolveDependentsLocked, on thread t.
Settle(t, s, result) ==
    LET outcome  == Outcome(s, result)
        readyNow == {c \in Released(s) : executor[c] = "CPU"}
    IN  /\ unmet' = [c \in Slots |-> IF outcome = "COMPLETED" THEN unmet[c] \ {s} ELSE unmet[c]]
        /\ IF outcome = "COMPLETED" /\ ~closing
           THEN /\ state' = [c \in Slots |-> IF c \in Released(s) THEN "QUEUED"
                                             ELSE IF c = s THEN outcome ELSE state[c]]
                /\ home' = [c \in Slots |-> IF c \in Released(s) THEN HomeFor(t, executor[c])
                                            ELSE home[c]]
                /\ readyCpu' = readyCpu + Cardinality(readyNow)
                /\ Unlink(Outgoing(s))
                /\ NotifyReady(Cardinality(readyNow))
                /\ NotifyFinished
                /\ UNCHANGED cancelled
           ELSE /\ CancelTree({e.child : e \in Outgoing(s)}, s, outcome)
                /\ UNCHANGED asleep

\* The callback of thread t returns.  Only a provider task may stay pending;
\* PENDING from a CPU or MAIN callback is a failure.
Return(t, result) ==
    LET s == job[t]
    IN  /\ s # None
        /\ job' = [job EXCEPT ![t] = None]
        /\ executing' = IF executor[s] \in Providers THEN executing - 1 ELSE executing
        /\ IF executor[s] \in Providers /\ result = "PENDING"
           THEN /\ state' = [state EXCEPT ![s] = "AWAITING"]
                /\ pending' = pending + 1
                /\ UNCHANGED <<cancelled, home, remaining, edges, unmet, readyCpu, asleep, waiting>>
           ELSE /\ Settle(t, s, result)
                /\ UNCHANGED pending
        /\ UNCHANGED <<generation, executor, exited, waitFor, bound, closing, initialized>>

\* completeProvider: the bound owner acknowledges a deferred task.
CompleteProvider(t, h, result) ==
    /\ CanCall(t)
    /\ IsCurrent(h)
    /\ executor[h.slot] \in Providers
    /\ state[h.slot] = "AWAITING"
    /\ bound[executor[h.slot]] = t
    /\ pending' = pending - 1
    /\ Settle(t, h.slot, result)
    /\ UNCHANGED <<generation, executor, executing, exited, job, waitFor,
                   bound, closing, initialized>>

-----------------------------------------------------------------------------
(* The other calls on a handle *)

\* cancel: a task that has not started is dropped with its dependents, one
\* that runs or awaits its provider is only flagged.
Cancel(t, h) ==
    /\ CanCall(t)
    /\ IsCurrent(h)
    /\ IF h.slot \in Cancellable
       THEN CancelTree({h.slot}, None, "CANCELLED")
       ELSE /\ state[h.slot] \in {"RUNNING", "AWAITING"}
            /\ cancelled' = [cancelled EXCEPT ![h.slot] = TRUE]
            /\ UNCHANGED <<state, home, remaining, edges, readyCpu, waiting>>
    /\ UNCHANGED <<generation, executor, unmet, pending, executing, asleep, exited, job,
                   waitFor, bound, closing, initialized>>

\* releaseTask: recycle the slot of a settled task.  The executor and the flag
\* of a free slot are never read before a submission overwrites them; they are
\* reset here so that free slots are alike.
Release(t, h) ==
    /\ CanCall(t)
    /\ IsCurrent(h)
    /\ state[h.slot] \in Settled
    /\ Incoming(h.slot) = {} /\ Outgoing(h.slot) = {}
    /\ h.generation < MaxGeneration
    /\ state' = [state EXCEPT ![h.slot] = "INVALID"]
    /\ generation' = [generation EXCEPT ![h.slot] = @ + 1]
    /\ executor' = [executor EXCEPT ![h.slot] = "CPU"]
    /\ cancelled' = [cancelled EXCEPT ![h.slot] = FALSE]
    /\ unmet' = [unmet EXCEPT ![h.slot] = {}]
    /\ NotifyFinished
    /\ UNCHANGED <<home, remaining, edges, countVars, asleep,
                   exited, job, waitFor, bound, closing, initialized>>

\* waitTask reaches m_Finished.wait; a call that finds the task settled, or
\* is refused, changes nothing.
Wait(t, h) ==
    /\ CanCall(t) /\ job[t] = None /\ Workers # {}
    /\ IsCurrent(h) /\ executor[h.slot] = "CPU"
    /\ Unsettled(h)
    /\ waitFor' = [waitFor EXCEPT ![t] = h]
    /\ waiting' = waiting \cup {t}
    /\ UNCHANGED <<taskVars, countVars, asleep, exited, job, bound, closing, initialized>>

\* The woken thread re-evaluates the loop condition under the mutex.
WaitAgain(t) ==
    /\ waitFor[t] # NoHandle /\ t \notin waiting
    /\ Unsettled(waitFor[t])
    /\ waiting' = waiting \cup {t}
    /\ UNCHANGED <<taskVars, countVars, asleep, exited, job, waitFor, bound, closing, initialized>>

WaitReturn(t) ==
    /\ waitFor[t] # NoHandle /\ t \notin waiting
    /\ ~Unsettled(waitFor[t])
    /\ waitFor' = [waitFor EXCEPT ![t] = NoHandle]
    /\ UNCHANGED <<taskVars, countVars, asleep, exited, job, waiting, bound, closing, initialized>>

\* A condition variable may wake a thread nobody notified.
SpuriousWakeup ==
    /\ \/ \E w \in asleep : asleep' = asleep \ {w} /\ UNCHANGED waiting
       \/ \E t \in waiting : waiting' = waiting \ {t} /\ UNCHANGED asleep
    /\ UNCHANGED <<taskVars, countVars, exited, job, waitFor, bound, closing, initialized>>

-----------------------------------------------------------------------------
(* Owners and shutdown *)

\* bindProviderOwner: the first thread that asks owns the provider for good.
MayBind(t) == CanCall(t) /\ job[t] = None /\ initialized /\ ~closing
BindProvider(t, p) ==
    /\ MayBind(t) /\ bound[p] = None
    /\ bound' = [bound EXCEPT ![p] = t]
    /\ UNCHANGED <<taskVars, countVars, threadVars, closing, initialized>>

\* It may ask again, which changes nothing and so is no step of the scheduler by itself.
BindAgain(t, p) == MayBind(t) /\ bound[p] = t /\ UNCHANGED vars

\* shutdown up to the joins.  It is refused while a provider holds work.
ShutdownBegin ==
    /\ CanCall(Owner) /\ job[Owner] = None
    /\ initialized
    /\ pending = 0 /\ executing = 0
    /\ closing' = TRUE
    /\ state' = [s \in Slots |-> IF s \in Cancellable THEN "CANCELLED" ELSE state[s]]
    /\ cancelled' = [s \in Slots |-> \/ cancelled[s] \/ s \in Cancellable
                                     \/ state[s] = "RUNNING"]
    /\ home' = [s \in Slots |-> None]
    /\ readyCpu' = readyCpu - Cardinality(QueuedCpu)
    /\ Unlink({e \in edges : e.parent \in Cancellable \/ e.child \in Cancellable})
    /\ WakeAllWorkers
    /\ NotifyFinished
    /\ UNCHANGED <<generation, executor, unmet, pending, executing, exited, job, waitFor,
                   bound, initialized>>

\* Every worker has been joined.
Bug_JoinNobody == TRUE
Joined == exited = Workers
ShutdownEnd ==
    /\ initialized /\ closing
    /\ Joined
    /\ initialized' = FALSE
    /\ NotifyFinished
    /\ UNCHANGED <<taskVars, countVars, asleep, exited, job, waitFor, bound, closing>>

\* The scheduler is gone and every caller has returned.
Terminated ==
    /\ ~initialized
    /\ \A t \in Threads : waitFor[t] = NoHandle
    /\ UNCHANGED vars

-----------------------------------------------------------------------------
(* The next-state relation *)

AnySubmit(t) ==
    \E s \in Free, x \in Executors, before \in SUBSET (Slots \ Free) : Submit(t, s, x, before)

\* Batches of two tasks or more; a batch of one is a submit that wakes every worker.
AnyBatch(t) ==
    \E new \in SUBSET Free :
        /\ Cardinality(new) \in 2..MaxBatch
        /\ \E position \in [new -> 1..Cardinality(new)], x \in [new -> Executors] :
            /\ \A a, b \in new : position[a] = position[b] => a = b
            /\ \E added \in SUBSET {e \in [parent : new, child : new, copy : Copies] :
                                        Ordered(position, e)} :
                   SubmitBatch(t, position, x, added)

Next ==
    \/ \E t \in Threads \cup Workers :
        \/ AnySubmit(t)
        \/ AnyBatch(t)
        \/ \E result \in {"SUCCESS", "FAILURE", "PENDING"} : Return(t, result)
        \/ \E h \in Handles : \/ Cancel(t, h)
                              \/ Release(t, h)
                              \/ \E result \in {"SUCCESS", "FAILURE"} : CompleteProvider(t, h, result)
    \/ \E w \in Workers : WorkerSleep(w) \/ WorkerTake(w) \/ WorkerExit(w)
    \/ \E t \in Threads :
        \/ Pump(t)
        \/ \E h \in Handles : Wait(t, h)
        \/ WaitAgain(t)
        \/ WaitReturn(t)
        \/ \E p \in Providers : BindProvider(t, p)
    \/ SpuriousWakeup
    \/ ShutdownBegin
    \/ ShutdownEnd
    \/ Terminated

Spec == Init /\ [][Next]_vars

-----------------------------------------------------------------------------
(* Safety *)

\* Every variable keeps its type.
TypeOK ==
    /\ state \in [Slots -> States]
    /\ generation \in [Slots -> 1..MaxGeneration]
    /\ executor \in [Slots -> Executors]
    /\ cancelled \in [Slots -> BOOLEAN]
    /\ home \in [Slots -> Workers \cup {None}]
    /\ remaining \in [Slots -> Nat]
    /\ edges \subseteq Edges
    /\ readyCpu \in Nat /\ pending \in Nat /\ executing \in Nat
    /\ bound \in [Providers -> Threads \cup {None}]
    /\ closing \in BOOLEAN /\ initialized \in BOOLEAN
    /\ asleep \subseteq Workers /\ exited \subseteq Workers
    /\ job \in [Threads \cup Workers -> Slots \cup {None}]
    /\ waitFor \in [Threads -> Handles \cup {NoHandle}]
    /\ waiting \subseteq Threads
    /\ unmet \in [Slots -> SUBSET Slots]

\* The counters the sleeping and shutdown conditions read agree with the tasks
\* they count: a worker that sees m_nReadyCpu # 0 finds a task to dequeue
\* (dequeueLocked never hands SIR_TASK_NONE to m_pSlots), and shutdown sees
\* every provider task that still holds resources.
CountersExact ==
    /\ readyCpu = Cardinality(QueuedCpu)
    /\ pending = Cardinality(Awaiting)
    /\ executing = Cardinality({t \in Threads : job[t] # None /\ executor[job[t]] \in Providers})

\* The edge pool is exact: an edge joins a task that may still finish to a task
\* that is blocked, a blocked task has one, and nRemaining counts them, so no
\* settled slot can be recycled under an edge.
EdgesExact ==
    /\ \A e \in edges : state[e.parent] \in Live /\ state[e.child] = "BLOCKED"
    /\ \A s \in Slots : /\ remaining[s] = Cardinality(Incoming(s))
                        /\ state[s] = "BLOCKED" => Incoming(s) # {}
    /\ Cardinality(edges) <= EdgeCapacity

\* A task is queued, run or finished only after every prerequisite it was
\* submitted with has completed, and while it is blocked the edges name exactly
\* the prerequisites it still waits for.
PrerequisitesHonoured ==
    \A s \in Slots :
        /\ state[s] \in {"QUEUED", "RUNNING", "AWAITING", "COMPLETED", "FAILED"} => unmet[s] = {}
        /\ state[s] = "BLOCKED" => unmet[s] = {e.parent : e \in Incoming(s)}

\* No ring of blocked tasks: some prerequisite of every blocked task, direct or
\* not, can still make progress on its own.
BlockedHasLiveCause ==
    \A s \in Slots : state[s] = "BLOCKED" =>
        \E p \in Slots :
            /\ state[p] \in {"QUEUED", "RUNNING", "AWAITING"}
            /\ \A C \in SUBSET Slots :
                   (s \in C /\ \A e \in edges : e.child \in C => e.parent \in C) => p \in C

\* A running task is run by one thread, the one its executor demands: a worker
\* (or the owner, without workers) for CPU, the owner for MAIN, the bound owner
\* for a provider, which is bound as long as it holds work.
RunsOnceOnItsOwner ==
    /\ \A s \in Slots :
        state[s] = "RUNNING" <=> \E t \in Threads \cup Workers : job[t] = s
    /\ \A t, u \in Threads \cup Workers : job[t] # None /\ job[t] = job[u] => t = u
    /\ \A w \in Workers : job[w] # None => executor[job[w]] = "CPU"
    /\ \A t \in Threads : job[t] # None =>
        LET x == executor[job[t]]
        IN  IF x \in Providers THEN bound[x] = t
            ELSE t = Owner /\ (x = "CPU" => Workers = {})
    /\ \A s \in Awaiting : executor[s] \in Providers /\ bound[executor[s]] # None

\* No lost wakeup on m_Ready: while a worker sleeps, there are at least as many
\* awake workers on their way to the queue as tasks in it.
ReadyWorkIsWatched ==
    asleep # {} => Cardinality({w \in Workers : AtLoopHead(w)}) >= readyCpu

\* No lost wakeup on m_Finished: a thread sleeps in waitTask only while its
\* task, of the generation it asked for, is still to settle.
SleepersWaitForLiveTasks == \A t \in waiting : Unsettled(waitFor[t])

\* After shutdown nothing runs, is queued or is owned by a provider, and nobody
\* is left asleep.
ShutdownLeavesNothing ==
    ~initialized => /\ \A s \in Slots : state[s] \in Settled \cup {"INVALID"}
                    /\ exited = Workers /\ asleep = {} /\ waiting = {}
                    /\ edges = {}

\* A task only moves forward, runs at most once, and keeps what it settled as
\* until its handle is released; only a release changes the generation, and a
\* cancellation request is never withdrawn and never loses to a success.
Forward(s) ==
    /\ state'[s] # state[s] =>
        <<state[s], state'[s]>> \in
            ({"INVALID"} \X {"QUEUED", "BLOCKED", "CANCELLED"})
            \cup ({"BLOCKED"} \X {"QUEUED", "CANCELLED"})
            \cup ({"QUEUED"} \X {"RUNNING", "CANCELLED"})
            \cup ({"RUNNING"} \X (Settled \cup {"AWAITING"}))
            \cup ({"AWAITING"} \X Settled)
            \cup (Settled \X {"INVALID"})
    /\ generation'[s] # generation[s] => state'[s] = "INVALID"
    /\ state[s] \in Live /\ cancelled[s] =>
        cancelled'[s] /\ state'[s] \in Live \cup {"CANCELLED"}
TasksMoveForward == [][\A s \in Slots : Forward(s)]_vars
=============================================================================
