------------------------------- MODULE TaskGraph -------------------------------
(***************************************************************************)
(* SIRTaskGraph (Source/Core/Jobs): passes that declare which intervals of  *)
(* which resources they read and write, compiled into a batch of tasks for  *)
(* the scheduler, and the calls that watch, cancel and release the batch    *)
(* while its tasks run.                                                     *)
(*                                                                         *)
(* Building and compiling are single calls of one thread.  queryExecution,  *)
(* cancelExecution and releaseSubmitted take one step per call into the     *)
(* scheduler, and its tasks move between two of them.  The tasks are        *)
(* described by what TaskScheduler promises: a task waits for its           *)
(* prerequisites, and one that does not complete drops its dependents.  A   *)
(* task that awaits its provider counts as running.                         *)
(***************************************************************************)
EXTENDS Integers, Sequences, FiniteSets, SequencesExt

CONSTANTS
    AccessLists,    \* what a pass may declare: sequences of accesses
    PassCapacity,   \* m_nPassCapacity
    AccessCapacity, \* m_nAccessCapacity
    EdgeCapacity,   \* m_nEdgeCapacity
    MaxExplicit     \* bound on m_nExplicitEdgeCount

ASSUME GraphAssumption ==
    PassCapacity \in Nat /\ AccessCapacity \in Nat /\ EdgeCapacity \in Nat /\ MaxExplicit \in Nat

Accesses == UNION {Range(list) : list \in AccessLists}

\* addPass takes no empty interval (nBytes).
ASSUME AccessAssumption ==
    /\ AccessLists \subseteq Seq(Accesses)
    /\ \A access \in Accesses : access.first \in Nat /\ access.end \in Nat /\ access.first < access.end

VARIABLES
    passCount, \* m_nPassCount
    accesses,  \* m_pAccesses: [pass, access], in the order of the passes
    explicit,  \* m_pExplicitEdges
    edges,     \* m_pEdges
    order,     \* m_pTopological, also when it ends early
    status,    \* what compile returned last; m_bCompiled while it is OK
    submitted, \* m_bSubmitted
    batch,     \* m_pBatchEdges
    task,      \* state of the tasks behind m_pBatchHandles
    stopping,  \* tasks with bCancellationRequested
    outcome,   \* history: how each task of the batch ended
    call,      \* the call in progress: its name, the task it looks at next, the states it has seen
    summary    \* history: eState of the last query, while its batch is submitted

buildVars == <<passCount, accesses, explicit, edges, order, status>>
taskVars  == <<task, stopping, outcome>>
vars == <<buildVars, batch, taskVars, submitted, call, summary>>

Settled == {"COMPLETED", "FAILED", "CANCELLED"}
Pending == {"BLOCKED", "QUEUED", "RUNNING"}
Gone == "INVALID"       \* somebody else released the task
Released == "RELEASED"  \* the graph released it and cleared its handle

Idle == [name |-> "none", at |-> 1, seen |-> {}]

Init ==
    /\ passCount = 0 /\ accesses = <<>> /\ explicit = <<>> /\ edges = <<>> /\ order = <<>> /\ status = "NONE"
    /\ submitted = FALSE
    /\ batch = {} /\ task = <<>> /\ stopping = {} /\ outcome = <<>>
    /\ call = Idle /\ summary = "NONE"

-----------------------------------------------------------------------------
(* Building *)

Passes == 1..passCount

\* Whatever was compiled or released before can no longer be reached.
Changed ==
    /\ status' = "NONE" /\ edges' = <<>> /\ order' = <<>>
    /\ batch' = {} /\ task' = <<>> /\ stopping' = {} /\ outcome' = <<>>
    /\ UNCHANGED <<submitted, call, summary>>

AddPass(list) ==
    /\ ~submitted
    /\ passCount < PassCapacity /\ Len(list) <= AccessCapacity - Len(accesses)
    /\ passCount' = passCount + 1
    /\ accesses' = accesses \o [i \in DOMAIN list |-> [pass |-> passCount + 1, access |-> list[i]]]
    /\ Changed /\ UNCHANGED explicit

AddDependency(before, after) ==
    /\ ~submitted
    /\ before # after
    /\ Len(explicit) < EdgeCapacity /\ Len(explicit) < MaxExplicit
    /\ explicit' = Append(explicit, <<before, after>>)
    /\ Changed /\ UNCHANGED <<passCount, accesses>>

Reset ==
    /\ ~submitted
    /\ passCount' = 0 /\ accesses' = <<>> /\ explicit' = <<>>
    /\ Changed

-----------------------------------------------------------------------------
(* Compiling *)

Overlaps(a, b) == a.key = b.key /\ a.first < b.end /\ b.first < a.end
Conflicts(a, b) == Overlaps(a, b) /\ "WRITE" \in {a.mode, b.mode}

\* Mutant: the end of the earlier interval is forgotten.
CoveredFromFirst(earlier, later) ==
    later.mode = "WRITE" /\ earlier.key = later.key /\ earlier.first >= later.first

\* Once a write covers an earlier access, later accesses need only be ordered against the write.
Covered(earlier, later) ==
    later.mode = "WRITE" /\ earlier.key = later.key /\ earlier.first >= later.first /\ earlier.end <= later.end

\* appendEdge: an edge that is there already costs nothing.
AppendEdge(compiled, edge) ==
    IF ~compiled.fits \/ Contains(compiled.edges, edge) THEN compiled
    ELSE IF Len(compiled.edges) = EdgeCapacity THEN [compiled EXCEPT !.fits = FALSE]
    ELSE [compiled EXCEPT !.edges = Append(@, edge)]

AppendEdges(compiled, links) == FoldLeft(AppendEdge, compiled, links)

\* SelectSeq, as a fold.
Only(s, S) == FoldLeft(LAMBDA kept, x : IF x \in S THEN Append(kept, x) ELSE kept, <<>>, s)

\* One access against the frontier, the latest access first.
AddAccess(compiled, item) ==
    LET behind == {old \in Range(compiled.frontier) :
                        old.pass # item.pass /\ Conflicts(old.access, item.access)}
        kept == {old \in Range(compiled.frontier) : ~Covered(old.access, item.access)}
        before == Only(compiled.frontier, behind)
    IN [AppendEdges(compiled, [i \in DOMAIN before |-> <<before[i].pass, item.pass>>])
            EXCEPT !.frontier = <<item>> \o Only(compiled.frontier, kept)]

Nothing == [edges |-> <<>>, frontier |-> <<>>, fits |-> TRUE]

Ordered == FoldLeft(AddAccess, AppendEdges(Nothing, explicit), accesses)

\* m_pIndegrees counts the passes before p, m_pFirstOut lists those after it, the latest edge first.
Before(links, p) == {link[1] : link \in {l \in Range(links) : l[2] = p}}
After(links, p) ==
    LET out == Only(Reverse(links), {link \in Range(links) : link[1] = p})
    IN [i \in DOMAIN out |-> out[i][2]]

\* The passes whose count is zero once some are taken.
Free(links, taken) == {p \in Passes : Before(links, p) \subseteq taken}

\* The n-th pass of the queue is taken.
Take(links, queue, n) ==
    IF n > Len(queue) THEN queue
    ELSE queue \o Only(After(links, queue[n]), Free(links, {queue[i] : i \in 1..n}))

\* Kahn's traversal: queue[n] is the queue when n passes were taken.
Topological(links) ==
    LET queue[n \in 0..passCount] ==
            IF n = 0 THEN Only([p \in Passes |-> p], Free(links, {}))
            ELSE Take(links, queue[n - 1], n)
    IN queue[passCount]

Compile ==
    LET compiled == Ordered
        sorted == Topological(compiled.edges)
    IN
    /\ ~submitted
    /\ passCount > 0
    /\ IF compiled.fits
       THEN /\ edges' = compiled.edges /\ order' = sorted
            /\ status' = IF Len(sorted) = passCount THEN "OK" ELSE "CYCLE"
       ELSE edges' = <<>> /\ order' = <<>> /\ status' = "CAPACITY"
    /\ UNCHANGED <<passCount, accesses, explicit, batch, taskVars, submitted, call, summary>>

-----------------------------------------------------------------------------
(* The batch.  Task i stands for pass order[i].                              *)

Position(pass) == CHOOSE i \in DOMAIN order : order[i] = pass

\* Mutant: the edges keep the numbers of the passes.
EdgesOfPasses == Range(edges)
BatchEdges == {<<Position(edge[1]), Position(edge[2])>> : edge \in Range(edges)}

\* The tasks a task waits for.
Needs(edgesOfBatch, i) == {edge[1] : edge \in {e \in edgesOfBatch : e[2] = i}}

\* submitBatch takes all tasks or none, and only edges that point forward.
Submit ==
    /\ status = "OK" /\ ~submitted
    /\ batch' = BatchEdges
    /\ \A edge \in batch' : edge[1] < edge[2]
    /\ submitted' = TRUE
    /\ task' = [i \in Passes |-> IF Needs(batch', i) = {} THEN "QUEUED" ELSE "BLOCKED"]
    /\ outcome' = [i \in Passes |-> "NONE"]
    /\ stopping' = {}
    /\ UNCHANGED <<buildVars, call, summary>>

\* The tasks that wait for some of a set, over any number of edges.
Behind(roots) ==
    LET within[n \in 0..Len(order)] ==
            IF n = 0 THEN roots
            ELSE within[n - 1] \cup {i \in DOMAIN task : Needs(batch, i) \cap within[n - 1] # {}}
    IN within[Len(order)] \ roots

\* A task ends: its dependents start when it was the last they waited for, or are dropped with it.
Ends(i, result) ==
    LET completed == {j \in DOMAIN task : outcome[j] = "COMPLETED"} \cup {i}
        dropped == IF result = "COMPLETED" THEN {} ELSE {j \in Behind({i}) : task[j] = "BLOCKED"}
        ready == {j \in DOMAIN task : task[j] = "BLOCKED" /\ Needs(batch, j) \subseteq completed} \ dropped
    IN
    /\ task' = [j \in DOMAIN task |-> IF j = i THEN result
                                      ELSE IF j \in dropped THEN "CANCELLED"
                                      ELSE IF result = "COMPLETED" /\ j \in ready THEN "QUEUED" ELSE task[j]]
    /\ outcome' = [j \in DOMAIN task |-> IF j = i THEN result
                                         ELSE IF j \in dropped THEN "CANCELLED" ELSE outcome[j]]

TaskStarts(i) ==
    /\ task[i] = "QUEUED"
    /\ task' = [task EXCEPT ![i] = "RUNNING"]
    /\ UNCHANGED <<buildVars, batch, stopping, outcome, submitted, call, summary>>

TaskEnds(i, result) ==
    /\ task[i] = "RUNNING"
    /\ Ends(i, IF i \in stopping THEN "CANCELLED" ELSE result)
    /\ UNCHANGED <<buildVars, batch, stopping, submitted, call, summary>>

\* getSubmittedHandle gives the handles away: whoever has one may release its task.
TaskTakenAway(i) ==
    /\ task[i] \in Settled
    /\ task' = [task EXCEPT ![i] = Gone]
    /\ UNCHANGED <<buildVars, batch, stopping, outcome, submitted, call, summary>>

-----------------------------------------------------------------------------
(* The calls on a submitted batch *)

Calls == {"query", "cancel", "check"}

Begin(name) ==
    /\ submitted /\ call = Idle
    /\ call' = [Idle EXCEPT !.name = name]
    /\ UNCHANGED <<buildVars, batch, taskVars, submitted, summary>>

At(name) == call.name = name /\ call.at \in DOMAIN task
PastLast(name) == call.name = name /\ call.at \notin DOMAIN task
Advance == call' = [call EXCEPT !.at = @ + 1]
GiveUp == call' = Idle /\ UNCHANGED <<buildVars, batch, taskVars, submitted, summary>>

\* Mutant: one failure is enough.
EvaluateFailFast(seen) ==
    IF "FAILED" \in seen THEN "FAILED"
    ELSE IF "PENDING" \in seen THEN "PENDING"
    ELSE IF "CANCELLED" \in seen THEN "CANCELLED" ELSE "COMPLETED"

\* The state of a summary, by the counts that are not zero.
Evaluate(seen) ==
    IF "PENDING" \in seen THEN "PENDING"
    ELSE IF "FAILED" \in seen THEN "FAILED"
    ELSE IF "CANCELLED" \in seen THEN "CANCELLED" ELSE "COMPLETED"

\* queryExecution
QueryLooks ==
    /\ At("query") /\ task[call.at] \in Settled \cup Pending
    /\ call' = [call EXCEPT !.at = @ + 1,
                            !.seen = @ \cup {IF task[call.at] \in Settled THEN task[call.at] ELSE "PENDING"}]
    /\ UNCHANGED <<buildVars, batch, taskVars, submitted, summary>>

QueryReturns ==
    /\ PastLast("query")
    /\ summary' = Evaluate(call.seen) /\ call' = Idle
    /\ UNCHANGED <<buildVars, batch, taskVars, submitted>>

\* cancelExecution: a task that settles between its two looks at it is passed over as well.
CancelPasses ==
    /\ At("cancel") /\ task[call.at] \in Settled
    /\ Advance
    /\ UNCHANGED <<buildVars, batch, taskVars, submitted, summary>>

CancelDrops ==
    /\ At("cancel") /\ task[call.at] \in {"BLOCKED", "QUEUED"}
    /\ Ends(call.at, "CANCELLED") /\ Advance
    /\ UNCHANGED <<buildVars, batch, stopping, submitted, summary>>

CancelAsks ==
    /\ At("cancel") /\ task[call.at] = "RUNNING"
    /\ stopping' = stopping \cup {call.at} /\ Advance
    /\ UNCHANGED <<buildVars, batch, task, outcome, submitted, summary>>

\* releaseSubmitted looks at every task before it releases the first.
Checked == task[call.at] \in Settled \cup {Released}

CheckLooks ==
    /\ At("check") /\ Checked
    /\ Advance
    /\ UNCHANGED <<buildVars, batch, taskVars, submitted, summary>>

CheckEnds ==
    /\ PastLast("check")
    /\ call' = [Idle EXCEPT !.name = "release"]
    /\ UNCHANGED <<buildVars, batch, taskVars, submitted, summary>>

Release ==
    /\ At("release") /\ task[call.at] \in Settled \cup {Released}
    /\ task' = [task EXCEPT ![call.at] = Released] /\ Advance
    /\ UNCHANGED <<buildVars, batch, stopping, outcome, submitted, summary>>

ReleaseEnds ==
    /\ PastLast("release")
    /\ submitted' = FALSE /\ call' = Idle /\ summary' = "NONE"
    /\ UNCHANGED <<buildVars, batch, taskVars>>

\* Each call returns false at a task that is gone; a query and a cancellation also at one that the
\* graph has released, and a release at one that has not ended.
CallFails ==
    /\ call.name # "none" /\ call.at \in DOMAIN task
    /\ \/ task[call.at] = Gone
       \/ task[call.at] = Released /\ call.name \in {"query", "cancel"}
       \/ ~Checked /\ call.name = "check"
    /\ GiveUp

CallStep ==
    \/ QueryLooks \/ QueryReturns
    \/ CancelPasses \/ CancelDrops \/ CancelAsks \/ (PastLast("cancel") /\ GiveUp)
    \/ CheckLooks \/ CheckEnds \/ Release \/ ReleaseEnds
    \/ CallFails

-----------------------------------------------------------------------------

Next ==
    \/ \E list \in AccessLists : AddPass(list)
    \/ \E before, after \in Passes : AddDependency(before, after)
    \/ Reset \/ Compile \/ Submit
    \/ \E i \in DOMAIN task : TaskStarts(i) \/ TaskTakenAway(i)
    \/ \E i \in DOMAIN task, result \in {"COMPLETED", "FAILED"} : TaskEnds(i, result)
    \/ \E name \in Calls : Begin(name)
    \/ CallStep

Spec == Init /\ [][Next]_vars

-----------------------------------------------------------------------------
(* What callers rely on *)

\* Two passes conflict when one writes what the other touches.
PassesConflict(p, q) == \E a, b \in Range(accesses) :
    a.pass = p /\ b.pass = q /\ Conflicts(a.access, b.access)

\* The order the passes ask for: declared, or that of their numbers where they conflict.
Demanded == Range(explicit)
    \cup {pair \in Passes \X Passes :
                pair[1] < pair[2] /\ PassesConflict(pair[1], pair[2])}

\* What lies behind a pass, over any number of links.
Reach(links, p) ==
    LET within[n \in 0..passCount] ==
            IF n = 0 THEN {link[2] : link \in {l \in links : l[1] = p}}
            ELSE within[n - 1] \cup {link[2] : link \in {l \in links : l[1] \in within[n - 1]}}
    IN within[passCount]

\* The compiled edges order exactly what must be ordered: every conflict and every declared
\* dependency over some path and nothing else, whatever intervals were dropped from the frontier;
\* the batch is sorted; and a cycle is reported when, and only when, the declarations contain one
\* (compile, appendEdge).
CompileIsExact == ~submitted /\ status \in {"OK", "CYCLE"} =>
    LET demanded == Demanded IN
    /\ \A p \in Passes : Reach(Range(edges), p) = Reach(demanded, p)
    /\ status = "OK" => /\ Range(order) = Passes /\ Len(order) = passCount
                        /\ \A edge \in BatchEdges : edge[1] < edge[2]
    /\ status = "CYCLE" => \E p \in Passes : p \in Reach(demanded, p)

Ran(i) == task[i] \in {"RUNNING", "COMPLETED", "FAILED"} \/ outcome[i] \in {"COMPLETED", "FAILED"}

\* A pass runs only when every earlier pass it conflicts with, and every pass it was declared to
\* follow, has completed: the batch keeps the order that was compiled (submit).
ConflictsExclude == submitted =>
    LET demanded == Demanded IN
    \A i, j \in DOMAIN task : Ran(j) /\ <<order[i], order[j]>> \in demanded => outcome[i] = "COMPLETED"

\* What a summary says of a batch is true of all of its tasks although they moved while it was put
\* together, and once the batch is released no task runs with the contexts of its passes
\* (queryExecution, releaseSubmitted).
ReportsAreTrue ==
    /\ summary \in Settled => \A i \in DOMAIN task : outcome[i] \in Settled
    /\ summary = "COMPLETED" => \A i \in DOMAIN task : outcome[i] = "COMPLETED"
    /\ summary \in {"FAILED", "CANCELLED"} => \E i \in DOMAIN task : outcome[i] = summary
    /\ summary = "CANCELLED" => \A i \in DOMAIN task : outcome[i] # "FAILED"
    /\ ~submitted => \A i \in DOMAIN task : outcome[i] \in Settled
=============================================================================
