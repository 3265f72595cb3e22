--------------------------- MODULE ResourceFileLoad ---------------------------
(***************************************************************************)
(* Source/Resources/SIRResourceFileLoad.cpp: one file read into a staging   *)
(* buffer by a task of the scheduler and published by the writer that polls *)
(* it, while other clients use the same writer.                             *)
(*                                                                         *)
(* The task is described by what TaskScheduler promises of one: a task that *)
(* is cancelled in the queue never runs, one that is cancelled while it     *)
(* runs ends CANCELLED, and a handle is gone once somebody released it or   *)
(* the scheduler shut down, which waits for a callback that runs.           *)
(***************************************************************************)
EXTENDS ResourceWriter

CONSTANT Requests  \* publications a load is asked for, each with one chunk

ASSUME RequestsAssumption == \A request \in Requests : request \in Publication /\ Len(request.chunks) = 1

VARIABLE load  \* m_Request, m_Staging, m_Task, m_bDiscard; basis is what begin saw, for the properties

loadVars == <<writerVars, load>>

NoLoad == [active |-> FALSE]
LoadInit == WriterInit /\ load = NoLoad

\* The revision a client passes as nExpectedRevision, 0 for a key that is not there.
Current(key) == IF Known(key) THEN published[SlotOf(key)] ELSE NoLoad
Revision(key) == IF Known(key) THEN Current(key).rev ELSE 0
Identity(key) == IF Revision(key) > 0 THEN <<Current(key).slot, Current(key).gen, Current(key).rev>> ELSE <<>>

\* begin opens the file, reserves the buffer and submits the read.
Begin(request) ==
    /\ ~load.active
    /\ AllocateStaging(Raw)
    /\ load' = [active |-> TRUE, request |-> request, staging |-> FreeStaging, task |-> "QUEUED",
                discard |-> FALSE, cancelled |-> FALSE,
                expected |-> Revision(request.key), basis |-> Identity(request.key)]
    /\ UNCHANGED <<recordVars, reader, plan>>

TaskIs(states) == load.active /\ load.task \in states
TaskBecomes(state) == load' = [load EXCEPT !.task = state]

\* readTask; the buffer is written by the worker that runs it.
ReadStarts ==
    /\ TaskIs({"QUEUED"}) /\ TaskBecomes("RUNNING")
    /\ UNCHANGED writerVars

ReadEnds(data) ==
    /\ TaskIs({"RUNNING"})
    /\ staging' = [staging EXCEPT ![load.staging] = data]
    /\ TaskBecomes(IF load.cancelled THEN "CANCELLED" ELSE "COMPLETED")
    /\ UNCHANGED <<recordVars, shared, blocks, reader, plan>>

ReadFails ==
    /\ TaskIs({"RUNNING"})
    /\ TaskBecomes(IF load.cancelled THEN "CANCELLED" ELSE "FAILED")
    /\ UNCHANGED writerVars

\* The handle is released behind the back of the load, or the scheduler shuts down.
TaskGone ==
    /\ TaskIs({"QUEUED", "COMPLETED", "FAILED", "CANCELLED"}) /\ TaskBecomes("GONE")
    /\ UNCHANGED writerVars

CancelLoad ==
    /\ load.active
    /\ load' = [load EXCEPT !.discard = TRUE,
                            !.cancelled = @ \/ load.task \in {"QUEUED", "RUNNING"},
                            !.task = IF @ = "QUEUED" THEN "CANCELLED" ELSE @]
    /\ UNCHANGED writerVars

Input == [load.request EXCEPT !.chunks = <<[@[1] EXCEPT !.from = load.staging]>>]

\* publishExpected, as far as the check of the revision.
MayPublish ==
    /\ TaskIs({"COMPLETED"}) /\ ~load.discard
    /\ Revision(load.request.key) = load.expected
    /\ Admitted(Input) /\ Prepare(Input.chunks).ok

PollPublishes ==
    /\ MayPublish
    /\ Commit(Input, Prepare(Input.chunks))
    /\ load' = NoLoad
    /\ UNCHANGED <<reader, plan>>

\* Every other terminal path frees the buffer; while the task runs, poll only says so.
PollDiscards ==
    /\ TaskIs({"COMPLETED", "FAILED", "CANCELLED", "GONE"}) /\ ~MayPublish
    /\ CancelStaging(load.staging)
    /\ load' = NoLoad
    /\ UNCHANGED <<recordVars, reader, plan>>

\* Clients of the writer have no handle of the buffer of the load.
ClientStep ==
    /\ WriterNext
    /\ load.active => load.staging \in DOMAIN staging' /\ staging'[load.staging] = staging[load.staging]
    /\ UNCHANGED load

LoadNext ==
    \/ ClientStep
    \/ \E request \in Requests : Begin(request)
    \/ ReadStarts \/ ReadFails \/ \E data \in Data : ReadEnds(data)
    \/ TaskGone \/ CancelLoad \/ PollPublishes \/ PollDiscards

LoadSpec == LoadInit /\ [][LoadNext]_loadVars

-----------------------------------------------------------------------------

\* A load never publishes over a revision that was not there when it began
\* (publishExpected: "reject outdated asynchronous completions", Resources/README.md:42-45).
OutdatedLoadsRejected == [][PollPublishes => Identity(load.request.key) = load.basis]_loadVars
=============================================================================
