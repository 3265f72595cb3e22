--------------------------- MODULE TaskFenceTracker ---------------------------
(***************************************************************************)
(* SIRTaskFenceTracker (Source/Core/Jobs) on top of the scheduler: a ring  *)
(* of tickets that ties deferred tasks of one provider to the completion   *)
(* fences of its native work.                                              *)
(*                                                                         *)
(* Every method runs on the thread Gpu that owns the provider, and touches *)
(* the scheduler through queryTask, getState and completeProvider, whose   *)
(* answers about a tracked task only Gpu can change: a method is one       *)
(* action, but drain, which runs a finalizer and completes a task for each *)
(* ticket in turn while the other threads go on.                           *)
(***************************************************************************)
EXTENDS TaskScheduler, Sequences

CONSTANTS
    Gpu,       \* the thread that called init
    Provider,  \* m_eProvider
    Capacity,  \* m_nCapacity
    MaxFence   \* bound on fence values

ASSUME TrackerAssumption ==
    /\ Gpu \in Threads
    /\ Provider \in Providers
    /\ Capacity \in Nat \ {0} /\ MaxFence \in Nat
    /\ None \notin {"SUCCESS", "FAILURE"}

VARIABLES
    phase,      \* "new", "open" (m_bInitialized) or "closed"
    tickets,    \* the records from m_nHead on, the oldest first
    lastTracked,\* m_nLastTrackedFence
    completed,  \* m_nCompletedFence
    drain,      \* the result drain acknowledges with, None when it does not run
    drained,    \* what the last drain returned
    finalized   \* history: slot -> successful finalizers of its task

trackerVars == <<phase, tickets, lastTracked, completed, drain, drained, finalized>>
allVars == <<vars, trackerVars>>

Tickets == [task : Handles, fence : 0..MaxFence, finalized : BOOLEAN]
Results == {"SUCCESS", "FAILURE"}

TrackerInit ==
    /\ Init
    /\ phase = "new"
    /\ tickets = <<>>
    /\ lastTracked = 0 /\ completed = 0
    /\ drain = None /\ drained = TRUE
    /\ finalized = [s \in Slots |-> 0]

-----------------------------------------------------------------------------
(* The methods of the tracker *)

Tracked(s) == \E i \in 1..Len(tickets) : tickets[i].task.slot = s
Oldest == tickets[1]
Youngest == tickets[Len(tickets)]

\* Gpu is in a method of the tracker only while it drains.
Ready == phase = "open" /\ drain = None /\ (job[Gpu] # None \/ CanCall(Gpu))

\* init binds the provider to the calling thread, which may own it already.
Open ==
    /\ phase = "new"
    /\ BindProvider(Gpu, Provider) \/ BindAgain(Gpu, Provider)
    /\ phase' = "open"
    /\ UNCHANGED <<tickets, lastTracked, completed, drain, drained, finalized>>

\* shutdown is refused while a ticket is out.
Close ==
    /\ Ready /\ tickets = <<>>
    /\ phase' = "closed"
    /\ UNCHANGED <<vars, tickets, lastTracked, completed, drain, drained, finalized>>

\* The fence values track accepts.
Acceptable(fence) == fence > completed /\ fence >= lastTracked

\* track admits a task of the provider that runs or was left pending, once.
Bug_TrackableAgain(h) == state[h.slot] \in {"RUNNING", "AWAITING"}
Trackable(h) ==
    /\ state[h.slot] \in {"RUNNING", "AWAITING"}
    /\ \A i \in 1..Len(tickets) : tickets[i].task # h

Track(h, fence) ==
    /\ Ready /\ Len(tickets) < Capacity
    /\ Acceptable(fence)
    /\ IsCurrent(h) /\ executor[h.slot] = Provider
    /\ Trackable(h)
    /\ tickets' = Append(tickets, [task |-> h, fence |-> fence, finalized |-> FALSE])
    /\ lastTracked' = fence
    /\ UNCHANGED <<vars, phase, completed, drain, drained, finalized>>

\* m_nLastTrackedFence once the last of the tickets has been dropped.
Bug_RolledBack == completed
RolledBack == IF Len(tickets) = 1 THEN completed ELSE tickets[Len(tickets) - 1].fence

\* A ticket may be withdrawn before its finalizer ran, while the callback runs.
Withdrawable(t) == ~t.finalized /\ IsCurrent(t.task) /\ state[t.task.slot] = "RUNNING"

\* untrackLast: the native submission of the task that runs has failed.
UntrackLast ==
    /\ Ready /\ tickets # <<>>
    /\ Withdrawable(Youngest)
    /\ tickets' = SubSeq(tickets, 1, Len(tickets) - 1)
    /\ lastTracked' = RolledBack
    /\ UNCHANGED <<vars, phase, completed, drain, drained, finalized>>

\* advanceCompleted(fence, result), and failQuiesced, enter drain.
DrainTo(fence, result) ==
    /\ Ready
    /\ fence >= completed
    /\ completed' = fence
    /\ drain' = result
    /\ UNCHANGED <<vars, phase, tickets, lastTracked, drained, finalized>>

FailQuiesced ==
    DrainTo(IF lastTracked > completed THEN lastTracked ELSE completed, "FAILURE")

\* The ticket the loop of drain works on.
Bug_DueByTracking == tickets # <<>> /\ Oldest.fence <= lastTracked
Due == tickets # <<>> /\ Oldest.fence <= completed

\* drain leaves its loop and returns.
Bug_Finish(returned) ==
    /\ drain' = IF returned THEN None ELSE drain
    /\ drained' = returned
    /\ UNCHANGED <<vars, phase, lastTracked, completed>>
Finish(returned) ==
    /\ drain' = None
    /\ drained' = returned
    /\ UNCHANGED <<vars, phase, lastTracked, completed>>

\* A finalizer that refuses ends the drain; one that succeeds is not repeated.
FinalizerRefuses ==
    /\ drain # None /\ Due /\ ~Oldest.finalized
    /\ Finish(FALSE)
    /\ UNCHANGED <<tickets, finalized>>

\* The finalizer succeeds.  completeProvider is refused while the callback of
\* the task still runs: the ticket stays for a later drain.
Finalize ==
    /\ drain # None /\ Due /\ ~Oldest.finalized
    /\ tickets' = [tickets EXCEPT ![1].finalized = TRUE]
    /\ finalized' = [finalized EXCEPT ![Oldest.task.slot] = @ + 1]
    /\ IF state[Oldest.task.slot] = "AWAITING"
       THEN UNCHANGED <<vars, phase, lastTracked, completed, drain, drained>>
       ELSE Finish(FALSE)

Acknowledge ==
    /\ drain # None /\ Due /\ Oldest.finalized
    /\ CompleteProvider(Gpu, Oldest.task, drain)
    /\ tickets' = Tail(tickets)
    /\ UNCHANGED <<phase, lastTracked, completed, drain, drained, finalized>>

Refused ==
    /\ drain # None /\ Due /\ Oldest.finalized
    /\ state[Oldest.task.slot] # "AWAITING"
    /\ Finish(FALSE)
    /\ UNCHANGED <<tickets, finalized>>

DrainEnd ==
    /\ drain # None /\ ~Due
    /\ Finish(TRUE)
    /\ UNCHANGED <<tickets, finalized>>

-----------------------------------------------------------------------------
(* The composition *)

\* What the provider owes the tracker: the callback of a tracked task returns
\* PENDING, nobody else acknowledges the task, and Gpu, while it drains, only
\* makes calls a finalizer may make (it neither pumps nor returns from a callback).
ProviderKeepsFaith ==
    /\ \A s \in Slots : Tracked(s) /\ state'[s] # state[s] => state'[s] = "AWAITING"
    /\ drain # None => job'[Gpu] = job[Gpu] /\ waitFor'[Gpu] = waitFor[Gpu]

\* A step of the scheduler that the tracker takes no part in.
SchedulerStep ==
    /\ Next
    /\ ProviderKeepsFaith
    /\ finalized' = [s \in Slots |-> IF state'[s] = "INVALID" THEN 0 ELSE finalized[s]]
    /\ UNCHANGED <<phase, tickets, lastTracked, completed, drain, drained>>

TrackerNext ==
    \/ SchedulerStep
    \/ Open \/ Close
    \/ \E h \in Handles, fence \in 1..MaxFence : Track(h, fence)
    \/ UntrackLast
    \/ \E fence \in 0..MaxFence, result \in Results : DrainTo(fence, result)
    \/ FailQuiesced
    \/ FinalizerRefuses \/ Finalize \/ Acknowledge \/ Refused \/ DrainEnd

TrackerSpec == TrackerInit /\ [][TrackerNext]_allVars

-----------------------------------------------------------------------------
(* Safety *)

\* No ticket dangles: each names, by its current handle, a task of the provider
\* that still runs or awaits it, no two name the same task, and neither the
\* tracker nor the scheduler closes while one is out.  The ring keeps its
\* capacity, and no task is finalized twice, whatever is withdrawn, refused or
\* drained again.
TicketsLive ==
    /\ Len(tickets) <= Capacity
    /\ \A s \in Slots : finalized[s] <= 1
    /\ \A i \in 1..Len(tickets) :
        LET h == tickets[i].task
        IN  /\ IsCurrent(h) /\ executor[h.slot] = Provider
            /\ state[h.slot] \in {"RUNNING", "AWAITING"}
            /\ \A j \in 1..Len(tickets) : tickets[j].task.slot = h.slot => j = i
    /\ tickets # <<>> => phase = "open" /\ ~closing

\* The ring is in fence order and m_nLastTrackedFence, also after a rollback,
\* is that of the youngest ticket, so the head is always the next to complete.
TicketsOrdered ==
    /\ \A i, j \in 1..Len(tickets) : i < j => tickets[i].fence <= tickets[j].fence
    /\ tickets # <<>> => lastTracked = Youngest.fence

\* A drain that returned true has acknowledged every ticket whose fence has
\* completed: a ticket that is overdue is one a drain has reported.
NothingOverdue ==
    drain = None /\ drained => \A i \in 1..Len(tickets) : tickets[i].fence > completed

\* The ring stays true to the fences: in order also after a rollback, and
\* drained up to what a finished drain was told has completed.
FencesInOrder == TicketsOrdered /\ NothingOverdue

\* A deferred task that was tracked settles, and readies its dependents, only
\* after its fence has completed and its finalizer has succeeded exactly once.
SettlesFinalized(s) ==
    Tracked(s) /\ state[s] = "AWAITING" /\ state'[s] # "AWAITING" =>
        /\ Oldest.task.slot = s
        /\ Oldest.fence <= completed
        /\ finalized[s] = 1
FinalizedBeforeDependents == [][\A s \in Slots : SettlesFinalized(s)]_allVars
=============================================================================
