------------------------ MODULE TaskFenceTracker_proofs ------------------------
(***************************************************************************)
(* Proofs about TaskFenceTracker on top of the scheduler, for any capacity *)
(* of the ring, any fences and any number of tasks.  The tracker does not  *)
(* disturb the scheduler, whose inductive invariant IInv holds throughout; *)
(* TrackerIInv adds what ties the tickets to the tasks they name.          *)
(***************************************************************************)
EXTENDS TaskFenceTracker, TaskScheduler_proofs, SequenceTheorems

TrackerTyped ==
    /\ phase \in {"new", "open", "closed"}
    /\ tickets \in Seq(Tickets)
    /\ lastTracked \in 0..MaxFence /\ completed \in 0..MaxFence
    /\ drain \in Results \cup {None} /\ drained \in BOOLEAN
    /\ finalized \in [Slots -> Nat]

\* The record of a ticket agrees with the finalizers of its task, and a task
\* that was finalized is still named by its ticket until it settles.
FinalizersExact ==
    /\ \A i \in 1..Len(tickets) :
          finalized[tickets[i].task.slot] = IF tickets[i].finalized THEN 1 ELSE 0
    /\ \A s \in Slots : finalized[s] # 0 => state[s] \in Settled \/ Tracked(s)

TrackerInv == TrackerTyped /\ TicketsLive /\ FencesInOrder /\ FinalizersExact
TrackerIInv == IInv /\ ClosingInv /\ TrackerInv

-----------------------------------------------------------------------------
(* The tracker on the scheduler *)

\* The fields of a ticket of the ring.
LEMMA TicketFields ==
    ASSUME TrackerTyped, NEW i \in 1..Len(tickets)
    PROVE  /\ tickets[i] \in Tickets /\ tickets[i].task \in Handles
           /\ tickets[i].task.slot \in Slots
           /\ tickets[i].fence \in 0..MaxFence /\ tickets[i].finalized \in BOOLEAN
<1>1. tickets[i] \in Tickets
  BY ElementOfSeq DEF TrackerTyped
<1> QED BY <1>1 DEF Tickets, Handles

\* A ring with tickets has an oldest and a youngest.
LEMMA RingLength ==
    ASSUME TrackerTyped
    PROVE  /\ Len(tickets) \in Nat
           /\ tickets # <<>> => 1 \in 1..Len(tickets) /\ Len(tickets) \in 1..Len(tickets)
           /\ tickets = <<>> => Len(tickets) = 0
<1>1. Len(tickets) \in Nat
  BY LenProperties DEF TrackerTyped
<1>2. tickets # <<>> => Len(tickets) \in Nat \ {0}
  BY EmptySeq DEF TrackerTyped
<1> QED BY <1>1, <1>2, EmptySeq

\* Every step of the tracker is a step of the scheduler or none: it binds its
\* provider, acknowledges a task, or leaves the scheduler alone.
LEMMA TrackerMaps == TrackerTyped /\ [TrackerNext]_allVars => [Next]_vars
<1> SUFFICES ASSUME TrackerTyped, [TrackerNext]_allVars PROVE [Next]_vars
  OBVIOUS
<1>1. CASE SchedulerStep
  BY <1>1 DEF SchedulerStep
<1>2. CASE Open
  BY <1>2, TrackerAssumption DEF Open, Next, BindAgain
<1>3. CASE Acknowledge
  <2>1. tickets # <<>> /\ drain \in Results
    BY <1>3 DEF Acknowledge, Due, TrackerTyped
  <2>2. Oldest.task \in Handles
    BY <2>1, RingLength, TicketFields DEF Oldest
  <2>3. CompleteProvider(Gpu, Oldest.task, drain)
    BY <1>3 DEF Acknowledge
  <2> QED BY <2>1, <2>2, <2>3, TrackerAssumption DEF Next, Results
<1>4. CASE FinalizerRefuses \/ Finalize \/ Refused \/ DrainEnd
  BY <1>4 DEF FinalizerRefuses, Finalize, Refused, DrainEnd, Finish
<1>5. CASE Close \/ UntrackLast \/ FailQuiesced \/ UNCHANGED allVars
  BY <1>5 DEF Close, UntrackLast, FailQuiesced, DrainTo, allVars
<1>6. CASE \/ \E h \in Handles, fence \in 1..MaxFence : Track(h, fence)
           \/ \E fence \in 0..MaxFence, result \in Results : DrainTo(fence, result)
  BY <1>6 DEF Track, DrainTo
<1> QED BY <1>1, <1>2, <1>3, <1>4, <1>5, <1>6 DEF TrackerNext

-----------------------------------------------------------------------------
(* Steps that leave the ring alone *)

\* A task of the provider that runs or awaits it holds the scheduler open.
LEMMA TaskKeepsOpen ==
    ASSUME IInv, ClosingInv, NEW s \in Slots, executor[s] = Provider, state[s] \in {"RUNNING", "AWAITING"}
    PROVE  ~closing /\ (pending # 0 \/ executing # 0)
<1>1. TypeOK /\ CountersExact /\ RunsOnceOnItsOwner
  BY DEF IInv
<1>2. CASE state[s] = "AWAITING"
  <2>1. s \in Awaiting /\ Awaiting \in SUBSET Slots
    BY <1>2 DEF Awaiting
  <2>2. Cardinality(Awaiting) # 0
    BY <2>1, FiniteSubsets, FS_EmptySet
  <2> QED BY <1>1, <2>1, <2>2 DEF CountersExact, ClosingInv
<1>3. CASE state[s] = "RUNNING"
  <2>1. PICK t \in Threads \cup Workers : job[t] = s
    BY <1>1, <1>3 DEF RunsOnceOnItsOwner
  <2>2. s # None
    BY SlotsAssumption
  <2>3. t \in Threads
    BY <1>1, <2>1, <2>2, ProvidersAssumption, TrackerAssumption DEF RunsOnceOnItsOwner
  <2>4. t \in ProviderRuns /\ ProviderRuns \in SUBSET Threads
    BY <2>1, <2>2, <2>3, TrackerAssumption DEF ProviderRuns
  <2>5. Cardinality(ProviderRuns) # 0
    BY <2>4, FiniteSubsets, FS_EmptySet
  <2> QED BY <1>1, <2>1, <2>2, <2>3, <2>5 DEF CountersExact, ProviderRuns, ClosingInv
<1> QED BY <1>2, <1>3

\* So does every ticket.
LEMMA TicketsKeepOpen ==
    ASSUME TrackerIInv, tickets # <<>>
    PROVE  initialized /\ ~closing /\ (pending # 0 \/ executing # 0)
<1>1. TrackerTyped /\ TicketsLive /\ IInv /\ ClosingInv /\ 1 \in 1..Len(tickets)
  BY RingLength DEF TrackerIInv, TrackerInv
<1> DEFINE s == tickets[1].task.slot
<1>2. /\ initialized /\ s \in Slots /\ executor[s] = Provider /\ state[s] \in {"RUNNING", "AWAITING"}
  BY <1>1, TicketFields DEF TicketsLive, IsCurrent
<1> QED BY <1>1, <1>2, TaskKeepsOpen

\* Only the two halves of shutdown change whether the scheduler is open.
LEMMA OnlyShutdownCloses ==
    ASSUME Next, ~ShutdownBegin, ~ShutdownEnd
    PROVE  closing' = closing /\ initialized' = initialized
<1>1. ASSUME NEW t \in Threads \cup Workers, AnySubmit(t) \/ AnyBatch(t)
      PROVE  closing' = closing /\ initialized' = initialized
  <2>1. ASSUME NEW s, NEW x, NEW before, Submit(t, s, x, before)
        PROVE  closing' = closing /\ initialized' = initialized
    BY <2>1 DEF Submit
  <2>2. ASSUME NEW position, NEW x, NEW added, SubmitBatch(t, position, x, added)
        PROVE  closing' = closing /\ initialized' = initialized
    BY <2>2 DEF SubmitBatch
  <2> QED BY <1>1, <2>1, <2>2 DEF AnySubmit, AnyBatch
<1>2. ASSUME NEW t \in Threads \cup Workers, NEW h \in Handles,
             \/ Cancel(t, h) \/ Release(t, h)
             \/ \E result \in {"SUCCESS", "FAILURE", "PENDING"} : Return(t, result)
             \/ \E result \in {"SUCCESS", "FAILURE"} : CompleteProvider(t, h, result)
      PROVE  closing' = closing /\ initialized' = initialized
  BY <1>2 DEF Cancel, Release, Return, CompleteProvider
<1>3. ASSUME NEW t \in Threads \cup Workers, NEW result \in {"SUCCESS", "FAILURE", "PENDING"}, Return(t, result)
      PROVE  closing' = closing /\ initialized' = initialized
  BY <1>3 DEF Return
<1>4. ASSUME NEW w \in Workers, WorkerSleep(w) \/ WorkerTake(w) \/ WorkerExit(w)
      PROVE  closing' = closing /\ initialized' = initialized
  BY <1>4 DEF WorkerSleep, WorkerTake, WorkerExit, Take
<1>5. ASSUME NEW t \in Threads,
             \/ Pump(t) \/ WaitAgain(t) \/ WaitReturn(t)
             \/ (\E h \in Handles : Wait(t, h)) \/ \E p \in Providers : BindProvider(t, p)
      PROVE  closing' = closing /\ initialized' = initialized
  BY <1>5 DEF Pump, Take, Wait, WaitAgain, WaitReturn, BindProvider
<1>6. CASE SpuriousWakeup \/ Terminated
  BY <1>6 DEF SpuriousWakeup, Terminated, vars
<1> QED BY <1>1, <1>2, <1>3, <1>4, <1>5, <1>6 DEF Next

\* The other threads go on: they neither touch a task that is tracked, but to
\* leave it pending, nor begin the shutdown.
LEMMA SchedulerStepKeeps ==
    ASSUME TrackerIInv, SchedulerStep
    PROVE  TrackerInv'
<1>1. /\ TrackerTyped /\ TicketsLive /\ FencesInOrder /\ FinalizersExact /\ IInv /\ TypeOK
  BY DEF TrackerIInv, TrackerInv, IInv
<1>2. /\ UNCHANGED <<phase, tickets, lastTracked, completed, drain, drained>>
      /\ finalized' = [s \in Slots |-> IF state'[s] = "INVALID" THEN 0 ELSE finalized[s]]
      /\ \A s \in Slots : Tracked(s) /\ state'[s] # state[s] => state'[s] = "AWAITING"
      /\ Next
  BY DEF SchedulerStep, ProviderKeepsFaith
<1>3. IInv'
  BY <1>1, <1>2, NextIInv
<1>4. \A s \in Slots : Forward(s) /\ SlotKept(s)
  <2>1. [\A s \in Slots : Forward(s)]_vars /\ \A s \in Slots : SlotKept(s)
    BY <1>1, <1>2, StepForward, StepSlotKept
  <2>2. UNCHANGED vars => \A s \in Slots : Forward(s)
    BY DEF vars, taskVars, Forward
  <2> QED BY <2>1, <2>2
<1>5. TrackerTyped'
  BY <1>1, <1>2 DEF TrackerTyped
<1>6. \A s \in Slots : Tracked(s)' <=> Tracked(s)
  BY <1>2 DEF Tracked
<1>7. tickets # <<>> => initialized' /\ ~closing'
  <2>1. ASSUME tickets # <<>> PROVE ~ShutdownBegin /\ ~ShutdownEnd
    BY <2>1, TicketsKeepOpen DEF TrackerIInv, ShutdownBegin, ShutdownEnd
  <2> QED BY <1>2, <2>1, OnlyShutdownCloses, TicketsKeepOpen
<1>8. ASSUME NEW i \in 1..Len(tickets)
      PROVE  LET h == tickets[i].task
             IN  /\ h.slot \in Slots /\ IsCurrent(h)' /\ executor'[h.slot] = Provider
                 /\ state'[h.slot] \in {"RUNNING", "AWAITING"}
  <2> DEFINE h == tickets[i].task
  <2>1. /\ h.slot \in Slots /\ Tracked(h.slot) /\ IsCurrent(h) /\ executor[h.slot] = Provider
        /\ state[h.slot] \in {"RUNNING", "AWAITING"} /\ tickets # <<>>
    BY <1>1, RingLength, TicketFields DEF TicketsLive, Tracked
  <2>2. state'[h.slot] \in {"RUNNING", "AWAITING"}
    BY <1>2, <2>1
  <2>3. generation'[h.slot] = generation[h.slot]
    BY <1>4, <2>1, <2>2 DEF Forward
  <2>4. generation[h.slot] \in Nat
    BY <1>1, <2>1, CapacityAssumption DEF TypeOK
  <2>5. executor'[h.slot] = Provider
    BY <1>4, <2>1, <2>3, <2>4 DEF SlotKept
  <2> QED BY <1>2, <1>7, <2>1, <2>2, <2>3, <2>5 DEF IsCurrent
<1>9. TicketsLive'
  <2>1. \A s \in Slots : finalized'[s] <= 1
    BY <1>1, <1>2 DEF TicketsLive, TrackerTyped
  <2> QED BY <1>1, <1>2, <1>7, <1>8, <2>1 DEF TicketsLive
<1>10. FencesInOrder'
  BY <1>1, <1>2 DEF FencesInOrder, TicketsOrdered, NothingOverdue, Youngest
<1>11. FinalizersExact'
  <2>1. \A i \in 1..Len(tickets) : state'[tickets[i].task.slot] # "INVALID"
    BY <1>8
  <2>2. \A s \in Slots : finalized'[s] # 0 => state'[s] \in Settled \/ Tracked(s)'
    <3> SUFFICES ASSUME NEW s \in Slots, finalized'[s] # 0, ~Tracked(s)
                 PROVE  state'[s] \in Settled
      BY <1>6
    <3>1. state'[s] # "INVALID" /\ finalized[s] # 0
      BY <1>2
    <3>2. state[s] \in Settled
      BY <1>1, <3>1 DEF FinalizersExact
    <3> QED BY <1>4, <3>1, <3>2 DEF Forward, Settled, Live
  <2> QED BY <1>1, <1>2, <1>8, <2>1, <2>2 DEF FinalizersExact
<1> QED BY <1>5, <1>9, <1>10, <1>11 DEF TrackerInv

-----------------------------------------------------------------------------
(* Methods of the tracker *)

\* The scheduler keeps every task, handle and executor.
TasksStand == UNCHANGED <<state, generation, executor, initialized, closing>>

\* The tasks that tickets name are as they were.
LEMMA TasksStill ==
    ASSUME TrackerIInv, TasksStand, NEW h, IsCurrent(h)
    PROVE  initialized' /\ h.slot \in Slots /\ generation'[h.slot] = h.generation
           /\ state'[h.slot] # "INVALID"
BY DEF TasksStand, IsCurrent

\* Calls that change no ticket.
LEMMA SameTickets ==
    ASSUME TrackerIInv, TasksStand, tickets' = tickets, finalized' = finalized,
           phase' = phase \/ tickets = <<>>, lastTracked' = lastTracked
    PROVE  /\ TicketsLive' /\ TicketsOrdered' /\ FinalizersExact'
<1>1. TrackerTyped /\ TicketsLive /\ FencesInOrder /\ FinalizersExact
  BY DEF TrackerIInv, TrackerInv
<1>2. TicketsOrdered'
  BY <1>1 DEF FencesInOrder, TicketsOrdered, Youngest
<1>3. FinalizersExact'
  BY <1>1 DEF FinalizersExact, Tracked, TasksStand
<1>4. TicketsLive'
  BY <1>1, EmptySeq, RingLength DEF TicketsLive, IsCurrent, TasksStand
<1> QED BY <1>2, <1>3, <1>4

LEMMA QuietMethods ==
    ASSUME TrackerIInv,
           \/ Open \/ Close \/ FailQuiesced \/ FinalizerRefuses \/ Refused \/ DrainEnd
           \/ \E fence \in 0..MaxFence, result \in Results : DrainTo(fence, result)
           \/ UNCHANGED allVars
    PROVE  TrackerInv'
<1>1. TrackerTyped /\ TicketsLive /\ FencesInOrder /\ FinalizersExact
  BY DEF TrackerIInv, TrackerInv
<1>2. ASSUME TasksStand, tickets' = tickets, finalized' = finalized,
             phase' = phase \/ tickets = <<>>, lastTracked' = lastTracked,
             TrackerTyped', NothingOverdue'
      PROVE  TrackerInv'
  BY <1>2, SameTickets DEF TrackerInv, FencesInOrder
<1>3. CASE Open
  <2>1. tickets = <<>>
    BY <1>1, <1>3 DEF Open, TicketsLive
  <2>2. TasksStand
    BY <1>3 DEF Open, BindProvider, BindAgain, vars, taskVars, TasksStand
  <2>3. TrackerTyped' /\ NothingOverdue'
    BY <1>1, <1>3 DEF Open, TrackerTyped, FencesInOrder, NothingOverdue
  <2> QED BY <1>2, <1>3, <2>1, <2>2, <2>3 DEF Open
<1>4. CASE Close
  <2>1. TasksStand
    BY <1>4 DEF Close, vars, taskVars, TasksStand
  <2>2. TrackerTyped' /\ NothingOverdue'
    BY <1>1, <1>4 DEF Close, TrackerTyped, FencesInOrder, NothingOverdue
  <2> QED BY <1>2, <1>4, <2>1, <2>2 DEF Close
<1>5. ASSUME NEW fence \in 0..MaxFence, NEW result \in Results, DrainTo(fence, result)
      PROVE  TrackerInv'
  <2>1. TasksStand
    BY <1>5 DEF DrainTo, vars, taskVars, TasksStand
  <2>2. TrackerTyped'
    BY <1>1, <1>5 DEF DrainTo, TrackerTyped
  <2>3. NothingOverdue'
    BY <1>5, TrackerAssumption DEF DrainTo, NothingOverdue, Results
  <2> QED BY <1>2, <1>5, <2>1, <2>2, <2>3 DEF DrainTo
<1>6. CASE FailQuiesced
  <2>1. (IF lastTracked > completed THEN lastTracked ELSE completed) \in 0..MaxFence
    BY <1>1 DEF TrackerTyped
  <2> QED BY <1>5, <1>6, <2>1 DEF FailQuiesced, Results
<1>7. CASE FinalizerRefuses \/ Refused
  <2>1. TasksStand
    BY <1>7 DEF FinalizerRefuses, Refused, Finish, vars, taskVars, TasksStand
  <2>2. TrackerTyped' /\ NothingOverdue'
    BY <1>1, <1>7 DEF FinalizerRefuses, Refused, Finish, TrackerTyped, NothingOverdue
  <2> QED BY <1>2, <1>7, <2>1, <2>2 DEF FinalizerRefuses, Refused, Finish
<1>8. CASE DrainEnd
  <2>1. TasksStand
    BY <1>8 DEF DrainEnd, Finish, vars, taskVars, TasksStand
  <2>2. TrackerTyped'
    BY <1>1, <1>8 DEF DrainEnd, Finish, TrackerTyped
  <2>3. ASSUME NEW i \in 1..Len(tickets) PROVE tickets[i].fence > completed
    <3>1. /\ 1 \in 1..Len(tickets) /\ tickets # <<>> /\ tickets[1].fence \in Nat
          /\ tickets[i].fence \in Nat /\ completed \in Nat
      BY <1>1, RingLength, TicketFields, TrackerAssumption DEF TrackerTyped
    <3>2. tickets[1].fence > completed
      BY <1>8, <3>1 DEF DrainEnd, Due, Oldest
    <3>3. i = 1 \/ tickets[1].fence <= tickets[i].fence
      BY <1>1, <3>1 DEF FencesInOrder, TicketsOrdered
    <3> QED BY <3>1, <3>2, <3>3
  <2>4. NothingOverdue'
    BY <1>8, <2>3 DEF DrainEnd, Finish, NothingOverdue
  <2> QED BY <1>2, <1>8, <2>1, <2>2, <2>4 DEF DrainEnd, Finish
<1>9. CASE UNCHANGED allVars
  <2>1. TasksStand
    BY <1>9 DEF allVars, vars, taskVars, TasksStand
  <2>2. TrackerTyped' /\ NothingOverdue'
    BY <1>1, <1>9 DEF allVars, trackerVars, TrackerTyped, FencesInOrder, NothingOverdue
  <2> QED BY <1>2, <1>9, <2>1, <2>2 DEF allVars, trackerVars
<1> QED BY <1>3, <1>4, <1>5, <1>6, <1>7, <1>8, <1>9

\* track appends a task that runs or was left pending and that no ticket names yet.
LEMMA TrackKeeps ==
    ASSUME TrackerIInv, NEW h \in Handles, NEW fence \in 1..MaxFence, Track(h, fence)
    PROVE  TrackerInv'
<1> DEFINE new == [task |-> h, fence |-> fence, finalized |-> FALSE]
           n == Len(tickets)
<1>1. TrackerTyped /\ TicketsLive /\ FencesInOrder /\ FinalizersExact
  BY DEF TrackerIInv, TrackerInv
<1>2. /\ phase = "open" /\ drain = None /\ n < Capacity /\ fence > completed /\ fence >= lastTracked
      /\ IsCurrent(h) /\ executor[h.slot] = Provider /\ state[h.slot] \in {"RUNNING", "AWAITING"}
      /\ \A i \in 1..n : tickets[i].task # h
      /\ tickets' = Append(tickets, new) /\ lastTracked' = fence
      /\ UNCHANGED <<phase, completed, drain, drained, finalized>> /\ TasksStand
  BY DEF Track, Ready, Acceptable, Trackable, vars, taskVars, TasksStand
<1>3. new \in Tickets /\ n \in Nat
  BY <1>1, LenProperties DEF Tickets, TrackerTyped
<1>4. /\ tickets' \in Seq(Tickets) /\ Len(tickets') = n + 1
      /\ \A i \in 1..n : tickets'[i] = tickets[i]
      /\ tickets'[n + 1] = new
  BY <1>1, <1>2, <1>3, AppendProperties DEF TrackerTyped
<1>5. \A i \in 1..(n + 1) : i \in 1..n \/ i = n + 1
  BY <1>3
<1>6. \A i \in 1..n : tickets[i].task.slot # h.slot
  <2> SUFFICES ASSUME NEW i \in 1..n, tickets[i].task.slot = h.slot PROVE FALSE
    OBVIOUS
  <2>1. tickets[i].task \in Handles /\ IsCurrent(tickets[i].task)
    BY <1>1, TicketFields DEF TicketsLive
  <2>2. tickets[i].task = [slot |-> h.slot, generation |-> generation[h.slot]]
    <3>1. tickets[i].task = [slot |-> tickets[i].task.slot, generation |-> tickets[i].task.generation]
      BY <2>1 DEF Handles
    <3> QED BY <2>1, <3>1 DEF IsCurrent
  <2>3. h = [slot |-> h.slot, generation |-> generation[h.slot]]
    <3>1. h = [slot |-> h.slot, generation |-> h.generation]
      BY DEF Handles
    <3> QED BY <1>2, <3>1 DEF IsCurrent
  <2> QED BY <1>2, <2>2, <2>3
<1>7. TrackerTyped'
  BY <1>1, <1>2, <1>4 DEF TrackerTyped
<1>8. TicketsOrdered'
  <2>1. \A i \in 1..n : tickets[i].fence <= fence
    <3> SUFFICES ASSUME NEW i \in 1..n PROVE tickets[i].fence <= fence
      OBVIOUS
    <3>1. tickets # <<>> /\ lastTracked = tickets[n].fence /\ n \in 1..n
      BY <1>1, RingLength DEF FencesInOrder, TicketsOrdered, Youngest
    <3>2. i = n \/ tickets[i].fence <= tickets[n].fence
      BY <1>1, <3>1 DEF FencesInOrder, TicketsOrdered
    <3>3. tickets[i].fence \in Nat /\ tickets[n].fence \in Nat
      BY <1>1, <3>1, TicketFields, TrackerAssumption
    <3> QED BY <1>2, <3>1, <3>2, <3>3, TrackerAssumption
  <2>2. lastTracked' = tickets'[Len(tickets')].fence
    BY <1>2, <1>4
  <2> QED BY <1>1, <1>3, <1>4, <1>5, <2>1, <2>2 DEF FencesInOrder, TicketsOrdered, Youngest
<1>9. NothingOverdue'
  BY <1>1, <1>2, <1>4, <1>5 DEF FencesInOrder, NothingOverdue
<1>10. FinalizersExact'
  <2>1. finalized[h.slot] = 0
    BY <1>1, <1>2, <1>6 DEF FinalizersExact, Tracked, Handles, Settled
  <2>2. \A s \in Slots : Tracked(s) => Tracked(s)'
    BY <1>3, <1>4 DEF Tracked
  <2> QED BY <1>1, <1>2, <1>4, <1>5, <2>1, <2>2 DEF FinalizersExact, TasksStand
<1>11. TicketsLive'
  <2>1. \A i \in 1..(n + 1) : LET g == tickets'[i].task
          IN  /\ IsCurrent(g) /\ executor[g.slot] = Provider /\ state[g.slot] \in {"RUNNING", "AWAITING"}
              /\ \A j \in 1..(n + 1) : tickets'[j].task.slot = g.slot => j = i
    BY <1>1, <1>2, <1>4, <1>5, <1>6 DEF TicketsLive
  <2>2. n + 1 <= Capacity
    BY <1>2, <1>3, TrackerAssumption
  <2>3. ~closing
    BY <1>2, TaskKeepsOpen DEF TrackerIInv, Handles
  <2>4. \A s \in Slots : finalized'[s] <= 1
    BY <1>1, <1>2 DEF TicketsLive
  <2> QED BY <1>2, <1>4, <2>1, <2>2, <2>3, <2>4 DEF TicketsLive, IsCurrent, TasksStand
<1> QED BY <1>7, <1>8, <1>9, <1>10, <1>11 DEF TrackerInv, FencesInOrder
\* untrackLast forgets the youngest ticket, whose finalizer has not run, and goes
\* back to the fence of the one before it.
LEMMA UntrackKeeps ==
    ASSUME TrackerIInv, UntrackLast
    PROVE  TrackerInv'
<1>n. PICK n \in Nat : n = Len(tickets)
  BY RingLength DEF TrackerIInv, TrackerInv
<1>1. TrackerTyped /\ TicketsLive /\ FencesInOrder /\ FinalizersExact
  BY DEF TrackerIInv, TrackerInv
<1>2. /\ tickets # <<>> /\ ~tickets[n].finalized /\ tickets' = SubSeq(tickets, 1, n - 1)
      /\ lastTracked' = RolledBack
      /\ UNCHANGED <<phase, completed, drain, drained, finalized>> /\ TasksStand
  BY <1>n DEF UntrackLast, Withdrawable, Youngest, vars, taskVars, TasksStand
<1>3. n \in Nat /\ n \in 1..n /\ \A i \in 1..(n - 1) : i \in 1..n /\ tickets[i] \in Tickets
  BY <1>n, <1>1, <1>2, RingLength, TicketFields
<1>4. /\ tickets' \in Seq(Tickets) /\ Len(tickets') = n - 1
      /\ \A i \in 1..(n - 1) : tickets'[i] = tickets[i]
  <2>1. /\ SubSeq(tickets, 1, n - 1) \in Seq(Tickets)
        /\ Len(SubSeq(tickets, 1, n - 1)) = IF 1 <= n - 1 THEN (n - 1) - 1 + 1 ELSE 0
        /\ \A i \in 1..((n - 1) - 1 + 1) : SubSeq(tickets, 1, n - 1)[i] = tickets[1 + i - 1]
    BY <1>3, SubSeqProperties
  <2> QED BY <1>2, <1>3, <2>1
<1>5. lastTracked' \in 0..MaxFence /\ (tickets' # <<>> => lastTracked' = tickets'[n - 1].fence)
  <2>1. CASE n = 1
    <3>1. tickets' = <<>>
      BY <1>4, <2>1, EmptySeq
    <3> QED BY <1>n, <1>1, <1>2, <2>1, <3>1 DEF RolledBack, TrackerTyped
  <2>2. CASE n # 1
    <3>1. n - 1 \in 1..(n - 1)
      BY <1>3, <2>2
    <3> QED BY <1>n, <1>1, <1>2, <1>3, <1>4, <2>2, <3>1, TicketFields DEF RolledBack
  <2> QED BY <2>1, <2>2
<1>6. TrackerTyped'
  BY <1>n, <1>1, <1>2, <1>4, <1>5 DEF TrackerTyped
<1>7. TicketsOrdered'
  BY <1>n, <1>1, <1>3, <1>4, <1>5 DEF FencesInOrder, TicketsOrdered, Youngest
<1>8. NothingOverdue'
  BY <1>n, <1>1, <1>2, <1>3, <1>4 DEF FencesInOrder, NothingOverdue
<1>9. FinalizersExact'
  <2>1. finalized[tickets[n].task.slot] = 0
    BY <1>n, <1>1, <1>2, <1>3 DEF FinalizersExact
  <2>2. ASSUME NEW s \in Slots, finalized[s] # 0, Tracked(s) PROVE Tracked(s)'
    <3>1. PICK i \in 1..n : tickets[i].task.slot = s
      BY <1>n, <2>2 DEF Tracked
    <3>2. i \in 1..(n - 1)
      BY <1>3, <2>1, <2>2, <3>1
    <3> QED BY <1>n, <1>4, <3>1, <3>2 DEF Tracked
  <2> QED BY <1>n, <1>1, <1>2, <1>3, <1>4, <2>2 DEF FinalizersExact, TasksStand
<1>10. TicketsLive'
  <2>1. n - 1 <= Capacity
    BY <1>n, <1>1, <1>3, TrackerAssumption DEF TicketsLive
  <2>2. \A i \in 1..(n - 1) : LET g == tickets'[i].task
          IN  /\ IsCurrent(g) /\ executor[g.slot] = Provider /\ state[g.slot] \in {"RUNNING", "AWAITING"}
              /\ \A j \in 1..(n - 1) : tickets'[j].task.slot = g.slot => j = i
    BY <1>n, <1>1, <1>3, <1>4 DEF TicketsLive
  <2>3. phase = "open" /\ ~closing /\ \A s \in Slots : finalized[s] <= 1
    BY <1>1, <1>2 DEF TicketsLive
  <2> QED BY <1>2, <1>4, <2>1, <2>2, <2>3 DEF TicketsLive, IsCurrent, TasksStand
<1> QED BY <1>6, <1>7, <1>8, <1>9, <1>10 DEF TrackerInv, FencesInOrder

\* The finalizer of the oldest ticket succeeds, for the first time.
LEMMA FinalizeKeeps ==
    ASSUME TrackerIInv, Finalize
    PROVE  TrackerInv'
<1> DEFINE n == Len(tickets)
           done == [tickets[1] EXCEPT !.finalized = TRUE]
<1>1. TrackerTyped /\ TicketsLive /\ FencesInOrder /\ FinalizersExact
  BY DEF TrackerIInv, TrackerInv
<1>2. /\ tickets # <<>> /\ ~tickets[1].finalized
      /\ tickets' = [tickets EXCEPT ![1] = done]
      /\ finalized' = [finalized EXCEPT ![tickets[1].task.slot] = @ + 1]
      /\ drain' \in {drain, None} /\ drained' \in {drained, FALSE}
      /\ drain # None /\ (drain' = None => drained' = FALSE)
      /\ UNCHANGED <<phase, lastTracked, completed>> /\ TasksStand
  BY DEF Finalize, Due, Finish, Oldest, vars, taskVars, TasksStand
<1>3. 1 \in 1..n /\ n \in 1..n /\ n \in Nat
  BY <1>1, <1>2, RingLength
<1>4. done \in Tickets /\ done.task = tickets[1].task /\ done.fence = tickets[1].fence /\ done.finalized
  <2>1. tickets[1] \in Tickets
    BY <1>1, <1>3, TicketFields
  <2> QED BY <2>1 DEF Tickets
<1>5. /\ tickets' \in Seq(Tickets) /\ Len(tickets') = n
      /\ \A i \in 1..n : tickets'[i] = IF i = 1 THEN done ELSE tickets[i]
  BY <1>1, <1>2, <1>3, <1>4, ExceptSeq DEF TrackerTyped
<1>6. \A i \in 1..n : tickets'[i].task = tickets[i].task /\ tickets'[i].fence = tickets[i].fence
  BY <1>4, <1>5
<1>7. /\ finalized[tickets[1].task.slot] = 0 /\ finalized'[tickets[1].task.slot] = 1
      /\ \A s \in Slots : s # tickets[1].task.slot => finalized'[s] = finalized[s]
      /\ finalized' \in [Slots -> Nat]
  <2>1. tickets[1].task.slot \in Slots /\ finalized[tickets[1].task.slot] = 0
    BY <1>1, <1>2, <1>3, TicketFields DEF FinalizersExact
  <2> QED BY <1>1, <1>2, <2>1 DEF TrackerTyped
<1>8. TrackerTyped'
  BY <1>1, <1>2, <1>5, <1>7 DEF TrackerTyped
<1>9. TicketsOrdered'
  BY <1>1, <1>2, <1>3, <1>5, <1>6 DEF FencesInOrder, TicketsOrdered, Youngest
<1>10. NothingOverdue'
  BY <1>2 DEF NothingOverdue
<1>11. FinalizersExact'
  <2>1. \A s \in Slots : Tracked(s)' <=> Tracked(s)
    BY <1>5, <1>6 DEF Tracked
  <2>2. \A s \in Slots : finalized'[s] # 0 => state'[s] \in Settled \/ Tracked(s)'
    <3>1. Tracked(tickets[1].task.slot)
      BY <1>3 DEF Tracked
    <3> QED BY <1>1, <1>2, <1>7, <2>1, <3>1 DEF FinalizersExact, TasksStand
  <2>3. ASSUME NEW i \in 1..n
        PROVE  finalized'[tickets'[i].task.slot] = IF tickets'[i].finalized THEN 1 ELSE 0
    <3>1. CASE i = 1
      BY <1>4, <1>5, <1>7, <3>1
    <3>2. CASE i # 1
      <4>1. tickets[i].task.slot \in Slots /\ tickets[i].task.slot # tickets[1].task.slot
        BY <1>1, <1>3, <3>2, TicketFields DEF TicketsLive
      <4> QED BY <1>1, <1>5, <1>7, <3>2, <4>1 DEF FinalizersExact
    <3> QED BY <3>1, <3>2
  <2> QED BY <1>5, <2>2, <2>3 DEF FinalizersExact
<1>12. TicketsLive'
  <2>1. \A s \in Slots : finalized'[s] <= 1
    BY <1>1, <1>7 DEF TicketsLive
  <2>2. \A i \in 1..n : LET g == tickets'[i].task
          IN  /\ IsCurrent(g) /\ executor[g.slot] = Provider /\ state[g.slot] \in {"RUNNING", "AWAITING"}
              /\ \A j \in 1..n : tickets'[j].task.slot = g.slot => j = i
    BY <1>1, <1>6 DEF TicketsLive
  <2>3. phase = "open" /\ ~closing /\ n <= Capacity
    BY <1>1, <1>2 DEF TicketsLive
  <2> QED BY <1>2, <1>5, <2>1, <2>2, <2>3 DEF TicketsLive, IsCurrent, TasksStand
<1> QED BY <1>8, <1>9, <1>10, <1>11, <1>12 DEF TrackerInv, FencesInOrder

-----------------------------------------------------------------------------
(* The acknowledgement of a ticket *)

\* completeProvider settles the task of the oldest ticket and no other that runs
\* or awaits a provider.
LEMMA AcknowledgeSettles ==
    ASSUME TrackerIInv, Acknowledge
    PROVE  LET h == tickets[1].task
           IN  /\ tickets # <<>> /\ tickets[1].finalized /\ tickets[1].fence <= completed
               /\ h.slot \in Slots /\ state'[h.slot] \in Settled
               /\ \A s \in Slots \ {h.slot} :
                    state[s] \in {"RUNNING", "AWAITING"} => state'[s] = state[s]
               /\ UNCHANGED <<generation, executor, initialized, closing>>
<1> DEFINE h == tickets[1].task
<1>1. TrackerTyped /\ TicketsLive /\ IInv
  BY DEF TrackerIInv, TrackerInv
<1>2. tickets # <<>> /\ tickets[1].finalized /\ tickets[1].fence <= completed
  BY DEF Acknowledge, Due, Oldest
<1>3. h \in Handles /\ h.slot \in Slots /\ drain \in Results
  BY <1>1, <1>2, RingLength, TicketFields DEF Acknowledge, TrackerTyped
<1>4. /\ state[h.slot] = "AWAITING" /\ Settle(Gpu, h.slot, drain)
      /\ UNCHANGED <<generation, executor, initialized, closing>>
  BY DEF Acknowledge, CompleteProvider, Oldest
<1>5. AfterSettling(h.slot)
  BY <1>1, <1>3, <1>4, SettleExact, TrackerAssumption
<1>6. ASSUME NEW s \in Slots \ {h.slot}, state[s] \in {"RUNNING", "AWAITING"} PROVE state'[s] = state[s]
  BY <1>5, <1>6 DEF AfterSettling, Awaiting
<1> QED BY <1>2, <1>3, <1>4, <1>5, <1>6 DEF AfterSettling

LEMMA AcknowledgeKeeps ==
    ASSUME TrackerIInv, Acknowledge
    PROVE  TrackerInv'
<1> DEFINE h == tickets[1].task
<1>n. PICK n \in Nat : n = Len(tickets)
  BY RingLength DEF TrackerIInv, TrackerInv
<1>1. TrackerTyped /\ TicketsLive /\ FencesInOrder /\ FinalizersExact
  BY DEF TrackerIInv, TrackerInv
<1>2. /\ tickets # <<>> /\ tickets' = Tail(tickets)
      /\ UNCHANGED <<phase, lastTracked, completed, drain, drained, finalized>>
      /\ drain # None
  BY DEF Acknowledge, Due
<1>3. /\ h.slot \in Slots /\ state'[h.slot] \in Settled
      /\ \A s \in Slots \ {h.slot} : state[s] \in {"RUNNING", "AWAITING"} => state'[s] = state[s]
      /\ UNCHANGED <<generation, executor, initialized, closing>>
  BY AcknowledgeSettles
<1>4. 1 \in 1..n /\ n \in 1..n /\ n \in Nat /\ \A i \in 1..(n - 1) : i + 1 \in 1..n
  BY <1>n, <1>1, <1>2, RingLength
<1>5. /\ tickets' \in Seq(Tickets) /\ Len(tickets') = n - 1
      /\ \A i \in 1..(n - 1) : tickets'[i] = tickets[i + 1]
  BY <1>n, <1>1, <1>2, HeadTailProperties DEF TrackerTyped
<1>6. \A i \in 1..(n - 1) : tickets[i + 1].task.slot \in Slots \ {h.slot}
  BY <1>n, <1>1, <1>4, TicketFields DEF TicketsLive
<1>7. TrackerTyped'
  BY <1>n, <1>1, <1>2, <1>5 DEF TrackerTyped
<1>8. TicketsOrdered'
  <2>1. \A i, j \in 1..(n - 1) : i < j => tickets'[i].fence <= tickets'[j].fence
    BY <1>n, <1>1, <1>4, <1>5 DEF FencesInOrder, TicketsOrdered
  <2>2. tickets' # <<>> => lastTracked' = tickets'[Len(tickets')].fence
    <3>1. CASE n = 1
      BY <1>5, <3>1, EmptySeq
    <3>2. CASE n # 1
      <4>1. n - 1 \in 1..(n - 1) /\ (n - 1) + 1 = n
        BY <1>4, <3>2
      <4> QED BY <1>n, <1>1, <1>2, <1>5, <4>1 DEF FencesInOrder, TicketsOrdered, Youngest
    <3> QED BY <3>1, <3>2
  <2> QED BY <1>5, <2>1, <2>2 DEF TicketsOrdered, Youngest
<1>9. NothingOverdue'
  BY <1>2 DEF NothingOverdue
<1>10. ASSUME NEW i \in 1..(n - 1)
       PROVE  LET g == tickets'[i].task
              IN  /\ initialized' /\ g.slot \in Slots /\ generation'[g.slot] = g.generation
                  /\ executor'[g.slot] = Provider
                  /\ state'[g.slot] \in {"RUNNING", "AWAITING"}
                  /\ \A j \in 1..(n - 1) : tickets'[j].task.slot = g.slot => j = i
  <2>1. /\ IsCurrent(tickets[i + 1].task) /\ executor[tickets[i + 1].task.slot] = Provider
        /\ state[tickets[i + 1].task.slot] \in {"RUNNING", "AWAITING"}
        /\ \A j \in 1..(n - 1) : tickets[j + 1].task.slot = tickets[i + 1].task.slot => j = i
    BY <1>n, <1>1, <1>4 DEF TicketsLive
  <2>2. state'[tickets[i + 1].task.slot] = state[tickets[i + 1].task.slot]
    BY <1>3, <1>6, <2>1
  <2> QED BY <1>3, <1>5, <1>6, <2>1, <2>2 DEF IsCurrent
<1>11. TicketsLive'
  <2>1. n - 1 <= Capacity /\ phase = "open" /\ ~closing /\ \A s \in Slots : finalized[s] <= 1
    BY <1>n, <1>1, <1>2, <1>4, TrackerAssumption DEF TicketsLive
  <2> QED BY <1>2, <1>3, <1>5, <1>10, <2>1 DEF TicketsLive, IsCurrent
<1>12. FinalizersExact'
  <2>1. \A i \in 1..(n - 1) : finalized'[tickets'[i].task.slot] = IF tickets'[i].finalized THEN 1 ELSE 0
    BY <1>n, <1>1, <1>2, <1>4, <1>5 DEF FinalizersExact
  <2>2. ASSUME NEW s \in Slots, finalized'[s] # 0 PROVE state'[s] \in Settled \/ Tracked(s)'
    <3>1. CASE s = h.slot
      BY <1>3, <3>1
    <3>2. CASE s # h.slot /\ Tracked(s)
      <4>1. PICK i \in 1..n : tickets[i].task.slot = s
        BY <1>n, <3>2 DEF Tracked
      <4>2. i - 1 \in 1..(n - 1) /\ tickets'[i - 1].task.slot = s
        BY <1>n, <1>4, <1>5, <3>2, <4>1
      <4> QED BY <1>n, <1>5, <4>2 DEF Tracked
    <3>3. CASE s # h.slot /\ ~Tracked(s)
      <4>1. state[s] \in Settled
        BY <1>n, <1>1, <1>2, <2>2, <3>3 DEF FinalizersExact
      <4>2. [\A c \in Slots : Forward(c)]_vars /\ [Next]_vars
        <5>1. [Next]_vars
          BY <1>n, <1>1, TrackerMaps DEF TrackerNext
        <5> QED BY <5>1, StepForward DEF TrackerIInv
      <4>3. state'[s] = state[s] \/ state'[s] = "INVALID"
        BY <4>1, <4>2 DEF Forward, Settled, Live, vars, taskVars
      <4>4. generation'[s] = generation[s] => state'[s] # "INVALID"
        <5>1. SlotKept(s)
          BY <4>2, StepSlotKept DEF TrackerIInv
        <5>2. state[s] # "INVALID" /\ generation[s] \in Nat
          BY <4>1, CapacityAssumption DEF Settled, TrackerIInv, IInv, TypeOK
        <5> QED BY <5>1, <5>2 DEF SlotKept
      <4> QED BY <1>3, <4>1, <4>3, <4>4
    <3> QED BY <3>1, <3>2, <3>3
  <2> QED BY <1>5, <2>1, <2>2 DEF FinalizersExact
<1> QED BY <1>7, <1>8, <1>9, <1>11, <1>12 DEF TrackerInv, FencesInOrder

-----------------------------------------------------------------------------
(* The theorems *)

\* Every step of the tracker, and of the threads around it, keeps the invariant.
LEMMA TrackerStep == TrackerIInv /\ [TrackerNext]_allVars => TrackerIInv'
<1> SUFFICES ASSUME TrackerIInv, [TrackerNext]_allVars PROVE TrackerIInv'
  OBVIOUS
<1>1. IInv' /\ ClosingInv'
  <2>1. [Next]_vars
    BY TrackerMaps DEF TrackerIInv, TrackerInv
  <2> QED BY <2>1, NextIInv, StepClosingInv DEF TrackerIInv
<1>2. CASE SchedulerStep
  BY <1>1, <1>2, SchedulerStepKeeps DEF TrackerIInv
<1>3. CASE \/ Open \/ Close \/ FailQuiesced \/ FinalizerRefuses \/ Refused \/ DrainEnd
           \/ \E fence \in 0..MaxFence, result \in Results : DrainTo(fence, result)
           \/ UNCHANGED allVars
  BY <1>1, <1>3, QuietMethods DEF TrackerIInv
<1>4. ASSUME NEW h \in Handles, NEW fence \in 1..MaxFence, Track(h, fence) PROVE TrackerIInv'
  BY <1>1, <1>4, TrackKeeps DEF TrackerIInv
<1>5. CASE UntrackLast \/ Finalize \/ Acknowledge
  BY <1>1, <1>5, UntrackKeeps, FinalizeKeeps, AcknowledgeKeeps DEF TrackerIInv
<1> QED BY <1>2, <1>3, <1>4, <1>5 DEF TrackerNext

LEMMA TrackerInductive == TrackerSpec => []TrackerIInv
<1>1. TrackerInit => TrackerIInv
  <2> SUFFICES ASSUME TrackerInit PROVE TrackerIInv
    OBVIOUS
  <2>1. Init
    BY DEF TrackerInit
  <2>2. IInv /\ ClosingInv
    BY <2>1, InitIInv DEF Init, ClosingInv
  <2>3. /\ phase = "new" /\ tickets = <<>> /\ lastTracked = 0 /\ completed = 0
        /\ drain = None /\ drained = TRUE /\ finalized = [s \in Slots |-> 0]
    BY DEF TrackerInit
  <2>4. Len(tickets) = 0 /\ tickets \in Seq(Tickets) /\ 0 \in 0..MaxFence
    BY <2>3, EmptySeq, TrackerAssumption
  <2>5. TrackerTyped
    BY <2>3, <2>4 DEF TrackerTyped
  <2>6. TicketsLive /\ FencesInOrder /\ FinalizersExact
    BY <2>3, <2>4, TrackerAssumption DEF TicketsLive, FencesInOrder, TicketsOrdered, NothingOverdue,
       FinalizersExact
  <2> QED BY <2>2, <2>5, <2>6 DEF TrackerIInv, TrackerInv
<1> QED BY <1>1, TrackerStep, PTL DEF TrackerSpec

\* The tracker is a client like any other: what it does to the scheduler are
\* calls the scheduler has for every provider, so all that is proved of Spec holds.
THEOREM TrackerRunsScheduler == TrackerSpec => Spec
<1>1. TrackerInit => Init
  BY DEF TrackerInit
<1>2. TrackerIInv /\ [TrackerNext]_allVars => [Next]_vars
  BY TrackerMaps DEF TrackerIInv, TrackerInv
<1> QED BY <1>1, <1>2, TrackerInductive, PTL DEF TrackerSpec, Spec

\* No ticket dangles: every one names by a current handle a task the provider
\* still owes, and while one is out neither the tracker nor the scheduler closes.
THEOREM NoDanglingTicket == TrackerSpec => []TicketsLive
<1>1. TrackerIInv => TicketsLive
  BY DEF TrackerIInv, TrackerInv
<1> QED BY <1>1, TrackerInductive, PTL

\* The ring stays sorted through rollbacks, and after a drain that finished every
\* ticket it keeps belongs to a later fence.
THEOREM RingInFenceOrder == TrackerSpec => []FencesInOrder
<1>1. TrackerIInv => FencesInOrder
  BY DEF TrackerIInv, TrackerInv
<1> QED BY <1>1, TrackerInductive, PTL

\* A tracked task that was left pending settles by its own acknowledgement only:
\* after its fence has completed and its one finalizer has succeeded.
THEOREM FinalizedFirst == TrackerSpec => FinalizedBeforeDependents
<1>1. TrackerIInv /\ [TrackerNext]_allVars => [\A s \in Slots : SettlesFinalized(s)]_allVars
  <2> SUFFICES ASSUME TrackerIInv, TrackerNext, NEW s \in Slots,
                      Tracked(s), state[s] = "AWAITING", state'[s] # "AWAITING"
               PROVE  Oldest.task.slot = s /\ Oldest.fence <= completed /\ finalized[s] = 1
    BY DEF SettlesFinalized
  <2>1. CASE Acknowledge
    <3>1. /\ tickets # <<>> /\ tickets[1].finalized /\ tickets[1].fence <= completed
          /\ s = tickets[1].task.slot
      BY <2>1, AcknowledgeSettles
    <3>2. finalized[s] = 1
      BY <3>1, RingLength DEF TrackerIInv, TrackerInv, FinalizersExact
    <3> QED BY <3>1, <3>2 DEF Oldest
  <2>2. CASE SchedulerStep
    BY <2>2 DEF SchedulerStep, ProviderKeepsFaith
  <2>3. CASE Open
    BY <2>3 DEF Open, BindProvider, BindAgain, vars, taskVars
  <2>4. CASE \/ Close \/ UntrackLast \/ FailQuiesced \/ FinalizerRefuses \/ Finalize \/ Refused \/ DrainEnd
             \/ \E fence \in 0..MaxFence, result \in Results : DrainTo(fence, result)
    BY <2>4 DEF Close, UntrackLast, FailQuiesced, FinalizerRefuses, Finalize, Refused, DrainEnd, DrainTo,
       Finish, vars, taskVars
  <2>5. CASE \E h \in Handles, fence \in 1..MaxFence : Track(h, fence)
    BY <2>5 DEF Track, vars, taskVars
  <2> QED BY <2>1, <2>2, <2>3, <2>4, <2>5 DEF TrackerNext
<1> QED BY <1>1, TrackerInductive, PTL DEF TrackerSpec, FinalizedBeforeDependents
=============================================================================
