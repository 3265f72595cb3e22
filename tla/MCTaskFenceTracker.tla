------------------------- MODULE MCTaskFenceTracker -------------------------
(* A small tracker on a scheduler without workers, and its progress.         *)
EXTENDS TaskFenceTracker, TLC

Symmetry == Permutations(Slots)

\* The callbacks of the provider thread return, it drains time and again to the
\* fences its native work completes, and a finalizer that is retried for ever
\* succeeds in the end.
TrackerFairness ==
    /\ SF_allVars((\E result \in Results \cup {"PENDING"} : Return(Gpu, result)) /\ SchedulerStep)
    /\ SF_allVars(\E result \in Results : DrainTo(MaxFence, result))
    /\ SF_allVars(Finalize)
    /\ WF_allVars(FinalizerRefuses \/ Finalize \/ Acknowledge \/ Refused \/ DrainEnd)

LiveTrackerSpec == TrackerInit /\ [][TrackerNext]_allVars /\ TrackerFairness

\* Every ticket is acknowledged or withdrawn: a head that is not ready blocks
\* the tickets behind it only for a while.
TicketsSettle == \A s \in Slots : Tracked(s) ~> ~Tracked(s)
=============================================================================
