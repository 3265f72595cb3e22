------------------------- MODULE MCTaskSchedulerLive -------------------------
(* Progress of the scheduler under the fairness its threads provide.         *)
EXTENDS TaskScheduler

\* The unfinished prerequisites of s, direct or not, and s itself.
Upstream(s) ==
    {p \in Slots : \A C \in SUBSET Slots :
        (s \in C /\ \A e \in edges : e.child \in C => e.parent \in C) => p \in C}

OwnsAnExecutor(t) == t = Owner \/ \E p \in Providers : bound[p] = t

\* The environment: a thread that pumps an executor does not block in waitTask
\* on a task that waits for such an executor, which would never be pumped.
PoliteNext ==
    /\ Next
    /\ \A t \in Threads :
        waitFor'[t] # waitFor[t] /\ waitFor'[t] # NoHandle /\ OwnsAnExecutor(t)
            => \A p \in Upstream(waitFor'[t].slot) : executor[p] = "CPU"

\* Workers run their loop, callbacks return, woken threads reacquire the mutex,
\* and each executor has an owner that binds it, pumps it and acknowledges.
Fairness ==
    /\ \A w \in Workers : WF_vars(WorkerSleep(w) \/ WorkerTake(w) \/ WorkerExit(w))
    /\ \A t \in Threads \cup Workers :
        WF_vars(\E result \in {"SUCCESS", "FAILURE", "PENDING"} : Return(t, result))
    /\ \A t \in Threads :
        /\ WF_vars(WaitAgain(t) \/ WaitReturn(t))
        /\ WF_vars(Pump(t))
        /\ WF_vars(\E h \in Handles, result \in {"SUCCESS", "FAILURE"} : CompleteProvider(t, h, result))
    /\ WF_vars(\E t \in Threads, p \in Providers : BindProvider(t, p))
    /\ WF_vars(ShutdownEnd)

LiveSpec == Init /\ [][PoliteNext]_vars /\ Fairness

\* Every call of waitTask returns: its task settles, or is released by someone
\* else, and the thread notices.
WaitersReturn == \A t \in Threads : waitFor[t] # NoHandle ~> waitFor[t] = NoHandle

\* Every submitted task settles.
TasksSettle == \A s \in Slots : state[s] \in Live ~> state[s] \in Settled

\* A shutdown that has begun joins every worker.
ShutdownCompletes == closing ~> ~initialized
=============================================================================
