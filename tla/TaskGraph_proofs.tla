-------------------------- MODULE TaskGraph_proofs --------------------------
(***************************************************************************)
(* Proofs about TaskGraph, for any passes, capacities and access lists.     *)
(*                                                                         *)
(* The first half is about the calls, which look at one task per step       *)
(* while the tasks move.  What makes their reports true is that a task      *)
(* that has ended stays as it ended: Stable is the only thing the calls     *)
(* need to know of the other steps.                                         *)
(*                                                                         *)
(* The second half is about compile.  Its loops are folds and recursive     *)
(* functions over data of any length: each is first shown to be a walk, a   *)
(* function from the number of steps to what was computed by then, and      *)
(* what holds of a walk follows from the least step at which it fails.      *)
(***************************************************************************)
EXTENDS TaskGraph, FiniteSetTheorems, WellFoundedInduction, TLAPS

TaskStates == Settled \cup Pending \cup {Gone, Released}

\* What the state of a task says of how it ended.
TaskInv(i) ==
    /\ task[i] \in TaskStates
    /\ task[i] \in Pending => outcome[i] \notin Settled
    /\ task[i] \in Settled => outcome[i] = task[i]
    /\ task[i] \in {Gone, Released} => outcome[i] \in Settled

TasksInv ==
    /\ passCount \in Nat
    /\ DOMAIN outcome = DOMAIN task
    /\ \E n \in Nat : DOMAIN task = 1..n
    /\ \A i \in DOMAIN task : TaskInv(i)

EndedBefore(at) == \A i \in DOMAIN task : i < at => outcome[i] \in Settled
AllEnded == \A i \in DOMAIN task : outcome[i] \in Settled

\* What a query has seen of the tasks it has passed.
QueryInv ==
    /\ \A i \in DOMAIN task : i < call.at =>
          "PENDING" \in call.seen \/ (outcome[i] \in Settled /\ outcome[i] \in call.seen)
    /\ \A x \in call.seen : x \in Settled => \E i \in DOMAIN task : outcome[i] = x

CallTypeOK ==
    call \in [name : Calls \cup {"none", "release"}, at : Nat \ {0}, seen : SUBSET (Settled \cup {"PENDING"})]

CallInv ==
    /\ CallTypeOK
    /\ call.name # "none" => submitted
    /\ summary # "NONE" => submitted
    /\ call.name = "query" => QueryInv
    /\ call.name = "check" => EndedBefore(call.at)
    /\ call.name = "release" => AllEnded

GraphInv == TasksInv /\ CallInv /\ ReportsAreTrue

\* No task of the batch is added or taken out, and what has ended stays as it ended.
Stable ==
    /\ DOMAIN task' = DOMAIN task
    /\ \A i \in DOMAIN task : outcome[i] \in Settled => outcome'[i] = outcome[i]

-----------------------------------------------------------------------------

LEMMA InitHolds == Init => GraphInv
  <1> SUFFICES ASSUME Init PROVE GraphInv
      OBVIOUS
  <1>1. TasksInv
      <2>1. DOMAIN task = 1..0 /\ DOMAIN outcome = 1..0
          BY DEF Init
      <2> QED
          BY <2>1 DEF Init, TasksInv, TaskInv
  <1>2. CallInv
      BY <1>1 DEF Init, CallInv, CallTypeOK, Idle
  <1>3. ReportsAreTrue
      BY DEF Init, ReportsAreTrue, Settled
  <1> QED
      BY <1>1, <1>2, <1>3 DEF GraphInv

\* A summary that was true stays true while the tasks move on.
LEMMA ReportsStay ==
    ASSUME GraphInv, Stable, UNCHANGED <<submitted, summary>>
    PROVE  ReportsAreTrue'
  BY DEF GraphInv, ReportsAreTrue, Stable, Settled

\* So does what a call has gathered.
LEMMA CallStays ==
    ASSUME GraphInv, Stable, UNCHANGED <<submitted, summary, call>>
    PROVE  CallInv'
  <1>1. CallTypeOK' /\ (call'.name # "none" => submitted') /\ (summary' # "NONE" => submitted')
      BY DEF GraphInv, CallInv, CallTypeOK
  <1>2. call'.name = "query" => QueryInv'
      <2> SUFFICES ASSUME call.name = "query" PROVE QueryInv'
          OBVIOUS
      <2>1. QueryInv
          BY DEF GraphInv, CallInv
      <2>2. \A x \in call.seen : x \in Settled => \E i \in DOMAIN task' : outcome'[i] = x
          BY <2>1 DEF Stable, QueryInv
      <2>3. \A i \in DOMAIN task' : i < call.at =>
                "PENDING" \in call.seen \/ (outcome'[i] \in Settled /\ outcome'[i] \in call.seen)
          BY <2>1 DEF Stable, QueryInv
      <2> QED
          BY <2>2, <2>3 DEF QueryInv
  <1>3. call'.name = "check" => EndedBefore(call.at)'
      BY DEF GraphInv, CallInv, Stable, EndedBefore
  <1>4. call'.name = "release" => AllEnded'
      BY DEF GraphInv, CallInv, Stable, AllEnded
  <1> QED
      BY <1>1, <1>2, <1>3, <1>4 DEF CallInv

\* While nothing is submitted no call is in progress and no summary is out.
LEMMA QuietCalls ==
    ASSUME GraphInv, ~submitted
    PROVE  call.name = "none" /\ summary = "NONE"
  BY DEF GraphInv, CallInv

\* What builds the graph forgets the batch that was released.
LEMMA ChangedHolds ==
    ASSUME GraphInv, ~submitted, Changed, passCount' \in Nat
    PROVE  GraphInv'
  <1>1. TasksInv'
      <2>1. DOMAIN task' = 1..0 /\ DOMAIN outcome' = 1..0
          BY DEF Changed
      <2> QED
          BY <2>1 DEF TasksInv, TaskInv
  <1>2. call.name = "none" /\ summary = "NONE"
      BY QuietCalls
  <1>3. CallInv'
      BY <1>2 DEF GraphInv, CallInv, CallTypeOK, Changed
  <1>4. ReportsAreTrue'
      BY <1>2 DEF Changed, ReportsAreTrue, Settled
  <1> QED
      BY <1>1, <1>3, <1>4 DEF GraphInv

LEMMA BuildStepHolds ==
    ASSUME GraphInv,
           (\E list \in AccessLists : AddPass(list))
             \/ (\E before, after \in Passes : AddDependency(before, after)) \/ Reset
    PROVE  GraphInv'
  <1>1. ~submitted /\ Changed
      BY DEF AddPass, AddDependency, Reset
  <1>2. passCount' = passCount + 1 \/ passCount' = passCount \/ passCount' = 0
      <2>1. ASSUME NEW list \in AccessLists, AddPass(list) PROVE passCount' = passCount + 1
          BY <2>1 DEF AddPass
      <2>2. ASSUME NEW before \in Passes, NEW after \in Passes, AddDependency(before, after)
            PROVE  passCount' = passCount
          BY <2>2 DEF AddDependency
      <2>3. Reset => passCount' = 0
          BY DEF Reset
      <2> QED
          BY <2>1, <2>2, <2>3
  <1>3. passCount' \in Nat
      BY <1>2 DEF GraphInv, TasksInv
  <1> QED
      BY <1>1, <1>3, ChangedHolds

\* A step that leaves the tasks, their outcomes and the passes alone keeps what holds of the tasks.
LEMMA TasksStay ==
    ASSUME GraphInv, UNCHANGED <<passCount, task, outcome>>
    PROVE  TasksInv' /\ Stable
  BY DEF GraphInv, TasksInv, TaskInv, Stable

LEMMA SubmitHolds ==
    ASSUME GraphInv, Submit
    PROVE  GraphInv'
  <1>1. DOMAIN task' = Passes /\ DOMAIN outcome' = Passes /\ passCount' = passCount
      BY DEF Submit, buildVars
  <1>2. passCount \in Nat /\ Passes = 1..passCount
      BY DEF GraphInv, TasksInv, Passes
  <1>3. \A i \in DOMAIN task' : task'[i] \in {"QUEUED", "BLOCKED"} /\ outcome'[i] = "NONE"
      BY DEF Submit
  <1>4. TasksInv'
      <2>1. \A i \in DOMAIN task' : TaskInv(i)'
          BY <1>3 DEF TaskInv, TaskStates, Settled, Pending, Gone, Released
      <2> QED
          BY <1>1, <1>2, <2>1 DEF TasksInv
  <1>5. call.name = "none" /\ summary = "NONE" /\ submitted' /\ UNCHANGED <<call, summary>>
      BY QuietCalls DEF Submit
  <1>6. CallInv'
      BY <1>5 DEF GraphInv, CallInv, CallTypeOK
  <1>7. ReportsAreTrue'
      BY <1>5 DEF ReportsAreTrue, Settled
  <1> QED
      BY <1>4, <1>6, <1>7 DEF GraphInv

-----------------------------------------------------------------------------
(* Steps of the tasks *)

\* Only tasks that had not ended change when one ends.
LEMMA EndsHolds ==
    ASSUME GraphInv, NEW i \in DOMAIN task, NEW result \in Settled,
           task[i] \in Pending, Ends(i, result), passCount' = passCount
    PROVE  TasksInv' /\ Stable
  <1> DEFINE dropped == IF result = "COMPLETED" THEN {} ELSE {j \in Behind({i}) : task[j] = "BLOCKED"}
  <1>1. DOMAIN task' = DOMAIN task /\ DOMAIN outcome' = DOMAIN task
      BY DEF Ends
  <1>2. ASSUME NEW j \in DOMAIN task
        PROVE  /\ j = i => task'[j] = result /\ outcome'[j] = result
               /\ j # i /\ j \in dropped => task'[j] = "CANCELLED" /\ outcome'[j] = "CANCELLED"
               /\ j # i /\ j \notin dropped => (task'[j] = task[j] \/ (task[j] = "BLOCKED" /\ task'[j] = "QUEUED"))
                                                 /\ outcome'[j] = outcome[j]
      <2> DEFINE completed == {k \in DOMAIN task : outcome[k] = "COMPLETED"} \cup {i}
                 ready == {k \in DOMAIN task : task[k] = "BLOCKED" /\ Needs(batch, k) \subseteq completed} \ dropped
      <2>1. task' = [k \in DOMAIN task |-> IF k = i THEN result
                         ELSE IF k \in dropped THEN "CANCELLED"
                         ELSE IF result = "COMPLETED" /\ k \in ready THEN "QUEUED" ELSE task[k]]
          BY Zenon DEF Ends
      <2>2. outcome' = [k \in DOMAIN task |-> IF k = i THEN result
                         ELSE IF k \in dropped THEN "CANCELLED" ELSE outcome[k]]
          BY Zenon DEF Ends
      <2>3. j \in ready => task[j] = "BLOCKED"
          OBVIOUS
      <2> HIDE DEF dropped, ready
      <2> QED
          BY <2>1, <2>2, <2>3
  <1>3. ASSUME NEW j \in DOMAIN task
        PROVE  TaskInv(j)' /\ (outcome[j] \in Settled => outcome'[j] = outcome[j])
      <2>1. TaskInv(j) /\ TaskInv(i)
          BY DEF GraphInv, TasksInv
      <2>2. j \in dropped => task[j] = "BLOCKED"
          OBVIOUS
      <2> HIDE DEF dropped
      <2>3. CASE j = i
          BY <1>2, <2>1, <2>3 DEF TaskInv, TaskStates, Settled, Pending, Gone, Released
      <2>4. CASE j # i /\ j \in dropped
          BY <1>2, <2>1, <2>2, <2>4 DEF TaskInv, TaskStates, Settled, Pending, Gone, Released
      <2>5. CASE j # i /\ j \notin dropped
          BY <1>2, <2>1, <2>5 DEF TaskInv, TaskStates, Settled, Pending, Gone, Released
      <2> QED
          BY <2>3, <2>4, <2>5
  <1>4. passCount' \in Nat /\ \E n \in Nat : DOMAIN task' = 1..n
      BY <1>1 DEF GraphInv, TasksInv
  <1> QED
      BY <1>1, <1>3, <1>4 DEF TasksInv, Stable

\* One task changes and keeps how it ended.
LEMMA OneTaskHolds ==
    ASSUME GraphInv, NEW i \in DOMAIN task, NEW to \in TaskStates,
           task' = [task EXCEPT ![i] = to], UNCHANGED <<passCount, outcome>>,
           \/ task[i] \in Pending /\ to \in Pending
           \/ task[i] \in Settled \cup {Released} /\ to \in {Gone, Released}
    PROVE  TasksInv' /\ Stable
  <1>1. DOMAIN task' = DOMAIN task
      OBVIOUS
  <1>2. ASSUME NEW j \in DOMAIN task PROVE TaskInv(j)'
      <2>1. TaskInv(j)
          BY DEF GraphInv, TasksInv
      <2>2. CASE j = i
          BY <2>1, <2>2 DEF TaskInv, TaskStates, Settled, Pending, Gone, Released
      <2>3. CASE j # i
          BY <2>1, <2>3 DEF TaskInv
      <2> QED
          BY <2>2, <2>3
  <1> QED
      BY <1>1, <1>2 DEF GraphInv, TasksInv, Stable

LEMMA TaskStepHolds ==
    ASSUME GraphInv,
           \/ \E i \in DOMAIN task : TaskStarts(i) \/ TaskTakenAway(i)
           \/ \E i \in DOMAIN task, result \in {"COMPLETED", "FAILED"} : TaskEnds(i, result)
    PROVE  GraphInv'
  <1>1. UNCHANGED <<passCount, submitted, summary, call>>
      BY DEF TaskStarts, TaskTakenAway, TaskEnds, buildVars
  <1>2. TasksInv' /\ Stable
      <2>1. ASSUME NEW i \in DOMAIN task, TaskStarts(i) PROVE TasksInv' /\ Stable
          BY <1>1, <2>1, OneTaskHolds DEF TaskStarts, Pending, TaskStates
      <2>2. ASSUME NEW i \in DOMAIN task, TaskTakenAway(i) PROVE TasksInv' /\ Stable
          BY <1>1, <2>2, OneTaskHolds DEF TaskTakenAway, TaskStates
      <2>3. ASSUME NEW i \in DOMAIN task, NEW result \in {"COMPLETED", "FAILED"}, TaskEnds(i, result)
            PROVE  TasksInv' /\ Stable
          <3> DEFINE ended == IF i \in stopping THEN "CANCELLED" ELSE result
          <3>1. ended \in Settled /\ task[i] \in Pending /\ Ends(i, ended)
              BY <2>3 DEF TaskEnds, Settled, Pending
          <3> HIDE DEF ended
          <3> QED
              BY <1>1, <3>1, EndsHolds
      <2> QED
          BY <2>1, <2>2, <2>3
  <1> QED
      BY <1>1, <1>2, CallStays, ReportsStay DEF GraphInv

-----------------------------------------------------------------------------
(* Steps of the calls *)

\* A call that looked at every task has passed all of them.
LEMMA PassedAll ==
    ASSUME GraphInv, call.at \notin DOMAIN task
    PROVE  \A i \in DOMAIN task : i < call.at
  <1> PICK n \in Nat : DOMAIN task = 1..n
      BY DEF GraphInv, TasksInv
  <1> call.at \in Nat \ {0}
      BY DEF GraphInv, CallInv, CallTypeOK
  <1> QED
      OBVIOUS

\* When it looks at one more, it has passed that one too.
LEMMA PassesOne ==
    ASSUME GraphInv, NEW i \in DOMAIN task, i < call.at + 1
    PROVE  i = call.at \/ i < call.at
  <1> PICK n \in Nat : DOMAIN task = 1..n
      BY DEF GraphInv, TasksInv
  <1> call.at \in Nat \ {0}
      BY DEF GraphInv, CallInv, CallTypeOK
  <1> QED
      OBVIOUS

LEMMA GiveUpHolds ==
    ASSUME GraphInv, GiveUp
    PROVE  GraphInv'
  <1>1. TasksInv' /\ Stable
      BY TasksStay DEF GiveUp, buildVars, taskVars
  <1>2. UNCHANGED <<submitted, summary>> /\ call' = Idle
      BY DEF GiveUp
  <1>3. CallInv'
      BY <1>2 DEF GraphInv, CallInv, CallTypeOK, Idle
  <1> QED
      BY <1>1, <1>2, <1>3, ReportsStay DEF GraphInv

LEMMA BeginHolds ==
    ASSUME GraphInv, NEW name \in Calls, Begin(name)
    PROVE  GraphInv'
  <1>1. TasksInv' /\ Stable
      BY TasksStay DEF Begin, buildVars, taskVars
  <1>2. UNCHANGED <<submitted, summary>> /\ submitted /\ call' = [name |-> name, at |-> 1, seen |-> {}]
      BY DEF Begin, Idle
  <1>3. \A i \in DOMAIN task' : ~(i < 1)
      <2> PICK n \in Nat : DOMAIN task' = 1..n
          BY <1>1 DEF TasksInv
      <2> QED
          OBVIOUS
  <1>4. CallInv'
      <2>1. CallTypeOK' /\ name # "release" /\ call'.name = name /\ call'.at = 1 /\ call'.seen = {}
          BY <1>2 DEF CallTypeOK, Calls
      <2>2. QueryInv' /\ EndedBefore(call.at)'
          BY <2>1, <1>3 DEF QueryInv, EndedBefore
      <2> QED
          BY <1>2, <2>1, <2>2 DEF GraphInv, CallInv
  <1> QED
      BY <1>1, <1>2, <1>4, ReportsStay DEF GraphInv

LEMMA QueryLooksHolds ==
    ASSUME GraphInv, QueryLooks
    PROVE  GraphInv'
  <1> DEFINE look == IF task[call.at] \in Settled THEN task[call.at] ELSE "PENDING"
  <1>1. TasksInv' /\ Stable /\ UNCHANGED <<task, outcome, submitted, summary>>
      BY TasksStay DEF QueryLooks, buildVars, taskVars
  <1>2. CallTypeOK /\ call.name = "query" /\ call.at \in DOMAIN task /\ QueryInv /\ submitted
      BY DEF QueryLooks, At, GraphInv, CallInv
  <1>3. call'.name = "query" /\ call'.at = call.at + 1 /\ call'.seen = call.seen \cup {look} /\ CallTypeOK'
      <2>1. call' = [call EXCEPT !.at = @ + 1, !.seen = @ \cup {look}]
          BY DEF QueryLooks
      <2>2. look \in Settled \cup {"PENDING"}
          OBVIOUS
      <2> HIDE DEF look
      <2>3. call' = [name |-> call.name, at |-> call.at + 1, seen |-> call.seen \cup {look}]
          BY <1>2, <2>1 DEF CallTypeOK
      <2> QED
          BY <1>2, <2>2, <2>3 DEF CallTypeOK
  <1>4. look \in Settled => outcome[call.at] = look
      BY <1>2 DEF GraphInv, TasksInv, TaskInv, Settled
  <1>5. look = "PENDING" \/ look \in Settled
      OBVIOUS
  <1> HIDE DEF look
  <1>6. QueryInv'
      <2>1. ASSUME NEW i \in DOMAIN task, i < call'.at
            PROVE  "PENDING" \in call'.seen \/ (outcome[i] \in Settled /\ outcome[i] \in call'.seen)
          BY <1>2, <1>3, <1>4, <1>5, <2>1, PassesOne DEF QueryInv
      <2>2. ASSUME NEW x \in call'.seen, x \in Settled
            PROVE  \E i \in DOMAIN task : outcome[i] = x
          BY <1>2, <1>3, <1>4, <2>2 DEF QueryInv
      <2> QED
          BY <1>1, <2>1, <2>2 DEF QueryInv
  <1>7. CallInv'
      BY <1>1, <1>2, <1>3, <1>6 DEF CallInv
  <1> QED
      BY <1>1, <1>7, ReportsStay DEF GraphInv

\* The counts of a finished walk decide the state that is reported.
LEMMA QueryReturnsHolds ==
    ASSUME GraphInv, QueryReturns
    PROVE  GraphInv'
  <1>1. TasksInv' /\ UNCHANGED <<task, outcome, submitted>>
      BY TasksStay DEF QueryReturns, buildVars, taskVars
  <1>2. call.name = "query" /\ QueryInv /\ submitted /\ call' = Idle /\ summary' = Evaluate(call.seen)
      BY DEF QueryReturns, PastLast, GraphInv, CallInv
  <1>3. \A i \in DOMAIN task : "PENDING" \in call.seen \/ (outcome[i] \in Settled /\ outcome[i] \in call.seen)
      BY <1>2, PassedAll DEF QueryReturns, PastLast, QueryInv
  <1>4. summary' = "PENDING" \/ "PENDING" \notin call.seen
      BY <1>2 DEF Evaluate
  <1>5. summary' = "FAILED" => "FAILED" \in call.seen
      BY <1>2 DEF Evaluate
  <1>6. summary' = "CANCELLED" => "CANCELLED" \in call.seen /\ "FAILED" \notin call.seen
      BY <1>2 DEF Evaluate
  <1>7. summary' = "COMPLETED" => "CANCELLED" \notin call.seen /\ "FAILED" \notin call.seen
      BY <1>2 DEF Evaluate
  <1>8. ReportsAreTrue'
      <2>1. summary' \in Settled => \A i \in DOMAIN task : outcome[i] \in Settled /\ outcome[i] \in call.seen
          BY <1>3, <1>4 DEF Settled
      <2>2. summary' = "COMPLETED" => \A i \in DOMAIN task : outcome[i] = "COMPLETED"
          BY <2>1, <1>7 DEF Settled
      <2>3. summary' = "FAILED" => \E i \in DOMAIN task : outcome[i] = "FAILED"
          BY <1>2, <1>5 DEF QueryInv, Settled
      <2>4. summary' = "CANCELLED" => \E i \in DOMAIN task : outcome[i] = "CANCELLED"
          BY <1>2, <1>6 DEF QueryInv, Settled
      <2>5. summary' = "CANCELLED" => \A i \in DOMAIN task : outcome[i] # "FAILED"
          BY <2>1, <1>6 DEF Settled
      <2> QED
          BY <1>1, <1>2, <2>1, <2>2, <2>3, <2>4, <2>5 DEF ReportsAreTrue
  <1>9. CallInv'
      BY <1>1, <1>2 DEF GraphInv, CallInv, CallTypeOK, Idle
  <1> QED
      BY <1>1, <1>8, <1>9 DEF GraphInv

\* Moving to the next task is all that happens to the record of a call.
LEMMA AdvanceTyped ==
    ASSUME GraphInv, Advance
    PROVE  call'.name = call.name /\ call'.at = call.at + 1 /\ CallTypeOK'
  BY DEF Advance, GraphInv, CallInv, CallTypeOK

LEMMA CancelHolds ==
    ASSUME GraphInv, CancelPasses \/ CancelDrops \/ CancelAsks
    PROVE  GraphInv'
  <1>1. UNCHANGED <<passCount, submitted, summary>> /\ Advance /\ call.name = "cancel" /\ call.at \in DOMAIN task
      BY DEF CancelPasses, CancelDrops, CancelAsks, buildVars, At
  <1>2. TasksInv' /\ Stable
      <2>1. CASE CancelPasses
          BY <2>1, TasksStay DEF CancelPasses, buildVars, taskVars
      <2>2. CASE CancelDrops
          BY <1>1, <2>2, EndsHolds DEF CancelDrops, Settled, Pending
      <2>3. CASE CancelAsks
          BY <2>3, TasksStay DEF CancelAsks, buildVars
      <2> QED
          BY <2>1, <2>2, <2>3
  <1>3. call'.name = "cancel" /\ CallTypeOK' /\ submitted
      BY <1>1, AdvanceTyped DEF GraphInv, CallInv
  <1>4. CallInv'
      BY <1>1, <1>3 DEF GraphInv, CallInv
  <1> QED
      BY <1>1, <1>2, <1>4, ReportsStay DEF GraphInv

LEMMA CheckHolds ==
    ASSUME GraphInv, CheckLooks \/ CheckEnds
    PROVE  GraphInv'
  <1>1. TasksInv' /\ Stable /\ UNCHANGED <<task, outcome, submitted, summary>>
      BY TasksStay DEF CheckLooks, CheckEnds, buildVars, taskVars
  <1>2. call.name = "check" /\ EndedBefore(call.at) /\ submitted
      BY DEF CheckLooks, CheckEnds, At, PastLast, GraphInv, CallInv
  <1>3. CASE CheckLooks
      <2>1. call'.name = "check" /\ call'.at = call.at + 1 /\ CallTypeOK'
          BY <1>2, <1>3, AdvanceTyped DEF CheckLooks
      <2>2. outcome[call.at] \in Settled
          BY <1>3 DEF CheckLooks, At, Checked, GraphInv, TasksInv, TaskInv, Settled, Released, Gone
      <2>3. EndedBefore(call.at)'
          BY <1>1, <1>2, <2>1, <2>2, PassesOne DEF EndedBefore
      <2>4. CallInv'
          BY <1>1, <1>2, <2>1, <2>3 DEF CallInv
      <2> QED
          BY <1>1, <2>4, ReportsStay DEF GraphInv
  <1>4. CASE CheckEnds
      <2>1. call' = [name |-> "release", at |-> 1, seen |-> {}]
          BY <1>4 DEF CheckEnds, Idle
      <2>2. AllEnded
          BY <1>2, <1>4, PassedAll DEF CheckEnds, PastLast, EndedBefore, AllEnded
      <2>3. CallTypeOK' /\ call'.name = "release" /\ AllEnded'
          BY <1>1, <2>1, <2>2 DEF CallTypeOK, AllEnded
      <2>4. CallInv'
          BY <1>1, <1>2, <2>3 DEF CallInv
      <2> QED
          BY <1>1, <2>4, ReportsStay DEF GraphInv
  <1> QED
      BY <1>3, <1>4

LEMMA ReleaseHolds ==
    ASSUME GraphInv, Release \/ ReleaseEnds
    PROVE  GraphInv'
  <1>1. call.name = "release" /\ AllEnded /\ submitted
      BY DEF Release, ReleaseEnds, At, PastLast, GraphInv, CallInv
  <1>2. CASE Release
      <2>1. TasksInv' /\ Stable
          BY <1>2, OneTaskHolds DEF Release, At, buildVars, TaskStates
      <2>2. call'.name = "release" /\ CallTypeOK' /\ UNCHANGED <<submitted, summary>>
          BY <1>1, <1>2, AdvanceTyped DEF Release
      <2>3. AllEnded'
          BY <1>1, <2>1 DEF AllEnded, Stable
      <2>4. CallInv'
          BY <1>1, <2>2, <2>3 DEF CallInv
      <2> QED
          BY <2>1, <2>2, <2>4, ReportsStay DEF GraphInv
  <1>3. CASE ReleaseEnds
      <2>1. TasksInv' /\ UNCHANGED <<task, outcome>>
          BY <1>3, TasksStay DEF ReleaseEnds, buildVars, taskVars
      <2>2. ~submitted' /\ call' = Idle /\ summary' = "NONE"
          BY <1>3 DEF ReleaseEnds
      <2>3. CallInv'
          BY <2>2 DEF CallInv, CallTypeOK, Idle
      <2>4. ReportsAreTrue'
          BY <1>1, <2>1, <2>2 DEF ReportsAreTrue, AllEnded, Settled
      <2> QED
          BY <2>1, <2>3, <2>4 DEF GraphInv
  <1> QED
      BY <1>2, <1>3

LEMMA CallStepHolds ==
    ASSUME GraphInv, CallStep
    PROVE  GraphInv'
  BY QueryLooksHolds, QueryReturnsHolds, CancelHolds, CheckHolds, ReleaseHolds, GiveUpHolds
     DEF CallStep, CallFails

LEMMA NextHolds ==
    ASSUME GraphInv, [Next]_vars
    PROVE  GraphInv'
  <1>1. CASE (\E list \in AccessLists : AddPass(list))
               \/ (\E before, after \in Passes : AddDependency(before, after)) \/ Reset
      BY <1>1, BuildStepHolds
  <1>2. CASE Compile \/ UNCHANGED vars
      <2>1. UNCHANGED <<passCount, task, outcome, submitted, summary, call>>
          BY <1>2 DEF Compile, vars, buildVars, taskVars
      <2> QED
          BY <2>1, TasksStay, CallStays, ReportsStay DEF GraphInv
  <1>3. CASE Submit
      BY <1>3, SubmitHolds
  <1>4. CASE \/ \E i \in DOMAIN task : TaskStarts(i) \/ TaskTakenAway(i)
             \/ \E i \in DOMAIN task, result \in {"COMPLETED", "FAILED"} : TaskEnds(i, result)
      BY <1>4, TaskStepHolds
  <1>5. CASE \E name \in Calls : Begin(name)
      BY <1>5, BeginHolds
  <1>6. CASE CallStep
      BY <1>6, CallStepHolds
  <1> QED
      BY <1>1, <1>2, <1>3, <1>4, <1>5, <1>6 DEF Next

\* Every report on a batch is true however its tasks move while the report is put together, and a
\* batch is given back only when all of its tasks have ended, for any number of passes
\* (queryExecution, cancelExecution, releaseSubmitted).
THEOREM ReportsTrue == Spec => []ReportsAreTrue
  <1>1. GraphInv /\ [Next]_vars => GraphInv'
      BY NextHolds
  <1>2. GraphInv => ReportsAreTrue
      BY DEF GraphInv
  <1> QED
      BY InitHolds, <1>1, <1>2, PTL DEF Spec
-----------------------------------------------------------------------------
(* Induction, and what the folds and recursions of TaskGraph go through      *)

\* A set of naturals that is not empty has a least element.
LEMMA Least ==
    ASSUME NEW P \in SUBSET Nat, P # {}
    PROVE  \E n \in P : \A m \in P : n <= m
  <1>1. PICK n \in P : \A m \in P : <<m, n>> \notin OpToRel(<, Nat)
      BY NatLessThanWellFounded, WFMin
  <1>2. \A m \in P : ~(m < n)
      BY <1>1 DEF OpToRel
  <1> QED
      BY <1>2

\* Induction over the members of a set.
LEMMA Upwards ==
    ASSUME NEW T, 0 \in T, \A n \in Nat : n \in T => n + 1 \in T
    PROVE  Nat \subseteq T
  <1> SUFFICES ASSUME Nat \ T # {} PROVE FALSE
      OBVIOUS
  <1>1. PICK n \in Nat \ T : \A m \in Nat \ T : n <= m
      BY Least
  <1>2. n # 0
      BY <1>1
  <1>3. n - 1 \in Nat /\ n - 1 < n
      BY <1>2
  <1>4. n - 1 \in T
      BY <1>1, <1>3
  <1>5. (n - 1) + 1 \in T
      BY <1>3, <1>4
  <1> QED
      BY <1>5

\* The greatest element of a finite set, which the fold takes off.
LEMMA GreatestUpTo ==
    ASSUME NEW m \in Nat, NEW S \in SUBSET (1..(m + 1)), S # {}
    PROVE  /\ Max(S) \in 1..(m + 1) /\ S \ {Max(S)} \in SUBSET (1..m)
           /\ m + 1 \in S => Max(S) = m + 1
  <1> DEFINE Gaps == {n \in Nat : n <= m + 1 /\ (m + 1) - n \in S}
             k == Max(S)
  <1>1. PICK d \in Gaps : \A e \in Gaps : d <= e
      <2>1. PICK x \in S : TRUE
          OBVIOUS
      <2>2. x \in 1..(m + 1) /\ (m + 1) - ((m + 1) - x) = x
          OBVIOUS
      <2>3. (m + 1) - x \in Gaps
          BY <2>2
      <2> HIDE DEF Gaps
      <2>4. Gaps \in SUBSET Nat
          BY DEF Gaps
      <2> QED
          BY <2>3, <2>4, Least
  <1>2. d \in Nat /\ (m + 1) - d \in S
      OBVIOUS
  <1>3. ASSUME NEW y \in S PROVE y <= (m + 1) - d
      <2>1. y \in 1..(m + 1) /\ (m + 1) - ((m + 1) - y) = y
          OBVIOUS
      <2>2. (m + 1) - y \in Gaps
          BY <2>1
      <2> HIDE DEF Gaps
      <2>3. d <= (m + 1) - y
          BY <1>1, <2>2
      <2> QED
          BY <1>2, <2>1, <2>3
  <1>4. k \in S /\ \A y \in S : y <= k
      BY <1>2, <1>3 DEF Max
  <1> HIDE DEF k
  <1>5. k \in 1..(m + 1) /\ S \ {k} \in SUBSET (1..m) /\ (m + 1 \in S => k = m + 1)
      BY <1>4
  <1> QED
      BY <1>5 DEF k

\* A function that takes its value at a set from the set without its greatest element.
FoldsOver(h, L, b, G) ==
    \A S \in SUBSET (1..L) : h[S] = IF S = {} THEN b ELSE G[<<h[S \ {Max(S)}], Max(S)>>]

LEMMA FoldExists ==
    ASSUME NEW X, NEW b \in X, NEW L \in Nat, NEW G \in [X \X (1..L) -> X]
    PROVE  \E h \in [SUBSET (1..L) -> X] : FoldsOver(h, L, b, G)
  <1> DEFINE Holds(m) == m <= L => \E h \in [SUBSET (1..m) -> X] : FoldsOver(h, m, b, G)
             T == {m \in Nat : Holds(m)}
  <1>1. Holds(0)
      <2> DEFINE h == [S \in SUBSET (1..0) |-> b]
      <2>1. \A S \in SUBSET (1..0) : S = {}
          OBVIOUS
      <2>2. h \in [SUBSET (1..0) -> X] /\ FoldsOver(h, 0, b, G)
          BY <2>1 DEF FoldsOver
      <2> HIDE DEF h
      <2> QED
          BY <2>2
  <1>2. ASSUME NEW m \in Nat, Holds(m) PROVE Holds(m + 1)
      <2> SUFFICES ASSUME m + 1 <= L
                   PROVE  \E h \in [SUBSET (1..(m + 1)) -> X] : FoldsOver(h, m + 1, b, G)
          OBVIOUS
      <2>1. PICK h \in [SUBSET (1..m) -> X] : FoldsOver(h, m, b, G)
          <3>1. m <= L
              OBVIOUS
          <3> QED
              BY <1>2, <3>1, Zenon
      <2> DEFINE V(S) == IF m + 1 \in S THEN G[<<h[S \ {m + 1}], m + 1>>] ELSE h[S]
                 g == [S \in SUBSET (1..(m + 1)) |-> V(S)]
      <2>2. ASSUME NEW S \in SUBSET (1..(m + 1)), m + 1 \notin S PROVE S \in SUBSET (1..m)
          BY <2>2
      <2>3. ASSUME NEW S \in SUBSET (1..(m + 1)) PROVE V(S) \in X
          <3>1. CASE m + 1 \in S
              <4>1. S \ {m + 1} \in SUBSET (1..m)
                  OBVIOUS
              <4>2. h[S \ {m + 1}] \in X /\ m + 1 \in 1..L
                  BY <4>1
              <4> QED
                  BY <3>1, <4>2
          <3> QED
              BY <2>2, <3>1
      <2>4. g \in [SUBSET (1..(m + 1)) -> X]
          BY <2>3
      <2>5. ASSUME NEW S \in SUBSET (1..(m + 1))
            PROVE  V(S) = IF S = {} THEN b ELSE G[<<g[S \ {Max(S)}], Max(S)>>]
          <3>1. CASE S = {}
              <4>1. V(S) = h[S] /\ S \in SUBSET (1..m)
                  BY <3>1
              <4> QED
                  BY <2>1, <3>1, <4>1 DEF FoldsOver
          <3>2. CASE S # {}
              <4> DEFINE k == Max(S)
                         R == S \ {k}
              <4>1. k \in 1..(m + 1) /\ R \in SUBSET (1..m) /\ (m + 1 \in S => k = m + 1)
                  BY <3>2, GreatestUpTo
              <4>2. m + 1 \notin R /\ R \in SUBSET (1..(m + 1))
                  BY <4>1
              <4>3. g[R] = h[R]
                  BY <4>2
              <4>4. CASE m + 1 \in S
                  BY <3>2, <4>1, <4>3, <4>4
              <4>5. CASE m + 1 \notin S
                  <5>1. S \in SUBSET (1..m)
                      BY <4>5
                  <5>2. h[S] = G[<<h[R], k>>]
                      BY <2>1, <3>2, <5>1 DEF FoldsOver
                  <5> QED
                      BY <3>2, <4>3, <4>5, <5>2
              <4> QED
                  BY <4>4, <4>5
          <3> QED
              BY <3>1, <3>2
      <2> HIDE DEF V
      <2>6. FoldsOver(g, m + 1, b, G)
          BY <2>5 DEF FoldsOver
      <2> HIDE DEF g
      <2> QED
          BY <2>4, <2>6
  <1>3. Nat \subseteq T
      <2> HIDE DEF Holds
      <2>1. 0 \in T /\ \A n \in Nat : n \in T => n + 1 \in T
          BY <1>1, <1>2
      <2> HIDE DEF T
      <2> QED
          BY <2>1, Upwards
  <1>4. Holds(L)
      BY <1>3
  <1>5. L <= L
      OBVIOUS
  <1> QED
      BY <1>4, <1>5, Zenon

LEMMA InRange ==
    ASSUME NEW L \in Nat, NEW S \in SUBSET (1..L), S # {}
    PROVE  Max(S) \in 1..L /\ S \ {Max(S)} \in SUBSET (1..L)
  <1>1. L - 1 \in Nat /\ L = (L - 1) + 1
      <2>1. PICK x \in S : x \in 1..L
          OBVIOUS
      <2> QED
          BY <2>1
  <1>2. Max(S) \in 1..L
      BY <1>1, GreatestUpTo
  <1> QED
      BY <1>2

\* The first elements of an interval.
LEMMA Prefix ==
    ASSUME NEW L \in Nat, NEW m \in Nat, m + 1 <= L
    PROVE  /\ 1..(m + 1) \in SUBSET (1..L) /\ 1..(m + 1) # {} /\ m \in 0..L /\ m + 1 \in 0..L
           /\ Max(1..(m + 1)) = m + 1 /\ (1..(m + 1)) \ {m + 1} = 1..m
  <1>1. 1..(m + 1) \in SUBSET (1..L) /\ m \in 0..L /\ m + 1 \in 0..L
      OBVIOUS
  <1>2. m + 1 \in 1..(m + 1)
      OBVIOUS
  <1>3. Max(1..(m + 1)) = m + 1
      BY <1>2, GreatestUpTo
  <1>4. (1..(m + 1)) \ {m + 1} = 1..m
      OBVIOUS
  <1> QED
      BY <1>1, <1>2, <1>3, <1>4

AppendsEdges(w, c, links, L) ==
    /\ w[0] = c
    /\ \A m \in Nat : m + 1 <= L => w[m + 1] = AppendEdge(w[m], links[m + 1])
    /\ AppendEdges(c, links) = w[L]

\* The edges are appended one after another.
LEMMA AppendEdgesWalks ==
    ASSUME NEW X, NEW c \in X, NEW links, NEW L \in Nat, DOMAIN links = 1..L,
           \A x \in X, i \in 1..L : AppendEdge(x, links[i]) \in X
    PROVE  \E w : AppendsEdges(w, c, links, L)
  <1> DEFINE Body(h) == [S \in SUBSET (1..L) |-> IF S = {} THEN c
                                                 ELSE AppendEdge(h[S \ {Max(S)}], links[Max(S)])]
             h == CHOOSE h : h = Body(h)
  <1>1. h = Body(h)
      <2> DEFINE G == [p \in X \X (1..L) |-> AppendEdge(p[1], links[p[2]])]
      <2>1. G \in [X \X (1..L) -> X]
          OBVIOUS
      <2>2. \A x \in X, i \in 1..L : G[<<x, i>>] = AppendEdge(x, links[i])
          OBVIOUS
      <2> HIDE DEF G
      <2>3. PICK g \in [SUBSET (1..L) -> X] : FoldsOver(g, L, c, G)
          BY <2>1, FoldExists
      <2>4. ASSUME NEW S \in SUBSET (1..L)
            PROVE  g[S] = IF S = {} THEN c ELSE AppendEdge(g[S \ {Max(S)}], links[Max(S)])
          <3>1. CASE S = {}
              BY <2>3, <3>1 DEF FoldsOver
          <3>2. CASE S # {}
              <4> DEFINE k == Max(S)
                         R == S \ {k}
              <4>1. k \in 1..L /\ R \in SUBSET (1..L)
                  BY <3>2, InRange
              <4>2. g[S] = G[<<g[R], k>>]
                  BY <2>3, <3>2 DEF FoldsOver
              <4>3. g[R] \in X
                  BY <4>1
              <4> HIDE DEF k, R
              <4>4. g[S] = AppendEdge(g[R], links[k])
                  BY <2>2, <4>1, <4>2, <4>3
              <4> QED
                  BY <3>2, <4>4 DEF k, R
          <3> QED
              BY <3>1, <3>2
      <2>5. g = Body(g)
          BY <2>4
      <2> QED
          BY <2>5
  <1>2. AppendEdges(c, links) = h[1..L]
      BY DEF AppendEdges, FoldLeft, MapThenFoldSet
  <1> HIDE DEF h
  <1>3. ASSUME NEW S \in SUBSET (1..L)
        PROVE  h[S] = IF S = {} THEN c ELSE AppendEdge(h[S \ {Max(S)}], links[Max(S)])
      <2> DEFINE V(S1) == IF S1 = {} THEN c ELSE AppendEdge(h[S1 \ {Max(S1)}], links[Max(S1)])
      <2>1. h = [S1 \in SUBSET (1..L) |-> V(S1)]
          BY <1>1
      <2> HIDE DEF V
      <2>2. h[S] = V(S)
          BY <2>1
      <2> QED
          BY <2>2 DEF V
  <1> DEFINE w == [m \in 0..L |-> h[1..m]]
  <1>4. w[0] = c /\ w[L] = h[1..L]
      <2>1. 1..0 = {} /\ 0 \in 0..L /\ L \in 0..L
          OBVIOUS
      <2> QED
          BY <1>3, <2>1
  <1>5. ASSUME NEW m \in Nat, m + 1 <= L PROVE w[m + 1] = AppendEdge(w[m], links[m + 1])
      <2> DEFINE S == 1..(m + 1)
      <2>1. S # {} /\ S \in SUBSET (1..L) /\ m \in 0..L /\ m + 1 \in 0..L /\ S \ {m + 1} = 1..m /\ Max(S) = m + 1
          BY <1>5, Prefix
      <2> HIDE DEF S
      <2>3. h[S] = AppendEdge(h[1..m], links[m + 1])
          BY <1>3, <2>1
      <2> QED
          BY <2>1, <2>3 DEF S
  <1> HIDE DEF w
  <1> QED
      BY <1>2, <1>4, <1>5 DEF AppendsEdges

OrdersAccesses(w, L) ==
    /\ w[0] = AppendEdges(Nothing, explicit)
    /\ \A m \in Nat : m + 1 <= L => w[m + 1] = AddAccess(w[m], accesses[m + 1])
    /\ Ordered = w[L]

\* The accesses meet the frontier one after another.
LEMMA OrderedWalks ==
    ASSUME NEW X, NEW L \in Nat, DOMAIN accesses = 1..L, AppendEdges(Nothing, explicit) \in X,
           \A x \in X, i \in 1..L : AddAccess(x, accesses[i]) \in X
    PROVE  \E w : OrdersAccesses(w, L)
  <1> DEFINE Body(h) == [S \in SUBSET (1..L) |-> IF S = {} THEN AppendEdges(Nothing, explicit)
                                                 ELSE AddAccess(h[S \ {Max(S)}], accesses[Max(S)])]
             h == CHOOSE h : h = Body(h)
  <1>1. h = Body(h)
      <2> DEFINE G == [p \in X \X (1..L) |-> AddAccess(p[1], accesses[p[2]])]
      <2>1. G \in [X \X (1..L) -> X]
          OBVIOUS
      <2>2. \A x \in X, i \in 1..L : G[<<x, i>>] = AddAccess(x, accesses[i])
          OBVIOUS
      <2> HIDE DEF G
      <2>3. PICK g \in [SUBSET (1..L) -> X] : FoldsOver(g, L, AppendEdges(Nothing, explicit), G)
          BY <2>1, FoldExists
      <2>4. ASSUME NEW S \in SUBSET (1..L)
            PROVE  g[S] = IF S = {} THEN AppendEdges(Nothing, explicit) ELSE AddAccess(g[S \ {Max(S)}], accesses[Max(S)])
          <3>1. CASE S = {}
              BY <2>3, <3>1 DEF FoldsOver
          <3>2. CASE S # {}
              <4> DEFINE k == Max(S)
                         R == S \ {k}
              <4>1. k \in 1..L /\ R \in SUBSET (1..L)
                  BY <3>2, InRange
              <4>2. g[S] = G[<<g[R], k>>]
                  BY <2>3, <3>2 DEF FoldsOver
              <4>3. g[R] \in X
                  BY <4>1
              <4> HIDE DEF k, R
              <4>4. g[S] = AddAccess(g[R], accesses[k])
                  BY <2>2, <4>1, <4>2, <4>3
              <4> QED
                  BY <3>2, <4>4 DEF k, R
          <3> QED
              BY <3>1, <3>2
      <2>5. g = Body(g)
          BY <2>4
      <2> QED
          BY <2>5
  <1>2. Ordered = h[1..L]
      BY DEF Ordered, FoldLeft, MapThenFoldSet
  <1> HIDE DEF h
  <1>3. ASSUME NEW S \in SUBSET (1..L)
        PROVE  h[S] = IF S = {} THEN AppendEdges(Nothing, explicit) ELSE AddAccess(h[S \ {Max(S)}], accesses[Max(S)])
      <2> DEFINE V(S1) == IF S1 = {} THEN AppendEdges(Nothing, explicit) ELSE AddAccess(h[S1 \ {Max(S1)}], accesses[Max(S1)])
      <2>1. h = [S1 \in SUBSET (1..L) |-> V(S1)]
          BY <1>1
      <2> HIDE DEF V
      <2>2. h[S] = V(S)
          BY <2>1
      <2> QED
          BY <2>2 DEF V
  <1> DEFINE w == [m \in 0..L |-> h[1..m]]
  <1>4. w[0] = AppendEdges(Nothing, explicit) /\ w[L] = h[1..L]
      <2>1. 1..0 = {} /\ 0 \in 0..L /\ L \in 0..L
          OBVIOUS
      <2> QED
          BY <1>3, <2>1
  <1>5. ASSUME NEW m \in Nat, m + 1 <= L PROVE w[m + 1] = AddAccess(w[m], accesses[m + 1])
      <2> DEFINE S == 1..(m + 1)
      <2>1. S # {} /\ S \in SUBSET (1..L) /\ m \in 0..L /\ m + 1 \in 0..L /\ S \ {m + 1} = 1..m /\ Max(S) = m + 1
          BY <1>5, Prefix
      <2> HIDE DEF S
      <2>3. h[S] = AddAccess(h[1..m], accesses[m + 1])
          BY <1>3, <2>1
      <2> QED
          BY <2>1, <2>3 DEF S
  <1> HIDE DEF w
  <1> QED
      BY <1>2, <1>4, <1>5 DEF OrdersAccesses

Keeping(kept, S, x) == IF x \in S THEN Append(kept, x) ELSE kept

KeepsOnly(w, s, T, L) ==
    /\ w[0] = <<>>
    /\ \A m \in Nat : m + 1 <= L => w[m + 1] = Keeping(w[m], T, s[m + 1])
    /\ Only(s, T) = w[L]

\* The elements are looked at one after another.
LEMMA OnlyWalks ==
    ASSUME NEW X, <<>> \in X, NEW T, NEW s, NEW L \in Nat, DOMAIN s = 1..L,
           \A x \in X, i \in 1..L : Keeping(x, T, s[i]) \in X
    PROVE  \E w : KeepsOnly(w, s, T, L)
  <1> DEFINE Body(h) == [S \in SUBSET (1..L) |-> IF S = {} THEN <<>>
                                                 ELSE Keeping(h[S \ {Max(S)}], T, s[Max(S)])]
             h == CHOOSE h : h = Body(h)
  <1>1. h = Body(h)
      <2> DEFINE G == [p \in X \X (1..L) |-> Keeping(p[1], T, s[p[2]])]
      <2>1. G \in [X \X (1..L) -> X]
          OBVIOUS
      <2>2. \A x \in X, i \in 1..L : G[<<x, i>>] = Keeping(x, T, s[i])
          OBVIOUS
      <2> HIDE DEF G
      <2>3. PICK g \in [SUBSET (1..L) -> X] : FoldsOver(g, L, <<>>, G)
          BY <2>1, FoldExists
      <2>4. ASSUME NEW S \in SUBSET (1..L)
            PROVE  g[S] = IF S = {} THEN <<>> ELSE Keeping(g[S \ {Max(S)}], T, s[Max(S)])
          <3>1. CASE S = {}
              BY <2>3, <3>1 DEF FoldsOver
          <3>2. CASE S # {}
              <4> DEFINE k == Max(S)
                         R == S \ {k}
              <4>1. k \in 1..L /\ R \in SUBSET (1..L)
                  BY <3>2, InRange
              <4>2. g[S] = G[<<g[R], k>>]
                  BY <2>3, <3>2 DEF FoldsOver
              <4>3. g[R] \in X
                  BY <4>1
              <4> HIDE DEF k, R
              <4>4. g[S] = Keeping(g[R], T, s[k])
                  BY <2>2, <4>1, <4>2, <4>3
              <4> QED
                  BY <3>2, <4>4 DEF k, R
          <3> QED
              BY <3>1, <3>2
      <2>5. g = Body(g)
          BY <2>4
      <2> QED
          BY <2>5
  <1>2. Only(s, T) = h[1..L]
      BY DEF Only, Keeping, FoldLeft, MapThenFoldSet
  <1> HIDE DEF h
  <1>3. ASSUME NEW S \in SUBSET (1..L)
        PROVE  h[S] = IF S = {} THEN <<>> ELSE Keeping(h[S \ {Max(S)}], T, s[Max(S)])
      <2> DEFINE V(S1) == IF S1 = {} THEN <<>> ELSE Keeping(h[S1 \ {Max(S1)}], T, s[Max(S1)])
      <2>1. h = [S1 \in SUBSET (1..L) |-> V(S1)]
          BY <1>1
      <2> HIDE DEF V
      <2>2. h[S] = V(S)
          BY <2>1
      <2> QED
          BY <2>2 DEF V
  <1> DEFINE w == [m \in 0..L |-> h[1..m]]
  <1>4. w[0] = <<>> /\ w[L] = h[1..L]
      <2>1. 1..0 = {} /\ 0 \in 0..L /\ L \in 0..L
          OBVIOUS
      <2> QED
          BY <1>3, <2>1
  <1>5. ASSUME NEW m \in Nat, m + 1 <= L PROVE w[m + 1] = Keeping(w[m], T, s[m + 1])
      <2> DEFINE S == 1..(m + 1)
      <2>1. S # {} /\ S \in SUBSET (1..L) /\ m \in 0..L /\ m + 1 \in 0..L /\ S \ {m + 1} = 1..m /\ Max(S) = m + 1
          BY <1>5, Prefix
      <2> HIDE DEF S
      <2>3. h[S] = Keeping(h[1..m], T, s[m + 1])
          BY <1>3, <2>1
      <2> QED
          BY <2>1, <2>3 DEF S
  <1> HIDE DEF w
  <1> QED
      BY <1>2, <1>4, <1>5 DEF KeepsOnly

Steps(w, b, k, G) == w[0] = b /\ \A n \in 1..k : w[n] = G[<<w[n - 1], n>>]

\* The steps of a recursion over the numbers.
LEMMA Iterates ==
    ASSUME NEW X, NEW b \in X, NEW k \in Nat, NEW G \in [X \X (1..k) -> X]
    PROVE  \E w \in [0..k -> X] : Steps(w, b, k, G)
  <1> DEFINE Holds(m) == m <= k => \E w \in [0..m -> X] : Steps(w, b, m, G)
             T == {m \in Nat : Holds(m)}
  <1>1. Holds(0)
      <2> DEFINE v == [n \in 0..0 |-> b]
      <2>1. v \in [0..0 -> X] /\ Steps(v, b, 0, G)
          BY DEF Steps
      <2> HIDE DEF v
      <2> QED
          BY <2>1
  <1>2. ASSUME NEW m \in Nat, Holds(m) PROVE Holds(m + 1)
      <2> SUFFICES ASSUME m + 1 <= k
                   PROVE  \E w \in [0..(m + 1) -> X] : Steps(w, b, m + 1, G)
          OBVIOUS
      <2>1. PICK w \in [0..m -> X] : Steps(w, b, m, G)
          <3>1. m <= k
              OBVIOUS
          <3> QED
              BY <1>2, <3>1, Zenon
      <2> DEFINE v == [n \in 0..(m + 1) |-> IF n = m + 1 THEN G[<<w[m], m + 1>>] ELSE w[n]]
      <2>2. G[<<w[m], m + 1>>] \in X
          OBVIOUS
      <2>3. v \in [0..(m + 1) -> X] /\ v[0] = b
          BY <2>1, <2>2 DEF Steps
      <2>4. ASSUME NEW n \in 1..(m + 1) PROVE v[n] = G[<<v[n - 1], n>>]
          <3>1. n - 1 \in 0..m /\ n - 1 # m + 1 /\ n - 1 \in 0..(m + 1)
              OBVIOUS
          <3>2. v[n - 1] = w[n - 1]
              BY <3>1
          <3>3. CASE n = m + 1
              <4>1. v[m] = w[m]
                  BY <3>1, <3>3
              <4>2. m + 1 \in 0..(m + 1) /\ (m + 1) - 1 = m
                  OBVIOUS
              <4>3. v[m + 1] = G[<<w[m], m + 1>>]
                  BY <4>2
              <4> HIDE DEF v
              <4> QED
                  BY <3>3, <4>1, <4>2, <4>3
          <3>4. CASE n # m + 1
              <4>1. n \in 1..m
                  BY <3>4
              <4> QED
                  BY <2>1, <3>2, <3>4, <4>1 DEF Steps
          <3> QED
              BY <3>3, <3>4
      <2> HIDE DEF v
      <2> QED
          BY <2>3, <2>4 DEF Steps
  <1>3. Nat \subseteq T
      <2> HIDE DEF Holds
      <2>1. 0 \in T /\ \A n \in Nat : n \in T => n + 1 \in T
          BY <1>1, <1>2
      <2> HIDE DEF T
      <2> QED
          BY <2>1, Upwards
  <1>4. Holds(k)
      BY <1>3
  <1>5. k <= k
      OBVIOUS
  <1> QED
      BY <1>4, <1>5, Zenon

-----------------------------------------------------------------------------
(* What lies behind a pass                                                   *)

Nexts(links, A) == {link[2] : link \in {l \in links : l[1] \in A}}

Closed(links, A) == \A link \in links : link[1] \in A => link[2] \in A

Spreads(w, b, N, links) == w[0] = b /\ \A n \in 1..N : w[n] = w[n - 1] \cup Nexts(links, w[n - 1])

LEMMA Grows ==
    ASSUME NEW P, NEW N \in Nat, NEW links, NEW b \in SUBSET P,
           \A A \in SUBSET P : A \cup Nexts(links, A) \in SUBSET P
    PROVE  \E w \in [0..N -> SUBSET P] : Spreads(w, b, N, links)
  <1> DEFINE X == SUBSET P
             G == [q \in X \X (1..N) |-> q[1] \cup Nexts(links, q[1])]
  <1>1. G \in [X \X (1..N) -> X]
      OBVIOUS
  <1>2. \A A \in X, n \in 1..N : G[<<A, n>>] = A \cup Nexts(links, A)
      OBVIOUS
  <1>3. b \in X
      OBVIOUS
  <1> HIDE DEF G, X
  <1>4. PICK w \in [0..N -> X] : Steps(w, b, N, G)
      BY <1>1, <1>3, Iterates
  <1>5. ASSUME NEW n \in 1..N PROVE w[n] = w[n - 1] \cup Nexts(links, w[n - 1])
      <2>1. n - 1 \in 0..N
          OBVIOUS
      <2>2. w[n - 1] \in X
          BY <2>1
      <2> QED
          BY <1>2, <1>4, <2>2 DEF Steps
  <1> QED
      BY <1>4, <1>5 DEF X, Steps, Spreads

\* The steps of Reach.
LEMMA ReachWalks ==
    ASSUME passCount \in Nat, NEW links \in SUBSET (Passes \X Passes), NEW p \in Passes
    PROVE  \E w \in [0..passCount -> SUBSET Passes] :
               /\ w[0] = Nexts(links, {p})
               /\ \A n \in 1..passCount : w[n] = w[n - 1] \cup Nexts(links, w[n - 1])
               /\ Reach(links, p) = w[passCount]
  <1> DEFINE b == {link[2] : link \in {l \in links : l[1] = p}}
             Body(f) == [n \in 0..passCount |->
                            IF n = 0 THEN b
                            ELSE f[n - 1] \cup {link[2] : link \in {l \in links : l[1] \in f[n - 1]}}]
             f == CHOOSE f : f = Body(f)
  <1>1. \A A \in SUBSET Passes : A \cup Nexts(links, A) \in SUBSET Passes
      BY DEF Nexts
  <1>4. b = Nexts(links, {p}) /\ b \in SUBSET Passes
      BY DEF Nexts
  <1> HIDE DEF b
  <1>5. PICK w \in [0..passCount -> SUBSET Passes] : Spreads(w, b, passCount, links)
      BY <1>1, <1>4, Grows
  <1>6. \A n \in 1..passCount : w[n] = w[n - 1] \cup Nexts(links, w[n - 1])
      BY <1>5 DEF Spreads
  <1>7. w = Body(w)
      <2>1. ASSUME NEW n \in 0..passCount
            PROVE  w[n] = IF n = 0 THEN b
                          ELSE w[n - 1] \cup {link[2] : link \in {l \in links : l[1] \in w[n - 1]}}
          BY <1>5, <1>6 DEF Nexts, Spreads
      <2> QED
          BY <2>1
  <1>8. f = Body(f)
      BY <1>7
  <1>9. Reach(links, p) = f[passCount]
      BY DEF Reach, b
  <1> HIDE DEF f
  <1>10. f[0] = b /\ \A n \in 1..passCount : f[n] = f[n - 1] \cup Nexts(links, f[n - 1])
      <2> DEFINE V(n) == IF n = 0 THEN b
                         ELSE f[n - 1] \cup {link[2] : link \in {l \in links : l[1] \in f[n - 1]}}
      <2>1. f = [n \in 0..passCount |-> V(n)]
          BY <1>8
      <2> HIDE DEF V
      <2>2. \A n \in 0..passCount : f[n] = V(n)
          BY <2>1
      <2>3. f[0] = b
          <3>1. 0 \in 0..passCount /\ V(0) = b
              BY DEF V
          <3> QED
              BY <2>2, <3>1
      <2>4. ASSUME NEW n \in 1..passCount PROVE f[n] = f[n - 1] \cup Nexts(links, f[n - 1])
          <3>1. n \in 0..passCount /\ n # 0
              OBVIOUS
          <3>2. f[n] = V(n)
              BY <2>2, <3>1
          <3> QED
              BY <3>1, <3>2 DEF V, Nexts
      <2> QED
          BY <2>3, <2>4
  <1> DEFINE Same(n) == n <= passCount => f[n] = w[n]
             T == {n \in Nat : Same(n)}
  <1>11. Same(0)
      BY <1>5, <1>10 DEF Spreads
  <1>12. ASSUME NEW n \in Nat, Same(n) PROVE Same(n + 1)
      <2> SUFFICES ASSUME n + 1 <= passCount PROVE f[n + 1] = w[n + 1]
          OBVIOUS
      <2>1. n + 1 \in 1..passCount /\ (n + 1) - 1 = n /\ n <= passCount
          OBVIOUS
      <2>2. f[n] = w[n]
          BY <1>12, <2>1
      <2> QED
          BY <1>6, <1>10, <2>1, <2>2
  <1>13. passCount \in T
      <2> HIDE DEF Same
      <2>1. 0 \in T /\ \A n \in Nat : n \in T => n + 1 \in T
          BY <1>11, <1>12
      <2> HIDE DEF T
      <2> QED
          BY <2>1, Upwards
  <1>14. f[passCount] = w[passCount]
      BY <1>13
  <1> HIDE DEF Body
  <1> QED
      BY <1>4, <1>5, <1>6, <1>9, <1>14 DEF Spreads

\* Reach contains what comes next, is closed under the links, and contains nothing else.
LEMMA ReachIs ==
    ASSUME passCount \in Nat, NEW links \in SUBSET (Passes \X Passes), NEW p \in Passes
    PROVE  /\ Reach(links, p) \in SUBSET Passes
           /\ Nexts(links, {p}) \subseteq Reach(links, p)
           /\ Closed(links, Reach(links, p))
           /\ \A S : Nexts(links, {p}) \subseteq S /\ Closed(links, S) => Reach(links, p) \subseteq S
  <1>1. PICK w \in [0..passCount -> SUBSET Passes] :
               /\ w[0] = Nexts(links, {p})
               /\ \A n \in 1..passCount : w[n] = w[n - 1] \cup Nexts(links, w[n - 1])
               /\ Reach(links, p) = w[passCount]
      BY ReachWalks
  <1> DEFINE Inv(n) == n <= passCount =>
                 /\ w[0] \subseteq w[n]
                 /\ Closed(links, w[n]) \/ Cardinality(w[n]) > n
                 /\ \A S : Nexts(links, {p}) \subseteq S /\ Closed(links, S) => w[n] \subseteq S
             T == {n \in Nat : Inv(n)}
  <1>2. IsFiniteSet(Passes) /\ Cardinality(Passes) = passCount
      BY FS_Interval DEF Passes
  <1>3. \A A \in SUBSET Passes : IsFiniteSet(A) /\ Cardinality(A) \in Nat /\ Cardinality(A) <= passCount
      BY <1>2, FS_Subset, FS_CardinalityType
  <1>4. Inv(0)
      <2>1. CASE w[0] = {}
          BY <1>1, <2>1 DEF Closed
      <2>2. CASE w[0] # {}
          <3>1. w[0] \in SUBSET Passes
              OBVIOUS
          <3>2. Cardinality(w[0]) # 0 /\ Cardinality(w[0]) \in Nat
              BY <1>3, <2>2, <3>1, FS_EmptySet
          <3>3. Cardinality(w[0]) > 0
              BY <3>2
          <3> QED
              BY <1>1, <3>3, Zenon
      <2> QED
          BY <2>1, <2>2
  <1>5. ASSUME NEW n \in Nat, Inv(n) PROVE Inv(n + 1)
      <2> SUFFICES ASSUME n + 1 <= passCount
                   PROVE  /\ w[0] \subseteq w[n + 1]
                          /\ Closed(links, w[n + 1]) \/ Cardinality(w[n + 1]) > n + 1
                          /\ \A S : Nexts(links, {p}) \subseteq S /\ Closed(links, S) => w[n + 1] \subseteq S
          BY Zenon
      <2>1. n + 1 \in 1..passCount /\ (n + 1) - 1 = n /\ n <= passCount /\ n \in 0..passCount /\ n + 1 \in 0..passCount
          OBVIOUS
      <2>2. w[n + 1] = w[n] \cup Nexts(links, w[n])
          BY <1>1, <2>1
      <2>3. /\ w[0] \subseteq w[n]
            /\ Closed(links, w[n]) \/ Cardinality(w[n]) > n
            /\ \A S : Nexts(links, {p}) \subseteq S /\ Closed(links, S) => w[n] \subseteq S
          BY <1>5, <2>1, Zenon
      <2> HIDE DEF Inv
      <2>4. Closed(links, w[n + 1]) \/ Cardinality(w[n + 1]) > n + 1
          <3>1. CASE Closed(links, w[n])
              <4>1. Nexts(links, w[n]) \subseteq w[n]
                  BY <3>1 DEF Closed, Nexts
              <4>2. w[n + 1] = w[n]
                  BY <2>2, <4>1
              <4> QED
                  BY <3>1, <4>2
          <3>2. CASE ~Closed(links, w[n])
              <4>1. PICK link \in links : link[1] \in w[n] /\ link[2] \notin w[n]
                  BY <3>2 DEF Closed
              <4>2. link[2] \in Nexts(links, w[n])
                  BY <4>1 DEF Nexts
              <4>3. w[n] \subseteq w[n + 1] /\ w[n] # w[n + 1]
                  BY <2>2, <4>1, <4>2
              <4>4. w[n] \in SUBSET Passes /\ w[n + 1] \in SUBSET Passes
                  BY <2>1
              <4>5. IsFiniteSet(w[n + 1]) /\ Cardinality(w[n]) \in Nat /\ Cardinality(w[n + 1]) \in Nat
                  BY <1>3, <4>4
              <4>6. Cardinality(w[n]) < Cardinality(w[n + 1])
                  <5>1. Cardinality(w[n]) <= Cardinality(w[n + 1])
                      BY <4>3, <4>5, FS_Subset
                  <5>2. Cardinality(w[n]) # Cardinality(w[n + 1])
                      BY <4>3, <4>5, FS_Subset
                  <5> QED
                      BY <4>5, <5>1, <5>2
              <4> QED
                  BY <2>3, <3>2, <4>5, <4>6
          <3> QED
              BY <3>1, <3>2
      <2>5. ASSUME NEW S, Nexts(links, {p}) \subseteq S, Closed(links, S) PROVE w[n + 1] \subseteq S
          <3>1. w[n] \subseteq S
              BY <2>3, <2>5
          <3>2. Nexts(links, w[n]) \subseteq S
              BY <2>5, <3>1 DEF Closed, Nexts
          <3> QED
              BY <2>2, <3>1, <3>2
      <2> QED
          BY <2>2, <2>3, <2>4, <2>5
  <1>6. passCount \in T
      <2> HIDE DEF Inv
      <2>1. 0 \in T /\ \A n \in Nat : n \in T => n + 1 \in T
          BY <1>4, <1>5
      <2> HIDE DEF T
      <2> QED
          BY <2>1, Upwards
  <1>7. passCount <= passCount /\ passCount \in 0..passCount
      OBVIOUS
  <1>8. Inv(passCount)
      <2> HIDE DEF Inv
      <2> QED
          BY <1>6
  <1>9. w[passCount] \in SUBSET Passes
      BY <1>7
  <1>10. ~(Cardinality(w[passCount]) > passCount)
      BY <1>3, <1>9
  <1> QED
      BY <1>1, <1>7, <1>8, <1>9, <1>10, Zenon

LEMMA ReachNext ==
    ASSUME passCount \in Nat, NEW links \in SUBSET (Passes \X Passes), NEW link \in links
    PROVE  link[2] \in Reach(links, link[1])
  <1>1. link[1] \in Passes /\ link[2] \in Nexts(links, {link[1]})
      BY DEF Nexts
  <1> QED
      BY <1>1, ReachIs

\* What lies behind a pass behind p lies behind p.
LEMMA ReachThrough ==
    ASSUME passCount \in Nat, NEW links \in SUBSET (Passes \X Passes), NEW p \in Passes, NEW q \in Reach(links, p)
    PROVE  Reach(links, q) \subseteq Reach(links, p)
  <1>1. q \in Passes /\ Closed(links, Reach(links, p))
      BY ReachIs
  <1>2. Nexts(links, {q}) \subseteq Reach(links, p)
      BY <1>1 DEF Closed, Nexts
  <1> QED
      BY <1>1, <1>2, ReachIs

\* Links that lead only where others lead reach no further.
LEMMA ReachWithin ==
    ASSUME passCount \in Nat, NEW links \in SUBSET (Passes \X Passes), NEW more \in SUBSET (Passes \X Passes),
           \A link \in links : link[2] \in Reach(more, link[1]), NEW p \in Passes
    PROVE  Reach(links, p) \subseteq Reach(more, p)
  <1>1. Nexts(links, {p}) \subseteq Reach(more, p)
      BY DEF Nexts
  <1>2. Closed(links, Reach(more, p))
      <2>1. ASSUME NEW link \in links, link[1] \in Reach(more, p) PROVE link[2] \in Reach(more, p)
          BY <2>1, ReachThrough
      <2> QED
          BY <2>1 DEF Closed
  <1> QED
      BY <1>1, <1>2, ReachIs

-----------------------------------------------------------------------------
(* Sequences without repetition                                              *)

LEMMA Appended ==
    ASSUME NEW Y, NEW q \in Seq(Y), NEW x \in Y
    PROVE  /\ Append(q, x) \in Seq(Y) /\ Range(Append(q, x)) = Range(q) \cup {x}
           /\ IsInjective(q) /\ x \notin Range(q) => IsInjective(Append(q, x))
  <1> DEFINE a == Append(q, x)
             n == Len(q)
  <1>1. n \in Nat /\ DOMAIN q = 1..n /\ DOMAIN a = 1..(n + 1) /\ a \in Seq(Y)
      OBVIOUS
  <1>2. a[n + 1] = x /\ \A i \in 1..n : a[i] = q[i]
      OBVIOUS
  <1> HIDE DEF a, n
  <1>3. \A i \in 1..(n + 1) : i \in 1..n \/ i = n + 1
      BY <1>1
  <1>4. Range(a) = Range(q) \cup {x}
      <2>1. ASSUME NEW y \in Range(a) PROVE y \in Range(q) \cup {x}
          BY <1>1, <1>2, <1>3, <2>1 DEF Range
      <2>2. ASSUME NEW y \in Range(q) PROVE y \in Range(a)
          <3>1. PICK i \in 1..n : y = q[i]
              BY <1>1 DEF Range
          <3>2. i \in 1..(n + 1) /\ a[i] = y
              BY <1>1, <1>2, <3>1
          <3> QED
              BY <1>1, <3>2 DEF Range
      <2>3. x \in Range(a)
          <3>1. n + 1 \in 1..(n + 1)
              BY <1>1
          <3> QED
              BY <1>1, <1>2, <3>1 DEF Range
      <2> QED
          BY <2>1, <2>2, <2>3
  <1>5. ASSUME IsInjective(q), x \notin Range(q) PROVE IsInjective(a)
      <2>1. \A i \in 1..n : q[i] # x
          BY <1>1, <1>5 DEF Range
      <2>2. \A i, j \in 1..n : q[i] = q[j] => i = j
          BY <1>1, <1>5 DEF IsInjective
      <2> QED
          BY <1>1, <1>2, <1>3, <2>1, <2>2 DEF IsInjective
  <1> QED
      BY <1>1, <1>4, <1>5 DEF a

LEMMA Joined ==
    ASSUME NEW Y, NEW q \in Seq(Y), NEW r \in Seq(Y)
    PROVE  /\ q \o r \in Seq(Y) /\ Range(q \o r) = Range(q) \cup Range(r)
           /\ IsInjective(q) /\ IsInjective(r) /\ Range(q) \cap Range(r) = {} => IsInjective(q \o r)
           /\ Len(q \o r) = Len(q) + Len(r) /\ \A i \in 1..Len(q) : (q \o r)[i] = q[i]
           /\ \A i \in 1..Len(q \o r) : i > Len(q) => (q \o r)[i] \in Range(r)
  <1> DEFINE a == q \o r
             n == Len(q)
             m == Len(r)
  <1>1. /\ n \in Nat /\ m \in Nat /\ DOMAIN q = 1..n /\ DOMAIN r = 1..m /\ DOMAIN a = 1..(n + m)
        /\ a \in Seq(Y) /\ Len(a) = n + m
      OBVIOUS
  <1>2. (\A i \in 1..n : a[i] = q[i]) /\ (\A i \in 1..m : a[n + i] = r[i])
      OBVIOUS
  <1> HIDE DEF a, n, m
  <1>3. ASSUME NEW i \in 1..(n + m), i > n PROVE i - n \in 1..m /\ a[i] = r[i - n]
      <2>1. i - n \in 1..m /\ n + (i - n) = i
          BY <1>1, <1>3
      <2> QED
          BY <1>2, <2>1
  <1>4. \A i \in 1..n : i \in 1..(n + m)
      BY <1>1
  <1>5. \A i \in 1..m : n + i \in 1..(n + m)
      BY <1>1
  <1>6. \A i \in 1..(n + m) : i \in 1..n \/ i > n
      BY <1>1
  <1>7. Range(a) = Range(q) \cup Range(r)
      <2>1. ASSUME NEW y \in Range(a) PROVE y \in Range(q) \cup Range(r)
          BY <1>1, <1>2, <1>3, <1>6 DEF Range
      <2>2. ASSUME NEW y \in Range(q) PROVE y \in Range(a)
          BY <1>1, <1>2, <1>4 DEF Range
      <2>3. ASSUME NEW y \in Range(r) PROVE y \in Range(a)
          BY <1>1, <1>2, <1>5 DEF Range
      <2> QED
          BY <2>1, <2>2, <2>3
  <1>8. ASSUME IsInjective(q), IsInjective(r), Range(q) \cap Range(r) = {} PROVE IsInjective(a)
      <2>1. \A i \in 1..n, j \in 1..m : q[i] # r[j]
          BY <1>1, <1>8 DEF Range
      <2>2. (\A i, j \in 1..n : q[i] = q[j] => i = j) /\ (\A i, j \in 1..m : r[i] = r[j] => i = j)
          BY <1>1, <1>8 DEF IsInjective
      <2>3. ASSUME NEW i \in 1..(n + m), NEW j \in 1..(n + m), a[i] = a[j] PROVE i = j
          <3>1. CASE i \in 1..n /\ j \in 1..n
              BY <1>2, <2>2, <2>3, <3>1
          <3>2. CASE i \in 1..n /\ j > n
              BY <1>2, <1>3, <2>1, <2>3, <3>2
          <3>3. CASE i > n /\ j \in 1..n
              BY <1>2, <1>3, <2>1, <2>3, <3>3
          <3>4. CASE i > n /\ j > n
              <4>1. i - n = j - n
                  BY <1>3, <2>2, <2>3, <3>4
              <4> QED
                  BY <1>1, <4>1
          <3> QED
              BY <1>6, <3>1, <3>2, <3>3, <3>4
      <2> QED
          BY <1>1, <2>3 DEF IsInjective
  <1>9. \A i \in 1..(n + m) : i > n => a[i] \in Range(r)
      BY <1>1, <1>3 DEF Range
  <1> QED
      BY <1>1, <1>2, <1>7, <1>8, <1>9 DEF a, n, m

\* Only keeps the elements that are in the set, and the order.
LEMMA OnlyIs ==
    ASSUME NEW Y, NEW s \in Seq(Y), NEW T
    PROVE  /\ Only(s, T) \in Seq(Y) /\ Range(Only(s, T)) = Range(s) \cap T
           /\ IsInjective(s) => IsInjective(Only(s, T))
  <1> DEFINE L == Len(s)
             Seen(m) == {s[i] : i \in 1..m}
  <1>1. L \in Nat /\ DOMAIN s = 1..L /\ \A i \in 1..L : s[i] \in Y
      OBVIOUS
  <1>2. <<>> \in Seq(Y) /\ \A x \in Seq(Y), i \in 1..L : Keeping(x, T, s[i]) \in Seq(Y)
      BY <1>1 DEF Keeping
  <1> HIDE DEF L
  <1>3. PICK w : KeepsOnly(w, s, T, L)
      BY <1>1, <1>2, OnlyWalks
  <1>4. Seen(0) = {} /\ \A m \in Nat : Seen(m + 1) = Seen(m) \cup {s[m + 1]}
      <2>1. ASSUME NEW m \in Nat PROVE Seen(m + 1) = Seen(m) \cup {s[m + 1]}
          <3>1. 1..(m + 1) = (1..m) \cup {m + 1}
              OBVIOUS
          <3> QED
              BY <3>1
      <2> QED
          BY <2>1
  <1>5. ASSUME IsInjective(s), NEW m \in Nat, m + 1 \in 1..L PROVE s[m + 1] \notin Seen(m)
      <2> SUFFICES ASSUME NEW i \in 1..m, s[i] = s[m + 1] PROVE FALSE
          OBVIOUS
      <2>1. i \in 1..L /\ i # m + 1
          BY <1>1, <1>5
      <2> QED
          BY <1>1, <1>5, <2>1 DEF IsInjective
  <1>6. Seen(L) = Range(s)
      BY <1>1 DEF Range
  <1> HIDE DEF Seen
  <1> DEFINE Inv(m) == m <= L => /\ w[m] \in Seq(Y) /\ Range(w[m]) = Seen(m) \cap T
                                 /\ IsInjective(s) => IsInjective(w[m])
             P == {m \in Nat : Inv(m)}
  <1>7. Inv(0)
      <2>1. w[0] = <<>> /\ Range(w[0]) = {} /\ IsInjective(w[0])
          BY <1>3 DEF KeepsOnly, Range, IsInjective
      <2> QED
          BY <1>2, <1>4, <2>1
  <1>8. ASSUME NEW m \in Nat, Inv(m) PROVE Inv(m + 1)
      <2> SUFFICES ASSUME m + 1 <= L
                   PROVE  /\ w[m + 1] \in Seq(Y) /\ Range(w[m + 1]) = Seen(m + 1) \cap T
                          /\ IsInjective(s) => IsInjective(w[m + 1])
          BY Zenon
      <2> DEFINE x == s[m + 1]
      <2>1. m <= L /\ m + 1 \in 1..L
          BY <1>1
      <2>2. w[m] \in Seq(Y) /\ Range(w[m]) = Seen(m) \cap T /\ (IsInjective(s) => IsInjective(w[m]))
          BY <1>8, <2>1, Zenon
      <2>3. w[m + 1] = IF x \in T THEN Append(w[m], x) ELSE w[m]
          BY <1>3 DEF KeepsOnly, Keeping
      <2>4. Seen(m + 1) = Seen(m) \cup {x} /\ x \in Y /\ (IsInjective(s) => x \notin Seen(m))
          BY <1>1, <1>4, <1>5, <2>1
      <2> HIDE DEF x, Inv
      <2>5. CASE x \in T
          <3>1. w[m + 1] = Append(w[m], x)
              BY <2>3, <2>5
          <3>2. /\ w[m + 1] \in Seq(Y) /\ Range(w[m + 1]) = Range(w[m]) \cup {x}
                /\ IsInjective(w[m]) /\ x \notin Range(w[m]) => IsInjective(w[m + 1])
              BY <2>2, <2>4, <3>1, Appended
          <3> QED
              BY <2>2, <2>4, <2>5, <3>2
      <2>6. CASE x \notin T
          BY <2>2, <2>3, <2>4, <2>6
      <2> QED
          BY <2>5, <2>6
  <1>9. L \in P
      <2> HIDE DEF Inv
      <2>1. 0 \in P /\ \A m \in Nat : m \in P => m + 1 \in P
          BY <1>7, <1>8
      <2> HIDE DEF P
      <2> QED
          BY <1>1, <2>1, Upwards
  <1>10. Inv(L) /\ L <= L /\ Only(s, T) = w[L]
      <2> HIDE DEF Inv
      <2> QED
          BY <1>1, <1>3, <1>9 DEF KeepsOnly
  <1> QED
      BY <1>6, <1>10, Zenon

-----------------------------------------------------------------------------
(* The edges and the frontier                                                *)

Item == [pass : Passes, access : Accesses]
Compiled == [edges : Seq(Passes \X Passes), frontier : Seq(Item), fits : BOOLEAN]

\* While they fit, the edges of c and some new ones, each once.
Grown(r, c, new) ==
    /\ r \in Compiled /\ r.frontier = c.frontier /\ IsInjective(r.edges)
    /\ r.fits => c.fits /\ Range(r.edges) = Range(c.edges) \cup new

LEMMA AppendEdgeIs ==
    ASSUME NEW c \in Compiled, IsInjective(c.edges), NEW link \in Passes \X Passes
    PROVE  Grown(AppendEdge(c, link), c, {link})
  <1> DEFINE Y == Passes \X Passes
             r == AppendEdge(c, link)
  <1> SUFFICES Grown(r, c, {link})
      OBVIOUS
  <1>1. c.edges \in Seq(Y) /\ c.fits \in BOOLEAN
      BY DEF Compiled
  <1>2. Contains(c.edges, link) <=> link \in Range(c.edges)
      <2>1. DOMAIN c.edges = 1..Len(c.edges)
          BY <1>1
      <2> QED
          BY <2>1 DEF Contains, Range
  <1>3. CASE ~c.fits \/ Contains(c.edges, link)
      <2>1. r = c
          BY <1>3 DEF AppendEdge
      <2>2. r.fits => link \in Range(c.edges)
          BY <1>2, <1>3, <2>1
      <2> HIDE DEF r
      <2> QED
          BY <2>1, <2>2 DEF Grown
  <1>4. CASE c.fits /\ ~Contains(c.edges, link) /\ Len(c.edges) = EdgeCapacity
      <2>1. r = [c EXCEPT !.fits = FALSE]
          BY <1>4 DEF AppendEdge
      <2>2. r \in Compiled /\ r.frontier = c.frontier /\ r.edges = c.edges /\ ~r.fits
          BY <2>1 DEF Compiled
      <2> HIDE DEF r
      <2> QED
          BY <2>2 DEF Grown
  <1>5. CASE c.fits /\ ~Contains(c.edges, link) /\ Len(c.edges) # EdgeCapacity
      <2> DEFINE a == Append(c.edges, link)
      <2>1. r = [c EXCEPT !.edges = a]
          BY <1>5 DEF AppendEdge
      <2>2. a \in Seq(Y) /\ Range(a) = Range(c.edges) \cup {link} /\ IsInjective(a)
          BY <1>1, <1>2, <1>5, Appended
      <2> HIDE DEF a
      <2>3. r \in Compiled /\ r.frontier = c.frontier /\ r.edges = a /\ r.fits = c.fits
          BY <2>1, <2>2 DEF Compiled
      <2> HIDE DEF r
      <2> QED
          BY <2>2, <2>3 DEF Grown
  <1> QED
      BY <1>3, <1>4, <1>5

LEMMA AppendEdgesIs ==
    ASSUME NEW c \in Compiled, IsInjective(c.edges), NEW links \in Seq(Passes \X Passes)
    PROVE  Grown(AppendEdges(c, links), c, Range(links))
  <1> DEFINE L == Len(links)
             X == {x \in Compiled : IsInjective(x.edges)}
             Seen(m) == {links[i] : i \in 1..m}
  <1>1. L \in Nat /\ DOMAIN links = 1..L /\ \A i \in 1..L : links[i] \in Passes \X Passes
      OBVIOUS
  <1>2. c \in X /\ \A x \in X, i \in 1..L : AppendEdge(x, links[i]) \in X
      BY <1>1, AppendEdgeIs DEF Grown
  <1> HIDE DEF L, X
  <1>3. PICK w : AppendsEdges(w, c, links, L)
      BY <1>1, <1>2, AppendEdgesWalks
  <1>4. Seen(0) = {} /\ \A m \in Nat : Seen(m + 1) = Seen(m) \cup {links[m + 1]}
      <2>1. ASSUME NEW m \in Nat PROVE Seen(m + 1) = Seen(m) \cup {links[m + 1]}
          <3>1. 1..(m + 1) = (1..m) \cup {m + 1}
              OBVIOUS
          <3> QED
              BY <3>1
      <2> QED
          BY <2>1
  <1>5. Seen(L) = Range(links)
      BY <1>1 DEF Range
  <1> HIDE DEF Seen
  <1> DEFINE Inv(m) == m <= L => Grown(w[m], c, Seen(m))
             P == {m \in Nat : Inv(m)}
  <1>6. Inv(0)
      BY <1>3, <1>4 DEF AppendsEdges, Grown
  <1>7. ASSUME NEW m \in Nat, Inv(m) PROVE Inv(m + 1)
      <2> SUFFICES ASSUME m + 1 <= L PROVE Grown(w[m + 1], c, Seen(m + 1))
          OBVIOUS
      <2>1. m <= L /\ m + 1 \in 1..L
          BY <1>1
      <2>2. Grown(w[m], c, Seen(m))
          BY <1>7, <2>1
      <2>3. w[m + 1] = AppendEdge(w[m], links[m + 1])
          BY <1>3 DEF AppendsEdges
      <2>4. w[m] \in Compiled /\ IsInjective(w[m].edges) /\ links[m + 1] \in Passes \X Passes
          BY <1>1, <2>1, <2>2 DEF Grown
      <2>5. Grown(w[m + 1], w[m], {links[m + 1]})
          BY <2>3, <2>4, AppendEdgeIs
      <2> QED
          BY <1>4, <2>2, <2>5 DEF Grown
  <1>8. L \in P
      <2> HIDE DEF Inv
      <2>1. 0 \in P /\ \A m \in Nat : m \in P => m + 1 \in P
          BY <1>6, <1>7
      <2> HIDE DEF P
      <2> QED
          BY <1>1, <2>1, Upwards
  <1> QED
      BY <1>1, <1>3, <1>5, <1>8 DEF AppendsEdges

\* An access is ordered behind what it conflicts with and takes the place of what it covers.
LEMMA AddAccessIs ==
    ASSUME NEW c \in Compiled, IsInjective(c.edges), NEW item \in Item
    PROVE  LET r == AddAccess(c, item)
               new == {<<old.pass, item.pass>> : old \in {x \in Range(c.frontier) :
                            x.pass # item.pass /\ Conflicts(x.access, item.access)}}
           IN /\ r \in Compiled /\ IsInjective(r.edges)
              /\ r.fits => c.fits /\ Range(r.edges) = Range(c.edges) \cup new
              /\ Range(r.frontier) = {item} \cup {x \in Range(c.frontier) : ~Covered(x.access, item.access)}
  <1> DEFINE behind == {old \in Range(c.frontier) : old.pass # item.pass /\ Conflicts(old.access, item.access)}
             kept == {old \in Range(c.frontier) : ~Covered(old.access, item.access)}
             before == Only(c.frontier, behind)
             left == Only(c.frontier, kept)
             links == [i \in DOMAIN before |-> <<before[i].pass, item.pass>>]
             new == {<<old.pass, item.pass>> : old \in behind}
             a == AppendEdges(c, links)
             r == AddAccess(c, item)
  <1>1. c.frontier \in Seq(Item) /\ behind \subseteq Range(c.frontier) /\ kept \subseteq Range(c.frontier)
      BY DEF Compiled
  <1>2. r = [a EXCEPT !.frontier = <<item>> \o left]
      BY DEF AddAccess
  <1> HIDE DEF behind, kept, r
  <1>3. before \in Seq(Item) /\ Range(before) = behind /\ left \in Seq(Item) /\ Range(left) = kept
      <2>1. before \in Seq(Item) /\ Range(before) = Range(c.frontier) \cap behind
          BY <1>1, OnlyIs
      <2>2. left \in Seq(Item) /\ Range(left) = Range(c.frontier) \cap kept
          BY <1>1, OnlyIs
      <2> HIDE DEF before, left
      <2> QED
          BY <1>1, <2>1, <2>2
  <1> HIDE DEF before, left
  <1>4. links \in Seq(Passes \X Passes) /\ Range(links) = new
      <2>1. DOMAIN before = 1..Len(before) /\ Len(before) \in Nat /\ \A i \in DOMAIN before : before[i].pass \in Passes
          <3>1. DOMAIN before = 1..Len(before) /\ Len(before) \in Nat /\ \A i \in DOMAIN before : before[i] \in Item
              BY <1>3
          <3> QED
              BY <3>1 DEF Item
      <2>2. item.pass \in Passes
          BY DEF Item
      <2>3. links \in [1..Len(before) -> Passes \X Passes]
          BY <2>1, <2>2
      <2>4. \A i \in DOMAIN before : links[i] = <<before[i].pass, item.pass>>
          OBVIOUS
      <2>5. DOMAIN links = DOMAIN before
          OBVIOUS
      <2> HIDE DEF links
      <2>6. links \in Seq(Passes \X Passes)
          BY <2>1, <2>3
      <2>7. \A y : y \in Range(links) <=> \E i \in DOMAIN before : y = <<before[i].pass, item.pass>>
          BY <2>4, <2>5 DEF Range
      <2>8. \A x : x \in behind <=> \E i \in DOMAIN before : x = before[i]
          BY <1>3 DEF Range
      <2>9. Range(links) = new
          BY <2>7, <2>8
      <2> QED
          BY <2>6, <2>9
  <1> HIDE DEF links, new
  <1>5. Grown(a, c, new)
      BY <1>4, AppendEdgesIs
  <1> HIDE DEF a
  <1>6. <<item>> \o left \in Seq(Item) /\ Range(<<item>> \o left) = {item} \cup kept
      <2>1. <<item>> \in Seq(Item) /\ Range(<<item>>) = {item}
          BY DEF Range
      <2>2. left \in Seq(Item)
          BY <1>3
      <2>3. <<item>> \o left \in Seq(Item) /\ Range(<<item>> \o left) = Range(<<item>>) \cup Range(left)
          BY <2>1, <2>2, Joined
      <2> QED
          BY <1>3, <2>1, <2>3
  <1>7. r \in Compiled /\ r.edges = a.edges /\ r.fits = a.fits /\ r.frontier = <<item>> \o left
      BY <1>2, <1>5, <1>6 DEF Compiled, Grown
  <1> QED
      BY <1>5, <1>6, <1>7 DEF Grown, r, new, kept, behind

-----------------------------------------------------------------------------
(* What is left of the frontier still orders every later access              *)

LEMMA CoverMeets ==
    ASSUME NEW x \in Accesses, NEW y \in Accesses, Covered(x, y)
    PROVE  Conflicts(x, y)
  BY AccessAssumption DEF Covered, Conflicts, Overlaps

LEMMA CoverThrough ==
    ASSUME NEW x \in Accesses, NEW y \in Accesses, NEW z \in Accesses, Covered(x, y), Covered(y, z)
    PROVE  Covered(x, z)
  BY AccessAssumption DEF Covered

\* What conflicts with an interval conflicts with a write that covers it.
LEMMA CoverConflicts ==
    ASSUME NEW x \in Accesses, NEW y \in Accesses, NEW b \in Accesses, Covered(x, y), Conflicts(x, b)
    PROVE  Conflicts(y, b)
  BY AccessAssumption DEF Covered, Conflicts, Overlaps

BuildInv ==
    /\ passCount \in Nat
    /\ accesses \in Seq(Item)
    /\ \A i, j \in DOMAIN accesses : i <= j => accesses[i].pass <= accesses[j].pass
    /\ explicit \in Seq(Passes \X Passes)

\* y is x, or a write that covers it and comes no earlier.
StandsFor(links, y, x) ==
    y = x \/ (Covered(x.access, y.access) /\ (x.pass = y.pass \/ y.pass \in Reach(links, x.pass)))

\* What the edges and the frontier say of the first k accesses.
Tells(c, k) ==
    /\ Range(explicit) \subseteq Range(c.edges) /\ Range(c.edges) \subseteq Demanded
    /\ \A y \in Range(c.frontier) : \E j \in 1..k : y = accesses[j]
    /\ \A i \in 1..k : \E y \in Range(c.frontier) : StandsFor(Range(c.edges), y, accesses[i])
    /\ \A i, j \in 1..k :
          i < j /\ accesses[i].pass # accesses[j].pass /\ Conflicts(accesses[i].access, accesses[j].access)
              => accesses[j].pass \in Reach(Range(c.edges), accesses[i].pass)

Knows(c, k) == c \in Compiled /\ IsInjective(c.edges) /\ (c.fits => Tells(c, k))

\* An edge behind something that stands for x is an edge behind x.
LEMMA StandsBefore ==
    ASSUME passCount \in Nat, NEW links \in SUBSET (Passes \X Passes), NEW x \in Item, NEW y \in Item, NEW b \in Item,
           StandsFor(links, y, x), Conflicts(x.access, b.access), x.pass # b.pass,
           y.pass # b.pass /\ Conflicts(y.access, b.access) => <<y.pass, b.pass>> \in links
    PROVE  b.pass \in Reach(links, x.pass)
  <1>1. x.access \in Accesses /\ y.access \in Accesses /\ b.access \in Accesses /\ x.pass \in Passes /\ y.pass \in Passes
      BY DEF Item
  <1>2. Conflicts(y.access, b.access)
      BY <1>1, CoverConflicts DEF StandsFor
  <1>3. x.pass = y.pass \/ y.pass \in Reach(links, x.pass)
      BY DEF StandsFor
  <1>4. CASE y.pass = b.pass
      BY <1>3, <1>4
  <1>5. CASE y.pass # b.pass
      <2>1. <<y.pass, b.pass>> \in links
          BY <1>2, <1>5
      <2>2. b.pass \in Reach(links, y.pass)
          BY <2>1, ReachNext
      <2> QED
          BY <1>1, <1>3, <2>2, ReachThrough
  <1> QED
      BY <1>4, <1>5

\* The next access keeps it: it stands for what it covers, behind which it has just been ordered.
LEMMA StandsOn ==
    ASSUME passCount \in Nat, NEW links \in SUBSET (Passes \X Passes), NEW x \in Item, NEW y \in Item, NEW b \in Item,
           StandsFor(links, y, x), Covered(y.access, b.access),
           y.pass # b.pass /\ Conflicts(y.access, b.access) => <<y.pass, b.pass>> \in links
    PROVE  StandsFor(links, b, x)
  <1>1. x.access \in Accesses /\ y.access \in Accesses /\ b.access \in Accesses /\ x.pass \in Passes /\ y.pass \in Passes
      BY DEF Item
  <1>2. Conflicts(y.access, b.access)
      BY <1>1, CoverMeets
  <1>3. Covered(x.access, b.access)
      BY <1>1, CoverThrough DEF StandsFor
  <1>4. x.pass = y.pass \/ y.pass \in Reach(links, x.pass)
      BY DEF StandsFor
  <1>5. y.pass = b.pass \/ b.pass \in Reach(links, y.pass)
      <2>1. CASE y.pass # b.pass
          <3>1. <<y.pass, b.pass>> \in links
              BY <1>2, <2>1
          <3> QED
              BY <3>1, ReachNext
      <2> QED
          BY <2>1
  <1>6. x.pass = b.pass \/ b.pass \in Reach(links, x.pass)
      BY <1>1, <1>4, <1>5, ReachThrough
  <1> QED
      BY <1>3, <1>6 DEF StandsFor

LEMMA StandsStill ==
    ASSUME passCount \in Nat, NEW links \in SUBSET (Passes \X Passes), NEW more \in SUBSET (Passes \X Passes),
           links \subseteq more, NEW x \in Item, NEW y \in Item, StandsFor(links, y, x)
    PROVE  StandsFor(more, y, x)
  <1>1. x.pass \in Passes
      BY DEF Item
  <1>2. \A link \in links : link[2] \in Reach(more, link[1])
      BY ReachNext
  <1>3. Reach(links, x.pass) \subseteq Reach(more, x.pass)
      BY <1>1, <1>2, ReachWithin
  <1> QED
      BY <1>3 DEF StandsFor

LEMMA LinksTyped ==
    ASSUME NEW c \in Compiled
    PROVE  Range(c.edges) \in SUBSET (Passes \X Passes) /\ Range(c.frontier) \in SUBSET Item
  <1>1. c.edges \in Seq(Passes \X Passes) /\ c.frontier \in Seq(Item)
      BY DEF Compiled
  <1> QED
      BY <1>1 DEF Range

LEMMA KnowsMore ==
    ASSUME BuildInv, NEW c, NEW k \in Nat, k + 1 \in DOMAIN accesses, Knows(c, k)
    PROVE  Knows(AddAccess(c, accesses[k + 1]), k + 1)
  <1> DEFINE item == accesses[k + 1]
             r == AddAccess(c, item)
             F == Range(c.frontier)
             E == Range(c.edges)
             E2 == Range(r.edges)
             new == {<<old.pass, item.pass>> : old \in {x \in F : x.pass # item.pass /\ Conflicts(x.access, item.access)}}
  <1>1. /\ passCount \in Nat /\ item \in Item /\ c \in Compiled
        /\ \A i \in 1..(k + 1) : i \in DOMAIN accesses /\ accesses[i] \in Item
      <2>1. DOMAIN accesses = 1..Len(accesses) /\ Len(accesses) \in Nat /\ \A i \in DOMAIN accesses : accesses[i] \in Item
          BY DEF BuildInv
      <2>2. \A i \in 1..(k + 1) : i \in DOMAIN accesses
          BY <2>1
      <2> QED
          BY <2>1, <2>2 DEF Knows, BuildInv
  <1>2. /\ r \in Compiled /\ IsInjective(r.edges)
        /\ r.fits => c.fits /\ E2 = E \cup new
        /\ Range(r.frontier) = {item} \cup {x \in F : ~Covered(x.access, item.access)}
      BY <1>1, AddAccessIs DEF Knows
  <1> SUFFICES ASSUME r.fits PROVE Tells(r, k + 1)
      BY <1>2 DEF Knows
  <1>3. Tells(c, k) /\ E2 = E \cup new
      BY <1>2 DEF Knows
  <1>4. E \in SUBSET (Passes \X Passes) /\ E2 \in SUBSET (Passes \X Passes) /\ F \in SUBSET Item
      BY <1>1, <1>2, LinksTyped
  <1>5. \A y \in F : y.pass # item.pass /\ Conflicts(y.access, item.access) => <<y.pass, item.pass>> \in E2
      BY <1>3
  <1>6. \A i \in 1..(k + 1) : i \in 1..k \/ i = k + 1
      OBVIOUS
  <1>7. new \subseteq Demanded
      <2> SUFFICES ASSUME NEW y \in F, y.pass # item.pass, Conflicts(y.access, item.access)
                   PROVE  <<y.pass, item.pass>> \in Demanded
          OBVIOUS
      <2>1. PICK j \in 1..k : y = accesses[j]
          BY <1>3 DEF Tells
      <2>2. j \in DOMAIN accesses /\ j <= k + 1
          BY <1>1, <2>1
      <2>3. y.pass <= item.pass
          BY <2>1, <2>2 DEF BuildInv
      <2>4. y.pass \in Passes /\ item.pass \in Passes
          BY <1>1, <1>4 DEF Item
      <2>5. y.pass < item.pass
          BY <2>3, <2>4 DEF Passes
      <2>6. y \in Range(accesses) /\ item \in Range(accesses)
          BY <2>1, <2>2 DEF Range
      <2>7. PassesConflict(y.pass, item.pass)
          BY <2>6 DEF PassesConflict
      <2> QED
          BY <2>4, <2>5, <2>7 DEF Demanded
  <1> HIDE DEF item, r, E, E2, F, new
  <1>8. Range(explicit) \subseteq E2 /\ E2 \subseteq Demanded
      BY <1>3, <1>7 DEF Tells, E
  <1>9. \A y \in Range(r.frontier) : \E j \in 1..(k + 1) : y = accesses[j]
      <2> SUFFICES ASSUME NEW y \in Range(r.frontier) PROVE \E j \in 1..(k + 1) : y = accesses[j]
          OBVIOUS
      <2>1. CASE y = item
          <3>1. k + 1 \in 1..(k + 1)
              OBVIOUS
          <3> QED
              BY <2>1, <3>1 DEF item
      <2>2. CASE y \in F
          <3>1. PICK j \in 1..k : y = accesses[j]
              BY <1>3, <2>2 DEF Tells, F
          <3>2. j \in 1..(k + 1)
              OBVIOUS
          <3> QED
              BY <3>1, <3>2
      <2> QED
          BY <1>2, <2>1, <2>2
  <1>10. \A i \in 1..k : \E y \in F : StandsFor(E, y, accesses[i]) /\ StandsFor(E2, y, accesses[i])
      <2> SUFFICES ASSUME NEW i \in 1..k
                   PROVE  \E y \in F : StandsFor(E, y, accesses[i]) /\ StandsFor(E2, y, accesses[i])
          OBVIOUS
      <2>1. PICK y \in F : StandsFor(E, y, accesses[i])
          BY <1>3 DEF Tells, F, E
      <2>2. accesses[i] \in Item /\ y \in Item
          BY <1>1, <1>4
      <2>3. StandsFor(E2, y, accesses[i])
          BY <1>1, <1>3, <1>4, <2>1, <2>2, StandsStill
      <2> QED
          BY <2>1, <2>3
  <1>11. \A i \in 1..(k + 1) : \E y \in Range(r.frontier) : StandsFor(E2, y, accesses[i])
      <2> SUFFICES ASSUME NEW i \in 1..(k + 1) PROVE \E y \in Range(r.frontier) : StandsFor(E2, y, accesses[i])
          OBVIOUS
      <2>1. item \in Range(r.frontier)
          BY <1>2
      <2>2. CASE i = k + 1
          <3>1. StandsFor(E2, item, accesses[i])
              BY <2>2 DEF StandsFor, item
          <3> QED
              BY <2>1, <3>1
      <2>3. CASE i \in 1..k
          <3>1. PICK y \in F : StandsFor(E2, y, accesses[i])
              BY <1>10, <2>3
          <3>2. CASE Covered(y.access, item.access)
              <4>1. accesses[i] \in Item /\ y \in Item
                  BY <1>1, <1>4
              <4>2. StandsFor(E2, item, accesses[i])
                  BY <1>1, <1>4, <1>5, <3>1, <3>2, <4>1, StandsOn
              <4> QED
                  BY <2>1, <4>2
          <3>3. CASE ~Covered(y.access, item.access)
              BY <1>2, <3>1, <3>3
          <3> QED
              BY <3>2, <3>3
      <2> QED
          BY <1>6, <2>2, <2>3
  <1>12. ASSUME NEW i \in 1..(k + 1), NEW j \in 1..(k + 1), i < j, accesses[i].pass # accesses[j].pass,
                Conflicts(accesses[i].access, accesses[j].access)
         PROVE  accesses[j].pass \in Reach(E2, accesses[i].pass)
      <2>1. i \in 1..k /\ accesses[i] \in Item
          BY <1>1, <1>12
      <2>2. CASE j \in 1..k
          <3>1. accesses[j].pass \in Reach(E, accesses[i].pass)
              BY <1>3, <1>12, <2>1, <2>2 DEF Tells, E
          <3>2. \A link \in E : link[2] \in Reach(E2, link[1])
              BY <1>1, <1>3, <1>4, ReachNext
          <3>3. accesses[i].pass \in Passes
              BY <2>1 DEF Item
          <3> QED
              BY <1>1, <1>4, <3>1, <3>2, <3>3, ReachWithin
      <2>3. CASE j = k + 1
          <3>1. PICK y \in F : StandsFor(E2, y, accesses[i])
              BY <1>10, <2>1
          <3>2. y \in Item /\ accesses[j] = item
              BY <1>4, <2>3 DEF item
          <3> QED
              BY <1>1, <1>4, <1>5, <1>12, <2>1, <3>1, <3>2, StandsBefore
      <2> QED
          BY <1>6, <2>2, <2>3
  <1> QED
      BY <1>8, <1>9, <1>11, <1>12 DEF Tells, E2

LEMMA KnowsFirst ==
    ASSUME BuildInv
    PROVE  Knows(AppendEdges(Nothing, explicit), 0)
  <1> DEFINE r == AppendEdges(Nothing, explicit)
  <1>1. Nothing \in Compiled /\ IsInjective(Nothing.edges) /\ Range(Nothing.edges) = {} /\ Nothing.frontier = <<>>
      BY DEF Nothing, Compiled, IsInjective, Range
  <1>2. Grown(r, Nothing, Range(explicit))
      BY <1>1, AppendEdgesIs DEF BuildInv
  <1> HIDE DEF r
  <1>3. Range(r.frontier) = {}
      BY <1>1, <1>2 DEF Grown, Range
  <1>4. r.fits => Range(r.edges) = Range(explicit)
      BY <1>1, <1>2 DEF Grown
  <1>5. Range(explicit) \subseteq Demanded
      BY DEF Demanded
  <1>6. r.fits => Tells(r, 0)
      BY <1>3, <1>4, <1>5 DEF Tells
  <1>7. Knows(r, 0)
      BY <1>2, <1>6 DEF Knows, Grown
  <1> QED
      BY <1>7 DEF r

LEMMA KnowsAll ==
    ASSUME BuildInv
    PROVE  Knows(Ordered, Len(accesses))
  <1> DEFINE L == Len(accesses)
             X == {x \in Compiled : IsInjective(x.edges)}
  <1>1. L \in Nat /\ DOMAIN accesses = 1..L /\ \A i \in 1..L : accesses[i] \in Item
      BY DEF BuildInv
  <1>2. AppendEdges(Nothing, explicit) \in X
      BY KnowsFirst DEF Knows
  <1>3. \A x \in X, i \in 1..L : AddAccess(x, accesses[i]) \in X
      <2> SUFFICES ASSUME NEW x \in X, NEW i \in 1..L PROVE AddAccess(x, accesses[i]) \in X
          OBVIOUS
      <2>1. x \in Compiled /\ IsInjective(x.edges) /\ accesses[i] \in Item
          BY <1>1
      <2> QED
          BY <2>1, AddAccessIs
  <1> HIDE DEF L, X
  <1>4. PICK w : OrdersAccesses(w, L)
      BY <1>1, <1>2, <1>3, OrderedWalks
  <1> DEFINE Inv(m) == m <= L => Knows(w[m], m)
             P == {m \in Nat : Inv(m)}
  <1>5. Inv(0)
      BY <1>4, KnowsFirst DEF OrdersAccesses
  <1>6. ASSUME NEW m \in Nat, Inv(m) PROVE Inv(m + 1)
      <2> SUFFICES ASSUME m + 1 <= L PROVE Knows(w[m + 1], m + 1)
          OBVIOUS
      <2>1. m <= L /\ m + 1 \in DOMAIN accesses
          BY <1>1
      <2>2. w[m + 1] = AddAccess(w[m], accesses[m + 1])
          BY <1>4 DEF OrdersAccesses
      <2>3. Knows(w[m], m)
          BY <1>6, <2>1
      <2> QED
          BY <2>1, <2>2, <2>3, KnowsMore
  <1>7. L \in P
      <2> HIDE DEF Inv
      <2>1. 0 \in P /\ \A m \in Nat : m \in P => m + 1 \in P
          BY <1>5, <1>6
      <2> HIDE DEF P
      <2> QED
          BY <1>1, <2>1, Upwards
  <1> QED
      BY <1>1, <1>4, <1>7 DEF OrdersAccesses, L

LEMMA DemandedTyped ==
    ASSUME BuildInv
    PROVE  Demanded \in SUBSET (Passes \X Passes)
  <1>1. Range(explicit) \in SUBSET (Passes \X Passes)
      BY DEF BuildInv, Range
  <1> QED
      BY <1>1 DEF Demanded

\* What must be ordered is ordered, and nothing else.
LEMMA EdgesExact ==
    ASSUME BuildInv, Ordered.fits
    PROVE  /\ Ordered.edges \in Seq(Passes \X Passes) /\ IsInjective(Ordered.edges)
           /\ \A pair \in Demanded : pair[2] \in Reach(Range(Ordered.edges), pair[1])
           /\ \A p \in Passes : Reach(Range(Ordered.edges), p) = Reach(Demanded, p)
  <1> DEFINE c == Ordered
             E == Range(c.edges)
             L == Len(accesses)
  <1>1. passCount \in Nat /\ c \in Compiled /\ IsInjective(c.edges) /\ Tells(c, L)
      BY KnowsAll DEF Knows, BuildInv
  <1>2. E \in SUBSET (Passes \X Passes) /\ Demanded \in SUBSET (Passes \X Passes) /\ c.edges \in Seq(Passes \X Passes)
      BY <1>1, LinksTyped, DemandedTyped DEF Compiled
  <1>3. L \in Nat /\ DOMAIN accesses = 1..L
      BY DEF BuildInv
  <1> HIDE DEF c, E, L
  <1>4. ASSUME NEW pair \in Demanded PROVE pair[2] \in Reach(E, pair[1])
      <2>1. CASE pair \in Range(explicit)
          <3>1. pair \in E
              BY <1>1, <2>1 DEF Tells, E
          <3> QED
              BY <1>1, <1>2, <3>1, ReachNext
      <2>2. CASE pair \notin Range(explicit)
          <3>1. pair[1] < pair[2] /\ PassesConflict(pair[1], pair[2]) /\ pair[1] \in Passes /\ pair[2] \in Passes
              BY <2>2 DEF Demanded
          <3>2. PICK a, b \in Range(accesses) : a.pass = pair[1] /\ b.pass = pair[2] /\ Conflicts(a.access, b.access)
              BY <3>1 DEF PassesConflict
          <3>3. PICK i, j \in 1..L : a = accesses[i] /\ b = accesses[j]
              BY <1>3, <3>2 DEF Range
          <3>4. ~(accesses[j].pass <= accesses[i].pass)
              BY <1>1, <3>1, <3>2, <3>3 DEF Passes
          <3>5. ~(j <= i)
              BY <1>3, <3>4 DEF BuildInv
          <3>6. i < j /\ accesses[i].pass # accesses[j].pass
              BY <1>1, <3>1, <3>2, <3>3, <3>5 DEF Passes
          <3>7. accesses[j].pass \in Reach(E, accesses[i].pass)
              BY <1>1, <3>2, <3>3, <3>6 DEF Tells, E
          <3> QED
              BY <3>2, <3>3, <3>7
      <2> QED
          BY <2>1, <2>2
  <1>5. \A link \in E : link[2] \in Reach(Demanded, link[1])
      <2>1. E \subseteq Demanded
          BY <1>1 DEF Tells, E
      <2> QED
          BY <1>1, <1>2, <2>1, ReachNext
  <1>6. ASSUME NEW p \in Passes PROVE Reach(E, p) = Reach(Demanded, p)
      <2>1. Reach(E, p) \subseteq Reach(Demanded, p)
          BY <1>1, <1>2, <1>5, ReachWithin
      <2>2. Reach(Demanded, p) \subseteq Reach(E, p)
          BY <1>1, <1>2, <1>4, ReachWithin
      <2> QED
          BY <2>1, <2>2
  <1> QED
      BY <1>1, <1>2, <1>4, <1>6 DEF c, E

-----------------------------------------------------------------------------
(* Kahn's traversal                                                          *)

LEMMA ReverseIs ==
    ASSUME NEW Y, NEW s \in Seq(Y)
    PROVE  Reverse(s) \in Seq(Y) /\ Range(Reverse(s)) = Range(s) /\ (IsInjective(s) => IsInjective(Reverse(s)))
  <1> DEFINE n == Len(s)
             r == Reverse(s)
  <1>1. n \in Nat /\ DOMAIN s = 1..n /\ r = [i \in 1..n |-> s[(n - i) + 1]]
      BY DEF Reverse
  <1> HIDE DEF n, r
  <1>2. \A i \in 1..n : (n - i) + 1 \in 1..n /\ (n - ((n - i) + 1)) + 1 = i
      BY <1>1
  <1>3. DOMAIN r = 1..n /\ \A i \in 1..n : r[i] = s[(n - i) + 1]
      BY <1>1
  <1>4. r \in Seq(Y)
      <2>1. \A i \in 1..n : s[(n - i) + 1] \in Y
          BY <1>1, <1>2
      <2> QED
          BY <1>1, <2>1
  <1>5. Range(r) = Range(s)
      <2>1. ASSUME NEW i \in 1..n PROVE s[i] \in Range(r)
          <3>1. (n - i) + 1 \in 1..n /\ r[(n - i) + 1] = s[i]
              BY <1>2, <1>3
          <3> QED
              BY <1>3, <3>1 DEF Range
      <2>2. ASSUME NEW i \in 1..n PROVE r[i] \in Range(s)
          BY <1>1, <1>2, <1>3 DEF Range
      <2> QED
          BY <1>1, <1>3, <2>1, <2>2 DEF Range
  <1>6. ASSUME IsInjective(s) PROVE IsInjective(r)
      <2>1. ASSUME NEW i \in 1..n, NEW j \in 1..n, r[i] = r[j] PROVE i = j
          <3>1. (n - i) + 1 = (n - j) + 1
              BY <1>1, <1>2, <1>3, <1>6, <2>1 DEF IsInjective
          <3> QED
              BY <1>1, <3>1
      <2> QED
          BY <1>3, <2>1 DEF IsInjective
  <1> QED
      BY <1>4, <1>5, <1>6 DEF r

LEMMA AfterIs ==
    ASSUME NEW links \in Seq(Passes \X Passes), NEW p
    PROVE  /\ After(links, p) \in Seq(Passes)
           /\ Range(After(links, p)) = {q \in Passes : <<p, q>> \in Range(links)}
           /\ IsInjective(links) => IsInjective(After(links, p))
  <1> DEFINE Y == Passes \X Passes
             T == {link \in Range(links) : link[1] = p}
             out == Only(Reverse(links), T)
             a == After(links, p)
             m == Len(out)
  <1>1. Range(links) \subseteq Y
      BY DEF Range
  <1>2. out \in Seq(Y) /\ Range(out) = T /\ (IsInjective(links) => IsInjective(out))
      <2>1. Reverse(links) \in Seq(Y) /\ Range(Reverse(links)) = Range(links)
            /\ (IsInjective(links) => IsInjective(Reverse(links)))
          BY ReverseIs
      <2> HIDE DEF Y, T
      <2>2. out \in Seq(Y) /\ Range(out) = Range(links) \cap T /\ (IsInjective(links) => IsInjective(out))
          BY <2>1, OnlyIs
      <2>3. Range(links) \cap T = T
          BY DEF T
      <2> QED
          BY <2>2, <2>3
  <1>3. a = [i \in DOMAIN out |-> out[i][2]]
      BY DEF After
  <1> HIDE DEF out, a
  <1>4. m \in Nat /\ DOMAIN out = 1..m /\ \A i \in 1..m : out[i] \in T
      BY <1>2 DEF Range
  <1> HIDE DEF m
  <1>5. DOMAIN a = 1..m /\ \A i \in 1..m : a[i] = out[i][2] /\ a[i] \in Passes /\ out[i] = <<p, a[i]>>
      BY <1>1, <1>3, <1>4
  <1>6. a \in Seq(Passes)
      <2>1. a \in [1..m -> Passes]
          BY <1>3, <1>4, <1>5
      <2> QED
          BY <1>4, <2>1
  <1>7. Range(a) = {q \in Passes : <<p, q>> \in Range(links)}
      <2>1. ASSUME NEW i \in 1..m PROVE <<p, a[i]>> \in Range(links)
          BY <1>4, <1>5
      <2>2. ASSUME NEW q \in Passes, <<p, q>> \in Range(links) PROVE q \in Range(a)
          <3>1. <<p, q>> \in Range(out)
              BY <1>2, <2>2
          <3>2. PICK i \in 1..m : out[i] = <<p, q>>
              BY <1>4, <3>1 DEF Range
          <3>3. a[i] = q
              BY <1>5, <3>2
          <3> QED
              BY <1>5, <3>3 DEF Range
      <2> QED
          BY <1>5, <2>1, <2>2 DEF Range
  <1>8. ASSUME IsInjective(links) PROVE IsInjective(a)
      <2>1. \A i, j \in 1..m : out[i] = out[j] => i = j
          BY <1>2, <1>4, <1>8 DEF IsInjective
      <2>2. \A i, j \in 1..m : a[i] = a[j] => out[i] = out[j]
          BY <1>5
      <2> QED
          BY <1>5, <2>1, <2>2 DEF IsInjective
  <1> QED
      BY <1>6, <1>7, <1>8 DEF a

QueueSteps(w, b, N, links) == w[0] = b /\ \A n \in 1..N : w[n] = Take(links, w[n - 1], n)

LEMMA Queues ==
    ASSUME NEW X, NEW N \in Nat, NEW links, NEW b \in X, \A q \in X, n \in 1..N : Take(links, q, n) \in X
    PROVE  \E w \in [0..N -> X] : QueueSteps(w, b, N, links)
  <1> DEFINE G == [e \in X \X (1..N) |-> Take(links, e[1], e[2])]
  <1>1. G \in [X \X (1..N) -> X]
      OBVIOUS
  <1>2. \A q \in X, n \in 1..N : G[<<q, n>>] = Take(links, q, n)
      OBVIOUS
  <1> HIDE DEF G
  <1>3. PICK w \in [0..N -> X] : Steps(w, b, N, G)
      BY <1>1, Iterates
  <1>4. ASSUME NEW n \in 1..N PROVE w[n] = Take(links, w[n - 1], n)
      <2>1. n - 1 \in 0..N
          OBVIOUS
      <2>2. w[n - 1] \in X
          BY <2>1
      <2> QED
          BY <1>2, <1>3, <2>2 DEF Steps
  <1> QED
      BY <1>3, <1>4 DEF Steps, QueueSteps

Roots(links) == Only([p \in Passes |-> p], Free(links, {}))

LEMMA RootsAre ==
    ASSUME passCount \in Nat, NEW links
    PROVE  Roots(links) \in Seq(Passes) /\ Range(Roots(links)) = Free(links, {}) /\ IsInjective(Roots(links))
  <1> DEFINE s == [p \in Passes |-> p]
  <1>1. s \in Seq(Passes) /\ IsInjective(s) /\ Range(s) = Passes
      <2>1. s \in [1..passCount -> Passes]
          BY DEF Passes
      <2> QED
          BY <2>1 DEF IsInjective, Range
  <1>2. Free(links, {}) \subseteq Passes
      BY DEF Free
  <1> HIDE DEF s
  <1>3. LET o == Only(s, Free(links, {}))
        IN o \in Seq(Passes) /\ Range(o) = Range(s) \cap Free(links, {}) /\ IsInjective(o)
      BY <1>1, OnlyIs
  <1> QED
      BY <1>1, <1>2, <1>3 DEF Roots, s

\* What is added when the n-th pass is taken.
Added(links, q, n) == Only(After(links, q[n]), Free(links, {q[i] : i \in 1..n}))

LEMMA AddedIs ==
    ASSUME NEW links \in Seq(Passes \X Passes), NEW q, NEW n
    PROVE  LET a == Added(links, q, n)
           IN /\ a \in Seq(Passes) /\ (IsInjective(links) => IsInjective(a))
              /\ Range(a) = {p \in Passes : /\ <<q[n], p>> \in Range(links)
                                            /\ Before(links, p) \subseteq {q[i] : i \in 1..n}}
  <1> DEFINE f == After(links, q[n])
             T == Free(links, {q[i] : i \in 1..n})
             a == Added(links, q, n)
  <1>1. f \in Seq(Passes) /\ Range(f) = {p \in Passes : <<q[n], p>> \in Range(links)}
        /\ (IsInjective(links) => IsInjective(f))
      BY AfterIs
  <1> HIDE DEF f
  <1>2. a \in Seq(Passes) /\ Range(a) = Range(f) \cap T /\ (IsInjective(f) => IsInjective(a))
      BY <1>1, OnlyIs DEF Added, f
  <1> HIDE DEF a
  <1>3. Range(f) \cap T = {p \in Passes : /\ <<q[n], p>> \in Range(links)
                                          /\ Before(links, p) \subseteq {q[i] : i \in 1..n}}
      BY <1>1 DEF Free
  <1> QED
      BY <1>1, <1>2, <1>3 DEF a

LEMMA TakeTyped ==
    ASSUME NEW links \in Seq(Passes \X Passes), NEW q \in Seq(Passes), NEW n \in Nat
    PROVE  Take(links, q, n) \in Seq(Passes)
  <1>1. Added(links, q, n) \in Seq(Passes)
      BY AddedIs
  <1>2. q \o Added(links, q, n) \in Seq(Passes)
      BY <1>1, Joined
  <1> QED
      BY <1>2 DEF Take, Added

LEMMA TopologicalWalks ==
    ASSUME passCount \in Nat, NEW links \in Seq(Passes \X Passes)
    PROVE  \E w : QueueSteps(w, Roots(links), passCount, links) /\ Topological(links) = w[passCount]
  <1> DEFINE b == Roots(links)
             Body(f) == [n \in 0..passCount |-> IF n = 0 THEN b ELSE Take(links, f[n - 1], n)]
             f == CHOOSE f : f = Body(f)
  <1>1. b \in Seq(Passes) /\ \A q \in Seq(Passes), n \in 1..passCount : Take(links, q, n) \in Seq(Passes)
      <2>1. b \in Seq(Passes)
          BY RootsAre
      <2>2. ASSUME NEW q \in Seq(Passes), NEW n \in 1..passCount PROVE Take(links, q, n) \in Seq(Passes)
          <3>1. n \in Nat
              OBVIOUS
          <3> QED
              BY <3>1, TakeTyped
      <2> QED
          BY <2>1, <2>2
  <1>2. Topological(links) = f[passCount]
      BY DEF Topological, Roots
  <1> HIDE DEF b
  <1>3. PICK w \in [0..passCount -> Seq(Passes)] : QueueSteps(w, b, passCount, links)
      BY <1>1, Queues
  <1>4. w = Body(w)
      <2>1. ASSUME NEW n \in 0..passCount PROVE w[n] = IF n = 0 THEN b ELSE Take(links, w[n - 1], n)
          BY <1>3 DEF QueueSteps
      <2> QED
          BY <2>1
  <1>5. f = Body(f)
      BY <1>4
  <1> HIDE DEF f
  <1>6. QueueSteps(f, b, passCount, links)
      <2> DEFINE V(n) == IF n = 0 THEN b ELSE Take(links, f[n - 1], n)
      <2>1. f = [n \in 0..passCount |-> V(n)]
          BY <1>5
      <2> HIDE DEF V
      <2>2. \A n \in 0..passCount : f[n] = V(n)
          BY <2>1
      <2>3. f[0] = b
          <3>1. 0 \in 0..passCount /\ V(0) = b
              BY DEF V
          <3> QED
              BY <2>2, <3>1
      <2>4. ASSUME NEW n \in 1..passCount PROVE f[n] = Take(links, f[n - 1], n)
          <3>1. n \in 0..passCount /\ n # 0
              OBVIOUS
          <3>2. f[n] = V(n)
              BY <2>2, <3>1
          <3> QED
              BY <3>1, <3>2 DEF V
      <2> QED
          BY <2>3, <2>4 DEF QueueSteps
  <1> QED
      BY <1>2, <1>6 DEF b

\* Nothing is queued twice or before what it waits for, and nothing that waits for no more is left out.
KahnInv(links, q, n) ==
    /\ q \in Seq(Passes) /\ IsInjective(q)
    /\ \A i \in 1..Len(q) : \A b \in Before(links, q[i]) : \E j \in 1..Len(q) : j < i /\ j <= n /\ q[j] = b
    /\ \A p \in Passes : (\A b \in Before(links, p) : \E j \in 1..Len(q) : j <= n /\ q[j] = b) => p \in Range(q)

LEMMA KahnStarts ==
    ASSUME passCount \in Nat, NEW links
    PROVE  KahnInv(links, Roots(links), 0)
  <1> DEFINE q == Roots(links)
  <1>1. q \in Seq(Passes) /\ Range(q) = Free(links, {}) /\ IsInjective(q)
      BY RootsAre
  <1> HIDE DEF q
  <1>2. ASSUME NEW i \in 1..Len(q), NEW b \in Before(links, q[i]) PROVE FALSE
      <2>1. q[i] \in Range(q)
          BY <1>1 DEF Range
      <2> QED
          BY <1>1, <1>2, <2>1 DEF Free
  <1>3. ASSUME NEW p \in Passes, \A b \in Before(links, p) : \E j \in 1..Len(q) : j <= 0 /\ q[j] = b
        PROVE  p \in Range(q)
      <2>1. Before(links, p) = {}
          BY <1>3
      <2> QED
          BY <1>1, <2>1 DEF Free
  <1>4. KahnInv(links, q, 0)
      BY <1>1, <1>2, <1>3 DEF KahnInv
  <1> QED
      BY <1>4 DEF q

LEMMA KahnGoesOn ==
    ASSUME NEW links \in Seq(Passes \X Passes), IsInjective(links), NEW q, NEW n \in Nat, KahnInv(links, q, n)
    PROVE  KahnInv(links, Take(links, q, n + 1), n + 1)
  <1> DEFINE L == Len(q)
             a == Added(links, q, n + 1)
             r == Take(links, q, n + 1)
             K == Len(r)
             Waits(p) == Before(links, p)
  <1>1. q \in Seq(Passes) /\ IsInjective(q) /\ L \in Nat /\ DOMAIN q = 1..L
      BY DEF KahnInv
  <1>2. \A i \in 1..L : \A b \in Waits(q[i]) : \E j \in 1..L : j < i /\ j <= n /\ q[j] = b
      BY DEF KahnInv
  <1>3. \A p \in Passes : (\A b \in Waits(p) : \E j \in 1..L : j <= n /\ q[j] = b) => p \in Range(q)
      BY DEF KahnInv
  <1> HIDE DEF Waits
  <1>4. CASE n + 1 > L
      <2>1. r = q
          BY <1>4 DEF Take
      <2> HIDE DEF r, L
      <2>2. \A j \in 1..L : j <= n /\ j <= n + 1
          BY <1>1, <1>4
      <2>3. \A i \in 1..L : \A b \in Waits(q[i]) : \E j \in 1..L : j < i /\ j <= n + 1 /\ q[j] = b
          BY <1>2, <2>2
      <2>4. \A p \in Passes : (\A b \in Waits(p) : \E j \in 1..L : j <= n + 1 /\ q[j] = b) => p \in Range(q)
          BY <1>3, <2>2
      <2>5. KahnInv(links, q, n + 1)
          BY <1>1, <2>3, <2>4 DEF KahnInv, L, Waits
      <2> QED
          BY <2>1, <2>5 DEF r
  <1>5. CASE n + 1 <= L
      <2> DEFINE x == q[n + 1]
                 taken == {q[i] : i \in 1..(n + 1)}
      <2>1. r = q \o a
          BY <1>1, <1>5 DEF Take, Added
      <2>2. /\ a \in Seq(Passes) /\ IsInjective(a)
            /\ Range(a) = {p \in Passes : <<x, p>> \in Range(links) /\ Waits(p) \subseteq taken}
          BY AddedIs DEF Waits
      <2>3. n + 1 \in 1..L /\ \A i \in 1..(n + 1) : i \in 1..L
          BY <1>1, <1>5
      <2>4. \A p : <<x, p>> \in Range(links) => x \in Waits(p)
          BY DEF Waits, Before
      <2> HIDE DEF a, r, L
      <2>5. Range(q) \cap Range(a) = {}
          <3> SUFFICES ASSUME NEW p \in Range(q), p \in Range(a) PROVE FALSE
              OBVIOUS
          <3>1. x \in Waits(p)
              BY <2>2, <2>4
          <3>2. PICK i \in 1..L : p = q[i]
              BY <1>1 DEF Range
          <3>3. PICK j \in 1..L : j <= n /\ q[j] = x
              BY <1>2, <3>1, <3>2
          <3>4. j = n + 1
              BY <1>1, <2>3, <3>3 DEF IsInjective
          <3> QED
              BY <3>3, <3>4
      <2>6. /\ r \in Seq(Passes) /\ IsInjective(r) /\ Range(r) = Range(q) \cup Range(a)
            /\ K = L + Len(a) /\ (\A i \in 1..L : r[i] = q[i]) /\ \A i \in 1..K : i > L => r[i] \in Range(a)
          BY <1>1, <2>1, <2>2, <2>5, Joined DEF L
      <2>7. Len(a) \in Nat /\ K \in Nat
          BY <1>1, <2>2, <2>6
      <2> HIDE DEF K
      <2>8. \A i \in 1..L : i \in 1..K
          BY <1>1, <2>6, <2>7
      <2>9. ASSUME NEW i \in 1..K, NEW b \in Waits(r[i]) PROVE \E j \in 1..K : j < i /\ j <= n + 1 /\ r[j] = b
          <3>1. CASE i \in 1..L
              <4>1. b \in Waits(q[i])
                  BY <2>6, <2>9, <3>1
              <4>2. PICK j \in 1..L : j < i /\ j <= n /\ q[j] = b
                  BY <1>2, <3>1, <4>1
              <4>3. j \in 1..K /\ r[j] = b /\ j <= n + 1
                  BY <2>6, <2>8, <4>2
              <4> QED
                  BY <4>2, <4>3
          <3>2. CASE i > L
              <4>1. r[i] \in Range(a)
                  BY <2>6, <3>2
              <4>2. b \in taken
                  BY <2>2, <2>9, <4>1
              <4>3. PICK j \in 1..(n + 1) : q[j] = b
                  BY <4>2
              <4>4. j \in 1..L /\ j < i /\ j <= n + 1
                  BY <1>1, <2>3, <3>2, <4>3
              <4>5. j \in 1..K /\ r[j] = b
                  BY <2>6, <2>8, <4>3, <4>4
              <4> QED
                  BY <4>4, <4>5
          <3> QED
              BY <1>1, <2>7, <3>1, <3>2
      <2>10. ASSUME NEW p \in Passes, \A b \in Waits(p) : \E j \in 1..K : j <= n + 1 /\ r[j] = b
             PROVE  p \in Range(r)
          <3>1. ASSUME NEW b \in Waits(p) PROVE \E j \in 1..L : j <= n + 1 /\ q[j] = b
              <4>1. PICK j \in 1..K : j <= n + 1 /\ r[j] = b
                  BY <2>10, <3>1
              <4>2. j \in 1..L
                  BY <1>1, <1>5, <2>3, <2>7, <4>1
              <4>3. q[j] = b
                  BY <2>6, <4>1, <4>2
              <4> QED
                  BY <4>1, <4>2, <4>3
          <3>2. CASE x \in Waits(p)
              <4>1. <<x, p>> \in Range(links)
                  <5>1. PICK link \in Range(links) : link[2] = p /\ link[1] = x
                      BY <3>2 DEF Waits, Before
                  <5>2. link \in Passes \X Passes
                      BY <5>1 DEF Range
                  <5>3. link = <<x, p>>
                      BY <5>1, <5>2
                  <5> QED
                      BY <5>1, <5>3
              <4>2. Waits(p) \subseteq taken
                  <5> SUFFICES ASSUME NEW b \in Waits(p) PROVE b \in taken
                      OBVIOUS
                  <5>1. PICK j \in 1..L : j <= n + 1 /\ q[j] = b
                      BY <3>1
                  <5>2. j \in 1..(n + 1)
                      BY <5>1
                  <5> QED
                      BY <5>1, <5>2
              <4> QED
                  BY <2>2, <2>6, <4>1, <4>2
          <3>3. CASE x \notin Waits(p)
              <4>1. \A b \in Waits(p) : \E j \in 1..L : j <= n /\ q[j] = b
                  <5> SUFFICES ASSUME NEW b \in Waits(p) PROVE \E j \in 1..L : j <= n /\ q[j] = b
                      OBVIOUS
                  <5>1. PICK j \in 1..L : j <= n + 1 /\ q[j] = b
                      BY <3>1
                  <5>2. j # n + 1
                      BY <3>3, <5>1
                  <5>3. j <= n
                      BY <5>1, <5>2
                  <5> QED
                      BY <5>1, <5>3
              <4> QED
                  BY <1>3, <2>6, <4>1
          <3> QED
              BY <3>2, <3>3
      <2>11. KahnInv(links, r, n + 1)
          BY <2>6, <2>9, <2>10 DEF KahnInv, K, Waits
      <2> QED
          BY <2>11 DEF r
  <1> QED
      BY <1>1, <1>4, <1>5

LEMMA KahnEnds ==
    ASSUME passCount \in Nat, NEW links \in Seq(Passes \X Passes), IsInjective(links)
    PROVE  KahnInv(links, Topological(links), passCount)
  <1>1. PICK w : QueueSteps(w, Roots(links), passCount, links) /\ Topological(links) = w[passCount]
      BY TopologicalWalks
  <1> DEFINE Inv(n) == n <= passCount => KahnInv(links, w[n], n)
             P == {n \in Nat : Inv(n)}
  <1>2. Inv(0)
      BY <1>1, KahnStarts DEF QueueSteps
  <1>3. ASSUME NEW n \in Nat, Inv(n) PROVE Inv(n + 1)
      <2> SUFFICES ASSUME n + 1 <= passCount PROVE KahnInv(links, w[n + 1], n + 1)
          OBVIOUS
      <2>1. n <= passCount /\ n + 1 \in 1..passCount /\ (n + 1) - 1 = n
          OBVIOUS
      <2>2. w[n + 1] = Take(links, w[n], n + 1)
          BY <1>1, <2>1 DEF QueueSteps
      <2>3. KahnInv(links, w[n], n)
          BY <1>3, <2>1
      <2> QED
          BY <2>2, <2>3, KahnGoesOn
  <1>4. passCount \in P
      <2> HIDE DEF Inv
      <2>1. 0 \in P /\ \A n \in Nat : n \in P => n + 1 \in P
          BY <1>2, <1>3
      <2> HIDE DEF P
      <2> QED
          BY <2>1, Upwards
  <1> QED
      BY <1>1, <1>4

\* A queue without repetition is as long as there are passes just when it holds all of them.
LEMMA AllQueued ==
    ASSUME passCount \in Nat, NEW q \in Seq(Passes), IsInjective(q)
    PROVE  Len(q) = passCount <=> Range(q) = Passes
  <1> DEFINE L == Len(q)
  <1>1. L \in Nat /\ DOMAIN q = 1..L /\ q \in [1..L -> Passes]
      OBVIOUS
  <1> HIDE DEF L
  <1>2. q \in Injection(1..L, Passes)
      BY <1>1 DEF Injection, IsInjective
  <1>3. /\ IsFiniteSet(Passes) /\ Cardinality(Passes) = passCount /\ Cardinality(1..L) = L
      BY <1>1, FS_Interval DEF Passes
  <1>4. L = passCount <=> q \in Surjection(1..L, Passes)
      BY <1>2, <1>3, FS_Injection
  <1>5. q \in Surjection(1..L, Passes) <=> Range(q) = Passes
      BY <1>1 DEF Surjection, Range
  <1> QED
      BY <1>4, <1>5 DEF L

\* Links among passes of which each has another before it close somewhere.
LEMMA CycleIn ==
    ASSUME passCount \in Nat, NEW links \in SUBSET (Passes \X Passes), NEW R \in SUBSET Passes, R # {},
           \A p \in R : \E q \in R : <<q, p>> \in links
    PROVE  \E p \in Passes : p \in Reach(links, p)
  <1> DEFINE Size(p) == Cardinality(Reach(links, p))
             Gaps == {n \in Nat : \E p \in R : Size(p) = passCount - n}
  <1>1. IsFiniteSet(Passes) /\ Cardinality(Passes) = passCount
      BY FS_Interval DEF Passes
  <1>2. ASSUME NEW p \in R PROVE IsFiniteSet(Reach(links, p)) /\ Size(p) \in Nat /\ Size(p) <= passCount
      <2>1. Reach(links, p) \in SUBSET Passes
          BY ReachIs
      <2> QED
          BY <1>1, <2>1, FS_Subset, FS_CardinalityType
  <1> HIDE DEF Size
  <1>3. Gaps # {}
      <2>1. PICK p \in R : TRUE
          OBVIOUS
      <2>2. passCount - Size(p) \in Nat /\ Size(p) = passCount - (passCount - Size(p))
          BY <1>2, <2>1
      <2> QED
          BY <2>2
  <1>4. PICK n \in Gaps : \A m \in Gaps : n <= m
      <2>1. Gaps \in SUBSET Nat
          OBVIOUS
      <2> HIDE DEF Gaps
      <2> QED
          BY <1>3, <2>1, Least
  <1>5. PICK p \in R : Size(p) = passCount - n
      OBVIOUS
  <1>6. PICK q \in R : <<q, p>> \in links
      OBVIOUS
  <1>7. Size(q) <= Size(p)
      <2>1. passCount - Size(q) \in Nat /\ Size(q) = passCount - (passCount - Size(q))
          BY <1>2
      <2>2. passCount - Size(q) \in Gaps
          BY <2>1
      <2>3. n <= passCount - Size(q) /\ n \in Nat
          BY <1>4, <2>2
      <2> QED
          BY <1>2, <1>5, <2>1, <2>3
  <1>8. p \in Reach(links, q) /\ Reach(links, p) \subseteq Reach(links, q)
      <2>1. p \in Reach(links, q)
          BY <1>6, ReachNext
      <2> QED
          BY <2>1, ReachThrough
  <1>9. Size(p) <= Size(q) /\ (Size(p) = Size(q) => Reach(links, p) = Reach(links, q))
      BY <1>2, <1>8, FS_Subset DEF Size
  <1>10. p \in Reach(links, p)
      BY <1>2, <1>7, <1>8, <1>9
  <1> QED
      BY <1>10

\* The traversal sorts all passes, or the links contain a cycle.
LEMMA TopologicalIs ==
    ASSUME passCount \in Nat, NEW links \in Seq(Passes \X Passes), IsInjective(links)
    PROVE  LET q == Topological(links)
           IN /\ q \in Seq(Passes) /\ IsInjective(q)
              /\ Len(q) = passCount =>
                    /\ Range(q) = Passes
                    /\ \A link \in Range(links), i, j \in 1..Len(q) : link = <<q[i], q[j]>> => i < j
              /\ Len(q) # passCount => \E p \in Passes : p \in Reach(Range(links), p)
  <1> DEFINE q == Topological(links)
             L == Len(q)
  <1>1. KahnInv(links, q, passCount)
      BY KahnEnds
  <1> HIDE DEF q
  <1>2. q \in Seq(Passes) /\ IsInjective(q) /\ L \in Nat /\ DOMAIN q = 1..L
      BY <1>1 DEF KahnInv
  <1>3. Len(q) = passCount => Range(q) = Passes
      BY <1>2, AllQueued
  <1>4. ASSUME NEW link \in Range(links), NEW i \in 1..L, NEW j \in 1..L, link = <<q[i], q[j]>> PROVE i < j
      <2>1. q[i] \in Before(links, q[j])
          BY <1>4 DEF Before
      <2>2. PICK k \in 1..L : k < j /\ q[k] = q[i]
          BY <1>1, <2>1 DEF KahnInv
      <2>3. k = i
          BY <1>2, <2>2 DEF IsInjective
      <2> QED
          BY <2>2, <2>3
  <1>5. ASSUME Len(q) # passCount PROVE \E p \in Passes : p \in Reach(Range(links), p)
      <2> DEFINE R == Passes \ Range(q)
                 E == Range(links)
      <2>1. R # {}
          <3>1. Range(q) \subseteq Passes /\ Range(q) # Passes
              <4>1. Range(q) # Passes
                  BY <1>2, <1>5, AllQueued
              <4>2. Range(q) \subseteq Passes
                  BY <1>2 DEF Range
              <4> QED
                  BY <4>1, <4>2
          <3> QED
              BY <3>1
      <2>2. E \in SUBSET (Passes \X Passes)
          BY DEF Range
      <2>3. \A i \in 1..L : i <= passCount
          <3> HIDE DEF L
          <3>1. q \in [1..L -> Passes]
              BY <1>2
          <3>2. q \in Injection(1..L, Passes)
              BY <1>2, <3>1 DEF Injection, IsInjective
          <3>3. IsFiniteSet(Passes) /\ Cardinality(Passes) = passCount /\ Cardinality(1..L) = L
              BY <1>2, FS_Interval DEF Passes
          <3>4. L <= passCount
              BY <3>2, <3>3, FS_Injection
          <3> QED
              BY <1>2, <3>4
      <2>4. ASSUME NEW p \in R PROVE \E b \in R : <<b, p>> \in E
          <3>1. PICK b \in Before(links, p) : ~ \E j \in 1..L : j <= passCount /\ q[j] = b
              BY <1>1 DEF KahnInv
          <3>2. b \notin Range(q)
              BY <1>2, <2>3, <3>1 DEF Range
          <3>3. PICK link \in E : link[2] = p /\ link[1] = b
              BY <3>1 DEF Before
          <3>4. link \in Passes \X Passes
              BY <2>2
          <3>5. link = <<b, p>> /\ b \in Passes
              BY <3>3, <3>4
          <3> QED
              BY <3>2, <3>3, <3>5
      <2> HIDE DEF R, E
      <2>5. R \in SUBSET Passes
          BY DEF R
      <2>6. \E p \in Passes : p \in Reach(E, p)
          BY <2>1, <2>2, <2>4, <2>5, CycleIn
      <2> QED
          BY <2>6 DEF E
  <1> QED
      BY <1>2, <1>3, <1>4, <1>5 DEF q

CompiledInv == status \in {"OK", "CYCLE"} =>
    /\ Ordered.fits /\ edges = Ordered.edges /\ order = Topological(edges)
    /\ status = "OK" <=> Len(order) = passCount

\* What holds of the compiled order.
LEMMA OrderIs ==
    ASSUME BuildInv, CompiledInv, status \in {"OK", "CYCLE"}
    PROVE  /\ edges \in Seq(Passes \X Passes) /\ order \in Seq(Passes) /\ IsInjective(order)
           /\ \A pair \in Demanded : pair[2] \in Reach(Range(edges), pair[1])
           /\ \A p \in Passes : Reach(Range(edges), p) = Reach(Demanded, p)
           /\ status = "OK" => Len(order) = passCount /\ Range(order) = Passes
           /\ status = "OK" =>
                \A edge \in Range(edges), i, j \in 1..Len(order) : edge = <<order[i], order[j]>> => i < j
           /\ status = "CYCLE" => \E p \in Passes : p \in Reach(Range(edges), p)
  <1>1. passCount \in Nat /\ Ordered.fits /\ edges = Ordered.edges /\ order = Topological(edges)
        /\ (status = "OK" <=> Len(order) = passCount)
      BY DEF CompiledInv, BuildInv
  <1>2. /\ edges \in Seq(Passes \X Passes) /\ IsInjective(edges)
        /\ \A pair \in Demanded : pair[2] \in Reach(Range(edges), pair[1])
        /\ \A p \in Passes : Reach(Range(edges), p) = Reach(Demanded, p)
      BY <1>1, EdgesExact
  <1>3. /\ order \in Seq(Passes) /\ IsInjective(order)
        /\ Len(order) = passCount =>
              /\ Range(order) = Passes
              /\ \A link \in Range(edges), i, j \in 1..Len(order) : link = <<order[i], order[j]>> => i < j
        /\ Len(order) # passCount => \E p \in Passes : p \in Reach(Range(edges), p)
      BY <1>1, <1>2, TopologicalIs
  <1> QED
      BY <1>1, <1>2, <1>3

LEMMA PositionIs ==
    ASSUME order \in Seq(Passes), IsInjective(order), NEW i \in 1..Len(order)
    PROVE  Position(order[i]) = i
  <1>1. i \in DOMAIN order
      OBVIOUS
  <1>2. \A j \in DOMAIN order : order[j] = order[i] => j = i
      BY <1>1 DEF IsInjective
  <1> QED
      BY <1>1, <1>2 DEF Position

\* Every edge of the batch comes from an edge between the passes of its tasks.
LEMMA BatchIs ==
    ASSUME BuildInv, CompiledInv, status = "OK"
    PROVE  \A edge \in Range(edges) : \E i, j \in 1..passCount :
               edge = <<order[i], order[j]>> /\ Position(edge[1]) = i /\ Position(edge[2]) = j
  <1>1. /\ edges \in Seq(Passes \X Passes) /\ order \in Seq(Passes) /\ IsInjective(order)
        /\ Len(order) = passCount /\ Range(order) = Passes
      BY OrderIs
  <1>2. \A p \in Passes : \E i \in 1..passCount : order[i] = p
      BY <1>1 DEF Range
  <1> SUFFICES ASSUME NEW edge \in Range(edges)
               PROVE  \E i, j \in 1..passCount :
                          edge = <<order[i], order[j]>> /\ Position(edge[1]) = i /\ Position(edge[2]) = j
      OBVIOUS
  <1>3. edge \in Passes \X Passes
      BY <1>1 DEF Range
  <1>4. PICK i, j \in 1..passCount : order[i] = edge[1] /\ order[j] = edge[2]
      BY <1>2, <1>3
  <1>5. Position(order[i]) = i /\ Position(order[j]) = j
      BY <1>1, PositionIs
  <1>6. edge = <<order[i], order[j]>>
      BY <1>3, <1>4
  <1> QED
      BY <1>4, <1>5, <1>6

LEMMA CompiledExact ==
    ASSUME BuildInv, CompiledInv
    PROVE  CompileIsExact
  <1> SUFFICES ASSUME status \in {"OK", "CYCLE"}
               PROVE  /\ \A p \in Passes : Reach(Range(edges), p) = Reach(Demanded, p)
                      /\ status = "OK" => /\ Range(order) = Passes /\ Len(order) = passCount
                                          /\ \A edge \in BatchEdges : edge[1] < edge[2]
                      /\ status = "CYCLE" => \E p \in Passes : p \in Reach(Demanded, p)
      BY Zenon DEF CompileIsExact
  <1>1. ASSUME status = "OK", NEW edge \in BatchEdges PROVE edge[1] < edge[2]
      <2>1. PICK e \in Range(edges) : edge = <<Position(e[1]), Position(e[2])>>
          BY <1>1 DEF BatchEdges
      <2>2. PICK i, j \in 1..passCount :
               e = <<order[i], order[j]>> /\ Position(e[1]) = i /\ Position(e[2]) = j
          BY <1>1, <2>1, BatchIs
      <2>3. Len(order) = passCount
          BY <1>1, OrderIs
      <2>4. i < j
          BY <1>1, <2>1, <2>2, <2>3, OrderIs
      <2> QED
          BY <2>1, <2>2, <2>4
  <1>2. \A p \in Passes : Reach(Range(edges), p) = Reach(Demanded, p)
      BY OrderIs
  <1>3. status = "OK" => Len(order) = passCount /\ Range(order) = Passes
      BY OrderIs
  <1>4. status = "CYCLE" => \E p \in Passes : p \in Reach(Range(edges), p)
      BY OrderIs
  <1> QED
      BY <1>1, <1>2, <1>3, <1>4

-----------------------------------------------------------------------------
(* Building and compiling                                                    *)

\* No task is cleared before those it waits for have completed.
Cleared(j) == task[j] \in {"QUEUED", "RUNNING"} \/ outcome[j] \in {"COMPLETED", "FAILED"}

BatchInv == submitted =>
    /\ status = "OK" /\ batch = BatchEdges /\ DOMAIN task = Passes
    /\ \A edge \in batch : Cleared(edge[2]) => outcome[edge[1]] = "COMPLETED"

OrderInv == BuildInv /\ CompiledInv /\ BatchInv

LEMMA OrderStarts == Init => OrderInv
  <1> SUFFICES ASSUME Init PROVE OrderInv
      OBVIOUS
  <1>1. BuildInv
      BY DEF Init, BuildInv
  <1> QED
      BY <1>1 DEF Init, OrderInv, CompiledInv, BatchInv

LEMMA BuildKept ==
    ASSUME BuildInv, UNCHANGED <<passCount, accesses, explicit>>
    PROVE  BuildInv'
  BY DEF BuildInv, Item, Passes

LEMMA AddPassBuilds ==
    ASSUME BuildInv, NEW list \in AccessLists, AddPass(list)
    PROVE  BuildInv'
  <1> DEFINE new == [i \in DOMAIN list |-> [pass |-> passCount + 1, access |-> list[i]]]
             Items == [pass : 1..(passCount + 1), access : Accesses]
             n == Len(accesses)
  <1>1. passCount \in Nat /\ passCount' = passCount + 1 /\ accesses' = accesses \o new /\ explicit' = explicit
      BY DEF BuildInv, AddPass
  <1>2. Item \subseteq Items /\ Item' = Items /\ Passes \subseteq Passes'
      BY <1>1 DEF Item, Passes
  <1>3. new \in Seq(Items)
      <2>1. list \in Seq(Accesses)
          BY AccessAssumption
      <2>2. \A i \in DOMAIN list : [pass |-> passCount + 1, access |-> list[i]] \in Items
          BY <1>1, <2>1
      <2>3. DOMAIN list = 1..Len(list) /\ Len(list) \in Nat
          BY <2>1
      <2> QED
          BY <2>2, <2>3
  <1>4. accesses \in Seq(Items)
      <2>1. accesses \in Seq(Item) /\ Item \subseteq Items
          BY <1>2 DEF BuildInv
      <2> HIDE DEF Items
      <2> QED
          BY <2>1
  <1>5. \A x \in Range(new) : x.pass = passCount + 1
      BY DEF Range
  <1>6. n \in Nat /\ DOMAIN accesses = 1..n /\ \A i \in 1..n : accesses[i].pass \in 1..passCount
      <2>1. accesses \in Seq(Item)
          BY DEF BuildInv
      <2>2. n \in Nat /\ DOMAIN accesses = 1..n /\ \A i \in 1..n : accesses[i] \in Item
          BY <2>1
      <2> QED
          BY <2>2 DEF Item, Passes
  <1> HIDE DEF new, Items
  <1>7. /\ accesses' \in Seq(Items) /\ DOMAIN accesses' = 1..Len(accesses')
        /\ \A i \in 1..n : accesses'[i] = accesses[i]
        /\ \A i \in 1..Len(accesses') : i > n => accesses'[i].pass = passCount + 1
      <2>1. /\ accesses \o new \in Seq(Items)
            /\ \A i \in 1..n : (accesses \o new)[i] = accesses[i]
            /\ \A i \in 1..Len(accesses \o new) : i > n => (accesses \o new)[i] \in Range(new)
          BY <1>3, <1>4, Joined
      <2>2. \A i \in 1..Len(accesses') : i > n => accesses'[i].pass = passCount + 1
          BY <1>1, <1>5, <2>1
      <2>3. accesses' \in Seq(Items) /\ \A i \in 1..n : accesses'[i] = accesses[i]
          BY <1>1, <2>1
      <2> QED
          BY <2>2, <2>3
  <1>8. ASSUME NEW i \in DOMAIN accesses', NEW j \in DOMAIN accesses', i <= j
        PROVE  accesses'[i].pass <= accesses'[j].pass
      <2>1. i \in Nat /\ j \in Nat /\ i > 0 /\ j > 0
          BY <1>7
      <2>2. CASE j <= n
          <3>1. i \in 1..n /\ j \in 1..n
              BY <1>6, <1>8, <2>1, <2>2
          <3>2. accesses[i].pass <= accesses[j].pass
              BY <1>6, <1>8, <3>1 DEF BuildInv
          <3> QED
              BY <1>7, <3>1, <3>2
      <2>3. CASE j > n
          <3>1. accesses'[j].pass = passCount + 1
              BY <1>7, <2>3
          <3>2. CASE i > n
              BY <1>1, <1>7, <3>1, <3>2
          <3>3. CASE i \in 1..n
              <4>1. accesses'[i].pass \in 1..passCount
                  BY <1>6, <1>7, <3>3
              <4> QED
                  BY <1>1, <3>1, <4>1
          <3> QED
              BY <1>6, <2>1, <3>2, <3>3
      <2> QED
          BY <1>6, <2>1, <2>2, <2>3
  <1>9. explicit' \in Seq(Passes' \X Passes')
      <2>1. explicit \in Seq(Passes \X Passes) /\ Passes \X Passes \subseteq Passes' \X Passes'
          BY <1>2 DEF BuildInv
      <2> HIDE DEF Passes
      <2> QED
          BY <1>1, <2>1
  <1> QED
      BY <1>1, <1>2, <1>7, <1>8, <1>9 DEF BuildInv

LEMMA AddDependencyBuilds ==
    ASSUME BuildInv, NEW before \in Passes, NEW after \in Passes, AddDependency(before, after)
    PROVE  BuildInv'
  <1>1. explicit' = Append(explicit, <<before, after>>) /\ UNCHANGED <<passCount, accesses>>
      BY DEF AddDependency
  <1>2. explicit' \in Seq(Passes \X Passes)
      BY <1>1 DEF BuildInv
  <1>3. Passes' = Passes /\ Item' = Item
      BY <1>1 DEF Passes, Item
  <1> QED
      BY <1>1, <1>2, <1>3 DEF BuildInv

LEMMA ResetBuilds ==
    ASSUME Reset
    PROVE  BuildInv'
  <1>1. passCount' = 0 /\ accesses' = <<>> /\ explicit' = <<>>
      BY DEF Reset
  <1> QED
      BY <1>1 DEF BuildInv

\* What builds the graph forgets what was compiled.
LEMMA BuildStepOrders ==
    ASSUME OrderInv,
           (\E list \in AccessLists : AddPass(list))
             \/ (\E before, after \in Passes : AddDependency(before, after)) \/ Reset
    PROVE  OrderInv'
  <1>1. BuildInv'
      BY AddPassBuilds, AddDependencyBuilds, ResetBuilds DEF OrderInv
  <1>2. ~submitted /\ Changed
      BY DEF AddPass, AddDependency, Reset
  <1>3. status' = "NONE" /\ ~submitted'
      BY <1>2 DEF Changed
  <1> QED
      BY <1>1, <1>3 DEF OrderInv, CompiledInv, BatchInv

LEMMA OrderedStays ==
    ASSUME UNCHANGED <<accesses, explicit>>
    PROVE  Ordered' = Ordered
  BY DEF Ordered, FoldLeft, MapThenFoldSet

LEMMA TopologicalStays ==
    ASSUME passCount' = passCount, NEW links
    PROVE  Topological(links)' = Topological(links)
  BY DEF Topological, Take, Free, Passes

LEMMA CompileOrders ==
    ASSUME OrderInv, Compile
    PROVE  OrderInv'
  <1>1. ~submitted' /\ UNCHANGED <<passCount, accesses, explicit>>
      BY DEF Compile
  <1>2. BuildInv' /\ Ordered' = Ordered
      BY <1>1, BuildKept, OrderedStays DEF OrderInv
  <1>3. CompiledInv'
      <2> SUFFICES ASSUME status' \in {"OK", "CYCLE"}
                   PROVE  /\ Ordered'.fits /\ edges' = Ordered'.edges /\ (order = Topological(edges))'
                          /\ status' = "OK" <=> Len(order') = passCount'
          BY DEF CompiledInv
      <2>1. Ordered.fits
          BY DEF Compile
      <2>2. /\ edges' = Ordered.edges /\ order' = Topological(Ordered.edges)
            /\ status' = IF Len(order') = passCount THEN "OK" ELSE "CYCLE"
          BY <2>1 DEF Compile
      <2>3. (order = Topological(edges))'
          BY <1>1, <2>2, TopologicalStays
      <2> QED
          BY <1>1, <1>2, <2>1, <2>2, <2>3
  <1> QED
      BY <1>1, <1>2, <1>3 DEF OrderInv, BatchInv

LEMMA CompiledKept ==
    ASSUME CompiledInv, UNCHANGED buildVars
    PROVE  CompiledInv'
  <1>1. UNCHANGED <<passCount, accesses, explicit, edges, order, status>>
      BY DEF buildVars
  <1>2. Ordered' = Ordered
      BY <1>1, OrderedStays
  <1>3. (Topological(edges))' = Topological(edges)
      BY <1>1, TopologicalStays
  <1> QED
      BY <1>1, <1>2, <1>3 DEF CompiledInv

LEMMA BatchEdgesStay ==
    ASSUME UNCHANGED <<edges, order>>
    PROVE  BatchEdges' = BatchEdges
  BY DEF BatchEdges, Position

-----------------------------------------------------------------------------
(* The batch keeps the order that was compiled                               *)

LEMMA BatchTyped ==
    ASSUME BuildInv, CompiledInv, status = "OK"
    PROVE  \A edge \in BatchEdges : edge[1] \in Passes /\ edge[2] \in Passes
  <1> SUFFICES ASSUME NEW edge \in BatchEdges PROVE edge[1] \in Passes /\ edge[2] \in Passes
      OBVIOUS
  <1>1. PICK e \in Range(edges) : edge = <<Position(e[1]), Position(e[2])>>
      BY DEF BatchEdges
  <1>2. PICK i, j \in 1..passCount : Position(e[1]) = i /\ Position(e[2]) = j
      BY BatchIs
  <1> QED
      BY <1>1, <1>2 DEF Passes

LEMMA SubmitOrders ==
    ASSUME OrderInv, Submit
    PROVE  OrderInv'
  <1>1. UNCHANGED buildVars /\ UNCHANGED <<passCount, accesses, explicit, edges, order, status>>
      BY DEF Submit, buildVars
  <1>2. BuildInv' /\ CompiledInv'
      BY <1>1, BuildKept, CompiledKept DEF OrderInv
  <1>3. status = "OK" /\ batch' = BatchEdges
      BY DEF Submit
  <1>4. status' = "OK" /\ batch' = BatchEdges' /\ DOMAIN task' = Passes'
      BY <1>1, <1>3, BatchEdgesStay DEF Submit, Passes
  <1>5. ASSUME NEW edge \in batch' PROVE ~Cleared(edge[2])'
      <2>1. edge[2] \in Passes
          BY <1>3, BatchTyped DEF OrderInv
      <2>2. edge[1] \in Needs(batch', edge[2])
          BY DEF Needs
      <2>3. task'[edge[2]] = "BLOCKED" /\ outcome'[edge[2]] = "NONE"
          BY <2>1, <2>2 DEF Submit
      <2> QED
          BY <2>3 DEF Cleared
  <1> QED
      BY <1>2, <1>4, <1>5 DEF OrderInv, BatchInv

\* What is cleared when a task ends either was before or waited for nothing that has not completed.
LEMMA EndsClears ==
    ASSUME GraphInv, NEW i \in DOMAIN task, NEW result \in Settled, Ends(i, result), task[i] \in Pending,
           result \in {"COMPLETED", "FAILED"} => task[i] = "RUNNING", NEW j \in DOMAIN task, Cleared(j)'
    PROVE  Cleared(j) \/ \A k \in Needs(batch, j) : outcome'[k] = "COMPLETED"
  <1> DEFINE dropped == IF result = "COMPLETED" THEN {} ELSE {k \in Behind({i}) : task[k] = "BLOCKED"}
             completed == {k \in DOMAIN task : outcome[k] = "COMPLETED"} \cup {i}
             ready == {k \in DOMAIN task : task[k] = "BLOCKED" /\ Needs(batch, k) \subseteq completed} \ dropped
  <1>1. task' = [k \in DOMAIN task |-> IF k = i THEN result
                     ELSE IF k \in dropped THEN "CANCELLED"
                     ELSE IF result = "COMPLETED" /\ k \in ready THEN "QUEUED" ELSE task[k]]
      BY Zenon DEF Ends
  <1>2. outcome' = [k \in DOMAIN task |-> IF k = i THEN result
                        ELSE IF k \in dropped THEN "CANCELLED" ELSE outcome[k]]
      BY Zenon DEF Ends
  <1>3. ASSUME result = "COMPLETED", j \in ready, NEW k \in Needs(batch, j) PROVE outcome'[k] = "COMPLETED"
      <2>1. k \in completed /\ dropped = {}
          BY <1>3
      <2> HIDE DEF dropped
      <2> QED
          BY <1>2, <1>3, <2>1
  <1> HIDE DEF dropped, ready
  <1>4. CASE j = i
      <2>1. task'[j] = result /\ outcome'[j] = result
          BY <1>1, <1>2, <1>4
      <2>2. task[i] = "RUNNING"
          BY <2>1 DEF Cleared, Settled
      <2> QED
          BY <1>4, <2>2 DEF Cleared
  <1>5. CASE j # i /\ j \in dropped
      <2>1. task'[j] = "CANCELLED" /\ outcome'[j] = "CANCELLED"
          BY <1>1, <1>2, <1>5
      <2> QED
          BY <2>1 DEF Cleared
  <1>6. CASE j # i /\ j \notin dropped /\ result = "COMPLETED" /\ j \in ready
      BY <1>3, <1>6
  <1>7. CASE j # i /\ j \notin dropped /\ ~(result = "COMPLETED" /\ j \in ready)
      <2>1. task'[j] = task[j] /\ outcome'[j] = outcome[j]
          BY <1>1, <1>2, <1>7
      <2> QED
          BY <2>1 DEF Cleared
  <1> QED
      BY <1>4, <1>5, <1>6, <1>7

\* A step of the tasks that clears no task too early keeps the order.
LEMMA TasksOrder ==
    ASSUME GraphInv, OrderInv, Stable, UNCHANGED buildVars, batch' = batch, submitted' = submitted,
           \A j \in DOMAIN task :
               Cleared(j)' => Cleared(j) \/ \A k \in Needs(batch, j) : outcome'[k] = "COMPLETED"
    PROVE  OrderInv'
  <1>1. UNCHANGED <<passCount, accesses, explicit, edges, order, status>>
      BY DEF buildVars
  <1>2. BuildInv' /\ CompiledInv'
      BY <1>1, BuildKept, CompiledKept DEF OrderInv
  <1>3. BatchInv'
      <2> SUFFICES ASSUME submitted
                   PROVE  /\ status' = "OK" /\ batch' = BatchEdges' /\ DOMAIN task' = Passes'
                          /\ \A edge \in batch' : Cleared(edge[2])' => outcome'[edge[1]] = "COMPLETED"
          BY DEF BatchInv
      <2>1. /\ status = "OK" /\ batch = BatchEdges /\ DOMAIN task = Passes
            /\ \A edge \in batch : Cleared(edge[2]) => outcome[edge[1]] = "COMPLETED"
          BY DEF OrderInv, BatchInv
      <2>2. status' = "OK" /\ batch' = BatchEdges' /\ DOMAIN task' = Passes'
          BY <1>1, <2>1, BatchEdgesStay DEF Stable, Passes
      <2>3. ASSUME NEW edge \in batch, Cleared(edge[2])' PROVE outcome'[edge[1]] = "COMPLETED"
          <3>1. edge[1] \in DOMAIN task /\ edge[2] \in DOMAIN task
              BY <2>1, BatchTyped DEF OrderInv
          <3>2. edge[1] \in Needs(batch, edge[2])
              BY DEF Needs
          <3>3. CASE Cleared(edge[2])
              BY <2>1, <3>1, <3>3 DEF Stable, Settled
          <3> QED
              BY <2>3, <3>1, <3>2, <3>3
      <2> QED
          BY <2>2, <2>3
  <1> QED
      BY <1>2, <1>3 DEF OrderInv

LEMMA TaskStepOrders ==
    ASSUME GraphInv, OrderInv,
           \/ \E i \in DOMAIN task : TaskStarts(i) \/ TaskTakenAway(i)
           \/ \E i \in DOMAIN task, result \in {"COMPLETED", "FAILED"} : TaskEnds(i, result)
    PROVE  OrderInv'
  <1>1. UNCHANGED buildVars /\ UNCHANGED <<passCount, batch, submitted>>
      BY DEF TaskStarts, TaskTakenAway, TaskEnds, buildVars
  <1>2. CASE \E i \in DOMAIN task : TaskStarts(i) \/ TaskTakenAway(i)
      <2>1. PICK i \in DOMAIN task : TaskStarts(i) \/ TaskTakenAway(i)
          BY <1>2
      <2>2. Stable /\ outcome' = outcome
          BY <2>1 DEF TaskStarts, TaskTakenAway, Stable
      <2>3. ASSUME NEW j \in DOMAIN task, Cleared(j)' PROVE Cleared(j)
          <3>1. CASE j = i
              BY <2>1, <2>2, <2>3, <3>1 DEF TaskStarts, TaskTakenAway, Cleared, Gone
          <3>2. CASE j # i
              BY <2>1, <2>2, <2>3, <3>2 DEF TaskStarts, TaskTakenAway, Cleared
          <3> QED
              BY <3>1, <3>2
      <2> QED
          BY <1>1, <2>2, <2>3, TasksOrder
  <1>3. CASE \E i \in DOMAIN task, result \in {"COMPLETED", "FAILED"} : TaskEnds(i, result)
      <2>1. PICK i \in DOMAIN task, result \in {"COMPLETED", "FAILED"} : TaskEnds(i, result)
          BY <1>3
      <2> DEFINE ended == IF i \in stopping THEN "CANCELLED" ELSE result
      <2>2. ended \in Settled /\ task[i] \in Pending /\ task[i] = "RUNNING" /\ Ends(i, ended)
          BY <2>1 DEF TaskEnds, Settled, Pending
      <2> HIDE DEF ended
      <2>3. Stable
          BY <1>1, <2>2, EndsHolds
      <2>4. \A j \in DOMAIN task :
                Cleared(j)' => Cleared(j) \/ \A k \in Needs(batch, j) : outcome'[k] = "COMPLETED"
          BY <2>2, EndsClears
      <2> QED
          BY <1>1, <2>3, <2>4, TasksOrder
  <1> QED
      BY <1>2, <1>3

\* Of the calls only a cancellation and a release touch the tasks.
LEMMA CallStepOrders ==
    ASSUME GraphInv, OrderInv, CallStep
    PROVE  OrderInv'
  <1>1. UNCHANGED buildVars /\ UNCHANGED <<passCount, batch>>
      BY DEF CallStep, QueryLooks, QueryReturns, CancelPasses, CancelDrops, CancelAsks, CheckLooks, CheckEnds,
             Release, ReleaseEnds, CallFails, GiveUp, buildVars
  <1>2. CASE CancelDrops
      <2>1. call.at \in DOMAIN task /\ task[call.at] \in {"BLOCKED", "QUEUED"} /\ Ends(call.at, "CANCELLED")
            /\ submitted' = submitted
          BY <1>2 DEF CancelDrops, At
      <2>2. task[call.at] \in Pending /\ "CANCELLED" \in Settled /\ "CANCELLED" \notin {"COMPLETED", "FAILED"}
          BY <2>1 DEF Pending, Settled
      <2>3. Stable
          BY <1>1, <2>1, <2>2, EndsHolds
      <2>4. \A j \in DOMAIN task :
                Cleared(j)' => Cleared(j) \/ \A k \in Needs(batch, j) : outcome'[k] = "COMPLETED"
          BY <2>1, <2>2, EndsClears
      <2> QED
          BY <1>1, <2>1, <2>3, <2>4, TasksOrder
  <1>3. CASE Release
      <2>1. call.at \in DOMAIN task /\ task' = [task EXCEPT ![call.at] = Released] /\ outcome' = outcome
            /\ submitted' = submitted
          BY <1>3 DEF Release, At
      <2>2. Stable
          BY <2>1 DEF Stable
      <2>3. \A j \in DOMAIN task : Cleared(j)' => Cleared(j)
          BY <2>1 DEF Cleared, Released
      <2> QED
          BY <1>1, <2>1, <2>2, <2>3, TasksOrder
  <1>4. CASE ReleaseEnds
      <2>1. ~submitted' /\ UNCHANGED <<passCount, accesses, explicit>>
          BY <1>1, <1>4 DEF ReleaseEnds, buildVars
      <2>2. BuildInv' /\ CompiledInv'
          BY <1>1, <2>1, BuildKept, CompiledKept DEF OrderInv
      <2> QED
          BY <2>1, <2>2 DEF OrderInv, BatchInv
  <1>5. CASE UNCHANGED <<task, outcome, submitted>>
      <2>1. Stable /\ \A j \in DOMAIN task : Cleared(j)' => Cleared(j)
          BY <1>5 DEF Stable, Cleared
      <2> QED
          BY <1>1, <1>5, <2>1, TasksOrder
  <1>6. CancelDrops \/ Release \/ ReleaseEnds \/ UNCHANGED <<task, outcome, submitted>>
      BY DEF CallStep, QueryLooks, QueryReturns, CancelPasses, CancelAsks, CheckLooks, CheckEnds,
             CallFails, GiveUp, taskVars
  <1> QED
      BY <1>2, <1>3, <1>4, <1>5, <1>6

LEMMA NextOrders ==
    ASSUME GraphInv, OrderInv, [Next]_vars
    PROVE  OrderInv'
  <1>1. CASE (\E list \in AccessLists : AddPass(list))
               \/ (\E before, after \in Passes : AddDependency(before, after)) \/ Reset
      BY <1>1, BuildStepOrders
  <1>2. CASE Compile
      BY <1>2, CompileOrders
  <1>3. CASE Submit
      BY <1>3, SubmitOrders
  <1>4. CASE \/ \E i \in DOMAIN task : TaskStarts(i) \/ TaskTakenAway(i)
             \/ \E i \in DOMAIN task, result \in {"COMPLETED", "FAILED"} : TaskEnds(i, result)
      BY <1>4, TaskStepOrders
  <1>5. CASE CallStep
      BY <1>5, CallStepOrders
  <1>6. CASE (\E name \in Calls : Begin(name)) \/ UNCHANGED vars
      <2>1. UNCHANGED buildVars /\ UNCHANGED <<batch, submitted, task, outcome>>
          BY <1>6 DEF Begin, vars, taskVars
      <2>2. Stable /\ \A j \in DOMAIN task : Cleared(j)' => Cleared(j)
          BY <2>1 DEF Stable, Cleared
      <2> QED
          BY <2>1, <2>2, TasksOrder
  <1> QED
      BY <1>1, <1>2, <1>3, <1>4, <1>5, <1>6 DEF Next

\* A task that has run was cleared, and so was everything the compiled links put before it.
LEMMA OrderExcludes ==
    ASSUME GraphInv, OrderInv
    PROVE  ConflictsExclude
  <1> DEFINE E == Range(edges)
  <1> SUFFICES ASSUME submitted, NEW i \in DOMAIN task, NEW j \in DOMAIN task, Ran(j),
                      <<order[i], order[j]>> \in Demanded, outcome[i] # "COMPLETED"
               PROVE  FALSE
      BY Zenon DEF ConflictsExclude
  <1>1. /\ BuildInv /\ CompiledInv /\ passCount \in Nat
        /\ status = "OK" /\ batch = BatchEdges /\ DOMAIN task = 1..passCount
        /\ \A edge \in batch : Cleared(edge[2]) => outcome[edge[1]] = "COMPLETED"
      BY DEF OrderInv, BatchInv, BuildInv, Passes
  <1>2. /\ edges \in Seq(Passes \X Passes) /\ order \in Seq(Passes) /\ IsInjective(order) /\ Len(order) = passCount
        /\ \A pair \in Demanded : pair[2] \in Reach(E, pair[1])
      BY <1>1, OrderIs
  <1> DEFINE S == {order[k] : k \in {n \in 1..passCount : ~Cleared(n)}}
  <1>3. ASSUME NEW k \in 1..passCount, outcome[k] # "COMPLETED", NEW link \in E, link[1] = order[k]
        PROVE  link[2] \in S
      <2>1. PICK m, n \in 1..passCount :
               link = <<order[m], order[n]>> /\ Position(link[1]) = m /\ Position(link[2]) = n
          BY <1>1, BatchIs
      <2>2. m = k
          BY <1>2, <1>3, <2>1, PositionIs
      <2>3. <<k, n>> \in batch
          BY <1>1, <2>1, <2>2 DEF BatchEdges
      <2>4. ~Cleared(n)
          BY <1>1, <1>3, <2>3
      <2> QED
          BY <2>1, <2>4
  <1>4. \A k \in 1..passCount : ~Cleared(k) => outcome[k] # "COMPLETED"
      BY DEF Cleared
  <1>5. Nexts(E, {order[i]}) \subseteq S
      BY <1>1, <1>3 DEF Nexts
  <1>6. Closed(E, S)
      <2>1. ASSUME NEW link \in E, link[1] \in S PROVE link[2] \in S
          <3>1. PICK k \in 1..passCount : link[1] = order[k] /\ ~Cleared(k)
              BY <2>1
          <3> QED
              BY <1>3, <1>4, <3>1
      <2> HIDE DEF S
      <2> QED
          BY <2>1 DEF Closed, Nexts
  <1>7. order[j] \in Reach(E, order[i])
      BY <1>2
  <1>8. order[i] \in Passes /\ E \in SUBSET (Passes \X Passes)
      BY <1>1, <1>2 DEF Range
  <1>9. order[j] \in S
      <2> HIDE DEF S, E
      <2> QED
          BY <1>1, <1>5, <1>6, <1>7, <1>8, ReachIs
  <1>10. PICK k \in 1..passCount : order[k] = order[j] /\ ~Cleared(k)
      BY <1>9
  <1>11. k = j
      BY <1>1, <1>2, <1>10 DEF IsInjective
  <1>12. Cleared(j)
      BY DEF Ran, Cleared, GraphInv, TasksInv, TaskInv, Settled
  <1> QED
      BY <1>10, <1>11, <1>12

\* Whatever passes, accesses and declared dependencies a graph is built from, and whatever intervals
\* the frontier drops, compile orders each conflict and each declared dependency, orders nothing else,
\* sorts the batch, and reports a cycle exactly when the declarations contain one (compile, appendEdge).
THEOREM CompileExact == Spec => []CompileIsExact
  <1>1. OrderInv => CompileIsExact
      BY CompiledExact DEF OrderInv
  <1>2. GraphInv /\ OrderInv /\ [Next]_vars => GraphInv' /\ OrderInv'
      BY NextHolds, NextOrders
  <1> QED
      BY InitHolds, OrderStarts, <1>1, <1>2, PTL DEF Spec

\* For any graph and any number of passes, a pass runs only when every earlier pass it conflicts with
\* and every pass it was declared to follow has completed, however tasks fail, are cancelled or are
\* taken away (submit).
THEOREM ConflictsExcluded == Spec => []ConflictsExclude
  <1>1. GraphInv /\ OrderInv => ConflictsExclude
      BY OrderExcludes
  <1>2. GraphInv /\ OrderInv /\ [Next]_vars => GraphInv' /\ OrderInv'
      BY NextHolds, NextOrders
  <1> QED
      BY InitHolds, OrderStarts, <1>1, <1>2, PTL DEF Spec
=============================================================================
