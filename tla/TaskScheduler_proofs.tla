------------------------ MODULE TaskScheduler_proofs ------------------------
(***************************************************************************)
(* Proofs about TaskScheduler, for any number of slots, workers, threads,  *)
(* providers and edges.  IInv is the inductive invariant: the typing, the  *)
(* exactness of the counters and of the edge pool, the prerequisites and   *)
(* the ownership of running tasks are provable only together.  On it rest  *)
(* what one step may do to a task, who may sleep, why no ring of tasks     *)
(* blocks itself, and what shutdown leaves behind.                         *)
(***************************************************************************)
EXTENDS TaskScheduler, FiniteSetTheorems, WellFoundedInduction, TLAPS

IInv ==
    /\ TypeOK
    /\ CountersExact
    /\ EdgesExact
    /\ PrerequisitesHonoured
    /\ RunsOnceOnItsOwner

-----------------------------------------------------------------------------
(* Finiteness *)

\* The edges between finitely many slots are finitely many.
LEMMA EdgesFinite == IsFiniteSet(Edges)
<1> DEFINE Keys == (Slots \X Slots) \X Copies
           f == [k \in Keys |-> [parent |-> k[1][1], child |-> k[1][2], copy |-> k[2]]]
<1>1. IsFiniteSet(Keys)
  BY FS_Product, SlotsAssumption, CapacityAssumption
<1>2. f \in Surjection(Keys, Edges)
  <2>1. f \in [Keys -> Edges]
    BY DEF Edges
  <2>2. ASSUME NEW e \in Edges PROVE \E k \in Keys : f[k] = e
    <3>1. <<<<e.parent, e.child>>, e.copy>> \in Keys
      BY DEF Edges
    <3>2. f[<<<<e.parent, e.child>>, e.copy>>] = e
      BY <3>1 DEF Edges
    <3> QED BY <3>1, <3>2
  <2> QED BY <2>1, <2>2 DEF Surjection
<1> QED BY <1>1, <1>2, FS_Surjection

\* So is every set of edges, and every set of slots.
LEMMA FiniteSubsets ==
    /\ \A E \in SUBSET Edges : IsFiniteSet(E) /\ Cardinality(E) \in Nat
    /\ \A S \in SUBSET Slots : IsFiniteSet(S) /\ Cardinality(S) \in Nat
    /\ \A T \in SUBSET Threads : IsFiniteSet(T) /\ Cardinality(T) \in Nat
    /\ \A W \in SUBSET Workers : IsFiniteSet(W) /\ Cardinality(W) \in Nat
BY EdgesFinite, FS_Subset, FS_CardinalityType, SlotsAssumption, ThreadsAssumption

\* The prerequisite edges of one new task are as many as its prerequisites.
LEMMA NewEdges ==
    ASSUME NEW S \in SUBSET Slots, NEW s \in Slots
    PROVE  LET new == [parent : S, child : {s}, copy : {1}]
           IN  /\ new \subseteq Edges
               /\ Cardinality(new) = Cardinality(S)
<1> DEFINE new == [parent : S, child : {s}, copy : {1}]
           f == [p \in S |-> [parent |-> p, child |-> s, copy |-> 1]]
<1>1. f \in Bijection(S, new)
  <2>1. f \in [S -> new]
    OBVIOUS
  <2>2. \A p, q \in S : f[p] = f[q] => p = q
    <3> SUFFICES ASSUME NEW p \in S, NEW q \in S, f[p] = f[q] PROVE p = q
      OBVIOUS
    <3>1. f[p].parent = p /\ f[q].parent = q
      OBVIOUS
    <3> QED BY <3>1
  <2>3. \A e \in new : e.parent \in S /\ f[e.parent] = e
    OBVIOUS
  <2> QED BY <2>1, <2>2, <2>3 DEF Bijection, Injection, Surjection, IsInjective
<1>2. ExistsBijection(S, new)
  BY <1>1 DEF ExistsBijection
<1>3. Cardinality(new) = Cardinality(S)
  BY <1>2, FiniteSubsets, FS_Bijection
<1>4. new \subseteq Edges
  BY CapacityAssumption DEF Edges
<1> QED BY <1>3, <1>4

-----------------------------------------------------------------------------
(* Unlinking edges and cancelling a tree *)

\* unlinkEdgeLocked keeps nRemaining the number of incoming edges.
LEMMA UnlinkExact ==
    ASSUME TypeOK, EdgesExact, NEW gone \in SUBSET edges, Unlink(gone)
    PROVE  /\ edges' \subseteq Edges
           /\ Cardinality(edges') <= EdgeCapacity
           /\ \A s \in Slots : Incoming(s)' = Incoming(s) \ gone
           /\ \A s \in Slots : remaining'[s] = Cardinality(Incoming(s)')
           /\ remaining' \in [Slots -> Nat]
<1>1. edges' = edges \ gone /\ edges \subseteq Edges
  BY DEF Unlink, TypeOK
<1>2. \A s \in Slots : Incoming(s)' = Incoming(s) \ gone
  BY <1>1 DEF Incoming
<1>3. Cardinality(edges') <= EdgeCapacity
  <2>1. Cardinality(edges') <= Cardinality(edges)
    BY <1>1, FS_Subset, FiniteSubsets
  <2>2. Cardinality(edges') \in Nat /\ Cardinality(edges) \in Nat
    BY <1>1, FiniteSubsets
  <2> QED BY <2>1, <2>2, CapacityAssumption DEF EdgesExact
<1>4. ASSUME NEW s \in Slots PROVE remaining'[s] = Cardinality(Incoming(s)')
  <2>1. Incoming(s) \in SUBSET Edges
    BY <1>1 DEF Incoming
  <2>2. IsFiniteSet(Incoming(s))
    BY <2>1, FiniteSubsets
  <2>3. Cardinality(Incoming(s) \ gone) = Cardinality(Incoming(s)) - Cardinality(Incoming(s) \cap gone)
    BY <2>2, FS_Difference
  <2>4. remaining'[s] = remaining[s] - Cardinality(gone \cap Incoming(s))
    BY DEF Unlink
  <2>5. gone \cap Incoming(s) = Incoming(s) \cap gone
    OBVIOUS
  <2> QED BY <1>2, <2>3, <2>4, <2>5 DEF EdgesExact
<1>5. remaining' \in [Slots -> Nat]
  <2>1. \A s \in Slots : Cardinality(Incoming(s)') \in Nat
    BY <1>1, FiniteSubsets DEF Incoming
  <2> QED BY <1>4, <2>1 DEF Unlink
<1> QED BY <1>1, <1>2, <1>3, <1>4, <1>5

\* The cascade holds the cancellable roots, only cancellable slots, and every
\* cancellable child of a member.
LEMMA CascadeFacts ==
    ASSUME NEW roots \in SUBSET Slots, edges \subseteq Edges
    PROVE  /\ Cascade(roots) \subseteq Cancellable
           /\ roots \cap Cancellable \subseteq Cascade(roots)
           /\ \A e \in edges : e.parent \in Cascade(roots) /\ e.child \in Cancellable
                                  => e.child \in Cascade(roots)
<1> DEFINE Closed(C) == /\ roots \cap Cancellable \subseteq C
                        /\ \A e \in edges : e.parent \in C /\ e.child \in Cancellable => e.child \in C
<1>1. Cascade(roots) = {s \in Slots : \A C \in SUBSET Slots : Closed(C) => s \in C}
  BY DEF Cascade
<1>2. Closed(Cancellable) /\ Cancellable \in SUBSET Slots
  BY DEF Cancellable
<1>3. Cascade(roots) \subseteq Cancellable
  BY <1>1, <1>2
<1>4. roots \cap Cancellable \subseteq Cascade(roots)
  BY <1>1
<1>5. ASSUME NEW e \in edges, e.parent \in Cascade(roots), e.child \in Cancellable
      PROVE  e.child \in Cascade(roots)
  <2>1. e.child \in Slots
    BY DEF Edges
  <2>2. \A C \in SUBSET Slots : Closed(C) => e.child \in C
    BY <1>1, <1>5
  <2> QED BY <1>1, <2>1, <2>2
<1> QED BY <1>3, <1>4, <1>5

\* What a critical section that settles the slot done (None: no slot) leaves.
AfterSettling(done) ==
    /\ state' \in [Slots -> States]
    /\ cancelled' \in [Slots -> BOOLEAN]
    /\ home' \in [Slots -> Workers \cup {None}]
    /\ remaining' \in [Slots -> Nat]
    /\ edges' \subseteq Edges
    /\ readyCpu' \in Nat /\ readyCpu' = Cardinality(QueuedCpu')
    /\ Awaiting' = Awaiting \ {done}
    /\ waiting' = {}
    /\ \A s \in Slots : IF s = done THEN state'[s] \in Settled
                        ELSE state'[s] = "RUNNING" <=> state[s] = "RUNNING"
    /\ EdgesExact'
    /\ PrerequisitesHonoured'

\* done is a slot that may settle, and every dependent of it is a root; or no slot.
MaySettle(done, roots) ==
    done \in Slots => /\ state[done] \in {"RUNNING", "AWAITING"}
                      /\ \A e \in edges : e.parent = done => e.child \in roots

\* Dropping a tree of dependents, alone or with the failure that causes it,
\* keeps the edge pool and the counters exact.
LEMMA CancelTreeExact ==
    ASSUME IInv, NEW roots \in SUBSET Slots, NEW done, NEW outcome \in Settled,
           CancelTree(roots, done, outcome), MaySettle(done, roots),
           UNCHANGED executor,
           unmet' = unmet \/ unmet' = [c \in Slots |-> unmet[c] \ {done}]
    PROVE  AfterSettling(done)
<1> DEFINE dropped == Cascade(roots)
           gone == {e \in edges : e.child \in dropped \/ e.parent \in dropped \cup {done}}
<1>0. TypeOK /\ EdgesExact /\ CountersExact /\ PrerequisitesHonoured
  BY DEF IInv
<1>1. /\ dropped \subseteq Cancellable /\ roots \cap Cancellable \subseteq dropped
      /\ \A e \in edges : e.parent \in dropped /\ e.child \in Cancellable => e.child \in dropped
  BY <1>0, CascadeFacts DEF TypeOK
<1>2. /\ state' = [s \in Slots |-> IF s \in dropped THEN "CANCELLED"
                                   ELSE IF s = done THEN outcome ELSE state[s]]
      /\ cancelled' = [s \in Slots |-> cancelled[s] \/ s \in dropped]
      /\ home' = [s \in Slots |-> IF s \in dropped THEN None ELSE home[s]]
      /\ readyCpu' = readyCpu - Cardinality(dropped \cap QueuedCpu)
      /\ Unlink(gone)
      /\ waiting' = {}
  BY DEF CancelTree, NotifyFinished
<1>3. dropped \subseteq Slots /\ (done \in Slots => done \notin dropped)
  BY <1>1 DEF Cancellable, MaySettle
<1>4. /\ edges' = edges \ gone
      /\ edges' \subseteq Edges
      /\ Cardinality(edges') <= EdgeCapacity
      /\ \A s \in Slots : Incoming(s)' = Incoming(s) \ gone
      /\ \A s \in Slots : remaining'[s] = Cardinality(Incoming(s)')
      /\ remaining' \in [Slots -> Nat]
  <2>1. gone \in SUBSET edges
    OBVIOUS
  <2>2. edges' = edges \ gone
    BY <1>2 DEF Unlink
  <2>3. Unlink(gone)
    BY <1>2
  <2> HIDE DEF gone
  <2> QED BY <1>0, <2>1, <2>2, <2>3, UnlinkExact
\* Every edge that is left joins two slots the cascade did not touch.
<1>5. \A e \in edges : e.child \in Slots /\ e.parent \in Slots /\ state[e.child] = "BLOCKED"
  BY <1>0 DEF EdgesExact, TypeOK, Edges
<1>6. \A e \in edges : e.parent \in dropped \cup {done} => e.child \in dropped
  BY <1>1, <1>5 DEF MaySettle, Cancellable
<1>7. \A e \in edges' : e \in edges /\ e.child \notin dropped \cup {done} /\ e.parent \notin dropped \cup {done}
  BY <1>4, <1>5, <1>6 DEF MaySettle
<1>8. \A s \in Slots \ dropped : Incoming(s)' = Incoming(s)
  BY <1>4, <1>6 DEF Incoming
<1>9. state' \in [Slots -> States] /\ cancelled' \in [Slots -> BOOLEAN] /\ home' \in [Slots -> Workers \cup {None}]
  BY <1>0, <1>2 DEF TypeOK, States, Settled
<1>10. readyCpu' \in Nat /\ readyCpu' = Cardinality(QueuedCpu')
  <2>1. QueuedCpu' = QueuedCpu \ dropped
    BY <1>2, <1>3 DEF QueuedCpu, MaySettle, Settled
  <2>2. QueuedCpu \in SUBSET Slots /\ QueuedCpu' \in SUBSET Slots
    BY DEF QueuedCpu
  <2>3. IsFiniteSet(QueuedCpu) /\ Cardinality(QueuedCpu') \in Nat
    BY <2>2, FiniteSubsets
  <2>4. Cardinality(QueuedCpu \ dropped) = Cardinality(QueuedCpu) - Cardinality(QueuedCpu \cap dropped)
    BY <2>3, FS_Difference
  <2>5. QueuedCpu \cap dropped = dropped \cap QueuedCpu
    OBVIOUS
  <2> QED BY <1>0, <1>2, <2>1, <2>3, <2>4, <2>5 DEF CountersExact
<1>11. Awaiting' = Awaiting \ {done}
  BY <1>1, <1>2, <1>3 DEF Awaiting, Cancellable, MaySettle, Settled
<1>12. \A s \in Slots : IF s = done THEN state'[s] \in Settled
                        ELSE state'[s] = "RUNNING" <=> state[s] = "RUNNING"
  BY <1>1, <1>2, <1>3 DEF Cancellable
<1>13. EdgesExact'
  <2>1. \A e \in edges' : state'[e.parent] \in Live /\ state'[e.child] = "BLOCKED"
    BY <1>0, <1>2, <1>5, <1>7 DEF EdgesExact
  <2>2. ASSUME NEW s \in Slots, state'[s] = "BLOCKED" PROVE Incoming(s)' # {}
    <3>1. s \notin dropped /\ state[s] = "BLOCKED"
      BY <1>2, <2>2 DEF Settled
    <3> QED BY <1>0, <1>8, <3>1 DEF EdgesExact
  <2> QED BY <1>4, <2>1, <2>2 DEF EdgesExact
<1>14. PrerequisitesHonoured'
  <2> SUFFICES ASSUME NEW s \in Slots
      PROVE /\ state'[s] \in {"QUEUED", "RUNNING", "AWAITING", "COMPLETED", "FAILED"} => unmet'[s] = {}
            /\ state'[s] = "BLOCKED" => unmet'[s] = {e.parent : e \in Incoming(s)'}
    BY DEF PrerequisitesHonoured
  <2>1. unmet'[s] = unmet[s] \/ unmet'[s] = unmet[s] \ {done}
    OBVIOUS
  <2>2. CASE state'[s] \in {"QUEUED", "RUNNING", "AWAITING", "COMPLETED", "FAILED"}
    <3>1. state[s] \in {"QUEUED", "RUNNING", "AWAITING", "COMPLETED", "FAILED"}
      BY <1>2, <2>2 DEF MaySettle
    <3> QED BY <1>0, <2>1, <2>2, <3>1 DEF PrerequisitesHonoured
  <2>3. CASE state'[s] = "BLOCKED"
    <3>1. s \notin dropped /\ state[s] = "BLOCKED"
      BY <1>2, <2>3 DEF Settled
    <3>2. unmet[s] = {e.parent : e \in Incoming(s)'}
      BY <1>0, <1>8, <3>1 DEF PrerequisitesHonoured
    <3>3. done \notin unmet[s]
      BY <1>7, <3>2 DEF Incoming
    <3> QED BY <2>1, <2>3, <3>2, <3>3
  <2> QED BY <2>2, <2>3
<1> QED BY <1>2, <1>4, <1>9, <1>10, <1>11, <1>12, <1>13, <1>14 DEF AfterSettling

\* The dependents a completion releases are the blocked tasks whose every edge
\* comes from it.
LEMMA ReleasedFacts ==
    ASSUME TypeOK, EdgesExact, NEW s \in Slots
    PROVE  \A c \in Slots :
             /\ c \in Released(s) => state[c] = "BLOCKED" /\ Incoming(c) \subseteq Outgoing(s)
             /\ c \notin Released(s) /\ state[c] = "BLOCKED" => Incoming(c) \ Outgoing(s) # {}
<1> SUFFICES ASSUME NEW c \in Slots
             PROVE  /\ c \in Released(s) => state[c] = "BLOCKED" /\ Incoming(c) \subseteq Outgoing(s)
                    /\ c \notin Released(s) /\ state[c] = "BLOCKED" => Incoming(c) \ Outgoing(s) # {}
  OBVIOUS
<1> DEFINE In == Incoming(c)
           both == Outgoing(s) \cap Incoming(c)
<1>1. IsFiniteSet(In) /\ both \in SUBSET In /\ remaining[c] = Cardinality(In)
  BY FiniteSubsets DEF Incoming, EdgesExact, TypeOK
<1>2. Cardinality(In) = Cardinality(both) => In = both
  BY <1>1, FS_Subset
<1>3. state[c] = "BLOCKED" => In # {}
  BY DEF EdgesExact
<1>4. c \in Released(s) <=> state[c] = "BLOCKED" /\ both # {} /\ remaining[c] = Cardinality(both)
  BY DEF Released
<1>5. c \in Released(s) => state[c] = "BLOCKED" /\ In \subseteq Outgoing(s)
  BY <1>1, <1>2, <1>4
<1>6. ASSUME c \notin Released(s), state[c] = "BLOCKED" PROVE In \ Outgoing(s) # {}
  <2> SUFFICES ASSUME In \subseteq Outgoing(s) PROVE FALSE
    OBVIOUS
  <2>1. both = In
    OBVIOUS
  <2> QED BY <1>1, <1>3, <1>4, <1>6, <2>1
<1> QED BY <1>5, <1>6

\* finishTaskLocked, on a task that runs or awaits its provider.
LEMMA SettleExact ==
    ASSUME IInv, NEW t \in Threads \cup Workers, NEW s \in Slots, NEW result,
           state[s] \in {"RUNNING", "AWAITING"}, Settle(t, s, result), UNCHANGED executor
    PROVE  /\ AfterSettling(s)
           /\ unmet' \in [Slots -> SUBSET Slots]
           /\ asleep' \subseteq asleep
<1> DEFINE outcome == Outcome(s, result)
           kids == {e.child : e \in Outgoing(s)}
           readyNow == {c \in Released(s) : executor[c] = "CPU"}
<1>0. TypeOK /\ EdgesExact /\ CountersExact /\ PrerequisitesHonoured
  BY DEF IInv
<1>1. outcome \in Settled
  BY DEF Outcome, Settled
<1>2. unmet' = [c \in Slots |-> IF outcome = "COMPLETED" THEN unmet[c] \ {s} ELSE unmet[c]]
  BY DEF Settle
<1>3. unmet' \in [Slots -> SUBSET Slots]
  BY <1>0, <1>2 DEF TypeOK
<1>4. unmet' = unmet \/ unmet' = [c \in Slots |-> unmet[c] \ {s}]
  BY <1>0, <1>2 DEF TypeOK
<1>5. CASE ~(outcome = "COMPLETED" /\ ~closing)
  <2>1. CancelTree(kids, s, outcome) /\ UNCHANGED asleep
    BY <1>5 DEF Settle
  <2>2. kids \in SUBSET Slots /\ MaySettle(s, kids)
    BY <1>0 DEF Outgoing, MaySettle, TypeOK, Edges
  <2> HIDE DEF outcome, kids
  <2>3. AfterSettling(s)
    BY <1>1, <1>4, <2>1, <2>2, CancelTreeExact
  <2> QED BY <1>3, <2>1, <2>3
<1>6. CASE outcome = "COMPLETED" /\ ~closing
  <2>1. /\ state' = [c \in Slots |-> IF c \in Released(s) THEN "QUEUED"
                                     ELSE IF c = s THEN outcome ELSE state[c]]
        /\ home' = [c \in Slots |-> IF c \in Released(s) THEN HomeFor(t, executor[c]) ELSE home[c]]
        /\ readyCpu' = readyCpu + Cardinality(readyNow)
        /\ Unlink(Outgoing(s))
        /\ NotifyReady(Cardinality(readyNow))
        /\ waiting' = {}
        /\ UNCHANGED cancelled
    BY <1>6 DEF Settle, NotifyFinished
  <2>2. /\ edges' = edges \ Outgoing(s)
        /\ edges' \subseteq Edges
        /\ Cardinality(edges') <= EdgeCapacity
        /\ \A c \in Slots : Incoming(c)' = Incoming(c) \ Outgoing(s)
        /\ \A c \in Slots : remaining'[c] = Cardinality(Incoming(c)')
        /\ remaining' \in [Slots -> Nat]
    <3>1. Outgoing(s) \in SUBSET edges
      BY DEF Outgoing
    <3>2. edges' = edges \ Outgoing(s)
      BY <2>1 DEF Unlink
    <3> QED BY <1>0, <2>1, <3>1, <3>2, UnlinkExact
  <2>3. \A c \in Slots :
          /\ c \in Released(s) => state[c] = "BLOCKED" /\ Incoming(c) \subseteq Outgoing(s)
          /\ c \notin Released(s) /\ state[c] = "BLOCKED" => Incoming(c) \ Outgoing(s) # {}
    BY <1>0, ReleasedFacts
  <2>4. Released(s) \subseteq Slots /\ s \notin Released(s)
    BY <2>3 DEF Released
  <2>5. asleep' \subseteq asleep
    BY <2>1 DEF NotifyReady
  <2>6. /\ state' \in [Slots -> States] /\ cancelled' \in [Slots -> BOOLEAN]
        /\ home' \in [Slots -> Workers \cup {None}]
    <3>1. \A c \in Slots : HomeFor(t, executor[c]) \in Workers \cup {None}
      BY DEF HomeFor
    <3> QED BY <1>0, <1>1, <2>1, <3>1 DEF TypeOK, States, Live
  <2>7. readyCpu' \in Nat /\ readyCpu' = Cardinality(QueuedCpu')
    <3>1. QueuedCpu' = QueuedCpu \cup readyNow
      BY <1>1, <2>1, <2>4 DEF QueuedCpu, Settled
    <3>2. QueuedCpu \cap readyNow = {}
      BY <2>3, <2>4 DEF QueuedCpu
    <3>3. QueuedCpu \in SUBSET Slots /\ readyNow \in SUBSET Slots /\ QueuedCpu' \in SUBSET Slots
      BY <2>4 DEF QueuedCpu
    <3>4. /\ IsFiniteSet(QueuedCpu) /\ IsFiniteSet(readyNow)
          /\ Cardinality(QueuedCpu) \in Nat /\ Cardinality(readyNow) \in Nat
          /\ Cardinality(QueuedCpu') \in Nat
      BY <3>3, FiniteSubsets
    <3>5. Cardinality(QueuedCpu \cup readyNow)
            = Cardinality(QueuedCpu) + Cardinality(readyNow) - Cardinality(QueuedCpu \cap readyNow)
      BY <3>4, FS_Union
    <3>6. Cardinality(QueuedCpu \cap readyNow) = 0
      BY <3>2, FS_EmptySet
    <3> QED BY <1>0, <2>1, <3>1, <3>4, <3>5, <3>6 DEF CountersExact
  <2>8. Awaiting' = Awaiting \ {s}
    BY <1>6, <2>1, <2>3 DEF Awaiting
  <2>9. \A c \in Slots : IF c = s THEN state'[c] \in Settled
                         ELSE state'[c] = "RUNNING" <=> state[c] = "RUNNING"
    BY <1>1, <2>1, <2>3, <2>4
  <2>10. EdgesExact'
    <3>1. ASSUME NEW e \in edges' PROVE state'[e.parent] \in Live /\ state'[e.child] = "BLOCKED"
      <4>1. e \in edges /\ e.parent # s /\ e.parent \in Slots /\ e.child \in Slots
        BY <1>0, <2>2 DEF Outgoing, TypeOK, Edges
      <4>2. e \in Incoming(e.child) \ Outgoing(s)
        BY <2>2, <4>1 DEF Incoming
      <4>3. e.child \notin Released(s)
        BY <2>3, <4>1, <4>2
      <4>4. state[e.parent] \in Live /\ state[e.child] = "BLOCKED"
        BY <1>0, <4>1 DEF EdgesExact
      <4> QED BY <2>1, <4>1, <4>3, <4>4 DEF Live
    <3>2. ASSUME NEW c \in Slots, state'[c] = "BLOCKED" PROVE Incoming(c)' # {}
      <4>1. c \notin Released(s) /\ state[c] = "BLOCKED"
        BY <1>1, <2>1, <3>2 DEF Settled
      <4> QED BY <2>2, <2>3, <4>1
    <3> QED BY <2>2, <3>1, <3>2 DEF EdgesExact
  <2>11. PrerequisitesHonoured'
    <3> SUFFICES ASSUME NEW c \in Slots
        PROVE /\ state'[c] \in {"QUEUED", "RUNNING", "AWAITING", "COMPLETED", "FAILED"} => unmet'[c] = {}
              /\ state'[c] = "BLOCKED" => unmet'[c] = {e.parent : e \in Incoming(c)'}
      BY DEF PrerequisitesHonoured
    <3>1. unmet'[c] = unmet[c] \ {s}
      BY <1>2, <1>6
    <3>2. state[c] = "BLOCKED" => unmet[c] = {e.parent : e \in Incoming(c)}
      BY <1>0 DEF PrerequisitesHonoured
    <3>3. CASE c \in Released(s)
      <4>1. \A e \in Incoming(c) : e.parent = s
        BY <2>3, <3>3 DEF Outgoing
      <4>2. unmet'[c] = {}
        BY <2>3, <3>1, <3>2, <3>3, <4>1
      <4> QED BY <2>1, <3>3, <4>2
    <3>4. CASE c \notin Released(s) /\ state[c] = "BLOCKED"
      <4>1. {e.parent : e \in Incoming(c) \ Outgoing(s)} = unmet[c] \ {s}
        BY <3>2, <3>4 DEF Incoming, Outgoing
      <4>2. state'[c] = "BLOCKED"
        BY <2>1, <3>4
      <4> QED BY <2>2, <3>1, <4>1, <4>2
    <3>5. CASE c \notin Released(s) /\ state[c] # "BLOCKED"
      <4>1. state'[c] \in {"QUEUED", "RUNNING", "AWAITING", "COMPLETED", "FAILED"} => unmet[c] = {}
        BY <1>0, <2>1, <3>5 DEF PrerequisitesHonoured
      <4>2. state'[c] # "BLOCKED"
        BY <1>1, <2>1, <3>5 DEF Settled
      <4> QED BY <3>1, <4>1, <4>2
    <3> QED BY <3>3, <3>4, <3>5
  <2> QED BY <1>3, <2>1, <2>2, <2>5, <2>6, <2>7, <2>8, <2>9, <2>10, <2>11 DEF AfterSettling
<1> QED BY <1>5, <1>6

-----------------------------------------------------------------------------
(* Each action preserves IInv *)

ProviderRuns == {t \in Threads : job[t] # None /\ executor[job[t]] \in Providers}

\* A step that starts and ends no callback leaves the running tasks with their
\* threads.
LEMMA OwnersUndisturbed ==
    ASSUME IInv, UNCHANGED <<job, bound>>,
           \A s \in Slots : state'[s] = "RUNNING" <=> state[s] = "RUNNING",
           Awaiting' \subseteq Awaiting,
           \A s \in Slots : state[s] \in {"RUNNING", "AWAITING"} => executor'[s] = executor[s]
    PROVE  RunsOnceOnItsOwner' /\ ProviderRuns' = ProviderRuns
<1>1. TypeOK /\ RunsOnceOnItsOwner
  BY DEF IInv
<1>2. \A t \in Threads \cup Workers : job[t] # None =>
        job[t] \in Slots /\ state[job[t]] = "RUNNING" /\ executor'[job[t]] = executor[job[t]]
  BY <1>1 DEF RunsOnceOnItsOwner, TypeOK
<1>3. \A s \in Awaiting : executor'[s] = executor[s]
  BY DEF Awaiting
<1>4. \A s \in Awaiting' : executor'[s] \in Providers /\ bound'[executor'[s]] # None
  BY <1>1, <1>3 DEF RunsOnceOnItsOwner
<1>5. ProviderRuns' = ProviderRuns
  BY <1>2 DEF ProviderRuns
<1>6. \A t \in Threads : job'[t] # None =>
         LET x == executor'[job'[t]]
         IN  IF x \in Providers THEN bound'[x] = t ELSE t = Owner /\ (x = "CPU" => Workers = {})
  BY <1>1, <1>2 DEF RunsOnceOnItsOwner
<1>7. \A w \in Workers : job'[w] # None => executor'[job'[w]] = "CPU"
  BY <1>1, <1>2 DEF RunsOnceOnItsOwner
<1>8. \A s \in Slots : state'[s] = "RUNNING" <=> \E t \in Threads \cup Workers : job'[t] = s
  BY <1>1 DEF RunsOnceOnItsOwner
<1>9. \A t, u \in Threads \cup Workers : job'[t] # None /\ job'[t] = job'[u] => t = u
  BY <1>1 DEF RunsOnceOnItsOwner
<1> QED BY <1>4, <1>5, <1>6, <1>7, <1>8, <1>9 DEF RunsOnceOnItsOwner

\* A free slot has no edge.
LEMMA FreeHasNoEdges ==
    ASSUME TypeOK, EdgesExact, NEW s \in Free
    PROVE  Incoming(s) = {} /\ Outgoing(s) = {}
BY DEF EdgesExact, Free, Incoming, Outgoing, Live

\* submit and submitAfter keep the invariant: the new edges lead to the new task alone.
LEMMA SubmitKeeps ==
    ASSUME IInv, NEW t \in Threads \cup Workers, NEW s \in Free, NEW x \in Executors,
           NEW before \in SUBSET (Slots \ Free), Submit(t, s, x, before)
    PROVE  IInv'
<1> DEFINE failed == \E p \in before : state[p] \in {"FAILED", "CANCELLED"}
           unresolved == {p \in before : state[p] \in Live}
           new == [parent : unresolved, child : {s}, copy : {1}]
<1>0. /\ TypeOK /\ CountersExact /\ EdgesExact /\ PrerequisitesHonoured
      /\ s \in Slots /\ state[s] = "INVALID" /\ before \subseteq Slots /\ s \notin before
  BY DEF IInv, Free
<1>1. Incoming(s) = {} /\ Outgoing(s) = {}
  BY <1>0, FreeHasNoEdges
<1>2. /\ executor' = [executor EXCEPT ![s] = x]
      /\ cancelled' = [cancelled EXCEPT ![s] = failed]
      /\ unmet' = [unmet EXCEPT ![s] = {p \in before : state[p] # "COMPLETED"}]
      /\ UNCHANGED <<generation, pending, executing, exited, job, waitFor, bound, closing, initialized>>
  BY DEF Submit
<1>3. unresolved \in SUBSET Slots /\ s \notin unresolved
  BY <1>0
<1>4. new \subseteq Edges /\ Cardinality(new) = Cardinality(unresolved)
  BY <1>0, <1>3, NewEdges
<1>5. Cardinality(unresolved) \in Nat
  BY <1>3, FiniteSubsets
<1>6. CASE failed
  <2>1. /\ state' = [state EXCEPT ![s] = "CANCELLED"]
        /\ remaining' = [remaining EXCEPT ![s] = 0]
        /\ waiting' = {}
        /\ UNCHANGED <<home, edges, readyCpu, asleep>>
    BY <1>6 DEF Submit, NotifyFinished
  <2>2. TypeOK'
    BY <1>0, <1>2, <2>1 DEF TypeOK, States, Settled
  <2>3. QueuedCpu' = QueuedCpu /\ Awaiting' = Awaiting
    BY <1>0, <1>2, <2>1 DEF QueuedCpu, Awaiting, TypeOK
  <2>4. RunsOnceOnItsOwner' /\ ProviderRuns' = ProviderRuns
    BY <1>0, <1>2, <2>1, <2>3, OwnersUndisturbed DEF TypeOK
  <2>5. CountersExact'
    BY <1>0, <1>2, <2>1, <2>3, <2>4 DEF CountersExact, ProviderRuns
  <2>6. EdgesExact'
    <3>1. \A c \in Slots : Incoming(c)' = Incoming(c)
      BY <2>1 DEF Incoming
    <3>2. \A e \in edges : e.parent # s /\ e.child # s
      BY <1>1 DEF Incoming, Outgoing
    <3>3. Cardinality(Incoming(s)) = 0
      BY <1>1, FS_EmptySet
    <3>4. \A e \in edges' : state'[e.parent] \in Live /\ state'[e.child] = "BLOCKED"
      <4>1. \A e \in edges : e.parent \in Slots /\ e.child \in Slots
        BY <1>0 DEF TypeOK, Edges
      <4> QED BY <1>0, <2>1, <3>2, <4>1 DEF EdgesExact, TypeOK
    <3>5. ASSUME NEW c \in Slots
          PROVE /\ remaining'[c] = Cardinality(Incoming(c)')
                /\ state'[c] = "BLOCKED" => Incoming(c)' # {}
      <4>1. CASE c = s
        BY <1>0, <1>1, <2>1, <3>1, <3>3, <4>1 DEF TypeOK
      <4>2. CASE c # s
        BY <1>0, <2>1, <3>1, <4>2 DEF TypeOK, EdgesExact
      <4> QED BY <4>1, <4>2
    <3> QED BY <1>0, <2>1, <3>4, <3>5 DEF EdgesExact
  <2>7. PrerequisitesHonoured'
    BY <1>0, <1>2, <2>1 DEF PrerequisitesHonoured, TypeOK, Incoming
  <2> QED BY <2>2, <2>4, <2>5, <2>6, <2>7 DEF IInv
<1>7. CASE ~failed
  <2>1. /\ state' = [state EXCEPT ![s] = IF unresolved = {} THEN "QUEUED" ELSE "BLOCKED"]
        /\ remaining' = [remaining EXCEPT ![s] = Cardinality(unresolved)]
        /\ edges' = edges \cup new
        /\ Cardinality(edges) + Cardinality(unresolved) <= EdgeCapacity
        /\ UNCHANGED waiting
    BY <1>7 DEF Submit
  <2>2. IF unresolved = {}
        THEN /\ home' = [home EXCEPT ![s] = HomeFor(t, x)]
             /\ readyCpu' = readyCpu + CpuCount(x)
             /\ NotifyReady(CpuCount(x))
        ELSE UNCHANGED <<home, readyCpu, asleep>>
    BY <1>7 DEF Submit
  <2>3. {p \in before : state[p] # "COMPLETED"} = unresolved
    <3>1. \A p \in before : state[p] \in Live \cup {"COMPLETED"}
      BY <1>0, <1>7 DEF TypeOK, States, Settled, Free
    <3>2. "COMPLETED" \notin Live
      BY DEF Live
    <3> QED BY <3>1, <3>2
  <2>4. HomeFor(t, x) \in Workers \cup {None} /\ CpuCount(x) \in Nat
    BY DEF HomeFor, CpuCount
  <2>5. TypeOK'
    <3>1. home' \in [Slots -> Workers \cup {None}] /\ readyCpu' \in Nat /\ asleep' \subseteq Workers
      BY <1>0, <2>2, <2>4 DEF TypeOK, NotifyReady
    <3>2. state' \in [Slots -> States]
      BY <1>0, <2>1 DEF TypeOK, States, Live
    <3>3. remaining' \in [Slots -> Nat] /\ edges' \subseteq Edges
      BY <1>0, <1>4, <1>5, <2>1 DEF TypeOK
    <3>4. unmet' \in [Slots -> SUBSET Slots]
      BY <1>0, <1>2 DEF TypeOK
    <3> QED BY <1>0, <1>2, <2>1, <3>1, <3>2, <3>3, <3>4 DEF TypeOK
  <2>6. Awaiting' = Awaiting /\ \A c \in Slots : state'[c] = "RUNNING" <=> state[c] = "RUNNING"
    BY <1>0, <2>1 DEF Awaiting, TypeOK
  <2>7. RunsOnceOnItsOwner' /\ ProviderRuns' = ProviderRuns
    BY <1>0, <1>2, <2>6, OwnersUndisturbed DEF TypeOK
  <2>8. readyCpu' = Cardinality(QueuedCpu')
    <3>1. QueuedCpu \in SUBSET Slots /\ s \notin QueuedCpu
      BY <1>0 DEF QueuedCpu
    <3>2. IsFiniteSet(QueuedCpu)
      BY <3>1, FiniteSubsets
    <3>3. CASE unresolved = {} /\ x = "CPU"
      <4>1. QueuedCpu' = QueuedCpu \cup {s}
        BY <1>0, <1>2, <2>1, <3>3 DEF QueuedCpu, TypeOK
      <4>2. Cardinality(QueuedCpu \cup {s}) = Cardinality(QueuedCpu) + 1
        BY <3>1, <3>2, FS_AddElement
      <4> QED BY <1>0, <2>2, <3>3, <4>1, <4>2 DEF CountersExact, CpuCount
    <3>4. CASE ~(unresolved = {} /\ x = "CPU")
      <4>1. QueuedCpu' = QueuedCpu
        BY <1>0, <1>2, <2>1, <3>4 DEF QueuedCpu, TypeOK
      <4>2. readyCpu' = readyCpu
        BY <1>0, <2>2, <3>4 DEF CpuCount, TypeOK
      <4> QED BY <1>0, <4>1, <4>2 DEF CountersExact
    <3> QED BY <3>3, <3>4
  <2>9. CountersExact'
    BY <1>0, <1>2, <2>6, <2>7, <2>8 DEF CountersExact, ProviderRuns
  <2>10. Incoming(s)' = new /\ \A c \in Slots \ {s} : Incoming(c)' = Incoming(c)
    BY <1>1, <2>1 DEF Incoming
  <2>11. new = {} <=> unresolved = {}
    <3>1. \A p \in unresolved : [parent |-> p, child |-> s, copy |-> 1] \in new
      OBVIOUS
    <3>2. \A e \in new : e.parent \in unresolved
      OBVIOUS
    <3> QED BY <3>1, <3>2
  <2>12. EdgesExact'
    <3>1. ASSUME NEW e \in edges' PROVE state'[e.parent] \in Live /\ state'[e.child] = "BLOCKED"
      <4>1. CASE e \in edges
        <5>1. e.parent # s /\ e.child # s /\ e.parent \in Slots /\ e.child \in Slots
          BY <1>0, <1>1, <4>1 DEF Incoming, Outgoing, TypeOK, Edges
        <5> QED BY <1>0, <2>1, <4>1, <5>1 DEF EdgesExact, TypeOK
      <4>2. CASE e \in new
        <5>1. e.parent \in unresolved /\ e.child = s
          BY <4>2
        <5> QED BY <1>0, <1>3, <2>1, <5>1 DEF TypeOK
      <4> QED BY <2>1, <4>1, <4>2
    <3>2. ASSUME NEW c \in Slots
          PROVE /\ remaining'[c] = Cardinality(Incoming(c)')
                /\ state'[c] = "BLOCKED" => Incoming(c)' # {}
      <4>1. CASE c = s
        BY <1>0, <1>4, <2>1, <2>10, <2>11, <4>1 DEF TypeOK
      <4>2. CASE c # s
        BY <1>0, <2>1, <2>10, <4>2 DEF TypeOK, EdgesExact
      <4> QED BY <4>1, <4>2
    <3>3. Cardinality(edges') <= EdgeCapacity
      <4>1. /\ IsFiniteSet(edges) /\ IsFiniteSet(new) /\ Cardinality(edges) \in Nat
            /\ IsFiniteSet(edges \cap new) /\ Cardinality(edges \cap new) \in Nat
        <5>1. edges \in SUBSET Edges /\ new \in SUBSET Edges /\ edges \cap new \in SUBSET Edges
          BY <1>0, <1>4 DEF TypeOK
        <5> QED BY <5>1, FiniteSubsets
      <4>2. Cardinality(edges \cup new) = Cardinality(edges) + Cardinality(new) - Cardinality(edges \cap new)
        BY <4>1, FS_Union
      <4> QED BY <1>4, <1>5, <2>1, <4>1, <4>2, CapacityAssumption
    <3> QED BY <3>1, <3>2, <3>3 DEF EdgesExact
  <2>13. PrerequisitesHonoured'
    <3> SUFFICES ASSUME NEW c \in Slots
        PROVE /\ state'[c] \in {"QUEUED", "RUNNING", "AWAITING", "COMPLETED", "FAILED"} => unmet'[c] = {}
              /\ state'[c] = "BLOCKED" => unmet'[c] = {e.parent : e \in Incoming(c)'}
      BY DEF PrerequisitesHonoured
    <3>1. CASE c = s
      <4>1. unmet'[s] = unresolved
        BY <1>0, <1>2, <2>3 DEF TypeOK
      <4>2. {e.parent : e \in new} = unresolved
        <5>1. \A p \in unresolved : [parent |-> p, child |-> s, copy |-> 1] \in new
          OBVIOUS
        <5>2. \A p \in unresolved : p = [parent |-> p, child |-> s, copy |-> 1].parent
          OBVIOUS
        <5>3. \A e \in new : e.parent \in unresolved
          OBVIOUS
        <5> HIDE DEF new, unresolved
        <5> QED BY <5>1, <5>2, <5>3
      <4>3. state'[s] = IF unresolved = {} THEN "QUEUED" ELSE "BLOCKED"
        BY <1>0, <2>1 DEF TypeOK
      <4> QED BY <2>10, <3>1, <4>1, <4>2, <4>3
    <3>2. CASE c # s
      BY <1>0, <1>2, <2>1, <2>10, <3>2 DEF PrerequisitesHonoured, TypeOK
    <3> QED BY <3>1, <3>2
  <2> QED BY <2>5, <2>7, <2>9, <2>12, <2>13 DEF IInv
<1> QED BY <1>6, <1>7

\* submitBatch keeps the invariant: its edges stay among the new tasks.
LEMMA BatchKeeps ==
    ASSUME IInv, NEW t \in Threads \cup Workers, NEW new \in SUBSET Free,
           NEW position \in [new -> 1..Cardinality(new)], NEW x \in [new -> Executors],
           NEW added \in SUBSET [parent : new, child : new, copy : Copies],
           SubmitBatch(t, position, x, added)
    PROVE  IInv'
<1> DEFINE after(s) == {e \in added : e.child = s}
           roots == {s \in new : after(s) = {}}
           rootsCpu == {s \in roots : x[s] = "CPU"}
<1>0. /\ TypeOK /\ CountersExact /\ EdgesExact /\ PrerequisitesHonoured
      /\ new \subseteq Slots /\ \A s \in new : state[s] = "INVALID"
  BY DEF IInv, Free
<1>1. \A s \in new : Incoming(s) = {} /\ Outgoing(s) = {}
  BY <1>0, FreeHasNoEdges
<1>2. /\ Cardinality(edges) + Cardinality(added) <= EdgeCapacity
      /\ state' = [s \in Slots |-> IF s \in roots THEN "QUEUED"
                                   ELSE IF s \in new THEN "BLOCKED" ELSE state[s]]
      /\ executor' = [s \in Slots |-> IF s \in new THEN x[s] ELSE executor[s]]
      /\ cancelled' = [s \in Slots |-> cancelled[s] /\ s \notin new]
      /\ home' = [s \in Slots |-> IF s \in roots THEN HomeFor(t, x[s])
                                  ELSE IF s \in new THEN None ELSE home[s]]
      /\ remaining' = [s \in Slots |-> IF s \in new THEN Cardinality(after(s)) ELSE remaining[s]]
      /\ edges' = edges \cup added
      /\ unmet' = [s \in Slots |-> IF s \in new THEN {e.parent : e \in after(s)} ELSE unmet[s]]
      /\ readyCpu' = readyCpu + Cardinality(rootsCpu)
      /\ asleep' \subseteq asleep
      /\ UNCHANGED <<generation, pending, executing, exited, job, waitFor, waiting,
                     bound, closing, initialized>>
  <2>1. DOMAIN position = new
    OBVIOUS
  <2> QED BY <2>1 DEF SubmitBatch, WakeAllWorkers
<1>3. \A e \in added : e \in Edges /\ e.parent \in new /\ e.child \in new
  BY <1>0 DEF Edges
<1>4. \A s \in new : after(s) \subseteq Edges /\ Cardinality(after(s)) \in Nat
  BY <1>3, FiniteSubsets
<1>5. rootsCpu \in SUBSET Slots /\ IsFiniteSet(rootsCpu) /\ Cardinality(rootsCpu) \in Nat
  BY <1>0, FiniteSubsets
<1>6. TypeOK'
  <2>1. state' \in [Slots -> States] /\ executor' \in [Slots -> Executors]
        /\ cancelled' \in [Slots -> BOOLEAN]
    BY <1>0, <1>2 DEF TypeOK, States, Live
  <2>2. home' \in [Slots -> Workers \cup {None}]
    BY <1>0, <1>2 DEF TypeOK, HomeFor
  <2>3. remaining' \in [Slots -> Nat]
    BY <1>0, <1>2, <1>4 DEF TypeOK
  <2>4. edges' \subseteq Edges
    BY <1>0, <1>2, <1>3 DEF TypeOK
  <2>5. unmet' \in [Slots -> SUBSET Slots]
    BY <1>0, <1>2, <1>3 DEF TypeOK
  <2>6. readyCpu' \in Nat
    BY <1>0, <1>2, <1>5 DEF TypeOK
  <2> QED BY <1>0, <1>2, <2>1, <2>2, <2>3, <2>4, <2>5, <2>6 DEF TypeOK
<1>7. Awaiting' = Awaiting /\ \A c \in Slots : state'[c] = "RUNNING" <=> state[c] = "RUNNING"
  BY <1>0, <1>2 DEF Awaiting
<1>8. RunsOnceOnItsOwner' /\ ProviderRuns' = ProviderRuns
  BY <1>0, <1>2, <1>7, OwnersUndisturbed
<1>9. readyCpu' = Cardinality(QueuedCpu')
  <2>1. QueuedCpu' = QueuedCpu \cup rootsCpu
    BY <1>0, <1>2 DEF QueuedCpu
  <2>2. QueuedCpu \cap rootsCpu = {}
    BY <1>0 DEF QueuedCpu
  <2>3. QueuedCpu \in SUBSET Slots
    BY DEF QueuedCpu
  <2>4. IsFiniteSet(QueuedCpu) /\ Cardinality(QueuedCpu) \in Nat
    BY <2>3, FiniteSubsets
  <2>5. Cardinality(QueuedCpu \cup rootsCpu)
          = Cardinality(QueuedCpu) + Cardinality(rootsCpu) - Cardinality(QueuedCpu \cap rootsCpu)
    BY <1>5, <2>4, FS_Union
  <2>6. Cardinality(QueuedCpu \cap rootsCpu) = 0
    BY <2>2, FS_EmptySet
  <2> QED BY <1>0, <1>2, <1>5, <2>1, <2>4, <2>5, <2>6 DEF CountersExact
<1>10. CountersExact'
  BY <1>0, <1>2, <1>7, <1>8, <1>9 DEF CountersExact, ProviderRuns
<1>11. /\ \A s \in new : Incoming(s)' = after(s)
       /\ \A s \in Slots \ new : Incoming(s)' = Incoming(s)
  BY <1>1, <1>2, <1>3 DEF Incoming
<1>12. EdgesExact'
  <2>1. ASSUME NEW e \in edges' PROVE state'[e.parent] \in Live /\ state'[e.child] = "BLOCKED"
    <3>1. CASE e \in edges
      <4>1. e.parent \in Slots \ new /\ e.child \in Slots \ new
        BY <1>0, <1>1, <3>1 DEF Incoming, Outgoing, TypeOK, Edges
      <4> QED BY <1>0, <1>2, <3>1, <4>1 DEF EdgesExact
    <3>2. CASE e \in added
      <4>1. e.parent \in new /\ e.child \in new /\ e \in after(e.child)
        BY <1>3, <3>2
      <4> QED BY <1>0, <1>2, <4>1 DEF Live
    <3> QED BY <1>2, <3>1, <3>2
  <2>2. ASSUME NEW c \in Slots
        PROVE /\ remaining'[c] = Cardinality(Incoming(c)')
              /\ state'[c] = "BLOCKED" => Incoming(c)' # {}
    <3>1. CASE c \in new
      BY <1>2, <1>11, <3>1
    <3>2. CASE c \notin new
      BY <1>0, <1>2, <1>11, <3>2 DEF EdgesExact
    <3> QED BY <3>1, <3>2
  <2>3. Cardinality(edges') <= EdgeCapacity
    <3>1. edges \in SUBSET Edges /\ added \in SUBSET Edges /\ edges \cap added \in SUBSET Edges
      BY <1>0, <1>3 DEF TypeOK
    <3>2. /\ IsFiniteSet(edges) /\ IsFiniteSet(added) /\ Cardinality(edges) \in Nat
          /\ Cardinality(added) \in Nat /\ Cardinality(edges \cap added) \in Nat
      BY <3>1, FiniteSubsets
    <3>3. Cardinality(edges \cup added) = Cardinality(edges) + Cardinality(added) - Cardinality(edges \cap added)
      BY <3>2, FS_Union
    <3> QED BY <1>2, <3>2, <3>3, CapacityAssumption
  <2> QED BY <2>1, <2>2, <2>3 DEF EdgesExact
<1>13. PrerequisitesHonoured'
  <2> SUFFICES ASSUME NEW c \in Slots
      PROVE /\ state'[c] \in {"QUEUED", "RUNNING", "AWAITING", "COMPLETED", "FAILED"} => unmet'[c] = {}
            /\ state'[c] = "BLOCKED" => unmet'[c] = {e.parent : e \in Incoming(c)'}
    BY DEF PrerequisitesHonoured
  <2>1. CASE c \in new
    BY <1>2, <1>11, <2>1
  <2>2. CASE c \notin new
    BY <1>0, <1>2, <1>11, <2>2 DEF PrerequisitesHonoured
  <2> QED BY <2>1, <2>2
<1> QED BY <1>6, <1>8, <1>10, <1>12, <1>13 DEF IInv

\* A thread that is idle and may run what it dequeued takes one queued task.
LEMMA TakeKeeps ==
    ASSUME IInv, NEW t \in Threads \cup Workers, NEW s \in Slots, Take(t, s),
           job[t] = None, state[s] = "QUEUED",
           t \in Workers => executor[s] = "CPU",
           t \in Threads => executor[s] \in Pumped(t)
    PROVE  IInv'
<1>0. /\ TypeOK /\ CountersExact /\ EdgesExact /\ PrerequisitesHonoured /\ RunsOnceOnItsOwner
      /\ s # None /\ executor[s] \in Executors
  BY SlotsAssumption DEF IInv, TypeOK
<1>1. /\ state' = [state EXCEPT ![s] = "RUNNING"]
      /\ home' = [home EXCEPT ![s] = None]
      /\ readyCpu' = readyCpu - CpuCount(executor[s])
      /\ executing' = IF executor[s] \in Providers THEN executing + 1 ELSE executing
      /\ job' = [job EXCEPT ![t] = s]
      /\ UNCHANGED <<generation, executor, cancelled, remaining, edges, unmet, pending,
                     asleep, exited, waitFor, waiting, bound, closing, initialized>>
  BY DEF Take
<1>2. readyCpu' \in Nat /\ readyCpu' = Cardinality(QueuedCpu')
  <2>1. QueuedCpu \in SUBSET Slots /\ QueuedCpu' \in SUBSET Slots
    BY DEF QueuedCpu
  <2>2. IsFiniteSet(QueuedCpu) /\ Cardinality(QueuedCpu') \in Nat
    BY <2>1, FiniteSubsets
  <2>3. CASE executor[s] = "CPU"
    <3>1. QueuedCpu' = QueuedCpu \ {s} /\ s \in QueuedCpu
      BY <1>0, <1>1, <2>3 DEF QueuedCpu, TypeOK
    <3>2. Cardinality(QueuedCpu \ {s}) = Cardinality(QueuedCpu) - 1
      BY <2>2, <3>1, FS_RemoveElement
    <3> QED BY <1>0, <1>1, <2>2, <2>3, <3>1, <3>2 DEF CountersExact, CpuCount
  <2>4. CASE executor[s] # "CPU"
    <3>1. QueuedCpu' = QueuedCpu
      BY <1>0, <1>1, <2>4 DEF QueuedCpu, TypeOK
    <3>2. readyCpu' = readyCpu
      BY <1>0, <1>1, <2>4 DEF CpuCount, TypeOK
    <3> QED BY <1>0, <3>1, <3>2 DEF CountersExact, TypeOK
  <2> QED BY <2>3, <2>4
<1>3. executing' \in Nat /\ executing' = Cardinality(ProviderRuns')
  <2>1. ProviderRuns \in SUBSET Threads /\ ProviderRuns' \in SUBSET Threads
    BY DEF ProviderRuns
  <2>2. IsFiniteSet(ProviderRuns) /\ Cardinality(ProviderRuns) \in Nat
    BY <2>1, FiniteSubsets
  <2>3. executing = Cardinality(ProviderRuns)
    BY <1>0 DEF CountersExact, ProviderRuns
  <2>4. CASE executor[s] \in Providers
    <3>1. t \in Threads
      BY <2>4, ProvidersAssumption
    <3>2. ProviderRuns' = ProviderRuns \cup {t} /\ t \notin ProviderRuns
      BY <1>0, <1>1, <2>4, <3>1 DEF ProviderRuns, TypeOK
    <3>3. Cardinality(ProviderRuns \cup {t}) = Cardinality(ProviderRuns) + 1
      BY <2>2, <3>2, FS_AddElement
    <3> QED BY <1>1, <2>2, <2>3, <2>4, <3>2, <3>3
  <2>5. CASE executor[s] \notin Providers
    <3>1. ProviderRuns' = ProviderRuns
      BY <1>0, <1>1, <2>5 DEF ProviderRuns, TypeOK
    <3> QED BY <1>1, <2>2, <2>3, <2>5, <3>1
  <2> QED BY <2>4, <2>5
<1>4. TypeOK'
  BY <1>0, <1>1, <1>2, <1>3 DEF TypeOK, States, Live
<1>5. Awaiting' = Awaiting
  BY <1>0, <1>1 DEF Awaiting, TypeOK
<1>6. CountersExact'
  BY <1>0, <1>1, <1>2, <1>3, <1>5 DEF CountersExact, ProviderRuns
<1>7. EdgesExact'
  <2>1. \A c \in Slots : Incoming(c)' = Incoming(c)
    BY <1>1 DEF Incoming
  <2>2. \A e \in edges : e.parent \in Slots /\ e.child \in Slots
    BY <1>0 DEF TypeOK, Edges
  <2> QED BY <1>0, <1>1, <2>1, <2>2 DEF EdgesExact, TypeOK, Live
<1>8. PrerequisitesHonoured'
  BY <1>0, <1>1 DEF PrerequisitesHonoured, TypeOK, Incoming
<1>9. RunsOnceOnItsOwner'
  <2>1. \A u \in Threads \cup Workers : job[u] # s
    BY <1>0 DEF RunsOnceOnItsOwner
  <2>2. \A c \in Slots : state'[c] = "RUNNING" <=> \E u \in Threads \cup Workers : job'[u] = c
    <3> SUFFICES ASSUME NEW c \in Slots
                 PROVE  state'[c] = "RUNNING" <=> \E u \in Threads \cup Workers : job'[u] = c
      OBVIOUS
    <3>1. CASE c = s
      BY <1>0, <1>1, <3>1 DEF TypeOK
    <3>2. CASE c # s
      <4>1. state'[c] = state[c]
        BY <1>0, <1>1, <3>2 DEF TypeOK
      <4>2. c # None
        BY SlotsAssumption
      <4>3. \A u \in Threads \cup Workers : job'[u] = c <=> job[u] = c
        BY <1>0, <1>1, <3>2, <4>2 DEF TypeOK
      <4> QED BY <1>0, <4>1, <4>3 DEF RunsOnceOnItsOwner
    <3> QED BY <3>1, <3>2
  <2>3. \A u, v \in Threads \cup Workers : job'[u] # None /\ job'[u] = job'[v] => u = v
    BY <1>0, <1>1, <2>1 DEF RunsOnceOnItsOwner, TypeOK
  <2>4. \A w \in Workers : job'[w] # None => executor'[job'[w]] = "CPU"
    BY <1>0, <1>1 DEF RunsOnceOnItsOwner, TypeOK
  <2>5. ASSUME NEW u \in Threads, job'[u] # None
        PROVE  LET y == executor'[job'[u]]
               IN  IF y \in Providers THEN bound'[y] = u ELSE u = Owner /\ (y = "CPU" => Workers = {})
    <3>1. CASE u = t
      <4>1. job'[u] = s /\ executor[s] \in Pumped(t)
        BY <1>0, <1>1, <3>1 DEF TypeOK
      <4> QED BY <1>1, <3>1, <4>1, ProvidersAssumption DEF Pumped
    <3>2. CASE u # t
      BY <1>0, <1>1, <2>5, <3>2 DEF RunsOnceOnItsOwner, TypeOK
    <3> QED BY <3>1, <3>2
  <2>6. \A c \in Awaiting' : executor'[c] \in Providers /\ bound'[executor'[c]] # None
    BY <1>0, <1>1, <1>5 DEF RunsOnceOnItsOwner
  <2> QED BY <2>2, <2>3, <2>4, <2>5, <2>6 DEF RunsOnceOnItsOwner
<1> QED BY <1>4, <1>6, <1>7, <1>8, <1>9 DEF IInv

\* A settling step outside the callback that ran the task leaves IInv, given
\* the counters of the providers.
LEMMA AfterSettlingKeeps ==
    ASSUME IInv, NEW done, AfterSettling(done),
           done \in Slots => state[done] = "AWAITING",
           UNCHANGED <<generation, executor, executing, exited, job, waitFor, bound, closing, initialized>>,
           unmet' \in [Slots -> SUBSET Slots], asleep' \subseteq asleep,
           pending' \in Nat, pending' = Cardinality(Awaiting')
    PROVE  IInv'
<1>1. TypeOK /\ CountersExact
  BY DEF IInv
<1>2. TypeOK'
  BY <1>1 DEF AfterSettling, TypeOK
<1>3. Awaiting' \subseteq Awaiting /\ \A s \in Slots : state'[s] = "RUNNING" <=> state[s] = "RUNNING"
  <2>1. \A s \in Slots : s = done => state[s] # "RUNNING" /\ state'[s] # "RUNNING"
    BY DEF AfterSettling, Settled
  <2> QED BY <2>1 DEF AfterSettling
<1>4. RunsOnceOnItsOwner' /\ ProviderRuns' = ProviderRuns
  BY <1>3, OwnersUndisturbed
<1>5. CountersExact'
  BY <1>1, <1>4 DEF AfterSettling, CountersExact, ProviderRuns
<1> QED BY <1>2, <1>4, <1>5 DEF AfterSettling, IInv

\* cancel keeps the invariant, whether it drops a tree or only flags a task.
LEMMA CancelKeeps ==
    ASSUME IInv, NEW t \in Threads \cup Workers, NEW h \in Handles, Cancel(t, h)
    PROVE  IInv'
<1>0. TypeOK /\ CountersExact /\ EdgesExact /\ PrerequisitesHonoured /\ h.slot \in Slots
  BY DEF IInv, Handles
<1>1. UNCHANGED <<generation, executor, unmet, pending, executing, asleep, exited, job, waitFor,
                  bound, closing, initialized>>
  BY DEF Cancel
<1>2. CASE h.slot \in Cancellable
  <2>1. CancelTree({h.slot}, None, "CANCELLED")
    BY <1>2 DEF Cancel
  <2>2. MaySettle(None, {h.slot}) /\ "CANCELLED" \in Settled /\ None \notin Slots
    BY SlotsAssumption DEF MaySettle, Settled
  <2>3. AfterSettling(None)
    BY <1>0, <1>1, <2>1, <2>2, CancelTreeExact
  <2>4. Awaiting' = Awaiting
    BY <2>2, <2>3 DEF AfterSettling, Awaiting
  <2>5. /\ unmet' \in [Slots -> SUBSET Slots] /\ asleep' \subseteq asleep
        /\ pending' \in Nat /\ pending' = Cardinality(Awaiting')
    BY <1>0, <1>1, <2>4 DEF TypeOK, CountersExact
  <2> QED BY <1>1, <2>2, <2>3, <2>5, AfterSettlingKeeps
<1>3. CASE h.slot \notin Cancellable
  <2>1. /\ cancelled' = [cancelled EXCEPT ![h.slot] = TRUE]
        /\ UNCHANGED <<state, home, remaining, edges, readyCpu, waiting>>
    BY <1>3 DEF Cancel
  <2>2. TypeOK'
    BY <1>0, <1>1, <2>1 DEF TypeOK
  <2>3. RunsOnceOnItsOwner' /\ ProviderRuns' = ProviderRuns
    BY <1>1, <2>1, OwnersUndisturbed DEF Awaiting
  <2>4. CountersExact'
    BY <1>0, <1>1, <2>1 DEF CountersExact, QueuedCpu, Awaiting
  <2>5. EdgesExact' /\ PrerequisitesHonoured'
    BY <1>0, <1>1, <2>1 DEF EdgesExact, PrerequisitesHonoured, Incoming
  <2> QED BY <2>2, <2>3, <2>4, <2>5 DEF IInv
<1> QED BY <1>2, <1>3

\* completeProvider keeps the invariant: the awaiting task it settles was counted.
LEMMA CompleteProviderKeeps ==
    ASSUME IInv, NEW t \in Threads \cup Workers, NEW h \in Handles, NEW result,
           CompleteProvider(t, h, result)
    PROVE  IInv'
<1>0. TypeOK /\ CountersExact /\ h.slot \in Slots
  BY DEF IInv, Handles
<1>1. /\ state[h.slot] = "AWAITING"
      /\ pending' = pending - 1
      /\ Settle(t, h.slot, result)
      /\ UNCHANGED <<generation, executor, executing, exited, job, waitFor, bound, closing, initialized>>
  BY DEF CompleteProvider
<1>2. AfterSettling(h.slot) /\ unmet' \in [Slots -> SUBSET Slots] /\ asleep' \subseteq asleep
  BY <1>0, <1>1, SettleExact
<1>3. pending' \in Nat /\ pending' = Cardinality(Awaiting')
  <2>1. Awaiting \in SUBSET Slots /\ Awaiting' \in SUBSET Slots
    BY DEF Awaiting
  <2>2. IsFiniteSet(Awaiting) /\ Cardinality(Awaiting') \in Nat
    BY <2>1, FiniteSubsets
  <2>3. h.slot \in Awaiting /\ Awaiting' = Awaiting \ {h.slot}
    BY <1>0, <1>1, <1>2 DEF Awaiting, AfterSettling
  <2>4. Cardinality(Awaiting \ {h.slot}) = Cardinality(Awaiting) - 1
    BY <2>2, <2>3, FS_RemoveElement
  <2> QED BY <1>0, <1>1, <2>2, <2>3, <2>4 DEF CountersExact
<1> QED BY <1>1, <1>2, <1>3, AfterSettlingKeeps

\* The return of a callback keeps the invariant, whether the task settles or defers.
LEMMA ReturnKeeps ==
    ASSUME IInv, NEW t \in Threads \cup Workers, NEW result, Return(t, result)
    PROVE  IInv'
<1> DEFINE s == job[t]
           defers == executor[s] \in Providers /\ result = "PENDING"
<1>0. /\ TypeOK /\ CountersExact /\ EdgesExact /\ PrerequisitesHonoured /\ RunsOnceOnItsOwner
      /\ s # None /\ s \in Slots
  BY DEF IInv, TypeOK, Return
<1>1. /\ job' = [job EXCEPT ![t] = None]
      /\ executing' = IF executor[s] \in Providers THEN executing - 1 ELSE executing
      /\ UNCHANGED <<generation, executor, exited, waitFor, bound, closing, initialized>>
  BY DEF Return
<1>2. state[s] = "RUNNING" /\ \A u \in Threads \cup Workers : job[u] = s => u = t
  BY <1>0 DEF RunsOnceOnItsOwner
\* What both outcomes leave to prove.
<1>3. /\ state' \in [Slots -> States] /\ cancelled' \in [Slots -> BOOLEAN]
      /\ home' \in [Slots -> Workers \cup {None}]
      /\ remaining' \in [Slots -> Nat] /\ edges' \subseteq Edges
      /\ readyCpu' \in Nat /\ readyCpu' = Cardinality(QueuedCpu')
      /\ pending' \in Nat /\ pending' = Cardinality(Awaiting')
      /\ Awaiting' \subseteq IF defers THEN Awaiting \cup {s} ELSE Awaiting
      /\ waiting' \subseteq Threads /\ asleep' \subseteq asleep
      /\ unmet' \in [Slots -> SUBSET Slots]
      /\ \A c \in Slots : state'[c] = "RUNNING" <=> state[c] = "RUNNING" /\ c # s
      /\ EdgesExact' /\ PrerequisitesHonoured'
  <2>1. CASE defers
    <3>1. /\ state' = [state EXCEPT ![s] = "AWAITING"]
          /\ pending' = pending + 1
          /\ UNCHANGED <<cancelled, home, remaining, edges, unmet, readyCpu, asleep, waiting>>
      BY <2>1 DEF Return
    <3>2. Awaiting' = Awaiting \cup {s} /\ s \notin Awaiting
      BY <1>0, <1>2, <3>1 DEF Awaiting, TypeOK
    <3>3. pending' = Cardinality(Awaiting')
      <4>1. Awaiting \in SUBSET Slots
        BY DEF Awaiting
      <4>2. IsFiniteSet(Awaiting)
        BY <4>1, FiniteSubsets
      <4>3. Cardinality(Awaiting \cup {s}) = Cardinality(Awaiting) + 1
        BY <3>2, <4>2, FS_AddElement
      <4> QED BY <1>0, <3>1, <3>2, <4>3 DEF CountersExact
    <3>4. QueuedCpu' = QueuedCpu
      BY <1>0, <1>1, <1>2, <3>1 DEF QueuedCpu, TypeOK
    <3>5. EdgesExact'
      <4>1. \A c \in Slots : Incoming(c)' = Incoming(c)
        BY <3>1 DEF Incoming
      <4>2. \A e \in edges : e.parent \in Slots /\ e.child \in Slots
        BY <1>0 DEF TypeOK, Edges
      <4> QED BY <1>0, <1>2, <3>1, <4>1, <4>2 DEF EdgesExact, TypeOK, Live
    <3>6. PrerequisitesHonoured'
      BY <1>0, <1>2, <3>1 DEF PrerequisitesHonoured, TypeOK, Incoming
    <3>7. \A c \in Slots : state'[c] = "RUNNING" <=> state[c] = "RUNNING" /\ c # s
      BY <1>0, <3>1 DEF TypeOK
    <3>8. state' \in [Slots -> States] /\ pending' \in Nat
      BY <1>0, <3>1 DEF TypeOK, States, Live
    <3> QED BY <1>0, <2>1, <3>1, <3>2, <3>3, <3>4, <3>5, <3>6, <3>7, <3>8 DEF TypeOK, CountersExact
  <2>2. CASE ~defers
    <3>1. Settle(t, s, result) /\ UNCHANGED pending
      BY <2>2 DEF Return
    <3>2. AfterSettling(s) /\ unmet' \in [Slots -> SUBSET Slots] /\ asleep' \subseteq asleep
      BY <1>0, <1>1, <1>2, <3>1, SettleExact
    <3>3. Awaiting' = Awaiting
      BY <1>2, <3>2 DEF AfterSettling, Awaiting
    <3>4. \A c \in Slots : state'[c] = "RUNNING" <=> state[c] = "RUNNING" /\ c # s
      BY <3>2 DEF AfterSettling, Settled
    <3> QED BY <1>0, <2>2, <3>1, <3>2, <3>3, <3>4 DEF AfterSettling, TypeOK, CountersExact
  <2> QED BY <2>1, <2>2
<1>4. executing' \in Nat /\ executing' = Cardinality(ProviderRuns')
  <2>1. ProviderRuns \in SUBSET Threads /\ ProviderRuns' \in SUBSET Threads
    BY DEF ProviderRuns
  <2>2. IsFiniteSet(ProviderRuns) /\ Cardinality(ProviderRuns) \in Nat /\ Cardinality(ProviderRuns') \in Nat
    BY <2>1, FiniteSubsets
  <2>3. executing = Cardinality(ProviderRuns)
    BY <1>0 DEF CountersExact, ProviderRuns
  <2>4. CASE executor[s] \in Providers
    <3>1. t \in Threads
      BY <1>0, <2>4, ProvidersAssumption DEF RunsOnceOnItsOwner
    <3>2. ProviderRuns' = ProviderRuns \ {t} /\ t \in ProviderRuns
      BY <1>0, <1>1, <2>4, <3>1 DEF ProviderRuns, TypeOK
    <3>3. Cardinality(ProviderRuns \ {t}) = Cardinality(ProviderRuns) - 1
      BY <2>2, <3>2, FS_RemoveElement
    <3> QED BY <1>1, <2>2, <2>3, <2>4, <3>2, <3>3
  <2>5. CASE executor[s] \notin Providers
    <3>1. ProviderRuns' = ProviderRuns
      BY <1>0, <1>1, <2>5 DEF ProviderRuns, TypeOK
    <3> QED BY <1>1, <2>2, <2>3, <2>5, <3>1
  <2> QED BY <2>4, <2>5
<1>5. TypeOK'
  BY <1>0, <1>1, <1>3, <1>4 DEF TypeOK
<1>6. CountersExact'
  BY <1>3, <1>4 DEF CountersExact, ProviderRuns
<1>7. RunsOnceOnItsOwner'
  <2>1. \A c \in Slots : state'[c] = "RUNNING" <=> \E u \in Threads \cup Workers : job'[u] = c
    <3>1. \A c \in Slots, u \in Threads \cup Workers : job'[u] = c <=> job[u] = c /\ c # s
      BY <1>0, <1>1, <1>2, SlotsAssumption DEF TypeOK
    <3> QED BY <1>0, <1>3, <3>1 DEF RunsOnceOnItsOwner
  <2>2. \A u, v \in Threads \cup Workers : job'[u] # None /\ job'[u] = job'[v] => u = v
    BY <1>0, <1>1 DEF RunsOnceOnItsOwner, TypeOK
  <2>3. \A w \in Workers : job'[w] # None => executor'[job'[w]] = "CPU"
    BY <1>0, <1>1 DEF RunsOnceOnItsOwner, TypeOK
  <2>4. \A u \in Threads : job'[u] # None =>
          LET y == executor'[job'[u]]
          IN  IF y \in Providers THEN bound'[y] = u ELSE u = Owner /\ (y = "CPU" => Workers = {})
    BY <1>0, <1>1 DEF RunsOnceOnItsOwner, TypeOK
  <2>5. ASSUME NEW c \in Awaiting' PROVE executor'[c] \in Providers /\ bound'[executor'[c]] # None
    <3>1. CASE c \in Awaiting
      BY <1>0, <1>1, <3>1 DEF RunsOnceOnItsOwner
    <3>2. CASE c = s /\ defers
      <4>1. t \in Threads
        BY <1>0, <3>2, ProvidersAssumption DEF RunsOnceOnItsOwner
      <4>2. bound[executor[s]] = t
        BY <1>0, <3>2, <4>1 DEF RunsOnceOnItsOwner
      <4> QED BY <1>1, <3>2, <4>1, <4>2, ThreadsAssumption
    <3> QED BY <1>3, <3>1, <3>2
  <2> QED BY <2>1, <2>2, <2>3, <2>4, <2>5 DEF RunsOnceOnItsOwner
<1> QED BY <1>3, <1>5, <1>6, <1>7 DEF IInv

\* releaseTask keeps the invariant: the slot it recycles has no edge left.
LEMMA ReleaseKeeps ==
    ASSUME IInv, NEW t \in Threads \cup Workers, NEW h \in Handles, Release(t, h)
    PROVE  IInv'
<1> DEFINE s == h.slot
<1>0. /\ TypeOK /\ CountersExact /\ EdgesExact /\ PrerequisitesHonoured /\ RunsOnceOnItsOwner
      /\ s \in Slots
  BY DEF IInv, Handles
<1>1. /\ state[s] \in Settled
      /\ Incoming(s) = {} /\ Outgoing(s) = {}
      /\ generation[s] < MaxGeneration
      /\ state' = [state EXCEPT ![s] = "INVALID"]
      /\ generation' = [generation EXCEPT ![s] = generation[s] + 1]
      /\ executor' = [executor EXCEPT ![s] = "CPU"]
      /\ cancelled' = [cancelled EXCEPT ![s] = FALSE]
      /\ unmet' = [unmet EXCEPT ![s] = {}]
      /\ waiting' = {}
      /\ UNCHANGED <<home, remaining, edges, readyCpu, pending, executing, asleep,
                     exited, job, waitFor, bound, closing, initialized>>
  <2>1. generation[s] = h.generation
    BY DEF Release, IsCurrent
  <2>2. h.generation < MaxGeneration /\ generation' = [generation EXCEPT ![s] = generation[s] + 1]
    BY DEF Release
  <2> QED BY <2>1, <2>2 DEF Release, NotifyFinished, countVars
<1>2. s \notin QueuedCpu /\ s \notin Awaiting /\ state[s] # "RUNNING"
  BY <1>1 DEF QueuedCpu, Awaiting, Settled
<1>3. TypeOK'
  <2>1. generation[s] + 1 \in 1..MaxGeneration
    BY <1>0, <1>1, CapacityAssumption DEF TypeOK
  <2> QED BY <1>0, <1>1, <2>1 DEF TypeOK, States, Executors
<1>4. QueuedCpu' = QueuedCpu /\ Awaiting' = Awaiting
  BY <1>0, <1>1, <1>2 DEF QueuedCpu, Awaiting, TypeOK
<1>5. \A u \in Threads \cup Workers : job[u] # s
  BY <1>0, <1>2 DEF RunsOnceOnItsOwner
<1>6. CountersExact'
  <2>1. \A u \in Threads : job[u] # None => executor'[job[u]] = executor[job[u]]
    BY <1>0, <1>1, <1>5 DEF TypeOK
  <2>2. {u \in Threads : job'[u] # None /\ executor'[job'[u]] \in Providers}
        = {u \in Threads : job[u] # None /\ executor[job[u]] \in Providers}
    BY <1>1, <2>1
  <2> QED BY <1>0, <1>1, <1>4, <2>2 DEF CountersExact
<1>7. EdgesExact'
  <2>1. \A c \in Slots : Incoming(c)' = Incoming(c)
    BY <1>1 DEF Incoming
  <2>2. \A e \in edges : e.parent \in Slots /\ e.child \in Slots /\ e.parent # s /\ e.child # s
    BY <1>0, <1>1 DEF TypeOK, Edges, Incoming, Outgoing
  <2>3. \A e \in edges : state'[e.parent] = state[e.parent] /\ state'[e.child] = state[e.child]
    BY <1>0, <1>1, <2>2 DEF TypeOK
  <2>4. \A c \in Slots : state'[c] = "BLOCKED" => state[c] = "BLOCKED"
    BY <1>0, <1>1 DEF TypeOK
  <2> QED BY <1>0, <1>1, <2>1, <2>3, <2>4 DEF EdgesExact
<1>8. PrerequisitesHonoured'
  <2> SUFFICES ASSUME NEW c \in Slots
      PROVE /\ state'[c] \in {"QUEUED", "RUNNING", "AWAITING", "COMPLETED", "FAILED"} => unmet'[c] = {}
            /\ state'[c] = "BLOCKED" => unmet'[c] = {e.parent : e \in Incoming(c)'}
    BY DEF PrerequisitesHonoured
  <2>1. CASE c = s
    BY <1>0, <1>1, <2>1 DEF TypeOK
  <2>2. CASE c # s
    <3>1. state'[c] = state[c] /\ unmet'[c] = unmet[c] /\ Incoming(c)' = Incoming(c)
      BY <1>0, <1>1, <2>2 DEF TypeOK, Incoming
    <3> QED BY <1>0, <3>1 DEF PrerequisitesHonoured
  <2> QED BY <2>1, <2>2
<1>9. RunsOnceOnItsOwner'
  <2>1. \A c \in Slots : state'[c] = "RUNNING" <=> state[c] = "RUNNING"
    BY <1>0, <1>1, <1>2 DEF TypeOK
  <2>2. \A u \in Threads \cup Workers : job[u] # None => executor'[job[u]] = executor[job[u]]
    BY <1>0, <1>1, <1>5 DEF TypeOK
  <2>3. \A c \in Awaiting : executor'[c] = executor[c]
    BY <1>0, <1>1, <1>2 DEF TypeOK, Awaiting
  <2> QED BY <1>0, <1>1, <1>4, <2>1, <2>2, <2>3 DEF RunsOnceOnItsOwner
<1> QED BY <1>3, <1>6, <1>7, <1>8, <1>9 DEF IInv

\* shutdown drops every task that has not started, with all the edges.
LEMMA ShutdownBeginKeeps ==
    ASSUME IInv, ShutdownBegin
    PROVE  IInv'
<1> DEFINE gone == {e \in edges : e.parent \in Cancellable \/ e.child \in Cancellable}
<1>0. /\ TypeOK /\ CountersExact /\ EdgesExact /\ PrerequisitesHonoured
  BY DEF IInv
<1>1. /\ pending = 0
      /\ closing' = TRUE
      /\ state' = [s \in Slots |-> IF s \in Cancellable THEN "CANCELLED" ELSE state[s]]
      /\ cancelled' = [s \in Slots |-> \/ cancelled[s] \/ s \in Cancellable
                                       \/ state[s] = "RUNNING"]
      /\ home' = [s \in Slots |-> None]
      /\ readyCpu' = readyCpu - Cardinality(QueuedCpu)
      /\ Unlink(gone)
      /\ asleep' = {} /\ waiting' = {}
      /\ UNCHANGED <<generation, executor, unmet, pending, executing, exited, job, waitFor,
                     bound, initialized>>
  BY DEF ShutdownBegin, WakeAllWorkers, NotifyFinished
<1>2. /\ edges' = edges \ gone
      /\ edges' \subseteq Edges
      /\ Cardinality(edges') <= EdgeCapacity
      /\ \A s \in Slots : remaining'[s] = Cardinality(Incoming(s)')
      /\ remaining' \in [Slots -> Nat]
  <2>1. gone \in SUBSET edges
    OBVIOUS
  <2>2. edges' = edges \ gone /\ Unlink(gone)
    BY <1>1 DEF Unlink
  <2> HIDE DEF gone
  <2> QED BY <1>0, <2>1, <2>2, UnlinkExact
<1>3. edges' = {}
  <2>1. \A e \in edges : e.child \in Cancellable
    BY <1>0 DEF EdgesExact, Cancellable, TypeOK, Edges
  <2> QED BY <1>2, <2>1
<1>4. /\ state' \in [Slots -> States]
      /\ \A s \in Slots : state'[s] \notin {"BLOCKED", "QUEUED"}
      /\ \A s \in Slots : state'[s] = state[s] \/ state'[s] = "CANCELLED"
  BY <1>0, <1>1 DEF TypeOK, States, Settled, Cancellable
<1>5. readyCpu' = 0 /\ QueuedCpu' = {}
  BY <1>0, <1>1, <1>4 DEF CountersExact, QueuedCpu, TypeOK
<1>6. Awaiting' = Awaiting
  BY <1>1 DEF Awaiting, Cancellable
<1>7. TypeOK'
  BY <1>0, <1>1, <1>2, <1>4, <1>5 DEF TypeOK
<1>8. CountersExact'
  BY <1>0, <1>1, <1>5, <1>6, FS_EmptySet DEF CountersExact
<1>9. EdgesExact'
  BY <1>2, <1>3, <1>4 DEF EdgesExact
<1>10. PrerequisitesHonoured'
  BY <1>0, <1>1, <1>4 DEF PrerequisitesHonoured
<1>11. RunsOnceOnItsOwner'
  <2>1. \A s \in Slots : state'[s] = "RUNNING" <=> state[s] = "RUNNING"
    BY <1>1 DEF Cancellable
  <2> QED BY <1>1, <1>6, <2>1, OwnersUndisturbed
<1> QED BY <1>7, <1>8, <1>9, <1>10, <1>11 DEF IInv

-----------------------------------------------------------------------------
(* The actions that touch no task *)

\* A step that only moves threads between waiting and running, or the flags
\* that open and close the scheduler, keeps IInv.
LEMMA QuietKeeps ==
    ASSUME IInv, UNCHANGED <<taskVars, countVars, job, bound>>,
           asleep' \subseteq Workers, exited' \subseteq Workers,
           waitFor' \in [Threads -> Handles \cup {NoHandle}], waiting' \subseteq Threads,
           closing' \in BOOLEAN, initialized' \in BOOLEAN
    PROVE  IInv'
<1>1. /\ TypeOK /\ CountersExact /\ EdgesExact /\ PrerequisitesHonoured
      /\ UNCHANGED <<state, generation, executor, cancelled, home, remaining, edges, unmet,
                     readyCpu, pending, executing, job, bound>>
  BY DEF IInv, taskVars, countVars
<1>2. TypeOK'
  BY <1>1 DEF TypeOK
<1>3. CountersExact'
  BY <1>1 DEF CountersExact, QueuedCpu, Awaiting
<1>4. EdgesExact' /\ PrerequisitesHonoured'
  BY <1>1 DEF EdgesExact, PrerequisitesHonoured, Incoming
<1>5. RunsOnceOnItsOwner'
  BY <1>1, OwnersUndisturbed DEF Awaiting
<1> QED BY <1>2, <1>3, <1>4, <1>5 DEF IInv

\* A provider is bound once, while it holds no work.
LEMMA BindProviderKeeps ==
    ASSUME IInv, NEW t \in Threads, NEW p \in Providers, BindProvider(t, p)
    PROVE  IInv'
<1>1. /\ TypeOK /\ CountersExact /\ EdgesExact /\ PrerequisitesHonoured /\ RunsOnceOnItsOwner
      /\ bound[p] = None /\ bound' = [bound EXCEPT ![p] = t]
      /\ UNCHANGED <<state, generation, executor, cancelled, home, remaining, edges, unmet,
                     readyCpu, pending, executing, asleep, exited, job, waitFor, waiting,
                     closing, initialized>>
  BY DEF IInv, BindProvider, taskVars, countVars, threadVars
<1>2. t # None
  BY ThreadsAssumption
<1>3. TypeOK'
  BY <1>1 DEF TypeOK
<1>4. CountersExact'
  BY <1>1 DEF CountersExact, QueuedCpu, Awaiting
<1>5. EdgesExact' /\ PrerequisitesHonoured'
  BY <1>1 DEF EdgesExact, PrerequisitesHonoured, Incoming
<1>6. RunsOnceOnItsOwner'
  <2>1. \A q \in Providers : bound[q] # None => bound'[q] = bound[q]
    BY <1>1 DEF TypeOK
  <2>2. Awaiting' = Awaiting
    BY <1>1 DEF Awaiting
  <2>3. \A u \in Threads : job[u] # None /\ executor[job[u]] \in Providers
            => bound'[executor[job[u]]] = u
    BY <1>1, <2>1, ThreadsAssumption DEF RunsOnceOnItsOwner
  <2>4. \A s \in Awaiting : bound'[executor[s]] # None
    BY <1>1, <2>1 DEF RunsOnceOnItsOwner
  <2> QED BY <1>1, <2>2, <2>3, <2>4 DEF RunsOnceOnItsOwner
<1> QED BY <1>3, <1>4, <1>5, <1>6 DEF IInv

\* A worker that finds readyCpu # 0 finds a task, and the invariant stays.
LEMMA WorkerTakeKeeps ==
    ASSUME IInv, NEW w \in Workers, WorkerTake(w)
    PROVE  IInv'
<1>1. job[w] = None
  BY DEF WorkerTake, AtLoopHead
<1>2. PICK s \in NextFor(w) : Take(w, s)
  BY DEF WorkerTake
<1>3. s \in Slots /\ state[s] = "QUEUED" /\ executor[s] = "CPU"
  BY DEF NextFor, ReadyAt, QueuedCpu
<1>4. w \notin Threads
  BY ThreadsAssumption
<1> QED BY <1>1, <1>2, <1>3, <1>4, TakeKeeps

\* pumpMain, pumpCPU and pumpProvider keep the invariant: only the owner takes the task.
LEMMA PumpKeeps ==
    ASSUME IInv, NEW t \in Threads, Pump(t)
    PROVE  IInv'
<1>1. job[t] = None
  BY DEF Pump
<1>2. PICK s \in Slots : state[s] = "QUEUED" /\ executor[s] \in Pumped(t) /\ Take(t, s)
  BY DEF Pump
<1>3. t \notin Workers
  BY ThreadsAssumption
<1> QED BY <1>1, <1>2, <1>3, TakeKeeps

-----------------------------------------------------------------------------
(* The inductive invariant *)

\* The initial state has no task, edge or callback.
LEMMA InitIInv == Init => IInv
<1> SUFFICES ASSUME Init PROVE IInv
  OBVIOUS
<1>1. QueuedCpu = {} /\ Awaiting = {}
  BY DEF Init, QueuedCpu, Awaiting
<1>2. \A s \in Slots : Incoming(s) = {}
  BY DEF Init, Incoming
<1>3. {t \in Threads : job[t] # None /\ executor[job[t]] \in Providers} = {}
  BY DEF Init
<1>4. Cardinality({}) = 0
  BY FS_EmptySet
<1>5. TypeOK
  <2>1. 1 \in 1..MaxGeneration
    BY CapacityAssumption
  <2>2. /\ state \in [Slots -> States] /\ generation \in [Slots -> 1..MaxGeneration]
        /\ executor \in [Slots -> Executors] /\ cancelled \in [Slots -> BOOLEAN]
        /\ home \in [Slots -> Workers \cup {None}] /\ remaining \in [Slots -> Nat]
        /\ unmet \in [Slots -> SUBSET Slots]
    BY <2>1 DEF Init, States, Executors
  <2>3. /\ bound \in [Providers -> Threads \cup {None}]
        /\ job \in [Threads \cup Workers -> Slots \cup {None}]
        /\ waitFor \in [Threads -> Handles \cup {NoHandle}]
    BY DEF Init
  <2> QED BY <2>2, <2>3 DEF Init, TypeOK
<1>6. CountersExact
  BY <1>1, <1>3, <1>4 DEF Init, CountersExact
<1>7. EdgesExact
  <2>1. edges = {} /\ Cardinality(edges) <= EdgeCapacity
    BY <1>4, CapacityAssumption DEF Init
  <2>2. \A s \in Slots : remaining[s] = 0 /\ state[s] # "BLOCKED"
    BY DEF Init
  <2>3. \A s \in Slots : remaining[s] = Cardinality(Incoming(s))
    BY <1>2, <1>4, <2>2
  <2> QED BY <2>1, <2>2, <2>3 DEF EdgesExact
<1>8. PrerequisitesHonoured
  BY DEF Init, PrerequisitesHonoured
<1>9. RunsOnceOnItsOwner
  BY <1>1, SlotsAssumption DEF Init, RunsOnceOnItsOwner
<1> QED BY <1>5, <1>6, <1>7, <1>8, <1>9 DEF IInv

\* Every step keeps the invariant.
LEMMA NextIInv == IInv /\ [Next]_vars => IInv'
<1> SUFFICES ASSUME IInv, [Next]_vars PROVE IInv'
  OBVIOUS
<1>0. TypeOK
  BY DEF IInv
<1>1. ASSUME NEW t \in Threads \cup Workers, AnySubmit(t) PROVE IInv'
  BY <1>1, SubmitKeeps DEF AnySubmit
<1>2. ASSUME NEW t \in Threads \cup Workers, AnyBatch(t) PROVE IInv'
  BY <1>2, BatchKeeps DEF AnyBatch
<1>3. ASSUME NEW t \in Threads \cup Workers, NEW result \in {"SUCCESS", "FAILURE", "PENDING"},
             Return(t, result) PROVE IInv'
  BY <1>3, ReturnKeeps
<1>4. ASSUME NEW t \in Threads \cup Workers, NEW h \in Handles,
             \/ Cancel(t, h)
             \/ Release(t, h)
             \/ \E result \in {"SUCCESS", "FAILURE"} : CompleteProvider(t, h, result)
      PROVE IInv'
  BY <1>4, CancelKeeps, ReleaseKeeps, CompleteProviderKeeps
<1>5. ASSUME NEW w \in Workers, WorkerSleep(w) \/ WorkerExit(w) PROVE IInv'
  BY <1>0, <1>5, QuietKeeps DEF WorkerSleep, WorkerExit, TypeOK
<1>6. ASSUME NEW w \in Workers, WorkerTake(w) PROVE IInv'
  BY <1>6, WorkerTakeKeeps
<1>7. ASSUME NEW t \in Threads, Pump(t) PROVE IInv'
  BY <1>7, PumpKeeps
<1>8. ASSUME NEW t \in Threads, \/ \E h \in Handles : Wait(t, h)
                                \/ WaitAgain(t)
                                \/ WaitReturn(t)
      PROVE IInv'
  BY <1>0, <1>8, QuietKeeps DEF Wait, WaitAgain, WaitReturn, TypeOK
<1>9. ASSUME NEW t \in Threads, NEW p \in Providers, BindProvider(t, p) PROVE IInv'
  BY <1>9, BindProviderKeeps
<1>10. CASE SpuriousWakeup
  BY <1>0, <1>10, QuietKeeps DEF SpuriousWakeup, TypeOK
<1>11. CASE ShutdownBegin
  BY <1>11, ShutdownBeginKeeps
<1>12. CASE ShutdownEnd
  BY <1>0, <1>12, QuietKeeps DEF ShutdownEnd, NotifyFinished, TypeOK
<1>13. CASE Terminated \/ UNCHANGED vars
  <2>1. UNCHANGED <<taskVars, countVars, threadVars, bound, closing, initialized>>
    BY <1>13 DEF Terminated, vars
  <2> QED BY <1>0, <2>1, QuietKeeps DEF TypeOK, threadVars
<1> QED BY <1>1, <1>2, <1>3, <1>4, <1>5, <1>6, <1>7, <1>8, <1>9, <1>10, <1>11, <1>12, <1>13 DEF Next

\* IInv holds in every reachable state.
THEOREM Inductive == Spec => []IInv
<1>1. Init => IInv
  BY InitIInv
<1>2. IInv /\ [Next]_vars => IInv'
  BY NextIInv
<1> QED BY <1>1, <1>2, PTL DEF Spec

\* Every variable keeps its type.
THEOREM TypeCorrect == Spec => []TypeOK
<1>1. IInv => TypeOK
  BY DEF IInv
<1> QED BY <1>1, Inductive, PTL

\* m_nReadyCpu, m_nPendingProviders and m_nExecutingProviders agree with the
\* tasks they count.
THEOREM CountersAgree == Spec => []CountersExact
<1>1. IInv => CountersExact
  BY DEF IInv
<1> QED BY <1>1, Inductive, PTL

\* The dependency edges and nRemaining agree with the states of the tasks, and
\* the edge pool is never overdrawn.
THEOREM EdgePoolExact == Spec => []EdgesExact
<1>1. IInv => EdgesExact
  BY DEF IInv
<1> QED BY <1>1, Inductive, PTL

\* No task is queued or run before all of its prerequisites have completed.
THEOREM PrerequisitesFirst == Spec => []PrerequisitesHonoured
<1>1. IInv => PrerequisitesHonoured
  BY DEF IInv
<1> QED BY <1>1, Inductive, PTL

\* A running task has exactly one runner, the thread its executor demands.
THEOREM OwnersOnly == Spec => []RunsOnceOnItsOwner
<1>1. IInv => RunsOnceOnItsOwner
  BY DEF IInv
<1> QED BY <1>1, Inductive, PTL

-----------------------------------------------------------------------------
-----------------------------------------------------------------------------
(* Tasks move forward *)

\* A dropped tree only cancels tasks that have not started.
LEMMA CancelTreeForward ==
    ASSUME IInv, NEW roots \in SUBSET Slots, NEW done, NEW outcome \in Settled,
           CancelTree(roots, done, outcome), MaySettle(done, roots),
           done \in Slots => (cancelled[done] => outcome = "CANCELLED"),
           UNCHANGED generation
    PROVE  \A s \in Slots : Forward(s)
<1>1. TypeOK /\ EdgesExact
  BY DEF IInv
<1>2. Cascade(roots) \subseteq Cancellable
  BY <1>1, CascadeFacts DEF TypeOK
<1>3. /\ state' = [s \in Slots |-> IF s \in Cascade(roots) THEN "CANCELLED"
                                   ELSE IF s = done THEN outcome ELSE state[s]]
      /\ cancelled' = [s \in Slots |-> cancelled[s] \/ s \in Cascade(roots)]
  BY DEF CancelTree
<1> SUFFICES ASSUME NEW s \in Slots PROVE Forward(s)
  OBVIOUS
<1>4. CASE s \in Cascade(roots)
  <2>1. state'[s] = "CANCELLED" /\ cancelled'[s] /\ state[s] \in {"BLOCKED", "QUEUED"}
    BY <1>2, <1>3, <1>4 DEF Cancellable
  <2> QED BY <2>1 DEF Forward, Settled
<1>5. CASE s \notin Cascade(roots) /\ s = done
  <2>1. state'[s] = outcome /\ (cancelled[s] <=> cancelled'[s]) /\ state[s] \in {"RUNNING", "AWAITING"}
    BY <1>3, <1>5 DEF MaySettle
  <2>2. cancelled[s] => outcome = "CANCELLED"
    BY <1>5
  <2> QED BY <2>1, <2>2 DEF Forward, Settled, Live
<1>6. CASE s \notin Cascade(roots) /\ s # done
  <2>1. state'[s] = state[s] /\ (cancelled[s] <=> cancelled'[s])
    BY <1>3, <1>6
  <2> QED BY <2>1 DEF Forward
<1> QED BY <1>4, <1>5, <1>6

\* A task settles as what its result and its cancellation flag demand.
LEMMA SettleForward ==
    ASSUME IInv, NEW t \in Threads \cup Workers, NEW s \in Slots, NEW result,
           state[s] \in {"RUNNING", "AWAITING"}, Settle(t, s, result), UNCHANGED generation
    PROVE  \A c \in Slots : Forward(c)
<1> DEFINE outcome == Outcome(s, result)
           kids == {e.child : e \in Outgoing(s)}
<1>1. TypeOK /\ EdgesExact
  BY DEF IInv
<1>2. outcome \in Settled /\ (cancelled[s] => outcome = "CANCELLED")
  BY DEF Outcome, Settled
<1>3. CASE ~(outcome = "COMPLETED" /\ ~closing)
  <2>1. CancelTree(kids, s, outcome)
    BY <1>3 DEF Settle
  <2>2. kids \in SUBSET Slots /\ MaySettle(s, kids)
    BY <1>1 DEF Outgoing, MaySettle, TypeOK, Edges
  <2> HIDE DEF outcome, kids
  <2> QED BY <1>2, <2>1, <2>2, CancelTreeForward
<1>4. CASE outcome = "COMPLETED" /\ ~closing
  <2>1. /\ state' = [c \in Slots |-> IF c \in Released(s) THEN "QUEUED"
                                     ELSE IF c = s THEN outcome ELSE state[c]]
        /\ UNCHANGED cancelled
    BY <1>4 DEF Settle
  <2>2. ~cancelled[s]
    BY <1>4 DEF Outcome
  <2> SUFFICES ASSUME NEW c \in Slots PROVE Forward(c)
    OBVIOUS
  <2>3. CASE c \in Released(s)
    <3>1. state[c] = "BLOCKED" /\ state'[c] = "QUEUED"
      BY <2>1, <2>3 DEF Released
    <3> QED BY <2>1, <3>1 DEF Forward, Live
  <2>4. CASE c \notin Released(s) /\ c = s
    <3>1. state'[c] = "COMPLETED" /\ ~cancelled[c]
      BY <1>4, <2>1, <2>2, <2>4
    <3> QED BY <2>4, <3>1 DEF Forward, Settled
  <2>5. CASE c \notin Released(s) /\ c # s
    BY <2>1, <2>5 DEF Forward
  <2> QED BY <2>3, <2>4, <2>5
<1> QED BY <1>3, <1>4

\* A thread that takes a queued task only starts it.
LEMMA TakeForward ==
    ASSUME IInv, NEW t, NEW s \in Slots, state[s] = "QUEUED", Take(t, s)
    PROVE  \A c \in Slots : Forward(c)
<1>1. TypeOK
  BY DEF IInv
<1>2. state' = [state EXCEPT ![s] = "RUNNING"] /\ UNCHANGED <<generation, cancelled>>
  BY DEF Take
<1> QED BY <1>1, <1>2 DEF Forward, TypeOK, Live

\* Every step moves every task forward or leaves it alone.
LEMMA StepForward == IInv /\ [Next]_vars => [\A s \in Slots : Forward(s)]_vars
<1> SUFFICES ASSUME IInv, Next PROVE \A s \in Slots : Forward(s)
  OBVIOUS
<1>0. TypeOK /\ EdgesExact /\ RunsOnceOnItsOwner
  BY DEF IInv
<1>1. ASSUME NEW t \in Threads \cup Workers, AnySubmit(t) PROVE \A c \in Slots : Forward(c)
  <2>1. PICK s \in Free, x \in Executors, before \in SUBSET (Slots \ Free) : Submit(t, s, x, before)
    BY <1>1 DEF AnySubmit
  <2>2. /\ s \in Slots /\ state[s] = "INVALID"
        /\ \E v \in {"QUEUED", "BLOCKED", "CANCELLED"} : state' = [state EXCEPT ![s] = v]
        /\ \E b \in BOOLEAN : cancelled' = [cancelled EXCEPT ![s] = b]
        /\ UNCHANGED generation
    BY <2>1 DEF Submit, Free
  <2> QED BY <1>0, <2>2 DEF Forward, TypeOK, Live
<1>2. ASSUME NEW t \in Threads \cup Workers, AnyBatch(t) PROVE \A c \in Slots : Forward(c)
  <2>1. PICK new \in SUBSET Free :
          \E position \in [new -> 1..Cardinality(new)], x \in [new -> Executors] :
             \E added : SubmitBatch(t, position, x, added)
    BY <1>2 DEF AnyBatch
  <2>2. PICK position \in [new -> 1..Cardinality(new)], x \in [new -> Executors] :
          \E added : SubmitBatch(t, position, x, added)
    BY <2>1
  <2>3. DOMAIN position = new /\ \A s \in new : state[s] = "INVALID"
    BY DEF Free
  <2>4. /\ UNCHANGED generation
        /\ cancelled' = [s \in Slots |-> cancelled[s] /\ s \notin new]
        /\ \A s \in Slots : IF s \in new THEN state'[s] \in {"QUEUED", "BLOCKED"}
                                         ELSE state'[s] = state[s]
    <3>1. PICK added : SubmitBatch(t, position, x, added)
      BY <2>2
    <3>2. {s \in new : {e \in added : e.child = s} = {}} \subseteq new
      OBVIOUS
    <3> QED BY <2>3, <3>1, <3>2 DEF SubmitBatch
  <2> QED BY <1>0, <2>3, <2>4 DEF Forward, TypeOK, Live
<1>3. ASSUME NEW t \in Threads \cup Workers, NEW result \in {"SUCCESS", "FAILURE", "PENDING"},
             Return(t, result)
      PROVE  \A c \in Slots : Forward(c)
  <2>1. job[t] # None /\ UNCHANGED generation
    BY <1>3 DEF Return
  <2>2. job[t] \in Slots /\ state[job[t]] = "RUNNING"
    BY <1>0, <2>1 DEF RunsOnceOnItsOwner, TypeOK
  <2>3. CASE executor[job[t]] \in Providers /\ result = "PENDING"
    <3>1. state' = [state EXCEPT ![job[t]] = "AWAITING"] /\ UNCHANGED cancelled
      BY <1>3, <2>3 DEF Return
    <3> QED BY <1>0, <2>1, <2>2, <3>1 DEF Forward, TypeOK, Live, Settled
  <2>4. CASE ~(executor[job[t]] \in Providers /\ result = "PENDING")
    <3>1. Settle(t, job[t], result)
      BY <1>3, <2>4 DEF Return
    <3> QED BY <2>1, <2>2, <3>1, SettleForward
  <2> QED BY <2>3, <2>4
<1>4. ASSUME NEW t \in Threads \cup Workers, NEW h \in Handles, Cancel(t, h)
      PROVE  \A c \in Slots : Forward(c)
  <2>1. h.slot \in Slots /\ UNCHANGED generation
    BY <1>4 DEF Cancel, Handles
  <2>2. CASE h.slot \in Cancellable
    <3>1. CancelTree({h.slot}, None, "CANCELLED")
      BY <1>4, <2>2 DEF Cancel
    <3>2. MaySettle(None, {h.slot}) /\ "CANCELLED" \in Settled /\ None \notin Slots
      BY SlotsAssumption DEF MaySettle, Settled
    <3> QED BY <2>1, <3>1, <3>2, CancelTreeForward
  <2>3. CASE h.slot \notin Cancellable
    <3>1. cancelled' = [cancelled EXCEPT ![h.slot] = TRUE] /\ UNCHANGED state
      BY <1>4, <2>3 DEF Cancel
    <3> QED BY <1>0, <2>1, <3>1 DEF Forward, TypeOK
  <2> QED BY <2>2, <2>3
<1>5. ASSUME NEW t \in Threads \cup Workers, NEW h \in Handles, Release(t, h)
      PROVE  \A c \in Slots : Forward(c)
  <2>1. /\ h.slot \in Slots /\ state[h.slot] \in Settled
        /\ state' = [state EXCEPT ![h.slot] = "INVALID"]
        /\ \E g : generation' = [generation EXCEPT ![h.slot] = g]
        /\ cancelled' = [cancelled EXCEPT ![h.slot] = FALSE]
    BY <1>5 DEF Release, Handles
  <2> QED BY <1>0, <2>1 DEF Forward, TypeOK, Live, Settled
<1>6. ASSUME NEW t \in Threads \cup Workers, NEW h \in Handles, NEW result \in {"SUCCESS", "FAILURE"},
             CompleteProvider(t, h, result)
      PROVE  \A c \in Slots : Forward(c)
  <2>1. h.slot \in Slots /\ state[h.slot] = "AWAITING" /\ Settle(t, h.slot, result) /\ UNCHANGED generation
    BY <1>6 DEF CompleteProvider, Handles
  <2> QED BY <2>1, SettleForward
<1>7. ASSUME NEW w \in Workers, WorkerTake(w) PROVE \A c \in Slots : Forward(c)
  BY <1>7, TakeForward DEF WorkerTake, NextFor, ReadyAt, QueuedCpu
<1>8. ASSUME NEW t \in Threads, Pump(t) PROVE \A c \in Slots : Forward(c)
  BY <1>8, TakeForward DEF Pump
<1>9. CASE ShutdownBegin
  <2>1. /\ UNCHANGED generation
        /\ \A s \in Slots : state'[s] = IF s \in Cancellable THEN "CANCELLED" ELSE state[s]
        /\ \A s \in Slots : cancelled[s] => cancelled'[s]
    BY <1>9 DEF ShutdownBegin
  <2> QED BY <2>1 DEF Forward, Cancellable, Settled
<1>10. ASSUME UNCHANGED taskVars PROVE \A c \in Slots : Forward(c)
  BY <1>10 DEF Forward, taskVars
<1>11. ASSUME NEW w \in Workers, WorkerSleep(w) \/ WorkerExit(w) PROVE UNCHANGED taskVars
  BY <1>11 DEF WorkerSleep, WorkerExit
<1>12. ASSUME NEW t \in Threads, \/ \E h \in Handles : Wait(t, h)
                                 \/ WaitAgain(t)
                                 \/ WaitReturn(t)
                                 \/ \E p \in Providers : BindProvider(t, p)
       PROVE  UNCHANGED taskVars
  BY <1>12 DEF Wait, WaitAgain, WaitReturn, BindProvider
<1>13. ASSUME SpuriousWakeup \/ ShutdownEnd \/ Terminated PROVE UNCHANGED taskVars
  BY <1>13 DEF SpuriousWakeup, ShutdownEnd, Terminated, vars
<1> QED BY <1>1, <1>2, <1>3, <1>4, <1>5, <1>6, <1>7, <1>8, <1>9, <1>10, <1>11, <1>12, <1>13 DEF Next

\* A task never runs twice, never changes the outcome it settled with, keeps its
\* handle until it is released, and a cancellation never loses to a success.
THEOREM ForwardOnly == Spec => TasksMoveForward
<1>1. IInv /\ [Next]_vars => [\A s \in Slots : Forward(s)]_vars
  BY StepForward
<1> QED BY <1>1, Inductive, PTL DEF Spec, TasksMoveForward

-----------------------------------------------------------------------------
(* Handles and the threads that wait for them *)

\* What a step may do to the identity of the task in slot s.
SlotKept(s) ==
    \/ /\ generation'[s] = generation[s]
       /\ state[s] # "INVALID" => state'[s] # "INVALID" /\ executor'[s] = executor[s]
    \/ generation'[s] = generation[s] + 1

\* The states in which waitTask keeps waiting.
Unfinished == {"QUEUED", "BLOCKED", "RUNNING"}

\* What a step may do to the threads that sleep in waitTask.
SleepersKept ==
    \/ waiting' = {}
    \/ /\ initialized' = initialized
       /\ \A t \in waiting' : \/ t \in waiting /\ waitFor'[t] = waitFor[t]
                              \/ Unsettled(waitFor'[t])
       /\ \A s \in Slots : state[s] \in Unfinished /\ executor[s] = "CPU"
                             => state'[s] \in Unfinished

\* The handle a thread waits for names a CPU task, until that is released.
HandlesValid ==
    \A t \in Threads : waitFor[t] # NoHandle =>
        LET h == waitFor[t]
        IN  /\ h \in Handles
            /\ h.generation <= generation[h.slot]
            /\ h.generation = generation[h.slot] =>
                   state[h.slot] # "INVALID" /\ executor[h.slot] = "CPU"

\* No step frees a slot without a new generation, nor retargets a live one.
LEMMA StepSlotKept == IInv /\ [Next]_vars => \A s \in Slots : SlotKept(s)
<1> SUFFICES ASSUME IInv, [Next]_vars PROVE \A s \in Slots : SlotKept(s)
  OBVIOUS
<1>0. TypeOK /\ RunsOnceOnItsOwner
  BY DEF IInv
<1>a. ASSUME UNCHANGED <<generation, executor>>,
             \A s \in Slots : state'[s] # "INVALID" \/ state'[s] = state[s]
      PROVE  \A s \in Slots : SlotKept(s)
  BY <1>a DEF SlotKept
<1>b. ASSUME NEW t, NEW s \in Slots, NEW result, Settle(t, s, result)
      PROVE  \A c \in Slots : state'[c] # "INVALID" \/ state'[c] = state[c]
  BY <1>b DEF Settle, CancelTree, Outcome
<1>1. ASSUME NEW t \in Threads \cup Workers, AnySubmit(t) PROVE \A c \in Slots : SlotKept(c)
  <2>1. PICK s \in Free, x \in Executors, before \in SUBSET (Slots \ Free) : Submit(t, s, x, before)
    BY <1>1 DEF AnySubmit
  <2>2. /\ s \in Slots /\ state[s] = "INVALID"
        /\ \E v \in {"QUEUED", "BLOCKED", "CANCELLED"} : state' = [state EXCEPT ![s] = v]
        /\ executor' = [executor EXCEPT ![s] = x]
        /\ UNCHANGED generation
    BY <2>1 DEF Submit, Free
  <2> QED BY <1>0, <2>2 DEF SlotKept, TypeOK
<1>2. ASSUME NEW t \in Threads \cup Workers, AnyBatch(t) PROVE \A c \in Slots : SlotKept(c)
  <2>1. PICK new \in SUBSET Free :
          \E position \in [new -> 1..Cardinality(new)], x \in [new -> Executors] :
             \E added : SubmitBatch(t, position, x, added)
    BY <1>2 DEF AnyBatch
  <2>2. PICK position \in [new -> 1..Cardinality(new)], x \in [new -> Executors] :
          \E added : SubmitBatch(t, position, x, added)
    BY <2>1
  <2>3. PICK added : SubmitBatch(t, position, x, added)
    BY <2>2
  <2>4. DOMAIN position = new /\ \A s \in new : state[s] = "INVALID"
    BY DEF Free
  <2>5. {s \in new : {e \in added : e.child = s} = {}} \subseteq new
    OBVIOUS
  <2>6. /\ UNCHANGED generation
        /\ executor' = [s \in Slots |-> IF s \in new THEN x[s] ELSE executor[s]]
        /\ \A s \in Slots : s \notin new => state'[s] = state[s]
    BY <2>3, <2>4, <2>5 DEF SubmitBatch
  <2> QED BY <2>4, <2>6 DEF SlotKept
<1>3. ASSUME NEW t \in Threads \cup Workers, NEW result \in {"SUCCESS", "FAILURE", "PENDING"},
             Return(t, result)
      PROVE  \A c \in Slots : SlotKept(c)
  <2>1. job[t] \in Slots /\ UNCHANGED <<generation, executor>>
    BY <1>0, <1>3 DEF Return, TypeOK
  <2>2. CASE executor[job[t]] \in Providers /\ result = "PENDING"
    <3>1. state' = [state EXCEPT ![job[t]] = "AWAITING"]
      BY <1>3, <2>2 DEF Return
    <3> QED BY <1>0, <1>a, <2>1, <3>1 DEF TypeOK
  <2>3. CASE ~(executor[job[t]] \in Providers /\ result = "PENDING")
    <3>1. Settle(t, job[t], result)
      BY <1>3, <2>3 DEF Return
    <3> QED BY <1>a, <1>b, <2>1, <3>1
  <2> QED BY <2>2, <2>3
<1>4. ASSUME NEW t \in Threads \cup Workers, NEW h \in Handles, Cancel(t, h)
      PROVE  \A c \in Slots : SlotKept(c)
  <2>1. UNCHANGED <<generation, executor>> /\ \A c \in Slots : state'[c] # "INVALID" \/ state'[c] = state[c]
    BY <1>4 DEF Cancel, CancelTree
  <2> QED BY <1>a, <2>1
<1>5. ASSUME NEW t \in Threads \cup Workers, NEW h \in Handles, Release(t, h)
      PROVE  \A c \in Slots : SlotKept(c)
  <2>1. /\ state' = [state EXCEPT ![h.slot] = "INVALID"]
        /\ generation' = [generation EXCEPT ![h.slot] = generation[h.slot] + 1]
        /\ executor' = [executor EXCEPT ![h.slot] = "CPU"]
    BY <1>5 DEF Release
  <2> QED BY <1>0, <2>1 DEF SlotKept, TypeOK
<1>6. ASSUME NEW t \in Threads \cup Workers, NEW h \in Handles, NEW result \in {"SUCCESS", "FAILURE"},
             CompleteProvider(t, h, result)
      PROVE  \A c \in Slots : SlotKept(c)
  <2>1. h.slot \in Slots /\ Settle(t, h.slot, result) /\ UNCHANGED <<generation, executor>>
    BY <1>6 DEF CompleteProvider, Handles
  <2> QED BY <1>a, <1>b, <2>1
<1>7. ASSUME NEW t \in Threads \cup Workers, NEW s \in Slots, Take(t, s)
      PROVE  \A c \in Slots : SlotKept(c)
  BY <1>0, <1>7 DEF Take, SlotKept, TypeOK
<1>8. ASSUME NEW w \in Workers, WorkerTake(w) PROVE \A c \in Slots : SlotKept(c)
  BY <1>7, <1>8 DEF WorkerTake, NextFor, ReadyAt, QueuedCpu
<1>9. ASSUME NEW t \in Threads, Pump(t) PROVE \A c \in Slots : SlotKept(c)
  BY <1>7, <1>9 DEF Pump
<1>10. CASE ShutdownBegin
  BY <1>10 DEF ShutdownBegin, SlotKept
<1>11. ASSUME UNCHANGED taskVars PROVE \A c \in Slots : SlotKept(c)
  BY <1>11 DEF SlotKept, taskVars
<1>12. ASSUME NEW w \in Workers, WorkerSleep(w) \/ WorkerExit(w) PROVE UNCHANGED taskVars
  BY <1>12 DEF WorkerSleep, WorkerExit
<1>13. ASSUME NEW t \in Threads, \/ \E h \in Handles : Wait(t, h)
                                 \/ WaitAgain(t)
                                 \/ WaitReturn(t)
                                 \/ \E p \in Providers : BindProvider(t, p)
       PROVE  UNCHANGED taskVars
  BY <1>13 DEF Wait, WaitAgain, WaitReturn, BindProvider
<1>14. ASSUME SpuriousWakeup \/ ShutdownEnd \/ Terminated \/ UNCHANGED vars PROVE UNCHANGED taskVars
  BY <1>14 DEF SpuriousWakeup, ShutdownEnd, Terminated, vars
<1> QED BY <1>1, <1>2, <1>3, <1>4, <1>5, <1>6, <1>8, <1>9, <1>10, <1>11, <1>12, <1>13, <1>14 DEF Next

\* Whenever a CPU task settles, every thread that sleeps in waitTask is woken.
LEMMA StepSleepersKept == IInv /\ [Next]_vars => SleepersKept
<1> SUFFICES ASSUME IInv, [Next]_vars PROVE SleepersKept
  OBVIOUS
<1>0. TypeOK /\ RunsOnceOnItsOwner
  BY DEF IInv
<1>a. ASSUME UNCHANGED <<initialized, waitFor, waiting>>,
             \A s \in Slots : \/ state'[s] = state[s] \/ state'[s] \in Unfinished
                              \/ state[s] = "INVALID" \/ executor[s] # "CPU"
      PROVE  SleepersKept
  BY <1>a DEF SleepersKept, Unfinished
<1>1. ASSUME NEW t \in Threads \cup Workers, AnySubmit(t) PROVE SleepersKept
  <2>1. PICK s \in Free, x \in Executors, before \in SUBSET (Slots \ Free) : Submit(t, s, x, before)
    BY <1>1 DEF AnySubmit
  <2>2. /\ s \in Slots /\ state[s] = "INVALID"
        /\ \E v \in {"QUEUED", "BLOCKED", "CANCELLED"} : state' = [state EXCEPT ![s] = v]
        /\ waiting' = {} \/ UNCHANGED waiting
        /\ UNCHANGED <<initialized, waitFor>>
    BY <2>1 DEF Submit, Free, NotifyFinished
  <2>3. CASE waiting' = {}
    BY <2>3 DEF SleepersKept
  <2>4. CASE UNCHANGED waiting
    BY <1>0, <1>a, <2>2, <2>4 DEF TypeOK
  <2> QED BY <2>2, <2>3, <2>4
<1>2. ASSUME NEW t \in Threads \cup Workers, AnyBatch(t) PROVE SleepersKept
  <2>1. PICK new \in SUBSET Free :
          \E position \in [new -> 1..Cardinality(new)], x \in [new -> Executors] :
             \E added : SubmitBatch(t, position, x, added)
    BY <1>2 DEF AnyBatch
  <2>2. PICK position \in [new -> 1..Cardinality(new)], x \in [new -> Executors] :
          \E added : SubmitBatch(t, position, x, added)
    BY <2>1
  <2>3. PICK added : SubmitBatch(t, position, x, added)
    BY <2>2
  <2>4. DOMAIN position = new /\ \A s \in new : state[s] = "INVALID"
    BY DEF Free
  <2>5. {s \in new : {e \in added : e.child = s} = {}} \subseteq new
    OBVIOUS
  <2>6. /\ UNCHANGED <<initialized, waitFor, waiting>>
        /\ \A s \in Slots : s \notin new => state'[s] = state[s]
    BY <2>3, <2>4, <2>5 DEF SubmitBatch
  <2> QED BY <1>a, <2>4, <2>6
<1>b. ASSUME NEW t, NEW s, NEW result, Settle(t, s, result) PROVE SleepersKept
  BY <1>b DEF Settle, CancelTree, NotifyFinished, SleepersKept
<1>3. ASSUME NEW t \in Threads \cup Workers, NEW result \in {"SUCCESS", "FAILURE", "PENDING"},
             Return(t, result)
      PROVE  SleepersKept
  <2>1. job[t] \in Slots /\ UNCHANGED <<initialized, waitFor>>
    BY <1>0, <1>3 DEF Return, TypeOK
  <2>2. CASE executor[job[t]] \in Providers /\ result = "PENDING"
    <3>1. state' = [state EXCEPT ![job[t]] = "AWAITING"] /\ UNCHANGED waiting
      BY <1>3, <2>2 DEF Return
    <3>2. executor[job[t]] # "CPU"
      BY <2>2, ProvidersAssumption
    <3> QED BY <1>0, <1>a, <2>1, <3>1, <3>2 DEF TypeOK
  <2>3. CASE ~(executor[job[t]] \in Providers /\ result = "PENDING")
    BY <1>3, <1>b, <2>3 DEF Return
  <2> QED BY <2>2, <2>3
<1>4. ASSUME NEW t \in Threads \cup Workers, NEW h \in Handles, Cancel(t, h) PROVE SleepersKept
  <2>1. CASE h.slot \in Cancellable
    BY <1>4, <2>1 DEF Cancel, CancelTree, NotifyFinished, SleepersKept
  <2>2. CASE h.slot \notin Cancellable
    BY <1>4, <1>a, <2>2 DEF Cancel
  <2> QED BY <2>1, <2>2
<1>5. ASSUME NEW t \in Threads \cup Workers, NEW h \in Handles, Release(t, h) PROVE SleepersKept
  BY <1>5 DEF Release, NotifyFinished, SleepersKept
<1>6. ASSUME NEW t \in Threads \cup Workers, NEW h \in Handles, NEW result \in {"SUCCESS", "FAILURE"},
             CompleteProvider(t, h, result)
      PROVE  SleepersKept
  BY <1>6, <1>b DEF CompleteProvider
<1>7. ASSUME NEW t \in Threads \cup Workers, NEW s \in Slots, Take(t, s) PROVE SleepersKept
  <2>1. state' = [state EXCEPT ![s] = "RUNNING"] /\ UNCHANGED <<initialized, waitFor, waiting>>
    BY <1>7 DEF Take
  <2> QED BY <1>0, <1>a, <2>1 DEF TypeOK, Unfinished
<1>8. ASSUME NEW w \in Workers, WorkerTake(w) PROVE SleepersKept
  BY <1>7, <1>8 DEF WorkerTake, NextFor, ReadyAt, QueuedCpu
<1>9. ASSUME NEW t \in Threads, Pump(t) PROVE SleepersKept
  BY <1>7, <1>9 DEF Pump
<1>10. CASE ShutdownBegin \/ ShutdownEnd
  BY <1>10 DEF ShutdownBegin, ShutdownEnd, NotifyFinished, SleepersKept
<1>11. ASSUME NEW w \in Workers, WorkerSleep(w) \/ WorkerExit(w) PROVE SleepersKept
  BY <1>11, <1>a DEF WorkerSleep, WorkerExit, taskVars
<1>12. ASSUME NEW t \in Threads, \/ \E h \in Handles : Wait(t, h)
                                 \/ WaitAgain(t)
                                 \/ WaitReturn(t)
       PROVE  SleepersKept
  <2>1. UNCHANGED <<state, executor, initialized>>
    BY <1>12 DEF Wait, WaitAgain, WaitReturn, taskVars
  <2>2. \A u \in waiting' : (u \in waiting /\ waitFor'[u] = waitFor[u]) \/ Unsettled(waitFor'[u])
    BY <1>0, <1>12 DEF Wait, WaitAgain, WaitReturn, TypeOK
  <2> QED BY <2>1, <2>2 DEF SleepersKept
<1>13. ASSUME NEW t \in Threads, NEW p \in Providers, BindProvider(t, p) PROVE SleepersKept
  BY <1>13, <1>a DEF BindProvider, taskVars, threadVars
<1>14. CASE SpuriousWakeup
  BY <1>14 DEF SpuriousWakeup, taskVars, SleepersKept
<1>15. CASE Terminated \/ UNCHANGED vars
  BY <1>15, <1>a DEF Terminated, vars, taskVars, threadVars
<1> QED BY <1>1, <1>2, <1>3, <1>4, <1>5, <1>6, <1>8, <1>9, <1>10, <1>11, <1>12, <1>13, <1>14, <1>15 DEF Next

WaitInv == HandlesValid /\ SleepersWaitForLiveTasks

\* waitFor only takes the handle of a task that is current.
LEMMA StepWaitFor ==
    ASSUME IInv, [Next]_vars, NEW t \in Threads
    PROVE  \/ waitFor'[t] = waitFor[t]
           \/ waitFor'[t] = NoHandle
           \/ \E h \in Handles : /\ waitFor'[t] = h /\ IsCurrent(h) /\ executor[h.slot] = "CPU"
                                 /\ UNCHANGED <<state, generation, executor>>
<1>0. TypeOK
  BY DEF IInv
<1>1. CASE UNCHANGED waitFor
  BY <1>1
<1>2. ASSUME NEW u \in Threads, NEW h \in Handles, Wait(u, h)
      PROVE  \/ waitFor'[t] = waitFor[t]
             \/ /\ waitFor'[t] = h /\ IsCurrent(h) /\ executor[h.slot] = "CPU"
                /\ UNCHANGED <<state, generation, executor>>
  BY <1>0, <1>2 DEF Wait, TypeOK, taskVars
<1>3. ASSUME NEW u \in Threads, WaitReturn(u)
      PROVE  waitFor'[t] = waitFor[t] \/ waitFor'[t] = NoHandle
  BY <1>0, <1>3 DEF WaitReturn, TypeOK
<1>4. ASSUME NEW u \in Threads \cup Workers,
             \/ AnySubmit(u)
             \/ AnyBatch(u)
             \/ \E result \in {"SUCCESS", "FAILURE", "PENDING"} : Return(u, result)
             \/ \E h \in Handles : \/ Cancel(u, h)
                                   \/ Release(u, h)
                                   \/ \E result \in {"SUCCESS", "FAILURE"} :
                                          CompleteProvider(u, h, result)
      PROVE  UNCHANGED waitFor
  <2>1. CASE AnySubmit(u)
    BY <2>1 DEF AnySubmit, Submit
  <2>2. CASE AnyBatch(u)
    <3>1. PICK position, x, added : SubmitBatch(u, position, x, added)
      BY <2>2 DEF AnyBatch
    <3> QED BY <3>1 DEF SubmitBatch
  <2>3. ASSUME NEW h \in Handles, NEW result, Cancel(u, h) \/ Release(u, h) \/ CompleteProvider(u, h, result)
        PROVE  UNCHANGED waitFor
    BY <2>3 DEF Cancel, Release, CompleteProvider
  <2>4. ASSUME NEW result, Return(u, result) PROVE UNCHANGED waitFor
    BY <2>4 DEF Return
  <2> QED BY <1>4, <2>1, <2>2, <2>3, <2>4
<1>5. ASSUME NEW w \in Workers, WorkerSleep(w) \/ WorkerTake(w) \/ WorkerExit(w)
      PROVE  UNCHANGED waitFor
  BY <1>5 DEF WorkerSleep, WorkerTake, WorkerExit, Take
<1>6. ASSUME NEW u \in Threads, Pump(u) \/ WaitAgain(u) \/ \E p \in Providers : BindProvider(u, p)
      PROVE  UNCHANGED waitFor
  BY <1>6 DEF Pump, Take, WaitAgain, BindProvider, threadVars
<1>7. ASSUME SpuriousWakeup \/ ShutdownBegin \/ ShutdownEnd \/ Terminated \/ UNCHANGED vars
      PROVE  UNCHANGED waitFor
  BY <1>7 DEF SpuriousWakeup, ShutdownBegin, ShutdownEnd, Terminated, vars, threadVars
<1> QED BY <1>1, <1>2, <1>3, <1>4, <1>5, <1>6, <1>7 DEF Next

\* Every step keeps the handles of waiting threads and the tasks they wait for.
LEMMA StepWaitInv == IInv /\ WaitInv /\ [Next]_vars => WaitInv'
<1> SUFFICES ASSUME IInv, WaitInv, [Next]_vars PROVE WaitInv'
  OBVIOUS
<1>0. TypeOK
  BY DEF IInv
<1>1. \A s \in Slots : SlotKept(s)
  BY StepSlotKept
<1>2. \A s \in Slots : generation[s] \in Nat /\ generation'[s] \in Nat
  BY <1>0, NextIInv, CapacityAssumption DEF IInv, TypeOK
<1>3. HandlesValid'
  <2> SUFFICES ASSUME NEW t \in Threads, waitFor'[t] # NoHandle
               PROVE  LET h == waitFor'[t]
                      IN  /\ h \in Handles
                          /\ h.generation <= generation'[h.slot]
                          /\ h.generation = generation'[h.slot] =>
                                 state'[h.slot] # "INVALID" /\ executor'[h.slot] = "CPU"
    BY DEF HandlesValid
  <2>1. CASE waitFor'[t] = waitFor[t]
    <3> DEFINE h == waitFor[t]
    <3>1. /\ h \in Handles /\ h.slot \in Slots /\ h.generation \in Nat
          /\ h.generation <= generation[h.slot]
          /\ h.generation = generation[h.slot] => state[h.slot] # "INVALID" /\ executor[h.slot] = "CPU"
      BY <2>1 DEF WaitInv, HandlesValid, Handles
    <3>2. SlotKept(h.slot) /\ generation[h.slot] \in Nat /\ generation'[h.slot] \in Nat
      BY <1>1, <1>2, <3>1
    <3> HIDE DEF h
    <3>3. /\ h.generation <= generation'[h.slot]
          /\ h.generation = generation'[h.slot] => state'[h.slot] # "INVALID" /\ executor'[h.slot] = "CPU"
      BY <3>1, <3>2 DEF SlotKept
    <3> QED BY <2>1, <3>1, <3>3 DEF h
  <2>2. ASSUME NEW h \in Handles, waitFor'[t] = h, IsCurrent(h), executor[h.slot] = "CPU",
               UNCHANGED <<state, generation, executor>>
        PROVE  /\ h.generation <= generation'[h.slot]
               /\ state'[h.slot] # "INVALID" /\ executor'[h.slot] = "CPU"
    BY <1>2, <2>2 DEF IsCurrent, Handles
  <2> QED BY <2>1, <2>2, StepWaitFor
<1>4. SleepersWaitForLiveTasks'
  <2>1. CASE waiting' = {}
    BY <2>1 DEF SleepersWaitForLiveTasks
  <2>2. CASE waiting' # {}
    <3> SUFFICES ASSUME NEW t \in waiting' PROVE Unsettled(waitFor[t])'
      BY DEF SleepersWaitForLiveTasks
    <3>0. /\ initialized' = initialized
          /\ (t \in waiting /\ waitFor'[t] = waitFor[t]) \/ Unsettled(waitFor'[t])
          /\ \A s \in Slots : state[s] \in Unfinished /\ executor[s] = "CPU"
                                => state'[s] \in Unfinished
      BY <2>2, StepSleepersKept DEF SleepersKept
    <3> DEFINE h == waitFor'[t]
    <3>1. Unsettled(h)
      BY <3>0 DEF WaitInv, SleepersWaitForLiveTasks
    <3>2. /\ h.slot \in Slots /\ initialized
          /\ generation[h.slot] = h.generation
          /\ state[h.slot] \in Unfinished
      BY <3>1 DEF Unsettled, IsCurrent, Unfinished
    <3>3. t \in Threads
      BY NextIInv DEF IInv, TypeOK
    <3>4. h \in Handles
      <4>1. h # NoHandle
        BY <3>2, SlotsAssumption DEF NoHandle
      <4> QED BY <1>3, <3>3, <4>1 DEF HandlesValid
    <3>5. executor[h.slot] = "CPU"
      <4>1. CASE waitFor'[t] = waitFor[t]
        <5>1. h # NoHandle
          BY <3>2, SlotsAssumption DEF NoHandle
        <5> QED BY <3>2, <3>3, <4>1, <5>1 DEF WaitInv, HandlesValid
      <4>2. CASE waitFor'[t] # waitFor[t]
        <5>1. h # NoHandle
          BY <3>2, SlotsAssumption DEF NoHandle
        <5> QED BY <3>3, <4>2, <5>1, StepWaitFor
      <4> QED BY <4>1, <4>2
    <3>6. state'[h.slot] \in Unfinished
      BY <3>0, <3>2, <3>5
    <3>7. generation'[h.slot] = h.generation
      <4>1. SlotKept(h.slot) /\ Forward(h.slot)
        <5>1. UNCHANGED vars \/ \A s \in Slots : Forward(s)
          BY StepForward
        <5>2. UNCHANGED vars => Forward(h.slot)
          BY DEF vars, taskVars, Forward
        <5> QED BY <1>1, <3>2, <5>1, <5>2
      <4> QED BY <3>2, <3>6, <4>1 DEF SlotKept, Forward, Unfinished
    <3> HIDE DEF h
    <3>8. initialized' /\ h.slot \in Slots /\ generation'[h.slot] = h.generation /\ state'[h.slot] \in Unfinished
      BY <3>0, <3>2, <3>6, <3>7
    <3> QED BY <3>8 DEF Unsettled, IsCurrent, Unfinished, h
  <2> QED BY <2>1, <2>2
<1> QED BY <1>3, <1>4 DEF WaitInv

\* No wakeup of waitTask is lost: a thread sleeps only while the very task it
\* asked for is still queued, blocked or running.
THEOREM NoLostWaiter == Spec => []SleepersWaitForLiveTasks
<1>1. Init => WaitInv
  BY DEF Init, WaitInv, HandlesValid, SleepersWaitForLiveTasks
<1>2. IInv /\ WaitInv /\ [Next]_vars => WaitInv'
  BY StepWaitInv
<1>3. WaitInv => SleepersWaitForLiveTasks
  BY DEF WaitInv
<1> QED BY <1>1, <1>2, <1>3, Inductive, PTL DEF Spec

-----------------------------------------------------------------------------
(* Closing the scheduler *)

\* From the moment shutdown begins nothing can start, and only the callbacks
\* of workers are still running; a worker leaves its loop idle.
ClosingInv ==
    /\ closing => /\ Cancellable = {} /\ Awaiting = {} /\ asleep = {}
                  /\ \A t \in Threads : job[t] = None
    /\ ~initialized => closing /\ exited = Workers /\ waiting = {}
    /\ \A w \in exited : closing /\ job[w] = None
    /\ \A w \in asleep : job[w] = None

\* No step reopens what closing has emptied.
LEMMA StepClosingInv == IInv /\ ClosingInv /\ [Next]_vars => ClosingInv'
<1> SUFFICES ASSUME IInv, ClosingInv, [Next]_vars PROVE ClosingInv'
  OBVIOUS
<1>0. /\ TypeOK /\ CountersExact /\ RunsOnceOnItsOwner
      /\ Workers \cap Threads = {} /\ Owner \in Threads /\ None \notin Slots
  BY SlotsAssumption, ThreadsAssumption DEF IInv
\* A step while the scheduler is open.
<1>a. ASSUME ~closing, UNCHANGED <<closing, initialized, exited>>, \A w \in asleep' : job'[w] = None
      PROVE  ClosingInv'
  BY <1>a DEF ClosingInv
\* A step that starts no task and no callback.
<1>b. ASSUME UNCHANGED <<closing, initialized, exited, job>>, asleep' \subseteq asleep,
             initialized \/ waiting' \subseteq waiting,
             \A s \in Slots : \/ state'[s] = state[s]
                              \/ state'[s] \in Settled \cup {"INVALID"}
      PROVE  ClosingInv'
  BY <1>b DEF ClosingInv, Cancellable, Awaiting, Settled
<1>1. ASSUME NEW t \in Threads \cup Workers, AnySubmit(t) PROVE ClosingInv'
  BY <1>1, <1>a DEF AnySubmit, Submit, NotifyReady, ClosingInv
<1>2. ASSUME NEW t \in Threads \cup Workers, AnyBatch(t) PROVE ClosingInv'
  <2>1. PICK position, x, added : SubmitBatch(t, position, x, added)
    BY <1>2 DEF AnyBatch
  <2>2. ~closing /\ UNCHANGED <<closing, initialized, exited, job>> /\ asleep' \subseteq asleep
    BY <2>1 DEF SubmitBatch, WakeAllWorkers
  <2> QED BY <1>a, <2>2 DEF ClosingInv
<1>3. ASSUME NEW t \in Threads \cup Workers, NEW result \in {"SUCCESS", "FAILURE", "PENDING"},
             Return(t, result)
      PROVE  ClosingInv'
  <2>1. /\ job[t] # None /\ job[t] \in Slots
        /\ job' = [job EXCEPT ![t] = None]
        /\ UNCHANGED <<closing, initialized, exited>>
    BY <1>0, <1>3 DEF Return, TypeOK
  <2>2. asleep' \subseteq asleep
    BY <1>3 DEF Return, Settle, NotifyReady
  <2>3. \A w \in asleep' : job'[w] = None
    BY <1>0, <2>1, <2>2 DEF ClosingInv, TypeOK
  <2>4. CASE ~closing
    BY <1>a, <2>1, <2>3, <2>4
  <2>5. CASE closing
    <3>1. t \in Workers /\ t \notin exited /\ initialized
      BY <2>1, <2>5 DEF ClosingInv
    <3>2. executor[job[t]] \notin Providers
      BY <1>0, <2>1, <3>1, ProvidersAssumption DEF RunsOnceOnItsOwner
    <3>3. Settle(t, job[t], result)
      BY <1>3, <3>2 DEF Return
    <3>4. \A s \in Slots : state'[s] = state[s] \/ state'[s] \in Settled
      BY <2>5, <3>3 DEF Settle, CancelTree, Outcome, Settled
    <3>5. Cancellable' = {} /\ Awaiting' = {}
      BY <2>5, <3>4 DEF ClosingInv, Cancellable, Awaiting, Settled
    <3>6. \A u \in Threads : job'[u] = None
      BY <1>0, <2>1, <2>5 DEF ClosingInv, TypeOK
    <3> QED BY <1>0, <2>1, <2>2, <2>3, <2>5, <3>1, <3>5, <3>6 DEF ClosingInv, TypeOK
  <2> QED BY <2>4, <2>5
<1>4. ASSUME NEW t \in Threads \cup Workers, NEW h \in Handles, Cancel(t, h) \/ Release(t, h)
      PROVE  ClosingInv'
  <2>1. UNCHANGED <<closing, initialized, exited, job, asleep>> /\ initialized
    BY <1>4 DEF Cancel, Release, IsCurrent
  <2>2. \A s \in Slots : state'[s] = state[s] \/ state'[s] \in Settled \cup {"INVALID"}
    BY <1>0, <1>4 DEF Cancel, CancelTree, Release, Settled, TypeOK
  <2> QED BY <1>b, <2>1, <2>2
<1>5. ASSUME NEW t \in Threads \cup Workers, NEW h \in Handles, NEW result \in {"SUCCESS", "FAILURE"},
             CompleteProvider(t, h, result)
      PROVE  ClosingInv'
  <2>1. h.slot \in Awaiting
    BY <1>5 DEF CompleteProvider, IsCurrent, Awaiting
  <2>2. ~closing /\ UNCHANGED <<closing, initialized, exited, job>>
    BY <1>5, <2>1 DEF ClosingInv, CompleteProvider
  <2>3. asleep' \subseteq asleep
    BY <1>5 DEF CompleteProvider, Settle, NotifyReady
  <2> QED BY <1>a, <2>2, <2>3 DEF ClosingInv
<1>6. ASSUME NEW w \in Workers, WorkerTake(w) PROVE ClosingInv'
  <2>1. /\ ~closing /\ w \notin asleep
        /\ \E s : job' = [job EXCEPT ![w] = s]
        /\ UNCHANGED <<closing, initialized, exited, asleep>>
    BY <1>6 DEF WorkerTake, AtLoopHead, Take
  <2> QED BY <1>0, <1>a, <2>1 DEF ClosingInv, TypeOK
<1>7. ASSUME NEW t \in Threads, Pump(t) PROVE ClosingInv'
  <2>1. /\ ~closing
        /\ \E s : job' = [job EXCEPT ![t] = s]
        /\ UNCHANGED <<closing, initialized, exited, asleep>>
    BY <1>7 DEF Pump, Take
  <2> QED BY <1>0, <1>a, <2>1 DEF ClosingInv, TypeOK
<1>8. ASSUME NEW w \in Workers, WorkerSleep(w) PROVE ClosingInv'
  BY <1>8, <1>a DEF WorkerSleep, AtLoopHead, ClosingInv
<1>9. ASSUME NEW w \in Workers, WorkerExit(w) PROVE ClosingInv'
  BY <1>0, <1>9 DEF WorkerExit, AtLoopHead, ClosingInv, taskVars, Cancellable, Awaiting, TypeOK
<1>10. ASSUME NEW t \in Threads, \/ \E h \in Handles : Wait(t, h)
                                 \/ WaitAgain(t)
       PROVE  ClosingInv'
  BY <1>10, <1>b DEF Wait, WaitAgain, Unsettled, IsCurrent, taskVars
<1>11. ASSUME NEW t \in Threads, WaitReturn(t) \/ \E p \in Providers : BindProvider(t, p)
       PROVE  ClosingInv'
  BY <1>11, <1>b DEF WaitReturn, BindProvider, taskVars, threadVars
<1>12. CASE SpuriousWakeup
  BY <1>12, <1>b DEF SpuriousWakeup, taskVars
<1>13. CASE ShutdownBegin
  <2>1. /\ pending = 0 /\ executing = 0 /\ initialized /\ closing' = TRUE
        /\ job[Owner] = None
        /\ asleep' = {}
        /\ \A s \in Slots : state'[s] = IF s \in Cancellable THEN "CANCELLED" ELSE state[s]
        /\ UNCHANGED <<initialized, exited, job>>
    BY <1>13 DEF ShutdownBegin, WakeAllWorkers
  <2>2. Awaiting = {}
    <3>1. Awaiting \in SUBSET Slots
      BY DEF Awaiting
    <3>2. IsFiniteSet(Awaiting)
      BY <3>1, FiniteSubsets
    <3> QED BY <1>0, <2>1, <3>2, FS_EmptySet DEF CountersExact
  <2>3. ProviderRuns = {}
    <3>1. ProviderRuns \in SUBSET Threads /\ executing = Cardinality(ProviderRuns)
      BY <1>0 DEF ProviderRuns, CountersExact
    <3>2. IsFiniteSet(ProviderRuns)
      BY <3>1, FiniteSubsets
    <3> QED BY <2>1, <3>1, <3>2, FS_EmptySet
  <2>4. \A t \in Threads : job[t] = None
    BY <1>0, <2>1, <2>3 DEF ProviderRuns, RunsOnceOnItsOwner
  <2>5. Cancellable' = {} /\ Awaiting' = {}
    BY <2>1, <2>2 DEF Cancellable, Awaiting
  <2> QED BY <2>1, <2>4, <2>5 DEF ClosingInv
<1>14. CASE ShutdownEnd
  <2>1. /\ closing /\ exited = Workers
        /\ waiting' = {}
        /\ UNCHANGED <<state, asleep, exited, job, closing>>
    BY <1>14 DEF ShutdownEnd, Joined, NotifyFinished, taskVars
  <2> QED BY <2>1 DEF ClosingInv, Cancellable, Awaiting
<1>15. CASE Terminated \/ UNCHANGED vars
  BY <1>15, <1>b DEF Terminated, vars, taskVars, threadVars
<1> QED BY <1>1, <1>2, <1>3, <1>4, <1>5, <1>6, <1>7, <1>8, <1>9, <1>10, <1>11, <1>12, <1>13, <1>14, <1>15 DEF Next

\* Once the scheduler is closing, nothing is left to cancel, nobody sleeps, and only
\* workers still run callbacks.
THEOREM ClosingInductive == Spec => []ClosingInv
<1>1. Init => ClosingInv
  BY DEF Init, ClosingInv
<1>2. IInv /\ ClosingInv /\ [Next]_vars => ClosingInv'
  BY StepClosingInv
<1> QED BY <1>1, <1>2, Inductive, PTL DEF Spec

\* After shutdown returns, every task has settled, no edge is in use, every
\* worker is gone and nobody is asleep.
THEOREM ShutdownIsComplete == Spec => []ShutdownLeavesNothing
<1>1. IInv /\ ClosingInv => ShutdownLeavesNothing
  <2> SUFFICES ASSUME IInv, ClosingInv, ~initialized
               PROVE  /\ \A s \in Slots : state[s] \in Settled \cup {"INVALID"}
                      /\ exited = Workers /\ asleep = {} /\ waiting = {}
                      /\ edges = {}
    BY DEF ShutdownLeavesNothing
  <2>1. TypeOK /\ RunsOnceOnItsOwner /\ EdgesExact
    BY DEF IInv
  <2>2. exited = Workers /\ asleep = {} /\ waiting = {} /\ Cancellable = {} /\ Awaiting = {}
    BY DEF ClosingInv
  <2>3. \A t \in Threads \cup Workers : job[t] = None
    BY <2>2 DEF ClosingInv
  <2>4. ASSUME NEW s \in Slots PROVE state[s] \in Settled \cup {"INVALID"}
    <3>1. state[s] \notin {"BLOCKED", "QUEUED", "AWAITING"}
      BY <2>2 DEF Cancellable, Awaiting
    <3>2. state[s] # "RUNNING"
      BY <2>1, <2>3, SlotsAssumption DEF RunsOnceOnItsOwner
    <3> QED BY <2>1, <3>1, <3>2 DEF TypeOK, States, Live
  <2>5. edges = {}
    <3>1. \A e \in edges : e.child \in Slots /\ state[e.child] = "BLOCKED"
      BY <2>1 DEF EdgesExact, TypeOK, Edges
    <3> QED BY <2>2, <3>1 DEF Cancellable
  <2> QED BY <2>2, <2>4, <2>5
<1> QED BY <1>1, Inductive, ClosingInductive, PTL

-----------------------------------------------------------------------------
(* The workers that watch the queues *)

Heads == {w \in Workers : AtLoopHead(w)}

\* A step that adds at most n tasks, wakes n workers and lets no worker go to
\* sleep, take a task or exit keeps the queues watched.
LEMMA NotifiedKeepsWatch ==
    ASSUME IInv, ClosingInv, ReadyWorkIsWatched, NEW n \in Nat, NotifyReady(n),
           readyCpu' \in Nat, readyCpu' <= readyCpu + n,
           UNCHANGED exited, \A w \in Workers : job[w] = None => job'[w] = None
    PROVE  ReadyWorkIsWatched'
<1> SUFFICES ASSUME asleep' # {} PROVE Cardinality(Heads') >= readyCpu'
  BY DEF ReadyWorkIsWatched, Heads
<1>0. asleep \subseteq Workers /\ exited \subseteq Workers /\ readyCpu \in Nat
  BY DEF IInv, TypeOK
<1>1. PICK woken \in SUBSET asleep :
         /\ Cardinality(woken) = n \/ (Cardinality(woken) < n /\ woken = asleep)
         /\ asleep' = asleep \ woken
  BY DEF NotifyReady
<1>2. Cardinality(woken) = n
  BY <1>1
<1>3. Heads \cap woken = {} /\ Heads \cup woken \subseteq Heads'
  <2>1. exited = {} /\ \A w \in woken : w \in Workers /\ job[w] = None
    BY <1>0, <1>1 DEF ClosingInv
  <2> QED BY <1>1, <2>1 DEF Heads, AtLoopHead
<1>4. Heads \in SUBSET Workers /\ woken \in SUBSET Workers /\ Heads' \in SUBSET Workers
  BY <1>0 DEF Heads
<1>5. IsFiniteSet(Heads) /\ IsFiniteSet(woken) /\ IsFiniteSet(Heads')
      /\ Cardinality(Heads) \in Nat /\ Cardinality(Heads') \in Nat
  BY <1>4, FiniteSubsets
<1>6. Cardinality(Heads \cup woken) = Cardinality(Heads) + Cardinality(woken)
  <2>1. Cardinality(Heads \cap woken) = 0
    BY <1>3, FS_EmptySet
  <2>2. Cardinality(Heads \cup woken)
          = Cardinality(Heads) + Cardinality(woken) - Cardinality(Heads \cap woken)
    BY <1>5, FS_Union
  <2>3. Cardinality(woken) \in Nat
    BY <1>2
  <2> QED BY <1>5, <2>1, <2>2, <2>3
<1>7. Cardinality(Heads \cup woken) <= Cardinality(Heads')
  BY <1>3, <1>5, FS_Subset
<1>8. Cardinality(Heads) >= readyCpu
  BY <1>1 DEF ReadyWorkIsWatched, Heads
<1> QED BY <1>0, <1>2, <1>5, <1>6, <1>7, <1>8

\* So does a step that adds no task and moves no worker but to wake it.
LEMMA AwakeKeepsWatch ==
    ASSUME IInv, ClosingInv, ReadyWorkIsWatched, asleep' \subseteq asleep,
           readyCpu' \in Nat, readyCpu' <= readyCpu,
           UNCHANGED exited, \A w \in Workers : job[w] = None => job'[w] = None
    PROVE  ReadyWorkIsWatched'
<1> SUFFICES ASSUME asleep' # {} PROVE Cardinality(Heads') >= readyCpu'
  BY DEF ReadyWorkIsWatched, Heads
<1>1. Heads \subseteq Heads'
  BY DEF Heads, AtLoopHead
<1>2. Heads \in SUBSET Workers /\ Heads' \in SUBSET Workers
  BY DEF Heads
<1>3. Cardinality(Heads) <= Cardinality(Heads') /\ Cardinality(Heads) \in Nat /\ Cardinality(Heads') \in Nat
  BY <1>1, <1>2, FiniteSubsets, FS_Subset
<1>4. Cardinality(Heads) >= readyCpu /\ readyCpu \in Nat
  BY DEF ReadyWorkIsWatched, Heads, IInv, TypeOK
<1> QED BY <1>3, <1>4

\* A completion wakes a worker for each CPU task it readies.
LEMMA SettleKeepsWatch ==
    ASSUME IInv, ClosingInv, ReadyWorkIsWatched,
           NEW t \in Threads \cup Workers, NEW s \in Slots, NEW result,
           state[s] \in {"RUNNING", "AWAITING"}, Settle(t, s, result),
           UNCHANGED <<executor, exited>>, \A w \in Workers : job[w] = None => job'[w] = None
    PROVE  ReadyWorkIsWatched'
<1> DEFINE outcome == Outcome(s, result)
           readyNow == {c \in Released(s) : executor[c] = "CPU"}
<1>1. readyCpu' \in Nat /\ readyCpu \in Nat
  BY SettleExact DEF AfterSettling, IInv, TypeOK
<1>2. CASE outcome = "COMPLETED" /\ ~closing
  <2>1. readyCpu' = readyCpu + Cardinality(readyNow) /\ NotifyReady(Cardinality(readyNow))
    BY <1>2 DEF Settle
  <2>2. readyNow \in SUBSET Slots
    BY DEF Released
  <2>3. Cardinality(readyNow) \in Nat
    BY <2>2, FiniteSubsets
  <2> HIDE DEF readyNow
  <2> QED BY <1>1, <2>1, <2>3, NotifiedKeepsWatch
<1>3. CASE ~(outcome = "COMPLETED" /\ ~closing)
  <2> DEFINE dropped == Cascade({e.child : e \in Outgoing(s)})
  <2>1. readyCpu' = readyCpu - Cardinality(dropped \cap QueuedCpu) /\ UNCHANGED asleep
    BY <1>3 DEF Settle, CancelTree
  <2>2. dropped \cap QueuedCpu \in SUBSET Slots
    BY DEF QueuedCpu
  <2>3. Cardinality(dropped \cap QueuedCpu) \in Nat
    BY <2>2, FiniteSubsets
  <2> HIDE DEF dropped
  <2> QED BY <1>1, <2>1, <2>3, AwakeKeepsWatch
<1> QED BY <1>2, <1>3

\* Every step keeps a worker on its way for each queued CPU task.
LEMMA StepWatch == IInv /\ ClosingInv /\ ReadyWorkIsWatched /\ [Next]_vars => ReadyWorkIsWatched'
<1> SUFFICES ASSUME IInv, ClosingInv, ReadyWorkIsWatched, [Next]_vars PROVE ReadyWorkIsWatched'
  OBVIOUS
<1>0. TypeOK /\ CountersExact /\ RunsOnceOnItsOwner /\ Workers \cap Threads = {}
  BY ThreadsAssumption DEF IInv
<1>n. readyCpu \in Nat /\ readyCpu' \in Nat
  BY <1>0, NextIInv DEF IInv, TypeOK
\* A step that adds no task.
<1>a. ASSUME UNCHANGED <<exited, job>>, asleep' \subseteq asleep, readyCpu' <= readyCpu
      PROVE  ReadyWorkIsWatched'
  BY <1>a, <1>n, AwakeKeepsWatch
<1>b. ASSUME asleep' = {} PROVE ReadyWorkIsWatched'
  BY <1>b DEF ReadyWorkIsWatched
<1>1. ASSUME NEW t \in Threads \cup Workers, AnySubmit(t) PROVE ReadyWorkIsWatched'
  <2>1. PICK s \in Free, x \in Executors, before \in SUBSET (Slots \ Free) : Submit(t, s, x, before)
    BY <1>1 DEF AnySubmit
  <2>2. UNCHANGED <<exited, job>>
    BY <2>1 DEF Submit
  <2>3. CpuCount(x) \in Nat
    BY DEF CpuCount
  <2>4. \/ UNCHANGED <<asleep, readyCpu>>
        \/ readyCpu' = readyCpu + CpuCount(x) /\ NotifyReady(CpuCount(x))
    BY <2>1 DEF Submit
  <2> QED BY <1>a, <1>n, <2>2, <2>3, <2>4, NotifiedKeepsWatch
<1>2. ASSUME NEW t \in Threads \cup Workers, AnyBatch(t) PROVE ReadyWorkIsWatched'
  <2>1. PICK position, x, added : SubmitBatch(t, position, x, added)
    BY <1>2 DEF AnyBatch
  <2> DEFINE rootsCpu == {s \in {s \in DOMAIN position : {e \in added : e.child = s} = {}} : x[s] = "CPU"}
  <2>2. /\ UNCHANGED <<exited, job>>
        /\ readyCpu' = readyCpu + Cardinality(rootsCpu)
        /\ IF rootsCpu # {} THEN asleep' = {} ELSE asleep' = asleep
    BY <2>1 DEF SubmitBatch, WakeAllWorkers
  <2>3. Cardinality({}) = 0
    BY FS_EmptySet
  <2> HIDE DEF rootsCpu
  <2>4. CASE rootsCpu = {}
    BY <1>a, <1>n, <2>2, <2>3, <2>4
  <2> QED BY <1>b, <2>2, <2>4
<1>3. ASSUME NEW t \in Threads \cup Workers, NEW result \in {"SUCCESS", "FAILURE", "PENDING"},
             Return(t, result)
      PROVE  ReadyWorkIsWatched'
  <2>1. /\ job[t] \in Slots /\ state[job[t]] = "RUNNING"
        /\ job' = [job EXCEPT ![t] = None]
        /\ UNCHANGED <<executor, exited>>
    BY <1>0, <1>3 DEF Return, TypeOK, RunsOnceOnItsOwner
  <2>2. \A w \in Workers : job[w] = None => job'[w] = None
    BY <1>0, <2>1 DEF TypeOK
  <2>3. CASE executor[job[t]] \in Providers /\ result = "PENDING"
    <3>1. UNCHANGED <<readyCpu, asleep>>
      BY <1>3, <2>3 DEF Return
    <3> QED BY <1>n, <2>1, <2>2, <3>1, AwakeKeepsWatch
  <2>4. CASE ~(executor[job[t]] \in Providers /\ result = "PENDING")
    <3>1. Settle(t, job[t], result)
      BY <1>3, <2>4 DEF Return
    <3> QED BY <2>1, <2>2, <3>1, SettleKeepsWatch
  <2> QED BY <2>3, <2>4
<1>4. ASSUME NEW t \in Threads \cup Workers, NEW h \in Handles, Cancel(t, h) PROVE ReadyWorkIsWatched'
  <2>1. UNCHANGED <<exited, job, asleep>>
    BY <1>4 DEF Cancel
  <2>2. \/ readyCpu' = readyCpu
        \/ readyCpu' = readyCpu - Cardinality(Cascade({h.slot}) \cap QueuedCpu)
    BY <1>4 DEF Cancel, CancelTree
  <2>3. Cascade({h.slot}) \cap QueuedCpu \in SUBSET Slots
    BY DEF QueuedCpu
  <2>4. Cardinality(Cascade({h.slot}) \cap QueuedCpu) \in Nat
    BY <2>3, FiniteSubsets
  <2> QED BY <1>a, <1>n, <2>1, <2>2, <2>4
<1>5. ASSUME NEW t \in Threads \cup Workers, NEW h \in Handles, Release(t, h) PROVE ReadyWorkIsWatched'
  BY <1>5, <1>a, <1>n DEF Release, countVars
<1>6. ASSUME NEW t \in Threads \cup Workers, NEW h \in Handles, NEW result \in {"SUCCESS", "FAILURE"},
             CompleteProvider(t, h, result)
      PROVE  ReadyWorkIsWatched'
  <2>1. /\ h.slot \in Slots /\ state[h.slot] = "AWAITING" /\ Settle(t, h.slot, result)
        /\ UNCHANGED <<executor, exited, job>>
    BY <1>6 DEF CompleteProvider, Handles
  <2> QED BY <2>1, SettleKeepsWatch
<1>7. ASSUME NEW w \in Workers, WorkerTake(w) PROVE ReadyWorkIsWatched'
  <2>1. PICK s \in QueuedCpu : Take(w, s)
    BY <1>7 DEF WorkerTake, NextFor, ReadyAt
  <2>2. /\ readyCpu' = readyCpu - 1
        /\ job' = [job EXCEPT ![w] = s] /\ UNCHANGED <<asleep, exited>>
        /\ s # None
    BY <2>1, SlotsAssumption DEF Take, CpuCount, QueuedCpu
  <2> SUFFICES ASSUME asleep # {} PROVE Cardinality(Heads') >= readyCpu'
    BY <2>2 DEF ReadyWorkIsWatched, Heads
  <2>3. w \in Heads /\ Heads' = Heads \ {w}
    BY <1>0, <1>7, <2>2 DEF Heads, AtLoopHead, WorkerTake, TypeOK
  <2>4. Heads \in SUBSET Workers
    BY DEF Heads
  <2>5. IsFiniteSet(Heads) /\ Cardinality(Heads) \in Nat
    BY <2>4, FiniteSubsets
  <2>6. Cardinality(Heads \ {w}) = Cardinality(Heads) - 1
    BY <2>3, <2>5, FS_RemoveElement
  <2>7. Cardinality(Heads) >= readyCpu
    BY DEF ReadyWorkIsWatched, Heads
  <2> QED BY <1>n, <2>2, <2>3, <2>5, <2>6, <2>7
<1>8. ASSUME NEW t \in Threads, Pump(t) PROVE ReadyWorkIsWatched'
  <2>1. PICK s \in Slots : Take(t, s)
    BY <1>8 DEF Pump
  <2>2. /\ readyCpu' = readyCpu - CpuCount(executor[s])
        /\ job' = [job EXCEPT ![t] = s] /\ UNCHANGED <<asleep, exited>>
    BY <2>1 DEF Take
  <2>3. CpuCount(executor[s]) \in Nat
    BY DEF CpuCount
  <2>4. \A w \in Workers : job[w] = None => job'[w] = None
    BY <1>0, <2>2 DEF TypeOK
  <2> QED BY <1>n, <2>2, <2>3, <2>4, AwakeKeepsWatch
<1>9. ASSUME NEW w \in Workers, WorkerSleep(w) PROVE ReadyWorkIsWatched'
  <2>1. readyCpu' = 0 /\ Heads' \in SUBSET Workers
    BY <1>9 DEF WorkerSleep, countVars, Heads
  <2>2. Cardinality(Heads') \in Nat
    BY <2>1, FiniteSubsets
  <2> QED BY <2>1, <2>2 DEF ReadyWorkIsWatched, Heads
<1>10. ASSUME NEW w \in Workers, WorkerExit(w) PROVE ReadyWorkIsWatched'
  BY <1>10, <1>b DEF WorkerExit, ClosingInv
<1>11. ASSUME NEW t \in Threads, \/ \E h \in Handles : Wait(t, h)
                                 \/ WaitAgain(t)
                                 \/ WaitReturn(t)
                                 \/ \E p \in Providers : BindProvider(t, p)
       PROVE  ReadyWorkIsWatched'
  BY <1>11, <1>a, <1>n DEF Wait, WaitAgain, WaitReturn, BindProvider, countVars, threadVars
<1>12. CASE SpuriousWakeup
  BY <1>12, <1>a, <1>n DEF SpuriousWakeup, countVars
<1>13. CASE ShutdownBegin
  BY <1>13, <1>b DEF ShutdownBegin, WakeAllWorkers
<1>14. CASE ShutdownEnd \/ Terminated \/ UNCHANGED vars
  BY <1>14, <1>a, <1>n DEF ShutdownEnd, Terminated, vars, countVars, threadVars
<1> QED BY <1>1, <1>2, <1>3, <1>4, <1>5, <1>6, <1>7, <1>8, <1>9, <1>10, <1>11, <1>12, <1>13, <1>14 DEF Next

\* No wakeup of a worker is lost: while one sleeps, every queued CPU task has
\* a worker of its own on the way to the queues.
THEOREM NoLostWorker == Spec => []ReadyWorkIsWatched
<1>1. Init => ReadyWorkIsWatched
  BY DEF Init, ReadyWorkIsWatched
<1>2. IInv /\ ClosingInv /\ ReadyWorkIsWatched /\ [Next]_vars => ReadyWorkIsWatched'
  BY StepWatch
<1> QED BY <1>1, <1>2, Inductive, ClosingInductive, PTL DEF Spec

-----------------------------------------------------------------------------
(* No ring of blocked tasks *)

\* Every set of tasks has one that waits for none of them: the edges have no
\* cycle.  EdgesExact alone would hold of two tasks that wait for each other.
Acyclic ==
    \A C \in SUBSET Slots :
        C # {} => \E c \in C : \A e \in edges : e.child = c => e.parent \notin C

\* A set of places in the array of a batch has a first one.
LEMMA First ==
    ASSUME NEW P \in SUBSET Nat, P # {}
    PROVE  \E n \in P : \A m \in P : n <= m
<1>1. PICK n \in P : \A m \in P : <<m, n>> \notin OpToRel(<, Nat)
  BY NatLessThanWellFounded, WFMin
<1>2. \A m \in P : ~(m < n)
  BY <1>1 DEF OpToRel
<1> QED BY <1>2

\* Edges that are taken away close no cycle.
LEMMA FewerEdges ==
    ASSUME Acyclic, edges' \subseteq edges
    PROVE  Acyclic'
BY DEF Acyclic

\* A new task that waits for tasks of before is waited for by none.
LEMMA SubmitAcyclic ==
    ASSUME IInv, Acyclic, NEW t, NEW s \in Free, NEW x, NEW before \in SUBSET (Slots \ Free),
           Submit(t, s, x, before)
    PROVE  Acyclic'
<1>1. TypeOK /\ EdgesExact /\ s \in Slots /\ state[s] \notin Live
  BY DEF IInv, Free, Live
<1>2. \A e \in edges : e.parent # s
  BY <1>1 DEF EdgesExact
<1>3. \A e \in edges' : e \in edges \/ (e.child = s /\ e.parent # s)
  BY DEF Submit
<1> SUFFICES ASSUME NEW C \in SUBSET Slots, C # {}
             PROVE  \E c \in C : \A e \in edges' : e.child = c => e.parent \notin C
  BY DEF Acyclic
<1>4. CASE C = {s}
  BY <1>2, <1>3, <1>4
<1>5. CASE C # {s}
  <2>1. C \ {s} # {}
    BY <1>5
  <2>2. PICK c \in C \ {s} : \A e \in edges : e.child = c => e.parent \notin C \ {s}
    BY <2>1 DEF Acyclic
  <2> QED BY <1>2, <1>3, <2>2
<1> QED BY <1>4, <1>5

\* The first task of a batch in the order of its array waits for none of it.
LEMMA BatchAcyclic ==
    ASSUME IInv, Acyclic, NEW t, NEW new \in SUBSET Free,
           NEW position \in [new -> 1..Cardinality(new)], NEW x,
           NEW added \in SUBSET {e \in [parent : new, child : new, copy : Copies] : Ordered(position, e)},
           SubmitBatch(t, position, x, added)
    PROVE  Acyclic'
<1>1. EdgesExact /\ new \subseteq Slots /\ \A s \in new : state[s] \notin Live
  BY DEF IInv, Free, Live
<1>2. \A e \in edges : e.parent \notin new
  BY <1>1 DEF EdgesExact
<1>3. \A e \in added : e.parent \in new /\ e.child \in new /\ position[e.parent] < position[e.child]
  BY DEF Ordered
<1>4. edges' = edges \cup added
  BY DEF SubmitBatch
<1> SUFFICES ASSUME NEW C \in SUBSET Slots, C # {}
             PROVE  \E c \in C : \A e \in edges' : e.child = c => e.parent \notin C
  BY DEF Acyclic
<1>5. CASE C \subseteq new
  <2> DEFINE P == {position[s] : s \in C}
  <2>1. \A s \in C : position[s] \in Nat
    BY <1>5
  <2>2. P \in SUBSET Nat /\ P # {}
    BY <2>1
  <2>3. PICK n \in P : \A m \in P : n <= m
    BY <2>2, First
  <2>4. PICK c \in C : position[c] = n
    OBVIOUS
  <2>5. ASSUME NEW s \in C PROVE ~(position[s] < position[c])
    <3>1. position[s] \in P
      OBVIOUS
    <3>2. n <= position[s] /\ position[s] \in Nat /\ n \in Nat
      BY <2>1, <2>2, <2>3, <3>1
    <3> HIDE DEF P
    <3> QED BY <2>4, <3>2
  <2> QED BY <1>2, <1>3, <1>4, <1>5, <2>5
<1>6. CASE ~(C \subseteq new)
  <2>1. C \ new # {}
    BY <1>6
  <2>2. PICK c \in C \ new : \A e \in edges : e.child = c => e.parent \notin C \ new
    BY <2>1 DEF Acyclic
  <2> QED BY <1>2, <1>3, <1>4, <2>2
<1> QED BY <1>5, <1>6

\* Only a submission adds edges.
LEMMA StepAcyclic == IInv /\ Acyclic /\ [Next]_vars => Acyclic'
<1> SUFFICES ASSUME IInv, Acyclic, [Next]_vars PROVE Acyclic'
  OBVIOUS
<1>1. ASSUME NEW t \in Threads \cup Workers, AnySubmit(t) PROVE Acyclic'
  BY <1>1, SubmitAcyclic DEF AnySubmit
<1>2. ASSUME NEW t \in Threads \cup Workers, AnyBatch(t) PROVE Acyclic'
  BY <1>2, BatchAcyclic DEF AnyBatch
<1>3. ASSUME NEW t, NEW s, NEW result, Settle(t, s, result) PROVE edges' \subseteq edges
  BY <1>3 DEF Settle, CancelTree, Unlink
<1>4. ASSUME NEW t \in Threads \cup Workers, NEW result \in {"SUCCESS", "FAILURE", "PENDING"},
             Return(t, result) PROVE edges' \subseteq edges
  BY <1>3, <1>4 DEF Return
<1>5. ASSUME NEW t \in Threads \cup Workers, NEW h \in Handles,
             \/ Cancel(t, h) \/ Release(t, h)
             \/ \E result \in {"SUCCESS", "FAILURE"} : CompleteProvider(t, h, result)
      PROVE  edges' \subseteq edges
  BY <1>3, <1>5 DEF Cancel, CancelTree, Unlink, Release, CompleteProvider
<1>6. ASSUME NEW w \in Workers, WorkerSleep(w) \/ WorkerTake(w) \/ WorkerExit(w)
      PROVE  edges' \subseteq edges
  BY <1>6 DEF WorkerSleep, WorkerTake, WorkerExit, Take, taskVars
<1>7. ASSUME NEW t \in Threads,
             \/ Pump(t) \/ WaitAgain(t) \/ WaitReturn(t)
             \/ (\E h \in Handles : Wait(t, h)) \/ \E p \in Providers : BindProvider(t, p)
      PROVE  edges' \subseteq edges
  BY <1>7 DEF Pump, Take, WaitAgain, WaitReturn, Wait, BindProvider, taskVars
<1>8. CASE SpuriousWakeup \/ ShutdownBegin \/ ShutdownEnd \/ Terminated \/ UNCHANGED vars
  <2>1. edges' \subseteq edges
    BY <1>8 DEF SpuriousWakeup, ShutdownBegin, Unlink, ShutdownEnd, Terminated, vars, taskVars
  <2> QED BY <2>1, FewerEdges
<1> QED BY <1>1, <1>2, <1>4, <1>5, <1>6, <1>7, <1>8, FewerEdges DEF Next

\* Going back from a blocked task along the edges, one arrives at a task that is
\* not blocked: the last of the blocked ones has a prerequisite.
LEMMA BlockedByLive == IInv /\ Acyclic => BlockedHasLiveCause
<1> SUFFICES ASSUME IInv, Acyclic, NEW s \in Slots, state[s] = "BLOCKED"
    PROVE  \E p \in Slots :
            /\ state[p] \in {"QUEUED", "RUNNING", "AWAITING"}
            /\ \A C \in SUBSET Slots :
                   (s \in C /\ \A e \in edges : e.child \in C => e.parent \in C) => p \in C
  BY DEF BlockedHasLiveCause
<1> DEFINE Closed(C) == s \in C /\ \A e \in edges : e.child \in C => e.parent \in C
           behind == {p \in Slots : \A C \in SUBSET Slots : Closed(C) => p \in C}
           stuck == {p \in behind : state[p] = "BLOCKED"}
<1>1. TypeOK /\ EdgesExact
  BY DEF IInv
<1>2. s \in stuck /\ stuck \in SUBSET Slots
  OBVIOUS
<1>3. PICK c \in stuck : \A e \in edges : e.child = c => e.parent \notin stuck
  BY <1>2 DEF Acyclic
<1>4. PICK e \in edges : e.child = c
  BY <1>1, <1>3 DEF EdgesExact, Incoming
<1>5. e.parent \in Slots /\ state[e.parent] \in Live
  BY <1>1 DEF EdgesExact, TypeOK, Edges
<1>6. e.parent \in behind
  BY <1>4, <1>5
<1>7. state[e.parent] # "BLOCKED"
  BY <1>3, <1>4, <1>6
<1> QED BY <1>5, <1>6, <1>7 DEF Live

\* Whatever is submitted, alone or in batches, finished, failed or cancelled, no
\* blocked task waits for itself: behind each there is a task that can go on.
THEOREM NoDeadRing == Spec => []BlockedHasLiveCause
<1>1. Init => Acyclic
  BY DEF Init, Acyclic
<1>2. Spec => []Acyclic
  BY <1>1, StepAcyclic, Inductive, PTL DEF Spec
<1> QED BY <1>2, BlockedByLive, Inductive, PTL
=============================================================================
