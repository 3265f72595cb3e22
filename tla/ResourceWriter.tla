---------------------------- MODULE ResourceWriter ----------------------------
(***************************************************************************)
(* Source/Resources/SIRResourceGraph.cpp as its writer thread sees it:      *)
(* records that depend on one another, the reverse edges that tell who is   *)
(* affected by a change, the invalidation journal with its cursors, and the *)
(* dependency plans that are compiled now and used later.                   *)
(*                                                                         *)
(* One action per writer call; what other threads see of it is the matter   *)
(* of ResourceReadScopes.  When a retired record may be collected is left   *)
(* open here: any of them, at any time.                                     *)
(***************************************************************************)
EXTENDS ResourceMemory

CONSTANTS
    Keys,
    MaxResources,   \* m_nMaxResources
    MaxEdges,       \* m_nMaxDependencyEdges
    MaxEvents,      \* m_nMaxInvalidationEvents
    Publications,   \* what clients publish: key, kind, deps, chunks
    MaxChanges      \* bound on m_nChangeSequence

ASSUME WriterAssumption ==
    /\ MaxResources \in Nat \ {0} /\ MaxEdges \in Nat /\ MaxEvents \in Nat \ {0}
    /\ MaxChanges \in Nat

Publication == [key : Keys, kind : STRING, deps : Seq([target : Keys, required : BOOLEAN]),
                chunks : Seq(ChunkInput)]

ASSUME PublicationsAssumption == Publications \subseteq Publication

Slots == 0..(MaxResources - 1)

VARIABLES
    published,    \* records by slot: the slots in its domain are the ones taken
    nextGeneration,
    invalidation, \* m_nInvalidationSequence of each slot
    edges,        \* the targets of the reverse edges of each slot
    retired,      \* records behind m_pRetired
    change,       \* m_nChangeSequence
    journal,      \* m_pInvalidations and m_nTotalInvalidations
    reader,       \* a client of the journal: cursor, whether it must rescan, what it has noticed
    plan          \* the plan a client holds: its root and entries, no entries without one

recordVars == <<published, nextGeneration, invalidation, edges, retired, change, journal>>
writerVars == <<recordVars, memoryVars, reader, plan>>

NoPlan == [root |-> -1, entries |-> <<>>]

WriterInit ==
    /\ MemoryInit
    /\ published = <<>> /\ retired = {}
    /\ nextGeneration = [s \in Slots |-> 1]
    /\ invalidation = [s \in Slots |-> 0]
    /\ edges = [s \in Slots |-> <<>>]
    /\ change = 0
    /\ journal = [events |-> <<>>, total |-> 0]
    /\ reader = [cursor |-> 0, rescan |-> FALSE, noticed |-> [s \in Slots |-> [gen |-> 0, change |-> 0]]]
    /\ plan = NoPlan

-----------------------------------------------------------------------------
(* Keys, slots and dependencies *)

Known(key) == \E s \in DOMAIN published : published[s].key = key
SlotOf(key) == CHOOSE s \in DOMAIN published : published[s].key = key
Targets(deps) == {deps[i].target : i \in DOMAIN deps}

\* Keys that lie on the paths from a key, the key itself included.
KeysFrom(key) ==
    LET within[n \in 0..MaxResources] ==
            IF n = 0 THEN {key}
            ELSE within[n - 1] \cup UNION {Targets(published[s].deps) :
                                           s \in {t \in DOMAIN published : published[t].key \in within[n - 1]}}
    IN within[MaxResources]

\* Mutant: only what is resident can close a cycle.
ReachesResidentKey(from, to) == from = to \/ (Known(to) /\ to \in KeysFrom(from))

ReachesKey(from, to) == to \in KeysFrom(from)

ValidDependencies(publication) == \A i \in DOMAIN publication.deps :
    LET target == publication.deps[i].target IN
    /\ publication.deps[i].required => Known(target)
    /\ ~ReachesKey(target, publication.key)

ActiveEdges(slots) == LET count[n \in 0..MaxResources] ==
                              IF n = 0 THEN 0
                              ELSE count[n - 1] + IF n - 1 \in slots THEN Len(edges[n - 1]) ELSE 0
                      IN count[MaxResources]
CanReplaceEdges(s, deps) == Len(deps) <= MaxEdges - ActiveEdges(Slots \ {s})

-----------------------------------------------------------------------------
(* Invalidation *)

\* The slots that depend on a key, over any number of edges.
Affected(key, records, reverse) ==
    LET sources(keys) == {s \in Slots : Range(reverse[s]) \cap keys # {}}
        within[n \in 0..MaxResources] ==
            IF n = 0 THEN {key}
            ELSE within[n - 1] \cup {records[s].key : s \in sources(within[n - 1]) \cap DOMAIN records}
    IN sources(within[MaxResources])

\* The events of a change go into the ring one after another; where they lap it, the later stays.
Note(j, events) ==
    LET position(i) == (j.total + i - 1) % MaxEvents
        written == {position(i) : i \in DOMAIN events}
        last(p) == Max({i \in DOMAIN events : position(i) = p})
    IN [events |-> [p \in DOMAIN j.events \cup written |->
                        IF p \in written THEN events[last(p)] ELSE j.events[p]],
        total |-> j.total + Len(events)]

\* invalidateReverseDependents; the order of the events of one change is left out.
Invalidate(key, records, reverse, sequences) ==
    LET affected == Affected(key, records, reverse)
        events == [s \in affected \cap DOMAIN records |->
                       [key |-> key, slot |-> s, gen |-> records[s].gen, change |-> change + 1]]
    IN
    /\ change < MaxChanges
    /\ change' = change + 1
    /\ invalidation' = [s \in Slots |-> IF s \in affected THEN change + 1 ELSE sequences[s]]
    /\ journal' = Note(journal, SetToSeq(Range(events)))

\* publishRecord: a record replaces the one in its slot.
PublishRecord(record, reverse, sequences) ==
    LET s == record.slot
        records == With(published, s, record)
    IN
    /\ published' = records
    /\ edges' = reverse
    /\ retired' = retired \cup (IF s \in DOMAIN published THEN {published[s]} ELSE {})
    /\ Invalidate(record.key, records, reverse, sequences)

-----------------------------------------------------------------------------
(* The calls of the writer *)

EmptySlots == Slots \ DOMAIN published

\* An identity for a key that is not there; a known key changes nothing.
Request(key) ==
    LET s == LowestFree(Slots, DOMAIN published) IN
    /\ ~Known(key) /\ EmptySlots # {} /\ blocks < MaxBlocks
    /\ nextGeneration' = [nextGeneration EXCEPT ![s] = @ + 1]
    /\ PublishRecord([slot |-> s, key |-> key, kind |-> "none", gen |-> nextGeneration[s], rev |-> 0,
                      state |-> "REQUESTED", deps |-> <<>>, chunks |-> <<>>],
                     edges, [invalidation EXCEPT ![s] = 0])
    /\ blocks' = blocks + 1
    /\ UNCHANGED <<staging, shared, reader, plan>>

SlotFor(key) == IF Known(key) THEN SlotOf(key) ELSE LowestFree(Slots, DOMAIN published)

Admitted(publication) ==
    /\ ValidDependencies(publication)
    /\ Known(publication.key) \/ EmptySlots # {}
    /\ CanReplaceEdges(SlotFor(publication.key), publication.deps)
    /\ Known(publication.key) =>
           LET prior == published[SlotOf(publication.key)]
           IN prior.state = "RESIDENT" => prior.kind = publication.kind
    /\ blocks < MaxBlocks

Record(publication, chunks) ==
    LET s == SlotFor(publication.key)
        new == ~Known(publication.key)
    IN [slot |-> s, key |-> publication.key, kind |-> publication.kind,
        gen |-> IF new THEN nextGeneration[s] ELSE published[s].gen,
        rev |-> IF new THEN 1 ELSE published[s].rev + 1,
        state |-> "RESIDENT", deps |-> publication.deps, chunks |-> chunks]

\* publish, from the admission to publishRecord.  Nothing can fail once the edges are replaced.
Commit(publication, prepared) ==
    LET record == Record(publication, prepared.chunks)
        s == record.slot
    IN
    /\ nextGeneration' = IF Known(publication.key) THEN nextGeneration
                         ELSE [nextGeneration EXCEPT ![s] = @ + 1]
    /\ Adopt(prepared)
    /\ PublishRecord(record,
                     [edges EXCEPT ![s] = [i \in DOMAIN record.deps |-> record.deps[i].target]],
                     [invalidation EXCEPT ![s] = 0])

Publish(publication) ==
    LET prepared == Prepare(publication.chunks) IN
    /\ Admitted(publication) /\ prepared.ok
    /\ Commit(publication, prepared)
    /\ UNCHANGED <<reader, plan>>

\* A chunk is refused: what was prepared before it is given back.
PublishFails(publication) ==
    LET prepared == Prepare(publication.chunks) IN
    /\ Admitted(publication) /\ ~prepared.ok
    /\ Abandon(prepared)
    /\ UNCHANGED <<recordVars, reader, plan>>

Replace(record, chunks, state) ==
    /\ blocks < MaxBlocks
    /\ Keep(chunks)
    /\ PublishRecord([record EXCEPT !.rev = @ + 1, !.state = state, !.chunks = chunks], edges, invalidation)
    /\ UNCHANGED <<nextGeneration, reader, plan>>

\* A resource whose last chunk goes is as good as requested.
EvictChunk(s, i) ==
    LET record == published[s] IN
    /\ s \in DOMAIN published /\ i \in DOMAIN record.chunks
    /\ Replace(record, RemoveAt(record.chunks, i), IF Len(record.chunks) = 1 THEN "REQUESTED" ELSE "RESIDENT")

MarkFailed(s) ==
    /\ s \in DOMAIN published /\ published[s].state # "RESIDENT"
    /\ Replace(published[s], published[s].chunks, "FAILED")

Retire(s) ==
    LET record == published[s]
        records == Restrict(published, DOMAIN published \ {s})
        reverse == [edges EXCEPT ![s] = <<>>]
    IN
    /\ s \in DOMAIN published
    /\ published' = records /\ edges' = reverse /\ retired' = retired \cup {record}
    /\ Invalidate(record.key, records, reverse, [invalidation EXCEPT ![s] = 0])
    /\ UNCHANGED <<memoryVars, nextGeneration, reader, plan>>

\* One record of collectRetired.
Collect(record) ==
    /\ retired' = retired \ {record}
    /\ Destroy(record.chunks)
    /\ UNCHANGED <<published, nextGeneration, invalidation, edges, change, journal, reader, plan>>

\* A client takes a buffer, writes it, and publishes or drops it some time later.
Stage(data) == AllocateStaging(data) /\ UNCHANGED <<recordVars, reader, plan>>
Unstage(s) == CancelStaging(s) /\ UNCHANGED <<recordVars, reader, plan>>

-----------------------------------------------------------------------------
(* The journal and the plans *)

Pending == journal.total - reader.cursor

\* Mutant: behind the last event, although the client had no room for all of them.
ResumeBehindAll(count) == journal.total
Resume(count) == reader.cursor + count

Overflowed == Pending > MaxEvents

EventAt(n) == journal.events[(n - 1) % MaxEvents]

\* Of each resource a client remembers the last it was told.
Heed(noticed, events) ==
    LET about(s) == {i \in DOMAIN events : events[i].slot = s}
        last(s) == events[Max(about(s))]
    IN [s \in Slots |-> IF about(s) = {} THEN noticed[s]
                        ELSE [gen |-> last(s).gen, change |-> last(s).change]]

\* pollInvalidations with room for some events; a client that overflowed resumes behind the last.
Poll(capacity) ==
    LET count == IF Pending < capacity THEN Pending ELSE capacity
        events == [i \in 1..count |-> EventAt(reader.cursor + i)]
    IN
    /\ ~reader.rescan /\ Pending > 0
    /\ reader' = IF Overflowed
                 THEN [reader EXCEPT !.cursor = journal.total, !.rescan = TRUE]
                 ELSE [reader EXCEPT !.cursor = Resume(count), !.noticed = Heed(@, events)]
    /\ UNCHANGED <<recordVars, memoryVars, plan>>

\* getInvalidationSequence of every resource the client knows.
Rescan ==
    /\ reader.rescan
    /\ reader' = [reader EXCEPT
           !.rescan = FALSE,
           !.noticed = [s \in Slots |-> IF s \in DOMAIN published
                                        THEN [gen |-> published[s].gen, change |-> invalidation[s]]
                                        ELSE reader.noticed[s]]]
    /\ UNCHANGED <<recordVars, memoryVars, plan>>

\* compileDependencyOrder, depth first: the first depth slots of the queue are the path from the root
\* to the slot that is visited, with the dependency to look at next, and the order holds what is done.
WalkFrom(root) == [depth |-> 1, queue |-> [d \in 1..MaxResources |-> root],
                   next |-> [d \in 1..MaxResources |-> 1], order |-> <<>>, result |-> "PENDING"]

OnPath(walk) == {walk.queue[d] : d \in 1..walk.depth}

\* All dependencies of the slot are in the order: so is now the slot.
Leave(walk) == [walk EXCEPT !.depth = @ - 1, !.order = Append(@, walk.queue[walk.depth]),
                            !.result = IF walk.depth = 1 THEN "SUCCESS" ELSE @]
PassOver(walk) == [walk EXCEPT !.next[walk.depth] = @ + 1]
Enter(walk, child) == [PassOver(walk) EXCEPT !.depth = @ + 1,
                                             !.queue = [@ EXCEPT ![walk.depth + 1] = child],
                                             !.next = [@ EXCEPT ![walk.depth + 1] = 1]]
Stop(walk, result) == [walk EXCEPT !.result = result]

Consider(walk, dep) ==
    IF ~Known(dep.target) THEN IF dep.required THEN Stop(walk, "DEPENDENCY_MISSING") ELSE PassOver(walk)
    ELSE LET child == SlotOf(dep.target) IN
         IF child \in OnPath(walk) THEN Stop(walk, "DEPENDENCY_CYCLE")
         ELSE IF child \in Range(walk.order) THEN PassOver(walk)
         ELSE IF walk.depth = MaxResources THEN Stop(walk, "OUT_OF_BUDGET")
         ELSE Enter(walk, child)

WalkOn(walk) ==
    LET deps == published[walk.queue[walk.depth]].deps
        next == walk.next[walk.depth]
    IN IF walk.result # "PENDING" THEN walk
       ELSE IF next \in DOMAIN deps THEN Consider(walk, deps[next]) ELSE Leave(walk)

\* Every turn leaves a slot or looks at one of the edges.
Walk(root) ==
    LET walk[n \in 0..(MaxResources + MaxEdges)] == IF n = 0 THEN WalkFrom(root) ELSE WalkOn(walk[n - 1])
    IN walk[MaxResources + MaxEdges]

Entry(s) == [slot |-> s, gen |-> published[s].gen, rev |-> published[s].rev,
             state |-> published[s].state, change |-> invalidation[s]]

Entries(root) == LET order == Walk(root).order IN [i \in DOMAIN order |-> Entry(order[i])]

CompilePlan(root) ==
    /\ root \in DOMAIN published /\ Walk(root).result = "SUCCESS"
    /\ plan' = [root |-> root, entries |-> Entries(root)]
    /\ UNCHANGED <<recordVars, memoryVars, reader>>

\* Mutant: a plan is as good as the revisions of its entries.
PlanValidByRevision == \A i \in DOMAIN plan.entries :
    LET entry == plan.entries[i] IN
    entry.slot \in DOMAIN published /\ entry = [Entry(entry.slot) EXCEPT !.change = entry.change]

\* validateTaskPlan
PlanValid == \A i \in DOMAIN plan.entries :
    LET entry == plan.entries[i] IN entry.slot \in DOMAIN published /\ entry = Entry(entry.slot)

-----------------------------------------------------------------------------

WriterNext ==
    \/ \E key \in Keys : Request(key)
    \/ \E publication \in Publications : Publish(publication) \/ PublishFails(publication)
    \/ \E s \in Slots : Retire(s) \/ MarkFailed(s) \/ CompilePlan(s)
    \/ \E s \in DOMAIN published : \E i \in DOMAIN published[s].chunks : EvictChunk(s, i)
    \/ \E record \in retired : Collect(record)
    \/ \E data \in Data : Stage(data)
    \/ \E s \in StagingSlots : Unstage(s)
    \/ \E capacity \in 1..MaxEvents : Poll(capacity)
    \/ Rescan

WriterSpec == WriterInit /\ [][WriterNext]_writerVars

-----------------------------------------------------------------------------
(* What the writer promises *)

LiveRecords == Range(published) \cup retired
UsesOf(r, c) == {r} \X {i \in DOMAIN r.chunks : r.chunks[i].chunk = c}
References(c) == Cardinality(UNION {UsesOf(r, c) : r \in LiveRecords})

\* Each chunk counts exactly the records that refer to it and still holds what was published under
\* it, and the budget is charged for what is there and nothing else, also after publications that
\* failed half way (prepareChunk, adoptPublishedRecordChunks, abandonUnpublishedRecord,
\* buildReplacement, destroyRecord).
MemoryExact ==
    /\ \A c \in DOMAIN shared : shared[c].refs = References(c) /\ shared[c].refs > 0
    /\ \A r \in LiveRecords : \A i \in DOMAIN r.chunks :
           LET use == r.chunks[i] IN
           use.chunk \in DOMAIN shared /\ shared[use.chunk].content = use.content
                                       /\ shared[use.chunk].data = use.data
    /\ blocks = Cardinality(LiveRecords) + 2 * Cardinality(DOMAIN shared) + Cardinality(DOMAIN staging)

\* No resource ever depends on itself, not even over keys that are not there yet: a publication
\* that would close a cycle later is refused when the later key comes (validateDependencies).
DependenciesAcyclic == \A s \in DOMAIN published :
    \A target \in Targets(published[s].deps) : published[s].key \notin KeysFrom(target)

\* A client that polls the journal and rescans after an overflow learns of every invalidation of a
\* resource that lives, however far it lags behind (invalidateReverseDependents, pollInvalidations).
NothingUnnoticed == \A s \in DOMAIN published :
    LET current == [gen |-> published[s].gen, change |-> invalidation[s]] IN
    invalidation[s] > 0 =>
        \/ reader.rescan \/ Pending > MaxEvents
        \/ reader.noticed[s] = current
        \/ \E n \in (reader.cursor + 1)..journal.total :
               EventAt(n).slot = s /\ [gen |-> EventAt(n).gen, change |-> EventAt(n).change] = current

\* The slots on the paths from a slot.
Needed(root) == {s \in DOMAIN published : published[s].key \in KeysFrom(published[root].key)}
SlotsBefore(i) == {plan.entries[j].slot : j \in 1..(i - 1)}

\* A plan that validates is the plan that would be compiled now: it holds what lies on the paths from
\* its root and nothing else, each after all it depends on and nothing required is missing, so no
\* dependency has come, gone or changed since (compileDependencyOrder, validateTaskPlan).
ValidPlanIsCurrent ==
    plan # NoPlan /\ PlanValid =>
        /\ Walk(plan.root).result = "SUCCESS" /\ plan.entries = Entries(plan.root)
        /\ {plan.entries[i].slot : i \in DOMAIN plan.entries} = Needed(plan.root)
        /\ \A i \in DOMAIN plan.entries : \A dep \in Range(published[plan.entries[i].slot].deps) :
               IF Known(dep.target) THEN SlotOf(dep.target) \in SlotsBefore(i) ELSE ~dep.required
=============================================================================
