-------------------------- MODULE ResourceReadScopes --------------------------
(***************************************************************************)
(* SIRResourceGraph (Source/Resources), the part its threads share: one    *)
(* writer publishes and retires immutable records, readers find them       *)
(* without a lock inside read scopes, providers pin them, and the writer   *)
(* gives back the memory of a retired record once no scope that may have   *)
(* read its address is left.                                               *)
(*                                                                         *)
(* One action is one sequentially consistent access to a shared word, or   *)
(* one critical section of m_PinMutex.  What only the writer reads         *)
(* (chunks, dependencies, the journal, staging) is left out.               *)
(***************************************************************************)
EXTENDS Integers, FiniteSets

CONSTANTS
    Records,     \* the memory a record may occupy, used again once freed
    Keys,        \* SIRResourceKey
    Scopes,      \* SIRResourceReadScope objects of the reader threads
    MaxSlots,    \* m_nMaxResources
    MaxReaders,  \* m_nMaxReaders
    MaxPins,     \* m_nMaxProviderPins
    CellCount,   \* m_nReadKeyIndexCapacity
    Probe,       \* key -> n -> the n-th cell a search for the key visits
    Budgets,     \* the values of nMaxRecords that collectRetired is given
    MaxEpoch,    \* bound on m_nPublicationEpoch
    MaxGeneration, \* bound on the generations of slots and of pins
    None, Empty, Tombstone \* nullptr, and the words 0 and 1 of an index cell

Slots  == 1..MaxSlots
Table  == 1..MaxReaders
Pins   == 1..MaxPins
Cells  == 0..(CellCount - 1)
Steps  == 0..(CellCount - 1)
Generations == 1..MaxGeneration

\* UINT64_MAX in a reader epoch: the scope is entering.
Reserved == MaxEpoch + 1

ASSUME BoundsAssumption ==
    /\ MaxSlots \in Nat \ {0} /\ MaxReaders \in Nat /\ MaxPins \in Nat
    /\ CellCount \in Nat /\ CellCount > MaxSlots
    /\ MaxEpoch \in Nat \ {0} /\ MaxGeneration \in Nat \ {0}
    /\ Budgets \subseteq Nat \ {0}
ASSUME WordsAssumption ==
    /\ IsFiniteSet(Records) /\ Keys # {}
    /\ {None, Empty, Tombstone} \cap Records = {}
    /\ Empty # Tombstone
\* A search visits every cell once.
ASSUME ProbeAssumption ==
    /\ Probe \in [Keys -> [Steps -> Cells]]
    /\ \A k \in Keys, c \in Cells : \E n \in Steps : Probe[k][n] = c
    /\ \A k \in Keys, m, n \in Steps : Probe[k][m] = Probe[k][n] => m = n

Infos == [key : Keys, slot : Slots, generation : Generations, resident : BOOLEAN]
PinHandles == [pin : Pins, generation : Generations]

\* What memory holds that no record occupies.
Blank == CHOOSE i \in Infos : TRUE

VARIABLES
    \* the writer's words that the readers load
    published,    \* slot -> m_pPublished
    cells,        \* the read key index
    epoch,        \* m_nPublicationEpoch
    \* the memory of the records
    info,         \* record -> m_Info and m_Handle
    allocated,    \* the records that are allocated
    retired,      \* those of m_pRetired
    retireEpoch,  \* record -> nRetireEpoch
    \* what only the writer touches
    nextGeneration, \* slot -> m_nNextGeneration
    writer,       \* what the writer does: "IDLE", "INDEX", "ADVANCE" or "SCAN"
    target,       \* publishRecord: iSlot
    prior,        \* publishRecord: pPrior
    scanned,      \* collectRetired: reader slots read
    oldest,       \* collectRetired: nOldestReaderEpoch
    \* the read scopes
    readerEpochs, \* reader slot -> m_pReaderEpochs
    at,           \* scope -> where it is
    token,        \* scope -> the reader slot it claimed
    entered,      \* scope -> nEpoch
    held,         \* scope -> the records whose address it has loaded
    sought,       \* scope -> the key find looks for
    probe,        \* scope -> nProbe
    missed,       \* history: scope -> the key has been absent since find began
    \* the provider pins, under m_PinMutex
    pinRecord,    \* pin -> m_pRecord
    pinGeneration,\* pin -> m_nGeneration
    pinCount,     \* record -> m_nProviderPins
    granted       \* history: pin handles given out and not given back -> their record

publishVars == <<published, cells, epoch>>
memoryVars  == <<info, allocated, retired, retireEpoch>>
writerVars  == <<nextGeneration, writer, target, prior, scanned, oldest>>
scopeVars   == <<readerEpochs, at, token, entered, held, sought, probe, missed>>
pinVars     == <<pinRecord, pinGeneration, pinCount, granted>>
vars == <<publishVars, memoryVars, writerVars, scopeVars, pinVars>>

Init ==
    /\ published = [s \in Slots |-> None]
    /\ cells = [c \in Cells |-> Empty]
    /\ epoch = 1
    /\ info = [r \in Records |-> Blank]
    /\ allocated = {} /\ retired = {}
    /\ retireEpoch = [r \in Records |-> 0]
    /\ nextGeneration = [s \in Slots |-> 1]
    /\ writer = "IDLE" /\ target = 1 /\ prior = None
    /\ scanned = 0 /\ oldest = Reserved
    /\ readerEpochs = [i \in Table |-> 0]
    /\ at = [x \in Scopes |-> "OUT"]
    /\ token = [x \in Scopes |-> 0]
    /\ entered = [x \in Scopes |-> 0]
    /\ held = [x \in Scopes |-> {}]
    /\ sought = [x \in Scopes |-> None]
    /\ probe = [x \in Scopes |-> 0]
    /\ missed = [x \in Scopes |-> FALSE]
    /\ pinRecord = [p \in Pins |-> None]
    /\ pinGeneration = [p \in Pins |-> 0]
    /\ pinCount = [r \in Records |-> 0]
    /\ granted = {}

-----------------------------------------------------------------------------
(* The writer: publishRecord and its callers *)

Current == {published[s] : s \in Slots} \ {None}
Vacant  == {s \in Slots : published[s] = None}
Unused  == Records \ allocated

\* m_KeyIndex: the keys that have a slot.
Registered == {info[r].key : r \in Current}

\* The exchange of m_pPublished: r, with contents i, takes the place of what the
\* slot held; None withdraws it.
Exchange(s, r) ==
    /\ writer = "IDLE" /\ epoch < MaxEpoch
    /\ prior' = published[s]
    /\ published' = [published EXCEPT ![s] = r]
    /\ target' = s /\ writer' = "INDEX"
    /\ UNCHANGED <<cells, epoch, retired, retireEpoch, scanned, oldest, scopeVars, pinVars>>

Write(r, contents) ==
    /\ r \in Unused
    /\ allocated' = allocated \cup {r}
    /\ info' = [info EXCEPT ![r] = contents]

\* A faulty variant: the generation of a slot is not advanced.
Bug_Incarnation(s) == UNCHANGED nextGeneration

\* A slot is given to a key under a generation of its own.
Incarnation(s) ==
    /\ nextGeneration[s] < MaxGeneration
    /\ nextGeneration' = [nextGeneration EXCEPT ![s] = @ + 1]

\* request and publish, for a key without a slot, take the first vacant one.
Introduce(k, r, resident) ==
    /\ k \notin Registered
    /\ \E s \in Vacant :
        /\ \A v \in Vacant : s <= v
        /\ Write(r, [key |-> k, slot |-> s, generation |-> nextGeneration[s], resident |-> resident])
        /\ Incarnation(s)
        /\ Exchange(s, r)

\* publish, evictChunk and markFailed replace the record of a key: same handle.
Supersede(s, r, resident) ==
    /\ s \notin Vacant
    /\ Write(r, [info[published[s]] EXCEPT !.resident = resident])
    /\ Exchange(s, r)
    /\ UNCHANGED nextGeneration

Retire(s) ==
    /\ s \notin Vacant
    /\ Exchange(s, None)
    /\ UNCHANGED <<info, allocated, nextGeneration>>

\* The key publishRecord works on.
TargetKey == info[IF published[target] # None THEN published[target] ELSE prior].key

Holds(k, n) == cells[Probe[k][n]] \in Records /\ info[cells[Probe[k][n]]].key = k

\* The steps of a search for k up to the first cell that was never used.
Reachable(k, n) == \A m \in Steps : m < n => cells[Probe[k][m]] # Empty

\* A faulty variant: a deleted key leaves an unused cell, not a tombstone.
Bug_Withdrawn == Empty
Withdrawn == Tombstone

\* Where updateReadKeyIndex may put a key: in its cell if it has one, else in a
\* tombstone or the first unused cell, whichever comes first.
Destinations(k) ==
    LET found == {n \in Steps : Reachable(k, n) /\ Holds(k, n)}
    IN  IF found # {} THEN found
        ELSE {n \in Steps : cells[Probe[k][n]] \in {Empty, Tombstone}}

UpdateIndex ==
    /\ writer = "INDEX"
    /\ \E n \in Destinations(TargetKey) :
        /\ \A m \in Destinations(TargetKey) : n <= m
        /\ cells' = IF published[target] = None /\ ~Holds(TargetKey, n) THEN cells
                    ELSE [cells EXCEPT ![Probe[TargetKey][n]] =
                            IF published[target] = None THEN Withdrawn ELSE published[target]]
    /\ writer' = "ADVANCE"
    /\ missed' =
        [x \in Scopes |-> missed[x] \/ (sought[x] = TargetKey /\ published[target] = None)]
    /\ UNCHANGED <<published, epoch, memoryVars, nextGeneration, target, prior, scanned, oldest,
                   readerEpochs, at, token, entered, held, sought, probe, pinVars>>

\* pushRetired stamps the prior record, then the new epoch is stored.
Advance ==
    /\ writer = "ADVANCE"
    /\ epoch' = epoch + 1
    /\ IF prior = None THEN UNCHANGED <<retired, retireEpoch>>
       ELSE /\ retired' = retired \cup {prior}
            /\ retireEpoch' = [retireEpoch EXCEPT ![prior] = epoch]
    /\ writer' = "IDLE" /\ prior' = None
    /\ UNCHANGED <<published, cells, info, allocated, nextGeneration, target, scanned, oldest,
                   scopeVars, pinVars>>

-----------------------------------------------------------------------------
(* The writer: collectRetired, which holds m_PinMutex *)

PinMutexFree == writer # "SCAN"

CollectBegin ==
    /\ writer = "IDLE"
    /\ writer' = "SCAN" /\ scanned' = 0 /\ oldest' = Reserved
    /\ UNCHANGED <<publishVars, memoryVars, nextGeneration, target, prior, scopeVars, pinVars>>

\* One reader slot; a scope that is entering ends the collection.
CollectScan ==
    /\ writer = "SCAN" /\ scanned < MaxReaders
    /\ LET seen == readerEpochs[scanned + 1]
       IN  IF seen = Reserved
           THEN writer' = "IDLE" /\ scanned' = 0 /\ oldest' = Reserved
           ELSE /\ scanned' = scanned + 1
                /\ oldest' = IF seen # 0 /\ seen < oldest THEN seen ELSE oldest
                /\ UNCHANGED writer
    /\ UNCHANGED <<publishVars, memoryVars, nextGeneration, target, prior, scopeVars, pinVars>>

\* A faulty variant: a record retired in the epoch of a scope is given back.
Bug_Collectable(r) == pinCount[r] = 0 /\ retireEpoch[r] <= oldest
Collectable(r) == pinCount[r] = 0 /\ retireEpoch[r] < oldest

\* A faulty variant: the loop stops at a record it cannot give back.
Bug_Visited(budget) ==
    {r \in retired : \A q \in retired : retireEpoch[q] > retireEpoch[r] => Collectable(q)}

\* The records the loop reaches with a budget: m_pRetired is in reverse order of
\* retirement, so of retireEpoch.
Visited(budget) ==
    {r \in retired : Cardinality({q \in retired : retireEpoch[q] > retireEpoch[r]}) < budget}

CollectEnd(budget) ==
    /\ writer = "SCAN" /\ scanned = MaxReaders
    /\ LET freed == {r \in Visited(budget) : Collectable(r)}
       IN  /\ retired' = retired \ freed
           /\ allocated' = allocated \ freed
           /\ info' = [r \in Records |-> IF r \in freed THEN Blank ELSE info[r]]
    /\ writer' = "IDLE" /\ scanned' = 0 /\ oldest' = Reserved
    /\ UNCHANGED <<publishVars, retireEpoch, nextGeneration, target, prior, scopeVars, pinVars>>

-----------------------------------------------------------------------------
(* A read scope: entering and leaving *)

VacantReader(i) == readerEpochs[i] = 0

\* The compare-and-swap that claims a vacant reader slot; the search for one is
\* abstracted, and a scope that finds none stays inactive.
Claim(x, i) ==
    /\ at[x] = "OUT" /\ VacantReader(i)
    /\ readerEpochs' = [readerEpochs EXCEPT ![i] = Reserved]
    /\ token' = [token EXCEPT ![x] = i]
    /\ at' = [at EXCEPT ![x] = "LOAD"]
    /\ UNCHANGED <<publishVars, memoryVars, writerVars, pinVars, entered, held, sought, probe, missed>>

LoadEpoch(x) ==
    /\ at[x] = "LOAD"
    /\ entered' = [entered EXCEPT ![x] = epoch]
    /\ at' = [at EXCEPT ![x] = "ANNOUNCE"]
    /\ UNCHANGED <<publishVars, memoryVars, writerVars, pinVars, readerEpochs, token, held, sought, probe, missed>>

Announce(x) ==
    /\ at[x] = "ANNOUNCE"
    /\ readerEpochs' = [readerEpochs EXCEPT ![token[x]] = entered[x]]
    /\ at' = [at EXCEPT ![x] = "CONFIRM"]
    /\ UNCHANGED <<publishVars, memoryVars, writerVars, pinVars, token, entered, held, sought, probe, missed>>

\* The epoch is loaded again: the scope is in, or withdraws its announcement.
Confirm(x) ==
    /\ at[x] = "CONFIRM"
    /\ at' = [at EXCEPT ![x] = IF entered[x] = epoch THEN "IN" ELSE "WITHDRAW"]
    /\ UNCHANGED <<publishVars, memoryVars, writerVars, pinVars, readerEpochs, token, entered, held, sought, probe, missed>>

Withdraw(x) ==
    /\ at[x] = "WITHDRAW"
    /\ readerEpochs' = [readerEpochs EXCEPT ![token[x]] = Reserved]
    /\ at' = [at EXCEPT ![x] = "LOAD"]
    /\ UNCHANGED <<publishVars, memoryVars, writerVars, pinVars, token, entered, held, sought, probe, missed>>

Leave(x) ==
    /\ at[x] = "IN"
    /\ readerEpochs' = [readerEpochs EXCEPT ![token[x]] = 0]
    /\ token' = [token EXCEPT ![x] = 0]
    /\ entered' = [entered EXCEPT ![x] = 0]
    /\ held' = [held EXCEPT ![x] = {}]
    /\ at' = [at EXCEPT ![x] = "OUT"]
    /\ UNCHANGED <<publishVars, memoryVars, writerVars, pinVars, sought, probe, missed>>

-----------------------------------------------------------------------------
(* A read scope: find and resolve, which take no lock *)

FindBegin(x, k) ==
    /\ at[x] = "IN"
    /\ sought' = [sought EXCEPT ![x] = k]
    /\ missed' = [missed EXCEPT ![x] = \A c \in Cells : cells[c] \in Records => info[cells[c]].key # k]
    /\ at' = [at EXCEPT ![x] = "PROBE"]
    /\ UNCHANGED <<publishVars, memoryVars, writerVars, pinVars, readerEpochs, token, entered, held, probe>>

FindReturn(x) ==
    /\ at' = [at EXCEPT ![x] = "IN"]
    /\ sought' = [sought EXCEPT ![x] = None]
    /\ probe' = [probe EXCEPT ![x] = 0]
    /\ missed' = [missed EXCEPT ![x] = FALSE]

\* The search ends without a result at a cell that was never used, or after the
\* last cell.
FindFails(x) ==
    /\ at[x] = "PROBE"
    /\ LET word == cells[Probe[sought[x]][probe[x]]]
       IN  /\ \/ word = Empty
              \/ probe[x] = CellCount - 1 /\ ~Holds(sought[x], probe[x])
           /\ held' = [held EXCEPT ![x] = @ \cup ({word} \cap Records)]
    /\ FindReturn(x)
    /\ UNCHANGED <<publishVars, memoryVars, writerVars, pinVars, readerEpochs, token, entered>>

\* The record in the cell has the key: its handle is returned.
FindSucceeds(x) ==
    /\ at[x] = "PROBE" /\ Holds(sought[x], probe[x])
    /\ held' = [held EXCEPT ![x] = @ \cup {cells[Probe[sought[x]][probe[x]]]}]
    /\ FindReturn(x)
    /\ UNCHANGED <<publishVars, memoryVars, writerVars, pinVars, readerEpochs, token, entered>>

FindNext(x) ==
    /\ at[x] = "PROBE" /\ probe[x] < CellCount - 1
    /\ ~Holds(sought[x], probe[x])
    /\ LET word == cells[Probe[sought[x]][probe[x]]]
       IN  /\ word # Empty
           /\ held' = [held EXCEPT ![x] = @ \cup ({word} \cap Records)]
    /\ probe' = [probe EXCEPT ![x] = @ + 1]
    /\ UNCHANGED <<publishVars, memoryVars, writerVars, pinVars, readerEpochs, at, token, entered, sought, missed>>

\* resolve loads the word of the slot of a handle and looks at the record; what
\* it answers depends on the contents of the record only.
Resolve(x, s) ==
    /\ at[x] = "IN" /\ published[s] # None
    /\ held' = [held EXCEPT ![x] = @ \cup {published[s]}]
    /\ UNCHANGED <<publishVars, memoryVars, writerVars, pinVars, readerEpochs, at, token, entered, sought, probe, missed>>

-----------------------------------------------------------------------------
(* Provider pins *)

\* pinForProvider keeps a record that the scope has a view of, in the first free pin.
Pin(x, r, p) ==
    /\ PinMutexFree
    /\ at[x] = "IN" /\ r \in held[x] /\ info[r].resident
    /\ pinRecord[p] = None /\ \A q \in Pins : pinRecord[q] = None => p <= q
    /\ pinGeneration[p] < MaxGeneration
    /\ pinGeneration' = [pinGeneration EXCEPT ![p] = @ + 1]
    /\ pinRecord' = [pinRecord EXCEPT ![p] = r]
    /\ pinCount' = [pinCount EXCEPT ![r] = @ + 1]
    /\ granted' = granted \cup {[pin |-> p, generation |-> pinGeneration[p] + 1, record |-> r]}
    /\ UNCHANGED <<publishVars, memoryVars, writerVars, scopeVars>>

\* A faulty variant: an old handle of the pin is taken for the current one.
Bug_Names(h) == pinRecord[h.pin] # None /\ h.generation <= pinGeneration[h.pin]
Names(h) == pinRecord[h.pin] # None /\ h.generation = pinGeneration[h.pin]

\* releaseProviderPin, on any thread, with any handle: perhaps an old one.
ReleasePin(h) ==
    /\ PinMutexFree
    /\ Names(h)
    /\ pinCount' = [pinCount EXCEPT ![pinRecord[h.pin]] = @ - 1]
    /\ pinRecord' = [pinRecord EXCEPT ![h.pin] = None]
    /\ granted' = {g \in granted : <<g.pin, g.generation>> # <<h.pin, h.generation>>}
    /\ UNCHANGED <<publishVars, memoryVars, writerVars, scopeVars, pinGeneration>>

-----------------------------------------------------------------------------
WriterStep ==
    \/ \E r \in Records, resident \in BOOLEAN :
        \/ \E k \in Keys : Introduce(k, r, resident)
        \/ \E s \in Slots : Supersede(s, r, resident)
    \/ \E s \in Slots : Retire(s)
    \/ UpdateIndex \/ Advance
    \/ CollectBegin \/ CollectScan
    \/ \E budget \in Budgets : CollectEnd(budget)

EnterStep(x) ==
    \/ \E i \in Table : Claim(x, i)
    \/ LoadEpoch(x) \/ Announce(x) \/ Confirm(x) \/ Withdraw(x)

LookupStep(x) ==
    \/ \E k \in Keys : FindBegin(x, k)
    \/ FindFails(x) \/ FindSucceeds(x) \/ FindNext(x)
    \/ \E s \in Slots : Resolve(x, s)

Next ==
    \/ WriterStep
    \/ \E x \in Scopes : EnterStep(x) \/ LookupStep(x) \/ Leave(x)
    \/ \E x \in Scopes, r \in Records, p \in Pins : Pin(x, r, p)
    \/ \E h \in PinHandles : ReleasePin(h)

Spec == Init /\ [][Next]_vars

-----------------------------------------------------------------------------
(* Safety *)

\* Every variable keeps its type, a scope has a reader slot exactly when it is not
\* out, no two scopes share one, and a slot that no scope has is vacant.
TypeOK ==
    /\ \A x \in Scopes :
        /\ (at[x] = "OUT") <=> (token[x] = 0)
        /\ \A y \in Scopes : token[x] = token[y] /\ token[x] # 0 => x = y
    /\ \A i \in Table : (readerEpochs[i] = 0) <=> (\A x \in Scopes : token[x] # i)
    /\ published \in [Slots -> Records \cup {None}]
    /\ cells \in [Cells -> Records \cup {Empty, Tombstone}]
    /\ epoch \in 1..MaxEpoch
    /\ info \in [Records -> Infos]
    /\ allocated \subseteq Records /\ retired \subseteq Records
    /\ retireEpoch \in [Records -> 0..MaxEpoch]
    /\ nextGeneration \in [Slots -> Generations]
    /\ writer \in {"IDLE", "INDEX", "ADVANCE", "SCAN"}
    /\ target \in Slots /\ prior \in Records \cup {None}
    /\ scanned \in 0..MaxReaders /\ oldest \in 1..Reserved
    /\ readerEpochs \in [Table -> 0..Reserved]
    /\ at \in [Scopes -> {"OUT", "LOAD", "ANNOUNCE", "CONFIRM", "WITHDRAW", "IN", "PROBE"}]
    /\ token \in [Scopes -> 0..MaxReaders]
    /\ entered \in [Scopes -> 0..MaxEpoch]
    /\ held \in [Scopes -> SUBSET Records]
    /\ sought \in [Scopes -> Keys \cup {None}]
    /\ probe \in [Scopes -> Steps]
    /\ missed \in [Scopes -> BOOLEAN]
    /\ pinRecord \in [Pins -> Records \cup {None}]
    /\ pinGeneration \in [Pins -> 0..MaxGeneration]
    /\ pinCount \in [Records -> 0..MaxPins]
    /\ granted \subseteq [pin : Pins, generation : Generations, record : Records]

\* The memory of a record is not given back while a scope that has loaded its
\* address is still in, whatever was published, retired and collected since.
HeldRecordsLive == \A x \in Scopes : held[x] \subseteq allocated

\* A provider that has been given a pin and has not given it back keeps its
\* record, after the record was retired, after the scope has ended and whatever
\* stale handles other providers try to release.
PinnedRecordsLive == \A g \in granted : g.record \in allocated /\ pinRecord[g.pin] = g.record

\* Between two publications the index holds exactly the published records, each
\* where a search for its key arrives.
IndexFaithful ==
    writer \in {"IDLE", "SCAN"} =>
        /\ {cells[c] : c \in Cells} \cap Records = Current
        /\ \A r \in Current : \E n \in Steps :
            cells[Probe[info[r].key][n]] = r /\ Reachable(info[r].key, n)

\* A handle names one key for ever: two records with the same slot and
\* generation are revisions of the same resource.
HandlesNameOneKey ==
    \A r, q \in allocated :
        info[r].slot = info[q].slot /\ info[r].generation = info[q].generation
            => info[r].key = info[q].key

\* A search that comes back empty is right: at some moment since it began, the
\* key was not in the index.  A record that stays, or is only replaced, is found
\* although other keys are deleted and added along the way.
MissesAreReal ==
    [][\A x \in Scopes :
        at[x] = "PROBE" /\ at'[x] = "IN" /\ ~Holds(sought[x], probe[x]) => missed[x]]_vars

-----------------------------------------------------------------------------
(* Progress: the writer completes what it has begun, calls collectRetired again
   and again, and the constructor of a scope runs to its end. *)
Fairness ==
    /\ WF_vars(UpdateIndex) /\ WF_vars(Advance)
    /\ WF_vars(CollectBegin) /\ WF_vars(CollectScan)
    /\ WF_vars(\E budget \in Budgets : CollectEnd(budget))
    /\ \A x \in Scopes : WF_vars(LoadEpoch(x) \/ Announce(x) \/ Confirm(x) \/ Withdraw(x))

LiveSpec == Spec /\ Fairness

\* Memory returns: a retired record without pins is collected once no scope is
\* entering and those that remain are newer than it.
Unneeded(r) ==
    /\ pinCount[r] = 0
    /\ \A i \in Table : readerEpochs[i] = 0 \/ readerEpochs[i] \in (retireEpoch[r] + 1)..MaxEpoch
RetiredAreCollected ==
    \A r \in Records : <>[](r \in retired) => []<>~Unneeded(r)
=============================================================================
