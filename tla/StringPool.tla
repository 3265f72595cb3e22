------------------------------ MODULE StringPool ------------------------------
(***************************************************************************)
(* SIRStringPool: names with process-local atoms.  A find walks the flat   *)
(* index without a lock; an intern that finds nothing looks again under    *)
(* m_registryLock and appends.  To compare a compressed cooked name either *)
(* one takes a lease of the decoded cache (StringCache), so a thread may   *)
(* wait for m_cacheLock inside m_registryLock.  retireScope forgets the    *)
(* dynamic names and every atom, at a boundary its caller makes exclusive. *)
(***************************************************************************)
EXTENDS StringCache

CONSTANTS
    Raw,          \* ordinals whose text the catalog keeps as it is
    Malformed,    \* strings that are not UTF-8
    Hash,         \* text -> lookupHash
    CellCount,    \* m_nHashBuckets
    MaxNames,     \* m_nMaxNames
    TextCapacity, \* m_nDynamicTextCapacity
    Queries       \* the strings looked for, each by find (FALSE) or intern (TRUE)

Cells == 0..(CellCount - 1)

ASSUME PoolAssumption ==
    /\ Raw \subseteq Ordinals /\ Malformed \subseteq Texts /\ Hash \in [Texts -> Nat]
    /\ Size \in [Texts -> Nat] /\ TextCapacity \in Nat /\ MaxBase \in Nat
    /\ Queries \subseteq Texts \X BOOLEAN
    /\ MaxNames \in Nat \ {0} /\ CellCount \in Nat /\ CellCount > MaxNames
    /\ Ordinals = 0..(Cardinality(Ordinals) - 1) /\ Cardinality(Ordinals) <= MaxNames
    /\ \A o \in Ordinals : Size[Cooked[o]] <= TierBytes[TierCount] /\ Cooked[o] \notin Malformed
    /\ \A o, p \in Ordinals : Cooked[o] = Cooked[p] => o = p \* loadCatalog: in strict order

VARIABLES
    table,       \* cell -> the index in its tag plus one, 0 when empty
    entries,     \* index -> the text of its dynamic entry
    names,       \* m_nNames
    dynamicUsed, \* m_nDynamicUsed
    directLeases,\* m_nDirectLeases
    registryLock,\* the owner of m_registryLock, or Nobody
    lookup,      \* user -> its find or intern
    issued       \* history: the atoms given out, with scope and text

registryVars == <<table, entries, names, dynamicUsed, registryLock>>
poolVars     == <<registryVars, directLeases, lookup, issued>>
vars         == <<cacheVars, poolVars>>

CookedNames == Cardinality(Ordinals)
NameAt(index) == IF index \in Ordinals THEN Cooked[index] ELSE entries[index]
InPlace(index) == index \notin Ordinals \/ index \in Raw
\* index: the index found plus one, 0 for none.
NoLookup == [at |-> "None", text |-> Garbage, admit |-> FALSE, step |-> 0, index |-> 0,
             present |-> FALSE]

\* findInsertionSlot: the first empty cell from the home of the text on.
Cell(t, step) == (Hash[t] + step) % CellCount
FirstEmpty(cells, t) ==
    Cell(t, CHOOSE n \in Cells : /\ cells[Cell(t, n)] = 0
                                 /\ \A m \in 0..(n - 1) : cells[Cell(t, m)] # 0)

\* The index of the cooked names below count, added in ordinal order.
Indexed(count) ==
    LET build[n \in 0..count] ==
            IF n = 0 THEN [c \in Cells |-> 0]
            ELSE [build[n - 1] EXCEPT ![FirstEmpty(build[n - 1], Cooked[n - 1])] = n]
    IN build[count]

Init ==
    /\ CacheInit /\ base = 1
    /\ table = Indexed(CookedNames)
    /\ entries = [i \in CookedNames..(MaxNames - 1) |-> Garbage]
    /\ names = CookedNames
    /\ dynamicUsed = 0 /\ directLeases = 0
    /\ registryLock = Nobody
    /\ lookup = [u \in Users |-> NoLookup]
    /\ issued = {<<1 + o, Cooked[o]>> : o \in Ordinals} \* atomFromCookedOrdinal

-----------------------------------------------------------------------------
(* Leases                                                                    *)

Free(u) == pc[u] = "Idle" /\ lookup[u].at = "None"

\* Bound: a damaged name is asked for only while no slot was counted twice.
Affordable(t) ==
    t \in {Cooked[o] : o \in Damaged} => \A k \in Tiers : tierNext[k] <= TierSlots[k]

\* releaseLease
Drop(u) ==
    IF lease[u].slot = Direct
    THEN directLeases' = directLeases - 1 /\ UNCHANGED pins
    ELSE /\ pins' = [pins EXCEPT ![lease[u].slot] = @ - 1]
         /\ UNCHANGED directLeases

Release(u) ==
    /\ Free(u) /\ lease[u] # NoLease
    /\ Drop(u)
    /\ lease' = [lease EXCEPT ![u] = NoLease]
    /\ UNCHANGED <<base, atomId, generation, text, hot, cacheLock, budgetVars,
                   pc, want, spot, search, target, registryVars, lookup, issued>>

\* acquire: a lease on another atom is given back first.
Acquire(u, id) ==
    /\ Free(u) /\ lease[u].id # id
    /\ IF lease[u] = NoLease THEN UNCHANGED <<pins, directLeases>> ELSE Drop(u)
    /\ lease' = [lease EXCEPT ![u] = NoLease]
    /\ want' = [want EXCEPT ![u] = id]
    /\ Goto(u, "Resolve")
    /\ UNCHANGED <<base, atomId, generation, text, hot, cacheLock, budgetVars,
                   spot, search, target, registryVars, lookup, issued>>

\* An atom of this scope is an index; a text kept in place is leased as it is.
Resolve(u) ==
    LET index == want[u] - base IN
    /\ pc[u] = "Resolve"
    /\ \/ /\ ~ index \in 0..(names - 1) \* SIR_STRING_INVALID_ATOM
          /\ Leave(u, "Idle") /\ UNCHANGED <<lease, directLeases>>
       \/ /\ index \in 0..(names - 1) /\ InPlace(index)
          /\ directLeases' = directLeases + 1
          /\ lease' = [lease EXCEPT ![u] = [slot |-> Direct, id |-> want[u], generation |-> 0]]
          /\ Leave(u, "Idle")
       \/ /\ index \in 0..(names - 1) /\ ~ InPlace(index)
          /\ Goto(u, "LoadHot")
          /\ UNCHANGED <<lease, want, spot, search, target, directLeases>>
    /\ UNCHANGED <<base, slotVars, cacheLock, budgetVars, registryVars, lookup, issued>>

-----------------------------------------------------------------------------
(* find and intern                                                           *)

At(u, label) == lookup[u].at = label /\ pc[u] = "Idle"
Move(u, label) == lookup' = [lookup EXCEPT ![u].at = label]

\* Is the text in the index?  History, for the answer to be judged by.
Present(t) == \E c \in Cells : table[c] # 0 /\ NameAt(table[c] - 1) = t

Lookup(u, t, admit) ==
    /\ Free(u) /\ lease[u] = NoLease /\ Affordable(t)
    /\ lookup' = [lookup EXCEPT ![u] = [NoLookup EXCEPT !.at = "Read", !.text = t,
                                        !.admit = admit, !.present = Present(t)]]
    /\ UNCHANGED <<cacheVars, registryVars, directLeases, issued>>

\* makeAtom
Answer(u, index) ==
    /\ lookup' = [lookup EXCEPT ![u] = NoLookup]
    /\ issued' = issued \cup {<<base + index, lookup[u].text>>}

Found(u, index) ==
    IF registryLock = u
    THEN /\ lookup' = [lookup EXCEPT ![u].at = "Unlock", ![u].index = index + 1]
         /\ UNCHANGED issued
    ELSE Answer(u, index)

NextCell(u) ==
    /\ lookup' = [lookup EXCEPT ![u].at = "Read", ![u].step = @ + 1, ![u].index = 0]
    /\ UNCHANGED issued

NotFound(u) ==
    IF lookup[u].admit
    THEN Move(u, IF registryLock = u THEN "Admit" ELSE "Lock") /\ UNCHANGED issued
    ELSE Move(u, "Missing") /\ UNCHANGED issued

\* One tag of findLocalFlat; equal hashes are compared byte by byte.
ReadCell(u) ==
    LET t == lookup[u].text
        tag == table[Cell(t, lookup[u].step)]
        index == tag - 1
        similar == /\ index \in 0..(names - 1)
                   /\ Hash[NameAt(index)] = Hash[t] /\ Size[NameAt(index)] = Size[t] IN
    /\ At(u, "Read")
    /\ \/ /\ lookup[u].step = CellCount \/ tag = 0
          /\ NotFound(u) /\ UNCHANGED callVars
       \/ /\ lookup[u].step < CellCount /\ tag # 0
          /\ \/ /\ ~ similar
                /\ NextCell(u) /\ UNCHANGED callVars
             \/ /\ similar /\ InPlace(index)
                /\ IF NameAt(index) = t THEN Found(u, index) ELSE NextCell(u)
                /\ UNCHANGED callVars
             \/ /\ similar /\ ~ InPlace(index)
                /\ lookup' = [lookup EXCEPT ![u].at = "Match", ![u].index = index + 1]
                /\ want' = [want EXCEPT ![u] = base + index]
                /\ search' = [search EXCEPT ![u].tries = 1]
                /\ Goto(u, "LoadHot") /\ UNCHANGED <<issued, lease, spot, target>>
    /\ UNCHANGED <<base, slotVars, cacheLock, budgetVars, registryVars, directLeases>>

\* Mutant: a refused lease counts as no match.
Bug_Match(u) ==
    LET t == lookup[u].text
        index == lookup[u].index - 1 IN
    /\ At(u, "Match")
    /\ IF lease[u] # NoLease /\ text[lease[u].slot] = t THEN Found(u, index) ELSE NextCell(u)
    /\ IF lease[u] = NoLease THEN UNCHANGED <<pins, directLeases>> ELSE Drop(u)
    /\ lease' = [lease EXCEPT ![u] = NoLease]
    /\ UNCHANGED <<base, atomId, generation, text, hot, cacheLock, budgetVars,
                   pc, want, spot, search, target, registryVars>>

\* matchesCooked, the lease taken or refused: without one it decodes for itself.
Match(u) ==
    LET t == lookup[u].text
        index == lookup[u].index - 1
        matches == IF lease[u] # NoLease THEN text[lease[u].slot] = t
                                         ELSE index \notin Damaged /\ Cooked[index] = t IN
    /\ At(u, "Match")
    /\ IF matches THEN Found(u, index) ELSE NextCell(u)
    /\ IF lease[u] = NoLease THEN UNCHANGED <<pins, directLeases>> ELSE Drop(u)
    /\ lease' = [lease EXCEPT ![u] = NoLease]
    /\ UNCHANGED <<base, atomId, generation, text, hot, cacheLock, budgetVars,
                   pc, want, spot, search, target, registryVars>>

ReturnNothing(u) ==
    /\ At(u, "Missing")
    /\ lookup' = [lookup EXCEPT ![u] = NoLookup]
    /\ UNCHANGED <<cacheVars, registryVars, directLeases, issued>>

\* Mutant: the name is appended without the second look.
Bug_LockRegistry(u) ==
    /\ At(u, "Lock") /\ registryLock = Nobody
    /\ registryLock' = u
    /\ Move(u, "Admit")
    /\ UNCHANGED <<cacheVars, table, entries, names, dynamicUsed, directLeases, issued>>

\* An intern that found nothing looks again under the lock.
LockRegistry(u) ==
    /\ At(u, "Lock") /\ registryLock = Nobody
    /\ registryLock' = u
    /\ lookup' = [lookup EXCEPT ![u].at = "Read", ![u].step = 0]
    /\ UNCHANGED <<cacheVars, table, entries, names, dynamicUsed, directLeases, issued>>

\* The entry is written before m_nNames covers it, its tag afterwards.
Admit(u) ==
    LET t == lookup[u].text IN
    /\ At(u, "Admit")
    /\ \/ /\ t \in Malformed \/ names >= MaxNames \/ Size[t] >= TextCapacity - dynamicUsed
          /\ Move(u, "Unlock")
          /\ UNCHANGED <<entries, names, dynamicUsed>>
       \/ /\ t \notin Malformed /\ names < MaxNames /\ Size[t] < TextCapacity - dynamicUsed
          /\ entries' = [entries EXCEPT ![names] = t]
          /\ dynamicUsed' = dynamicUsed + Size[t] + 1
          /\ names' = names + 1
          /\ lookup' = [lookup EXCEPT ![u].at = "Publish", ![u].index = names + 1]
    /\ UNCHANGED <<cacheVars, table, registryLock, directLeases, issued>>

\* publishIndex
PublishName(u) ==
    /\ At(u, "Publish")
    /\ table' = [table EXCEPT ![FirstEmpty(table, lookup[u].text)] = lookup[u].index]
    /\ Move(u, "Unlock")
    /\ UNCHANGED <<cacheVars, entries, names, dynamicUsed, registryLock, directLeases, issued>>

UnlockRegistry(u) ==
    /\ At(u, "Unlock")
    /\ registryLock' = Nobody
    /\ IF lookup[u].index = 0
       THEN lookup' = [lookup EXCEPT ![u] = NoLookup] /\ UNCHANGED issued
       ELSE Answer(u, lookup[u].index - 1)
    /\ UNCHANGED <<cacheVars, table, entries, names, dynamicUsed, directLeases>>

\* retireScope: refused while text is leased; a damaged name ends the rebuild early.
Retire ==
    LET fresh == base + MaxNames
        intact == {n \in 0..CookedNames : \A o \in 0..(n - 1) : o \notin Damaged}
        kept == CHOOSE n \in intact : \A m \in intact : m <= n IN
    /\ \A u \in Users : Free(u)
    /\ directLeases = 0 /\ \A s \in Slots : pins[s] = 0
    /\ fresh <= MaxBase
    /\ base' = fresh
    /\ atomId' = [s \in Slots |-> 0]
    /\ text' = [s \in Slots |-> Garbage]
    /\ hot' = [o \in Ordinals |-> NoSlot]
    /\ tierNext' = [t \in Tiers |-> 0]
    /\ tierCursor' = [t \in Tiers |-> 0]
    /\ activeSlots' = TierInitial
    /\ table' = Indexed(kept)
    /\ names' = CookedNames
    /\ dynamicUsed' = 0
    /\ issued' = issued \cup {<<fresh + o, Cooked[o]>> : o \in Ordinals}
    /\ UNCHANGED <<pins, generation, cacheLock, callVars,
                   entries, registryLock, directLeases, lookup>>

-----------------------------------------------------------------------------
Step(u) ==
    \/ CacheStep(u) /\ UNCHANGED poolVars
    \/ Release(u)
    \/ \E a \in issued : Affordable(a[2]) /\ Acquire(u, a[1])
    \/ Resolve(u)
    \/ \E q \in Queries : Lookup(u, q[1], q[2])
    \/ ReadCell(u) \/ Match(u) \/ ReturnNothing(u)
    \/ LockRegistry(u) \/ Admit(u) \/ PublishName(u) \/ UnlockRegistry(u)

Next == Retire \/ \E u \in Users : Step(u)

Spec == Init /\ [][Next]_vars

-----------------------------------------------------------------------------
\* What data() and bytes() of a lease show.
Visible(l) == IF l.slot = Direct THEN NameAt(l.id - base) ELSE text[l.slot]

\* A lease shows the text its atom was given out for, in the decoding it was
\* bound to, until it is released: eviction, decoding, interning and the
\* retirement of a scope all pass it by.
LeasesKeepTheirText ==
    \A u \in Users : lease[u] # NoLease =>
        /\ \A a \in issued : a[1] = lease[u].id => Visible(lease[u]) = a[2]
        /\ lease[u].slot # Direct => lease[u].generation = generation[lease[u].slot]

\* While nobody replaces a slot, hints and slots agree: a decoded text is held
\* once and its hint leads to it.
ResidentsAreFound ==
    cacheLock = Nobody =>
        \A o \in Ordinals, s \in Slots : hot[o] = s <=> atomId[s] = base + o

\* What an intern may not recognize: a name whose cooked bytes were damaged and, in every scope but
\* the first, the names behind it, which retireScope did not come to index.
Unrecognized(id, t) ==
    \E o \in Ordinals : /\ Cooked[o] = t
                        /\ o \in Damaged \/ (id > MaxNames /\ \E d \in Damaged : d < o)

\* An atom never names two strings, not even across scopes, and in one scope a
\* string is never given two atoms, however many threads intern it at once.
AtomsNameOneText ==
    \A a, b \in issued :
        /\ a[1] = b[1] => a[2] = b[2]
        /\ a[2] = b[2] /\ ~ Unrecognized(a[1], a[2]) =>
              a[1] = b[1] \/ (a[1] - 1) \div MaxNames # (b[1] - 1) \div MaxNames

\* A search that ends without an answer was right when it began: neither a name
\* appended meanwhile nor a cache that refuses its lease hides a published name.
PublishedNamesAreFound ==
    \A u \in Users : lookup[u].at \in {"Lock", "Admit", "Missing"} =>
        ~ lookup[u].present \/ lookup[u].text \in {Cooked[o] : o \in Damaged}
=============================================================================
