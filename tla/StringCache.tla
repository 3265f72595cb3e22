----------------------------- MODULE StringCache -----------------------------
(***************************************************************************)
(* The decoded cache of SIRStringPool (Source/Core/Strings): a few slots   *)
(* hold the decoded text of compressed cooked names.  A lease pins its     *)
(* slot without a lock while the slot still holds the atom; a miss takes   *)
(* m_cacheLock, reserves an unpinned slot, and decodes into it.            *)
(*                                                                         *)
(* One action is one atomic access to a shared word.  A user is one        *)
(* SIRStringLease with the thread that works on it; a thread with several  *)
(* leases is several users.  The cache is the six-tier one that            *)
(* defaultConfig chooses (bTieredCache).                                   *)
(***************************************************************************)
EXTENDS Integers, FiniteSets

CONSTANTS
    Users,       \* leases, each with the thread that works on it
    Texts,       \* strings, compared byte by byte
    Cooked,      \* cooked ordinal -> its text, as the catalog was validated
    Damaged,     \* ordinals whose encoded bytes changed after validation
    Size,        \* text -> nLength
    TierCount,   \* SIR_STRING_CACHE_TIER_COUNT
    TierSlots,   \* tier -> m_nTierSlots
    TierBytes,   \* tier -> m_nTierBytes
    TierInitial, \* tier -> m_nInitialTierSlots
    PinLimit,    \* UINT32_MAX
    MaxGeneration, \* the last value of nGeneration before it wraps
    MaxBase,     \* bound on m_nBaseId
    Nobody, NoSlot, Direct, Garbage \* no user; hot hint 0; SIR_DIRECT_TEXT_SLOT; overwritten text

Ordinals == DOMAIN Cooked
Tiers    == 1..TierCount
Slots    == UNION {{t} \X (0..(TierSlots[t] - 1)) : t \in Tiers}
Fits(t, o) == Size[Cooked[o]] <= TierBytes[t] /\ TierSlots[t] > 0

ASSUME CacheAssumption ==
    /\ IsFiniteSet(Users) /\ Nobody \notin Users
    /\ Ordinals \subseteq Nat /\ IsFiniteSet(Ordinals) /\ Cooked \in [Ordinals -> Texts]
    /\ Damaged \subseteq Ordinals
    /\ TierCount \in Nat /\ PinLimit \in Nat /\ Cardinality(Users) + 1 < PinLimit
    /\ MaxGeneration \in Nat \ {0}
    /\ TierSlots \in [Tiers -> Nat] /\ TierInitial \in [Tiers -> Nat]
    /\ {NoSlot, Direct} \cap Slots = {} /\ NoSlot # Direct
    /\ Garbage \notin Texts

VARIABLES
    base,        \* m_nBaseId: an atom is base + ordinal
    pins,        \* slot -> nPins, PinLimit while the slot is reserved
    atomId,      \* slot -> nAtomId, 0 for none
    generation,  \* slot -> nGeneration
    text,        \* slot -> what pszData holds for its atom
    hot,         \* ordinal -> m_pCookedHot
    cacheLock,   \* the owner of m_cacheLock, or Nobody
    tierNext,    \* tier -> m_nTierNext: its slots from here on were never used
    tierCursor,  \* tier -> m_nTierCursor
    activeSlots, \* tier -> m_nActiveTierSlots
    lease,       \* user -> its SIRStringLease
    pc,          \* user -> where its call to acquire stands
    want,        \* user -> the atom it acquires
    spot,        \* user -> the slot it looks at, pins or reserves
    search,      \* user -> its tries left before the lock, the tier, nProbe
    target       \* user -> nTargetActive

slotVars   == <<pins, atomId, generation, text, hot>>
budgetVars == <<tierNext, tierCursor, activeSlots>>
callVars   == <<lease, pc, want, spot, search, target>>
cacheVars  == <<base, slotVars, cacheLock, budgetVars, callVars>>

NoLease  == [slot |-> NoSlot, id |-> 0, generation |-> 0]
NoSearch == [tries |-> 0, tier |-> 0, probe |-> 0]

Ordinal(id)     == id - base
WantedText(u)   == Cooked[Ordinal(want[u])]
Goto(u, label)  == pc' = [pc EXCEPT ![u] = label]
\* The call has nothing left to do but, perhaps, unlock: its locals are gone.
Leave(u, label) ==
    /\ Goto(u, label)
    /\ want' = [want EXCEPT ![u] = 0]
    /\ spot' = [spot EXCEPT ![u] = NoSlot]
    /\ search' = [search EXCEPT ![u] = NoSearch]
    /\ target' = [target EXCEPT ![u] = 0]

Lower(a, b) == IF a < b THEN a ELSE b
\* The least active allowance that reaches required by doubling.
GrownBudget(active, required, maximum) ==
    LET reach[n \in 0..required] ==
            LET a == Lower((IF active = 0 THEN 1 ELSE active) * 2 ^ n, maximum)
            IN IF a >= required \/ a = maximum \/ n = required THEN a ELSE reach[n + 1]
    IN IF active >= required THEN active ELSE reach[0]

CacheInit ==
    /\ pins = [s \in Slots |-> 0]
    /\ atomId = [s \in Slots |-> 0]
    /\ generation = [s \in Slots |-> 0]
    /\ text = [s \in Slots |-> Garbage]
    /\ hot = [o \in Ordinals |-> NoSlot]
    /\ cacheLock = Nobody
    /\ tierNext = [t \in Tiers |-> 0]
    /\ tierCursor = [t \in Tiers |-> 0]
    /\ activeSlots = TierInitial
    /\ lease = [u \in Users |-> NoLease]
    /\ pc = [u \in Users |-> "Idle"]
    /\ want = [u \in Users |-> 0]
    /\ spot = [u \in Users |-> NoSlot]
    /\ search = [u \in Users |-> NoSearch]
    /\ target = [u \in Users |-> 0]

-----------------------------------------------------------------------------
(* tryAcquireHot: pin the slot the hint names while it holds the atom.       *)

\* Where a lookup without the lock ends: at the lock, and under it at the tiers.
Miss(u) ==
    /\ spot' = [spot EXCEPT ![u] = NoSlot]
    /\ IF cacheLock = u
       THEN /\ Goto(u, "Virgin")
            /\ search' = [search EXCEPT ![u].tier = 1]
       ELSE /\ Goto(u, IF search[u].tries = 0 THEN "Lock" ELSE "LoadHot")
            /\ search' = [search EXCEPT ![u].tries = IF @ = 0 THEN 0 ELSE @ - 1]

LoadHot(u) ==
    /\ pc[u] = "LoadHot"
    /\ \/ /\ hot[Ordinal(want[u])] # NoSlot
          /\ spot' = [spot EXCEPT ![u] = hot[Ordinal(want[u])]]
          /\ Goto(u, "CheckAtom") /\ UNCHANGED search
       \/ /\ hot[Ordinal(want[u])] = NoSlot
          /\ Miss(u)
    /\ UNCHANGED <<base, slotVars, cacheLock, budgetVars, lease, want, target>>

CheckAtom(u) ==
    /\ pc[u] = "CheckAtom"
    /\ IF atomId[spot[u]] = want[u] THEN Goto(u, "Pin") /\ UNCHANGED <<spot, search>> ELSE Miss(u)
    /\ UNCHANGED <<base, slotVars, cacheLock, budgetVars, lease, want, target>>

\* The compare-and-swap loop, which gives up on a reserved slot.
Pin(u) ==
    /\ pc[u] = "Pin"
    /\ \/ /\ pins[spot[u]] < PinLimit - 1
          /\ pins' = [pins EXCEPT ![spot[u]] = @ + 1]
          /\ Goto(u, "Recheck") /\ UNCHANGED <<spot, search>>
       \/ /\ pins[spot[u]] >= PinLimit - 1
          /\ Miss(u) /\ UNCHANGED pins
    /\ UNCHANGED <<base, atomId, generation, text, hot, cacheLock, budgetVars, lease, want, target>>

Bind(u, s) ==
    lease' = [lease EXCEPT ![u] = [slot |-> s, id |-> want[u], generation |-> generation[s]]]

\* Mutant: the pin is trusted without a second look at the atom.
Bug_Recheck(u) ==
    /\ pc[u] = "Recheck"
    /\ Bind(u, spot[u])
    /\ Leave(u, IF cacheLock = u THEN "Unlock" ELSE "Idle")
    /\ UNCHANGED <<base, slotVars, cacheLock, budgetVars>>

\* The slot may have gone to another atom before the pin held it.
Recheck(u) ==
    /\ pc[u] = "Recheck"
    /\ \/ /\ atomId[spot[u]] = want[u]
          /\ Bind(u, spot[u])
          /\ Leave(u, IF cacheLock = u THEN "Unlock" ELSE "Idle")
       \/ /\ atomId[spot[u]] # want[u]
          /\ Goto(u, "Unpin") /\ UNCHANGED <<lease, want, spot, search, target>>
    /\ UNCHANGED <<base, slotVars, cacheLock, budgetVars>>

Unpin(u) ==
    /\ pc[u] = "Unpin"
    /\ pins' = [pins EXCEPT ![spot[u]] = @ - 1]
    /\ Miss(u)
    /\ UNCHANGED <<base, atomId, generation, text, hot, cacheLock, budgetVars, lease, want, target>>

-----------------------------------------------------------------------------
(* acquireTiered: under m_cacheLock, look again, then take over a slot.      *)

LockCache(u) ==
    /\ pc[u] = "Lock" /\ cacheLock = Nobody
    /\ cacheLock' = u
    /\ Goto(u, "LoadHot")
    /\ UNCHANGED <<base, slotVars, budgetVars, lease, want, spot, search, target>>

\* Reserving a slot shuts out every reader that has not pinned it.
Reserve(u, s) ==
    /\ pins' = [pins EXCEPT ![s] = PinLimit]
    /\ spot' = [spot EXCEPT ![u] = s]
    /\ Goto(u, "ClearHot")

\* The smallest tier the text fits in first: a slot that was never used, once
\* the allowance is grown for it.  After the last tier every slot was pinned.
TryVirgin(u) ==
    LET t == search[u].tier
        s == <<t, tierNext[t]>> IN
    /\ pc[u] = "Virgin"
    /\ \/ /\ t > TierCount \* SIR_STRING_ALL_SLOTS_PINNED
          /\ Leave(u, "Unlock") /\ UNCHANGED pins
       \/ /\ t <= TierCount /\ ~ Fits(t, Ordinal(want[u]))
          /\ search' = [search EXCEPT ![u].tier = @ + 1]
          /\ UNCHANGED <<pins, pc, want, spot, target>>
       \/ /\ t <= TierCount /\ Fits(t, Ordinal(want[u]))
          /\ target' = [target EXCEPT ![u] =
                 IF tierNext[t] < TierSlots[t]
                 THEN GrownBudget(activeSlots[t], tierNext[t] + 1, TierSlots[t])
                 ELSE activeSlots[t]]
          /\ IF tierNext[t] < TierSlots[t] /\ pins[s] = 0
             THEN /\ Reserve(u, s)
                  /\ UNCHANGED <<want, search>>
             ELSE /\ Goto(u, "Reuse")
                  /\ search' = [search EXCEPT ![u].probe = 0]
                  /\ UNCHANGED <<pins, want, spot>>
    /\ UNCHANGED <<base, atomId, generation, text, hot, cacheLock, budgetVars, lease>>

\* The used slots from the cursor on, then the next tier.
TryReuse(u) ==
    LET t == search[u].tier
        s == <<t, (tierCursor[t] + search[u].probe) % TierSlots[t]>> IN
    /\ pc[u] = "Reuse"
    /\ \/ /\ search[u].probe < tierNext[t] /\ pins[s] = 0
          /\ Reserve(u, s) /\ UNCHANGED <<want, search, target>>
       \/ /\ search[u].probe < tierNext[t] /\ pins[s] # 0
          /\ search' = [search EXCEPT ![u].probe = @ + 1]
          /\ UNCHANGED <<pins, pc, want, spot, target>>
       \/ /\ search[u].probe >= tierNext[t]
          /\ search' = [search EXCEPT ![u].tier = @ + 1]
          /\ Goto(u, "Virgin") /\ UNCHANGED <<pins, want, spot, target>>
    /\ UNCHANGED <<base, atomId, generation, text, hot, cacheLock, budgetVars, lease>>

\* Mutant: the hint of the text that goes is left behind.
Bug_ClearHot(u) ==
    /\ pc[u] = "ClearHot"
    /\ Goto(u, "ClearAtom")
    /\ UNCHANGED <<base, slotVars, cacheLock, budgetVars, lease, want, spot, search, target>>

ClearHot(u) ==
    /\ pc[u] = "ClearHot"
    /\ hot' = IF Ordinal(atomId[spot[u]]) \in Ordinals
              THEN [hot EXCEPT ![Ordinal(atomId[spot[u]])] = NoSlot] ELSE hot
    /\ Goto(u, "ClearAtom")
    /\ UNCHANGED <<base, pins, atomId, generation, text, cacheLock, budgetVars, lease, want, spot, search, target>>

\* The old atom is gone before its text is overwritten.
\* probe becomes 1 when the slot held no atom: it then counts as used anew.
ClearAtom(u) ==
    /\ pc[u] = "ClearAtom"
    /\ search' = [search EXCEPT ![u].probe = IF atomId[spot[u]] = 0 THEN 1 ELSE 0]
    /\ atomId' = [atomId EXCEPT ![spot[u]] = 0]
    /\ text' = [text EXCEPT ![spot[u]] = Garbage]
    /\ Goto(u, "Decode")
    /\ UNCHANGED <<base, pins, generation, hot, cacheLock, budgetVars, lease, want, spot, target>>

\* decodeCooked: bytes that no longer decode leave the slot without an atom.
Decode(u) ==
    LET s == spot[u]
        t == search[u].tier IN
    /\ pc[u] = "Decode"
    /\ IF Ordinal(want[u]) \in Damaged
       THEN /\ pins' = [pins EXCEPT ![s] = 0] \* SIR_STRING_CORRUPT_CATALOG
            /\ Leave(u, "Unlock")
            /\ UNCHANGED <<generation, text, budgetVars>>
       ELSE /\ text' = [text EXCEPT ![s] = WantedText(u)]
            /\ generation' = [generation EXCEPT ![s] = (@ % MaxGeneration) + 1]
            /\ tierNext' = [tierNext EXCEPT ![t] = @ + search[u].probe]
            /\ activeSlots' = [activeSlots EXCEPT ![t] = target[u]]
            /\ tierCursor' = [tierCursor EXCEPT ![t] = (s[2] + 1) % TierSlots[t]]
            /\ Goto(u, "Publish")
            /\ UNCHANGED <<pins, want, spot, search, target>>
    /\ UNCHANGED <<base, atomId, hot, cacheLock, lease>>

Publish(u) ==
    /\ pc[u] = "Publish"
    /\ atomId' = [atomId EXCEPT ![spot[u]] = want[u]]
    /\ Goto(u, "Open")
    /\ UNCHANGED <<base, pins, generation, text, hot, cacheLock, budgetVars, lease, want, spot, search, target>>

\* The reservation becomes the first pin.
Open(u) ==
    /\ pc[u] = "Open"
    /\ pins' = [pins EXCEPT ![spot[u]] = 1]
    /\ Goto(u, "SetHot")
    /\ UNCHANGED <<base, atomId, generation, text, hot, cacheLock, budgetVars, lease, want, spot, search, target>>

SetHot(u) ==
    /\ pc[u] = "SetHot"
    /\ hot' = [hot EXCEPT ![Ordinal(want[u])] = spot[u]]
    /\ Bind(u, spot[u])
    /\ Leave(u, "Unlock")
    /\ UNCHANGED <<base, pins, atomId, generation, text, cacheLock, budgetVars>>

UnlockCache(u) ==
    /\ pc[u] = "Unlock"
    /\ cacheLock' = Nobody
    /\ Leave(u, "Idle")
    /\ UNCHANGED <<base, slotVars, budgetVars, lease>>

CacheStep(u) ==
    \/ LoadHot(u) \/ CheckAtom(u) \/ Pin(u) \/ Recheck(u) \/ Unpin(u)
    \/ LockCache(u) \/ TryVirgin(u) \/ TryReuse(u)
    \/ ClearHot(u) \/ ClearAtom(u) \/ Decode(u) \/ Publish(u) \/ Open(u) \/ SetHot(u)
    \/ UnlockCache(u)
=============================================================================
