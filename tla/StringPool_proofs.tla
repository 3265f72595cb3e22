--------------------------- MODULE StringPool_proofs ---------------------------
(***************************************************************************)
(* A lease of the string pool shows the text of its atom for as long as it  *)
(* is held, whatever the other threads evict, decode and append; while      *)
(* nobody replaces a slot the hints lead exactly to what is decoded; a      *)
(* search without a lock misses no published name; and a string gets one    *)
(* atom in a scope, which never names another.                              *)
(***************************************************************************)
EXTENDS StringPool, FiniteSetTheorems, WellFoundedInduction, TLAPS

Outside == {"Idle", "Resolve", "Lock"}
Looking == {"CheckAtom", "Pin", "Recheck", "Unpin"}
Filling == {"ClearHot", "ClearAtom", "Decode", "Publish", "Open"}
Holding == {"Virgin", "Reuse", "SetHot", "Unlock"} \cup Filling
Working == {"LoadHot", "Lock", "Virgin", "Reuse", "SetHot"} \cup Looking \cup Filling
Labels  == {"Idle", "Resolve", "Unlock"} \cup Working

Leases   == [slot : Slots \cup {NoSlot, Direct}, id : Nat, generation : Nat]
Searches == [tries : Nat, tier : Nat, probe : Nat]
Lookups  == [at : {"None", "Read", "Match", "Missing", "Lock", "Admit", "Publish", "Unlock"},
             text : Texts \cup {Garbage}, admit : BOOLEAN, step : Nat, index : Nat,
             present : BOOLEAN]

SlotsTyped ==
    /\ base \in Nat \ {0} /\ cacheLock \in Users \cup {Nobody}
    /\ pins \in [Slots -> Int] /\ atomId \in [Slots -> Nat] /\ generation \in [Slots -> Nat]
    /\ text \in [Slots -> Texts \cup {Garbage}]
    /\ hot \in [Ordinals -> Slots \cup {NoSlot}]
    /\ tierNext \in [Tiers -> Nat] /\ tierCursor \in [Tiers -> Nat]

CallsTyped ==
    /\ lease \in [Users -> Leases] /\ pc \in [Users -> Labels] /\ want \in [Users -> Nat]
    /\ spot \in [Users -> Slots \cup {NoSlot}] /\ search \in [Users -> Searches]

NamesTyped ==
    /\ names \in CookedNames..MaxNames
    /\ entries \in [CookedNames..(MaxNames - 1) -> Texts \cup {Garbage}]
    /\ lookup \in [Users -> Lookups]
    /\ issued \subseteq Nat \X (Texts \cup {Garbage})

Typed == SlotsTyped /\ CallsTyped /\ NamesTyped

\* Where a user is decides what it holds: the lock, a slot, no lease.
Placed(u) ==
    /\ pc[u] \in Holding => cacheLock = u
    /\ pc[u] \in Outside => cacheLock # u
    /\ pc[u] \in Looking \cup Filling \cup {"SetHot"} => spot[u] \in Slots
    /\ pc[u] \in Working \cup {"Resolve"} => lease[u] = NoLease
    /\ pc[u] \in Working => want[u] - base \in Ordinals
    /\ pc[u] \in {"Reuse"} \cup Filling => search[u].tier \in Tiers /\ TierSlots[search[u].tier] > 0
    /\ pc[u] = "Virgin" => search[u].tier >= 1
    /\ lookup[u].at \notin {"None", "Match"} => pc[u] = "Idle" /\ lease[u] = NoLease

Control == Typed /\ \A u \in Users : Placed(u)

LEMMA SlotFacts ==
    /\ NoSlot \notin Slots /\ Direct \notin Slots /\ NoSlot # Direct
    /\ \A s \in Slots : s[1] \in Tiers /\ s[2] \in Nat
    /\ \A t \in Tiers, i \in Nat : i < TierSlots[t] => <<t, i>> \in Slots
    /\ TierSlots \in [Tiers -> Nat]
  BY CacheAssumption DEF Slots

\* The user steps; the calls of the others stand.
Others(u) ==
    \A v \in Users \ {u} :
        /\ pc'[v] = pc[v] /\ want'[v] = want[v] /\ spot'[v] = spot[v]
        /\ search'[v] = search[v] /\ lease'[v] = lease[v] /\ lookup'[v] = lookup[v]

\* A step of the user moves the lock only to and from itself.
LockMoves(u) == cacheLock' = cacheLock \/ (cacheLock \in {u, Nobody} /\ cacheLock' \in {u, Nobody})

LEMMA OtherPlaced ==
    ASSUME Control, NEW u \in Users, Others(u), base' = base, LockMoves(u), NEW v \in Users \ {u}
    PROVE  Placed(v)'
  <1>1. Nobody \notin Users
      BY CacheAssumption
  <1> QED
      BY <1>1 DEF Control, Placed, Others, LockMoves, NoLease, Ordinals, Tiers, Slots

USE DEF Goto, Outside, Looking, Filling, Holding, Working, Labels

LEMMA MissTyped ==
    ASSUME CallsTyped, NEW u \in Users, Miss(u)
    PROVE  /\ spot' \in [Users -> Slots \cup {NoSlot}] /\ pc' \in [Users -> Labels]
           /\ search' \in [Users -> Searches]
  <1>1. search[u] \in Searches
      BY DEF CallsTyped
  <1>2. spot' \in [Users -> Slots \cup {NoSlot}]
      BY DEF Miss, CallsTyped
  <1>3. pc' \in [Users -> Labels]
      BY DEF Miss, CallsTyped
  <1>4. CASE cacheLock = u
    <2>1. search' = [search EXCEPT ![u].tier = 1]
        BY <1>4 DEF Miss
    <2>2. [search[u] EXCEPT !.tier = 1] \in Searches
        BY <1>1 DEF Searches
    <2> QED
        BY <1>2, <1>3, <2>1, <2>2 DEF CallsTyped
  <1>5. CASE cacheLock # u
    <2>1. search' = [search EXCEPT ![u].tries = IF @ = 0 THEN 0 ELSE @ - 1]
        BY <1>5 DEF Miss
    <2>2. [search[u] EXCEPT !.tries = IF @ = 0 THEN 0 ELSE @ - 1] \in Searches
        BY <1>1 DEF Searches
    <2> QED
        BY <1>2, <1>3, <2>1, <2>2 DEF CallsTyped
  <1> QED
      BY <1>4, <1>5

\* A miss leads back to an earlier step of the same call.
LEMMA MissPlaced ==
    ASSUME Control, NEW u \in Users, Miss(u), pc[u] \in Looking \cup {"LoadHot"},
           UNCHANGED <<base, cacheLock, lease, want, lookup>>
    PROVE  Placed(u)'
  <1>1. /\ pc \in [Users -> Labels] /\ search \in [Users -> Searches] /\ Placed(u)
      BY DEF Control, Typed, CallsTyped
  <1>2. lease[u] = NoLease /\ want[u] - base \in Ordinals /\ lookup[u].at \in {"None", "Match"}
      BY <1>1 DEF Placed
  <1>3. CASE cacheLock = u
    <2>1. pc'[u] = "Virgin" /\ search'[u].tier = 1
        BY <1>1, <1>3 DEF Miss, Searches
    <2> QED
        BY <1>2, <1>3, <2>1 DEF Placed
  <1>4. CASE cacheLock # u
    <2>1. pc'[u] \in {"Lock", "LoadHot"}
        BY <1>1, <1>4 DEF Miss
    <2> QED
        BY <1>2, <1>4, <2>1 DEF Placed
  <1> QED
      BY <1>3, <1>4

\* A look that goes on stays at the same slot.
LEMMA LookPlaced ==
    ASSUME Control, NEW u \in Users, pc[u] \in Looking, NEW label \in Looking,
           pc' = [pc EXCEPT ![u] = label],
           UNCHANGED <<base, cacheLock, lease, want, lookup, spot, search>>
    PROVE  Placed(u)'
  <1>1. pc'[u] = label /\ Placed(u)
      BY DEF Control, Typed, CallsTyped
  <1>2. lease[u] = NoLease /\ want[u] - base \in Ordinals /\ lookup[u].at \in {"None", "Match"}
      BY <1>1 DEF Placed
  <1> QED
      BY <1>1, <1>2 DEF Placed

LEMMA LoadHotControl ==
    ASSUME Control, NEW u \in Users, LoadHot(u), UNCHANGED poolVars PROVE Control'
  <1>1. SlotsTyped' /\ NamesTyped'
      BY DEF Control, Typed, SlotsTyped, NamesTyped, LoadHot, slotVars, budgetVars, poolVars,
         registryVars
  <1>2. CallsTyped'
    <2>1. CASE hot[Ordinal(want[u])] = NoSlot
        BY <2>1, MissTyped DEF LoadHot, Control, Typed, CallsTyped
    <2>2. CASE hot[Ordinal(want[u])] # NoSlot
        BY <2>2 DEF LoadHot, Control, Typed, CallsTyped, SlotsTyped, Placed, Ordinal
    <2> QED
        BY <2>1, <2>2
  <1>3. Others(u) /\ LockMoves(u) /\ base' = base
      BY DEF Others, LoadHot, Miss, LockMoves, Control, Typed, CallsTyped, poolVars
  <1>4. Placed(u)'
      BY SlotFacts DEF Control, Typed, SlotsTyped, CallsTyped, LoadHot, Miss, slotVars,
         budgetVars, poolVars, Ordinal, Placed, Searches
  <1> QED
      BY <1>1, <1>2, <1>3, <1>4, OtherPlaced DEF Control, Typed

LEMMA LeaveTyped ==
    ASSUME CallsTyped, NEW u \in Users, NEW label \in Labels, Leave(u, label)
    PROVE  /\ spot' \in [Users -> Slots \cup {NoSlot}] /\ pc' \in [Users -> Labels]
           /\ search' \in [Users -> Searches] /\ want' \in [Users -> Nat]
  <1>1. NoSearch \in Searches
      BY DEF NoSearch, Searches
  <1> QED
      BY <1>1 DEF CallsTyped, Leave

LEMMA BindTyped ==
    ASSUME CallsTyped, SlotsTyped, NEW u \in Users, NEW s \in Slots, Bind(u, s)
    PROVE  lease' \in [Users -> Leases]
  <1>1. [slot |-> s, id |-> want[u], generation |-> generation[s]] \in Leases
      BY DEF CallsTyped, SlotsTyped, Leases
  <1> QED
      BY <1>1 DEF CallsTyped, Bind

LEMMA NoLeaseTyped == NoLease \in Leases
  BY DEF NoLease, Leases

LEMMA CheckAtomControl ==
    ASSUME Control, NEW u \in Users, CheckAtom(u), UNCHANGED poolVars PROVE Control'
  <1>1. SlotsTyped'
      BY SlotFacts DEF Control, Typed, SlotsTyped, CallsTyped, Placed, Ordinal, CheckAtom, Miss,
         slotVars, budgetVars, callVars, registryVars, poolVars
  <1>2. NamesTyped'
      BY DEF Control, Typed, NamesTyped, CheckAtom, Miss, slotVars, budgetVars, callVars,
         registryVars, poolVars
  <1>3. CallsTyped'
      BY MissTyped DEF CheckAtom, Control, Typed, CallsTyped
  <1>4. Others(u) /\ LockMoves(u) /\ base' = base
      BY DEF Others, CheckAtom, Miss, LockMoves, Control, Typed, CallsTyped, NamesTyped, Placed,
         slotVars, budgetVars, callVars, registryVars, poolVars
  <1>5. Placed(u)'
    <2>1. pc[u] \in Looking /\ UNCHANGED <<base, cacheLock, lease, want, lookup>>
        BY DEF CheckAtom, poolVars
    <2>2. Miss(u) \/ (pc' = [pc EXCEPT ![u] = "Pin"] /\ UNCHANGED <<spot, search>>)
        BY DEF CheckAtom
    <2> QED
        BY <2>1, <2>2, MissPlaced, LookPlaced
  <1> QED
      BY <1>1, <1>2, <1>3, <1>4, <1>5, OtherPlaced DEF Control, Typed

LEMMA PinControl ==
    ASSUME Control, NEW u \in Users, Pin(u), UNCHANGED poolVars PROVE Control'
  <1>1. SlotsTyped'
      BY SlotFacts DEF Control, Typed, SlotsTyped, CallsTyped, Placed, Ordinal, Pin, Miss,
         slotVars, budgetVars, callVars, registryVars, poolVars
  <1>2. NamesTyped'
      BY DEF Control, Typed, NamesTyped, Pin, Miss, slotVars, budgetVars, callVars, registryVars,
         poolVars
  <1>3. CallsTyped'
      BY MissTyped DEF Pin, Control, Typed, CallsTyped
  <1>4. Others(u) /\ LockMoves(u) /\ base' = base
      BY DEF Others, Pin, Miss, LockMoves, Control, Typed, CallsTyped, NamesTyped, Placed,
         slotVars, budgetVars, callVars, registryVars, poolVars
  <1>5. Placed(u)'
    <2>1. pc[u] \in Looking /\ UNCHANGED <<base, cacheLock, lease, want, lookup>>
        BY DEF Pin, poolVars
    <2>2. Miss(u) \/ (pc' = [pc EXCEPT ![u] = "Recheck"] /\ UNCHANGED <<spot, search>>)
        BY DEF Pin
    <2> QED
        BY <2>1, <2>2, MissPlaced, LookPlaced
  <1> QED
      BY <1>1, <1>2, <1>3, <1>4, <1>5, OtherPlaced DEF Control, Typed

LEMMA UnpinControl ==
    ASSUME Control, NEW u \in Users, Unpin(u), UNCHANGED poolVars PROVE Control'
  <1>1. SlotsTyped'
      BY SlotFacts DEF Control, Typed, SlotsTyped, CallsTyped, Placed, Ordinal, Unpin, Miss,
         slotVars, budgetVars, callVars, registryVars, poolVars
  <1>2. NamesTyped'
      BY DEF Control, Typed, NamesTyped, Unpin, Miss, slotVars, budgetVars, callVars,
         registryVars, poolVars
  <1>3. CallsTyped'
      BY MissTyped DEF Unpin, Control, Typed, CallsTyped
  <1>4. Others(u) /\ LockMoves(u) /\ base' = base
      BY DEF Others, Unpin, Miss, LockMoves, Control, Typed, CallsTyped, NamesTyped, Placed,
         slotVars, budgetVars, callVars, registryVars, poolVars
  <1>5. Placed(u)'
    <2>1. Miss(u) /\ pc[u] \in Looking /\ UNCHANGED <<base, cacheLock, lease, want, lookup>>
        BY DEF Unpin, poolVars
    <2> QED
        BY <2>1, MissPlaced
  <1> QED
      BY <1>1, <1>2, <1>3, <1>4, <1>5, OtherPlaced DEF Control, Typed

LEMMA RecheckControl ==
    ASSUME Control, NEW u \in Users, Recheck(u), UNCHANGED poolVars PROVE Control'
  <1>1. SlotsTyped'
      BY SlotFacts DEF Control, Typed, SlotsTyped, CallsTyped, Placed, Ordinal, Recheck, Bind,
         Leave, slotVars, budgetVars, callVars, registryVars, poolVars
  <1>2. NamesTyped'
      BY DEF Control, Typed, NamesTyped, Recheck, Bind, Leave, slotVars, budgetVars, callVars,
         registryVars, poolVars
  <1>3. CallsTyped'
      BY LeaveTyped, BindTyped DEF Recheck, Control, Typed, CallsTyped, Placed
  <1>4. Others(u) /\ LockMoves(u) /\ base' = base
      BY DEF Others, Recheck, Bind, Leave, LockMoves, Control, Typed, CallsTyped, NamesTyped,
         Placed, slotVars, budgetVars, callVars, registryVars, poolVars
  <1>5. Placed(u)'
    <2>1. /\ pc \in [Users -> Labels] /\ spot \in [Users -> Slots \cup {NoSlot}] /\ Placed(u)
          /\ pc[u] = "Recheck" /\ cacheLock' = cacheLock /\ lookup' = lookup
        BY DEF Control, Typed, CallsTyped, Recheck, poolVars
    <2>2. CASE atomId[spot[u]] = want[u]
      <3>1. pc'[u] = (IF cacheLock = u THEN "Unlock" ELSE "Idle")
          BY <2>1, <2>2 DEF Recheck, Leave
      <3> QED
          BY <2>1, <3>1 DEF Placed
    <2>3. CASE atomId[spot[u]] # want[u]
      <3>1. pc' = [pc EXCEPT ![u] = "Unpin"] /\ UNCHANGED <<base, cacheLock, lease, want, lookup, spot, search>>
          BY <2>1, <2>3 DEF Recheck
      <3> QED
          BY <2>1, <3>1, LookPlaced
    <2> QED
        BY <2>2, <2>3
  <1> QED
      BY <1>1, <1>2, <1>3, <1>4, <1>5, OtherPlaced DEF Control, Typed

LEMMA LockCacheControl ==
    ASSUME Control, NEW u \in Users, LockCache(u), UNCHANGED poolVars PROVE Control'
  <1>1. SlotsTyped'
      BY SlotFacts DEF Control, Typed, SlotsTyped, CallsTyped, Placed, Ordinal, LockCache,
         slotVars, budgetVars, callVars, registryVars, poolVars
  <1>2. NamesTyped'
      BY DEF Control, Typed, NamesTyped, LockCache, slotVars, budgetVars, callVars, registryVars,
         poolVars
  <1>3. CallsTyped'
      BY SlotFacts DEF Control, Typed, SlotsTyped, CallsTyped, NamesTyped, LockCache, slotVars,
         budgetVars, callVars, registryVars, poolVars, Placed, Ordinal
  <1>4. Others(u) /\ LockMoves(u) /\ base' = base
      BY DEF Others, LockCache, LockMoves, Control, Typed, CallsTyped, NamesTyped, Placed,
         slotVars, budgetVars, callVars, registryVars, poolVars
  <1>5. Placed(u)'
      BY SlotFacts DEF Control, Typed, SlotsTyped, CallsTyped, NamesTyped, LockCache, slotVars,
         budgetVars, callVars, registryVars, poolVars, Ordinal, Placed, Searches, NoLease,
         NoSearch
  <1> QED
      BY <1>1, <1>2, <1>3, <1>4, <1>5, OtherPlaced DEF Control, Typed

LEMMA ClearHotControl ==
    ASSUME Control, NEW u \in Users, ClearHot(u), UNCHANGED poolVars PROVE Control'
  <1>1. SlotsTyped'
      BY SlotFacts DEF Control, Typed, SlotsTyped, CallsTyped, Placed, Ordinal, ClearHot,
         slotVars, budgetVars, callVars, registryVars, poolVars
  <1>2. NamesTyped'
      BY DEF Control, Typed, NamesTyped, ClearHot, slotVars, budgetVars, callVars, registryVars,
         poolVars
  <1>3. CallsTyped'
      BY SlotFacts DEF Control, Typed, SlotsTyped, CallsTyped, NamesTyped, ClearHot, slotVars,
         budgetVars, callVars, registryVars, poolVars, Placed, Ordinal
  <1>4. Others(u) /\ LockMoves(u) /\ base' = base
      BY DEF Others, ClearHot, LockMoves, Control, Typed, CallsTyped, NamesTyped, Placed,
         slotVars, budgetVars, callVars, registryVars, poolVars
  <1>5. Placed(u)'
      BY SlotFacts DEF Control, Typed, SlotsTyped, CallsTyped, NamesTyped, ClearHot, slotVars,
         budgetVars, callVars, registryVars, poolVars, Ordinal, Placed, Searches, NoLease,
         NoSearch
  <1> QED
      BY <1>1, <1>2, <1>3, <1>4, <1>5, OtherPlaced DEF Control, Typed

LEMMA PublishControl ==
    ASSUME Control, NEW u \in Users, Publish(u), UNCHANGED poolVars PROVE Control'
  <1>1. SlotsTyped'
      BY SlotFacts DEF Control, Typed, SlotsTyped, CallsTyped, Placed, Ordinal, Publish, slotVars,
         budgetVars, callVars, registryVars, poolVars
  <1>2. NamesTyped'
      BY DEF Control, Typed, NamesTyped, Publish, slotVars, budgetVars, callVars, registryVars,
         poolVars
  <1>3. CallsTyped'
      BY SlotFacts DEF Control, Typed, SlotsTyped, CallsTyped, NamesTyped, Publish, slotVars,
         budgetVars, callVars, registryVars, poolVars, Placed, Ordinal
  <1>4. Others(u) /\ LockMoves(u) /\ base' = base
      BY DEF Others, Publish, LockMoves, Control, Typed, CallsTyped, NamesTyped, Placed, slotVars,
         budgetVars, callVars, registryVars, poolVars
  <1>5. Placed(u)'
      BY SlotFacts DEF Control, Typed, SlotsTyped, CallsTyped, NamesTyped, Publish, slotVars,
         budgetVars, callVars, registryVars, poolVars, Ordinal, Placed, Searches, NoLease,
         NoSearch
  <1> QED
      BY <1>1, <1>2, <1>3, <1>4, <1>5, OtherPlaced DEF Control, Typed

LEMMA OpenControl ==
    ASSUME Control, NEW u \in Users, Open(u), UNCHANGED poolVars PROVE Control'
  <1>1. SlotsTyped'
      BY SlotFacts DEF Control, Typed, SlotsTyped, CallsTyped, Placed, Ordinal, Open, slotVars,
         budgetVars, callVars, registryVars, poolVars
  <1>2. NamesTyped'
      BY DEF Control, Typed, NamesTyped, Open, slotVars, budgetVars, callVars, registryVars,
         poolVars
  <1>3. CallsTyped'
      BY SlotFacts DEF Control, Typed, SlotsTyped, CallsTyped, NamesTyped, Open, slotVars,
         budgetVars, callVars, registryVars, poolVars, Placed, Ordinal
  <1>4. Others(u) /\ LockMoves(u) /\ base' = base
      BY DEF Others, Open, LockMoves, Control, Typed, CallsTyped, NamesTyped, Placed, slotVars,
         budgetVars, callVars, registryVars, poolVars
  <1>5. Placed(u)'
      BY SlotFacts DEF Control, Typed, SlotsTyped, CallsTyped, NamesTyped, Open, slotVars,
         budgetVars, callVars, registryVars, poolVars, Ordinal, Placed, Searches, NoLease,
         NoSearch
  <1> QED
      BY <1>1, <1>2, <1>3, <1>4, <1>5, OtherPlaced DEF Control, Typed

LEMMA ClearAtomControl ==
    ASSUME Control, NEW u \in Users, ClearAtom(u), UNCHANGED poolVars PROVE Control'
  <1>1. SlotsTyped'
      BY SlotFacts DEF Control, Typed, SlotsTyped, CallsTyped, Placed, Ordinal, ClearAtom,
         slotVars, budgetVars, callVars, registryVars, poolVars
  <1>2. NamesTyped'
      BY DEF Control, Typed, NamesTyped, ClearAtom, slotVars, budgetVars, callVars, registryVars,
         poolVars
  <1>3. CallsTyped'
    <2>1. [search[u] EXCEPT !.probe = IF atomId[spot[u]] = 0 THEN 1 ELSE 0] \in Searches
        BY DEF Control, Typed, CallsTyped, Searches
    <2>2. search' \in [Users -> Searches]
        BY <2>1 DEF ClearAtom, Control, Typed, CallsTyped
    <2> QED
        BY <2>2 DEF ClearAtom, Control, Typed, CallsTyped
  <1>4. Others(u) /\ LockMoves(u) /\ base' = base
      BY DEF Others, ClearAtom, LockMoves, Control, Typed, CallsTyped, NamesTyped, Placed,
         slotVars, budgetVars, callVars, registryVars, poolVars
  <1>5. Placed(u)'
      BY SlotFacts DEF Control, Typed, SlotsTyped, CallsTyped, NamesTyped, ClearAtom, slotVars,
         budgetVars, callVars, registryVars, poolVars, Ordinal, Placed, Searches, NoLease,
         NoSearch
  <1> QED
      BY <1>1, <1>2, <1>3, <1>4, <1>5, OtherPlaced DEF Control, Typed

LEMMA SetHotControl ==
    ASSUME Control, NEW u \in Users, SetHot(u), UNCHANGED poolVars PROVE Control'
  <1>1. SlotsTyped'
      BY SlotFacts DEF Control, Typed, SlotsTyped, CallsTyped, Placed, Ordinal, SetHot, Bind,
         Leave, slotVars, budgetVars, callVars, registryVars, poolVars
  <1>2. NamesTyped'
      BY DEF Control, Typed, NamesTyped, SetHot, Bind, Leave, slotVars, budgetVars, callVars,
         registryVars, poolVars
  <1>3. CallsTyped'
      BY LeaveTyped, BindTyped DEF SetHot, Control, Typed, CallsTyped, Placed
  <1>4. Others(u) /\ LockMoves(u) /\ base' = base
      BY DEF Others, SetHot, Bind, Leave, LockMoves, Control, Typed, CallsTyped, NamesTyped,
         Placed, slotVars, budgetVars, callVars, registryVars, poolVars
  <1>5. Placed(u)'
      BY SlotFacts DEF Control, Typed, SlotsTyped, CallsTyped, NamesTyped, SetHot, Bind, Leave,
         slotVars, budgetVars, callVars, registryVars, poolVars, Ordinal, Placed, Searches,
         NoLease, NoSearch
  <1> QED
      BY <1>1, <1>2, <1>3, <1>4, <1>5, OtherPlaced DEF Control, Typed

LEMMA UnlockCacheControl ==
    ASSUME Control, NEW u \in Users, UnlockCache(u), UNCHANGED poolVars PROVE Control'
  <1>1. SlotsTyped'
      BY SlotFacts DEF Control, Typed, SlotsTyped, CallsTyped, Placed, Ordinal, UnlockCache,
         Leave, slotVars, budgetVars, callVars, registryVars, poolVars
  <1>2. NamesTyped'
      BY DEF Control, Typed, NamesTyped, UnlockCache, Leave, slotVars, budgetVars, callVars,
         registryVars, poolVars
  <1>3. CallsTyped'
      BY LeaveTyped DEF UnlockCache, Control, Typed, CallsTyped
  <1>4. Others(u) /\ LockMoves(u) /\ base' = base
      BY DEF Others, UnlockCache, Leave, LockMoves, Control, Typed, CallsTyped, NamesTyped,
         Placed, slotVars, budgetVars, callVars, registryVars, poolVars
  <1>5. Placed(u)'
      BY CacheAssumption DEF UnlockCache, Leave, poolVars, Placed, Control, Typed, CallsTyped
  <1> QED
      BY <1>1, <1>2, <1>3, <1>4, <1>5, OtherPlaced DEF Control, Typed

LEMMA TryVirginControl ==
    ASSUME Control, NEW u \in Users, TryVirgin(u), UNCHANGED poolVars PROVE Control'
  <1> DEFINE t == search[u].tier
             v == <<t, tierNext[t]>>
  <1>0. /\ search[u] \in Searches /\ t \in Nat \ {0} /\ pc[u] = "Virgin" /\ cacheLock = u
        /\ lease[u] = NoLease /\ want[u] - base \in Ordinals /\ lookup' = lookup /\ lookup[u].at \in {"None", "Match"}
      BY DEF Control, Typed, CallsTyped, Placed, TryVirgin, Searches, poolVars
  <1>1. SlotsTyped'
    <2>1. CASE t <= TierCount /\ Fits(t, Ordinal(want[u])) /\ tierNext[t] < TierSlots[t] /\ pins[v] = 0
      <3>0. t \in Tiers
          BY <1>0, <2>1, CacheAssumption DEF Tiers
      <3>a. tierNext[t] \in Nat
          BY <3>0 DEF Control, Typed, SlotsTyped
      <3>1. v \in Slots
          BY <2>1, <3>0, <3>a, SlotFacts
      <3>2. pins' = [pins EXCEPT ![v] = PinLimit]
          BY <1>0, <2>1, CacheAssumption DEF TryVirgin, Reserve
      <3> QED
          BY <3>1, <3>2, CacheAssumption DEF Control, Typed, SlotsTyped, TryVirgin, budgetVars
    <2>2. CASE ~ (t <= TierCount /\ Fits(t, Ordinal(want[u])) /\ tierNext[t] < TierSlots[t] /\ pins[v] = 0)
        BY <2>2 DEF Control, Typed, SlotsTyped, TryVirgin, budgetVars
    <2> QED
        BY <2>1, <2>2
  <1>2. NamesTyped'
      BY DEF Control, Typed, NamesTyped, TryVirgin, poolVars, registryVars
  <1>3. CallsTyped' /\ Placed(u)'
    <2>1. CASE t > TierCount
      <3>1. Leave(u, "Unlock") /\ UNCHANGED <<lease, cacheLock, base>>
          BY <1>0, <2>1, CacheAssumption DEF TryVirgin
      <3>2. CallsTyped'
          BY <3>1, LeaveTyped DEF Control, Typed, CallsTyped
      <3>3. pc'[u] = "Unlock"
          BY <3>1 DEF Leave, Control, Typed, CallsTyped
      <3> QED
          BY <1>0, <3>1, <3>2, <3>3 DEF Placed
    <2>2. CASE t <= TierCount /\ ~ Fits(t, Ordinal(want[u]))
      <3>1. search' = [search EXCEPT ![u].tier = @ + 1] /\ UNCHANGED <<pc, want, spot, lease, cacheLock, base>>
          BY <1>0, <2>2, CacheAssumption DEF TryVirgin
      <3>2. [search[u] EXCEPT !.tier = @ + 1] \in Searches
          BY <1>0 DEF Searches
      <3>3. search'[u].tier = t + 1 /\ search' \in [Users -> Searches]
          BY <1>0, <3>1, <3>2 DEF Control, Typed, CallsTyped, Searches
      <3> QED
          BY <1>0, <3>1, <3>3 DEF Control, Typed, CallsTyped, Placed
    <2>3. CASE t <= TierCount /\ Fits(t, Ordinal(want[u])) /\ tierNext[t] < TierSlots[t] /\ pins[v] = 0
      <3>0. t \in Tiers /\ TierSlots[t] > 0
          BY <1>0, <2>3, CacheAssumption DEF Tiers, Fits
      <3>a. tierNext[t] \in Nat
          BY <3>0 DEF Control, Typed, SlotsTyped
      <3>1. v \in Slots /\ t \in Tiers /\ TierSlots[t] > 0
          BY <2>3, <3>0, <3>a, SlotFacts
      <3>2. spot' = [spot EXCEPT ![u] = v] /\ pc' = [pc EXCEPT ![u] = "ClearHot"] /\ UNCHANGED <<want, search, lease, cacheLock, base>>
          BY <1>0, <2>3, CacheAssumption DEF TryVirgin, Reserve
      <3> QED
          BY <1>0, <3>1, <3>2 DEF Control, Typed, CallsTyped, Placed
    <2>4. CASE t <= TierCount /\ Fits(t, Ordinal(want[u])) /\ ~ (tierNext[t] < TierSlots[t] /\ pins[v] = 0)
      <3>1. t \in Tiers /\ TierSlots[t] > 0
          BY <1>0, <2>4, CacheAssumption DEF Tiers, Fits
      <3>2. search' = [search EXCEPT ![u].probe = 0] /\ pc' = [pc EXCEPT ![u] = "Reuse"] /\ UNCHANGED <<want, spot, lease, cacheLock, base>>
          BY <1>0, <2>4, CacheAssumption DEF TryVirgin
      <3>3. [search[u] EXCEPT !.probe = 0] \in Searches
          BY <1>0 DEF Searches
      <3>4. search'[u].tier = t /\ search' \in [Users -> Searches]
          BY <1>0, <3>2, <3>3 DEF Control, Typed, CallsTyped, Searches
      <3> QED
          BY <1>0, <3>1, <3>2, <3>4 DEF Control, Typed, CallsTyped, Placed
    <2>5. t <= TierCount \/ t > TierCount
        BY <1>0, CacheAssumption
    <2> QED
        BY <2>1, <2>2, <2>3, <2>4, <2>5
  <1>4. Others(u) /\ LockMoves(u) /\ base' = base
      BY DEF Others, TryVirgin, Reserve, Leave, LockMoves, Control, Typed, CallsTyped, NamesTyped,
         poolVars
  <1> QED
      BY <1>1, <1>2, <1>3, <1>4, OtherPlaced DEF Control, Typed

LEMMA ReuseSlot ==
    ASSUME Control, NEW u \in Users, pc[u] = "Reuse"
    PROVE  LET t == search[u].tier IN
           /\ t \in Tiers /\ search[u] \in Searches
           /\ <<t, (tierCursor[t] + search[u].probe) % TierSlots[t]>> \in Slots
  <1> DEFINE t == search[u].tier
             n == tierCursor[t] + search[u].probe
  <1>1. t \in Tiers /\ search[u] \in Searches /\ TierSlots[t] \in Nat /\ TierSlots[t] > 0
      BY SlotFacts DEF Control, Typed, CallsTyped, Placed
  <1>2. n \in Nat
      BY <1>1 DEF Control, Typed, SlotsTyped, Searches
  <1>3. n % TierSlots[t] \in 0..(TierSlots[t] - 1)
      BY <1>1, <1>2
  <1>4. n % TierSlots[t] \in Nat /\ n % TierSlots[t] < TierSlots[t]
      BY <1>1, <1>3
  <1> QED
      BY <1>1, <1>4, SlotFacts

LEMMA TryReuseControl ==
    ASSUME Control, NEW u \in Users, TryReuse(u), UNCHANGED poolVars PROVE Control'
  <1> DEFINE t == search[u].tier
             v == <<t, (tierCursor[t] + search[u].probe) % TierSlots[t]>>
  <1>0. /\ search[u] \in Searches /\ t \in Tiers /\ v \in Slots /\ pc[u] = "Reuse" /\ cacheLock = u
        /\ lease[u] = NoLease /\ want[u] - base \in Ordinals /\ TierSlots[t] > 0
        /\ lookup' = lookup /\ lookup[u].at \in {"None", "Match"}
      BY ReuseSlot DEF Control, Placed, TryReuse, poolVars
  <1>1. SlotsTyped'
      BY <1>0, CacheAssumption DEF Control, Typed, SlotsTyped, TryReuse, Reserve, budgetVars
  <1>2. NamesTyped'
      BY DEF Control, Typed, NamesTyped, TryReuse, poolVars, registryVars
  <1>3. CallsTyped' /\ Placed(u)'
    <2>1. CASE Reserve(u, v) /\ UNCHANGED <<want, search, lease, cacheLock, base>>
        BY <1>0, <2>1 DEF Reserve, Control, Typed, CallsTyped, Placed
    <2>2. CASE search' = [search EXCEPT ![u].probe = @ + 1] /\ UNCHANGED <<pc, want, spot, lease, cacheLock, base>>
      <3>1. [search[u] EXCEPT !.probe = @ + 1] \in Searches
          BY <1>0 DEF Searches
      <3>2. search'[u].tier = t /\ search' \in [Users -> Searches]
          BY <1>0, <2>2, <3>1 DEF Control, Typed, CallsTyped, Searches
      <3> QED
          BY <1>0, <2>2, <3>2 DEF Control, Typed, CallsTyped, Placed
    <2>3. CASE search' = [search EXCEPT ![u].tier = @ + 1] /\ Goto(u, "Virgin") /\ UNCHANGED <<want, spot, lease, cacheLock, base>>
      <3>1. [search[u] EXCEPT !.tier = @ + 1] \in Searches
          BY <1>0 DEF Searches
      <3>2. search'[u].tier = t + 1 /\ search' \in [Users -> Searches]
          BY <1>0, <2>3, <3>1 DEF Control, Typed, CallsTyped, Searches
      <3>3. t + 1 >= 1
          BY <1>0 DEF Tiers
      <3> QED
          BY <1>0, <2>3, <3>2, <3>3 DEF Control, Typed, CallsTyped, Placed
    <2> QED
        BY <2>1, <2>2, <2>3 DEF TryReuse
  <1>4. Others(u) /\ LockMoves(u) /\ base' = base
      BY DEF Others, TryReuse, Reserve, LockMoves, Control, Typed, CallsTyped, NamesTyped, poolVars
  <1> QED
      BY <1>1, <1>2, <1>3, <1>4, OtherPlaced DEF Control, Typed

LEMMA DecodeControl ==
    ASSUME Control, NEW u \in Users, Decode(u), UNCHANGED poolVars PROVE Control'
  <1> DEFINE s == spot[u]
             t == search[u].tier
  <1>0. /\ search[u] \in Searches /\ t \in Tiers /\ s \in Slots /\ cacheLock = u /\ TierSlots[t] \in Nat
        /\ lease[u] = NoLease /\ want[u] - base \in Ordinals /\ TierSlots[t] > 0 /\ s[2] \in Nat
        /\ lookup' = lookup /\ lookup[u].at \in {"None", "Match"}
      BY SlotFacts DEF Control, Typed, CallsTyped, Placed, Decode, poolVars
  <1>1. SlotsTyped' /\ CallsTyped' /\ Placed(u)'
    <2>1. CASE Ordinal(want[u]) \in Damaged
      <3>1. /\ pins' = [pins EXCEPT ![s] = 0] /\ Leave(u, "Unlock")
            /\ UNCHANGED <<base, cacheLock, atomId, generation, text, hot, tierNext, tierCursor, lease>>
          BY <2>1 DEF Decode, budgetVars
      <3>2. SlotsTyped'
          BY <1>0, <3>1 DEF Control, Typed, SlotsTyped
      <3>3. CallsTyped'
          BY <3>1, LeaveTyped DEF Control, Typed, CallsTyped
      <3>4. Placed(u)'
          BY <1>0, <3>1 DEF Leave, Control, Typed, CallsTyped, Placed
      <3> QED
          BY <3>2, <3>3, <3>4
    <2>2. CASE Ordinal(want[u]) \notin Damaged
      <3>1. /\ text' = [text EXCEPT ![s] = WantedText(u)]
            /\ generation' = [generation EXCEPT ![s] = (@ % MaxGeneration) + 1]
            /\ tierNext' = [tierNext EXCEPT ![t] = @ + search[u].probe]
            /\ tierCursor' = [tierCursor EXCEPT ![t] = (s[2] + 1) % TierSlots[t]]
            /\ pc' = [pc EXCEPT ![u] = "Publish"]
            /\ UNCHANGED <<base, cacheLock, atomId, pins, hot, lease, want, spot, search>>
          BY <2>2 DEF Decode
      <3>2. WantedText(u) \in Texts
          BY <1>0, CacheAssumption DEF WantedText, Ordinal
      <3>3. (s[2] + 1) % TierSlots[t] \in 0..(TierSlots[t] - 1)
          BY <1>0
      <3>4. generation[s] \in Nat /\ generation[s] % MaxGeneration \in 0..(MaxGeneration - 1)
          BY <1>0, CacheAssumption DEF Control, Typed, SlotsTyped
      <3>5. tierNext[t] + search[u].probe \in Nat
          BY <1>0 DEF Control, Typed, SlotsTyped, Searches
      <3>6. (s[2] + 1) % TierSlots[t] \in Nat /\ (generation[s] % MaxGeneration) + 1 \in Nat
          BY <1>0, <3>3, <3>4, CacheAssumption
      <3>7. SlotsTyped'
          BY <1>0, <3>1, <3>2, <3>5, <3>6 DEF Control, Typed, SlotsTyped
      <3>8. CallsTyped' /\ Placed(u)'
          BY <1>0, <3>1 DEF Control, Typed, CallsTyped, Placed
      <3> QED
          BY <3>7, <3>8
    <2> QED
        BY <2>1, <2>2
  <1>3. NamesTyped'
      BY DEF Control, Typed, NamesTyped, Decode, poolVars, registryVars
  <1>4. Others(u) /\ LockMoves(u) /\ base' = base
      BY DEF Others, Decode, Leave, LockMoves, Control, Typed, CallsTyped, NamesTyped, poolVars
  <1> QED
      BY <1>1, <1>3, <1>4, OtherPlaced DEF Control, Typed

LEMMA DropTyped ==
    ASSUME Control, NEW u \in Users, Drop(u) \/ UNCHANGED pins
    PROVE  pins' \in [Slots -> Int]
  <1>1. CASE lease[u].slot \in Slots
      BY <1>1, SlotFacts DEF Drop, Control, Typed, SlotsTyped
  <1>2. CASE lease[u].slot \notin Slots
      BY <1>2 DEF Drop, Control, Typed, SlotsTyped
  <1> QED
      BY <1>1, <1>2

LEMMA ReleaseControl ==
    ASSUME Control, NEW u \in Users, Release(u) PROVE Control'
  <1>1. SlotsTyped'
      BY DropTyped DEF Control, Typed, SlotsTyped, Release, budgetVars
  <1>2. NamesTyped'
      BY DEF Control, Typed, NamesTyped, Release, registryVars
  <1>3. CallsTyped' /\ Placed(u)'
      BY NoLeaseTyped DEF Control, Typed, CallsTyped, Placed, Release, Free
  <1>4. Others(u) /\ LockMoves(u) /\ base' = base
      BY DEF Others, Release, LockMoves, Control, Typed, CallsTyped
  <1> QED
      BY <1>1, <1>2, <1>3, <1>4, OtherPlaced DEF Control, Typed

LEMMA AcquireControl ==
    ASSUME Control, NEW u \in Users, NEW id \in Nat, Acquire(u, id) PROVE Control'
  <1>1. SlotsTyped'
      BY DropTyped DEF Control, Typed, SlotsTyped, Acquire, budgetVars
  <1>2. NamesTyped'
      BY DEF Control, Typed, NamesTyped, Acquire, registryVars
  <1>3. CallsTyped' /\ Placed(u)'
      BY NoLeaseTyped DEF Control, Typed, CallsTyped, Placed, Acquire, Free
  <1>4. Others(u) /\ LockMoves(u) /\ base' = base
      BY DEF Others, Acquire, LockMoves, Control, Typed, CallsTyped
  <1> QED
      BY <1>1, <1>2, <1>3, <1>4, OtherPlaced DEF Control, Typed

LEMMA ResolveControl ==
    ASSUME Control, NEW u \in Users, Resolve(u) PROVE Control'
  <1> DEFINE index == want[u] - base
  <1>1. SlotsTyped'
      BY DEF Control, Typed, SlotsTyped, Resolve, slotVars, budgetVars
  <1>2. NamesTyped'
      BY DEF Control, Typed, NamesTyped, Resolve, registryVars
  <1>3. CallsTyped' /\ Placed(u)'
    <2>1. CASE Leave(u, "Idle") /\ UNCHANGED <<lease, directLeases, cacheLock, base>>
      <3>1. CallsTyped'
          BY <2>1, LeaveTyped DEF Control, Typed, CallsTyped
      <3> QED
          BY <2>1, <3>1 DEF Leave, Control, Typed, CallsTyped, Placed, Resolve, registryVars
    <2>2. CASE /\ Leave(u, "Idle") /\ UNCHANGED <<cacheLock, base>>
               /\ lease' = [lease EXCEPT ![u] = [slot |-> Direct, id |-> want[u], generation |-> 0]]
      <3>1. [slot |-> Direct, id |-> want[u], generation |-> 0] \in Leases
          BY DEF Leases, Control, Typed, CallsTyped
      <3>2. CallsTyped'
          BY <2>2, <3>1, LeaveTyped DEF Control, Typed, CallsTyped
      <3> QED
          BY <2>2, <3>2 DEF Leave, Control, Typed, CallsTyped, Placed, Resolve, registryVars
    <2>3. CASE /\ ~ InPlace(index) /\ Goto(u, "LoadHot")
               /\ UNCHANGED <<lease, want, spot, search, target, directLeases, cacheLock, base>>
        BY <2>3 DEF InPlace, Control, Typed, CallsTyped, Placed, Resolve, registryVars
    <2> QED
        BY <2>1, <2>2, <2>3 DEF Resolve
  <1>4. Others(u) /\ LockMoves(u) /\ base' = base
      BY DEF Others, Resolve, Leave, LockMoves, Control, Typed, CallsTyped
  <1> QED
      BY <1>1, <1>2, <1>3, <1>4, OtherPlaced DEF Control, Typed

\* A lookup that moves leaves the leases' words alone.
LEMMA LookupControl ==
    ASSUME Control, NEW u \in Users, UNCHANGED cacheVars, NamesTyped',
           \A v \in Users \ {u} : lookup'[v] = lookup[v],
           lookup[u].at \notin {"None", "Match"} \/ (Free(u) /\ lease[u] = NoLease)
    PROVE  Control'
  <1>1. SlotsTyped' /\ CallsTyped'
      BY DEF Control, Typed, SlotsTyped, CallsTyped, cacheVars, slotVars, budgetVars, callVars
  <1>2. \A v \in Users : Placed(v)'
      BY DEF Control, Placed, Free, cacheVars, callVars
  <1> QED
      BY <1>1, <1>2 DEF Control, Typed

LEMMA AnswerTyped ==
    ASSUME Control, NEW u \in Users, NEW index \in Nat, Answer(u, index)
    PROVE  lookup' \in [Users -> Lookups] /\ issued' \subseteq Nat \X (Texts \cup {Garbage})
  <1>1. NoLookup \in Lookups
      BY DEF NoLookup, Lookups
  <1>2. lookup[u].text \in Texts \cup {Garbage} /\ base + index \in Nat
      BY DEF Control, Typed, NamesTyped, SlotsTyped, Lookups
  <1> QED
      BY <1>1, <1>2 DEF Answer, Control, Typed, NamesTyped

\* Fields of a lookup may be set to values of their kinds.
LEMMA LookupFields ==
    ASSUME NEW l \in Lookups, NEW i \in Nat, NEW n \in Nat,
           NEW a \in {"None", "Read", "Match", "Missing", "Lock", "Admit", "Publish", "Unlock"}
    PROVE  /\ [l EXCEPT !.at = a] \in Lookups
           /\ [l EXCEPT !.at = a, !.index = i] \in Lookups
           /\ [l EXCEPT !.at = a, !.step = n] \in Lookups
           /\ [l EXCEPT !.at = a, !.step = n, !.index = i] \in Lookups
  BY DEF Lookups

LEMMA FoundTyped ==
    ASSUME Control, NEW u \in Users, NEW index \in Nat, Found(u, index)
    PROVE  lookup' \in [Users -> Lookups] /\ issued' \subseteq Nat \X (Texts \cup {Garbage})
  <1>1. lookup[u] \in Lookups
      BY DEF Control, Typed, NamesTyped
  <1>2. CASE registryLock = u
    <2>1. lookup' = [lookup EXCEPT ![u] = [lookup[u] EXCEPT !.at = "Unlock", !.index = index + 1]]
        BY <1>2 DEF Found, Control, Typed, NamesTyped
    <2>0. index + 1 \in Nat
        OBVIOUS
    <2>2. [lookup[u] EXCEPT !.at = "Unlock", !.index = index + 1] \in Lookups
        BY <1>1, <2>0, LookupFields
    <2> QED
        BY <1>2, <2>1, <2>2 DEF Found, Control, Typed, NamesTyped
  <1>3. CASE registryLock # u
      BY <1>3, AnswerTyped DEF Found
  <1> QED
      BY <1>2, <1>3

LEMMA NextCellTyped ==
    ASSUME Control, NEW u \in Users, NextCell(u)
    PROVE  lookup' \in [Users -> Lookups] /\ issued' \subseteq Nat \X (Texts \cup {Garbage})
  <1>1. lookup[u] \in Lookups /\ lookup[u].step + 1 \in Nat
      BY DEF Control, Typed, NamesTyped, Lookups
  <1>2. lookup' = [lookup EXCEPT ![u] = [lookup[u] EXCEPT !.at = "Read", !.step = lookup[u].step + 1, !.index = 0]]
      BY DEF NextCell, Control, Typed, NamesTyped
  <1>3. [lookup[u] EXCEPT !.at = "Read", !.step = lookup[u].step + 1, !.index = 0] \in Lookups
      BY <1>1, LookupFields
  <1> QED
      BY <1>2, <1>3 DEF NextCell, Control, Typed, NamesTyped

LEMMA MoveTyped ==
    ASSUME Control, NEW u \in Users, NEW a \in {"Lock", "Admit", "Missing", "Unlock"}, Move(u, a)
    PROVE  lookup' \in [Users -> Lookups]
  <1>1. lookup[u] \in Lookups
      BY DEF Control, Typed, NamesTyped
  <1>2. lookup' = [lookup EXCEPT ![u] = [lookup[u] EXCEPT !.at = a]]
      BY DEF Move, Control, Typed, NamesTyped
  <1> QED
      BY <1>1, <1>2, LookupFields DEF Control, Typed, NamesTyped

LEMMA NamesFacts ==
    /\ CookedNames \in Nat /\ Ordinals = 0..(CookedNames - 1)
    /\ MaxNames \in Nat /\ CookedNames <= MaxNames
  BY FS_CardinalityType, CacheAssumption, PoolAssumption DEF CookedNames

LEMMA ReadCellControl ==
    ASSUME Control, NEW u \in Users, ReadCell(u) PROVE Control'
  <1> DEFINE t == lookup[u].text
             tag == table[Cell(t, lookup[u].step)]
             index == tag - 1
  <1>1. /\ lookup[u].at = "Read" /\ pc[u] = "Idle" /\ lease[u] = NoLease
        /\ UNCHANGED <<base, slotVars, cacheLock, budgetVars, registryVars>>
      BY DEF ReadCell, At, Control, Placed
  <1>2. names \in Nat
      BY NamesFacts DEF Control, Typed, NamesTyped
  <1>3. CASE NotFound(u) /\ UNCHANGED callVars
    <2>1. lookup' \in [Users -> Lookups] /\ issued' = issued
        BY <1>3, MoveTyped DEF NotFound
    <2>2. NamesTyped' /\ \A v \in Users \ {u} : lookup'[v] = lookup[v]
        BY <1>1, <1>3, <2>1 DEF NotFound, Move, Control, Typed, NamesTyped, registryVars
    <2> QED
        BY <1>1, <1>3, <2>2, LookupControl DEF cacheVars
  <1>4. CASE NextCell(u) /\ UNCHANGED callVars
    <2>1. NamesTyped' /\ \A v \in Users \ {u} : lookup'[v] = lookup[v]
        BY <1>1, <1>4, NextCellTyped DEF NextCell, Control, Typed, NamesTyped, registryVars
    <2> QED
        BY <1>1, <1>4, <2>1, LookupControl DEF cacheVars
  <1>5. CASE index \in 0..(names - 1) /\ Found(u, index) /\ UNCHANGED callVars
    <2>1. NamesTyped' /\ \A v \in Users \ {u} : lookup'[v] = lookup[v]
        BY <1>1, <1>2, <1>5, FoundTyped DEF Found, Answer, Control, Typed, NamesTyped, registryVars
    <2> QED
        BY <1>1, <1>5, <2>1, LookupControl DEF cacheVars
  <1>6. CASE /\ index \in 0..(names - 1) /\ ~ InPlace(index)
             /\ lookup' = [lookup EXCEPT ![u].at = "Match", ![u].index = index + 1]
             /\ want' = [want EXCEPT ![u] = base + index]
             /\ search' = [search EXCEPT ![u].tries = 1]
             /\ Goto(u, "LoadHot") /\ UNCHANGED <<issued, lease, spot, target>>
    <2>1. index \in Nat /\ index + 1 \in Nat /\ index \in Ordinals /\ base + index \in Nat
        BY <1>2, <1>6 DEF InPlace, Control, Typed, SlotsTyped
    <2>2. lookup[u] \in Lookups /\ search[u] \in Searches
        BY DEF Control, Typed, NamesTyped, CallsTyped
    <2>3. lookup' = [lookup EXCEPT ![u] = [lookup[u] EXCEPT !.at = "Match", !.index = index + 1]]
        BY <1>6 DEF Control, Typed, NamesTyped
    <2>4. [lookup[u] EXCEPT !.at = "Match", !.index = index + 1] \in Lookups
        BY <2>1, <2>2, LookupFields
    <2>5. NamesTyped' /\ lookup'[u].at = "Match"
        BY <1>1, <1>6, <2>2, <2>3, <2>4 DEF Control, Typed, NamesTyped, registryVars, Lookups
    <2>6. [search[u] EXCEPT !.tries = 1] \in Searches
        BY <2>2 DEF Searches
    <2>7. CallsTyped'
        BY <1>6, <2>1, <2>6 DEF Control, Typed, CallsTyped
    <2>8. SlotsTyped'
        BY <1>1 DEF Control, Typed, SlotsTyped, slotVars, budgetVars
    <2>9. (base + index) - base = index
        BY <2>1 DEF Control, Typed, SlotsTyped
    <2>10. Placed(u)'
        BY <1>1, <1>6, <2>1, <2>5, <2>9 DEF Control, Typed, CallsTyped, Placed
    <2>11. Others(u) /\ LockMoves(u) /\ base' = base
        BY <1>1, <1>6 DEF Others, LockMoves, Control, Typed, CallsTyped, NamesTyped
    <2> QED
        BY <2>5, <2>7, <2>8, <2>10, <2>11, OtherPlaced DEF Control, Typed
  <1> QED
      BY <1>3, <1>4, <1>5, <1>6 DEF ReadCell

LEMMA MatchControl ==
    ASSUME Control, NEW u \in Users, Match(u), lookup[u].index - 1 \in Nat PROVE Control'
  <1>1. SlotsTyped'
      BY DropTyped DEF Control, Typed, SlotsTyped, Match, budgetVars
  <1>2. NamesTyped' /\ \A v \in Users \ {u} : lookup'[v] = lookup[v]
    <2>1. Found(u, lookup[u].index - 1) \/ NextCell(u)
        BY DEF Match
    <2>2. lookup' \in [Users -> Lookups] /\ issued' \subseteq Nat \X (Texts \cup {Garbage})
        BY <2>1, FoundTyped, NextCellTyped
    <2> QED
        BY <2>1, <2>2 DEF Match, Found, Answer, NextCell, Control, Typed, NamesTyped, registryVars
  <1>3. CallsTyped' /\ Placed(u)'
      BY NoLeaseTyped DEF Control, Typed, CallsTyped, Placed, Match, At
  <1>4. Others(u) /\ LockMoves(u) /\ base' = base
      BY <1>2 DEF Others, Match, LockMoves, Control, Typed, CallsTyped
  <1> QED
      BY <1>1, <1>2, <1>3, <1>4, OtherPlaced DEF Control, Typed

LEMMA FindControl ==
    ASSUME Control, NEW u \in Users,
           (\E t \in Texts, admit \in BOOLEAN : Lookup(u, t, admit)) \/ ReturnNothing(u) \/ LockRegistry(u) \/ PublishName(u)
    PROVE  Control'
  <1>1. lookup[u] \in Lookups /\ NoLookup \in Lookups
      BY DEF Control, Typed, NamesTyped, NoLookup, Lookups
  <1>2. lookup[u].at \notin {"None", "Match"} \/ (Free(u) /\ lease[u] = NoLease)
      BY DEF Lookup, ReturnNothing, LockRegistry, PublishName, At
  <1>3. lookup' \in [Users -> Lookups] /\ \A v \in Users \ {u} : lookup'[v] = lookup[v]
    <2>1. ASSUME NEW t \in Texts, NEW admit \in BOOLEAN, Lookup(u, t, admit)
          PROVE  lookup' \in [Users -> Lookups] /\ \A v \in Users \ {u} : lookup'[v] = lookup[v]
      <3>1. [NoLookup EXCEPT !.at = "Read", !.text = t, !.admit = admit, !.present = Present(t)] \in Lookups
          BY DEF NoLookup, Lookups, Present
      <3> QED
          BY <2>1, <3>1 DEF Lookup, Control, Typed, NamesTyped
    <2>2. CASE ReturnNothing(u)
        BY <1>1, <2>2 DEF ReturnNothing, Control, Typed, NamesTyped
    <2>3. CASE LockRegistry(u)
      <3>1. lookup' = [lookup EXCEPT ![u] = [lookup[u] EXCEPT !.at = "Read", !.step = 0]]
          BY <2>3 DEF LockRegistry, Control, Typed, NamesTyped
      <3>2. [lookup[u] EXCEPT !.at = "Read", !.step = 0] \in Lookups
          BY <1>1, LookupFields
      <3> QED
          BY <3>1, <3>2 DEF Control, Typed, NamesTyped
    <2>4. CASE PublishName(u)
        BY <2>4, MoveTyped DEF PublishName, Move, Control, Typed, NamesTyped
    <2> QED
        BY <2>1, <2>2, <2>3, <2>4
  <1>4. NamesTyped' /\ UNCHANGED cacheVars
      BY <1>3 DEF Lookup, ReturnNothing, LockRegistry, PublishName, Control, Typed, NamesTyped,
         registryVars
  <1> QED
      BY <1>2, <1>3, <1>4, LookupControl

LEMMA AdmitControl ==
    ASSUME Control, NEW u \in Users, Admit(u) PROVE Control'
  <1> DEFINE t == lookup[u].text
  <1>1. lookup[u] \in Lookups /\ names \in Nat /\ names + 1 \in Nat /\ lookup[u].at = "Admit"
      BY NamesFacts DEF Control, Typed, NamesTyped, Admit, At
  <1>2. CASE Move(u, "Unlock") /\ UNCHANGED <<entries, names, dynamicUsed>>
    <2>1. NamesTyped' /\ \A v \in Users \ {u} : lookup'[v] = lookup[v]
        BY <1>2, MoveTyped DEF Admit, Move, Control, Typed, NamesTyped
    <2> QED
        BY <1>1, <2>1, LookupControl DEF Admit
  <1>3. CASE /\ names < MaxNames /\ entries' = [entries EXCEPT ![names] = t] /\ names' = names + 1
             /\ lookup' = [lookup EXCEPT ![u].at = "Publish", ![u].index = names + 1]
    <2>1. lookup' = [lookup EXCEPT ![u] = [lookup[u] EXCEPT !.at = "Publish", !.index = names + 1]]
        BY <1>3 DEF Control, Typed, NamesTyped
    <2>2. [lookup[u] EXCEPT !.at = "Publish", !.index = names + 1] \in Lookups
        BY <1>1, LookupFields
    <2>3. lookup' \in [Users -> Lookups] /\ \A v \in Users \ {u} : lookup'[v] = lookup[v]
        BY <2>1, <2>2 DEF Control, Typed, NamesTyped
    <2>4. t \in Texts \cup {Garbage}
        BY <1>1 DEF Lookups
    <2>5. entries' \in [CookedNames..(MaxNames - 1) -> Texts \cup {Garbage}] /\ issued' = issued
        BY <1>3, <2>4 DEF Admit, Control, Typed, NamesTyped
    <2>6. names' \in CookedNames..MaxNames
        BY <1>1, <1>3, NamesFacts DEF Control, Typed, NamesTyped
    <2>7. NamesTyped'
        BY <2>3, <2>5, <2>6 DEF Control, Typed, NamesTyped
    <2> QED
        BY <1>1, <2>3, <2>7, LookupControl DEF Admit
  <1> QED
      BY <1>2, <1>3 DEF Admit

LEMMA UnlockRegistryControl ==
    ASSUME Control, NEW u \in Users, UnlockRegistry(u) PROVE Control'
  <1>1. lookup[u].at = "Unlock" /\ lookup[u].index \in Nat /\ NoLookup \in Lookups
      BY DEF UnlockRegistry, At, Control, Typed, NamesTyped, NoLookup, Lookups
  <1>2. NamesTyped' /\ \A v \in Users \ {u} : lookup'[v] = lookup[v]
    <2>1. CASE lookup[u].index = 0
        BY <1>1, <2>1 DEF UnlockRegistry, Control, Typed, NamesTyped
    <2>2. CASE lookup[u].index # 0
      <3>1. lookup[u].index - 1 \in Nat
          BY <1>1, <2>2
      <3>2. Answer(u, lookup[u].index - 1)
          BY <2>2 DEF UnlockRegistry
      <3> QED
          BY <3>1, <3>2, AnswerTyped DEF UnlockRegistry, Answer, Control, Typed, NamesTyped
    <2> QED
        BY <2>1, <2>2
  <1> QED
      BY <1>1, <1>2, LookupControl DEF UnlockRegistry

LEMMA RetireControl ==
    ASSUME Control, Retire PROVE Control'
  <1>1. base' \in Nat \ {0} /\ base + MaxNames = base'
      BY NamesFacts DEF Retire, Control, Typed, SlotsTyped
  <1>2. SlotsTyped'
      BY <1>1 DEF Retire, Control, Typed, SlotsTyped
  <1>3. NamesTyped'
    <2>0. \A o \in Ordinals : Cooked[o] \in Texts /\ o \in Nat
        BY CacheAssumption
    <2>1. \A o \in Ordinals : base' + o \in Nat /\ Cooked[o] \in Texts
        BY <2>0, <1>1
    <2>2. issued' = issued \cup {<<base' + o, Cooked[o]>> : o \in Ordinals}
        BY <1>1 DEF Retire
    <2>3. issued' \subseteq Nat \X (Texts \cup {Garbage})
        BY <2>1, <2>2 DEF Control, Typed, NamesTyped
    <2> QED
        BY NamesFacts, <2>3 DEF Retire, Control, Typed, NamesTyped
  <1>4. CallsTyped'
      BY DEF Retire, Control, Typed, CallsTyped, callVars
  <1>5. ASSUME NEW u \in Users PROVE Placed(u)'
      BY <1>5 DEF Retire, Free, Control, Placed, callVars
  <1> QED
      BY <1>2, <1>3, <1>4, <1>5 DEF Control, Typed

-----------------------------------------------------------------------------
(* The slots: who pins them, and what they hold.                             *)

Owns(u, s)  == lease[u].slot = s \/ (pc[u] \in {"Recheck", "Unpin", "SetHot"} /\ spot[u] = s)
Fills(u, s) == pc[u] \in Filling /\ spot[u] = s
Owners(s)   == {u \in Users : Owns(u, s)}
Filled(s)   == \E u \in Users : Fills(u, s)

\* A reserved slot has one user and no owner; any other counts its owners.
PinsCount(s) ==
    IF Filled(s) THEN pins[s] = PinLimit /\ Owners(s) = {} ELSE pins[s] = Cardinality(Owners(s))

Resident(s) ==
    atomId[s] # 0 => atomId[s] - base \in Ordinals /\ text[s] = Cooked[atomId[s] - base]

FillHolds(u) ==
    /\ pc[u] \in {"Decode", "Publish"} => atomId[spot[u]] = 0
    /\ pc[u] = "Publish" => text[spot[u]] = Cooked[want[u] - base]
    /\ pc[u] \in {"Open", "SetHot"} => atomId[spot[u]] = want[u]

LeaseHolds(u) ==
    lease[u] # NoLease =>
        /\ lease[u].id >= base /\ lease[u].id < base + names
        /\ lease[u].slot \in Slots \cup {Direct}
        /\ lease[u].slot \in Slots =>
               /\ lease[u].id - base \in Ordinals
               /\ atomId[lease[u].slot] = lease[u].id
               /\ generation[lease[u].slot] = lease[u].generation

\* A cooked name is compared through a lease on its own atom.
LookupHolds(u) ==
    /\ lookup[u].at = "Match" =>
          /\ lookup[u].index - 1 \in Ordinals /\ pc[u] # "Resolve"
          /\ pc[u] \in Working => want[u] = base + (lookup[u].index - 1)
          /\ lease[u] # NoLease => /\ lease[u].id = base + (lookup[u].index - 1)
                                   /\ lease[u].slot \in Slots
    /\ lookup[u].at \in {"Unlock", "Publish"} /\ lookup[u].index # 0 =>
          lookup[u].index - 1 < names /\ NameAt(lookup[u].index - 1) = lookup[u].text
    /\ lookup[u].at \in {"Read", "Lock", "Admit", "Missing"} => lookup[u].index = 0

Held(u) == FillHolds(u) /\ LeaseHolds(u) /\ LookupHolds(u)

\* The atoms of this scope name what the registry says.
IssuedHolds ==
    \A a \in issued : a[1] < base + names /\ (a[1] >= base => a[2] = NameAt(a[1] - base))

DirectUsers  == {u \in Users : lease[u].slot = Direct}
DirectCounts == directLeases = Cardinality(DirectUsers)

SlotsHold == \A s \in Slots : PinsCount(s) /\ Resident(s)
UsersHold == \A u \in Users : Held(u)

SafeInv == Control /\ SlotsHold /\ UsersHold /\ IssuedHolds /\ DirectCounts

LEMMA OneFiller ==
    ASSUME Control, NEW u \in Users, NEW v \in Users, NEW s \in Slots,
           Fills(u, s), Fills(v, s) \/ (pc[v] \in Holding)
    PROVE  u = v
  BY DEF Control, Placed, Fills

LEMMA OwnedNotFilled ==
    ASSUME SlotsHold, NEW u \in Users, NEW s \in Slots, Owns(u, s)
    PROVE  ~ Filled(s)
  BY DEF SlotsHold, PinsCount, Owners

LEMMA OwnersFinite == ASSUME NEW s PROVE IsFiniteSet(Owners(s)) /\ Cardinality(Owners(s)) \in Nat
  <1>1. IsFiniteSet(Users) /\ Owners(s) \subseteq Users
      BY CacheAssumption DEF Owners
  <1> QED
      BY <1>1, FS_Subset, FS_CardinalityType

\* A slot whose owners and filler stay keeps its count.
LEMMA PinsKept ==
    ASSUME SlotsHold, NEW u \in Users, Others(u), NEW s \in Slots, pins'[s] = pins[s],
           Owns(u, s)' <=> Owns(u, s), Fills(u, s)' <=> Fills(u, s)
    PROVE  PinsCount(s)'
  <1>1. Owners(s)' = Owners(s) /\ (Filled(s)' <=> Filled(s))
      BY DEF Owners, Owns, Filled, Fills, Others
  <1> QED
      BY <1>1 DEF SlotsHold, PinsCount

LEMMA PinsTaken ==
    ASSUME SlotsHold, NEW u \in Users, Others(u), NEW s \in Slots, pins'[s] = pins[s] + 1,
           ~ Owns(u, s), Owns(u, s)', ~ Filled(s), ~ Fills(u, s)'
    PROVE  PinsCount(s)'
  <1>1. Owners(s)' = Owners(s) \cup {u} /\ u \notin Owners(s)
      BY DEF Owners, Owns, Others
  <1>2. ~ Filled(s)'
      BY DEF Filled, Fills, Others
  <1>3. Cardinality(Owners(s) \cup {u}) = Cardinality(Owners(s)) + 1
      BY <1>1, OwnersFinite, FS_AddElement
  <1> QED
      BY <1>1, <1>2, <1>3 DEF SlotsHold, PinsCount

LEMMA PinsGiven ==
    ASSUME SlotsHold, NEW u \in Users, Others(u), NEW s \in Slots, pins'[s] = pins[s] - 1,
           Owns(u, s), ~ Owns(u, s)', ~ Fills(u, s)'
    PROVE  PinsCount(s)'
  <1>1. Owners(s)' = Owners(s) \ {u} /\ u \in Owners(s)
      BY DEF Owners, Owns, Others
  <1>2. ~ Filled(s)' /\ ~ Filled(s)
      BY OwnedNotFilled DEF Filled, Fills, Others
  <1>3. Cardinality(Owners(s) \ {u}) = Cardinality(Owners(s)) - 1
      BY <1>1, OwnersFinite, FS_RemoveElement
  <1> QED
      BY <1>1, <1>2, <1>3 DEF SlotsHold, PinsCount

\* Only a slot without owners is reserved, for no pin counts nobody.
LEMMA PinsReserved ==
    ASSUME Control, SlotsHold, NEW u \in Users, Others(u), NEW s \in Slots, pins[s] = 0,
           pc[u] \in Holding \ Filling, pins'[s] = PinLimit, ~ Owns(u, s)', Fills(u, s)'
    PROVE  PinsCount(s)'
  <1>1. ~ Filled(s)
      BY OneFiller DEF Filled, Fills
  <1>2. Cardinality(Owners(s)) = 0
      BY <1>1 DEF SlotsHold, PinsCount
  <1>3. Owners(s) = {}
      BY <1>2, OwnersFinite, FS_EmptySet
  <1>4. Owners(s)' = {}
      BY <1>3 DEF Owners, Owns, Others
  <1> QED
      BY <1>4 DEF PinsCount, Filled

\* A reservation ends with no pin, or with its holder's.
LEMMA PinsReturned ==
    ASSUME Control, SlotsHold, NEW u \in Users, Others(u), NEW s \in Slots, Fills(u, s),
           ~ Fills(u, s)', pins'[s] = IF Owns(u, s)' THEN 1 ELSE 0
    PROVE  PinsCount(s)'
  <1>1. Owners(s) = {}
      BY DEF SlotsHold, PinsCount, Filled
  <1>2. Owners(s)' = IF Owns(u, s)' THEN {u} ELSE {}
      BY <1>1 DEF Owners, Owns, Others
  <1>3. ~ Filled(s)'
    <2>1. ASSUME NEW v \in Users, Fills(v, s)' PROVE FALSE
      <3>1. v # u
          BY <2>1
      <3>2. Fills(v, s)
          BY <2>1, <3>1 DEF Fills, Others
      <3> QED
          BY <3>1, <3>2, OneFiller
    <2> QED
        BY <2>1 DEF Filled
  <1>4. Cardinality({u}) = 1 /\ Cardinality({}) = 0
      BY FS_Singleton, FS_EmptySet
  <1> QED
      BY <1>2, <1>3, <1>4 DEF PinsCount

SlotKept(s) == atomId'[s] = atomId[s] /\ text'[s] = text[s] /\ generation'[s] = generation[s]
NamesKept   == /\ base' = base /\ names' \in Nat /\ names' >= names
               /\ \A i \in Nat : i < names => NameAt(i)' = NameAt(i)

LEMMA OthersHeld ==
    ASSUME SafeInv, NEW u \in Users, Others(u), NamesKept,
           \A s \in Slots : SlotKept(s) \/ Fills(u, s), NEW v \in Users \ {u}
    PROVE  Held(v)'
  <1>0. names \in Nat /\ base \in Nat /\ lease[v] \in Leases /\ lookup[v] \in Lookups
      BY NamesFacts DEF SafeInv, Control, Typed, NamesTyped, SlotsTyped, CallsTyped
  <1>1. FillHolds(v)'
    <2>1. CASE pc[v] \in {"Decode", "Publish", "Open", "SetHot"}
      <3>1. spot[v] \in Slots /\ pc[v] \in Holding
          BY <2>1 DEF SafeInv, Control, Placed
      <3>2. SlotKept(spot[v])
          BY <3>1, OneFiller DEF SafeInv
      <3> QED
          BY <3>1, <3>2 DEF FillHolds, Others, NamesKept, SlotKept, SafeInv, UsersHold, Held
    <2>2. CASE pc[v] \notin {"Decode", "Publish", "Open", "SetHot"}
        BY <2>2 DEF FillHolds, Others
    <2> QED
        BY <2>1, <2>2
  <1>2. LeaseHolds(v)'
    <2>1. ASSUME lease[v].slot \in Slots PROVE SlotKept(lease[v].slot)
        BY <2>1, OwnedNotFilled DEF SafeInv, Owns, Filled
    <2>2. lease'[v] = lease[v] /\ base' = base /\ names' \in Nat /\ names' >= names
        BY DEF Others, NamesKept
    <2>3. LeaseHolds(v)
        BY DEF SafeInv, UsersHold, Held
    <2>4. CASE lease[v] = NoLease
        BY <2>2, <2>4 DEF LeaseHolds
    <2>5. CASE lease[v] # NoLease
      <3>1. lease[v].id \in Nat /\ lease[v].id < base + names /\ lease[v].id >= base
          BY <1>0, <2>3, <2>5 DEF LeaseHolds, Leases
      <3>2. lease[v].id < base + names'
          BY <1>0, <2>2, <3>1
      <3> QED
          BY <2>1, <2>2, <2>3, <2>5, <3>1, <3>2 DEF LeaseHolds, SlotKept
    <2> QED
        BY <2>4, <2>5
  <1>3. LookupHolds(v)'
    <2>1. /\ lookup'[v] = lookup[v] /\ pc'[v] = pc[v] /\ want'[v] = want[v] /\ lease'[v] = lease[v]
          /\ base' = base /\ names' \in Nat /\ names' >= names /\ LookupHolds(v)
        BY DEF Others, NamesKept, SafeInv, UsersHold, Held
    <2>2. ASSUME lookup[v].at \in {"Unlock", "Publish"}, lookup[v].index # 0
          PROVE  lookup[v].index - 1 < names' /\ NameAt(lookup[v].index - 1)' = lookup[v].text
      <3>1. lookup[v].index - 1 \in Nat /\ lookup[v].index - 1 < names
          BY <1>0, <2>1, <2>2 DEF LookupHolds, Lookups
      <3> QED
          BY <1>0, <2>1, <2>2, <3>1 DEF LookupHolds, NamesKept
    <2> QED
        BY <2>1, <2>2 DEF LookupHolds
  <1> QED
      BY <1>1, <1>2, <1>3 DEF Held

LEMMA IssuedKept ==
    ASSUME SafeInv, NamesKept PROVE \A a \in issued : a[1] < base' + names' /\ (a[1] >= base' => a[2] = NameAt(a[1] - base)')
  <1>0. names \in Nat /\ base \in Nat /\ issued \subseteq Nat \X (Texts \cup {Garbage})
      BY NamesFacts DEF SafeInv, Control, Typed, NamesTyped, SlotsTyped
  <1> SUFFICES ASSUME NEW a \in issued
               PROVE  a[1] < base' + names' /\ (a[1] >= base' => a[2] = NameAt(a[1] - base)')
      OBVIOUS
  <1>1. a[1] \in Nat /\ a[1] < base + names /\ (a[1] >= base => a[2] = NameAt(a[1] - base))
      BY <1>0 DEF SafeInv, IssuedHolds
  <1>2. a[1] < base' + names' /\ base' = base
      BY <1>0, <1>1 DEF NamesKept
  <1>3. ASSUME a[1] >= base PROVE a[2] = NameAt(a[1] - base)'
    <2>1. a[1] - base \in Nat /\ a[1] - base < names
        BY <1>0, <1>1, <1>3
    <2> QED
        BY <1>1, <1>2, <1>3, <2>1 DEF NamesKept
  <1> QED
      BY <1>2, <1>3

LEMMA NamesStand ==
    ASSUME Control, UNCHANGED <<base, names, entries>> PROVE NamesKept
  BY NamesFacts DEF NamesKept, NameAt, Control, Typed, NamesTyped

LEMMA DirectKept ==
    ASSUME DirectCounts, NEW u \in Users, Others(u), directLeases' = directLeases,
           lease'[u].slot = Direct <=> lease[u].slot = Direct
    PROVE  DirectCounts'
  <1>1. DirectUsers' = DirectUsers
      BY DEF DirectUsers, Others
  <1> QED
      BY <1>1 DEF DirectCounts

\* A step that leaves atoms, texts and names alone has only pins and its own
\* user to answer for.
LEMMA Quiet ==
    ASSUME SafeInv, NEW u \in Users, Others(u), Control',
           UNCHANGED <<base, atomId, text, generation, names, entries, issued>>,
           \A s \in Slots : PinsCount(s)', Held(u)', DirectCounts'
    PROVE  SafeInv'
  <1>1. NamesKept
      BY NamesStand DEF SafeInv
  <1>2. \A s \in Slots : SlotKept(s) /\ Resident(s)'
      BY DEF SlotKept, Resident, SafeInv, SlotsHold
  <1>3. UsersHold'
      BY <1>1, <1>2, OthersHeld DEF UsersHold
  <1>4. IssuedHolds'
      BY <1>1, IssuedKept DEF IssuedHolds
  <1> QED
      BY <1>2, <1>3, <1>4 DEF SafeInv, SlotsHold

LEMMA OwnFacts ==
    ASSUME SafeInv, NEW u \in Users
    PROVE  /\ pc \in [Users -> Labels] /\ lease \in [Users -> Leases] /\ spot \in [Users -> Slots \cup {NoSlot}]
           /\ search \in [Users -> Searches] /\ want \in [Users -> Nat] /\ pins \in [Slots -> Int] /\ base \in Nat \ {0} /\ names \in Nat
           /\ FillHolds(u) /\ LeaseHolds(u) /\ LookupHolds(u) /\ Placed(u)
           /\ CookedNames <= names /\ lookup[u] \in Lookups
  BY NamesFacts DEF SafeInv, Control, Typed, SlotsTyped, CallsTyped, NamesTyped, UsersHold, Held

LEMMA LoadHotSafe ==
    ASSUME SafeInv, NEW u \in Users, LoadHot(u), UNCHANGED poolVars PROVE SafeInv'
  <1>0. Control' /\ lookup' = lookup
      BY LoadHotControl DEF SafeInv, poolVars
  <1>a. Others(u)
      BY OwnFacts DEF Others, LoadHot, Miss, poolVars
  <1>1. Others(u) /\ UNCHANGED <<base, atomId, text, generation, names, entries, issued, directLeases>>
      BY <1>a DEF LoadHot, Miss, slotVars, poolVars, registryVars
  <1>2. ASSUME NEW s \in Slots PROVE PinsCount(s)'
    <2>1. pins' = pins /\ (Owns(u, s)' <=> Owns(u, s)) /\ (Fills(u, s)' <=> Fills(u, s))
        BY OwnFacts, SlotFacts DEF LoadHot, Miss, Owns, Fills, slotVars
    <2> QED
        BY <1>1, <2>1, PinsKept DEF SafeInv
  <1>3. Held(u)'
    <2>1. FillHolds(u)'
        BY <1>0, <1>1, OwnFacts DEF FillHolds, Placed, LoadHot, Miss
    <2>2. LeaseHolds(u)'
        BY <1>0, <1>1, OwnFacts DEF LeaseHolds, Placed, LoadHot, Miss
    <2>3. LookupHolds(u)'
        BY <1>0, <1>1, OwnFacts DEF LookupHolds, NameAt, Placed, LoadHot, Miss
    <2> QED
        BY <2>1, <2>2, <2>3 DEF Held
  <1>4. DirectCounts'
      BY <1>1, OwnFacts, SlotFacts, DirectKept DEF LoadHot, Miss, SafeInv, NoLease, Placed
  <1> QED
      BY <1>0, <1>1, <1>2, <1>3, <1>4, Quiet

LEMMA CheckAtomSafe ==
    ASSUME SafeInv, NEW u \in Users, CheckAtom(u), UNCHANGED poolVars PROVE SafeInv'
  <1>0. Control' /\ lookup' = lookup
      BY CheckAtomControl DEF SafeInv, poolVars
  <1>a. Others(u)
      BY OwnFacts DEF Others, CheckAtom, Miss, poolVars
  <1>1. Others(u) /\ UNCHANGED <<base, atomId, text, generation, names, entries, issued, directLeases>>
      BY <1>a DEF CheckAtom, Miss, slotVars, poolVars, registryVars
  <1>2. ASSUME NEW s \in Slots PROVE PinsCount(s)'
    <2>1. pins' = pins /\ (Owns(u, s)' <=> Owns(u, s)) /\ (Fills(u, s)' <=> Fills(u, s))
        BY OwnFacts, SlotFacts DEF CheckAtom, Miss, Owns, Fills, slotVars
    <2> QED
        BY <1>1, <2>1, PinsKept DEF SafeInv
  <1>3. Held(u)'
    <2>1. FillHolds(u)'
        BY <1>0, <1>1, OwnFacts DEF FillHolds, Placed, CheckAtom, Miss
    <2>2. LeaseHolds(u)'
        BY <1>0, <1>1, OwnFacts DEF LeaseHolds, Placed, CheckAtom, Miss
    <2>3. LookupHolds(u)'
        BY <1>0, <1>1, OwnFacts DEF LookupHolds, NameAt, Placed, CheckAtom, Miss
    <2> QED
        BY <2>1, <2>2, <2>3 DEF Held
  <1>4. DirectCounts'
      BY <1>1, OwnFacts, SlotFacts, DirectKept DEF CheckAtom, Miss, SafeInv, NoLease, Placed
  <1> QED
      BY <1>0, <1>1, <1>2, <1>3, <1>4, Quiet

LEMMA LockCacheSafe ==
    ASSUME SafeInv, NEW u \in Users, LockCache(u), UNCHANGED poolVars PROVE SafeInv'
  <1>0. Control' /\ lookup' = lookup
      BY LockCacheControl DEF SafeInv, poolVars
  <1>a. Others(u)
      BY OwnFacts DEF Others, LockCache, poolVars
  <1>1. Others(u) /\ UNCHANGED <<base, atomId, text, generation, names, entries, issued, directLeases>>
      BY <1>a DEF LockCache, slotVars, poolVars, registryVars
  <1>2. ASSUME NEW s \in Slots PROVE PinsCount(s)'
    <2>1. pins' = pins /\ (Owns(u, s)' <=> Owns(u, s)) /\ (Fills(u, s)' <=> Fills(u, s))
        BY OwnFacts, SlotFacts DEF LockCache, Owns, Fills, slotVars
    <2> QED
        BY <1>1, <2>1, PinsKept DEF SafeInv
  <1>3. Held(u)'
    <2>1. FillHolds(u)'
        BY <1>0, <1>1, OwnFacts DEF FillHolds, Placed, LockCache
    <2>2. LeaseHolds(u)'
        BY <1>0, <1>1, OwnFacts DEF LeaseHolds, Placed, LockCache
    <2>3. LookupHolds(u)'
        BY <1>0, <1>1, OwnFacts DEF LookupHolds, NameAt, Placed, LockCache
    <2> QED
        BY <2>1, <2>2, <2>3 DEF Held
  <1>4. DirectCounts'
      BY <1>1, OwnFacts, SlotFacts, DirectKept DEF LockCache, SafeInv, NoLease, Placed
  <1> QED
      BY <1>0, <1>1, <1>2, <1>3, <1>4, Quiet

LEMMA ClearHotSafe ==
    ASSUME SafeInv, NEW u \in Users, ClearHot(u), UNCHANGED poolVars PROVE SafeInv'
  <1>0. Control' /\ lookup' = lookup
      BY ClearHotControl DEF SafeInv, poolVars
  <1>a. Others(u)
      BY OwnFacts DEF Others, ClearHot, poolVars
  <1>1. Others(u) /\ UNCHANGED <<base, atomId, text, generation, names, entries, issued, directLeases>>
      BY <1>a DEF ClearHot, slotVars, poolVars, registryVars
  <1>2. ASSUME NEW s \in Slots PROVE PinsCount(s)'
    <2>1. pins' = pins /\ (Owns(u, s)' <=> Owns(u, s)) /\ (Fills(u, s)' <=> Fills(u, s))
        BY OwnFacts, SlotFacts DEF ClearHot, Owns, Fills, slotVars
    <2> QED
        BY <1>1, <2>1, PinsKept DEF SafeInv
  <1>3. Held(u)'
    <2>1. FillHolds(u)'
        BY <1>0, <1>1, OwnFacts DEF FillHolds, Placed, ClearHot
    <2>2. LeaseHolds(u)'
        BY <1>0, <1>1, OwnFacts DEF LeaseHolds, Placed, ClearHot
    <2>3. LookupHolds(u)'
        BY <1>0, <1>1, OwnFacts DEF LookupHolds, NameAt, Placed, ClearHot
    <2> QED
        BY <2>1, <2>2, <2>3 DEF Held
  <1>4. DirectCounts'
      BY <1>1, OwnFacts, SlotFacts, DirectKept DEF ClearHot, SafeInv, NoLease, Placed
  <1> QED
      BY <1>0, <1>1, <1>2, <1>3, <1>4, Quiet

LEMMA UnlockCacheSafe ==
    ASSUME SafeInv, NEW u \in Users, UnlockCache(u), UNCHANGED poolVars PROVE SafeInv'
  <1>0. Control' /\ lookup' = lookup
      BY UnlockCacheControl DEF SafeInv, poolVars
  <1>a. Others(u)
      BY OwnFacts DEF Others, UnlockCache, Leave, poolVars
  <1>1. Others(u) /\ UNCHANGED <<base, atomId, text, generation, names, entries, issued, directLeases>>
      BY <1>a DEF UnlockCache, Leave, slotVars, poolVars, registryVars
  <1>2. ASSUME NEW s \in Slots PROVE PinsCount(s)'
    <2>1. pins' = pins /\ (Owns(u, s)' <=> Owns(u, s)) /\ (Fills(u, s)' <=> Fills(u, s))
        BY OwnFacts, SlotFacts DEF UnlockCache, Leave, Owns, Fills, slotVars
    <2> QED
        BY <1>1, <2>1, PinsKept DEF SafeInv
  <1>3. Held(u)'
    <2>1. FillHolds(u)'
        BY <1>0, <1>1, OwnFacts DEF FillHolds, Placed, UnlockCache, Leave
    <2>2. LeaseHolds(u)'
        BY <1>0, <1>1, OwnFacts DEF LeaseHolds, Placed, UnlockCache, Leave
    <2>3. LookupHolds(u)'
        BY <1>0, <1>1, OwnFacts DEF LookupHolds, NameAt, Placed, UnlockCache, Leave
    <2> QED
        BY <2>1, <2>2, <2>3 DEF Held
  <1>4. DirectCounts'
      BY <1>1, OwnFacts, SlotFacts, DirectKept DEF UnlockCache, Leave, SafeInv, NoLease, Placed
  <1> QED
      BY <1>0, <1>1, <1>2, <1>3, <1>4, Quiet

LEMMA PinSafe ==
    ASSUME SafeInv, NEW u \in Users, Pin(u), UNCHANGED poolVars PROVE SafeInv'
  <1>0. Control' /\ lookup' = lookup
      BY PinControl DEF SafeInv, poolVars
  <1>a. Others(u)
      BY OwnFacts DEF Others, Pin, Miss, poolVars
  <1>1. Others(u) /\ UNCHANGED <<base, atomId, text, generation, names, entries, issued, directLeases>>
      BY <1>a DEF Pin, Miss, slotVars, poolVars, registryVars
  <1>2. ASSUME NEW s \in Slots PROVE PinsCount(s)'
    <2>0. pc[u] = "Pin" /\ lease[u] = NoLease /\ spot[u] \in Slots /\ PinsCount(s)
        BY OwnFacts DEF Pin, Placed, SafeInv, SlotsHold
    <2>1. CASE pins[spot[u]] < PinLimit - 1 /\ spot[u] = s
      <3>1. /\ pins'[s] = pins[s] + 1 /\ ~ Owns(u, s) /\ Owns(u, s)' /\ ~ Fills(u, s)'
          BY <2>0, <2>1, OwnFacts, SlotFacts, CacheAssumption DEF Pin, Owns, Fills, NoLease
      <3>2. ~ Filled(s)
          BY <2>0, <2>1, CacheAssumption DEF PinsCount
      <3> QED
          BY <1>1, <3>1, <3>2, PinsTaken DEF SafeInv
    <2>2. CASE ~ (pins[spot[u]] < PinLimit - 1 /\ spot[u] = s)
      <3>1. pins'[s] = pins[s] /\ (Owns(u, s)' <=> Owns(u, s)) /\ (Fills(u, s)' <=> Fills(u, s))
          BY <2>0, <2>2, OwnFacts, SlotFacts, CacheAssumption DEF Pin, Miss, Owns, Fills, NoLease
      <3> QED
          BY <1>1, <3>1, PinsKept DEF SafeInv
    <2> QED
        BY <2>1, <2>2
  <1>3. Held(u)'
    <2>1. FillHolds(u)'
        BY <1>0, <1>1, OwnFacts DEF FillHolds, Placed, Pin, Miss
    <2>2. LeaseHolds(u)'
        BY <1>0, <1>1, OwnFacts DEF LeaseHolds, Placed, Pin, Miss
    <2>3. LookupHolds(u)'
        BY <1>0, <1>1, OwnFacts DEF LookupHolds, NameAt, Placed, Pin, Miss
    <2> QED
        BY <2>1, <2>2, <2>3 DEF Held
  <1>4. DirectCounts'
      BY <1>1, OwnFacts, SlotFacts, DirectKept DEF Pin, Miss, SafeInv, NoLease, Placed
  <1> QED
      BY <1>0, <1>1, <1>2, <1>3, <1>4, Quiet

LEMMA UnpinSafe ==
    ASSUME SafeInv, NEW u \in Users, Unpin(u), UNCHANGED poolVars PROVE SafeInv'
  <1>0. Control' /\ lookup' = lookup
      BY UnpinControl DEF SafeInv, poolVars
  <1>a. Others(u)
      BY OwnFacts DEF Others, Unpin, Miss, poolVars
  <1>1. Others(u) /\ UNCHANGED <<base, atomId, text, generation, names, entries, issued, directLeases>>
      BY <1>a DEF Unpin, Miss, slotVars, poolVars, registryVars
  <1>2. ASSUME NEW s \in Slots PROVE PinsCount(s)'
    <2>0. pc[u] = "Unpin" /\ lease[u] = NoLease /\ spot[u] \in Slots
        BY OwnFacts DEF Unpin, Placed
    <2>1. CASE spot[u] = s
      <3>1. /\ pins'[s] = pins[s] - 1 /\ Owns(u, s) /\ ~ Owns(u, s)' /\ ~ Fills(u, s)'
          BY <2>0, <2>1, OwnFacts, SlotFacts DEF Unpin, Miss, Owns, Fills, NoLease
      <3> QED
          BY <1>1, <3>1, PinsGiven DEF SafeInv
    <2>2. CASE spot[u] # s
      <3>1. pins'[s] = pins[s] /\ (Owns(u, s)' <=> Owns(u, s)) /\ (Fills(u, s)' <=> Fills(u, s))
          BY <2>0, <2>2, OwnFacts, SlotFacts DEF Unpin, Miss, Owns, Fills, NoLease
      <3> QED
          BY <1>1, <3>1, PinsKept DEF SafeInv
    <2> QED
        BY <2>1, <2>2
  <1>3. Held(u)'
    <2>1. FillHolds(u)'
        BY <1>0, <1>1, OwnFacts DEF FillHolds, Placed, Unpin, Miss
    <2>2. LeaseHolds(u)'
        BY <1>0, <1>1, OwnFacts DEF LeaseHolds, Placed, Unpin, Miss
    <2>3. LookupHolds(u)'
        BY <1>0, <1>1, OwnFacts DEF LookupHolds, NameAt, Placed, Unpin, Miss
    <2> QED
        BY <2>1, <2>2, <2>3 DEF Held
  <1>4. DirectCounts'
      BY <1>1, OwnFacts, SlotFacts, DirectKept DEF Unpin, Miss, SafeInv, NoLease, Placed
  <1> QED
      BY <1>0, <1>1, <1>2, <1>3, <1>4, Quiet

LEMMA RecheckSafe ==
    ASSUME SafeInv, NEW u \in Users, Recheck(u), UNCHANGED poolVars PROVE SafeInv'
  <1>0. Control' /\ lookup' = lookup
      BY RecheckControl DEF SafeInv, poolVars
  <1>a. Others(u)
      BY OwnFacts DEF Others, Recheck, Bind, Leave, poolVars
  <1>1. Others(u) /\ UNCHANGED <<base, atomId, text, generation, names, entries, issued, directLeases>>
      BY <1>a DEF Recheck, Bind, Leave, slotVars, poolVars, registryVars
  <1>2. ASSUME NEW s \in Slots PROVE PinsCount(s)'
    <2>0. pc[u] = "Recheck" /\ lease[u] = NoLease /\ spot[u] \in Slots
        BY OwnFacts DEF Recheck, Placed
    <2>1. pins' = pins /\ (Owns(u, s)' <=> Owns(u, s)) /\ (Fills(u, s)' <=> Fills(u, s))
        BY <2>0, OwnFacts, SlotFacts DEF Recheck, Bind, Leave, Owns, Fills, slotVars, NoLease
    <2> QED
        BY <1>1, <2>1, PinsKept DEF SafeInv
  <1>3. Held(u)'
    <2>0. /\ pc[u] = "Recheck" /\ lease[u] = NoLease /\ spot[u] \in Slots /\ want[u] - base \in Ordinals
          /\ want[u] \in Nat /\ lookup[u].at \in {"None", "Match"}
        BY OwnFacts DEF Recheck, Placed
    <2>a. want[u] >= base /\ want[u] < base + names
        BY <2>0, NamesFacts, OwnFacts
    <2>1. FillHolds(u)'
        BY <1>0, <1>1, <2>0, OwnFacts DEF FillHolds, Recheck, Bind, Leave
    <2>2. LeaseHolds(u)'
        BY <1>0, <1>1, <2>0, <2>a, OwnFacts, SlotFacts DEF LeaseHolds, FillHolds, Recheck, Bind,
           Leave
    <2>3. LookupHolds(u)'
        BY <1>0, <1>1, <2>0, <2>a, OwnFacts DEF LookupHolds, Recheck, Bind, Leave
    <2> QED
        BY <2>1, <2>2, <2>3 DEF Held
  <1>4. DirectCounts'
      BY <1>1, OwnFacts, SlotFacts, DirectKept DEF Recheck, Bind, Leave, SafeInv, NoLease, Placed
  <1> QED
      BY <1>0, <1>1, <1>2, <1>3, <1>4, Quiet

LEMMA SetHotSafe ==
    ASSUME SafeInv, NEW u \in Users, SetHot(u), UNCHANGED poolVars PROVE SafeInv'
  <1>0. Control' /\ lookup' = lookup
      BY SetHotControl DEF SafeInv, poolVars
  <1>a. Others(u)
      BY OwnFacts DEF Others, SetHot, Bind, Leave, poolVars
  <1>1. Others(u) /\ UNCHANGED <<base, atomId, text, generation, names, entries, issued, directLeases>>
      BY <1>a DEF SetHot, Bind, Leave, slotVars, poolVars, registryVars
  <1>2. ASSUME NEW s \in Slots PROVE PinsCount(s)'
    <2>0. pc[u] = "SetHot" /\ lease[u] = NoLease /\ spot[u] \in Slots
        BY OwnFacts DEF SetHot, Placed
    <2>1. pins' = pins /\ (Owns(u, s)' <=> Owns(u, s)) /\ (Fills(u, s)' <=> Fills(u, s))
        BY <2>0, OwnFacts, SlotFacts DEF SetHot, Bind, Leave, Owns, Fills, slotVars, NoLease
    <2> QED
        BY <1>1, <2>1, PinsKept DEF SafeInv
  <1>3. Held(u)'
    <2>0. /\ pc[u] = "SetHot" /\ lease[u] = NoLease /\ spot[u] \in Slots /\ want[u] - base \in Ordinals
          /\ want[u] \in Nat /\ lookup[u].at \in {"None", "Match"}
        BY OwnFacts DEF SetHot, Placed
    <2>a. want[u] >= base /\ want[u] < base + names
        BY <2>0, NamesFacts, OwnFacts
    <2>1. FillHolds(u)'
        BY <1>0, <1>1, <2>0, OwnFacts DEF FillHolds, SetHot, Bind, Leave
    <2>2. LeaseHolds(u)'
        BY <1>0, <1>1, <2>0, <2>a, OwnFacts, SlotFacts DEF LeaseHolds, FillHolds, SetHot, Bind,
           Leave
    <2>3. LookupHolds(u)'
        BY <1>0, <1>1, <2>0, <2>a, OwnFacts DEF LookupHolds, SetHot, Bind, Leave
    <2> QED
        BY <2>1, <2>2, <2>3 DEF Held
  <1>4. DirectCounts'
      BY <1>1, OwnFacts, SlotFacts, DirectKept DEF SetHot, Bind, Leave, SafeInv, NoLease, Placed
  <1> QED
      BY <1>0, <1>1, <1>2, <1>3, <1>4, Quiet

LEMMA ReserveSafe ==
    ASSUME SafeInv, Control', NEW u \in Users, NEW v \in Slots, pc[u] \in {"Virgin", "Reuse"},
           Reserve(u, v), pins[v] = 0, search' = search, lease' = lease, want' = want, UNCHANGED poolVars,
           UNCHANGED <<base, atomId, text, generation>>
    PROVE  SafeInv'
  <1>0. lookup' = lookup /\ lease[u] = NoLease
      BY OwnFacts DEF poolVars, Placed
  <1>a. Others(u)
      BY OwnFacts DEF Others, Reserve, poolVars
  <1>1. Others(u) /\ UNCHANGED <<base, atomId, text, generation, names, entries, issued, directLeases>>
      BY <1>a DEF poolVars, registryVars
  <1>2. ASSUME NEW s \in Slots PROVE PinsCount(s)'
    <2>1. CASE s = v
      <3>1. pins'[s] = PinLimit /\ ~ Owns(u, s)' /\ Fills(u, s)' /\ pc[u] \in Holding \ Filling
          BY <1>0, <2>1, OwnFacts, SlotFacts DEF Reserve, Owns, Fills, NoLease
      <3> QED
          BY <1>1, <2>1, <3>1, PinsReserved DEF SafeInv
    <2>2. CASE s # v
      <3>1. pins'[s] = pins[s] /\ (Owns(u, s)' <=> Owns(u, s)) /\ (Fills(u, s)' <=> Fills(u, s))
          BY <1>0, <2>2, OwnFacts, SlotFacts DEF Reserve, Owns, Fills, NoLease
      <3> QED
          BY <1>1, <3>1, PinsKept DEF SafeInv
    <2> QED
        BY <2>1, <2>2
  <1>3. Held(u)'
      BY <1>0, <1>1, OwnFacts DEF Held, FillHolds, LeaseHolds, LookupHolds, NameAt, Reserve
  <1>4. DirectCounts'
      BY <1>1, DirectKept DEF SafeInv
  <1> QED
      BY <1>1, <1>2, <1>3, <1>4, Quiet

\* The walk over the tiers moves nothing but itself.
LEMMA WalkSafe ==
    ASSUME SafeInv, Control', NEW u \in Users, pc[u] \in {"Virgin", "Reuse"},
           Others(u), UNCHANGED <<lease, pins, base, atomId, text, generation>>, UNCHANGED poolVars,
           (pc'[u] \in {"Virgin", "Reuse"} /\ want'[u] = want[u]) \/ pc'[u] = "Unlock"
    PROVE  SafeInv'
  <1>0. lookup' = lookup /\ lease[u] = NoLease
      BY OwnFacts DEF poolVars, Placed
  <1>1. UNCHANGED <<base, atomId, text, generation, names, entries, issued, directLeases>>
      BY DEF poolVars, registryVars
  <1>2. ASSUME NEW s \in Slots PROVE PinsCount(s)'
    <2>1. pins'[s] = pins[s] /\ (Owns(u, s)' <=> Owns(u, s)) /\ (Fills(u, s)' <=> Fills(u, s))
        BY <1>0 DEF Owns, Fills
    <2> QED
        BY <1>1, <2>1, PinsKept DEF SafeInv
  <1>3. Held(u)'
      BY <1>0, <1>1, OwnFacts DEF Held, FillHolds, LeaseHolds, LookupHolds, NameAt
  <1>4. DirectCounts'
      BY <1>1, DirectKept DEF SafeInv
  <1> QED
      BY <1>1, <1>2, <1>3, <1>4, Quiet

LEMMA TryVirginSafe ==
    ASSUME SafeInv, NEW u \in Users, TryVirgin(u), UNCHANGED poolVars PROVE SafeInv'
  <1> DEFINE t == search[u].tier
             v == <<t, tierNext[t]>>
             takes == t <= TierCount /\ Fits(t, Ordinal(want[u])) /\ tierNext[t] < TierSlots[t] /\ pins[v] = 0
  <1>a. Control' /\ search[u] \in Searches /\ pc[u] = "Virgin" /\ Placed(u)
      BY TryVirginControl, OwnFacts DEF SafeInv, TryVirgin
  <1>0. Control' /\ t \in Nat \ {0} /\ pc[u] = "Virgin"
      BY <1>a DEF Placed, Searches
  <1>1. CASE takes
    <2>1. t \in Tiers
        BY <1>0, <1>1, CacheAssumption DEF Tiers
    <2>2. v \in Slots
        BY <1>1, <2>1, SlotFacts DEF SafeInv, Control, Typed, SlotsTyped
    <2>3. Reserve(u, v) /\ pins[v] = 0 /\ UNCHANGED <<search, lease, want, base, atomId, text, generation>>
        BY <1>0, <1>1, CacheAssumption DEF TryVirgin
    <2> QED
        BY <1>0, <2>2, <2>3, ReserveSafe
  <1>2. CASE ~ takes
    <2>1. Others(u)
        BY <1>0, <1>2, OwnFacts, CacheAssumption DEF TryVirgin, Others, Leave, poolVars
    <2>2. UNCHANGED <<lease, pins, base, atomId, text, generation>>
        BY <1>0, <1>2, CacheAssumption DEF TryVirgin
    <2>3. (pc'[u] \in {"Virgin", "Reuse"} /\ want'[u] = want[u]) \/ pc'[u] = "Unlock"
        BY <1>0, <1>2, OwnFacts, CacheAssumption DEF TryVirgin, Leave
    <2> QED
        BY <1>0, <2>1, <2>2, <2>3, WalkSafe
  <1> QED
      BY <1>1, <1>2

LEMMA TryReuseSafe ==
    ASSUME SafeInv, NEW u \in Users, TryReuse(u), UNCHANGED poolVars PROVE SafeInv'
  <1> DEFINE t == search[u].tier
             v == <<t, (tierCursor[t] + search[u].probe) % TierSlots[t]>>
  <1>0. Control' /\ v \in Slots /\ pc[u] = "Reuse"
      BY TryReuseControl, ReuseSlot DEF SafeInv, TryReuse
  <1>1. CASE Reserve(u, v) /\ pins[v] = 0 /\ UNCHANGED <<want, search, target>>
    <2>1. UNCHANGED <<search, lease, want, base, atomId, text, generation>>
        BY <1>1 DEF TryReuse
    <2> QED
        BY <1>0, <1>1, <2>1, ReserveSafe
  <1>2. CASE search' = [search EXCEPT ![u].probe = @ + 1] /\ UNCHANGED <<pins, pc, want, spot, target>>
    <2>1. Others(u) /\ UNCHANGED <<lease, pins, base, atomId, text, generation>>
        BY <1>2, OwnFacts DEF TryReuse, Others, poolVars
    <2> QED
        BY <1>0, <1>2, <2>1, WalkSafe
  <1>3. CASE /\ search' = [search EXCEPT ![u].tier = @ + 1]
             /\ Goto(u, "Virgin") /\ UNCHANGED <<pins, want, spot, target>>
    <2>1. Others(u) /\ UNCHANGED <<lease, pins, base, atomId, text, generation>> /\ pc'[u] = "Virgin"
        BY <1>3, OwnFacts DEF TryReuse, Others, poolVars
    <2> QED
        BY <1>0, <1>3, <2>1, WalkSafe
  <1> QED
      BY <1>1, <1>2, <1>3 DEF TryReuse

\* A step that rewrites the slot its user reserved.
LEMMA Filler ==
    ASSUME SafeInv, NEW u \in Users, Others(u), Control', NEW r \in Slots, Fills(u, r),
           lease' = lease, UNCHANGED <<base, names, entries, issued, directLeases>>,
           \A s \in Slots \ {r} : SlotKept(s), Resident(r)',
           \A s \in Slots : PinsCount(s)', FillHolds(u)', LookupHolds(u)'
    PROVE  SafeInv'
  <1>0. lease[u] = NoLease
      BY OwnFacts DEF Placed, Fills
  <1>1. NamesKept
      BY NamesStand DEF SafeInv
  <1>2. \A s \in Slots : (SlotKept(s) \/ Fills(u, s)) /\ Resident(s)'
      BY <1>0 DEF SlotKept, Resident, SafeInv, SlotsHold
  <1>3. LeaseHolds(u)'
      BY <1>0 DEF LeaseHolds
  <1>4. UsersHold'
      BY <1>1, <1>2, <1>3, OthersHeld DEF UsersHold, Held
  <1>5. IssuedHolds' /\ DirectCounts'
      BY <1>1, IssuedKept, DirectKept DEF IssuedHolds, SafeInv
  <1> QED
      BY <1>2, <1>4, <1>5 DEF SafeInv, SlotsHold

LEMMA ClearAtomSafe ==
    ASSUME SafeInv, NEW u \in Users, ClearAtom(u), UNCHANGED poolVars PROVE SafeInv'
  <1>0. /\ Control' /\ pc[u] = "ClearAtom" /\ spot[u] \in Slots /\ lease[u] = NoLease /\ Fills(u, spot[u])
        /\ want[u] - base \in Ordinals /\ lookup' = lookup
      BY ClearAtomControl, OwnFacts DEF SafeInv, ClearAtom, Placed, Fills, poolVars
  <1>r. PICK r \in Slots : r = spot[u]
      BY <1>0
  <1>1. Others(u)
      BY OwnFacts DEF Others, ClearAtom, poolVars
  <1>2. UNCHANGED <<base, names, entries, issued, directLeases, lease>>
      BY DEF ClearAtom, poolVars, registryVars
  <1>3. \A s \in Slots \ {r} : SlotKept(s)
      BY <1>0, <1>r DEF ClearAtom, SlotKept, SafeInv, Control, Typed, SlotsTyped
  <1>4. Resident(r)'
      BY <1>0, <1>r, <1>2, OwnFacts DEF ClearAtom, Resident, FillHolds, SafeInv, Control, Typed,
         SlotsTyped, SlotsHold
  <1>5. ASSUME NEW s \in Slots PROVE PinsCount(s)'
    <2>1. pins' = pins /\ (Owns(u, s)' <=> Owns(u, s)) /\ (Fills(u, s)' <=> Fills(u, s))
        BY <1>0, OwnFacts, SlotFacts DEF ClearAtom, Owns, Fills
    <2> QED
        BY <1>1, <2>1, PinsKept DEF SafeInv
  <1>6. FillHolds(u)'
      BY <1>0, <1>2, OwnFacts DEF ClearAtom, FillHolds, SafeInv, Control, Typed, SlotsTyped,
         WantedText, Ordinal
  <1>7. LookupHolds(u)'
      BY <1>0, <1>2, OwnFacts DEF ClearAtom, LookupHolds, NameAt, Placed
  <1> QED
      BY <1>0, <1>1, <1>2, <1>3, <1>4, <1>5, <1>6, <1>7, <1>r, Filler

LEMMA PublishSafe ==
    ASSUME SafeInv, NEW u \in Users, Publish(u), UNCHANGED poolVars PROVE SafeInv'
  <1>0. /\ Control' /\ pc[u] = "Publish" /\ spot[u] \in Slots /\ lease[u] = NoLease /\ Fills(u, spot[u])
        /\ want[u] - base \in Ordinals /\ lookup' = lookup
      BY PublishControl, OwnFacts DEF SafeInv, Publish, Placed, Fills, poolVars
  <1>r. PICK r \in Slots : r = spot[u]
      BY <1>0
  <1>1. Others(u)
      BY OwnFacts DEF Others, Publish, poolVars
  <1>2. UNCHANGED <<base, names, entries, issued, directLeases, lease>>
      BY DEF Publish, poolVars, registryVars
  <1>3. \A s \in Slots \ {r} : SlotKept(s)
      BY <1>0, <1>r DEF Publish, SlotKept, SafeInv, Control, Typed, SlotsTyped
  <1>4. Resident(r)'
      BY <1>0, <1>r, <1>2, OwnFacts DEF Publish, Resident, FillHolds, SafeInv, Control, Typed,
         SlotsTyped, SlotsHold
  <1>5. ASSUME NEW s \in Slots PROVE PinsCount(s)'
    <2>1. pins' = pins /\ (Owns(u, s)' <=> Owns(u, s)) /\ (Fills(u, s)' <=> Fills(u, s))
        BY <1>0, OwnFacts, SlotFacts DEF Publish, Owns, Fills
    <2> QED
        BY <1>1, <2>1, PinsKept DEF SafeInv
  <1>6. FillHolds(u)'
      BY <1>0, <1>2, OwnFacts DEF Publish, FillHolds, SafeInv, Control, Typed, SlotsTyped,
         WantedText, Ordinal
  <1>7. LookupHolds(u)'
      BY <1>0, <1>2, OwnFacts DEF Publish, LookupHolds, NameAt, Placed
  <1> QED
      BY <1>0, <1>1, <1>2, <1>3, <1>4, <1>5, <1>6, <1>7, <1>r, Filler

LEMMA OpenSafe ==
    ASSUME SafeInv, NEW u \in Users, Open(u), UNCHANGED poolVars PROVE SafeInv'
  <1>0. /\ Control' /\ pc[u] = "Open" /\ spot[u] \in Slots /\ lease[u] = NoLease /\ Fills(u, spot[u])
        /\ want[u] - base \in Ordinals /\ lookup' = lookup
      BY OpenControl, OwnFacts DEF SafeInv, Open, Placed, Fills, poolVars
  <1>r. PICK r \in Slots : r = spot[u]
      BY <1>0
  <1>1. Others(u)
      BY OwnFacts DEF Others, Open, poolVars
  <1>2. UNCHANGED <<base, names, entries, issued, directLeases, lease>>
      BY DEF Open, poolVars, registryVars
  <1>3. \A s \in Slots \ {r} : SlotKept(s)
      BY <1>0, <1>r DEF Open, SlotKept, SafeInv, Control, Typed, SlotsTyped
  <1>4. Resident(r)'
      BY <1>0, <1>r, <1>2, OwnFacts DEF Open, Resident, FillHolds, SafeInv, Control, Typed,
         SlotsTyped, SlotsHold
  <1>5. ASSUME NEW s \in Slots PROVE PinsCount(s)'
    <2>1. CASE s = spot[u]
      <3>1. pins'[s] = 1 /\ ~ Fills(u, s)' /\ Owns(u, s)' = TRUE
          BY <1>0, <2>1, OwnFacts, SlotFacts DEF Open, Owns, Fills, NoLease
      <3> QED
          BY <1>0, <1>1, <2>1, <3>1, PinsReturned DEF SafeInv
    <2>2. CASE s # spot[u]
      <3>1. pins'[s] = pins[s] /\ (Owns(u, s)' <=> Owns(u, s)) /\ (Fills(u, s)' <=> Fills(u, s))
          BY <1>0, <2>2, OwnFacts, SlotFacts DEF Open, Owns, Fills, NoLease
      <3> QED
          BY <1>1, <3>1, PinsKept DEF SafeInv
    <2> QED
        BY <2>1, <2>2
  <1>6. FillHolds(u)'
      BY <1>0, <1>2, OwnFacts DEF Open, FillHolds, SafeInv, Control, Typed, SlotsTyped,
         WantedText, Ordinal
  <1>7. LookupHolds(u)'
      BY <1>0, <1>2, OwnFacts DEF Open, LookupHolds, NameAt, Placed
  <1> QED
      BY <1>0, <1>1, <1>2, <1>3, <1>4, <1>5, <1>6, <1>7, <1>r, Filler

LEMMA DecodeSafe ==
    ASSUME SafeInv, NEW u \in Users, Decode(u), UNCHANGED poolVars PROVE SafeInv'
  <1>0. /\ Control' /\ pc[u] = "Decode" /\ spot[u] \in Slots /\ lease[u] = NoLease /\ Fills(u, spot[u])
        /\ want[u] - base \in Ordinals /\ lookup' = lookup
      BY DecodeControl, OwnFacts DEF SafeInv, Decode, Placed, Fills, poolVars
  <1>r. PICK r \in Slots : r = spot[u]
      BY <1>0
  <1>1. Others(u)
      BY OwnFacts DEF Others, Decode, Leave, poolVars
  <1>2. UNCHANGED <<base, names, entries, issued, directLeases, lease>>
      BY DEF Decode, poolVars, registryVars
  <1>3. \A s \in Slots \ {r} : SlotKept(s)
      BY <1>0, <1>r DEF Decode, SlotKept, SafeInv, Control, Typed, SlotsTyped
  <1>4. Resident(r)'
      BY <1>0, <1>r, <1>2, OwnFacts DEF Decode, Resident, FillHolds, SafeInv, Control, Typed,
         SlotsTyped, SlotsHold
  <1>5. ASSUME NEW s \in Slots PROVE PinsCount(s)'
    <2>3. CASE Ordinal(want[u]) \in Damaged
      <3>1. CASE s = spot[u]
        <4>1. pins'[s] = 0 /\ ~ Fills(u, s)' /\ Owns(u, s)' = FALSE
            BY <1>0, <2>3, <3>1, OwnFacts, SlotFacts DEF Decode, Leave, Owns, Fills, NoLease
        <4> QED
            BY <1>0, <1>1, <3>1, <4>1, PinsReturned DEF SafeInv
      <3>2. CASE s # spot[u]
        <4>1. pins'[s] = pins[s] /\ (Owns(u, s)' <=> Owns(u, s)) /\ (Fills(u, s)' <=> Fills(u, s))
            BY <1>0, <2>3, <3>2, OwnFacts, SlotFacts DEF Decode, Leave, Owns, Fills, NoLease
        <4> QED
            BY <1>1, <4>1, PinsKept DEF SafeInv
      <3> QED
          BY <3>1, <3>2
    <2>4. CASE Ordinal(want[u]) \notin Damaged
      <3>1. pins' = pins /\ (Owns(u, s)' <=> Owns(u, s)) /\ (Fills(u, s)' <=> Fills(u, s))
          BY <1>0, <2>4, OwnFacts, SlotFacts DEF Decode, Owns, Fills
      <3> QED
          BY <1>1, <3>1, PinsKept DEF SafeInv
    <2> QED
        BY <2>3, <2>4
  <1>6. FillHolds(u)'
      BY <1>0, <1>2, OwnFacts DEF Decode, Leave, FillHolds, SafeInv, Control, Typed, SlotsTyped,
         WantedText, Ordinal
  <1>7. LookupHolds(u)'
      BY <1>0, <1>2, OwnFacts DEF Decode, Leave, LookupHolds, NameAt, Placed
  <1> QED
      BY <1>0, <1>1, <1>2, <1>3, <1>4, <1>5, <1>6, <1>7, <1>r, Filler

LEMMA Speaks ==
    ASSUME SafeInv, NEW u \in Users, Others(u), Control',
           UNCHANGED <<base, atomId, text, generation, names, entries>>,
           \/ issued' = issued
           \/ \E i \in Nat : i < names /\ issued' = issued \cup {<<base + i, NameAt(i)>>},
           \A s \in Slots : PinsCount(s)', Held(u)', DirectCounts'
    PROVE  SafeInv'
  <1>0. names \in Nat /\ base \in Nat
      BY OwnFacts
  <1>1. NamesKept
      BY NamesStand DEF SafeInv
  <1>2. \A s \in Slots : SlotKept(s) /\ Resident(s)'
      BY DEF SlotKept, Resident, SafeInv, SlotsHold
  <1>3. UsersHold'
      BY <1>1, <1>2, OthersHeld DEF UsersHold
  <1>4. IssuedHolds'
    <2>1. CASE issued' = issued
        BY <1>1, <2>1, IssuedKept DEF IssuedHolds
    <2>2. ASSUME NEW i \in Nat, i < names, issued' = issued \cup {<<base + i, NameAt(i)>>}
          PROVE  IssuedHolds'
      <3>1. (base + i) - base = i /\ base + i < base + names
          BY <1>0, <2>2
      <3>2. NameAt((base + i) - base)' = NameAt(i)
          BY <3>1, <1>1, <2>2 DEF NamesKept
      <3>3. \A a \in {<<base + i, NameAt(i)>>} : a[1] < base' + names' /\ (a[1] >= base' => a[2] = NameAt(a[1] - base)')
          BY <3>1, <3>2
      <3> QED
          BY <1>1, <2>2, <3>3, IssuedKept DEF IssuedHolds
    <2> QED
        BY <2>1, <2>2
  <1> QED
      BY <1>2, <1>3, <1>4 DEF SafeInv, SlotsHold

\* A lease that goes takes its pin, or its direct count, along.
LEMMA GivenBack ==
    ASSUME SafeInv, NEW u \in Users, Others(u), lease'[u] = NoLease,
           IF lease[u] = NoLease THEN UNCHANGED <<pins, directLeases>> ELSE Drop(u),
           pc[u] = "Idle", pc'[u] \in {"Idle", "Resolve"}
    PROVE  (\A s \in Slots : PinsCount(s)') /\ DirectCounts'
  <1>1. CASE lease[u] = NoLease
    <2>1. \A s \in Slots : (Owns(u, s)' <=> Owns(u, s)) /\ (Fills(u, s)' <=> Fills(u, s))
        BY <1>1 DEF Owns, Fills
    <2> QED
        BY <1>1, <2>1, PinsKept, DirectKept DEF SafeInv
  <1>2. CASE lease[u] # NoLease /\ lease[u].slot = Direct
    <2>1. \A s \in Slots : (Owns(u, s)' <=> Owns(u, s)) /\ (Fills(u, s)' <=> Fills(u, s))
        BY <1>2, SlotFacts DEF Owns, Fills, NoLease
    <2>2. pins' = pins /\ directLeases' = directLeases - 1
        BY <1>2 DEF Drop
    <2>3. \A s \in Slots : PinsCount(s)'
        BY <2>1, <2>2, PinsKept DEF SafeInv
    <2>4. DirectUsers' = DirectUsers \ {u} /\ u \in DirectUsers
        BY <1>2, SlotFacts DEF DirectUsers, Others, NoLease
    <2>5. IsFiniteSet(DirectUsers)
        BY CacheAssumption, FS_Subset DEF DirectUsers
    <2>6. Cardinality(DirectUsers \ {u}) = Cardinality(DirectUsers) - 1
        BY <2>4, <2>5, FS_RemoveElement
    <2> QED
        BY <2>2, <2>3, <2>4, <2>6 DEF SafeInv, DirectCounts
  <1>3. CASE lease[u] # NoLease /\ lease[u].slot # Direct
    <2>0. lease[u].slot \in Slots
        BY <1>3, OwnFacts DEF LeaseHolds
    <2>1. pins' = [pins EXCEPT ![lease[u].slot] = @ - 1] /\ directLeases' = directLeases
        BY <1>3 DEF Drop
    <2>2. ASSUME NEW s \in Slots PROVE PinsCount(s)'
      <3>1. CASE s = lease[u].slot
        <4>1. pins'[s] = pins[s] - 1 /\ Owns(u, s) /\ ~ Owns(u, s)' /\ ~ Fills(u, s)'
            BY <2>0, <2>1, <3>1, OwnFacts, SlotFacts DEF Owns, Fills, NoLease
        <4> QED
            BY <4>1, PinsGiven DEF SafeInv
      <3>2. CASE s # lease[u].slot
        <4>1. pins'[s] = pins[s] /\ (Owns(u, s)' <=> Owns(u, s)) /\ (Fills(u, s)' <=> Fills(u, s))
            BY <2>0, <2>1, <3>2, OwnFacts, SlotFacts DEF Owns, Fills, NoLease
        <4> QED
            BY <4>1, PinsKept DEF SafeInv
      <3> QED
          BY <3>1, <3>2
    <2>3. DirectCounts'
        BY <1>3, <2>1, SlotFacts, DirectKept DEF SafeInv, NoLease
    <2> QED
        BY <2>2, <2>3
  <1> QED
      BY <1>1, <1>2, <1>3

LEMMA ReleaseSafe ==
    ASSUME SafeInv, NEW u \in Users, Release(u) PROVE SafeInv'
  <1>1. Control' /\ Others(u) /\ lease'[u] = NoLease /\ pc' = pc /\ pc[u] = "Idle" /\ lookup' = lookup
      BY ReleaseControl, OwnFacts DEF SafeInv, Release, Others, Free
  <1>2. UNCHANGED <<base, atomId, text, generation, names, entries, issued>>
      BY DEF Release, registryVars
  <1>3. (\A s \in Slots : PinsCount(s)') /\ DirectCounts'
      BY <1>1, GivenBack DEF Release
  <1>4. Held(u)'
      BY <1>1, <1>2, OwnFacts DEF Held, FillHolds, LeaseHolds, LookupHolds, NameAt, Release, Free
  <1> QED
      BY <1>1, <1>2, <1>3, <1>4, Quiet

LEMMA AcquireSafe ==
    ASSUME SafeInv, NEW u \in Users, NEW id \in Nat, Acquire(u, id) PROVE SafeInv'
  <1>1. /\ Control' /\ Others(u) /\ lease'[u] = NoLease /\ pc'[u] = "Resolve" /\ pc[u] = "Idle"
        /\ lookup' = lookup /\ lookup[u].at = "None"
      BY AcquireControl, OwnFacts DEF SafeInv, Acquire, Others, Free
  <1>2. UNCHANGED <<base, atomId, text, generation, names, entries, issued>>
      BY DEF Acquire, registryVars
  <1>3. (\A s \in Slots : PinsCount(s)') /\ DirectCounts'
      BY <1>1, GivenBack DEF Acquire
  <1>4. Held(u)'
      BY <1>1, <1>2, OwnFacts DEF Held, FillHolds, LeaseHolds, LookupHolds
  <1> QED
      BY <1>1, <1>2, <1>3, <1>4, Quiet

LEMMA ResolveSafe ==
    ASSUME SafeInv, NEW u \in Users, Resolve(u) PROVE SafeInv'
  <1> DEFINE index == want[u] - base
  <1>1. /\ Control' /\ pc[u] = "Resolve" /\ lease[u] = NoLease /\ want[u] \in Nat
        /\ lookup' = lookup /\ lookup[u].at = "None"
      BY ResolveControl, OwnFacts DEF SafeInv, Resolve, Placed, LookupHolds
  <1>2. UNCHANGED <<base, pins, atomId, text, generation, names, entries, issued>>
      BY DEF Resolve, slotVars, registryVars
  <1>a. Others(u)
      BY OwnFacts DEF Resolve, Others, Leave
  <1>3. ASSUME NEW s \in Slots PROVE PinsCount(s)'
    <2>1. (Owns(u, s)' <=> Owns(u, s)) /\ (Fills(u, s)' <=> Fills(u, s))
        BY <1>1, OwnFacts, SlotFacts DEF Resolve, Leave, Owns, Fills, NoLease
    <2> QED
        BY <1>2, <1>a, <2>1, PinsKept DEF SafeInv
  <1>4. CASE /\ index \in 0..(names - 1) /\ InPlace(index) /\ directLeases' = directLeases + 1
             /\ lease' = [lease EXCEPT ![u] = [slot |-> Direct, id |-> want[u], generation |-> 0]]
             /\ Leave(u, "Idle")
    <2>1. pc'[u] = "Idle" /\ lease'[u].slot = Direct /\ lease'[u].id = want[u]
        BY <1>4, OwnFacts DEF Leave
    <2>2. want[u] >= base /\ want[u] < base + names
        BY <1>1, <1>4, OwnFacts
    <2>3. Held(u)'
        BY <1>1, <1>2, <2>1, <2>2, SlotFacts DEF Held, FillHolds, LeaseHolds, LookupHolds
    <2>4. DirectUsers' = DirectUsers \cup {u} /\ u \notin DirectUsers
        BY <1>1, <1>a, <2>1, SlotFacts DEF DirectUsers, Others, NoLease
    <2>5. IsFiniteSet(DirectUsers)
        BY CacheAssumption, FS_Subset DEF DirectUsers
    <2>6. Cardinality(DirectUsers \cup {u}) = Cardinality(DirectUsers) + 1
        BY <2>4, <2>5, FS_AddElement
    <2>7. DirectCounts'
        BY <1>4, <2>4, <2>6 DEF SafeInv, DirectCounts
    <2> QED
        BY <1>1, <1>2, <1>a, <1>3, <2>3, <2>7, Quiet
  <1>5. CASE lease' = lease /\ directLeases' = directLeases /\ pc'[u] \in {"Idle", "LoadHot"}
    <2>1. Held(u)'
        BY <1>1, <1>2, <1>5 DEF Held, FillHolds, LeaseHolds, LookupHolds
    <2>2. DirectCounts'
        BY <1>5, <1>a, DirectKept DEF SafeInv
    <2> QED
        BY <1>1, <1>2, <1>a, <1>3, <2>1, <2>2, Quiet
  <1> QED
      BY <1>4, <1>5, OwnFacts DEF Resolve, Leave

\* A lookup that moves on its own, and may give out an atom of a name it found.
LEMMA LookupSafe ==
    ASSUME SafeInv, NEW u \in Users, Control', UNCHANGED <<base, pins, atomId, text, generation>>,
           UNCHANGED <<names, entries, directLeases, lease>>, Others(u),
           pc[u] = "Idle", pc'[u] \in {"Idle", "LoadHot"}, lease[u] = NoLease, LookupHolds(u)',
           \/ issued' = issued
           \/ \E i \in Nat : i < names /\ issued' = issued \cup {<<base + i, NameAt(i)>>}
    PROVE  SafeInv'
  <1>1. \A s \in Slots : (Owns(u, s)' <=> Owns(u, s)) /\ (Fills(u, s)' <=> Fills(u, s))
      BY DEF Owns, Fills
  <1>2. \A s \in Slots : PinsCount(s)'
      BY <1>1, PinsKept DEF SafeInv
  <1>3. Held(u)'
      BY DEF Held, FillHolds, LeaseHolds
  <1>4. DirectCounts'
      BY DirectKept DEF SafeInv
  <1> QED
      BY <1>2, <1>3, <1>4, Speaks

LEMMA FoundSpeaks ==
    ASSUME SafeInv, NEW u \in Users, NEW i \in Nat, i < names, NameAt(i) = lookup[u].text,
           Found(u, i), UNCHANGED <<base, names, entries>>
    PROVE  /\ LookupHolds(u)'
           /\ \/ issued' = issued
              \/ \E k \in Nat : k < names /\ issued' = issued \cup {<<base + k, NameAt(k)>>}
  <1>0. lookup \in [Users -> Lookups]
      BY DEF SafeInv, Control, Typed, NamesTyped
  <1>1. CASE registryLock = u
    <2>1. lookup'[u] = [lookup[u] EXCEPT !.at = "Unlock", !.index = i + 1] /\ issued' = issued
        BY <1>0, <1>1 DEF Found
    <2>2. lookup'[u].at = "Unlock" /\ lookup'[u].index = i + 1 /\ lookup'[u].text = lookup[u].text
        BY <1>0, <2>1 DEF Lookups
    <2>3. (i + 1) - 1 = i
        OBVIOUS
    <2> QED
        BY <2>1, <2>2, <2>3 DEF LookupHolds, NameAt
  <1>2. CASE registryLock # u
    <2>1. lookup'[u] = NoLookup /\ issued' = issued \cup {<<base + i, NameAt(i)>>}
        BY <1>0, <1>2 DEF Found, Answer
    <2> QED
        BY <2>1 DEF LookupHolds, NoLookup
  <1> QED
      BY <1>1, <1>2

LEMMA ReadCellSafe ==
    ASSUME SafeInv, NEW u \in Users, ReadCell(u) PROVE SafeInv'
  <1> DEFINE t == lookup[u].text
             tag == table[Cell(t, lookup[u].step)]
             index == tag - 1
  <1>1. /\ Control' /\ lookup[u].at = "Read" /\ pc[u] = "Idle" /\ lease[u] = NoLease
        /\ lookup \in [Users -> Lookups] /\ names \in Nat
      BY ReadCellControl, OwnFacts DEF ReadCell, At, SafeInv, Placed, Control, Typed, NamesTyped
  <1>2. /\ UNCHANGED <<base, pins, atomId, text, generation>>
        /\ UNCHANGED <<names, entries, directLeases>>
      BY DEF ReadCell, slotVars, registryVars
  <1>3. CASE NotFound(u) /\ UNCHANGED callVars
    <2>1. Others(u) /\ pc' = pc /\ lease' = lease /\ issued' = issued
        BY <1>1, <1>3 DEF NotFound, Move, Others, callVars
    <2>2. lookup'[u].at \in {"Admit", "Lock", "Missing"} /\ lookup'[u].index = 0
        BY <1>1, <1>3, OwnFacts DEF NotFound, Move, Lookups, LookupHolds
    <2> QED
        BY <1>1, <1>2, <2>1, <2>2, LookupSafe DEF LookupHolds
  <1>4. CASE NextCell(u) /\ UNCHANGED callVars
    <2>1. Others(u) /\ pc' = pc /\ lease' = lease /\ issued' = issued
        BY <1>1, <1>4 DEF NextCell, Others, callVars
    <2>2. lookup'[u].at = "Read" /\ lookup'[u].index = 0
        BY <1>1, <1>4 DEF NextCell, Lookups
    <2> QED
        BY <1>1, <1>2, <2>1, <2>2, LookupSafe DEF LookupHolds
  <1>5. CASE index \in 0..(names - 1) /\ NameAt(index) = t /\ Found(u, index) /\ UNCHANGED callVars
    <2>1. Others(u) /\ pc' = pc /\ lease' = lease
        BY <1>1, <1>5 DEF Found, Answer, Others, callVars
    <2>2. index \in Nat /\ index < names
        BY <1>1, <1>5
    <2> QED
        BY <1>1, <1>2, <1>5, <2>1, <2>2, FoundSpeaks, LookupSafe
  <1>6. CASE /\ index \in 0..(names - 1) /\ ~ InPlace(index)
             /\ lookup' = [lookup EXCEPT ![u].at = "Match", ![u].index = index + 1]
             /\ want' = [want EXCEPT ![u] = base + index]
             /\ search' = [search EXCEPT ![u].tries = 1]
             /\ Goto(u, "LoadHot") /\ UNCHANGED <<issued, lease, spot, target>>
    <2>1. Others(u) /\ pc'[u] = "LoadHot" /\ lease' = lease /\ issued' = issued
        BY <1>1, <1>6, OwnFacts DEF Others
    <2>2. index \in Ordinals /\ (index + 1) - 1 = index
        BY <1>1, <1>6 DEF InPlace
    <2>3. lookup'[u] = [lookup[u] EXCEPT !.at = "Match", !.index = index + 1]
        BY <1>1, <1>6
    <2>4. lookup'[u].at = "Match" /\ lookup'[u].index = index + 1 /\ want'[u] = base + index
        BY <1>1, <1>6, <2>3, OwnFacts DEF Lookups
    <2>5. LookupHolds(u)'
        BY <1>1, <1>2, <2>1, <2>2, <2>4 DEF LookupHolds
    <2> QED
        BY <1>1, <1>2, <2>1, <2>5, LookupSafe
  <1> QED
      BY <1>3, <1>4, <1>5, <1>6 DEF ReadCell

LEMMA FindSafe ==
    ASSUME SafeInv, NEW u \in Users,
           (\E t \in Texts, admit \in BOOLEAN : Lookup(u, t, admit)) \/ ReturnNothing(u) \/ LockRegistry(u) \/ PublishName(u)
    PROVE  SafeInv'
  <1>1. /\ Control' /\ pc[u] = "Idle" /\ lease[u] = NoLease /\ lookup \in [Users -> Lookups]
      BY FindControl, OwnFacts DEF Lookup, ReturnNothing, LockRegistry, PublishName, At, Free,
         SafeInv,
         Placed, Control, Typed, NamesTyped
  <1>2. UNCHANGED cacheVars /\ UNCHANGED <<names, entries, directLeases, issued>>
      BY DEF Lookup, ReturnNothing, LockRegistry, PublishName, registryVars
  <1>3. /\ UNCHANGED <<base, pins, atomId, text, generation>> /\ pc' = pc /\ lease' = lease
        /\ want' = want /\ spot' = spot /\ search' = search
      BY <1>2 DEF cacheVars, slotVars, callVars
  <1>4. \A v \in Users \ {u} : lookup'[v] = lookup[v]
      BY <1>1 DEF Lookup, ReturnNothing, LockRegistry, PublishName, Move
  <1>5. LookupHolds(u)'
    <2>1. ASSUME NEW t \in Texts, NEW admit \in BOOLEAN, Lookup(u, t, admit)
          PROVE  LookupHolds(u)'
      <3>1. lookup'[u].at = "Read" /\ lookup'[u].index = 0
          BY <1>1, <2>1 DEF Lookup, NoLookup
      <3> QED
          BY <3>1 DEF LookupHolds
    <2>2. CASE ReturnNothing(u)
        BY <1>1, <2>2 DEF ReturnNothing, NoLookup, LookupHolds
    <2>3. CASE LockRegistry(u)
      <3>1. lookup'[u].at = "Read" /\ lookup'[u].index = 0
          BY <1>1, <2>3, OwnFacts DEF LockRegistry, At, Lookups, LookupHolds
      <3> QED
          BY <3>1 DEF LookupHolds
    <2>4. CASE PublishName(u)
      <3>1. lookup'[u] = [lookup[u] EXCEPT !.at = "Unlock"] /\ lookup[u].at = "Publish"
          BY <1>1, <2>4 DEF PublishName, Move, At
      <3>2. lookup'[u].at = "Unlock" /\ lookup'[u].index = lookup[u].index /\ lookup'[u].text = lookup[u].text
          BY <1>1, <3>1 DEF Lookups
      <3> QED
          BY <1>2, <1>3, <3>1, <3>2, OwnFacts DEF LookupHolds, NameAt
    <2> QED
        BY <2>1, <2>2, <2>3, <2>4
  <1> QED
      BY <1>1, <1>2, <1>3, <1>4, <1>5, LookupSafe DEF Others

LEMMA MatchSafe ==
    ASSUME SafeInv, NEW u \in Users, Match(u) PROVE SafeInv'
  <1> DEFINE index == lookup[u].index - 1
  <1>0. /\ lookup[u].at = "Match" /\ pc[u] = "Idle" /\ index \in Ordinals /\ index \in Nat
        /\ lookup \in [Users -> Lookups] /\ names \in Nat
      BY OwnFacts, CacheAssumption DEF Match, At, LookupHolds, SafeInv, Control, Typed, NamesTyped
  <1>1. Control'
      BY <1>0, MatchControl DEF SafeInv
  <1>2. UNCHANGED <<base, atomId, text, generation, names, entries>> /\ pc' = pc /\ lease'[u] = NoLease
      BY OwnFacts DEF Match, registryVars
  <1>3. Others(u)
      BY <1>0, OwnFacts DEF Match, Found, Answer, NextCell, Others
  <1>4. (\A s \in Slots : PinsCount(s)') /\ DirectCounts'
      BY <1>0, <1>2, <1>3, GivenBack DEF Match
  <1>5. index < names /\ NameAt(index) = Cooked[index]
      BY <1>0, OwnFacts, NamesFacts DEF NameAt
  <1>6. ASSUME Found(u, index) PROVE NameAt(index) = lookup[u].text
    <2>1. CASE lease[u] = NoLease
      <3>1. ~ NextCell(u) \/ Cooked[index] = lookup[u].text
        <4>1. lookup'[u].at \in {"Unlock", "None"}
            BY <1>0, <1>6 DEF Found, Answer, NoLookup, Lookups
        <4>2. NextCell(u) => lookup'[u].at = "Read"
            BY <1>0 DEF NextCell, Lookups
        <4> QED
            BY <4>1, <4>2
      <3> QED
          BY <1>5, <2>1, <3>1 DEF Match
    <2>2. CASE lease[u] # NoLease
      <3>1. lease[u].slot \in Slots /\ lease[u].id = base + index /\ atomId[lease[u].slot] = lease[u].id
          BY <1>0, <2>2, OwnFacts DEF LookupHolds, LeaseHolds
      <3>2. atomId[lease[u].slot] # 0 /\ atomId[lease[u].slot] - base = index
          BY <1>0, <3>1, OwnFacts
      <3>3. text[lease[u].slot] = Cooked[index]
          BY <3>1, <3>2 DEF SafeInv, SlotsHold, Resident
      <3>4. ~ NextCell(u) \/ text[lease[u].slot] = lookup[u].text
        <4>1. lookup'[u].at \in {"Unlock", "None"}
            BY <1>0, <1>6 DEF Found, Answer, NoLookup, Lookups
        <4>2. NextCell(u) => lookup'[u].at = "Read"
            BY <1>0 DEF NextCell, Lookups
        <4> QED
            BY <4>1, <4>2
      <3> QED
          BY <1>5, <2>2, <3>3, <3>4 DEF Match
    <2> QED
        BY <2>1, <2>2
  <1>7. LookupHolds(u)' /\ (\/ issued' = issued
                            \/ \E i \in Nat : i < names /\ issued' = issued \cup {<<base + i, NameAt(i)>>})
    <2>1. CASE Found(u, index)
        BY <1>0, <1>2, <1>5, <1>6, <2>1, FoundSpeaks
    <2>2. CASE NextCell(u)
      <3>1. lookup'[u].at = "Read" /\ lookup'[u].index = 0 /\ issued' = issued
          BY <1>0, <2>2 DEF NextCell, Lookups
      <3> QED
          BY <3>1 DEF LookupHolds
    <2> QED
        BY <2>1, <2>2 DEF Match
  <1>8. Held(u)'
      BY <1>0, <1>2, <1>7 DEF Held, FillHolds, LeaseHolds
  <1> QED
      BY <1>1, <1>2, <1>3, <1>4, <1>7, <1>8, Speaks

\* The name is appended behind every index a lease or an atom refers to.
LEMMA AdmitSafe ==
    ASSUME SafeInv, NEW u \in Users, Admit(u) PROVE SafeInv'
  <1> DEFINE t == lookup[u].text
  <1>0. /\ Control' /\ lookup[u].at = "Admit" /\ pc[u] = "Idle" /\ lease[u] = NoLease
        /\ lookup \in [Users -> Lookups] /\ names \in CookedNames..MaxNames /\ names \in Nat
        /\ entries \in [CookedNames..(MaxNames - 1) -> Texts \cup {Garbage}]
      BY AdmitControl, OwnFacts DEF Admit, At, SafeInv, Placed, Control, Typed, NamesTyped
  <1>1. UNCHANGED cacheVars /\ directLeases' = directLeases /\ issued' = issued
      BY DEF Admit
  <1>2. /\ UNCHANGED <<base, pins, atomId, text, generation>> /\ pc' = pc /\ lease' = lease
        /\ want' = want /\ spot' = spot /\ search' = search
      BY <1>1 DEF cacheVars, slotVars, callVars
  <1>3. Others(u)
      BY <1>0, <1>2 DEF Others, Admit, Move
  <1>4. CASE Move(u, "Unlock") /\ UNCHANGED <<entries, names, dynamicUsed>>
    <2>1. lookup'[u].at = "Unlock" /\ lookup'[u].index = 0
        BY <1>0, <1>4, OwnFacts DEF Move, Lookups, LookupHolds
    <2> QED
        BY <1>0, <1>1, <1>2, <1>3, <1>4, <2>1, LookupSafe DEF LookupHolds
  <1>5. CASE /\ names < MaxNames /\ entries' = [entries EXCEPT ![names] = t] /\ names' = names + 1
             /\ lookup' = [lookup EXCEPT ![u].at = "Publish", ![u].index = names + 1]
    <2>1. names \in CookedNames..(MaxNames - 1) /\ names \notin Ordinals
        BY <1>0, <1>5, NamesFacts
    <2>n. PICK n \in Nat : n = names
        BY <1>0
    <2>2. NameAt(n)' = t
        BY <1>0, <1>5, <2>1, <2>n DEF NameAt
    <2>3. NamesKept
      <3>1. ASSUME NEW i \in Nat, i < names PROVE NameAt(i)' = NameAt(i)
        <4>1. i \in Ordinals \/ (i \in CookedNames..(MaxNames - 1) /\ i # names)
            BY <1>0, <1>5, <3>1, NamesFacts
        <4> QED
            BY <1>0, <1>5, <4>1 DEF NameAt
      <3> QED
          BY <1>0, <1>2, <1>5, <3>1 DEF NamesKept
    <2>4. lookup'[u] = [lookup[u] EXCEPT !.at = "Publish", !.index = names + 1]
        BY <1>0, <1>5
    <2>5. lookup'[u].at = "Publish" /\ lookup'[u].index = names + 1 /\ lookup'[u].text = t
        BY <1>0, <2>4 DEF Lookups
    <2>6. (names + 1) - 1 = names /\ names < names + 1
        BY <1>0
    <2>7. LookupHolds(u)'
      <3>1. (lookup'[u].index - 1) = n
          BY <2>5, <2>6, <2>n
      <3>2. NameAt(lookup[u].index - 1)' = t
          BY <2>2, <3>1 DEF NameAt
      <3> QED
          BY <1>5, <2>5, <2>6, <2>n, <3>1, <3>2 DEF LookupHolds
    <2>8. \A s \in Slots : SlotKept(s) /\ Resident(s)'
        BY <1>2 DEF SlotKept, Resident, SafeInv, SlotsHold
    <2>9. Held(u)'
        BY <1>0, <1>2, <2>7 DEF Held, FillHolds, LeaseHolds
    <2>10. UsersHold'
        BY <1>3, <2>3, <2>8, <2>9, OthersHeld DEF UsersHold
    <2>11. \A s \in Slots : (Owns(u, s)' <=> Owns(u, s)) /\ (Fills(u, s)' <=> Fills(u, s))
        BY <1>2 DEF Owns, Fills
    <2>12. SlotsHold'
        BY <1>2, <1>3, <2>8, <2>11, PinsKept DEF SafeInv, SlotsHold
    <2>13. IssuedHolds' /\ DirectCounts'
        BY <1>1, <1>2, <1>3, <2>3, IssuedKept, DirectKept DEF IssuedHolds, SafeInv
    <2> QED
        BY <1>0, <2>10, <2>12, <2>13 DEF SafeInv
  <1> QED
      BY <1>4, <1>5 DEF Admit

LEMMA UnlockRegistrySafe ==
    ASSUME SafeInv, NEW u \in Users, UnlockRegistry(u) PROVE SafeInv'
  <1> DEFINE index == lookup[u].index - 1
  <1>0. /\ Control' /\ lookup[u].at = "Unlock" /\ pc[u] = "Idle" /\ lease[u] = NoLease
        /\ lookup \in [Users -> Lookups] /\ names \in Nat
      BY UnlockRegistryControl, OwnFacts DEF UnlockRegistry, At, SafeInv, Placed, Control, Typed,
         NamesTyped
  <1>1. UNCHANGED cacheVars /\ UNCHANGED <<names, entries, directLeases>>
      BY DEF UnlockRegistry
  <1>2. /\ UNCHANGED <<base, pins, atomId, text, generation>> /\ pc' = pc /\ lease' = lease
        /\ want' = want /\ spot' = spot /\ search' = search
      BY <1>1 DEF cacheVars, slotVars, callVars
  <1>3. lookup'[u] = NoLookup /\ Others(u)
      BY <1>0, <1>2 DEF UnlockRegistry, Answer, Others
  <1>4. LookupHolds(u)'
      BY <1>3 DEF LookupHolds, NoLookup
  <1>5. \/ issued' = issued
        \/ \E i \in Nat : i < names /\ issued' = issued \cup {<<base + i, NameAt(i)>>}
    <2>1. CASE lookup[u].index = 0
        BY <2>1 DEF UnlockRegistry
    <2>2. CASE lookup[u].index # 0
      <3>1. index \in Nat
          BY <1>0, <2>2 DEF Lookups
      <3>2. index < names /\ NameAt(index) = lookup[u].text
          BY <1>0, <2>2, OwnFacts DEF LookupHolds
      <3> QED
          BY <2>2, <3>1, <3>2 DEF UnlockRegistry, Answer
    <2> QED
        BY <2>1, <2>2
  <1> QED
      BY <1>0, <1>1, <1>2, <1>3, <1>4, <1>5, LookupSafe

\* Nobody holds a lease when a scope ends, for every lease is counted.
LEMMA RetireSafe ==
    ASSUME SafeInv, Retire PROVE SafeInv'
  <1>0. /\ Control' /\ names \in CookedNames..MaxNames /\ base \in Nat
        /\ issued \subseteq Nat \X (Texts \cup {Garbage})
      BY RetireControl DEF SafeInv, Control, Typed, NamesTyped, SlotsTyped
  <1>1. /\ directLeases = 0 /\ (\A s \in Slots : pins[s] = 0) /\ base' = base + MaxNames
        /\ (\A s \in Slots : atomId'[s] = 0) /\ names' = CookedNames /\ pins' = pins
        /\ issued' = issued \cup {<<base + MaxNames + o, Cooked[o]>> : o \in Ordinals}
        /\ directLeases' = directLeases /\ lookup' = lookup
      BY DEF Retire
  <1>2. UNCHANGED callVars /\ \A u \in Users : pc[u] = "Idle" /\ lookup[u].at = "None"
      BY DEF Retire, Free
  <1>3. \A s \in Slots : Owners(s)' = Owners(s) /\ (Filled(s)' <=> Filled(s)) /\ ~ Filled(s)
      BY <1>2 DEF Owners, Owns, Filled, Fills, callVars
  <1>4. SlotsHold'
      BY <1>1, <1>3 DEF SlotsHold, PinsCount, Resident, SafeInv
  <1>5. ASSUME NEW u \in Users PROVE lease[u] = NoLease
    <2>1. SUFFICES ASSUME lease[u] # NoLease PROVE FALSE
        OBVIOUS
    <2>2. CASE lease[u].slot \in Slots
      <3>1. Cardinality(Owners(lease[u].slot)) = 0
          BY <1>1, <1>3, <2>2 DEF SafeInv, SlotsHold, PinsCount
      <3>2. u \in Owners(lease[u].slot)
          BY DEF Owners, Owns
      <3> QED
          BY <3>1, <3>2, OwnersFinite, FS_EmptySet
    <2>3. CASE lease[u].slot = Direct
      <3>1. u \in DirectUsers /\ Cardinality(DirectUsers) = 0
          BY <1>1, <2>3 DEF DirectUsers, SafeInv, DirectCounts
      <3>2. IsFiniteSet(DirectUsers)
          BY CacheAssumption, FS_Subset DEF DirectUsers
      <3> QED
          BY <3>1, <3>2, FS_EmptySet
    <2> QED
        BY <2>1, <2>2, <2>3, OwnFacts DEF LeaseHolds
  <1>6. UsersHold'
      BY <1>1, <1>2, <1>5 DEF UsersHold, Held, FillHolds, LeaseHolds, LookupHolds, callVars
  <1>7. IssuedHolds'
    <2>1. ASSUME NEW a \in issued PROVE a[1] < base' + names' /\ ~ (a[1] >= base')
      <3>1. a[1] \in Nat /\ a[1] < base + names
          BY <1>0 DEF SafeInv, IssuedHolds
      <3> QED
          BY <1>0, <1>1, <3>1, NamesFacts
    <2>2. ASSUME NEW o \in Ordinals
          PROVE  /\ base + MaxNames + o < base' + names' /\ (base + MaxNames + o) - base' = o
                 /\ NameAt(o)' = Cooked[o]
      <3>1. o \in Nat /\ o < CookedNames
          BY NamesFacts
      <3>2. (base + MaxNames + o) - base' = o /\ base + MaxNames + o < base' + names'
          BY <1>0, <1>1, <3>1, NamesFacts
      <3> QED
          BY <3>2 DEF NameAt
    <2>3. ASSUME NEW a \in issued'
          PROVE  a[1] < base' + names' /\ (a[1] >= base' => a[2] = NameAt(a[1] - base)')
      <3>1. CASE a \in issued
          BY <2>1, <3>1
      <3>2. ASSUME NEW o \in Ordinals, a = <<base + MaxNames + o, Cooked[o]>>
            PROVE  a[1] < base' + names' /\ a[2] = NameAt(a[1] - base)'
        <4>1. a[1] = base + MaxNames + o /\ a[2] = Cooked[o]
            BY <3>2
        <4>2. a[1] - base' = o /\ a[1] < base' + names'
            BY <2>2, <4>1
        <4> QED
            BY <2>2, <4>1, <4>2 DEF NameAt
      <3> QED
          BY <1>1, <3>1, <3>2
    <2> QED
        BY <2>3 DEF IssuedHolds
  <1>8. DirectUsers' = DirectUsers
      BY <1>2 DEF DirectUsers, callVars
  <1> QED
      BY <1>0, <1>1, <1>4, <1>6, <1>7, <1>8 DEF SafeInv, DirectCounts

LEMMA InitSafe == Init => SafeInv
  <1> SUFFICES ASSUME Init PROVE SafeInv
      OBVIOUS
  <1>1. /\ pins = [s \in Slots |-> 0] /\ atomId = [s \in Slots |-> 0] /\ base = 1
        /\ lease = [u \in Users |-> NoLease] /\ pc = [u \in Users |-> "Idle"] /\ cacheLock = Nobody
        /\ lookup = [u \in Users |-> NoLookup] /\ names = CookedNames /\ directLeases = 0
        /\ issued = {<<1 + o, Cooked[o]>> : o \in Ordinals}
      BY DEF Init, CacheInit
  <1>2. Control
    <2>1. SlotsTyped
        BY DEF Init, CacheInit, SlotsTyped
    <2>2. CallsTyped
      <3>1. NoLease \in Leases /\ NoSearch \in Searches
          BY NoLeaseTyped DEF NoSearch, Searches
      <3> QED
          BY <3>1 DEF Init, CacheInit, CallsTyped
    <2>3. NamesTyped
      <3>1. NoLookup \in Lookups
          BY DEF NoLookup, Lookups
      <3>2. \A o \in Ordinals : o \in Nat /\ Cooked[o] \in Texts
          BY CacheAssumption
      <3>3. issued \subseteq Nat \X (Texts \cup {Garbage})
          BY <1>1, <3>2
      <3>4. names \in CookedNames..MaxNames
          BY <1>1, NamesFacts
      <3> QED
          BY <3>1, <3>3, <3>4 DEF Init, NamesTyped
    <2>4. \A u \in Users : Placed(u)
        BY <1>1, CacheAssumption DEF Placed, NoLookup
    <2> QED
        BY <2>1, <2>2, <2>3, <2>4 DEF Control, Typed
  <1>3. SlotsHold
    <2>1. ASSUME NEW s \in Slots PROVE Owners(s) = {} /\ ~ Filled(s)
        BY <1>1, SlotFacts DEF Owners, Owns, Filled, Fills, NoLease
    <2> QED
        BY <1>1, <2>1, FS_EmptySet DEF SlotsHold, PinsCount, Resident
  <1>4. UsersHold
      BY <1>1 DEF UsersHold, Held, FillHolds, LeaseHolds, LookupHolds, NoLookup
  <1>5. IssuedHolds
    <2>1. ASSUME NEW o \in Ordinals PROVE o \in Nat /\ o < CookedNames /\ (1 + o) - 1 = o /\ NameAt(o) = Cooked[o]
        BY NamesFacts DEF NameAt
    <2>2. ASSUME NEW a \in issued PROVE a[1] < base + names /\ a[2] = NameAt(a[1] - base)
      <3>1. PICK o \in Ordinals : a = <<1 + o, Cooked[o]>>
          BY <1>1
      <3>2. a[1] = 1 + o /\ a[2] = Cooked[o]
          BY <3>1
      <3> QED
          BY <1>1, <2>1, <3>2, NamesFacts
    <2> QED
        BY <2>2 DEF IssuedHolds
  <1>6. DirectCounts
    <2>1. DirectUsers = {}
        BY <1>1, SlotFacts DEF DirectUsers, NoLease
    <2> QED
        BY <1>1, <2>1, FS_EmptySet DEF DirectCounts
  <1> QED
      BY <1>2, <1>3, <1>4, <1>5, <1>6 DEF SafeInv

LEMMA StutterSafe == ASSUME SafeInv, UNCHANGED vars PROVE SafeInv'
  <1>1. /\ UNCHANGED <<base, pins, atomId, generation, text, hot, cacheLock>>
        /\ UNCHANGED <<tierNext, tierCursor, lease, pc, want, spot, search>>
        /\ UNCHANGED <<names, entries, lookup, issued, directLeases>>
      BY DEF vars, cacheVars, poolVars, slotVars, budgetVars, callVars, registryVars
  <1>2. Control'
      BY <1>1 DEF SafeInv, Control, Typed, SlotsTyped, CallsTyped, NamesTyped, Placed
  <1>3. SlotsHold'
      BY <1>1 DEF SafeInv, SlotsHold, PinsCount, Resident, Filled, Fills, Owners, Owns
  <1>4. UsersHold'
      BY <1>1 DEF SafeInv, UsersHold, Held, FillHolds, LeaseHolds, LookupHolds, NameAt
  <1>5. IssuedHolds' /\ DirectCounts'
      BY <1>1 DEF SafeInv, IssuedHolds, NameAt, DirectCounts, DirectUsers
  <1> QED
      BY <1>2, <1>3, <1>4, <1>5 DEF SafeInv

\* Every step keeps the slots, the leases and the names in order.
LEMMA StepSafe == SafeInv /\ [Next]_vars => SafeInv'
  <1> SUFFICES ASSUME SafeInv, [Next]_vars PROVE SafeInv'
      OBVIOUS
  <1>1. CASE UNCHANGED vars
      BY <1>1, StutterSafe
  <1>2. CASE Retire
      BY <1>2, RetireSafe
  <1>3. ASSUME NEW u \in Users, Step(u) PROVE SafeInv'
    <2>1. CASE CacheStep(u) /\ UNCHANGED poolVars
        BY <2>1, LoadHotSafe, CheckAtomSafe, PinSafe, RecheckSafe, UnpinSafe, LockCacheSafe,
           TryVirginSafe,
           TryReuseSafe, ClearHotSafe, ClearAtomSafe, DecodeSafe, PublishSafe, OpenSafe, SetHotSafe,
           UnlockCacheSafe DEF CacheStep
    <2>2. CASE Release(u) \/ Resolve(u) \/ ReadCell(u) \/ Match(u) \/ Admit(u) \/ UnlockRegistry(u)
        BY <2>2, ReleaseSafe, ResolveSafe, ReadCellSafe, MatchSafe, AdmitSafe, UnlockRegistrySafe
    <2>3. ASSUME NEW a \in issued, Acquire(u, a[1]) PROVE SafeInv'
      <3>1. a[1] \in Nat
          BY DEF SafeInv, Control, Typed, NamesTyped
      <3> QED
          BY <2>3, <3>1, AcquireSafe
    <2>4. ASSUME NEW q \in Queries, Lookup(u, q[1], q[2]) PROVE SafeInv'
      <3>1. q[1] \in Texts /\ q[2] \in BOOLEAN
          BY PoolAssumption
      <3> QED
          BY <2>4, <3>1, FindSafe
    <2>5. CASE ReturnNothing(u) \/ LockRegistry(u) \/ PublishName(u)
        BY <2>5, FindSafe
    <2> QED
        BY <1>3, <2>1, <2>2, <2>3, <2>4, <2>5 DEF Step
  <1> QED
      BY <1>1, <1>2, <1>3 DEF Next

\* The slots, pins, leases and names are as SafeInv says in every reachable state.
THEOREM PoolSafe == Spec => []SafeInv
  BY InitSafe, StepSafe, PTL DEF Spec

LEMMA SafeLeases == SafeInv => LeasesKeepTheirText
  <1> SUFFICES ASSUME SafeInv, NEW u \in Users, lease[u] # NoLease
               PROVE  /\ \A a \in issued : a[1] = lease[u].id => Visible(lease[u]) = a[2]
                      /\ lease[u].slot # Direct => lease[u].generation = generation[lease[u].slot]
      BY DEF LeasesKeepTheirText
  <1>1. LeaseHolds(u) /\ base \in Nat \ {0}
      BY OwnFacts
  <1>2. CASE lease[u].slot = Direct
      BY <1>1, <1>2 DEF SafeInv, IssuedHolds, LeaseHolds, Visible
  <1>3. CASE lease[u].slot \in Slots
    <2>1. lease[u].id - base \in Ordinals /\ atomId[lease[u].slot] = lease[u].id /\ lease[u].id # 0
        BY <1>1, <1>3 DEF LeaseHolds
    <2>2. text[lease[u].slot] = Cooked[lease[u].id - base]
        BY <1>3, <2>1 DEF SafeInv, SlotsHold, Resident
    <2>3. Visible(lease[u]) = NameAt(lease[u].id - base)
        BY <1>3, <2>1, <2>2, SlotFacts DEF Visible, NameAt
    <2> QED
        BY <1>1, <1>3, <2>3 DEF SafeInv, IssuedHolds, LeaseHolds
  <1> QED
      BY <1>1, <1>2, <1>3 DEF LeaseHolds

\* A lease shows the text of its atom, in one decoding, until it is released.
THEOREM LeasesSafe == Spec => []LeasesKeepTheirText
  BY PoolSafe, SafeLeases, PTL

-----------------------------------------------------------------------------
(* The hints.                                                                *)

Swaps(u, s) == pc[u] \in {"ClearAtom", "Decode", "Publish", "Open", "SetHot"} /\ spot[u] = s
Swapped(s)  == \E u \in Users : Swaps(u, s)

\* Between the old hint's removal and the new one's publication no hint leads
\* to a slot; at any other time exactly the hint of its atom does.
Hints(s) ==
    IF Swapped(s) THEN \A o \in Ordinals : hot[o] # s
                  ELSE \A o \in Ordinals : hot[o] = s <=> atomId[s] = base + o

\* Under the lock a hint is current, and a pin succeeds.
Looks(u) ==
    cacheLock = u =>
        /\ pc[u] = "CheckAtom" => hot[want[u] - base] = spot[u]
        /\ pc[u] \in {"Pin", "Recheck"} => atomId[spot[u]] = want[u]
        /\ pc[u] # "Unpin"

\* A name that is being decoded has no hint yet.
Pending(u) ==
    pc[u] \in {"Virgin", "Reuse", "SetHot"} \cup Filling => hot[want[u] - base] = NoSlot

HintInv == (\A s \in Slots : Hints(s)) /\ (\A u \in Users : Looks(u) /\ Pending(u))

Safely == SafeInv /\ SafeInv' /\ HintInv

LEMMA HintOthers ==
    ASSUME Safely, NEW u \in Users, Others(u), LockMoves(u), base' = base,
           cacheLock = u \/ UNCHANGED <<hot, atomId>>, NEW v \in Users \ {u}
    PROVE  Looks(v)' /\ Pending(v)'
  <1>1. Nobody \notin Users /\ Placed(v) /\ Placed(v)'
      BY CacheAssumption DEF Safely, SafeInv, Control
  <1>2. Looks(v)'
      BY <1>1 DEF Safely, HintInv, Looks, Others, LockMoves
  <1>3. Pending(v)'
      BY <1>1 DEF Safely, HintInv, Pending, Others, LockMoves, Placed
  <1> QED
      BY <1>2, <1>3

\* A step that writes neither a hint nor an atom.
LEMMA HintsQuiet ==
    ASSUME Safely, NEW u \in Users, Others(u), LockMoves(u), UNCHANGED <<base, hot, atomId>>,
           \A s \in Slots : Swaps(u, s)' <=> Swaps(u, s), Looks(u)', Pending(u)'
    PROVE  HintInv'
  <1>1. ASSUME NEW s \in Slots PROVE Hints(s)'
    <2>1. Swapped(s)' <=> Swapped(s)
        BY DEF Swapped, Swaps, Others
    <2> QED
        BY <2>1 DEF Safely, HintInv, Hints
  <1> QED
      BY <1>1, HintOthers DEF HintInv

\* No slot is swapped while a user looks around under the lock.
LEMMA LockedCalm ==
    ASSUME SafeInv, NEW u \in Users, cacheLock = u, NEW s \in Slots, ~ Swaps(u, s)
    PROVE  ~ Swapped(s)
  BY DEF SafeInv, Control, Placed, Swapped, Swaps

LEMMA HintFacts ==
    ASSUME Safely, NEW u \in Users
    PROVE  /\ pc \in [Users -> Labels] /\ spot \in [Users -> Slots \cup {NoSlot}]
           /\ search \in [Users -> Searches] /\ want \in [Users -> Nat] /\ base \in Nat \ {0}
           /\ hot \in [Ordinals -> Slots \cup {NoSlot}] /\ atomId \in [Slots -> Nat]
           /\ lease \in [Users -> Leases] /\ lookup \in [Users -> Lookups]
           /\ Placed(u) /\ Looks(u) /\ Pending(u) /\ FillHolds(u)
  BY OwnFacts DEF Safely, SafeInv, HintInv, Control, Typed, SlotsTyped, CallsTyped, NamesTyped

LEMMA LoadHotHints ==
    ASSUME Safely, NEW u \in Users, LoadHot(u), UNCHANGED poolVars PROVE HintInv'
  <1>1. Others(u) /\ LockMoves(u) /\ UNCHANGED <<base, hot, atomId, cacheLock, want>> /\ pc[u] = "LoadHot"
      BY HintFacts DEF LoadHot, Miss, Others, LockMoves, slotVars, poolVars
  <1>2. \/ pc'[u] = "CheckAtom" /\ spot'[u] = hot[want[u] - base]
        \/ pc'[u] = "Virgin" /\ hot[want[u] - base] = NoSlot
        \/ pc'[u] \in {"Lock", "LoadHot"}
      BY HintFacts DEF LoadHot, Miss, Ordinal
  <1> QED
      BY <1>1, <1>2, HintsQuiet DEF Swaps, Looks, Pending

LEMMA CheckAtomHints ==
    ASSUME Safely, NEW u \in Users, CheckAtom(u), UNCHANGED poolVars PROVE HintInv'
  <1>1. /\ Others(u) /\ LockMoves(u) /\ UNCHANGED <<base, hot, atomId, cacheLock, want>>
        /\ pc[u] = "CheckAtom" /\ spot[u] \in Slots /\ want[u] - base \in Ordinals
      BY HintFacts DEF CheckAtom, Miss, Others, LockMoves, slotVars, poolVars, Placed
  <1>2. CASE cacheLock = u
    <2>1. hot[want[u] - base] = spot[u] /\ ~ Swapped(spot[u])
        BY <1>1, <1>2, HintFacts, LockedCalm DEF Looks, Swaps, Safely
    <2>2. atomId[spot[u]] = base + (want[u] - base)
        BY <1>1, <2>1 DEF Safely, HintInv, Hints
    <2>3. atomId[spot[u]] = want[u]
        BY <2>2, HintFacts
    <2>4. pc'[u] = "Pin" /\ spot' = spot
        BY <2>3, HintFacts DEF CheckAtom
    <2> QED
        BY <1>1, <2>3, <2>4, HintsQuiet DEF Swaps, Looks, Pending
  <1>3. CASE cacheLock # u
    <2>1. pc'[u] \in {"Pin", "Lock", "LoadHot"}
        BY <1>3, HintFacts DEF CheckAtom, Miss
    <2> QED
        BY <1>1, <1>3, <2>1, HintsQuiet DEF Swaps, Looks, Pending
  <1> QED
      BY <1>2, <1>3

\* Fewer users than the counter can hold: the pin of the lock's owner succeeds.
LEMMA PinHints ==
    ASSUME Safely, NEW u \in Users, Pin(u), UNCHANGED poolVars PROVE HintInv'
  <1>1. /\ Others(u) /\ LockMoves(u) /\ UNCHANGED <<base, hot, atomId, cacheLock, want>>
        /\ pc[u] = "Pin" /\ spot[u] \in Slots
      BY HintFacts DEF Pin, Miss, Others, LockMoves, poolVars, Placed
  <1>2. CASE cacheLock = u
    <2>1. ~ Filled(spot[u])
        BY <1>1, <1>2, OneFiller DEF Safely, SafeInv, Control, Placed, Filled, Fills
    <2>2. pins[spot[u]] = Cardinality(Owners(spot[u]))
        BY <1>1, <2>1 DEF Safely, SafeInv, SlotsHold, PinsCount
    <2>3. Cardinality(Owners(spot[u])) <= Cardinality(Users) /\ Cardinality(Owners(spot[u])) \in Nat
      <3>1. IsFiniteSet(Users) /\ Owners(spot[u]) \subseteq Users
          BY CacheAssumption DEF Owners
      <3> QED
          BY <3>1, FS_Subset, OwnersFinite
    <2>4. Cardinality(Users) \in Nat
        BY CacheAssumption, FS_CardinalityType
    <2>5. pins[spot[u]] < PinLimit - 1
        BY <2>2, <2>3, <2>4, CacheAssumption
    <2>6. pc'[u] = "Recheck" /\ spot' = spot
        BY <2>2, <2>3, <2>5, CacheAssumption, HintFacts DEF Pin
    <2> QED
        BY <1>1, <1>2, <2>6, HintFacts, HintsQuiet DEF Swaps, Looks, Pending
  <1>3. CASE cacheLock # u
    <2>1. pc'[u] \in {"Recheck", "Lock", "LoadHot"}
        BY <1>3, HintFacts DEF Pin, Miss
    <2> QED
        BY <1>1, <1>3, <2>1, HintsQuiet DEF Swaps, Looks, Pending
  <1> QED
      BY <1>2, <1>3

LEMMA RecheckHints ==
    ASSUME Safely, NEW u \in Users, Recheck(u), UNCHANGED poolVars PROVE HintInv'
  <1>1. Others(u) /\ LockMoves(u) /\ UNCHANGED <<base, hot, atomId, cacheLock>> /\ pc[u] = "Recheck"
      BY HintFacts DEF Recheck, Bind, Leave, Others, LockMoves, slotVars, poolVars
  <1>2. pc'[u] \in {"Idle", "Unlock"} \/ (pc'[u] = "Unpin" /\ cacheLock # u)
      BY HintFacts DEF Recheck, Leave, Looks
  <1> QED
      BY <1>1, <1>2, HintsQuiet DEF Swaps, Looks, Pending

LEMMA CalmHints ==
    ASSUME Safely, NEW u \in Users, UNCHANGED poolVars,
           Unpin(u) \/ LockCache(u) \/ UnlockCache(u)
    PROVE  HintInv'
  <1>1. Others(u) /\ UNCHANGED <<base, hot, atomId>> /\ pc[u] \in {"Unpin", "Lock", "Unlock"}
      BY HintFacts DEF Unpin, Miss, LockCache, UnlockCache, Leave, Others, slotVars, poolVars
  <1>2. LockMoves(u)
      BY HintFacts DEF Unpin, Miss, LockCache, UnlockCache, Leave, LockMoves, Placed
  <1>3. pc'[u] \in {"Lock", "LoadHot", "Idle"}
      BY HintFacts DEF Unpin, Miss, LockCache, UnlockCache, Leave, Looks
  <1> QED
      BY <1>1, <1>2, <1>3, HintsQuiet DEF Swaps, Looks, Pending

LEMMA WalkHints ==
    ASSUME Safely, NEW u \in Users, UNCHANGED poolVars, TryVirgin(u) \/ TryReuse(u) PROVE HintInv'
  <1>1. Others(u) /\ LockMoves(u) /\ UNCHANGED <<base, hot, atomId>> /\ pc[u] \in {"Virgin", "Reuse"}
      BY HintFacts DEF TryVirgin, TryReuse, Reserve, Leave, Others, LockMoves, poolVars
  <1>2. pc'[u] = "Unlock" \/ (pc'[u] \in {"Virgin", "Reuse", "ClearHot"} /\ want'[u] = want[u])
      BY HintFacts DEF TryVirgin, TryReuse, Reserve, Leave
  <1> QED
      BY <1>1, <1>2, HintFacts, HintsQuiet DEF Swaps, Looks, Pending

LEMMA ClearHotHints ==
    ASSUME Safely, NEW u \in Users, ClearHot(u), UNCHANGED poolVars PROVE HintInv'
  <1>1. /\ Others(u) /\ LockMoves(u) /\ UNCHANGED <<base, atomId, cacheLock, want, spot>> /\ pc[u] = "ClearHot"
        /\ pc'[u] = "ClearAtom" /\ cacheLock = u /\ spot[u] \in Slots /\ want[u] - base \in Ordinals
        /\ hot' = IF atomId[spot[u]] - base \in Ordinals
                  THEN [hot EXCEPT ![atomId[spot[u]] - base] = NoSlot] ELSE hot
      BY HintFacts DEF ClearHot, Others, LockMoves, poolVars, Placed, Ordinal
  <1>2. ASSUME NEW s \in Slots PROVE Hints(s)'
    <2>1. ~ Swapped(s) /\ \A o \in Ordinals : hot[o] = s <=> atomId[s] = base + o
        BY <1>1, LockedCalm DEF Swaps, Safely, HintInv, Hints
    <2>2. \A o \in Ordinals : atomId[s] = base + o <=> o = atomId[s] - base
        BY HintFacts, CacheAssumption
    <2>3. CASE s = spot[u]
      <3>1. Swapped(s)'
          BY <1>1, <2>3 DEF Swapped, Swaps
      <3>2. \A o \in Ordinals : hot'[o] # s
          BY <1>1, <2>1, <2>2, <2>3, SlotFacts, HintFacts
      <3> QED
          BY <3>1, <3>2 DEF Hints
    <2>4. CASE s # spot[u]
      <3>1. ~ Swapped(s)'
          BY <1>1, <2>1, <2>4 DEF Swapped, Swaps, Others
      <3>2. ASSUME NEW o \in Ordinals PROVE hot'[o] = s <=> hot[o] = s
        <4>1. CASE atomId[spot[u]] - base \in Ordinals /\ o = atomId[spot[u]] - base
          <5>1. hot[o] = spot[u]
              BY <1>1, <4>1, LockedCalm, HintFacts DEF Swaps, Safely, HintInv, Hints
          <5> QED
              BY <1>1, <2>4, <4>1, <5>1, SlotFacts, HintFacts
        <4>2. CASE ~ (atomId[spot[u]] - base \in Ordinals /\ o = atomId[spot[u]] - base)
            BY <1>1, <4>2, HintFacts
        <4> QED
            BY <4>1, <4>2
      <3> QED
          BY <1>1, <2>1, <3>1, <3>2 DEF Hints
    <2> QED
        BY <2>3, <2>4
  <1>3. Looks(u)' /\ Pending(u)'
      BY <1>1, HintFacts DEF Looks, Pending
  <1> QED
      BY <1>1, <1>2, <1>3, HintOthers DEF HintInv

LEMMA WriteAtomHints ==
    ASSUME Safely, NEW u \in Users, ClearAtom(u) \/ Publish(u), UNCHANGED poolVars PROVE HintInv'
  <1>1. /\ Others(u) /\ LockMoves(u) /\ UNCHANGED <<base, hot, cacheLock, want, spot>>
        /\ pc[u] \in {"ClearAtom", "Publish"} /\ pc'[u] \in {"Decode", "Open"}
        /\ cacheLock = u /\ spot[u] \in Slots
        /\ \A s \in Slots \ {spot[u]} : atomId'[s] = atomId[s]
      BY HintFacts DEF ClearAtom, Publish, Others, LockMoves, poolVars, Placed
  <1>2. ASSUME NEW s \in Slots PROVE Hints(s)'
    <2>1. Swapped(s)' <=> Swapped(s)
        BY <1>1 DEF Swapped, Swaps, Others
    <2>2. CASE s = spot[u]
      <3>1. Swapped(s)
          BY <1>1, <2>2 DEF Swapped, Swaps
      <3> QED
          BY <1>1, <2>1, <3>1 DEF Safely, HintInv, Hints
    <2>3. CASE s # spot[u]
        BY <1>1, <2>1, <2>3 DEF Safely, HintInv, Hints
    <2> QED
        BY <2>2, <2>3
  <1>3. Looks(u)' /\ Pending(u)'
      BY <1>1, HintFacts DEF Looks, Pending
  <1> QED
      BY <1>1, <1>2, <1>3, HintOthers DEF HintInv

LEMMA DecodeHints ==
    ASSUME Safely, NEW u \in Users, Decode(u), UNCHANGED poolVars PROVE HintInv'
  <1>1. /\ Others(u) /\ LockMoves(u) /\ UNCHANGED <<base, hot, atomId, cacheLock>> /\ cacheLock = u
        /\ pc[u] = "Decode" /\ spot[u] \in Slots /\ atomId[spot[u]] = 0
      BY HintFacts DEF Decode, Leave, Others, LockMoves, poolVars, Placed, FillHolds
  <1>2. CASE Ordinal(want[u]) \notin Damaged
    <2>1. pc'[u] = "Publish" /\ spot' = spot /\ want' = want
        BY <1>2, HintFacts DEF Decode
    <2> QED
        BY <1>1, <2>1, HintFacts, HintsQuiet DEF Swaps, Looks, Pending
  <1>3. CASE Ordinal(want[u]) \in Damaged
    <2>1. pc'[u] = "Unlock"
        BY <1>3, HintFacts DEF Decode, Leave
    <2>2. ASSUME NEW s \in Slots PROVE Hints(s)'
      <3>1. CASE s = spot[u]
        <4>1. Swapped(s) /\ \A o \in Ordinals : hot[o] # s
            BY <1>1, <3>1 DEF Swapped, Swaps, Safely, HintInv, Hints
        <4>2. \A o \in Ordinals : base + o # 0
            BY HintFacts, CacheAssumption
        <4> QED
            BY <1>1, <3>1, <4>1, <4>2 DEF Hints
      <3>2. CASE s # spot[u]
        <4>1. Swapped(s)' <=> Swapped(s)
            BY <1>1, <2>1, <3>2 DEF Swapped, Swaps, Others
        <4> QED
            BY <1>1, <4>1 DEF Safely, HintInv, Hints
      <3> QED
          BY <3>1, <3>2
    <2> QED
        BY <1>1, <2>1, <2>2, HintOthers DEF HintInv, Looks, Pending
  <1> QED
      BY <1>2, <1>3

LEMMA OpenHints ==
    ASSUME Safely, NEW u \in Users, Open(u), UNCHANGED poolVars PROVE HintInv'
  <1>1. /\ Others(u) /\ LockMoves(u) /\ UNCHANGED <<base, hot, atomId, want, spot>>
        /\ pc[u] = "Open" /\ pc'[u] = "SetHot"
      BY HintFacts DEF Open, Others, LockMoves, poolVars
  <1> QED
      BY <1>1, HintFacts, HintsQuiet DEF Swaps, Looks, Pending

LEMMA SetHotHints ==
    ASSUME Safely, NEW u \in Users, SetHot(u), UNCHANGED poolVars PROVE HintInv'
  <1>1. /\ Others(u) /\ LockMoves(u) /\ UNCHANGED <<base, atomId, cacheLock>> /\ cacheLock = u
        /\ pc[u] = "SetHot" /\ pc'[u] = "Unlock" /\ spot[u] \in Slots /\ want[u] - base \in Ordinals
        /\ hot' = [hot EXCEPT ![want[u] - base] = spot[u]] /\ atomId[spot[u]] = want[u]
        /\ hot[want[u] - base] = NoSlot
      BY HintFacts DEF SetHot, Bind, Leave, Others, LockMoves, poolVars, Placed, Ordinal,
         FillHolds, Pending
  <1>2. ASSUME NEW s \in Slots PROVE Hints(s)'
    <2>1. ~ Swapped(s)'
        BY <1>1, LockedCalm, CacheAssumption DEF Safely, SafeInv, Control, Placed, Swapped, Swaps
    <2>2. \A o \in Ordinals : base + o = want[u] <=> o = want[u] - base
        BY HintFacts, CacheAssumption
    <2>3. CASE s = spot[u]
      <3>1. \A o \in Ordinals : hot[o] # s
          BY <1>1, <2>3 DEF Swapped, Swaps, Safely, HintInv, Hints
      <3> QED
          BY <1>1, <2>1, <2>2, <2>3, <3>1, HintFacts DEF Hints
    <2>4. CASE s # spot[u]
      <3>1. \A o \in Ordinals : hot[o] = s <=> atomId[s] = base + o
          BY <1>1, <2>4, LockedCalm DEF Swaps, Safely, HintInv, Hints
      <3>2. \A o \in Ordinals : hot'[o] = s <=> hot[o] = s
          BY <1>1, <2>4, SlotFacts, HintFacts
      <3> QED
          BY <1>1, <2>1, <3>1, <3>2 DEF Hints
    <2> QED
        BY <2>3, <2>4
  <1>3. Looks(u)' /\ Pending(u)'
      BY <1>1 DEF Looks, Pending
  <1> QED
      BY <1>1, <1>2, <1>3, HintOthers DEF HintInv

\* Leases, lookups and names know nothing of the hints.
LEMMA PoolHints ==
    ASSUME Safely, NEW u \in Users, UNCHANGED <<base, hot, atomId, cacheLock>>, Others(u),
           pc[u] \in {"Idle", "Resolve"}, pc'[u] \in {"Idle", "Resolve", "LoadHot"}
    PROVE  HintInv'
  BY HintsQuiet DEF Swaps, Looks, Pending, LockMoves

LEMMA NamesHints ==
    ASSUME Safely, NEW u \in Users,
           \/ Release(u) \/ Resolve(u) \/ ReadCell(u) \/ Match(u) \/ Admit(u) \/ UnlockRegistry(u)
           \/ ReturnNothing(u) \/ LockRegistry(u) \/ PublishName(u)
           \/ (\E id \in Nat : Acquire(u, id)) \/ (\E t \in Texts, admit \in BOOLEAN : Lookup(u, t, admit))
    PROVE  HintInv'
  <1>1. UNCHANGED <<base, hot, atomId, cacheLock>>
      BY DEF Release, Resolve, ReadCell, Match, Admit, UnlockRegistry, ReturnNothing, LockRegistry,
         PublishName, Acquire, Lookup, cacheVars, slotVars
  <1>2. pc[u] \in {"Idle", "Resolve"} /\ pc'[u] \in {"Idle", "Resolve", "LoadHot"}
      BY HintFacts DEF Release, Resolve, ReadCell, Match, Admit, UnlockRegistry, ReturnNothing,
         LockRegistry,
         PublishName, Acquire, Lookup, cacheVars, callVars, Leave, Free, At
  <1>3. Others(u)
    <2>1. CASE Release(u)
        BY <2>1, HintFacts DEF Release, Others
    <2>7. CASE Resolve(u)
        BY <2>7, HintFacts DEF Resolve, Leave, Others
    <2>8. CASE \E id \in Nat : Acquire(u, id)
        BY <2>8, HintFacts DEF Acquire, Others
    <2>2. CASE ReadCell(u)
      <3>1. \A v \in Users \ {u} : lookup'[v] = lookup[v]
          BY <2>2, HintFacts DEF ReadCell, NotFound, NextCell, Found, Answer, Move
      <3>2. lease' = lease /\ spot' = spot
          BY <2>2 DEF ReadCell, callVars
      <3>3. \A v \in Users \ {u} : pc'[v] = pc[v] /\ want'[v] = want[v] /\ search'[v] = search[v]
          BY <2>2, HintFacts DEF ReadCell, callVars
      <3> QED
          BY <3>1, <3>2, <3>3 DEF Others
    <2>3. CASE Match(u)
        BY <2>3, HintFacts DEF Match, NextCell, Found, Answer, Others
    <2>4. CASE Admit(u)
        BY <2>4, HintFacts DEF Admit, Answer, Move, cacheVars, callVars, Others
    <2>6. CASE UnlockRegistry(u) \/ ReturnNothing(u)
        BY <2>6, HintFacts DEF UnlockRegistry, ReturnNothing, Answer, Move, cacheVars, callVars,
           Others
    <2>5. CASE LockRegistry(u) \/ PublishName(u) \/ (\E t \in Texts, admit \in BOOLEAN : Lookup(u, t, admit))
        BY <2>5, HintFacts DEF LockRegistry, PublishName, Lookup, Move, cacheVars, callVars, Others
    <2> QED
        BY <2>1, <2>2, <2>3, <2>4, <2>5, <2>6, <2>7, <2>8
  <1> QED
      BY <1>1, <1>2, <1>3, PoolHints

LEMMA RetireHints == ASSUME Safely, Retire PROVE HintInv'
  <1>1. /\ UNCHANGED callVars /\ \A u \in Users : pc[u] = "Idle"
        /\ hot' = [o \in Ordinals |-> NoSlot] /\ atomId' = [s \in Slots |-> 0]
      BY DEF Retire, Free
  <1>2. base' \in Nat \ {0}
      BY DEF Safely, SafeInv, Control, Typed, SlotsTyped
  <1>a. \A o \in Ordinals : o \in Nat
      BY CacheAssumption
  <1>3. \A o \in Ordinals : base' + o # 0
      BY <1>2, <1>a
  <1> QED
      BY <1>1, <1>3, SlotFacts DEF HintInv, Hints, Swapped, Swaps, Looks, Pending, callVars

LEMMA HintStep == SafeInv /\ HintInv /\ [Next]_vars => HintInv'
  <1> SUFFICES ASSUME SafeInv, HintInv, [Next]_vars PROVE HintInv'
      OBVIOUS
  <1>0. Safely
      BY StepSafe DEF Safely
  <1>1. CASE UNCHANGED vars
    <2>1. UNCHANGED <<base, hot, atomId, cacheLock, pc, spot, want>>
        BY <1>1 DEF vars, cacheVars, slotVars, callVars
    <2> QED
        BY <2>1 DEF HintInv, Hints, Swapped, Swaps, Looks, Pending
  <1>2. CASE Retire
      BY <1>0, <1>2, RetireHints
  <1>3. ASSUME NEW u \in Users, Step(u) PROVE HintInv'
    <2>1. CASE CacheStep(u) /\ UNCHANGED poolVars
        BY <1>0, <2>1, LoadHotHints, CheckAtomHints, PinHints, RecheckHints, CalmHints, WalkHints,
           ClearHotHints, WriteAtomHints, DecodeHints, OpenHints, SetHotHints DEF CacheStep
    <2>2. CASE Release(u) \/ Resolve(u) \/ ReadCell(u) \/ Match(u) \/ Admit(u) \/ UnlockRegistry(u)
        BY <1>0, <2>2, NamesHints
    <2>3. ASSUME NEW a \in issued, Acquire(u, a[1]) PROVE HintInv'
      <3>1. a[1] \in Nat
          BY DEF SafeInv, Control, Typed, NamesTyped
      <3> QED
          BY <1>0, <2>3, <3>1, NamesHints
    <2>4. ASSUME NEW q \in Queries, Lookup(u, q[1], q[2]) PROVE HintInv'
      <3>1. q[1] \in Texts /\ q[2] \in BOOLEAN
          BY PoolAssumption
      <3> QED
          BY <1>0, <2>4, <3>1, NamesHints
    <2>5. CASE ReturnNothing(u) \/ LockRegistry(u) \/ PublishName(u)
        BY <1>0, <2>5, NamesHints
    <2> QED
        BY <1>3, <2>1, <2>2, <2>3, <2>4, <2>5 DEF Step
  <1> QED
      BY <1>1, <1>2, <1>3 DEF Next

LEMMA InitHints == Init => HintInv
  <1> SUFFICES ASSUME Init PROVE HintInv
      OBVIOUS
  <1>1. /\ hot = [o \in Ordinals |-> NoSlot] /\ atomId = [s \in Slots |-> 0] /\ base = 1
        /\ pc = [u \in Users |-> "Idle"]
      BY DEF Init, CacheInit
  <1>2. \A o \in Ordinals : base + o # 0
      BY <1>1, CacheAssumption
  <1> QED
      BY <1>1, <1>2, SlotFacts DEF HintInv, Hints, Swapped, Swaps, Looks, Pending

\* While nobody replaces a slot, a decoded text is held once and its hint leads to it.
THEOREM HintsExact == Spec => []ResidentsAreFound
  <1>1. SafeInv /\ HintInv => ResidentsAreFound
    <2> SUFFICES ASSUME SafeInv, HintInv, cacheLock = Nobody, NEW s \in Slots
                 PROVE  \A o \in Ordinals : hot[o] = s <=> atomId[s] = base + o
        BY DEF ResidentsAreFound
    <2>1. ~ Swapped(s)
        BY CacheAssumption DEF SafeInv, Control, Placed, Swapped, Swaps
    <2> QED
        BY <2>1 DEF HintInv, Hints
  <1>2. Init /\ [][Next]_vars => [](SafeInv /\ HintInv)
    <2>1. Init => SafeInv /\ HintInv
        BY InitSafe, InitHints
    <2>2. (SafeInv /\ HintInv) /\ [Next]_vars => (SafeInv /\ HintInv)'
        BY StepSafe, HintStep
    <2> QED
        BY <2>1, <2>2, PTL
  <1> QED
      BY <1>1, <1>2, PTL DEF Spec

-----------------------------------------------------------------------------
(* The names.                                                                *)

\* The tags of a table are those of the first k names, each once, and a search for the text of a
\* tag passes no empty cell before it.
Lists(cells, texts, k) ==
    /\ cells \in [Cells -> 0..k]
    /\ \A c, d \in Cells : cells[c] = cells[d] /\ cells[c] # 0 => c = d
    /\ \A c \in Cells : cells[c] # 0 =>
           LET t == texts[cells[c] - 1] IN
           t \in Texts /\ \E n \in Cells : Cell(t, n) = c /\ \A m \in 0..(n - 1) : cells[Cell(t, m)] # 0

Known == [i \in 0..(MaxNames - 1) |-> NameAt(i)]
Appends == \E u \in Users : lookup[u].at = "Publish"
Filed == IF Appends THEN names - 1 ELSE names
Tagged(cells, i) == \E c \in Cells : cells[c] = i + 1
Skipped(i) == i \in Ordinals /\ base > MaxNames /\ \E d \in Damaged : d <= i

\* The table lists what has been published, but for what retireScope did not come to.
IndexTrue == Lists(table, Known, Filed) /\ \A i \in 0..(Filed - 1) : Tagged(table, i) \/ Skipped(i)

NamesDiffer ==
    \A i, j \in 0..(names - 1) : NameAt(i) = NameAt(j) => i = j \/ Unrecognized(base, NameAt(i))

\* Who has m_registryLock, and what a search under it and without it may rely on.
RegistryHeld(u) ==
    /\ lookup[u].at = "Lock" => lookup[u].admit
    /\ lookup[u].at \in {"Admit", "Publish", "Unlock"} => registryLock = u
    /\ registryLock = u => lookup[u].admit /\ lookup[u].at \in {"Read", "Match", "Admit", "Publish", "Unlock"}
    /\ lookup[u].at # "None" => lookup[u].text \in Texts
    /\ lookup[u].at = "Publish" => lookup[u].index = names /\ names > 0

\* The text lies at or behind the cell the search looks at.
Ahead(u) ==
    LET t == lookup[u].text IN
    \E n \in Cells : /\ n >= lookup[u].step
                     /\ table[Cell(t, n)] # 0 /\ NameAt(table[Cell(t, n)] - 1) = t
                     /\ \A m \in 0..(n - 1) : table[Cell(t, m)] # 0

Legible(t) == t \notin {Cooked[o] : o \in Damaged}
Sought(u) == lookup[u].present \/ (registryLock = u /\ Present(lookup[u].text))
SearchTrue(u) ==
    /\ lookup[u].at = "Match" => /\ lookup[u].step \in Cells
                                 /\ table[Cell(lookup[u].text, lookup[u].step)] = lookup[u].index
    /\ Legible(lookup[u].text) =>
           /\ lookup[u].at \in {"Read", "Match"} /\ Sought(u) => Ahead(u)
           /\ lookup[u].at \in {"Lock", "Admit", "Missing"} => ~ lookup[u].present
           /\ lookup[u].at = "Admit" => ~ Present(lookup[u].text)

Distinguished(a, b) ==
    /\ a[1] = b[1] => a[2] = b[2]
    /\ a[2] = b[2] /\ ~ Unrecognized(a[1], a[2]) =>
          a[1] = b[1] \/ (a[1] - 1) \div MaxNames # (b[1] - 1) \div MaxNames

\* The scopes follow one another; the atoms of those that ended stay distinguished.
ScopesInv ==
    /\ \E q \in Nat : base = 1 + MaxNames * q
    /\ \A a, b \in issued : a[1] < base /\ b[1] < base => Distinguished(a, b)

NamesInv ==
    /\ IndexTrue /\ NamesDiffer /\ ScopesInv
    /\ \A u \in Users : RegistryHeld(u) /\ SearchTrue(u)

\* A set of naturals that is not empty has a least element.
LEMMA Least ==
    ASSUME NEW P \in SUBSET Nat, P # {}
    PROVE  \E n \in P : \A m \in P : n <= m
  <1>1. PICK n \in P : \A m \in P : <<m, n>> \notin OpToRel(<, Nat)
      BY NatLessThanWellFounded, WFMin
  <1>2. \A m \in P : ~(m < n)
      BY <1>1 DEF OpToRel
  <1> QED
      BY <1>2

\* Induction over the members of a set.
LEMMA Upwards ==
    ASSUME NEW T, 0 \in T, \A n \in Nat : n \in T => n + 1 \in T
    PROVE  Nat \subseteq T
  <1> SUFFICES ASSUME Nat \ T # {} PROVE FALSE
      OBVIOUS
  <1>1. PICK n \in Nat \ T : \A m \in Nat \ T : n <= m
      BY Least
  <1>2. n # 0
      BY <1>1
  <1>3. n - 1 \in Nat /\ n - 1 < n
      BY <1>2
  <1>4. n - 1 \in T
      BY <1>1, <1>3
  <1>5. (n - 1) + 1 \in T
      BY <1>3, <1>4
  <1> QED
      BY <1>5

LEMMA Divided ==
    ASSUME NEW w \in Nat \ {0}, NEW x \in Int
    PROVE  \E q \in Int, m \in 0..(w - 1) : x = w * q + m /\ x % w = m /\ x \div w = q
  <1>1. x = w * (x \div w) + (x % w) /\ x \div w \in Int
      OBVIOUS
  <1>2. x % w \in 0..(w - 1)
      OBVIOUS
  <1> QED
      BY <1>1, <1>2

LEMMA NoMultipleBetween ==
    ASSUME NEW q \in Int, NEW w \in Nat, w > 0, w * q < w, w * q > -w
    PROVE  q = 0
  <1>1. CASE q <= -1
      BY <1>1
  <1>2. CASE q >= 1
      BY <1>2
  <1> QED
      BY <1>1, <1>2

LEMMA DividedOnce ==
    ASSUME NEW w \in Nat \ {0}, NEW q \in Int, NEW m \in 0..(w - 1), NEW x \in Int, x = w * q + m
    PROVE  x % w = m /\ x \div w = q
  <1>1. PICK p \in Int, l \in 0..(w - 1) : x = w * p + l /\ x % w = l /\ x \div w = p
      BY Divided
  <1>2. w * (p - q) = m - l
      BY <1>1
  <1>3. p - q = 0
      BY <1>2, NoMultipleBetween
  <1> QED
      BY <1>1, <1>3

\* From the home of a text every cell is some steps away.
LEMMA EveryCell ==
    ASSUME NEW t \in Texts, NEW c \in Cells
    PROVE  \E n \in Cells : Cell(t, n) = c
  <1> DEFINE h == Hash[t]
             w == CellCount
  <1>1. h \in Nat /\ w \in Nat \ {0} /\ c \in 0..(w - 1)
      BY PoolAssumption DEF Cells
  <1> HIDE DEF h, w
  <1>d. c - h \in Int
      BY <1>1
  <1>2. PICK p \in Int, m \in 0..(w - 1) : c - h = w * p + m
    <2>1. \E p \in Int, m \in 0..(w - 1) : c - h = w * p + m /\ (c - h) % w = m /\ (c - h) \div w = p
        BY <1>1, <1>d, Divided
    <2> QED
        BY <2>1
  <1>3. h + m = w * (-p) + c /\ h + m \in Int /\ -p \in Int
      BY <1>1, <1>2
  <1>4. (h + m) % w = c
    <2> DEFINE x == h + m
               d == -p
    <2>1. x \in Int /\ d \in Int /\ x = w * d + c /\ w \in Nat \ {0} /\ c \in 0..(w - 1)
        BY <1>1, <1>3
    <2> HIDE DEF x, d
    <2>2. x % w = c
        BY <2>1, DividedOnce
    <2> QED
        BY <2>2 DEF x
  <1>5. m \in Cells
      BY DEF Cells, w
  <1>6. Cell(t, m) = c
      BY <1>4 DEF Cell, h, w
  <1> QED
      BY <1>5, <1>6

LEMMA CellsAre ==
    /\ CellCount \in Nat /\ MaxNames \in Nat \ {0} /\ MaxNames < CellCount
    /\ IsFiniteSet(Cells) /\ Cardinality(Cells) = CellCount /\ Cells \in SUBSET Nat
    /\ \A t \in Texts, n \in Nat : Cell(t, n) \in Cells
  <1>1. CellCount \in Nat /\ MaxNames \in Nat \ {0} /\ MaxNames < CellCount
      BY PoolAssumption
  <1>2. IsFiniteSet(Cells) /\ Cardinality(Cells) = CellCount /\ Cells \in SUBSET Nat
    <2>1. IsFiniteSet(0..(CellCount - 1)) /\ Cardinality(0..(CellCount - 1)) = (CellCount - 1) - 0 + 1
        BY <1>1, FS_Interval
    <2> QED
        BY <1>1, <2>1 DEF Cells
  <1>3. ASSUME NEW t \in Texts, NEW n \in Nat PROVE Cell(t, n) \in Cells
    <2>1. Hash[t] + n \in Int /\ CellCount \in Nat \ {0}
        BY <1>1, PoolAssumption
    <2>2. PICK q \in Int, m \in 0..(CellCount - 1) : (Hash[t] + n) % CellCount = m
        BY <2>1, Divided
    <2> QED
        BY <2>2 DEF Cell, Cells
  <1> QED
      BY <1>1, <1>2, <1>3

\* Fewer names than cells leave an empty one, and a search arrives there.
LEMMA FirstEmptyIs ==
    ASSUME NEW cells, NEW texts, NEW k \in 0..MaxNames, Lists(cells, texts, k), NEW t \in Texts
    PROVE  \E n \in Cells : /\ FirstEmpty(cells, t) = Cell(t, n) /\ cells[Cell(t, n)] = 0
                            /\ \A m \in 0..(n - 1) : cells[Cell(t, m)] # 0
  <1> DEFINE P == {n \in Cells : cells[Cell(t, n)] = 0}
             Is(n) == cells[Cell(t, n)] = 0 /\ \A m \in 0..(n - 1) : cells[Cell(t, m)] # 0
  <1>1. \E c \in Cells : cells[c] = 0
    <2> SUFFICES ASSUME \A c \in Cells : cells[c] # 0 PROVE FALSE
        OBVIOUS
    <2>1. cells \in [Cells -> 1..k]
        BY DEF Lists
    <2>k. k \in Nat /\ k <= MaxNames /\ 1 \in Int /\ k \in Int
        BY CellsAre
    <2>i. IsFiniteSet(1..k) /\ Cardinality(1..k) = IF 1 > k THEN 0 ELSE k - 1 + 1
        BY <2>k, FS_Interval
    <2>2. Cardinality(1..k) <= k /\ Cardinality(1..k) \in Nat
        BY <2>i, <2>k
    <2>3. Cardinality(1..k) < Cardinality(Cells) /\ IsFiniteSet(Cells)
        BY <2>2, <2>k, CellsAre
    <2> DEFINE T == 1..k
    <2>5. IsFiniteSet(T) /\ Cardinality(T) < Cardinality(Cells) /\ cells \in [Cells -> T]
        BY <2>1, <2>i, <2>3
    <2> HIDE DEF T
    <2>4. \E c, d \in Cells : c # d /\ cells[c] = cells[d]
        BY <2>3, <2>5, FS_PigeonHole
    <2> QED
        BY <2>4 DEF Lists
  <1>2. P # {} /\ P \in SUBSET Nat
      BY <1>1, EveryCell, CellsAre
  <1>3. PICK n \in P : \A m \in P : n <= m
      BY <1>2, Least
  <1>4. n \in Cells /\ Is(n)
    <2>1. ASSUME NEW m \in 0..(n - 1) PROVE cells[Cell(t, m)] # 0
      <3>1. m \in Cells /\ m < n /\ m \in Nat /\ n \in Nat
          BY <1>3, CellsAre DEF Cells
      <3>2. m \notin P
          BY <1>3, <3>1
      <3> QED
          BY <3>1, <3>2
    <2> QED
        BY <1>3, <2>1
  <1>5. FirstEmpty(cells, t) = Cell(t, CHOOSE i \in Cells : Is(i))
      BY DEF FirstEmpty
  <1> HIDE DEF Is
  <1>6. (CHOOSE i \in Cells : Is(i)) \in Cells /\ Is(CHOOSE i \in Cells : Is(i))
      BY <1>4
  <1> QED
      BY <1>5, <1>6 DEF Is

\* The next name goes into an empty cell that a search for it reaches.
WithTag(cells, t, k) == [cells EXCEPT ![FirstEmpty(cells, t)] = k + 1]

LEMMA ListsNext ==
    ASSUME NEW cells, NEW texts, NEW k \in 0..MaxNames, k < MaxNames, Lists(cells, texts, k),
           NEW t \in Texts, texts[k] = t
    PROVE  /\ Lists(WithTag(cells, t, k), texts, k + 1) /\ Tagged(WithTag(cells, t, k), k)
           /\ \A c \in Cells : cells[c] # 0 => WithTag(cells, t, k)[c] = cells[c]
  <1> DEFINE after == WithTag(cells, t, k)
  <1>a. after = [cells EXCEPT ![FirstEmpty(cells, t)] = k + 1]
      BY DEF WithTag
  <1> HIDE DEF after
  <1>1. PICK n \in Cells : /\ FirstEmpty(cells, t) = Cell(t, n) /\ cells[Cell(t, n)] = 0
                           /\ \A m \in 0..(n - 1) : cells[Cell(t, m)] # 0
      BY FirstEmptyIs
  <1> DEFINE e == Cell(t, n)
  <1>2. k \in Nat /\ e \in Cells /\ cells \in [Cells -> 0..k] /\ cells[e] = 0
      BY <1>1, CellsAre DEF Lists
  <1>3. after \in [Cells -> 0..(k + 1)] /\ after[e] = k + 1 /\ \A c \in Cells \ {e} : after[c] = cells[c]
      BY <1>a, <1>1, <1>2
  <1>4. \A c \in Cells : cells[c] # 0 => after[c] = cells[c]
      BY <1>2, <1>3
  <1>f. \A c \in Cells : cells[c] # 0 => after[c] # 0
      BY <1>4
  <1>5. ASSUME NEW c \in Cells, NEW d \in Cells, after[c] = after[d], after[c] # 0 PROVE c = d
    <2>1. \A b \in Cells \ {e} : after[b] # k + 1
        BY <1>2, <1>3
    <2>2. CASE c = e \/ d = e
        BY <1>3, <1>5, <2>1, <2>2
    <2>3. CASE c # e /\ d # e
        BY <1>3, <1>5, <2>3 DEF Lists
    <2> QED
        BY <2>2, <2>3
  <1>6. ASSUME NEW c \in Cells, after[c] # 0
        PROVE  /\ texts[after[c] - 1] \in Texts
               /\ \E i \in Cells : /\ Cell(texts[after[c] - 1], i) = c
                                   /\ \A m \in 0..(i - 1) : after[Cell(texts[after[c] - 1], m)] # 0
    <2>1. CASE c = e
      <3>1. after[c] - 1 = k
          BY <1>2, <1>3, <2>1
      <3>2. ASSUME NEW m \in 0..(n - 1) PROVE Cell(t, m) \in Cells
        <4>1. m \in Nat
            BY CellsAre
        <4> QED
            BY <4>1, CellsAre
      <3>3. \A m \in 0..(n - 1) : after[Cell(t, m)] # 0
          BY <1>1, <1>f, <3>2
      <3> QED
          BY <2>1, <3>1, <3>3
    <2>2. CASE c # e
      <3>1. after[c] = cells[c]
          BY <1>3, <2>2
      <3> DEFINE s == texts[cells[c] - 1]
      <3>2. s \in Texts /\ \E i \in Cells : Cell(s, i) = c /\ \A m \in 0..(i - 1) : cells[Cell(s, m)] # 0
          BY <1>6, <3>1 DEF Lists
      <3>3. PICK i \in Cells : Cell(s, i) = c /\ \A m \in 0..(i - 1) : cells[Cell(s, m)] # 0
          BY <3>2
      <3>4. ASSUME NEW m \in 0..(i - 1) PROVE after[Cell(s, m)] # 0
        <4>1. cells[Cell(s, m)] # 0 /\ m \in Nat
            BY <3>3, CellsAre
        <4> QED
            BY <1>f, <3>2, <4>1, CellsAre
      <3> QED
          BY <3>1, <3>2, <3>3, <3>4
    <2> QED
        BY <2>1, <2>2
  <1>7. Tagged(after, k)
      BY <1>2, <1>3 DEF Tagged
  <1>8. Lists(after, texts, k + 1)
      BY <1>3, <1>5, <1>6 DEF Lists
  <1> QED
      BY <1>4, <1>7, <1>8 DEF after

\* A table lists the first names also among more of them.
LEMMA ListsMore ==
    ASSUME NEW cells, NEW texts, NEW k \in Nat, Lists(cells, texts, k), NEW j \in Nat, k <= j,
           NEW others, \A i \in 0..(k - 1) : others[i] = texts[i]
    PROVE  Lists(cells, others, j)
  <1>1. cells \in [Cells -> 0..k]
      BY DEF Lists
  <1>2. cells \in [Cells -> 0..j]
      BY <1>1
  <1>3. ASSUME NEW c \in Cells, cells[c] # 0 PROVE others[cells[c] - 1] = texts[cells[c] - 1]
      BY <1>1, <1>3
  <1> QED
      BY <1>2, <1>3 DEF Lists

\* What Indexed iterates.
WithCooked(cells, n) == [cells EXCEPT ![FirstEmpty(cells, Cooked[n - 1])] = n]
Builds(build, count) ==
    build = [n \in 0..count |-> IF n = 0 THEN [c \in Cells |-> 0] ELSE WithCooked(build[n - 1], n)]

LEMMA IndexedIs == \A count : Indexed(count) = (CHOOSE build : Builds(build, count))[count]
  BY DEF Indexed, Builds, WithCooked

LEMMA BuildsExists ==
    ASSUME NEW count \in Nat
    PROVE  \E build : Builds(build, count)
  <1> DEFINE Empty == [c \in Cells |-> 0]
             Is(w, k) == /\ w \in [0..k -> [Cells -> Nat]] /\ w[0] = Empty
                         /\ \A n \in 1..k : w[n] = WithCooked(w[n - 1], n)
             T == {k \in Nat : \E w : Is(w, k)}
  <1>1. 0 \in T
    <2>1. Is([n \in 0..0 |-> Empty], 0)
        OBVIOUS
    <2> QED
        BY <2>1
  <1>2. ASSUME NEW k \in Nat, k \in T PROVE k + 1 \in T
    <2>1. PICK w : Is(w, k)
        BY <1>2
    <2> DEFINE last == WithCooked(w[k], k + 1)
               v == [n \in 0..(k + 1) |-> IF n = k + 1 THEN last ELSE w[n]]
    <2>2. last \in [Cells -> Nat]
      <3>1. w[k] \in [Cells -> Nat]
          BY <2>1
      <3>2. ASSUME NEW f \in [Cells -> Nat], NEW c PROVE [f EXCEPT ![c] = k + 1] \in [Cells -> Nat]
        <4>1. k + 1 \in Nat
            OBVIOUS
        <4> QED
            BY <4>1
      <3> QED
          BY <3>1, <3>2 DEF WithCooked
    <2> HIDE DEF last
    <2>3. v \in [0..(k + 1) -> [Cells -> Nat]] /\ v[0] = Empty
        BY <2>1, <2>2
    <2>4. ASSUME NEW n \in 1..(k + 1) PROVE v[n] = WithCooked(v[n - 1], n)
      <3>1. CASE n = k + 1
        <4>1. v[n] = last /\ v[n - 1] = w[k] /\ n - 1 \in 0..(k + 1)
            BY <3>1
        <4> QED
            BY <3>1, <4>1 DEF last
      <3>2. CASE n # k + 1
        <4>1. v[n] = w[n] /\ v[n - 1] = w[n - 1] /\ n \in 1..k
            BY <3>2
        <4> QED
            BY <2>1, <4>1
      <3> QED
          BY <3>1, <3>2
    <2> HIDE DEF v
    <2>5. Is(v, k + 1)
        BY <2>3, <2>4
    <2> HIDE DEF Is
    <2>6. \E u : Is(u, k + 1)
        BY <2>5
    <2>7. k + 1 \in Nat
        OBVIOUS
    <2> QED
        BY <2>6, <2>7
  <1>3. count \in T
    <2> HIDE DEF T
    <2> QED
        BY <1>1, <1>2, Upwards
  <1>4. PICK w : Is(w, count)
      BY <1>3
  <1> DEFINE G(n) == IF n = 0 THEN Empty ELSE WithCooked(w[n - 1], n)
  <1>5. \A n \in 0..count : w[n] = G(n)
      BY <1>4
  <1>6. w = [n \in 0..count |-> w[n]]
      BY <1>4
  <1> HIDE DEF G
  <1>7. w = [n \in 0..count |-> G(n)]
      BY <1>5, <1>6
  <1> QED
      BY <1>7 DEF Builds, G

LEMMA BuildsSteps ==
    ASSUME NEW count \in Nat, NEW build, Builds(build, count)
    PROVE  /\ build[0] = [c \in Cells |-> 0]
           /\ \A n \in 1..count : build[n] = WithCooked(build[n - 1], n)
  <1> DEFINE G(n) == IF n = 0 THEN [c \in Cells |-> 0] ELSE WithCooked(build[n - 1], n)
  <1> HIDE DEF G
  <1>1. build = [n \in 0..count |-> G(n)]
      BY DEF Builds, G
  <1>2. \A n \in 0..count : build[n] = G(n)
      BY <1>1
  <1>3. build[0] = [c \in Cells |-> 0]
    <2>1. build[0] = G(0)
        BY <1>2
    <2> QED
        BY <2>1 DEF G
  <1>4. ASSUME NEW n \in 1..count PROVE build[n] = WithCooked(build[n - 1], n)
    <2>1. build[n] = G(n) /\ n # 0
        BY <1>2
    <2> QED
        BY <2>1 DEF G
  <1> QED
      BY <1>3, <1>4

\* The index of the cooked names below count lists them all.
LEMMA IndexedLists ==
    ASSUME NEW count \in 0..CookedNames
    PROVE  Lists(Indexed(count), Cooked, count) /\ \A i \in 0..(count - 1) : Tagged(Indexed(count), i)
  <1>1. count \in Nat /\ count <= MaxNames /\ CookedNames \in Nat
      BY NamesFacts
  <1> DEFINE w == CHOOSE build : Builds(build, count)
  <1>2. Builds(w, count)
      BY <1>1, BuildsExists
  <1> HIDE DEF w
  <1>3. w[0] = [c \in Cells |-> 0] /\ \A n \in 1..count : w[n] = WithCooked(w[n - 1], n)
      BY <1>1, <1>2, BuildsSteps
  <1> DEFINE Listed(n) == Lists(w[n], Cooked, n) /\ \A i \in 0..(n - 1) : Tagged(w[n], i)
             T == {n \in Nat : n <= count => Listed(n)}
  <1>4. 0 \in T
      BY <1>3 DEF Lists
  <1>5. ASSUME NEW n \in Nat, n \in T PROVE n + 1 \in T
    <2> SUFFICES ASSUME n + 1 <= count PROVE Listed(n + 1)
        OBVIOUS
    <2>1. Listed(n)
        BY <1>1, <1>5
    <2>2. n \in 0..MaxNames /\ n < MaxNames /\ n \in Ordinals /\ Cooked[n] \in Texts
        BY <1>1, NamesFacts, CacheAssumption
    <2>3. w[n + 1] = WithTag(w[n], Cooked[n], n)
      <3>1. n + 1 \in 1..count /\ (n + 1) - 1 = n
          BY <1>1
      <3> QED
          BY <1>3, <3>1 DEF WithCooked, WithTag
    <2>4. Lists(w[n + 1], Cooked, n + 1) /\ Tagged(w[n + 1], n) /\ \A c \in Cells : w[n][c] # 0 => w[n + 1][c] = w[n][c]
        BY <2>1, <2>2, <2>3, ListsNext
    <2>5. ASSUME NEW i \in 0..n PROVE Tagged(w[n + 1], i)
      <3>1. CASE i = n
          BY <2>4, <3>1
      <3>2. CASE i # n
        <4>1. PICK c \in Cells : w[n][c] = i + 1
            BY <2>1, <3>2 DEF Tagged
        <4> QED
            BY <2>4, <4>1 DEF Tagged
      <3> QED
          BY <3>1, <3>2
    <2>6. 0..((n + 1) - 1) = 0..n
        OBVIOUS
    <2> QED
        BY <2>4, <2>5, <2>6
  <1>6. count \in T
    <2> HIDE DEF T
    <2> QED
        BY <1>1, <1>4, <1>5, Upwards
  <1>7. Indexed(count) = w[count]
      BY IndexedIs DEF w
  <1> QED
      BY <1>1, <1>6, <1>7

LEMMA NamesAre ==
    ASSUME SafeInv, NamesInv
    PROVE  /\ names \in Nat /\ names <= MaxNames /\ CookedNames <= names /\ base \in Nat \ {0}
           /\ Filed \in 0..names /\ Filed \in 0..MaxNames
           /\ table \in [Cells -> 0..Filed] /\ lookup \in [Users -> Lookups] /\ Nobody \notin Users
           /\ issued \subseteq Nat \X (Texts \cup {Garbage})
           /\ \A c \in Cells : table[c] # 0 =>
                 table[c] - 1 \in 0..(names - 1) /\ Known[table[c] - 1] = NameAt(table[c] - 1)
  <1>1. /\ names \in Nat /\ names <= MaxNames /\ CookedNames <= names /\ base \in Nat \ {0}
        /\ lookup \in [Users -> Lookups] /\ Nobody \notin Users
        /\ issued \subseteq Nat \X (Texts \cup {Garbage}) /\ MaxNames \in Nat
      BY NamesFacts, CacheAssumption DEF SafeInv, Control, Typed, SlotsTyped, NamesTyped
  <1>2. Appends => names > 0
      BY DEF Appends, NamesInv, RegistryHeld
  <1>3. Filed \in 0..names /\ Filed \in 0..MaxNames
      BY <1>1, <1>2 DEF Filed
  <1>4. table \in [Cells -> 0..Filed]
      BY DEF NamesInv, IndexTrue, Lists
  <1>5. ASSUME NEW c \in Cells, table[c] # 0
        PROVE  table[c] - 1 \in 0..(names - 1) /\ Known[table[c] - 1] = NameAt(table[c] - 1)
    <2>1. table[c] \in 0..Filed
        BY <1>4
    <2>2. table[c] - 1 \in 0..(names - 1) /\ table[c] - 1 \in 0..(MaxNames - 1)
        BY <1>1, <1>3, <1>5, <2>1
    <2> QED
        BY <2>2 DEF Known
  <1> QED
      BY <1>1, <1>3, <1>4, <1>5

\* A text in the table lies on the way of every search for it.
LEMMA PresentAhead ==
    ASSUME SafeInv, NamesInv, NEW t, Present(t)
    PROVE  \E n \in Cells : /\ table[Cell(t, n)] # 0 /\ NameAt(table[Cell(t, n)] - 1) = t
                            /\ \A m \in 0..(n - 1) : table[Cell(t, m)] # 0
  <1>1. PICK c \in Cells : table[c] # 0 /\ NameAt(table[c] - 1) = t
      BY DEF Present
  <1>2. Known[table[c] - 1] = t
      BY <1>1, NamesAre
  <1> QED
      BY <1>1, <1>2 DEF NamesInv, IndexTrue, Lists

LEMMA NamesQuiet ==
    ASSUME NamesInv, UNCHANGED <<base, table, entries, names, registryLock, lookup, issued>>
    PROVE  NamesInv'
  <1>0. Known' = Known /\ Filed' = Filed /\ \A i : NameAt(i)' = NameAt(i)
      BY DEF Known, NameAt, Filed, Appends
  <1>1. IndexTrue' /\ NamesDiffer'
    <2>1. IndexTrue'
        BY <1>0 DEF NamesInv, IndexTrue, Lists, Tagged, Skipped
    <2>2. NamesDiffer'
        BY DEF NamesInv, NamesDiffer, Unrecognized, NameAt
    <2> QED
        BY <2>1, <2>2
  <1>2. ScopesInv'
      BY DEF NamesInv, ScopesInv
  <1>3. \A u \in Users : RegistryHeld(u)' /\ SearchTrue(u)'
      BY DEF NamesInv, RegistryHeld, SearchTrue, Sought, Ahead, Present, NameAt
  <1> QED
      BY <1>1, <1>2, <1>3 DEF NamesInv

\* A step of a search that does not touch the registry.
LEMMA NamesCalm ==
    ASSUME SafeInv, NamesInv, NEW u \in Users, UNCHANGED <<base, table, entries, names>>,
           \A v \in Users \ {u} : lookup'[v] = lookup[v],
           lookup[u].at # "Publish", lookup'[u].at # "Publish",
           registryLock' = registryLock \/ (registryLock \in {u, Nobody} /\ registryLock' \in {u, Nobody}),
           \A a \in issued' : a \in issued \/ ~ (a[1] < base),
           RegistryHeld(u)', SearchTrue(u)'
    PROVE  NamesInv'
  <1>1. Appends' <=> Appends
      BY DEF Appends
  <1>0. Known' = Known /\ Filed' = Filed
      BY <1>1 DEF Known, NameAt, Filed
  <1>2. IndexTrue' /\ NamesDiffer'
    <2>1. IndexTrue'
        BY <1>0 DEF NamesInv, IndexTrue, Lists, Tagged, Skipped
    <2>2. NamesDiffer'
        BY DEF NamesInv, NamesDiffer, Unrecognized, NameAt
    <2> QED
        BY <2>1, <2>2
  <1>3. ScopesInv'
      BY DEF NamesInv, ScopesInv
  <1>4. ASSUME NEW v \in Users \ {u} PROVE RegistryHeld(v)' /\ SearchTrue(v)'
    <2>1. /\ lookup'[v] = lookup[v] /\ (registryLock' = v <=> registryLock = v)
          /\ RegistryHeld(v) /\ SearchTrue(v)
        BY NamesAre DEF NamesInv
    <2>2. RegistryHeld(v)'
        BY <2>1 DEF RegistryHeld
    <2>3. SearchTrue(v)'
        BY <2>1 DEF SearchTrue, Sought, Ahead, Present, NameAt
    <2> QED
        BY <2>2, <2>3
  <1> QED
      BY <1>2, <1>3, <1>4 DEF NamesInv

\* The atom an answer gives out is one of this scope.
LEMMA FoundNames ==
    ASSUME SafeInv, NamesInv, NEW u \in Users, NEW i \in Nat, Found(u, i),
           lookup[u].at \in {"Read", "Match"}, UNCHANGED <<base, table, entries, names, registryLock>>
    PROVE  NamesInv'
  <1>0. lookup \in [Users -> Lookups] /\ base \in Nat /\ RegistryHeld(u)
      BY NamesAre DEF NamesInv
  <1>1. CASE registryLock = u
    <2>1. lookup'[u] = [lookup[u] EXCEPT !.at = "Unlock", !.index = i + 1] /\ issued' = issued
        BY <1>0, <1>1 DEF Found
    <2>2. lookup'[u].at = "Unlock" /\ lookup'[u].text = lookup[u].text /\ lookup'[u].admit = lookup[u].admit
        BY <1>0, <2>1 DEF Lookups
    <2>3. RegistryHeld(u)' /\ SearchTrue(u)'
        BY <1>0, <1>1, <2>2 DEF RegistryHeld, SearchTrue
    <2>4. \A v \in Users \ {u} : lookup'[v] = lookup[v]
        BY <1>0, <1>1 DEF Found
    <2> QED
        BY <2>1, <2>2, <2>3, <2>4, NamesCalm
  <1>2. CASE registryLock # u
    <2>1. lookup' = [lookup EXCEPT ![u] = NoLookup] /\ issued' = issued \cup {<<base + i, lookup[u].text>>}
        BY <1>2 DEF Found, Answer
    <2>2. lookup'[u].at = "None"
        BY <1>0, <2>1 DEF NoLookup
    <2>3. RegistryHeld(u)' /\ SearchTrue(u)'
        BY <1>2, <2>2 DEF RegistryHeld, SearchTrue
    <2>4. \A a \in issued' : a \in issued \/ ~ (a[1] < base)
        BY <1>0, <2>1
    <2>5. \A v \in Users \ {u} : lookup'[v] = lookup[v]
        BY <1>0, <2>1
    <2> QED
        BY <2>2, <2>3, <2>4, <2>5, NamesCalm
  <1> QED
      BY <1>1, <1>2

\* A search goes on from a cell that does not hold its text.
LEMMA NextCellNames ==
    ASSUME SafeInv, NamesInv, NEW u \in Users, NextCell(u), lookup[u].at \in {"Read", "Match"},
           LET tag == table[Cell(lookup[u].text, lookup[u].step)] IN
               Legible(lookup[u].text) /\ tag # 0 => NameAt(tag - 1) # lookup[u].text,
           UNCHANGED <<base, table, entries, names, registryLock>>
    PROVE  NamesInv'
  <1> DEFINE t == lookup[u].text
             s == lookup[u].step
  <1>0. lookup \in [Users -> Lookups] /\ RegistryHeld(u) /\ SearchTrue(u) /\ s \in Nat
      BY NamesAre DEF NamesInv, Lookups
  <1>1. lookup'[u] = [lookup[u] EXCEPT !.at = "Read", !.step = s + 1, !.index = 0] /\ issued' = issued
      BY <1>0 DEF NextCell
  <1>2. /\ lookup'[u].at = "Read" /\ lookup'[u].step = s + 1 /\ lookup'[u].text = t
        /\ lookup'[u].admit = lookup[u].admit /\ lookup'[u].present = lookup[u].present
      BY <1>0, <1>1 DEF Lookups
  <1>3. RegistryHeld(u)'
      BY <1>0, <1>2 DEF RegistryHeld
  <1>4. SearchTrue(u)'
    <2>1. Sought(u)' <=> Sought(u)
        BY <1>2 DEF Sought, Present, NameAt
    <2>2. ASSUME Legible(t), Sought(u) PROVE Ahead(u)'
      <3>1. PICK n \in Cells : /\ n >= s /\ table[Cell(t, n)] # 0 /\ NameAt(table[Cell(t, n)] - 1) = t
                               /\ \A m \in 0..(n - 1) : table[Cell(t, m)] # 0
          BY <1>0, <2>2 DEF SearchTrue, Ahead
      <3>2. n # s
          BY <2>2, <3>1
      <3>3. n >= s + 1
          BY <1>0, <3>1, <3>2, CellsAre
      <3> QED
          BY <1>2, <3>1, <3>3 DEF Ahead, NameAt
    <2> QED
        BY <1>2, <2>1, <2>2 DEF SearchTrue
  <1>5. \A v \in Users \ {u} : lookup'[v] = lookup[v]
      BY <1>0 DEF NextCell
  <1> QED
      BY <1>1, <1>2, <1>3, <1>4, <1>5, NamesCalm

\* An empty cell ends the search of a text that is not there.
LEMMA NotFoundNames ==
    ASSUME SafeInv, NamesInv, NEW u \in Users, NotFound(u), lookup[u].at = "Read",
           lookup[u].step = CellCount \/ table[Cell(lookup[u].text, lookup[u].step)] = 0,
           UNCHANGED <<base, table, entries, names, registryLock>>
    PROVE  NamesInv'
  <1> DEFINE t == lookup[u].text
             s == lookup[u].step
  <1>0. lookup \in [Users -> Lookups] /\ RegistryHeld(u) /\ SearchTrue(u) /\ s \in Nat
      BY NamesAre DEF NamesInv, Lookups
  <1>1. PICK a \in {"Admit", "Lock", "Missing"} :
            /\ lookup' = [lookup EXCEPT ![u].at = a] /\ issued' = issued
            /\ a = "Admit" <=> lookup[u].admit /\ registryLock = u
            /\ a = "Missing" <=> ~ lookup[u].admit
      BY DEF NotFound, Move
  <1>2. /\ lookup'[u].at = a /\ lookup'[u].text = t
        /\ lookup'[u].admit = lookup[u].admit /\ lookup'[u].present = lookup[u].present
      BY <1>0, <1>1 DEF Lookups
  <1>3. RegistryHeld(u)'
      BY <1>0, <1>1, <1>2 DEF RegistryHeld
  <1>4. SearchTrue(u)'
    <2>1. ASSUME Legible(t), Sought(u) PROVE FALSE
      <3>1. PICK n \in Cells : /\ n >= s /\ table[Cell(t, n)] # 0 /\ NameAt(table[Cell(t, n)] - 1) = t
                               /\ \A m \in 0..(n - 1) : table[Cell(t, m)] # 0
          BY <1>0, <2>1 DEF SearchTrue, Ahead
      <3>2. n \in Nat /\ n < CellCount
          BY CellsAre DEF Cells
      <3>3. s # CellCount /\ (s = n \/ s \in 0..(n - 1))
          BY <1>0, <3>1, <3>2, CellsAre
      <3> QED
          BY <3>1, <3>3
    <2>2. Legible(t) => ~ lookup[u].present /\ (registryLock = u => ~ Present(t))
        BY <2>1 DEF Sought
    <2>3. Present(t)' <=> Present(t)
        BY <1>2 DEF Present, NameAt
    <2> QED
        BY <1>1, <1>2, <2>2, <2>3 DEF SearchTrue, Present
  <1>5. \A v \in Users \ {u} : lookup'[v] = lookup[v]
      BY <1>0, <1>1
  <1> QED
      BY <1>1, <1>2, <1>3, <1>4, <1>5, NamesCalm

LEMMA ReadCellNames ==
    ASSUME SafeInv, NamesInv, NEW u \in Users, ReadCell(u) PROVE NamesInv'
  <1> DEFINE t == lookup[u].text
             s == lookup[u].step
             tag == table[Cell(t, s)]
             index == tag - 1
  <1>0. /\ lookup \in [Users -> Lookups] /\ RegistryHeld(u) /\ SearchTrue(u) /\ s \in Nat
        /\ t \in Texts /\ lookup[u].at = "Read" /\ names \in Nat
      BY NamesAre DEF NamesInv, Lookups, ReadCell, At, RegistryHeld
  <1>1. UNCHANGED <<base, table, entries, names, registryLock>>
      BY DEF ReadCell, registryVars
  <1>2. CASE s = CellCount \/ tag = 0
    <2>1. NotFound(u)
        BY <1>0, <1>2, CellsAre DEF ReadCell
    <2> QED
        BY <1>0, <1>1, <1>2, <2>1, NotFoundNames
  <1>3. CASE s < CellCount /\ tag # 0
    <2>1. s \in Cells /\ Cell(t, s) \in Cells /\ s # CellCount
      <3>1. CellCount \in Nat /\ \A w \in Texts, n \in Nat : Cell(w, n) \in Cells
          BY CellsAre
      <3>2. s \in Cells /\ s # CellCount
          BY <1>0, <1>3, <3>1 DEF Cells
      <3> QED
          BY <1>0, <3>1, <3>2
    <2>2. index \in 0..(names - 1) /\ index \in Nat /\ index + 1 = tag
        BY <1>0, <1>3, <2>1, NamesAre
    <2>3. CASE NextCell(u) /\ NameAt(index) # t
        BY <1>0, <1>1, <2>3, NextCellNames
    <2>4. CASE Found(u, index)
        BY <1>0, <1>1, <2>2, <2>4, FoundNames
    <2>5. CASE /\ lookup' = [lookup EXCEPT ![u].at = "Match", ![u].index = index + 1]
               /\ issued' = issued
      <3>1. lookup'[u] = [lookup[u] EXCEPT !.at = "Match", !.index = index + 1]
          BY <1>0, <2>5
      <3>2. /\ lookup'[u].at = "Match" /\ lookup'[u].index = tag /\ lookup'[u].text = t
            /\ lookup'[u].admit = lookup[u].admit /\ lookup'[u].present = lookup[u].present
            /\ lookup'[u].step = s
          BY <1>0, <2>2, <3>1 DEF Lookups
      <3>3. RegistryHeld(u)'
          BY <1>0, <1>1, <3>2 DEF RegistryHeld
      <3>4. SearchTrue(u)'
          BY <1>0, <1>1, <2>1, <3>2 DEF SearchTrue, Sought, Ahead, Present, NameAt
      <3>5. \A v \in Users \ {u} : lookup'[v] = lookup[v]
          BY <1>0, <2>5
      <3> QED
          BY <1>0, <1>1, <2>5, <3>2, <3>3, <3>4, <3>5, NamesCalm
    <2>6. \/ NextCell(u) /\ NameAt(index) # t
          \/ Found(u, index)
          \/ lookup' = [lookup EXCEPT ![u].at = "Match", ![u].index = index + 1] /\ issued' = issued
        BY <1>3, <2>1, <2>2 DEF ReadCell
    <2> QED
        BY <2>3, <2>4, <2>5, <2>6
  <1>4. (s = CellCount \/ tag = 0) \/ (s < CellCount /\ tag # 0)
      BY DEF ReadCell
  <1> QED
      BY <1>2, <1>3, <1>4

LEMMA MatchNames ==
    ASSUME SafeInv, NamesInv, NEW u \in Users, Match(u) PROVE NamesInv'
  <1> DEFINE t == lookup[u].text
             index == lookup[u].index - 1
  <1>0. /\ lookup \in [Users -> Lookups] /\ SearchTrue(u) /\ lookup[u].at = "Match"
        /\ index \in Ordinals /\ index \in Nat /\ pc[u] = "Idle"
      BY NamesAre, OwnFacts, CacheAssumption DEF NamesInv, Match, At, LookupHolds
  <1>1. UNCHANGED <<base, table, entries, names, registryLock>>
      BY DEF Match, registryVars
  <1>2. table[Cell(t, lookup[u].step)] - 1 = index
      BY <1>0 DEF SearchTrue
  <1>3. CASE Found(u, index)
      BY <1>0, <1>1, <1>3, FoundNames
  <1>4. CASE NextCell(u) /\ ~ Found(u, index)
    <2>1. NameAt(index) = Cooked[index]
        BY <1>0 DEF NameAt
    <2>2. ASSUME Legible(t), Cooked[index] = t PROVE FALSE
      <3>1. CASE lease[u] = NoLease
        <4>1. index \notin Damaged
            BY <2>2 DEF Legible
        <4> QED
            BY <1>4, <2>2, <3>1, <4>1 DEF Match
      <3>2. CASE lease[u] # NoLease
        <4>1. lease[u].slot \in Slots /\ lease[u].id = base + index /\ atomId[lease[u].slot] = lease[u].id
            BY <1>0, <3>2, OwnFacts DEF LookupHolds, LeaseHolds
        <4>2. atomId[lease[u].slot] # 0 /\ atomId[lease[u].slot] - base = index
            BY <1>0, <4>1, OwnFacts
        <4>3. text[lease[u].slot] = Cooked[index]
            BY <4>1, <4>2 DEF SafeInv, SlotsHold, Resident
        <4> QED
            BY <1>4, <2>2, <3>2, <4>3 DEF Match
      <3> QED
          BY <3>1, <3>2
    <2> QED
        BY <1>0, <1>1, <1>2, <1>4, <2>1, <2>2, NextCellNames
  <1> QED
      BY <1>3, <1>4 DEF Match

LEMMA LookupNames ==
    ASSUME SafeInv, NamesInv, NEW u \in Users, NEW t \in Texts, NEW admit \in BOOLEAN,
           Lookup(u, t, admit)
    PROVE  NamesInv'
  <1>0. lookup \in [Users -> Lookups] /\ RegistryHeld(u) /\ lookup[u].at = "None" /\ registryLock # u
      BY NamesAre DEF NamesInv, Lookup, Free, RegistryHeld
  <1>1. UNCHANGED <<base, table, entries, names, registryLock, issued>>
      BY DEF Lookup, cacheVars, registryVars
  <1>2. lookup' = [lookup EXCEPT ![u] = [NoLookup EXCEPT !.at = "Read", !.text = t, !.admit = admit,
                                                         !.present = Present(t)]]
      BY DEF Lookup
  <1>3. /\ lookup'[u].at = "Read" /\ lookup'[u].text = t /\ lookup'[u].step = 0
        /\ lookup'[u].present = Present(t)
      BY <1>0, <1>2 DEF NoLookup
  <1>4. RegistryHeld(u)'
      BY <1>0, <1>1, <1>3 DEF RegistryHeld
  <1>5. SearchTrue(u)'
    <2>1. ASSUME Present(t) PROVE Ahead(u)'
      <3>1. PICK n \in Cells : /\ table[Cell(t, n)] # 0 /\ NameAt(table[Cell(t, n)] - 1) = t
                               /\ \A m \in 0..(n - 1) : table[Cell(t, m)] # 0
          BY <2>1, PresentAhead
      <3>2. n >= 0
          BY CellsAre
      <3> QED
          BY <1>1, <1>3, <3>1, <3>2 DEF Ahead, NameAt
    <2> QED
        BY <1>0, <1>1, <1>3, <2>1 DEF SearchTrue, Sought
  <1>6. \A v \in Users \ {u} : lookup'[v] = lookup[v]
      BY <1>0, <1>2
  <1> QED
      BY <1>0, <1>1, <1>3, <1>4, <1>5, <1>6, NamesCalm

LEMMA ReturnNames ==
    ASSUME SafeInv, NamesInv, NEW u \in Users, ReturnNothing(u) \/ UnlockRegistry(u) PROVE NamesInv'
  <1>0. /\ lookup \in [Users -> Lookups] /\ RegistryHeld(u) /\ base \in Nat /\ Nobody \notin Users
        /\ lookup[u].at \in {"Missing", "Unlock"}
      BY NamesAre DEF NamesInv, ReturnNothing, UnlockRegistry, At
  <1>1. UNCHANGED <<base, table, entries, names>> /\ lookup' = [lookup EXCEPT ![u] = NoLookup]
      BY DEF ReturnNothing, UnlockRegistry, Answer, cacheVars, registryVars
  <1>2. registryLock' # u /\ (registryLock' = registryLock \/ (registryLock = u /\ registryLock' = Nobody))
      BY <1>0 DEF ReturnNothing, UnlockRegistry, At, registryVars, RegistryHeld
  <1>3. \A a \in issued' : a \in issued \/ ~ (a[1] < base)
    <2>1. CASE issued' = issued
        BY <2>1
    <2>2. CASE lookup[u].index # 0 /\ Answer(u, lookup[u].index - 1)
      <3>1. lookup[u].index - 1 \in Nat
          BY <1>0, <2>2 DEF Lookups
      <3> QED
          BY <1>0, <2>2, <3>1 DEF Answer
    <2> QED
        BY <2>1, <2>2 DEF ReturnNothing, UnlockRegistry
  <1>4. lookup'[u].at = "None" /\ \A v \in Users \ {u} : lookup'[v] = lookup[v]
      BY <1>0, <1>1 DEF NoLookup
  <1>5. RegistryHeld(u)' /\ SearchTrue(u)'
      BY <1>2, <1>4 DEF RegistryHeld, SearchTrue
  <1> QED
      BY <1>0, <1>1, <1>2, <1>3, <1>4, <1>5, NamesCalm

\* The second look under the lock sees what others appended before it.
LEMMA LockRegistryNames ==
    ASSUME SafeInv, NamesInv, NEW u \in Users, LockRegistry(u) PROVE NamesInv'
  <1> DEFINE t == lookup[u].text
  <1>0. /\ lookup \in [Users -> Lookups] /\ RegistryHeld(u) /\ SearchTrue(u) /\ lookup[u].at = "Lock"
        /\ registryLock = Nobody /\ registryLock' = u
      BY NamesAre DEF NamesInv, LockRegistry, At
  <1>1. UNCHANGED <<base, table, entries, names, issued>>
      BY DEF LockRegistry, cacheVars
  <1>2. lookup'[u] = [lookup[u] EXCEPT !.at = "Read", !.step = 0]
      BY <1>0 DEF LockRegistry
  <1>3. /\ lookup'[u].at = "Read" /\ lookup'[u].step = 0 /\ lookup'[u].text = t
        /\ lookup'[u].admit = lookup[u].admit /\ lookup'[u].present = lookup[u].present
      BY <1>0, <1>2 DEF Lookups
  <1>4. RegistryHeld(u)'
      BY <1>0, <1>3 DEF RegistryHeld
  <1>5. SearchTrue(u)'
    <2>1. ASSUME Present(t) PROVE Ahead(u)'
      <3>1. PICK n \in Cells : /\ table[Cell(t, n)] # 0 /\ NameAt(table[Cell(t, n)] - 1) = t
                               /\ \A m \in 0..(n - 1) : table[Cell(t, m)] # 0
          BY <2>1, PresentAhead
      <3>2. n >= 0
          BY CellsAre
      <3> QED
          BY <1>1, <1>3, <3>1, <3>2 DEF Ahead, NameAt
    <2>2. Legible(t) => ~ lookup[u].present
        BY <1>0 DEF SearchTrue
    <2>3. Present(t)' <=> Present(t)
        BY <1>1, <1>3 DEF Present, NameAt
    <2> QED
        BY <1>0, <1>3, <2>1, <2>2, <2>3 DEF SearchTrue, Sought, Present
  <1>6. \A v \in Users \ {u} : lookup'[v] = lookup[v]
      BY <1>0 DEF LockRegistry
  <1> QED
      BY <1>0, <1>1, <1>3, <1>4, <1>5, <1>6, NamesCalm

\* The name that is appended was looked for under the lock and is not there.
LEMMA AdmitNames ==
    ASSUME SafeInv, NamesInv, NEW u \in Users, Admit(u) PROVE NamesInv'
  <1> DEFINE t == lookup[u].text
  <1>0. /\ lookup \in [Users -> Lookups] /\ RegistryHeld(u) /\ SearchTrue(u) /\ lookup[u].at = "Admit"
        /\ registryLock = u /\ names \in Nat /\ names <= MaxNames /\ CookedNames <= names
      BY NamesAre DEF NamesInv, Admit, At, RegistryHeld
  <1>1. UNCHANGED <<base, table, registryLock, issued>>
      BY DEF Admit, cacheVars
  <1>2. CASE Move(u, "Unlock") /\ UNCHANGED <<entries, names, dynamicUsed>>
    <2>1. /\ lookup'[u].at = "Unlock" /\ lookup'[u].text = t /\ lookup'[u].admit = lookup[u].admit
          /\ \A v \in Users \ {u} : lookup'[v] = lookup[v]
        BY <1>0, <1>2 DEF Move, Lookups
    <2>2. RegistryHeld(u)' /\ SearchTrue(u)'
        BY <1>0, <1>1, <2>1 DEF RegistryHeld, SearchTrue
    <2> QED
        BY <1>0, <1>1, <1>2, <2>1, <2>2, NamesCalm
  <1>3. CASE /\ names < MaxNames /\ entries' = [entries EXCEPT ![names] = t] /\ names' = names + 1
             /\ lookup' = [lookup EXCEPT ![u].at = "Publish", ![u].index = names + 1]
    <2>1. /\ lookup'[u].at = "Publish" /\ lookup'[u].index = names + 1 /\ lookup'[u].text = t
          /\ lookup'[u].admit = lookup[u].admit /\ \A v \in Users \ {u} : lookup'[v] = lookup[v]
        BY <1>0, <1>3 DEF Lookups
    <2>2. \A v \in Users \ {u} : lookup[v].at \notin {"Admit", "Publish", "Unlock"}
        BY <1>0 DEF NamesInv, RegistryHeld
    <2>3. Filed = names /\ Filed' = names
      <3>1. ~ Appends
          BY <1>0, <2>2 DEF Appends
      <3>2. Appends'
          BY <2>1 DEF Appends
      <3> QED
          BY <1>0, <1>3, <3>1, <3>2 DEF Filed
    <2>n. PICK n \in Nat : n = names
        BY <1>0
    <2>4. NameAt(n)' = t /\ \A i \in 0..(n - 1) : NameAt(i)' = NameAt(i)
      <3>1. entries \in [CookedNames..(MaxNames - 1) -> Texts \cup {Garbage}] /\ CookedNames \in Nat
            /\ Ordinals = 0..(CookedNames - 1) /\ MaxNames \in Nat
          BY NamesFacts DEF SafeInv, Control, Typed, NamesTyped
      <3>2. n \in CookedNames..(MaxNames - 1) /\ n \notin Ordinals
          BY <1>0, <1>3, <3>1, <2>n
      <3>3. NameAt(n)' = t
          BY <1>3, <3>1, <3>2, <2>n DEF NameAt
      <3>4. ASSUME NEW i \in 0..(n - 1) PROVE NameAt(i)' = NameAt(i)
        <4>1. i \in Ordinals \/ (i \in CookedNames..(MaxNames - 1) /\ i # n)
            BY <1>0, <1>3, <3>1, <3>2
        <4> QED
            BY <1>3, <3>1, <2>n, <4>1 DEF NameAt
      <3> QED
          BY <3>3, <3>4
    <2>5. IndexTrue'
      <3>1. \A i \in 0..(n - 1) : Known'[i] = Known[i]
        <4>1. \A i \in 0..(n - 1) : i \in 0..(MaxNames - 1)
            BY <1>0, <2>n, NamesFacts
        <4> QED
            BY <2>4, <4>1 DEF Known, NameAt
      <3>2. Lists(table, Known, n)
          BY <2>3, <2>n DEF NamesInv, IndexTrue
      <3> HIDE DEF Known
      <3>3. Lists(table, Known', n)
          BY <1>0, <3>1, <3>2, ListsMore
      <3>4. \A i \in 0..(n - 1) : Tagged(table, i) \/ Skipped(i)
          BY <2>3, <2>n DEF NamesInv, IndexTrue
      <3> QED
          BY <1>1, <2>3, <2>n, <3>3, <3>4 DEF IndexTrue, Lists, Tagged, Skipped
    <2>6. ASSUME NEW j \in 0..(n - 1), NameAt(j) = t PROVE Unrecognized(base, t)
      <3>1. CASE ~ Legible(t)
        <4>1. PICK o \in Damaged : Cooked[o] = t
            BY <3>1 DEF Legible
        <4> QED
            BY <4>1, CacheAssumption DEF Unrecognized
      <3>2. CASE Legible(t)
        <4>1. ~ Present(t)
            BY <1>0, <3>2 DEF SearchTrue
        <4>2. ~ Tagged(table, j)
          <5>1. ASSUME NEW c \in Cells, table[c] = j + 1 PROVE FALSE
            <6>1. table[c] # 0 /\ table[c] - 1 = j
                BY <5>1
            <6> QED
                BY <2>6, <4>1, <6>1 DEF Present
          <5> QED
              BY <5>1 DEF Tagged
        <4>3. Skipped(j)
            BY <2>3, <2>n, <4>2 DEF NamesInv, IndexTrue
        <4>4. PICK d \in Damaged : d <= j
            BY <4>3 DEF Skipped
        <4>5. j \in Ordinals /\ Cooked[j] = t /\ base > MaxNames
            BY <2>6, <4>3 DEF Skipped, NameAt
        <4>6. d # j
            BY <3>2, <4>4, <4>5 DEF Legible
        <4>7. d < j
            BY <4>4, <4>5, <4>6, CacheAssumption
        <4> QED
            BY <4>4, <4>5, <4>7 DEF Unrecognized
      <3> QED
          BY <3>1, <3>2
    <2>7. NamesDiffer'
      <3>1. ASSUME NEW i \in 0..n, NEW j \in 0..n, NameAt(i)' = NameAt(j)', i # j
            PROVE  Unrecognized(base, NameAt(i)')
        <4>1. CASE i # n /\ j # n
          <5>1. i \in 0..(n - 1) /\ j \in 0..(n - 1)
              BY <4>1
          <5> QED
              BY <2>4, <2>n, <3>1, <5>1 DEF NamesInv, NamesDiffer
        <4>2. CASE i = n
          <5>1. j \in 0..(n - 1) /\ NameAt(i)' = t
              BY <2>4, <3>1, <4>2 DEF NameAt
          <5> QED
              BY <2>4, <2>6, <3>1, <5>1
        <4>3. CASE j = n
          <5>1. i \in 0..(n - 1) /\ NameAt(j)' = t
              BY <2>4, <3>1, <4>3 DEF NameAt
          <5> QED
              BY <2>4, <2>6, <3>1, <5>1
        <4> QED
            BY <4>1, <4>2, <4>3
      <3>2. base' = base /\ names' - 1 = n
          BY <1>1, <1>3, <2>n
      <3> QED
          BY <3>1, <3>2 DEF NamesDiffer
    <2>8. ScopesInv'
        BY <1>1 DEF NamesInv, ScopesInv
    <2>9. RegistryHeld(u)' /\ SearchTrue(u)'
        BY <1>0, <1>1, <1>3, <2>1 DEF RegistryHeld, SearchTrue
    <2>10. ASSUME NEW v \in Users \ {u} PROVE RegistryHeld(v)' /\ SearchTrue(v)'
      <3>1. lookup'[v] = lookup[v] /\ registryLock' = u /\ v # u /\ RegistryHeld(v) /\ SearchTrue(v)
          BY <1>0, <1>1, <2>1 DEF NamesInv
      <3>2. RegistryHeld(v)'
          BY <1>0, <2>2, <3>1 DEF RegistryHeld
      <3>3. lookup[v].at # "None" /\ Ahead(v) => Ahead(v)'
        <4> DEFINE w == lookup[v].text
        <4>1. ASSUME NEW k \in Cells, table[Cell(w, k)] # 0, lookup[v].at # "None"
              PROVE  NameAt(table[Cell(w, k)] - 1)' = NameAt(table[Cell(w, k)] - 1)
          <5>1. w \in Texts
              BY <3>1, <4>1 DEF RegistryHeld
          <5>2. Cell(w, k) \in Cells
              BY <5>1, CellsAre
          <5>3. table[Cell(w, k)] - 1 \in 0..(n - 1) /\ table' = table
              BY <1>1, <2>n, <4>1, <5>2, NamesAre
          <5> DEFINE i == table[Cell(w, k)] - 1
          <5>4. i \notin Ordinals => entries'[i] = entries[i]
              BY <2>4, <5>3 DEF NameAt
          <5> QED
              BY <3>1, <5>3, <5>4 DEF NameAt, Cell
        <4> QED
            BY <1>1, <3>1, <4>1 DEF Ahead
      <3>4. SearchTrue(v)'
          BY <1>1, <2>2, <3>1, <3>3 DEF SearchTrue, Sought
      <3> QED
          BY <3>2, <3>4
    <2> QED
        BY <2>5, <2>7, <2>8, <2>9, <2>10 DEF NamesInv
  <1> QED
      BY <1>2, <1>3 DEF Admit

\* The tag goes behind whatever the other searches rely on.
LEMMA PublishNames ==
    ASSUME SafeInv, NamesInv, NEW u \in Users, PublishName(u) PROVE NamesInv'
  <1> DEFINE t == lookup[u].text
  <1>0. /\ lookup \in [Users -> Lookups] /\ RegistryHeld(u) /\ lookup[u].at = "Publish"
        /\ registryLock = u /\ names \in Nat /\ names <= MaxNames /\ names > 0
        /\ lookup[u].index = names /\ t \in Texts
      BY NamesAre DEF NamesInv, PublishName, At, RegistryHeld
  <1>1. UNCHANGED <<base, entries, names, registryLock, issued>>
      BY DEF PublishName, cacheVars
  <1>2. /\ lookup'[u].at = "Unlock" /\ lookup'[u].text = t /\ lookup'[u].admit = lookup[u].admit
        /\ \A v \in Users \ {u} : lookup'[v] = lookup[v]
      BY <1>0 DEF PublishName, Move, Lookups
  <1>3. \A v \in Users \ {u} : lookup[v].at \notin {"Admit", "Publish", "Unlock"} /\ registryLock # v
      BY <1>0 DEF NamesInv, RegistryHeld
  <1>4. Filed = names - 1 /\ Filed' = names
    <2>1. Appends
        BY <1>0 DEF Appends
    <2>2. ~ Appends'
        BY <1>2, <1>3 DEF Appends
    <2> QED
        BY <1>1, <2>1, <2>2 DEF Filed
  <1>5. PICK k \in Nat : k = names - 1
      BY <1>0
  <1>6. /\ k \in 0..MaxNames /\ k < MaxNames /\ k + 1 = names /\ Lists(table, Known, k)
        /\ Known[k] = t /\ table' = [table EXCEPT ![FirstEmpty(table, t)] = k + 1]
    <2>1. MaxNames \in Nat
        BY CellsAre
    <2>2. k \in 0..MaxNames /\ k < MaxNames /\ k + 1 = names
        BY <1>0, <1>5, <2>1
    <2>3. lookup[u].index # 0 /\ lookup[u].index - 1 = k
        BY <1>0, <1>5
    <2>4. NameAt(k) = t
        BY <1>0, <2>3, OwnFacts DEF LookupHolds
    <2>5. Known[k] = t
      <3>1. k \in 0..(MaxNames - 1)
          BY <2>1, <2>2
      <3> QED
          BY <2>4, <3>1 DEF Known
    <2>6. table' = [table EXCEPT ![FirstEmpty(table, t)] = k + 1]
        BY <1>0, <2>2 DEF PublishName
    <2>7. Lists(table, Known, k)
        BY <1>4, <1>5 DEF NamesInv, IndexTrue
    <2> QED
        BY <2>2, <2>5, <2>6, <2>7
  <1>7. /\ Lists(table', Known, k + 1) /\ Tagged(table', k)
        /\ \A c \in Cells : table[c] # 0 => table'[c] = table[c]
    <2>1. table' = WithTag(table, t, k)
        BY <1>6 DEF WithTag
    <2>2. t \in Texts /\ Lists(table, Known, k) /\ Known[k] = t /\ k \in 0..MaxNames /\ k < MaxNames
        BY <1>0, <1>6
    <2> HIDE DEF t
    <2>3. /\ Lists(WithTag(table, t, k), Known, k + 1) /\ Tagged(WithTag(table, t, k), k)
          /\ \A c \in Cells : table[c] # 0 => WithTag(table, t, k)[c] = table[c]
        BY <2>2, ListsNext
    <2> QED
        BY <2>1, <2>3
  <1>8. IndexTrue'
    <2>1. Known' = Known
        BY <1>1 DEF Known, NameAt
    <2>2. ASSUME NEW i \in 0..k PROVE Tagged(table', i) \/ Skipped(i)
      <3>1. CASE i = k
          BY <1>7, <3>1
      <3>2. CASE i # k
        <4>1. i \in 0..(Filed - 1) /\ i \in Nat
            BY <1>4, <1>5, <3>2
        <4>2. CASE Tagged(table, i)
          <5>1. PICK c \in Cells : table[c] = i + 1
              BY <4>2 DEF Tagged
          <5>2. table[c] # 0
              BY <4>1, <5>1
          <5> QED
              BY <1>7, <5>1, <5>2 DEF Tagged
        <4> QED
            BY <4>1, <4>2 DEF NamesInv, IndexTrue
      <3> QED
          BY <3>1, <3>2
    <2>3. Lists(table', Known', Filed') /\ Filed' - 1 = k
        BY <1>0, <1>4, <1>5, <1>6, <1>7, <2>1
    <2>4. \A i \in 0..k : Tagged(table', i) \/ Skipped(i)'
        BY <1>1, <2>2 DEF Skipped
    <2> QED
        BY <2>3, <2>4 DEF IndexTrue, Lists, Tagged
  <1>9. NamesDiffer' /\ ScopesInv'
    <2>1. NamesDiffer'
        BY <1>1 DEF NamesInv, NamesDiffer, Unrecognized, NameAt
    <2>2. ScopesInv'
        BY <1>1 DEF NamesInv, ScopesInv
    <2> QED
        BY <2>1, <2>2
  <1>10. RegistryHeld(u)' /\ SearchTrue(u)'
      BY <1>0, <1>1, <1>2 DEF RegistryHeld, SearchTrue
  <1>11. ASSUME NEW v \in Users \ {u} PROVE RegistryHeld(v)' /\ SearchTrue(v)'
    <2>1. /\ lookup'[v] = lookup[v] /\ registryLock' = registryLock /\ registryLock # v
          /\ RegistryHeld(v) /\ SearchTrue(v) /\ LookupHolds(v) /\ lookup[v] \in Lookups
        BY <1>1, <1>2, <1>3, OwnFacts DEF NamesInv
    <2>2. RegistryHeld(v)'
        BY <1>3, <2>1 DEF RegistryHeld
    <2> DEFINE w == lookup[v].text
    <2>3. CASE lookup[v].at = "None"
        BY <2>1, <2>2, <2>3 DEF SearchTrue
    <2>4. CASE lookup[v].at # "None"
      <3>1. w \in Texts
          BY <2>1, <2>4 DEF RegistryHeld
      <3>2. \A n \in Nat : Cell(w, n) \in Cells
          BY <3>1, CellsAre
      <3>3. Ahead(v) => Ahead(v)'
        <4> SUFFICES ASSUME Ahead(v) PROVE Ahead(v)'
            OBVIOUS
        <4>1. PICK n \in Cells : /\ n >= lookup[v].step
                                 /\ table[Cell(w, n)] # 0 /\ NameAt(table[Cell(w, n)] - 1) = w
                                 /\ \A m \in 0..(n - 1) : table[Cell(w, m)] # 0
            BY DEF Ahead
        <4>2. n \in Nat /\ \A m \in 0..(n - 1) : m \in Nat
            BY CellsAre
        <4>3. table'[Cell(w, n)] = table[Cell(w, n)]
            BY <1>7, <3>2, <4>1, <4>2
        <4>4. \A m \in 0..(n - 1) : table'[Cell(w, m)] # 0
            BY <1>7, <3>2, <4>1, <4>2
        <4> QED
            BY <1>1, <2>1, <4>1, <4>3, <4>4 DEF Ahead, NameAt
      <3>4. ASSUME lookup[v].at = "Match"
            PROVE  table'[Cell(w, lookup[v].step)] = lookup[v].index /\ lookup[v].step \in Cells
        <4>1. lookup[v].step \in Cells /\ table[Cell(w, lookup[v].step)] = lookup[v].index
            BY <2>1, <3>4 DEF SearchTrue
        <4>2. lookup[v].index # 0
            BY <2>1, <3>4, NamesFacts DEF LookupHolds, Lookups
        <4> QED
            BY <1>7, <3>2, <4>1, <4>2, CellsAre
      <3> QED
          BY <1>3, <2>1, <2>2, <3>3, <3>4 DEF SearchTrue, Sought
    <2> QED
        BY <2>2, <2>3, <2>4
  <1> QED
      BY <1>8, <1>9, <1>10, <1>11 DEF NamesInv

\* The atoms given out so far, of this scope and of earlier ones.
LEMMA NamesTold ==
    ASSUME SafeInv, NamesInv, NEW a \in issued, NEW b \in issued
    PROVE  Distinguished(a, b)
  <1> DEFINE M == MaxNames
  <1>0. /\ a[1] \in Nat /\ b[1] \in Nat /\ base \in Nat \ {0} /\ names \in Nat /\ names <= M
        /\ M \in Nat \ {0}
      BY NamesAre, CellsAre
  <1>1. PICK q \in Nat : base = 1 + M * q
      BY DEF NamesInv, ScopesInv
  <1>2. M * q \in Nat
      BY <1>0, <1>1
  <1>3. ASSUME NEW c \in issued, c[1] \in Nat, c[1] >= base
        PROVE  /\ c[1] - base \in 0..(names - 1) /\ c[2] = NameAt(c[1] - base)
               /\ (c[1] - 1) \div M = q
    <2>1. c[1] - base \in 0..(names - 1) /\ c[2] = NameAt(c[1] - base)
        BY <1>0, <1>3 DEF SafeInv, IssuedHolds
    <2>2. c[1] - 1 = M * q + (c[1] - base) /\ c[1] - base \in 0..(M - 1) /\ c[1] - 1 \in Int
        BY <1>0, <1>1, <1>2, <1>3, <2>1
    <2>3. (c[1] - 1) \div M = q
      <3> DEFINE x == c[1] - 1
                 m == c[1] - base
      <3>1. x = M * q + m /\ m \in 0..(M - 1) /\ x \in Int /\ q \in Int
          BY <2>2
      <3> HIDE DEF x, m, M
      <3>2. M \in Nat \ {0}
          BY <1>0
      <3>3. x \div M = q
          BY <3>1, <3>2, DividedOnce
      <3> QED
          BY <3>3 DEF x, M
    <2> QED
        BY <2>1, <2>3
  <1>4. ASSUME NEW c \in issued, c[1] \in Nat, c[1] < base
        PROVE  (c[1] - 1) \div M # q
    <2> DEFINE x == c[1] - 1
    <2>1. x \in Int /\ x < M * q
        BY <1>0, <1>1, <1>2, <1>4
    <2> HIDE DEF x
    <2>2. PICK p \in Int, m \in 0..(M - 1) : x = M * p + m /\ x % M = m /\ x \div M = p
        BY <1>0, <2>1, Divided
    <2>3. p # q
      <3> SUFFICES ASSUME p = q PROVE FALSE
          OBVIOUS
      <3>1. x = M * q + m /\ m >= 0
          BY <1>0, <2>2
      <3> QED
          BY <1>2, <2>1, <3>1
    <2> QED
        BY <2>2, <2>3 DEF x
  <1>5. CASE a[1] < base /\ b[1] < base
      BY <1>5 DEF NamesInv, ScopesInv
  <1>6. CASE a[1] >= base /\ b[1] >= base
    <2> DEFINE i == a[1] - base
               j == b[1] - base
    <2>1. i \in 0..(names - 1) /\ j \in 0..(names - 1) /\ a[2] = NameAt(i) /\ b[2] = NameAt(j)
        BY <1>0, <1>3, <1>6
    <2>2. i = j <=> a[1] = b[1]
        BY <1>0
    <2>3. Unrecognized(base, a[2]) => Unrecognized(a[1], a[2])
        BY <1>0, <1>6 DEF Unrecognized
    <2> HIDE DEF i, j
    <2>4. a[2] = b[2] => i = j \/ Unrecognized(base, a[2])
        BY <2>1 DEF NamesInv, NamesDiffer
    <2>5. i = j => a[2] = b[2]
        BY <2>1
    <2> QED
        BY <2>2, <2>3, <2>4, <2>5 DEF Distinguished
  <1>7. CASE a[1] < base /\ b[1] >= base
    <2>1. a[1] # b[1] /\ (a[1] - 1) \div M # (b[1] - 1) \div M
        BY <1>0, <1>3, <1>4, <1>7
    <2> QED
        BY <2>1 DEF Distinguished
  <1>8. CASE a[1] >= base /\ b[1] < base
    <2>1. a[1] # b[1] /\ (a[1] - 1) \div M # (b[1] - 1) \div M
        BY <1>0, <1>3, <1>4, <1>8
    <2> QED
        BY <2>1 DEF Distinguished
  <1>9. (a[1] < base \/ a[1] >= base) /\ (b[1] < base \/ b[1] >= base)
      BY <1>0
  <1> QED
      BY <1>5, <1>6, <1>7, <1>8, <1>9

Intact == {n \in 0..CookedNames : \A o \in 0..(n - 1) : o \notin Damaged}
Kept   == CHOOSE n \in Intact : \A m \in Intact : m <= n

\* retireScope comes to the first damaged name, or to all.
LEMMA KeptIs ==
    Kept \in 0..CookedNames /\ \A i \in Ordinals : i >= Kept => \E d \in Damaged : d <= i
  <1> DEFINE P == {n \in Nat : n = CookedNames \/ n \in Damaged}
  <1>0. CookedNames \in Nat /\ Ordinals = 0..(CookedNames - 1) /\ Damaged \subseteq Nat
      BY NamesFacts, CacheAssumption
  <1>1. PICK n \in P : \A m \in P : n <= m
    <2>1. CookedNames \in P /\ P \in SUBSET Nat
        BY <1>0
    <2> QED
        BY <2>1, Least
  <1>2. n \in 0..CookedNames
      BY <1>0, <1>1
  <1>3. n \in Intact
    <2>1. ASSUME NEW o \in 0..(n - 1), o \in Damaged PROVE FALSE
        BY <1>0, <1>1, <1>2, <2>1
    <2> QED
        BY <1>2, <2>1 DEF Intact
  <1>4. ASSUME NEW m \in Intact PROVE m <= n
    <2> SUFFICES ASSUME m > n PROVE FALSE
        BY <1>0, <1>2, <1>4 DEF Intact
    <2>1. m \in 0..CookedNames /\ n \in 0..(m - 1) /\ n # CookedNames
        BY <1>0, <1>2, <1>4 DEF Intact
    <2>2. n \in Damaged
        BY <1>1, <2>1
    <2> QED
        BY <1>4, <2>1, <2>2 DEF Intact
  <1>5. Kept \in Intact /\ \A m \in Intact : m <= Kept
      BY <1>3, <1>4 DEF Kept
  <1>6. Kept = n
    <2>1. Kept <= n /\ n <= Kept /\ Kept \in 0..CookedNames
        BY <1>3, <1>4, <1>5 DEF Intact
    <2> QED
        BY <1>0, <1>2, <2>1
  <1>7. ASSUME NEW i \in Ordinals, i >= n PROVE n \in Damaged
      BY <1>0, <1>1, <1>7
  <1> QED
      BY <1>2, <1>6, <1>7

\* An index of the first cooked names lists them in a registry that begins with them.
LEMMA CookedLists ==
    ASSUME NEW k \in 0..CookedNames, NEW texts, \A i \in Ordinals : texts[i] = Cooked[i]
    PROVE  /\ Lists(Indexed(k), texts, CookedNames)
           /\ \A i \in 0..(CookedNames - 1) : i \in Ordinals /\ (Tagged(Indexed(k), i) \/ i >= k)
  <1>0. CookedNames \in Nat /\ Ordinals = 0..(CookedNames - 1) /\ k \in Nat /\ k <= CookedNames
      BY NamesFacts
  <1>1. Lists(Indexed(k), Cooked, k) /\ \A i \in 0..(k - 1) : Tagged(Indexed(k), i)
      BY IndexedLists
  <1>2. \A i \in 0..(k - 1) : texts[i] = Cooked[i]
      BY <1>0
  <1>3. Lists(Indexed(k), texts, CookedNames)
      BY <1>0, <1>1, <1>2, ListsMore
  <1>4. ASSUME NEW i \in 0..(CookedNames - 1) PROVE i \in Ordinals /\ (i \in 0..(k - 1) \/ i >= k)
      BY <1>0
  <1> QED
      BY <1>1, <1>3, <1>4

LEMMA CookedKnown == \A i \in Ordinals : Known[i] = Cooked[i] /\ Known'[i] = Cooked[i]
  <1>1. \A i \in Ordinals : i \in 0..(MaxNames - 1)
      BY NamesFacts
  <1> QED
      BY <1>1 DEF Known, NameAt

LEMMA InitNames == Init => NamesInv
  <1> SUFFICES ASSUME Init PROVE NamesInv
      OBVIOUS
  <1>1. /\ base = 1 /\ table = Indexed(CookedNames) /\ names = CookedNames /\ registryLock = Nobody
        /\ lookup = [u \in Users |-> NoLookup] /\ issued = {<<1 + o, Cooked[o]>> : o \in Ordinals}
      BY DEF Init
  <1>2. \A u \in Users : lookup[u].at = "None" /\ registryLock # u
      BY <1>1, CacheAssumption DEF NoLookup
  <1>3. IndexTrue /\ NamesDiffer
    <2>1. ~ Appends
        BY <1>2 DEF Appends
    <2>2. CookedNames \in 0..CookedNames /\ \A i \in Ordinals : ~ (i >= CookedNames)
        BY NamesFacts
    <2>3. Filed = CookedNames
        BY <1>1, <2>1 DEF Filed
    <2>4. /\ Lists(table, Known, CookedNames)
          /\ \A i \in 0..(CookedNames - 1) : Tagged(table, i)
        BY <1>1, <2>2, CookedKnown, CookedLists
    <2>5. IndexTrue
        BY <2>3, <2>4 DEF IndexTrue
    <2>6. NamesDiffer
        BY <1>1, NamesFacts, PoolAssumption DEF NamesDiffer, NameAt
    <2> QED
        BY <2>5, <2>6
  <1>4. ScopesInv
    <2>1. base = 1 + MaxNames * 0
        BY <1>1, CellsAre
    <2>2. \A a \in issued : ~ (a[1] < base)
        BY <1>1, NamesFacts
    <2> QED
        BY <2>1, <2>2 DEF ScopesInv
  <1>5. \A u \in Users : RegistryHeld(u) /\ SearchTrue(u)
      BY <1>2 DEF RegistryHeld, SearchTrue
  <1> QED
      BY <1>3, <1>4, <1>5 DEF NamesInv

\* A new scope begins behind every atom of the old one.
LEMMA RetireNames ==
    ASSUME SafeInv, NamesInv, Retire PROVE NamesInv'
  <1>0. /\ names \in Nat /\ names <= MaxNames /\ base \in Nat \ {0} /\ MaxNames \in Nat \ {0}
        /\ issued \subseteq Nat \X (Texts \cup {Garbage})
      BY NamesAre, CellsAre
  <1>1. /\ base' = base + MaxNames /\ table' = Indexed(Kept) /\ names' = CookedNames
        /\ lookup' = lookup /\ registryLock' = registryLock /\ \A u \in Users : lookup[u].at = "None"
        /\ issued' = issued \cup {<<base + MaxNames + o, Cooked[o]>> : o \in Ordinals}
      BY DEF Retire, Kept, Intact, Free
  <1>2. \A u \in Users : lookup'[u].at = "None" /\ registryLock' # u
      BY <1>1 DEF NamesInv, RegistryHeld
  <1>3. IndexTrue' /\ NamesDiffer'
    <2>1. ~ Appends'
        BY <1>2 DEF Appends
    <2>2. base' > MaxNames
        BY <1>0, <1>1
    <2>3. \A i \in Ordinals : i >= Kept => Skipped(i)'
        BY <2>2, KeptIs DEF Skipped
    <2>4. Kept \in 0..CookedNames
        BY KeptIs
    <2>5. Filed' = CookedNames
        BY <1>1, <2>1 DEF Filed
    <2>6. /\ Lists(table', Known', CookedNames)
          /\ \A i \in 0..(CookedNames - 1) : i \in Ordinals /\ (Tagged(table', i) \/ i >= Kept)
        BY <1>1, <2>4, CookedKnown, CookedLists
    <2>7. IndexTrue'
      <3>1. \A i \in 0..(CookedNames - 1) : Tagged(table', i) \/ Skipped(i)'
          BY <2>3, <2>6
      <3> QED
          BY <2>5, <2>6, <3>1 DEF IndexTrue, Lists, Tagged
    <2>8. NamesDiffer'
        BY <1>1, NamesFacts, PoolAssumption DEF NamesDiffer, NameAt
    <2> QED
        BY <2>7, <2>8
  <1>4. ScopesInv'
    <2>1. PICK q \in Nat : base = 1 + MaxNames * q
        BY DEF NamesInv, ScopesInv
    <2>2. q + 1 \in Nat /\ base' = 1 + MaxNames * (q + 1)
        BY <1>0, <1>1, <2>1
    <2>3. ASSUME NEW a \in issued', a[1] < base' PROVE a \in issued
      <3>1. ASSUME NEW o \in Ordinals, a = <<base + MaxNames + o, Cooked[o]>> PROVE FALSE
        <4>1. a[1] = base + MaxNames + o /\ o \in Nat
            BY <3>1, NamesFacts
        <4> QED
            BY <1>0, <1>1, <2>3, <4>1
      <3> QED
          BY <1>1, <3>1
    <2>4. \A a, b \in issued' : a[1] < base' /\ b[1] < base' => Distinguished(a, b)
        BY <2>3, NamesTold
    <2> QED
        BY <2>2, <2>4 DEF ScopesInv
  <1>5. \A u \in Users : RegistryHeld(u)' /\ SearchTrue(u)'
      BY <1>2 DEF RegistryHeld, SearchTrue
  <1> QED
      BY <1>3, <1>4, <1>5 DEF NamesInv

LEMMA NamesStep == SafeInv /\ NamesInv /\ [Next]_vars => NamesInv'
  <1> SUFFICES ASSUME SafeInv, NamesInv, [Next]_vars PROVE NamesInv'
      OBVIOUS
  <1>1. CASE UNCHANGED vars
    <2>1. UNCHANGED <<base, table, entries, names, registryLock, lookup, issued>>
        BY <1>1 DEF vars, cacheVars, poolVars, registryVars
    <2> QED
        BY <2>1, NamesQuiet
  <1>2. CASE Retire
      BY <1>2, RetireNames
  <1>3. ASSUME NEW u \in Users, Step(u) PROVE NamesInv'
    <2>1. CASE CacheStep(u) /\ UNCHANGED poolVars
      <3>1. base' = base
          BY <2>1 DEF CacheStep, LoadHot, CheckAtom, Pin, Recheck, Unpin, LockCache, TryVirgin,
             TryReuse, ClearHot, ClearAtom, Decode, Publish, Open, SetHot, UnlockCache
      <3> QED
          BY <2>1, <3>1, NamesQuiet DEF poolVars, registryVars
    <2>2. CASE Release(u) \/ Resolve(u) \/ (\E a \in issued : Acquire(u, a[1]))
      <3>1. UNCHANGED <<base, registryVars, lookup, issued>>
          BY <2>2 DEF Release, Resolve, Acquire
      <3> QED
          BY <3>1, NamesQuiet DEF registryVars
    <2>3. ASSUME NEW q \in Queries, Lookup(u, q[1], q[2]) PROVE NamesInv'
      <3>1. q[1] \in Texts /\ q[2] \in BOOLEAN
          BY PoolAssumption
      <3> QED
          BY <2>3, <3>1, LookupNames
    <2>4. CASE \/ ReadCell(u) \/ Match(u) \/ ReturnNothing(u) \/ LockRegistry(u) \/ Admit(u)
               \/ PublishName(u) \/ UnlockRegistry(u)
        BY <2>4, ReadCellNames, MatchNames, ReturnNames, LockRegistryNames, AdmitNames, PublishNames
    <2> QED
        BY <1>3, <2>1, <2>2, <2>3, <2>4 DEF Step
  <1> QED
      BY <1>1, <1>2, <1>3 DEF Next

LEMMA NamesHold == Spec => [](SafeInv /\ NamesInv)
  <1>1. Init => SafeInv /\ NamesInv
      BY InitSafe, InitNames
  <1>2. (SafeInv /\ NamesInv) /\ [Next]_vars => (SafeInv /\ NamesInv)'
      BY StepSafe, NamesStep
  <1> QED
      BY <1>1, <1>2, PTL DEF Spec

\* However many threads intern it at once, a string gets one atom in a scope, and an atom never
\* names two strings, not even across the scopes that retireScope ends.
THEOREM AtomsAreDistinct == Spec => []AtomsNameOneText
  <1>1. SafeInv /\ NamesInv => AtomsNameOneText
      BY NamesTold DEF AtomsNameOneText, Distinguished
  <1> QED
      BY <1>1, NamesHold, PTL

\* A find or intern that ends without an answer began when its text was not in the index: a search
\* without a lock misses no published name, whatever is appended, decoded or refused meanwhile.
THEOREM NoNameIsHidden == Spec => []PublishedNamesAreFound
  <1>1. SafeInv /\ NamesInv => PublishedNamesAreFound
      BY DEF NamesInv, SearchTrue, Legible, PublishedNamesAreFound
  <1> QED
      BY <1>1, NamesHold, PTL
===============================================================================
