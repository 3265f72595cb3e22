------------------------------ MODULE Streaming ------------------------------
(***************************************************************************)
(* Source/Streaming: the coordinator's slots, the bridge that drives one    *)
(* provider through them, and the reconcilers that turn the demand set of   *)
(* each consumer into tickets.                                              *)
(*                                                                         *)
(* All methods run on the streaming owner thread, so each is one action;    *)
(* what is concurrent is the provider, which finishes operations on worker  *)
(* threads and has its completions marshalled to the owner, where they      *)
(* arrive late, in any order and possibly twice.                            *)
(*                                                                         *)
(* A demand set is a function from units to targets.  Priorities only       *)
(* decide which new units are admitted first: any order is allowed.         *)
(* Request epochs only refuse a stale call, which changes nothing.          *)
(***************************************************************************)
EXTENDS Integers, FiniteSets

CONSTANTS
    Capacity,       \* slots of the coordinator
    EntryCapacity,  \* entries of one reconciler
    Consumers, Units,
    MaxGeneration,  \* UINT32_MAX: a slot that reaches it is never used again
    MaxRepeats      \* bound on completions that are marshalled twice

ASSUME StreamingAssumption ==
    /\ Capacity \in Nat \ {0} /\ EntryCapacity \in 1..Capacity
    /\ MaxGeneration \in Nat \ {0} /\ MaxRepeats \in Nat
    /\ IsFiniteSet(Units) /\ {"bridge", "coordinator"} \cap Consumers = {}

Slots == 0..(Capacity - 1)
Generations == 1..MaxGeneration
Targets == {"PREPARED", "ACTIVE"}
Stages == {"EMPTY", "QUEUED", "PREPARING", "PREPARED", "ACTIVE", "RETIRING", "FAILED"}
Parts == Consumers \cup {"bridge", "coordinator"}

NoDemand == [consumer |-> "none", unit |-> "none", target |-> "none"]
Demands == [consumer : Consumers \cup {"none"}, unit : Units \cup {"none"}, target : Targets \cup {"none"}]
NoEntry == [slot |-> 0, gen |-> 0, retiring |-> FALSE]
NoFlags == [gen |-> 0, prepare |-> FALSE, cancelSent |-> FALSE, activate |-> FALSE, retire |-> FALSE]

VARIABLES
    slot,      \* sirStreamingSlot_t; bOccupied holds where stage is not EMPTY
    bridge,    \* sirStreamingBridgeSlot_t
    nextSlot,  \* m_iNextSlot
    entry,     \* sirStreamingReconcileEntry_t by consumer and unit; bOccupied where gen is not 0
    closed,    \* the parts that are shut down
    provider,  \* what the provider does for each ticket, see StreamingProvider
    acks,      \* completions on their way to the owner thread
    repeats,   \* completions marshalled twice so far
    want       \* the last demand set each consumer reconciled

vars == <<slot, bridge, nextSlot, entry, closed, provider, acks, repeats, want>>

Provider == INSTANCE StreamingProvider

Occupied(s) == slot[s].stage # "EMPTY"
DemandSets == UNION {[W -> Targets] : W \in SUBSET Units}
Acks == [kind : {"prepare", "activate", "retire"}, slot : Slots, gen : Generations, ok : BOOLEAN]

Init ==
    /\ slot = [s \in Slots |-> [stage |-> "EMPTY", gen |-> 1, cancel |-> FALSE, demand |-> NoDemand]]
    /\ bridge = [s \in Slots |-> NoFlags]
    /\ nextSlot = 0
    /\ entry = [c \in Consumers |-> [u \in Units |-> NoEntry]]
    /\ closed = {}
    /\ Provider!ProviderInit
    /\ acks = {} /\ repeats = 0
    /\ want = [c \in Consumers |-> [u \in {} |-> "PREPARED"]]

-----------------------------------------------------------------------------
(* SIRStreamingCoordinator: operators on the record of one slot *)

Valid(s, g) == "coordinator" \notin closed /\ Occupied(s) /\ slot[s].gen = g

\* releaseSlot: a generation that has reached its maximum stays, instead of wrapping.
Released(r) ==
    [stage |-> "EMPTY", cancel |-> FALSE, demand |-> NoDemand,
     gen |-> IF r.gen = MaxGeneration THEN r.gen ELSE r.gen + 1]

\* Mutant: cancel gives the slot of a running prepare back as well.
CancelForgetsPrepare(r) ==
    IF r.stage \in {"QUEUED", "PREPARING"} THEN Released(r) ELSE [r EXCEPT !.cancel = TRUE]

\* cancel gives a queued slot back; a running operation keeps its slot.
CancelledSlot(r) == IF r.stage = "QUEUED" THEN Released(r) ELSE [r EXCEPT !.cancel = TRUE]

\* Mutant: updateDemand lowers the target of an active unit in place.
UpdateLowersActive(r, target) == r.cancel \/ r.stage = "RETIRING"

\* updateDemand answers BUSY.
CannotUpdate(r, target) ==
    \/ r.cancel \/ r.stage = "RETIRING"
    \/ r.stage = "ACTIVE" /\ target # "ACTIVE"

\* advance: the transitions it accepts from the record of a slot.
MayAdvance(r, next) ==
    \/ r.stage = "QUEUED" /\ next = "PREPARING"
    \/ r.stage = "PREPARING" /\ next \in {"PREPARED", "FAILED"}
    \/ r.stage = "PREPARED" /\ next = "FAILED"
    \/ r.stage = "PREPARED" /\ next = "ACTIVE" /\ r.demand.target = "ACTIVE" /\ ~r.cancel
    \/ r.stage \in {"PREPARED", "ACTIVE", "FAILED"} /\ next = "RETIRING"
    \/ r.stage = "RETIRING" /\ next = "EMPTY"

Advanced(r, next) == IF next = "EMPTY" THEN Released(r) ELSE [r EXCEPT !.stage = next]

Advance(s, next) ==
    slot' = [slot EXCEPT ![s] = IF MayAdvance(slot[s], next) THEN Advanced(slot[s], next) ELSE slot[s]]

-----------------------------------------------------------------------------
(* SIRStreamingProviderBridge *)

\* The record processSlot works on: a slot with a new ticket starts with clean flags.
Flags(s) ==
    IF bridge[s].gen = slot[s].gen THEN bridge[s] ELSE [NoFlags EXCEPT !.gen = slot[s].gen]

Outstanding(f) == f.prepare \/ f.activate \/ f.retire

SetFlags(s, f) == bridge' = [bridge EXCEPT ![s] = f]

\* beginRetirement, and processSlot for a FAILED, ACTIVE or cancelled PREPARED slot: deferred
\* while an operation is outstanding, or when the callback refuses.
VisitRetire(s, accepts) ==
    /\ \/ slot[s].stage = "FAILED"
       \/ slot[s].stage \in {"PREPARED", "ACTIVE"} /\ slot[s].cancel
    /\ LET f == Flags(s) IN
       IF accepts /\ ~f.activate /\ ~f.prepare
       THEN /\ Provider!Call(s, slot[s].gen, "retiring")
            /\ Advance(s, "RETIRING")
            /\ SetFlags(s, [f EXCEPT !.retire = TRUE])
       ELSE SetFlags(s, f) /\ UNCHANGED <<slot, provider>>

VisitPrepare(s, accepts) ==
    /\ slot[s].stage = "QUEUED"
    /\ IF accepts
       THEN /\ Provider!Call(s, slot[s].gen, "preparing")
            /\ Advance(s, "PREPARING")
            /\ SetFlags(s, [Flags(s) EXCEPT !.prepare = TRUE])
       ELSE SetFlags(s, Flags(s)) /\ UNCHANGED <<slot, provider>>

\* A running prepare takes the cancellation in; one that has finished meanwhile drops its result.
VisitCancel(s, accepts) ==
    /\ slot[s].stage = "PREPARING"
    /\ LET f == Flags(s) IN
       IF accepts /\ slot[s].cancel /\ ~f.cancelSent
       THEN /\ Provider!Call(s, slot[s].gen,
                   IF Provider!Phase(s, slot[s].gen) = "preparing" THEN "cancelling" ELSE "spoiled")
            /\ SetFlags(s, [f EXCEPT !.cancelSent = TRUE])
       ELSE SetFlags(s, f) /\ UNCHANGED provider
    /\ UNCHANGED slot

VisitActivate(s, accepts) ==
    /\ slot[s].stage = "PREPARED" /\ ~slot[s].cancel
    /\ LET f == Flags(s) IN
       IF accepts /\ slot[s].demand.target = "ACTIVE" /\ ~f.activate
       THEN /\ Provider!Call(s, slot[s].gen, "activating")
            /\ SetFlags(s, [f EXCEPT !.activate = TRUE])
       ELSE SetFlags(s, f) /\ UNCHANGED provider
    /\ UNCHANGED slot

\* Nothing to do; or the flags of an older ticket are still outstanding, and nothing is touched.
VisitIdle(s) ==
    /\ \/ ~Occupied(s)
       \/ bridge[s].gen # slot[s].gen /\ Outstanding(bridge[s])
    /\ UNCHANGED <<slot, bridge, provider>>

\* ACTIVE without a cancellation, or RETIRING: only the flags of a new ticket are cleaned.
VisitSettled(s) ==
    /\ \/ slot[s].stage = "RETIRING"
       \/ slot[s].stage = "ACTIVE" /\ ~slot[s].cancel
    /\ SetFlags(s, Flags(s))
    /\ UNCHANGED <<slot, provider>>

\* pump visits one slot after the other; the callback accepts the call it gets or not.
Visit(s, accepts) ==
    /\ closed \cap {"bridge", "coordinator"} = {}
    /\ nextSlot = s
    /\ nextSlot' = (s + 1) % Capacity
    /\ \/ VisitIdle(s)
       \/ /\ Occupied(s)
          /\ bridge[s].gen = slot[s].gen \/ ~Outstanding(bridge[s])
          /\ \/ VisitPrepare(s, accepts) \/ VisitCancel(s, accepts) \/ VisitActivate(s, accepts)
             \/ VisitRetire(s, accepts) \/ VisitSettled(s)
    /\ UNCHANGED <<entry, closed, acks, repeats, want>>

Pump == \E accepts \in BOOLEAN : Visit(nextSlot, accepts)

-----------------------------------------------------------------------------
(* The provider finishes an operation and its completion is marshalled *)

Complete(kind, s, g, ok, to) ==
    /\ Provider!Become(s, g, to)
    /\ acks' = acks \cup {[kind |-> kind, slot |-> s, gen |-> g, ok |-> ok]}
    /\ UNCHANGED <<slot, bridge, nextSlot, entry, closed, repeats, want>>

\* A prepare that was cancelled may still report success.
FinishPrepare(s, g, ok) ==
    \/ Provider!Phase(s, g) = "preparing" /\ Complete("prepare", s, g, ok, IF ok THEN "prepared" ELSE "spoiled")
    \/ Provider!Phase(s, g) = "cancelling" /\ Complete("prepare", s, g, ok, "spoiled")

FinishActivate(s, g, ok) ==
    Provider!Phase(s, g) = "activating" /\ Complete("activate", s, g, ok, IF ok THEN "active" ELSE "spoiled")

FinishRetire(s, g) ==
    Provider!Phase(s, g) = "retiring" /\ Complete("retire", s, g, TRUE, "retired")

Finish(s, g) ==
    (\E ok \in BOOLEAN : FinishPrepare(s, g, ok) \/ FinishActivate(s, g, ok)) \/ FinishRetire(s, g)

\* The owner thread takes a completion in; again leaves it to be delivered once more.
Take(a, again) ==
    /\ a \in acks
    /\ again => repeats < MaxRepeats
    /\ acks' = IF again THEN acks ELSE acks \ {a}
    /\ repeats' = IF again THEN repeats + 1 ELSE repeats
    /\ UNCHANGED <<nextSlot, entry, closed, provider, want>>

\* Mutant: a completion is not compared with the generation of the ticket (hasValidEntry).
ExpectedAnyTicket(a, flag, stage) == "bridge" \notin closed /\ flag /\ slot[a.slot].stage = stage

\* What acknowledgePrepared, acknowledgeActivated and acknowledgeRetired check first.
Expected(a, flag, stage) ==
    /\ "bridge" \notin closed
    /\ bridge[a.slot].gen = a.gen /\ flag
    /\ Valid(a.slot, a.gen)
    /\ slot[a.slot].stage = stage

AcknowledgePrepared(a, again) ==
    LET s == a.slot
        next == IF a.ok THEN "PREPARED" ELSE "FAILED"
    IN
    /\ a.kind = "prepare"
    /\ Take(a, again)
    /\ IF Expected(a, bridge[s].prepare, "PREPARING")
       THEN /\ Advance(s, next)
            /\ SetFlags(s, [bridge[s] EXCEPT !.prepare = ~MayAdvance(slot[s], next)])
       ELSE UNCHANGED <<slot, bridge>>

\* Mutant: a late activation keeps its flag, so its retirement stays deferred.
ActivatedKeepsFlag(a, again) ==
    /\ a.kind = "activate"
    /\ Take(a, again)
    /\ IF Expected(a, bridge[a.slot].activate, "PREPARED") /\ ~slot[a.slot].cancel
       THEN /\ Advance(a.slot, IF a.ok THEN "ACTIVE" ELSE "FAILED")
            /\ SetFlags(a.slot, [bridge[a.slot] EXCEPT !.activate = FALSE])
       ELSE UNCHANGED <<slot, bridge>>

\* An activation that ends after a cancellation stays PREPARED; one that ends after its target was
\* lowered is cancelled here.
AcknowledgeActivated(a, again) ==
    LET s == a.slot
        done == [bridge[s] EXCEPT !.activate = FALSE]
        next == IF a.ok THEN "ACTIVE" ELSE "FAILED"
    IN
    /\ a.kind = "activate"
    /\ Take(a, again)
    /\ IF ~Expected(a, bridge[s].activate, "PREPARED")
       THEN UNCHANGED <<slot, bridge>>
       ELSE IF a.ok /\ slot[s].demand.target # "ACTIVE"
       THEN slot' = [slot EXCEPT ![s] = CancelledSlot(slot[s])] /\ SetFlags(s, done)
       ELSE IF a.ok /\ slot[s].cancel
       THEN SetFlags(s, done) /\ UNCHANGED slot
       ELSE /\ Advance(s, next)
            /\ SetFlags(s, IF MayAdvance(slot[s], next) THEN done ELSE bridge[s])

AcknowledgeRetired(a, again) ==
    /\ a.kind = "retire"
    /\ Take(a, again)
    /\ IF Expected(a, bridge[a.slot].retire, "RETIRING")
       THEN Advance(a.slot, "EMPTY") /\ SetFlags(a.slot, NoFlags)
       ELSE UNCHANGED <<slot, bridge>>

Deliver(a, again) ==
    AcknowledgePrepared(a, again) \/ AcknowledgeActivated(a, again) \/ AcknowledgeRetired(a, again)

-----------------------------------------------------------------------------
(* SIRStreamingDemandReconciler *)

\* Mutant: entries of released tickets are not pruned.
HeldForEver(c, u) == entry[c][u].gen # 0

\* An entry that pruneReleased keeps: its ticket is not stale.
Held(c, u) == entry[c][u].gen # 0 /\ Valid(entry[c][u].slot, entry[c][u].gen)
SlotOf(c, u) == entry[c][u].slot

Following(c) == {u \in Units : Held(c, u) /\ ~entry[c][u].retiring}

\* retireMissing: tickets of units that the set leaves out are cancelled.
Dropped(c, demanded) == Following(c) \ DOMAIN demanded

\* refreshCurrent: a ticket takes over its new target, or is cancelled where it cannot.
Kept(c, demanded) == Following(c) \cap DOMAIN demanded
Busy(c, demanded) == {u \in Kept(c, demanded) : CannotUpdate(slot[SlotOf(c, u)], demanded[u])}
Updated(c, demanded) == Kept(c, demanded) \ Busy(c, demanded)
Cancelled(c, demanded) == Dropped(c, demanded) \cup Busy(c, demanded)

\* The slots and the entries when both have run, and pruneReleased once more in between, which
\* clears the entries whose queued slot was given back.
SlotsAfter(c, demanded) ==
    LET cancelled == {SlotOf(c, u) : u \in Cancelled(c, demanded)}
        updated == Updated(c, demanded)
    IN [s \in Slots |->
        IF s \in cancelled THEN CancelledSlot(slot[s])
        ELSE IF \E u \in updated : SlotOf(c, u) = s
        THEN [slot[s] EXCEPT !.demand.target = demanded[CHOOSE u \in updated : SlotOf(c, u) = s]]
        ELSE slot[s]]

\* Mutant: a cancelled ticket is forgotten at once, running or not.
EntriesForgotten(c, demanded) ==
    [u \in Units |-> IF ~Held(c, u) \/ u \in Cancelled(c, demanded) THEN NoEntry ELSE entry[c][u]]

EntriesAfter(c, demanded) ==
    LET cancelled == Cancelled(c, demanded) IN
    [u \in Units |->
        IF ~Held(c, u) \/ (u \in cancelled /\ slot[SlotOf(c, u)].stage = "QUEUED") THEN NoEntry
        ELSE IF u \in cancelled THEN [entry[c][u] EXCEPT !.retiring = TRUE]
        ELSE entry[c][u]]

\* submitMissing and submit: the units without an entry and without a ticket get the first vacant
\* slots, as many as slots and entries allow.  Their priorities order them: any order may be.
Vacant(sl) ==
    {s \in Slots : "coordinator" \notin closed /\ sl[s].stage = "EMPTY" /\ sl[s].gen # MaxGeneration}

Missing(c, e, sl, demanded) ==
    {u \in DOMAIN demanded : /\ e[u].gen = 0
                             /\ \A s \in Slots : <<sl[s].demand.consumer, sl[s].demand.unit>> # <<c, u>>}

Admission(missing, vacant, room, new, at) ==
    LET taken == {at[u] : u \in new} IN
    /\ \A u, v \in new : at[u] = at[v] => u = v
    /\ \A s \in vacant, t \in taken : s < t => s \in taken
    /\ Cardinality(new) <= room
    /\ new = missing \/ vacant = taken \/ Cardinality(new) = room

Queued(c, u, target, g) ==
    [stage |-> "QUEUED", gen |-> g, cancel |-> FALSE,
     demand |-> [consumer |-> c, unit |-> u, target |-> target]]

Reconcile(c, demanded) ==
    LET sl == SlotsAfter(c, demanded)
        e == EntriesAfter(c, demanded)
        missing == Missing(c, e, sl, demanded)
        room == EntryCapacity - Cardinality({u \in Units : e[u].gen # 0})
    IN
    /\ c \notin closed
    /\ Cardinality(DOMAIN demanded) <= EntryCapacity
    /\ \E new \in SUBSET missing : \E at \in [new -> Vacant(sl)] :
        /\ Admission(missing, Vacant(sl), room, new, at)
        /\ slot' = [s \in Slots |->
            IF \E u \in new : at[u] = s
            THEN LET u == CHOOSE v \in new : at[v] = s IN Queued(c, u, demanded[u], sl[s].gen)
            ELSE sl[s]]
        /\ entry' = [entry EXCEPT ![c] = [u \in Units |->
            IF u \in new THEN [slot |-> at[u], gen |-> sl[at[u]].gen, retiring |-> FALSE] ELSE e[u]]]
    /\ want' = [want EXCEPT ![c] = demanded]
    /\ UNCHANGED <<bridge, nextSlot, closed, provider, acks, repeats>>

-----------------------------------------------------------------------------
(* The shutdown of the parts, each refused while it is in use *)

ShutdownReconciler(c) ==
    /\ c \in Consumers \ closed
    /\ entry' = [entry EXCEPT ![c] = [u \in Units |-> IF Held(c, u) THEN entry[c][u] ELSE NoEntry]]
    /\ closed' = IF \E u \in Units : Held(c, u) THEN closed ELSE closed \cup {c}
    /\ UNCHANGED <<slot, bridge, nextSlot, provider, acks, repeats, want>>

Vacated == "coordinator" \in closed \/ \A s \in Slots : ~Occupied(s)

ShutdownBridge ==
    /\ "bridge" \notin closed
    /\ Vacated /\ \A s \in Slots : ~Outstanding(bridge[s])
    /\ closed' = closed \cup {"bridge"}
    /\ UNCHANGED <<slot, bridge, nextSlot, entry, provider, acks, repeats, want>>

ShutdownCoordinator ==
    /\ "coordinator" \notin closed
    /\ Vacated
    /\ closed' = closed \cup {"coordinator"}
    /\ UNCHANGED <<slot, bridge, nextSlot, entry, provider, acks, repeats, want>>

Next ==
    \/ Pump
    \/ \E a \in acks, again \in BOOLEAN : Deliver(a, again)
    \/ \E s \in Slots, g \in Generations : Finish(s, g)
    \/ \E c \in Consumers : (\E demanded \in DemandSets : Reconcile(c, demanded)) \/ ShutdownReconciler(c)
    \/ ShutdownBridge \/ ShutdownCoordinator

Spec == Init /\ [][Next]_vars

-----------------------------------------------------------------------------
(* What the streaming code promises *)

TypeOK ==
    /\ slot \in [Slots -> [stage : Stages, gen : Generations, cancel : BOOLEAN, demand : Demands]]
    /\ bridge \in [Slots -> [gen : 0..MaxGeneration, prepare : BOOLEAN, cancelSent : BOOLEAN,
                             activate : BOOLEAN, retire : BOOLEAN]]
    /\ nextSlot \in Slots
    /\ entry \in [Consumers -> [Units -> [slot : Slots, gen : 0..MaxGeneration, retiring : BOOLEAN]]]
    /\ closed \subseteq Parts
    /\ provider \in [Slots -> [Generations -> [phase : Provider!Phases, calls : Nat]]]
    /\ acks \subseteq Acks
    /\ repeats \in 0..MaxRepeats
    /\ \A c \in Consumers : want[c] \in DemandSets

\* The provider sees only legal calls: one operation at a time per slot, no activation of a
\* prepare that failed or was cancelled, one retirement of everything it prepared, and no new
\* ticket for a slot before that, whatever order and repetition its completions arrive in
\* (acknowledgePrepared, acknowledgeActivated and acknowledgeRetired, processSlot).
ImplementsProvider == Provider!ProviderSpec

\* No ticket is orphaned or lost: each occupied slot is tracked by the entry of its consumer and
\* unit, and is either being cancelled or serves what the consumer last asked for
\* (reconcile: retireMissing, refreshCurrent, submitMissing, pruneReleased).
DemandFollowed == \A s \in Slots : Occupied(s) =>
    LET d == slot[s].demand
        e == entry[d.consumer][d.unit]
    IN
    /\ e.slot = s /\ e.gen = slot[s].gen
    /\ e.retiring => slot[s].cancel
    /\ \/ slot[s].cancel
       \/ d.unit \in DOMAIN want[d.consumer] /\ d.target = want[d.consumer][d.unit]

\* What the provider holds active is wanted active, or is on its way out: its ticket is cancelled,
\* retiring, or the completion has not been seen yet (acknowledgeActivated, updateDemand).
ActiveIsWanted == \A s \in Slots : Provider!Phase(s, slot[s].gen) = "active" =>
    \/ slot[s].cancel
    \/ slot[s].stage = "ACTIVE" /\ slot[s].demand.target = "ACTIVE"
    \/ \E a \in acks : a.kind = "activate" /\ a.slot = s /\ a.gen = slot[s].gen

\* Once a part is shut down the provider has nothing left to do (shutdown of the three parts).
NothingLeftBehind ==
    closed \cap {"bridge", "coordinator"} # {} => \A s \in Slots, g \in Generations : Provider!Free(s, g)

-----------------------------------------------------------------------------
(* Progress: the owner pumps every frame, the provider finishes what it      *)
(* accepted and does not refuse for ever, completions arrive, and each       *)
(* consumer reconciles its demand set again and again.                       *)

Fairness ==
    /\ WF_vars(Pump)
    /\ \A s \in Slots : SF_vars(Visit(s, TRUE))
    /\ WF_vars(\E s \in Slots, g \in Generations : Finish(s, g))
    /\ WF_vars(\E a \in acks : Deliver(a, FALSE))
    /\ \A c \in Consumers : WF_vars(Reconcile(c, want[c]))

FairSpec == Spec /\ Fairness

\* A cancelled ticket gives its slot back (cancel, pump, acknowledgeRetired).
CancelledAreReleased == \A s \in Slots, g \in Generations :
    slot[s].gen = g /\ slot[s].cancel ~> slot[s].gen # g \/ ~Occupied(s)

Served(c, u) == \E s \in Slots :
    /\ slot[s].demand.consumer = c /\ slot[s].demand.unit = u
    /\ slot[s].stage = want[c][u]

\* A unit that stays demanded is served at its target by retries, unless a slot has used up its
\* generations (reconcile, pump).
WantedAreServed == \A c \in Consumers, u \in Units, target \in Targets :
    u \in DOMAIN want[c] /\ want[c][u] = target /\ c \notin closed /\ closed \cap {"bridge", "coordinator"} = {}
        ~> \/ u \notin DOMAIN want[c] \/ Served(c, u) \/ closed # {}
           \/ want[c][u] # target
           \/ \E s \in Slots : slot[s].gen = MaxGeneration
=============================================================================
