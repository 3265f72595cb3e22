-------------------------- MODULE Streaming_proofs --------------------------
(***************************************************************************)
(* Proofs about Streaming, for any number of slots, consumers, units,       *)
(* generations and repeated completions.  SlotsInv relates the stage of a   *)
(* slot, the flags of the bridge, the completions on their way and what the *)
(* provider does for the ticket; with it every step of the streaming code   *)
(* is a legal step of StreamingProvider or none.                            *)
(***************************************************************************)
EXTENDS Streaming, TLAPS

Now(s) == provider[s][slot[s].gen].phase
AckFor(kind, s, ok) == [kind |-> kind, slot |-> s, gen |-> slot[s].gen, ok |-> ok] \in acks
Matched(s) == bridge[s].gen = slot[s].gen
FlagsAre(s, p, a, r) ==
    (bridge[s].prepare <=> p) /\ (bridge[s].activate <=> a) /\ (bridge[s].retire <=> r)

\* Tickets of other generations of a slot are not with the provider, later ones never were.
OtherTickets(s) == \A g \in Generations :
    /\ g # slot[s].gen => provider[s][g].phase \in {"unused", "retired"}
    /\ g > slot[s].gen => provider[s][g].phase = "unused"

\* A completion is only on its way when the provider has finished.
AcksLate(s) == \A a \in acks : a.slot = s =>
    /\ a.kind = "prepare" => provider[s][a.gen].phase \notin {"unused", "preparing", "cancelling"}
    /\ a.kind = "activate" => provider[s][a.gen].phase \in {"active", "spoiled", "retiring", "retired"}
    /\ a.kind = "retire" => provider[s][a.gen].phase = "retired"

IdleInv(s) == slot[s].stage \in {"EMPTY", "QUEUED"} =>
    /\ Now(s) = "unused" /\ ~slot[s].cancel /\ FlagsAre(s, FALSE, FALSE, FALSE)
    /\ Matched(s) => slot[s].stage = "QUEUED" /\ ~bridge[s].cancelSent

PreparingInv(s) == slot[s].stage = "PREPARING" =>
    /\ Matched(s) /\ FlagsAre(s, TRUE, FALSE, FALSE)
    /\ bridge[s].cancelSent => slot[s].cancel
    /\ Now(s) \in {"preparing", "cancelling", "prepared", "spoiled"}
    /\ ~bridge[s].cancelSent => Now(s) # "cancelling"
    /\ AckFor("prepare", s, TRUE) => Now(s) = "prepared" \/ (Now(s) = "spoiled" /\ bridge[s].cancelSent)
    /\ AckFor("prepare", s, FALSE) => Now(s) = "spoiled"

PreparedInv(s) == slot[s].stage = "PREPARED" =>
    /\ Matched(s) /\ FlagsAre(s, FALSE, bridge[s].activate, FALSE)
    /\ ~bridge[s].activate => Now(s) = "prepared" \/ (slot[s].cancel /\ Now(s) \in {"spoiled", "active"})
    /\ bridge[s].activate =>
        /\ Now(s) \in {"activating", "active", "spoiled"}
        /\ AckFor("activate", s, TRUE) => Now(s) = "active"
        /\ AckFor("activate", s, FALSE) => Now(s) = "spoiled"
        /\ Now(s) = "active" => AckFor("activate", s, TRUE)

SettledInv(s) ==
    /\ slot[s].stage = "ACTIVE" =>
        Matched(s) /\ FlagsAre(s, FALSE, FALSE, FALSE) /\ Now(s) = "active" /\ slot[s].demand.target = "ACTIVE"
    /\ slot[s].stage = "FAILED" => Matched(s) /\ FlagsAre(s, FALSE, FALSE, FALSE) /\ Now(s) = "spoiled"
    /\ slot[s].stage = "RETIRING" =>
        Matched(s) /\ FlagsAre(s, FALSE, FALSE, TRUE) /\ Now(s) \in {"retiring", "retired"}

SlotInv(s) ==
    /\ bridge[s].gen <= slot[s].gen
    /\ Occupied(s) => slot[s].gen # MaxGeneration /\ "coordinator" \notin closed
    /\ slot[s].stage \notin {"EMPTY", "QUEUED"} => "bridge" \notin closed
    /\ OtherTickets(s) /\ AcksLate(s)
    /\ IdleInv(s) /\ PreparingInv(s) /\ PreparedInv(s) /\ SettledInv(s)

SlotsInv == \A s \in Slots : SlotInv(s)

Inv == TypeOK /\ SlotsInv

-----------------------------------------------------------------------------
(* Typing *)

LEMMA Arithmetic ==
    /\ Capacity \in Nat \ {0} /\ MaxGeneration \in Nat \ {0} /\ MaxRepeats \in Nat
    /\ Slots \subseteq Nat /\ 0 \in Slots
    /\ \A s \in Slots : (s + 1) % Capacity \in Slots
BY StreamingAssumption DEF Slots

\* What a step of one slot leaves as it was.
LEMMA Frame ==
    ASSUME NEW t \in Slots, SlotInv(t), closed' = closed,
           slot'[t] = slot[t], bridge'[t] = bridge[t], provider'[t] = provider[t],
           \A a : a.slot = t => (a \in acks' <=> a \in acks)
    PROVE  SlotInv(t)'
BY DEF SlotInv, OtherTickets, AcksLate, IdleInv, PreparingInv, PreparedInv, SettledInv, Now, AckFor,
       Matched, FlagsAre, Occupied

\* The initial states.
LEMMA InitInv == Init => Inv
<1> SUFFICES ASSUME Init PROVE Inv
  OBVIOUS
<1>1. TypeOK
  <2>1. \A c \in Consumers : want[c] \in DemandSets
    <3>1. [u \in {} |-> "PREPARED"] \in [{} -> Targets] /\ {} \in SUBSET Units
      OBVIOUS
    <3> QED BY <3>1 DEF Init, DemandSets
  <2>2. slot \in [Slots -> [stage : Stages, gen : Generations, cancel : BOOLEAN, demand : Demands]]
    BY Arithmetic DEF Init, Stages, Generations, Demands, NoDemand
  <2>3. bridge \in [Slots -> [gen : 0..MaxGeneration, prepare : BOOLEAN, cancelSent : BOOLEAN,
                             activate : BOOLEAN, retire : BOOLEAN]]
    BY Arithmetic DEF Init, NoFlags
  <2>4. entry \in [Consumers -> [Units -> [slot : Slots, gen : 0..MaxGeneration, retiring : BOOLEAN]]]
    BY Arithmetic DEF Init, NoEntry
  <2>5. provider \in [Slots -> [Generations -> [phase : Provider!Phases, calls : Nat]]]
    BY Arithmetic DEF Init, Provider!ProviderInit, Provider!Phases, Provider!Generations, Generations
  <2> QED BY <2>1, <2>2, <2>3, <2>4, <2>5, Arithmetic DEF Init, TypeOK
<1>2. SlotsInv
  <2> SUFFICES ASSUME NEW s \in Slots PROVE SlotInv(s)
    BY DEF SlotsInv
  <2>1. /\ slot[s].stage = "EMPTY" /\ slot[s].gen = 1 /\ ~slot[s].cancel
        /\ bridge[s] = NoFlags /\ acks = {} /\ closed = {}
    BY DEF Init
  <2>2. /\ bridge[s].gen = 0 /\ ~bridge[s].prepare /\ ~bridge[s].activate /\ ~bridge[s].retire
        /\ ~bridge[s].cancelSent
    BY <2>1 DEF NoFlags
  <2>3. \A g \in Generations : provider[s][g].phase = "unused"
    BY DEF Init, Provider!ProviderInit, Provider!Generations, Generations
  <2>4. 1 \in Generations
    BY Arithmetic DEF Generations
  <2>5. OtherTickets(s) /\ AcksLate(s)
    BY <2>1, <2>3 DEF OtherTickets, AcksLate
  <2>6. IdleInv(s) /\ PreparingInv(s) /\ PreparedInv(s) /\ SettledInv(s)
    BY <2>1, <2>2, <2>3, <2>4 DEF IdleInv, PreparingInv, PreparedInv, SettledInv, Now, Matched, FlagsAre
  <2>7. ~Occupied(s)
    BY <2>1 DEF Occupied
  <2> QED BY <2>1, <2>2, <2>5, <2>6, <2>7 DEF SlotInv
<1> QED BY <1>1, <1>2 DEF Inv

-----------------------------------------------------------------------------
(* The steps of one slot: a visit of the pump, a completion, a retirement *)

SlotRecord == [stage : Stages, gen : Generations, cancel : BOOLEAN, demand : Demands]
FlagsRecord == [gen : 0..MaxGeneration, prepare : BOOLEAN, cancelSent : BOOLEAN,
                activate : BOOLEAN, retire : BOOLEAN]
TicketRecord == [phase : Provider!Phases, calls : Nat]

LEMMA Typed ==
    ASSUME TypeOK
    PROVE  /\ slot \in [Slots -> SlotRecord]
           /\ bridge \in [Slots -> FlagsRecord]
           /\ provider \in [Slots -> [Generations -> TicketRecord]]
           /\ \A s \in Slots : slot[s].gen \in Generations /\ slot[s].gen \in Nat
BY DEF TypeOK, SlotRecord, FlagsRecord, TicketRecord, Generations

\* A call of the provider, or a completion, changes the ticket it is about and no other.
LEMMA CallTyped ==
    ASSUME TypeOK, NEW s \in Slots, NEW g \in Generations, NEW to \in Provider!Phases,
           Provider!Call(s, g, to) \/ Provider!Become(s, g, to)
    PROVE  /\ provider' \in [Slots -> [Generations -> TicketRecord]]
           /\ provider'[s][g].phase = to
           /\ \A h \in Generations \ {g} : provider'[s][h] = provider[s][h]
           /\ \A t \in Slots \ {s} : provider'[t] = provider[t]
<1>1. provider[s] \in [Generations -> TicketRecord] /\ provider[s][g] \in TicketRecord
  BY Typed
<1>2. PICK r \in TicketRecord : r.phase = to /\ provider' = [provider EXCEPT ![s][g] = r]
  <2>1. [phase |-> to, calls |-> provider[s][g].calls] \in TicketRecord
    BY <1>1 DEF TicketRecord
  <2>2. [phase |-> to, calls |-> provider[s][g].calls + 1] \in TicketRecord
    BY <1>1 DEF TicketRecord
  <2> QED BY <2>1, <2>2 DEF Provider!Call, Provider!Become
<1>3. provider' = [provider EXCEPT ![s] = [provider[s] EXCEPT ![g] = r]]
  BY <1>2
<1>4. /\ provider'[s] = [provider[s] EXCEPT ![g] = r]
      /\ \A t \in Slots \ {s} : provider'[t] = provider[t]
  BY <1>3, Typed
<1>5. [provider[s] EXCEPT ![g] = r] \in [Generations -> TicketRecord]
  BY <1>1, <1>2
<1>6. provider' \in [Slots -> [Generations -> TicketRecord]]
  BY <1>3, <1>5, Typed
<1> QED BY <1>1, <1>2, <1>4, <1>6

LEMMA FlagsTyped ==
    ASSUME TypeOK, NEW s \in Slots
    PROVE  /\ Flags(s) \in FlagsRecord
           /\ Flags(s).gen = slot[s].gen
           /\ Matched(s) => Flags(s) = bridge[s]
           /\ ~Matched(s) => /\ ~Outstanding(Flags(s)) /\ ~Flags(s).cancelSent
<1>1. bridge[s] \in FlagsRecord /\ slot[s].gen \in 0..MaxGeneration
  BY Typed DEF Generations
<1>2. CASE Matched(s)
  BY <1>1, <1>2 DEF Flags, Matched
<1>3. CASE ~Matched(s)
  BY <1>1, <1>3 DEF Flags, Matched, NoFlags, FlagsRecord, Outstanding
<1> QED BY <1>2, <1>3

\* What one visit of slot s shows: the rest of the slots stay, the types and the slot's own
\* invariant are preserved, and the provider gets a legal call or none.
VisitShows(s) ==
    /\ slot' \in [Slots -> SlotRecord] /\ bridge' \in [Slots -> FlagsRecord]
    /\ provider' \in [Slots -> [Generations -> TicketRecord]]
    /\ \A t \in Slots \ {s} : slot'[t] = slot[t] /\ bridge'[t] = bridge[t] /\ provider'[t] = provider[t]
    /\ SlotInv(s)'
    /\ Provider!ProviderNext \/ UNCHANGED provider

Visiting(s) ==
    /\ bridge[s].gen = slot[s].gen \/ ~Outstanding(bridge[s])
    /\ closed \cap {"bridge", "coordinator"} = {}
    /\ UNCHANGED <<acks, closed>>

\* A visit that only cleans the flags of a new ticket, or does nothing.
LEMMA QuietVisit ==
    ASSUME Inv, NEW s \in Slots, Visiting(s), Occupied(s), bridge' = [bridge EXCEPT ![s] = Flags(s)],
           UNCHANGED <<slot, provider>>
    PROVE  VisitShows(s)
<1>1. TypeOK /\ SlotInv(s)
  BY DEF Inv, SlotsInv
<1>2. bridge' \in [Slots -> FlagsRecord] /\ bridge'[s] = Flags(s) /\ \A t \in Slots \ {s} : bridge'[t] = bridge[t]
  BY <1>1, Typed, FlagsTyped
<1>3. CASE Matched(s)
  <2>1. bridge'[s] = bridge[s]
    BY <1>1, <1>2, <1>3, FlagsTyped
  <2>2. SlotInv(s)'
    BY <1>1, <2>1, Frame DEF Visiting
  <2> QED BY <1>1, <1>2, <2>2, Typed DEF VisitShows
<1>4. CASE ~Matched(s)
  <2>1. slot[s].stage = "QUEUED"
    BY <1>1, <1>4, Typed DEF SlotInv, IdleInv, PreparingInv, PreparedInv, SettledInv, Occupied, SlotRecord, Stages
  <2>2. ~bridge'[s].prepare /\ ~bridge'[s].activate /\ ~bridge'[s].retire /\ ~bridge'[s].cancelSent
        /\ bridge'[s].gen = slot[s].gen
    BY <1>1, <1>2, <1>4, FlagsTyped DEF Outstanding
  <2>3. /\ (OtherTickets(s) /\ AcksLate(s))' /\ (Now(s) = "unused" /\ ~slot[s].cancel)'
        /\ slot[s].gen # MaxGeneration /\ slot'[s] = slot[s] /\ slot[s].gen \in Nat
    BY <1>1, <2>1, Typed DEF SlotInv, OtherTickets, AcksLate, Now, IdleInv, Visiting, Occupied
  <2>4. SlotInv(s)'
    BY <1>1, <2>1, <2>2, <2>3, Typed, FlagsTyped DEF SlotInv, IdleInv, PreparingInv, PreparedInv,
       SettledInv, Matched, FlagsAre, Occupied, Visiting
  <2> QED BY <1>1, <1>2, <2>4, Typed DEF VisitShows
<1> QED BY <1>3, <1>4

\* The tickets of other generations when the provider is called for the current one.
LEMMA CallOthers ==
    ASSUME Inv, NEW s \in Slots, slot'[s].gen = slot[s].gen,
           \A h \in Generations \ {slot[s].gen} : provider'[s][h] = provider[s][h]
    PROVE  OtherTickets(s)'
BY Typed DEF Inv, SlotsInv, SlotInv, OtherTickets, Generations

\* The completions on their way stay late enough when the provider takes a legal call.
LEMMA CallAcks ==
    ASSUME Inv, NEW s \in Slots, acks' = acks,
           \A h \in Generations \ {slot[s].gen} : provider'[s][h] = provider[s][h],
           LET to == provider'[s][slot[s].gen].phase IN
           \/ Now(s) = "unused" /\ to = "preparing"
           \/ Now(s) = "preparing" /\ to = "cancelling"
           \/ Now(s) \in {"prepared", "spoiled"} /\ to = "spoiled"
           \/ Now(s) = "prepared" /\ to = "activating"
           \/ Now(s) \in {"prepared", "spoiled", "active"} /\ to = "retiring"
    PROVE  AcksLate(s)'
<1> DEFINE g == slot[s].gen
<1>1. AcksLate(s) /\ TypeOK
  BY DEF Inv, SlotsInv, SlotInv
<1> SUFFICES ASSUME NEW a \in acks, a.slot = s
             PROVE  /\ a.kind = "prepare" => provider'[s][a.gen].phase \notin {"unused", "preparing", "cancelling"}
                    /\ a.kind = "activate" => provider'[s][a.gen].phase \in {"active", "spoiled", "retiring", "retired"}
                    /\ a.kind = "retire" => provider'[s][a.gen].phase = "retired"
  BY DEF AcksLate
<1>2. a.gen \in Generations
  BY <1>1 DEF TypeOK, Acks
<1>3. CASE a.gen # g
  BY <1>1, <1>2, <1>3 DEF AcksLate
<1>4. CASE a.gen = g
  BY <1>1, <1>4 DEF AcksLate, Now
<1> QED BY <1>3, <1>4

LEMMA VisitPrepareStep ==
    ASSUME Inv, NEW s \in Slots, NEW accepts \in BOOLEAN, Visiting(s), VisitPrepare(s, accepts)
    PROVE  VisitShows(s)
<1> DEFINE g == slot[s].gen
<1>1. TypeOK /\ SlotInv(s) /\ g \in Generations
  BY Typed DEF Inv, SlotsInv
<1>2. /\ Now(s) = "unused" /\ ~slot[s].cancel
      /\ ~Outstanding(Flags(s)) /\ ~Flags(s).cancelSent
  BY <1>1, FlagsTyped DEF SlotInv, IdleInv, VisitPrepare, FlagsAre, Outstanding
<1>3. CASE accepts
  <2>1. /\ Provider!Call(s, g, "preparing")
        /\ slot' = [slot EXCEPT ![s].stage = "PREPARING"]
        /\ bridge' = [bridge EXCEPT ![s] = [Flags(s) EXCEPT !.prepare = TRUE]]
    BY <1>1, <1>3, Typed DEF VisitPrepare, Advance, MayAdvance, Advanced, SetFlags
  <2>2. /\ provider' \in [Slots -> [Generations -> TicketRecord]]
        /\ provider'[s][g].phase = "preparing"
        /\ \A h \in Generations \ {g} : provider'[s][h] = provider[s][h]
        /\ \A t \in Slots \ {s} : provider'[t] = provider[t]
    BY <1>1, <2>1, CallTyped DEF Provider!Phases
  <2>3. Provider!BeginPrepare(s, g)
    BY <1>1, <1>2, <2>1 DEF Provider!BeginPrepare, Provider!Phase, Provider!Free, Now, SlotInv, OtherTickets,
       Provider!Generations, Generations
  <2>4. /\ slot' \in [Slots -> SlotRecord] /\ bridge' \in [Slots -> FlagsRecord]
        /\ \A t \in Slots \ {s} : slot'[t] = slot[t] /\ bridge'[t] = bridge[t]
        /\ slot'[s].stage = "PREPARING" /\ slot'[s].gen = g /\ slot'[s].cancel = slot[s].cancel
        /\ bridge'[s].gen = g /\ bridge'[s].prepare /\ ~bridge'[s].cancelSent
        /\ ~bridge'[s].activate /\ ~bridge'[s].retire
    <3>1. slot \in [Slots -> SlotRecord] /\ bridge \in [Slots -> FlagsRecord]
      BY <1>1, Typed
    <3>2. Flags(s) \in FlagsRecord /\ Flags(s).gen = g
      BY <1>1, FlagsTyped
    <3>3. /\ [slot[s] EXCEPT !.stage = "PREPARING"] \in SlotRecord
          /\ [Flags(s) EXCEPT !.prepare = TRUE] \in FlagsRecord
      <4>1. [slot[s] EXCEPT !.stage = "PREPARING"] \in SlotRecord
        BY <3>1 DEF SlotRecord, Stages
      <4>2. [Flags(s) EXCEPT !.prepare = TRUE] \in FlagsRecord
        BY <3>2 DEF FlagsRecord
      <4> QED BY <4>1, <4>2
    <3>4. slot' \in [Slots -> SlotRecord] /\ bridge' \in [Slots -> FlagsRecord]
      BY <2>1, <3>1, <3>3
    <3>5. \A t \in Slots \ {s} : slot'[t] = slot[t] /\ bridge'[t] = bridge[t]
      BY <2>1, <3>1
    <3>6. slot'[s].stage = "PREPARING" /\ slot'[s].gen = g /\ slot'[s].cancel = slot[s].cancel
      BY <1>1, <2>1, <3>1 DEF SlotRecord
    <3>7. /\ bridge'[s].gen = g /\ bridge'[s].prepare /\ ~bridge'[s].cancelSent
          /\ ~bridge'[s].activate /\ ~bridge'[s].retire
      BY <1>2, <2>1, <3>1, <3>2 DEF FlagsRecord, Outstanding
    <3> QED BY <3>4, <3>5, <3>6, <3>7
  <2>5. OtherTickets(s)'
    BY <2>2, <2>4, CallOthers
  <2>6. AcksLate(s)'
    BY <1>2, <2>2, CallAcks DEF Visiting
  <2>7. SlotInv(s)'
    <3>1. /\ slot[s].gen # MaxGeneration /\ g \in Nat
          /\ "coordinator" \notin closed' /\ "bridge" \notin closed'
      BY <1>1, Typed DEF SlotInv, Visiting, Occupied, VisitPrepare
    <3>2. ~AckFor("prepare", s, TRUE)' /\ ~AckFor("prepare", s, FALSE)'
      BY <2>2, <2>4, <2>6 DEF AckFor, AcksLate
    <3>3. PreparingInv(s)'
      BY <2>2, <2>4, <3>2 DEF PreparingInv, Now, Matched, FlagsAre
    <3>4. IdleInv(s)' /\ PreparedInv(s)' /\ SettledInv(s)'
      BY <2>4 DEF IdleInv, PreparedInv, SettledInv
    <3> QED BY <2>4, <2>5, <2>6, <3>1, <3>3, <3>4 DEF SlotInv, Occupied
  <2> QED BY <2>2, <2>3, <2>4, <2>7, <1>1 DEF VisitShows, Provider!ProviderNext, Provider!Generations, Generations
<1>4. CASE ~accepts
  BY <1>4, QuietVisit DEF VisitPrepare, SetFlags, Occupied
<1> QED BY <1>3, <1>4

LEMMA VisitCancelStep ==
    ASSUME Inv, NEW s \in Slots, NEW accepts \in BOOLEAN, Visiting(s), VisitCancel(s, accepts)
    PROVE  VisitShows(s)
<1> DEFINE g == slot[s].gen
           to == IF Now(s) = "preparing" THEN "cancelling" ELSE "spoiled"
<1>1. TypeOK /\ SlotInv(s) /\ g \in Generations /\ UNCHANGED slot /\ slot[s].stage = "PREPARING"
  BY Typed DEF Inv, SlotsInv, VisitCancel
<1>2. /\ Matched(s) /\ FlagsAre(s, TRUE, FALSE, FALSE) /\ Flags(s) = bridge[s]
      /\ Now(s) \in {"preparing", "cancelling", "prepared", "spoiled"}
      /\ ~bridge[s].cancelSent => Now(s) # "cancelling"
      /\ AckFor("prepare", s, TRUE) => \/ Now(s) = "prepared"
                                       \/ Now(s) = "spoiled" /\ bridge[s].cancelSent
      /\ AckFor("prepare", s, FALSE) => Now(s) = "spoiled"
  BY <1>1, FlagsTyped DEF SlotInv, PreparingInv
<1>3. CASE accepts /\ slot[s].cancel /\ ~Flags(s).cancelSent
  <2>1. /\ Provider!Call(s, g, to)
        /\ bridge' = [bridge EXCEPT ![s] = [bridge[s] EXCEPT !.cancelSent = TRUE]]
    BY <1>1, <1>2, <1>3 DEF VisitCancel, SetFlags, Now, Provider!Phase
  <2>2. /\ provider' \in [Slots -> [Generations -> TicketRecord]]
        /\ provider'[s][g].phase = to
        /\ \A h \in Generations \ {g} : provider'[s][h] = provider[s][h]
        /\ \A t \in Slots \ {s} : provider'[t] = provider[t]
    BY <1>1, <2>1, CallTyped DEF Provider!Phases
  <2>3. Provider!CancelPrepare(s, g)
    BY <1>2, <1>3, <2>1 DEF Provider!CancelPrepare, Provider!Phase, Now
  <2>4. /\ bridge' \in [Slots -> FlagsRecord]
        /\ \A t \in Slots \ {s} : bridge'[t] = bridge[t]
        /\ bridge'[s].gen = g /\ bridge'[s].cancelSent /\ FlagsAre(s, TRUE, FALSE, FALSE)'
    BY <1>1, <1>2, <2>1, Typed DEF FlagsRecord, FlagsAre, Matched
  <2>5. OtherTickets(s)' /\ AcksLate(s)'
    BY <1>1, <1>2, <1>3, <2>2, CallOthers, CallAcks DEF Visiting
  <2>6. PreparingInv(s)'
    BY <1>1, <1>2, <1>3, <2>2, <2>4, <2>5 DEF PreparingInv, Now, Matched, AckFor, AcksLate, Visiting
  <2>7. SlotInv(s)'
    BY <1>1, <2>4, <2>5, <2>6, Typed DEF SlotInv, Occupied, Visiting, IdleInv, PreparedInv, SettledInv
  <2> QED BY <1>1, <2>2, <2>3, <2>4, <2>7, Typed DEF VisitShows, Provider!ProviderNext, Provider!Generations, Generations
<1>4. CASE ~(accepts /\ slot[s].cancel /\ ~Flags(s).cancelSent)
  BY <1>1, <1>4, QuietVisit DEF VisitCancel, SetFlags, Occupied
<1> QED BY <1>3, <1>4

LEMMA VisitActivateStep ==
    ASSUME Inv, NEW s \in Slots, NEW accepts \in BOOLEAN, Visiting(s), VisitActivate(s, accepts)
    PROVE  VisitShows(s)
<1> DEFINE g == slot[s].gen
           go == accepts /\ slot[s].demand.target = "ACTIVE" /\ ~Flags(s).activate
<1>1. /\ TypeOK /\ SlotInv(s) /\ g \in Generations
      /\ UNCHANGED slot /\ slot[s].stage = "PREPARED" /\ ~slot[s].cancel
  BY Typed DEF Inv, SlotsInv, VisitActivate
<1>2. Matched(s) /\ FlagsAre(s, FALSE, bridge[s].activate, FALSE) /\ Flags(s) = bridge[s]
  BY <1>1, FlagsTyped DEF SlotInv, PreparedInv
<1>3. CASE go
  <2>1. /\ Provider!Call(s, g, "activating")
        /\ bridge' = [bridge EXCEPT ![s] = [bridge[s] EXCEPT !.activate = TRUE]]
        /\ Now(s) = "prepared"
    BY <1>1, <1>2, <1>3 DEF VisitActivate, SetFlags, SlotInv, PreparedInv
  <2>2. /\ provider' \in [Slots -> [Generations -> TicketRecord]]
        /\ provider'[s][g].phase = "activating"
        /\ \A h \in Generations \ {g} : provider'[s][h] = provider[s][h]
        /\ \A t \in Slots \ {s} : provider'[t] = provider[t]
    BY <1>1, <2>1, CallTyped DEF Provider!Phases
  <2>3. Provider!BeginActivate(s, g)
    BY <2>1 DEF Provider!BeginActivate, Provider!Phase, Now
  <2>4. /\ bridge' \in [Slots -> FlagsRecord]
        /\ \A t \in Slots \ {s} : bridge'[t] = bridge[t]
        /\ bridge'[s].gen = g /\ bridge'[s].activate /\ FlagsAre(s, FALSE, TRUE, FALSE)'
    BY <1>1, <1>2, <2>1, Typed DEF FlagsRecord, FlagsAre, Matched
  <2>5. OtherTickets(s)' /\ AcksLate(s)'
    BY <1>1, <2>1, <2>2, CallOthers, CallAcks DEF Visiting
  <2>6. PreparedInv(s)'
    BY <1>1, <2>2, <2>4, <2>5 DEF PreparedInv, Now, Matched, AckFor, AcksLate, FlagsAre
  <2>7. SlotInv(s)'
    BY <1>1, <2>4, <2>5, <2>6, Typed DEF SlotInv, Occupied, Visiting, IdleInv, PreparingInv, SettledInv
  <2> QED BY <1>1, <2>2, <2>3, <2>4, <2>7, Typed DEF VisitShows, Provider!ProviderNext, Provider!Generations, Generations
<1>4. CASE ~go
  BY <1>1, <1>4, QuietVisit DEF VisitActivate, SetFlags, Occupied
<1> QED BY <1>3, <1>4

LEMMA VisitRetireStep ==
    ASSUME Inv, NEW s \in Slots, NEW accepts \in BOOLEAN, Visiting(s), VisitRetire(s, accepts)
    PROVE  VisitShows(s)
<1> DEFINE g == slot[s].gen
           go == accepts /\ ~Flags(s).activate /\ ~Flags(s).prepare
<1>1. /\ TypeOK /\ SlotInv(s) /\ g \in Generations
      /\ slot[s].stage \in {"PREPARED", "ACTIVE", "FAILED"}
      /\ slot[s].stage = "PREPARED" => slot[s].cancel
  BY Typed DEF Inv, SlotsInv, VisitRetire
<1>2. Matched(s) /\ Flags(s) = bridge[s] /\ ~bridge[s].retire /\ ~bridge[s].prepare
  BY <1>1, FlagsTyped DEF SlotInv, PreparedInv, SettledInv, FlagsAre
<1>3. CASE go
  <2>1. /\ Provider!Call(s, g, "retiring")
        /\ slot' = [slot EXCEPT ![s].stage = "RETIRING"]
        /\ bridge' = [bridge EXCEPT ![s] = [bridge[s] EXCEPT !.retire = TRUE]]
        /\ ~bridge[s].activate
    BY <1>1, <1>2, <1>3, Typed DEF VisitRetire, SetFlags, Advance, MayAdvance, Advanced
  <2>2. /\ provider' \in [Slots -> [Generations -> TicketRecord]]
        /\ provider'[s][g].phase = "retiring"
        /\ \A h \in Generations \ {g} : provider'[s][h] = provider[s][h]
        /\ \A t \in Slots \ {s} : provider'[t] = provider[t]
    BY <1>1, <2>1, CallTyped DEF Provider!Phases
  <2>3. Now(s) \in {"prepared", "spoiled", "active"} /\ Provider!BeginRetire(s, g)
    BY <1>1, <2>1 DEF Provider!BeginRetire, Provider!Phase, Now, SlotInv, PreparedInv, SettledInv
  <2>4. /\ slot' \in [Slots -> SlotRecord] /\ bridge' \in [Slots -> FlagsRecord]
        /\ \A t \in Slots \ {s} : slot'[t] = slot[t] /\ bridge'[t] = bridge[t]
        /\ slot'[s].stage = "RETIRING" /\ slot'[s].gen = g
        /\ bridge'[s].gen = g /\ FlagsAre(s, FALSE, FALSE, TRUE)'
    <3>1. slot \in [Slots -> SlotRecord] /\ bridge \in [Slots -> FlagsRecord]
      BY <1>1, Typed
    <3>2. [slot[s] EXCEPT !.stage = "RETIRING"] \in SlotRecord
      BY <3>1 DEF SlotRecord, Stages
    <3>3. [bridge[s] EXCEPT !.retire = TRUE] \in FlagsRecord
      BY <3>1 DEF FlagsRecord
    <3>4. slot' \in [Slots -> SlotRecord] /\ bridge' \in [Slots -> FlagsRecord]
      BY <2>1, <3>1, <3>2, <3>3
    <3>5. \A t \in Slots \ {s} : slot'[t] = slot[t] /\ bridge'[t] = bridge[t]
      BY <2>1, <3>1
    <3>6. slot'[s].stage = "RETIRING" /\ slot'[s].gen = g
      BY <1>1, <2>1, <3>1 DEF SlotRecord
    <3>7. bridge'[s].gen = g /\ FlagsAre(s, FALSE, FALSE, TRUE)'
      BY <1>1, <1>2, <2>1, <3>1 DEF FlagsRecord, FlagsAre, Matched
    <3> QED BY <3>4, <3>5, <3>6, <3>7
  <2>5. OtherTickets(s)' /\ AcksLate(s)'
    BY <1>1, <2>2, <2>3, <2>4, CallOthers, CallAcks DEF Visiting
  <2>6. SettledInv(s)'
    BY <2>2, <2>4 DEF SettledInv, Now, Matched
  <2>7. g # MaxGeneration /\ g \in Nat
    BY <1>1, Typed DEF SlotInv, Occupied
  <2>8. SlotInv(s)'
    BY <2>4, <2>5, <2>6, <2>7 DEF SlotInv, Occupied, Visiting, IdleInv, PreparingInv, PreparedInv
  <2> QED BY <1>1, <2>2, <2>3, <2>4, <2>8 DEF VisitShows, Provider!ProviderNext, Provider!Generations, Generations
<1>4. CASE ~go
  BY <1>1, <1>4, QuietVisit DEF VisitRetire, SetFlags, Occupied
<1> QED BY <1>3, <1>4

-----------------------------------------------------------------------------
(* A step of one slot preserves the whole invariant *)

LEMMA LocalStep ==
    ASSUME Inv, NEW s \in Slots, VisitShows(s), closed' = closed, acks' \subseteq Acks,
           \A a : a.slot # s => (a \in acks' <=> a \in acks),
           nextSlot' \in Slots, UNCHANGED <<entry, want>>, repeats' \in 0..MaxRepeats
    PROVE  Inv'
<1>1. TypeOK'
  BY DEF Inv, TypeOK, VisitShows, SlotRecord, FlagsRecord, TicketRecord
<1>2. ASSUME NEW t \in Slots PROVE SlotInv(t)'
  <2>1. CASE t = s
    BY <2>1 DEF VisitShows
  <2>2. CASE t # s
    BY <2>2, Frame DEF VisitShows, Inv, SlotsInv
  <2> QED BY <2>1, <2>2
<1> QED BY <1>1, <1>2 DEF Inv, SlotsInv, Slots

LEMMA VisitStep ==
    ASSUME Inv, NEW s \in Slots, NEW accepts \in BOOLEAN, Visit(s, accepts)
    PROVE  Inv' /\ (Provider!ProviderNext \/ UNCHANGED provider)
<1>1. VisitShows(s)
  <2>1. CASE VisitIdle(s)
    <3>1. SlotInv(s)'
      BY <2>1, Frame DEF Inv, SlotsInv, VisitIdle, Visit
    <3> QED BY <2>1, <3>1, Typed DEF VisitIdle, VisitShows, Inv
  <2>2. CASE Visiting(s) /\ (VisitPrepare(s, accepts) \/ VisitCancel(s, accepts) \/ VisitActivate(s, accepts)
                              \/ VisitRetire(s, accepts))
    BY <2>2, VisitPrepareStep, VisitCancelStep, VisitActivateStep, VisitRetireStep
  <2>3. CASE Visiting(s) /\ VisitSettled(s)
    BY <2>3, QuietVisit DEF VisitSettled, SetFlags, Occupied
  <2> QED BY <2>1, <2>2, <2>3 DEF Visit, Visiting
<1>2. nextSlot' \in Slots /\ acks' \subseteq Acks /\ repeats' \in 0..MaxRepeats
  BY Arithmetic DEF Visit, Inv, TypeOK
<1>3. Inv'
  BY <1>1, <1>2, LocalStep DEF Visit
<1> QED BY <1>1, <1>3 DEF VisitShows

\* A completion that changes nothing is taken in.
LEMMA DropAck ==
    ASSUME Inv, NEW s \in Slots, UNCHANGED <<slot, bridge, provider, closed>>, acks' \subseteq acks,
           slot[s].stage = "PREPARED" /\ bridge[s].activate /\ AckFor("activate", s, TRUE)
               => AckFor("activate", s, TRUE)'
    PROVE  VisitShows(s)
<1>1. TypeOK /\ SlotInv(s)
  BY DEF Inv, SlotsInv
<1>2. /\ (OtherTickets(s) /\ AcksLate(s) /\ IdleInv(s) /\ SettledInv(s))'
      /\ (bridge[s].gen <= slot[s].gen)'
      /\ (Occupied(s) => slot[s].gen # MaxGeneration /\ "coordinator" \notin closed)'
      /\ (slot[s].stage \notin {"EMPTY", "QUEUED"} => "bridge" \notin closed)'
  BY <1>1 DEF SlotInv, OtherTickets, AcksLate, IdleInv, SettledInv, Now, Matched, FlagsAre, Occupied
<1>3. PreparingInv(s)'
  BY <1>1 DEF SlotInv, PreparingInv, Now, Matched, FlagsAre, AckFor
<1>4. PreparedInv(s)'
  BY <1>1 DEF SlotInv, PreparedInv, Now, Matched, FlagsAre, AckFor
<1>5. SlotInv(s)'
  BY <1>2, <1>3, <1>4 DEF SlotInv
<1> QED BY <1>1, <1>5, Typed DEF VisitShows

\* An expected completion: what it is about, and that its flag falls.
LEMMA ExpectedFacts ==
    ASSUME Inv, NEW a \in acks, NEW flag, NEW stage, Expected(a, flag, stage)
    PROVE  /\ a.slot \in Slots /\ a.gen = slot[a.slot].gen /\ slot[a.slot].stage = stage
           /\ flag /\ closed \cap {"bridge", "coordinator"} = {}
           /\ a.ok \in BOOLEAN
           /\ AckFor(a.kind, a.slot, a.ok)
<1>1. a \in Acks
  BY DEF Inv, TypeOK
<1>2. a = [kind |-> a.kind, slot |-> a.slot, gen |-> a.gen, ok |-> a.ok]
  BY <1>1 DEF Acks
<1> QED BY <1>1, <1>2 DEF Expected, Valid, Acks, AckFor

LEMMA AcknowledgePreparedStep ==
    ASSUME Inv, NEW a \in acks, NEW again \in BOOLEAN, AcknowledgePrepared(a, again)
    PROVE  VisitShows(a.slot)
<1> DEFINE s == a.slot
           next == IF a.ok THEN "PREPARED" ELSE "FAILED"
<1>1. /\ TypeOK /\ a \in Acks /\ s \in Slots /\ SlotInv(s) /\ UNCHANGED <<provider, closed>>
      /\ acks' \subseteq acks /\ \A b \in acks : b # a => b \in acks'
  BY DEF Inv, SlotsInv, TypeOK, Acks, AcknowledgePrepared, Take
<1>2. CASE Expected(a, bridge[s].prepare, "PREPARING")
  <2>1. /\ a.gen = slot[s].gen /\ slot[s].stage = "PREPARING"
        /\ closed \cap {"bridge", "coordinator"} = {} /\ AckFor("prepare", s, a.ok) /\ a.ok \in BOOLEAN
    BY <1>2, ExpectedFacts DEF AcknowledgePrepared
  <2>2. /\ slot' = [slot EXCEPT ![s].stage = next]
        /\ bridge' = [bridge EXCEPT ![s] = [bridge[s] EXCEPT !.prepare = FALSE]]
    BY <1>1, <1>2, <2>1 DEF AcknowledgePrepared, Advance, MayAdvance, Advanced, SetFlags
  <2>3. /\ slot' \in [Slots -> SlotRecord] /\ bridge' \in [Slots -> FlagsRecord]
        /\ \A t \in Slots \ {s} : slot'[t] = slot[t] /\ bridge'[t] = bridge[t]
        /\ slot'[s].stage = next /\ slot'[s].gen = slot[s].gen /\ slot'[s].cancel = slot[s].cancel
        /\ bridge'[s].gen = slot[s].gen /\ FlagsAre(s, FALSE, FALSE, FALSE)'
        /\ bridge[s].cancelSent => slot[s].cancel
    <3>1. slot[s] \in SlotRecord /\ bridge[s] \in FlagsRecord /\ next \in Stages
      BY <1>1, Typed DEF Stages
    <3>2. [slot[s] EXCEPT !.stage = next] \in SlotRecord /\ [bridge[s] EXCEPT !.prepare = FALSE] \in FlagsRecord
      BY <3>1 DEF SlotRecord, FlagsRecord
    <3>3. /\ slot' \in [Slots -> SlotRecord] /\ bridge' \in [Slots -> FlagsRecord]
          /\ \A t \in Slots \ {s} : slot'[t] = slot[t] /\ bridge'[t] = bridge[t]
          /\ slot'[s] = [slot[s] EXCEPT !.stage = next] /\ bridge'[s] = [bridge[s] EXCEPT !.prepare = FALSE]
      BY <1>1, <2>2, <3>2, Typed
    <3>4. bridge[s].gen = slot[s].gen /\ FlagsAre(s, TRUE, FALSE, FALSE) /\ (bridge[s].cancelSent => slot[s].cancel)
      BY <1>1, <2>1 DEF SlotInv, PreparingInv, Matched
    <3> QED BY <3>1, <3>3, <3>4 DEF FlagsAre, SlotRecord, FlagsRecord
  <2>4. OtherTickets(s)' /\ AcksLate(s)'
    BY <1>1, <2>3 DEF SlotInv, OtherTickets, AcksLate
  <2>5. PreparedInv(s)' /\ SettledInv(s)'
    BY <1>1, <2>1, <2>3 DEF SlotInv, PreparingInv, PreparedInv, SettledInv, Now, Matched, FlagsAre
  <2>6. slot[s].gen # MaxGeneration /\ slot[s].gen \in Nat
    BY <1>1, <2>1, Typed DEF SlotInv, Occupied
  <2>7. SlotInv(s)'
    BY <1>1, <2>1, <2>3, <2>4, <2>5, <2>6 DEF SlotInv, Occupied, IdleInv, PreparingInv
  <2> QED BY <1>1, <2>3, <2>7, Typed DEF VisitShows
<1>3. CASE ~Expected(a, bridge[s].prepare, "PREPARING")
  <2>1. UNCHANGED <<slot, bridge>> /\ a.kind = "prepare"
    BY <1>3 DEF AcknowledgePrepared
  <2>2. AckFor("activate", s, TRUE) => AckFor("activate", s, TRUE)'
    BY <1>1, <2>1 DEF AckFor
  <2> QED BY <1>1, <2>1, <2>2, DropAck
<1> QED BY <1>2, <1>3

LEMMA AcknowledgeActivatedStep ==
    ASSUME Inv, NEW a \in acks, NEW again \in BOOLEAN, AcknowledgeActivated(a, again)
    PROVE  VisitShows(a.slot)
<1> DEFINE s == a.slot
           next == IF a.ok THEN "ACTIVE" ELSE "FAILED"
           done == [bridge[s] EXCEPT !.activate = FALSE]
           late == a.ok /\ (slot[s].demand.target # "ACTIVE" \/ slot[s].cancel)
<1>1. /\ TypeOK /\ a \in Acks /\ s \in Slots /\ SlotInv(s) /\ UNCHANGED <<provider, closed>>
      /\ acks' \subseteq acks /\ \A b \in acks : b # a => b \in acks'
  BY DEF Inv, SlotsInv, TypeOK, Acks, AcknowledgeActivated, Take
<1>2. CASE Expected(a, bridge[s].activate, "PREPARED")
  <2>1. /\ a.gen = slot[s].gen /\ slot[s].stage = "PREPARED" /\ bridge[s].activate
        /\ closed \cap {"bridge", "coordinator"} = {} /\ AckFor("activate", s, a.ok) /\ a.ok \in BOOLEAN
    BY <1>2, ExpectedFacts DEF AcknowledgeActivated
  <2>2. Matched(s) /\ ~bridge[s].prepare /\ ~bridge[s].retire /\ Now(s) = IF a.ok THEN "active" ELSE "spoiled"
    BY <1>1, <2>1 DEF SlotInv, PreparedInv, FlagsAre
  <2>3. slot[s].gen # MaxGeneration /\ slot[s].gen \in Nat
    BY <1>1, <2>1, Typed DEF SlotInv, Occupied
  <2>4. /\ bridge' = [bridge EXCEPT ![s] = done]
        /\ late => \/ slot' = [slot EXCEPT ![s].cancel = TRUE]
                   \/ slot' = slot /\ slot[s].cancel
        /\ ~late => /\ slot' = [slot EXCEPT ![s].stage = next]
                    /\ a.ok => slot[s].demand.target = "ACTIVE"
    BY <1>1, <1>2, <2>1 DEF AcknowledgeActivated, CancelledSlot, Advance, MayAdvance, Advanced, SetFlags
  <2>5. /\ bridge' \in [Slots -> FlagsRecord] /\ \A t \in Slots \ {s} : bridge'[t] = bridge[t]
        /\ bridge'[s].gen = slot[s].gen /\ FlagsAre(s, FALSE, FALSE, FALSE)'
    <3>1. bridge[s] \in FlagsRecord /\ done \in FlagsRecord
      BY <1>1, Typed DEF FlagsRecord
    <3>2. bridge' \in [Slots -> FlagsRecord] /\ bridge'[s] = done /\ \A t \in Slots \ {s} : bridge'[t] = bridge[t]
      BY <1>1, <2>4, <3>1, Typed
    <3> QED BY <2>2, <3>1, <3>2 DEF FlagsRecord, FlagsAre, Matched
  <2>6. /\ slot' \in [Slots -> SlotRecord] /\ \A t \in Slots \ {s} : slot'[t] = slot[t]
        /\ slot'[s].gen = slot[s].gen /\ slot'[s].demand = slot[s].demand
        /\ late => slot'[s].stage = "PREPARED" /\ slot'[s].cancel
        /\ ~late => slot'[s].stage = next
    <3>1. slot[s] \in SlotRecord /\ next \in Stages
      BY <1>1, Typed DEF Stages
    <3>2. [slot[s] EXCEPT !.stage = next] \in SlotRecord /\ [slot[s] EXCEPT !.cancel = TRUE] \in SlotRecord
      BY <3>1 DEF SlotRecord
    <3>3. CASE late
      <4>1. CASE slot' = slot /\ slot[s].cancel
        BY <1>1, <2>1, <3>3, <4>1, Typed
      <4>2. CASE slot' = [slot EXCEPT ![s].cancel = TRUE]
        <5>1. /\ slot' \in [Slots -> SlotRecord] /\ \A t \in Slots \ {s} : slot'[t] = slot[t]
              /\ slot'[s] = [slot[s] EXCEPT !.cancel = TRUE]
          BY <1>1, <3>2, <4>2, Typed
        <5> QED BY <2>1, <3>1, <3>3, <5>1 DEF SlotRecord
      <4> QED BY <2>4, <3>3, <4>1, <4>2
    <3>4. CASE ~late
      <4>1. /\ slot' \in [Slots -> SlotRecord] /\ \A t \in Slots \ {s} : slot'[t] = slot[t]
            /\ slot'[s] = [slot[s] EXCEPT !.stage = next]
        BY <1>1, <2>4, <3>2, <3>4, Typed
      <4> QED BY <3>1, <3>4, <4>1 DEF SlotRecord
    <3> QED BY <3>3, <3>4
  <2>7. OtherTickets(s)' /\ AcksLate(s)'
    BY <1>1, <2>6 DEF SlotInv, OtherTickets, AcksLate
  <2>8. PreparedInv(s)' /\ SettledInv(s)'
    BY <1>1, <2>1, <2>2, <2>4, <2>5, <2>6 DEF PreparedInv, SettledInv, Now, Matched, FlagsAre
  <2>9. SlotInv(s)'
    <3>1. slot'[s].stage \in {"PREPARED", "ACTIVE", "FAILED"}
      BY <2>6
    <3>2. IdleInv(s)' /\ PreparingInv(s)'
      BY <3>1 DEF IdleInv, PreparingInv
    <3> QED BY <1>1, <2>1, <2>3, <2>5, <2>6, <2>7, <2>8, <3>2 DEF SlotInv, Occupied
  <2> QED BY <1>1, <2>5, <2>6, <2>9, Typed DEF VisitShows
<1>3. CASE ~Expected(a, bridge[s].activate, "PREPARED")
  <2>1. UNCHANGED <<slot, bridge>>
    BY <1>3 DEF AcknowledgeActivated
  <2>2. ASSUME slot[s].stage = "PREPARED", bridge[s].activate PROVE a.gen # slot[s].gen
    BY <1>1, <1>3, <2>2 DEF Expected, Valid, Occupied, SlotInv, PreparedInv, Matched
  <2>3. slot[s].stage = "PREPARED" /\ bridge[s].activate /\ AckFor("activate", s, TRUE)
            => AckFor("activate", s, TRUE)'
    BY <1>1, <2>1, <2>2 DEF AckFor
  <2> QED BY <1>1, <2>1, <2>3, DropAck
<1> QED BY <1>2, <1>3

LEMMA AcknowledgeRetiredStep ==
    ASSUME Inv, NEW a \in acks, NEW again \in BOOLEAN, AcknowledgeRetired(a, again)
    PROVE  VisitShows(a.slot)
<1> DEFINE s == a.slot
           g == slot[s].gen
<1>1. /\ TypeOK /\ a \in Acks /\ s \in Slots /\ SlotInv(s) /\ UNCHANGED <<provider, closed>>
      /\ acks' \subseteq acks /\ \A b \in acks : b # a => b \in acks'
  BY DEF Inv, SlotsInv, TypeOK, Acks, AcknowledgeRetired, Take
<1>2. CASE Expected(a, bridge[s].retire, "RETIRING")
  <2>1. /\ a.gen = g /\ slot[s].stage = "RETIRING"
        /\ closed \cap {"bridge", "coordinator"} = {} /\ AckFor("retire", s, a.ok)
    BY <1>2, ExpectedFacts DEF AcknowledgeRetired
  <2>2. /\ g # MaxGeneration /\ g \in Generations /\ g + 1 \in Generations /\ g \in Nat
        /\ Now(s) = "retired"
    BY <1>1, <2>1, Typed, Arithmetic DEF SlotInv, Occupied, Generations, AcksLate, AckFor, Now
  <2>3. /\ slot' = [slot EXCEPT ![s] = Released(slot[s])]
        /\ bridge' = [bridge EXCEPT ![s] = NoFlags]
    BY <1>1, <1>2, <2>1 DEF AcknowledgeRetired, Advance, MayAdvance, Advanced, SetFlags
  <2>4. NoFlags \in FlagsRecord /\ Released(slot[s]) \in SlotRecord
    BY <2>2, Arithmetic DEF NoFlags, FlagsRecord, Released, SlotRecord, Stages, Demands, NoDemand
  <2>5. /\ slot' \in [Slots -> SlotRecord] /\ bridge' \in [Slots -> FlagsRecord]
        /\ \A t \in Slots \ {s} : slot'[t] = slot[t] /\ bridge'[t] = bridge[t]
        /\ slot'[s].stage = "EMPTY" /\ slot'[s].gen = g + 1 /\ ~slot'[s].cancel
        /\ bridge'[s].gen = 0 /\ FlagsAre(s, FALSE, FALSE, FALSE)'
    BY <1>1, <2>2, <2>3, <2>4, Typed DEF Released, NoFlags, FlagsAre
  <2>6. OtherTickets(s)' /\ (Now(s) = "unused")'
    <3>1. provider[s][g + 1].phase = "unused"
      BY <1>1, <2>2 DEF SlotInv, OtherTickets
    <3> QED BY <1>1, <2>2, <2>5, <3>1 DEF SlotInv, OtherTickets, Now, Generations
  <2>7. AcksLate(s)'
    BY <1>1 DEF SlotInv, AcksLate
  <2>8. SlotInv(s)'
    <3>1. PreparingInv(s)' /\ PreparedInv(s)' /\ SettledInv(s)'
      BY <2>5 DEF PreparingInv, PreparedInv, SettledInv
    <3>2. IdleInv(s)'
      <4>1. ~Matched(s)'
        BY <2>2, <2>5 DEF Matched
      <4> QED BY <2>5, <2>6, <4>1 DEF IdleInv, FlagsAre
    <3>3. (bridge[s].gen <= slot[s].gen)' /\ ~Occupied(s)'
      BY <2>2, <2>5 DEF Occupied
    <3> QED BY <2>5, <2>6, <2>7, <3>1, <3>2, <3>3 DEF SlotInv
  <2> QED BY <1>1, <2>5, <2>8, Typed DEF VisitShows
<1>3. CASE ~Expected(a, bridge[s].retire, "RETIRING")
  <2>1. UNCHANGED <<slot, bridge>> /\ a.kind = "retire"
    BY <1>3 DEF AcknowledgeRetired
  <2>2. AckFor("activate", s, TRUE) => AckFor("activate", s, TRUE)'
    BY <1>1, <2>1 DEF AckFor
  <2> QED BY <1>1, <2>1, <2>2, DropAck
<1> QED BY <1>2, <1>3

LEMMA DeliverStep ==
    ASSUME Inv, NEW a \in acks, NEW again \in BOOLEAN, Deliver(a, again)
    PROVE  Inv' /\ UNCHANGED provider
<1>1. /\ VisitShows(a.slot) /\ Take(a, again) /\ closed' = closed
  BY AcknowledgePreparedStep, AcknowledgeActivatedStep, AcknowledgeRetiredStep
     DEF Deliver, AcknowledgePrepared, AcknowledgeActivated, AcknowledgeRetired, Take
<1>2. a.slot \in Slots /\ nextSlot' \in Slots /\ acks' \subseteq Acks /\ repeats' \in 0..MaxRepeats
  <2>1. a \in acks /\ acks \subseteq Acks /\ nextSlot \in Slots /\ repeats \in 0..MaxRepeats
    BY <1>1 DEF Inv, TypeOK, Take
  <2>2. a.slot \in Slots
    BY <2>1 DEF Acks
  <2>3. acks' \subseteq acks /\ nextSlot' = nextSlot
    BY <1>1 DEF Take
  <2>4. repeats' \in 0..MaxRepeats
    <3>1. CASE again
      BY <1>1, <2>1, <3>1, Arithmetic DEF Take
    <3>2. CASE ~again
      BY <1>1, <2>1, <3>2 DEF Take
    <3> QED BY <3>1, <3>2
  <2> QED BY <2>1, <2>2, <2>3, <2>4
<1>3. \A b : b.slot # a.slot => (b \in acks' <=> b \in acks)
  BY <1>1 DEF Take
<1> QED BY <1>1, <1>2, <1>3, LocalStep DEF Take

-----------------------------------------------------------------------------
(* The provider finishes an operation *)

LEMMA FinishStep ==
    ASSUME Inv, NEW s \in Slots, NEW g \in Generations, Finish(s, g)
    PROVE  Inv' /\ Provider!ProviderNext
<1>1. /\ TypeOK /\ SlotInv(s) /\ UNCHANGED <<slot, bridge, nextSlot, entry, closed, repeats, want>>
      /\ Provider!Phase(s, g) \in {"preparing", "cancelling", "activating", "retiring"}
  BY DEF Inv, SlotsInv, Finish, FinishPrepare, FinishActivate, FinishRetire, Complete
<1>2. g = slot[s].gen /\ Now(s) = Provider!Phase(s, g) /\ slot[s].gen \in Generations
  BY <1>1, Typed DEF SlotInv, OtherTickets, Provider!Phase, Now
<1>3. slot[s].stage = CASE Now(s) = "activating" -> "PREPARED" [] Now(s) = "retiring" -> "RETIRING" [] OTHER -> "PREPARING"
  BY <1>1, <1>2, Typed DEF SlotInv, IdleInv, PreparingInv, PreparedInv, SettledInv, SlotRecord, Stages
<1>4. PICK kind \in {"prepare", "activate", "retire"}, ok \in BOOLEAN, to \in Provider!Phases :
        /\ Complete(kind, s, g, ok, to)
        /\ \/ kind = "prepare" /\ Now(s) = "preparing" /\ to = IF ok THEN "prepared" ELSE "spoiled"
           \/ kind = "prepare" /\ Now(s) = "cancelling" /\ to = "spoiled"
           \/ kind = "activate" /\ Now(s) = "activating" /\ to = IF ok THEN "active" ELSE "spoiled"
           \/ kind = "retire" /\ Now(s) = "retiring" /\ to = "retired"
  BY <1>2 DEF Finish, FinishPrepare, FinishActivate, FinishRetire, Provider!Phases
<1> DEFINE new == [kind |-> kind, slot |-> s, gen |-> g, ok |-> ok]
<1>5. /\ provider' \in [Slots -> [Generations -> TicketRecord]]
      /\ provider'[s][g].phase = to
      /\ \A h \in Generations \ {g} : provider'[s][h] = provider[s][h]
      /\ \A t \in Slots \ {s} : provider'[t] = provider[t]
  BY <1>1, <1>4, CallTyped DEF Complete
<1>6. acks' = acks \cup {new} /\ new \in Acks
  BY <1>4 DEF Complete, Acks
<1>7. Provider!ProviderNext
  <2>1. Provider!Become(s, g, to)
    BY <1>4 DEF Complete
  <2>2. Provider!FinishPrepare(s, g) \/ Provider!FinishActivate(s, g) \/ Provider!FinishRetire(s, g)
    BY <1>2, <1>4, <2>1 DEF Provider!FinishPrepare, Provider!FinishActivate, Provider!FinishRetire
  <2> QED BY <2>2 DEF Provider!ProviderNext, Provider!Generations, Generations
<1>8. OtherTickets(s)'
  BY <1>1, <1>2, <1>5, CallOthers
<1>9. AcksLate(s)'
  <2> SUFFICES ASSUME NEW a \in acks', a.slot = s
               PROVE  /\ a.kind = "prepare" => provider'[s][a.gen].phase \notin {"unused", "preparing", "cancelling"}
                      /\ a.kind = "activate" => provider'[s][a.gen].phase \in {"active", "spoiled", "retiring", "retired"}
                      /\ a.kind = "retire" => provider'[s][a.gen].phase = "retired"
    BY DEF AcksLate
  <2>1. CASE a = new
    BY <1>4, <1>5, <2>1
  <2>2. CASE a \in acks /\ a.gen # g
    <3>1. a.gen \in Generations
      BY <1>1, <2>2 DEF TypeOK, Acks
    <3> QED BY <1>1, <1>5, <2>2, <3>1 DEF SlotInv, AcksLate
  <2>3. CASE a \in acks /\ a.gen = g
    BY <1>1, <1>2, <1>4, <1>5, <2>3 DEF SlotInv, AcksLate, Now
  <2> QED BY <1>6, <2>1, <2>2, <2>3
<1>10. /\ ~AckFor("prepare", s, TRUE) \/ Now(s) \notin {"preparing", "cancelling"}
       /\ ~AckFor("prepare", s, FALSE) \/ Now(s) \notin {"preparing", "cancelling"}
       /\ ~AckFor("activate", s, TRUE) \/ Now(s) # "activating"
       /\ ~AckFor("activate", s, FALSE) \/ Now(s) # "activating"
  BY <1>1 DEF SlotInv, AcksLate, AckFor, Now
<1>11. /\ AckFor("prepare", s, TRUE)' <=> AckFor("prepare", s, TRUE) \/ (kind = "prepare" /\ ok)
       /\ AckFor("prepare", s, FALSE)' <=> AckFor("prepare", s, FALSE) \/ (kind = "prepare" /\ ~ok)
       /\ AckFor("activate", s, TRUE)' <=> AckFor("activate", s, TRUE) \/ (kind = "activate" /\ ok)
       /\ AckFor("activate", s, FALSE)' <=> AckFor("activate", s, FALSE) \/ (kind = "activate" /\ ~ok)
  BY <1>1, <1>2, <1>6 DEF AckFor
<1>12. Now(s)' = to
  BY <1>1, <1>2, <1>5 DEF Now
<1>13. PreparingInv(s)'
  BY <1>1, <1>3, <1>4, <1>10, <1>11, <1>12 DEF SlotInv, PreparingInv, Matched, FlagsAre
<1>14. PreparedInv(s)'
  BY <1>1, <1>3, <1>4, <1>10, <1>11, <1>12 DEF SlotInv, PreparedInv, Matched, FlagsAre
<1>15. IdleInv(s)' /\ SettledInv(s)'
  BY <1>1, <1>3, <1>4, <1>12 DEF SlotInv, IdleInv, SettledInv, Matched, FlagsAre
<1>16. SlotInv(s)'
  BY <1>1, <1>8, <1>9, <1>13, <1>14, <1>15 DEF SlotInv, Occupied
<1>17. VisitShows(s)
  BY <1>1, <1>5, <1>7, <1>16, Typed DEF VisitShows
<1>18. acks' \subseteq Acks /\ nextSlot' \in Slots /\ repeats' \in 0..MaxRepeats
  BY <1>1, <1>6 DEF TypeOK
<1>19. \A b : b.slot # s => (b \in acks' <=> b \in acks)
  BY <1>6
<1> QED BY <1>1, <1>7, <1>17, <1>18, <1>19, LocalStep

-----------------------------------------------------------------------------
(* A consumer reconciles its demands *)

LEMMA DemandTyped ==
    ASSUME NEW demanded \in DemandSets
    PROVE  DOMAIN demanded \subseteq Units /\ \A u \in DOMAIN demanded : demanded[u] \in Targets
BY DEF DemandSets

\* What retireMissing and refreshCurrent do to one slot.
Adjusted(s, r) ==
    /\ r \in SlotRecord
    /\ \/ r = slot[s]
       \/ Occupied(s) /\ r = CancelledSlot(slot[s])
       \/ \E t \in Targets : /\ Occupied(s) /\ ~CannotUpdate(slot[s], t)
                             /\ r = [slot[s] EXCEPT !.demand.target = t]

LEMMA SlotAfter ==
    ASSUME Inv, NEW c \in Consumers, NEW demanded \in DemandSets, NEW s \in Slots
    PROVE  Adjusted(s, SlotsAfter(c, demanded)[s])
<1> DEFINE r == SlotsAfter(c, demanded)[s]
<1>1. TypeOK /\ SlotInv(s) /\ slot[s] \in SlotRecord /\ slot[s].demand \in Demands
  BY Typed DEF Inv, SlotsInv, SlotRecord
<1>2. \A u \in Following(c) : Occupied(SlotOf(c, u)) /\ u \in Units
  BY DEF Following, Held, Valid, SlotOf
<1>3. Cancelled(c, demanded) \subseteq Following(c) /\ Updated(c, demanded) \subseteq Following(c) \cap DOMAIN demanded
  BY DEF Cancelled, Dropped, Busy, Kept, Updated
<1>4. CASE s \in {SlotOf(c, u) : u \in Cancelled(c, demanded)}
  <2>1. Occupied(s) /\ r = CancelledSlot(slot[s])
    BY <1>2, <1>3, <1>4 DEF SlotsAfter
  <2>2. slot[s].gen # MaxGeneration /\ slot[s].gen + 1 \in Generations
    <3>1. slot[s].gen # MaxGeneration
      BY <1>1, <2>1 DEF SlotInv
    <3>2. slot[s].gen \in Generations
      BY <1>1 DEF SlotRecord
    <3>3. MaxGeneration \in Nat
      BY Arithmetic
    <3> QED BY <3>1, <3>2, <3>3 DEF Generations
  <2>3. Released(slot[s]) \in SlotRecord
    BY <1>1, <2>2 DEF Released, SlotRecord, Stages, Demands, NoDemand, Targets
  <2>4. [slot[s] EXCEPT !.cancel = TRUE] \in SlotRecord
    BY <1>1 DEF SlotRecord
  <2>5. r \in SlotRecord
    BY <2>1, <2>3, <2>4 DEF CancelledSlot
  <2> QED BY <2>1, <2>5 DEF Adjusted
<1>5. CASE /\ s \notin {SlotOf(c, u) : u \in Cancelled(c, demanded)}
           /\ \E u \in Updated(c, demanded) : SlotOf(c, u) = s
  <2> DEFINE u == CHOOSE v \in Updated(c, demanded) : SlotOf(c, v) = s
             t == demanded[u]
  <2>1. u \in Updated(c, demanded) /\ SlotOf(c, u) = s
    BY <1>5
  <2>2. t \in Targets /\ Occupied(s)
    BY <1>2, <1>3, <2>1, DemandTyped
  <2>3. ~CannotUpdate(slot[s], t)
    BY <2>1 DEF Updated, Busy
  <2>4. r = [slot[s] EXCEPT !.demand.target = t]
    BY <1>5 DEF SlotsAfter
  <2>5. r \in SlotRecord
    BY <1>1, <2>2, <2>4 DEF SlotRecord, Demands
  <2> QED BY <2>2, <2>3, <2>4, <2>5 DEF Adjusted
<1>6. CASE /\ s \notin {SlotOf(c, u) : u \in Cancelled(c, demanded)}
           /\ ~\E u \in Updated(c, demanded) : SlotOf(c, u) = s
  BY <1>1, <1>6 DEF SlotsAfter, Adjusted
<1> QED BY <1>4, <1>5, <1>6

\* A slot that is empty, or gave its queued ticket back, may take a new ticket at once.
LEMMA ReconcileSlot ==
    ASSUME Inv, NEW c \in Consumers, NEW demanded \in DemandSets, Reconcile(c, demanded), NEW s \in Slots
    PROVE  LET r == SlotsAfter(c, demanded)[s] IN
           \/ slot'[s] = r
           \/ /\ r.stage = "EMPTY" /\ r.gen # MaxGeneration /\ "coordinator" \notin closed
              /\ \E u \in Units, t \in Targets : slot'[s] = Queued(c, u, t, r.gen)
<1> DEFINE sl == SlotsAfter(c, demanded)
           missing == Missing(c, EntriesAfter(c, demanded), sl, demanded)
<1>1. PICK new \in SUBSET missing : \E at \in [new -> Vacant(sl)] :
        slot' = [x \in Slots |->
            IF \E u \in new : at[u] = x
            THEN LET u == CHOOSE v \in new : at[v] = x IN Queued(c, u, demanded[u], sl[x].gen)
            ELSE sl[x]]
  BY DEF Reconcile
<1>2. PICK at \in [new -> Vacant(sl)] :
        slot' = [x \in Slots |->
            IF \E u \in new : at[u] = x
            THEN LET u == CHOOSE v \in new : at[v] = x IN Queued(c, u, demanded[u], sl[x].gen)
            ELSE sl[x]]
  BY <1>1
<1>3. missing \subseteq DOMAIN demanded
  BY DEF Missing
<1>4. CASE \E u \in new : at[u] = s
  <2> DEFINE u == CHOOSE v \in new : at[v] = s
  <2>1. u \in new /\ at[u] = s
    BY <1>4
  <2>2. s \in Vacant(sl)
    BY <1>2, <2>1
  <2>3. slot'[s] = Queued(c, u, demanded[u], sl[s].gen)
    BY <1>2, <1>4
  <2>4. u \in Units /\ demanded[u] \in Targets
    BY <1>3, <2>1, DemandTyped
  <2> QED BY <2>2, <2>3, <2>4 DEF Vacant
<1>5. CASE ~\E u \in new : at[u] = s
  BY <1>2, <1>5
<1> QED BY <1>4, <1>5

\* A slot without a running ticket stays so: its ticket is queued or released.
LEMMA IdleSlot ==
    ASSUME Inv, NEW s \in Slots, UNCHANGED <<bridge, provider, acks, closed>>, slot'[s].gen \in Generations,
           slot'[s].stage \in {"EMPTY", "QUEUED"}, ~slot'[s].cancel,
           \/ slot[s].stage = "EMPTY" /\ slot'[s].gen = slot[s].gen
           \/ slot[s].stage = "QUEUED" /\ slot'[s].gen = slot[s].gen + 1,
           slot'[s].stage = "QUEUED" => slot'[s].gen # MaxGeneration /\ "coordinator" \notin closed
    PROVE  SlotInv(s)'
<1>1. SlotInv(s) /\ TypeOK /\ slot[s].gen \in Nat /\ slot[s].gen \in Generations
  BY Typed DEF Inv, SlotsInv
<1>2. /\ Now(s) = "unused" /\ FlagsAre(s, FALSE, FALSE, FALSE) /\ bridge[s].gen <= slot[s].gen
      /\ slot[s].stage = "EMPTY" => bridge[s].gen # slot[s].gen
  BY <1>1 DEF SlotInv, IdleInv, Matched
<1>3. bridge[s].gen \in Nat
  BY <1>1, Typed DEF FlagsRecord
<1>4. ~Matched(s)' /\ (bridge[s].gen <= slot[s].gen)'
  BY <1>1, <1>2, <1>3 DEF Matched
<1>5. (Now(s) = "unused")' /\ OtherTickets(s)'
  BY <1>1, <1>2 DEF SlotInv, OtherTickets, Now, Generations
<1>6. AcksLate(s)' /\ FlagsAre(s, FALSE, FALSE, FALSE)'
  BY <1>1, <1>2 DEF SlotInv, AcksLate, FlagsAre
<1>7. IdleInv(s)'
  BY <1>4, <1>5, <1>6 DEF IdleInv
<1>8. PreparingInv(s)' /\ PreparedInv(s)' /\ SettledInv(s)'
  BY DEF PreparingInv, PreparedInv, SettledInv
<1> QED BY <1>4, <1>5, <1>6, <1>7, <1>8 DEF SlotInv, Occupied

\* A running ticket is cancelled, or takes over a target it can still serve.
LEMMA RunningSlot ==
    ASSUME Inv, NEW s \in Slots, UNCHANGED <<bridge, provider, acks, closed>>, Occupied(s),
           slot'[s].gen = slot[s].gen, slot'[s].stage = slot[s].stage,
           slot[s].cancel => slot'[s].cancel,
           slot[s].stage = "QUEUED" => ~slot'[s].cancel,
           slot[s].stage = "ACTIVE" => slot'[s].demand.target = slot[s].demand.target \/ slot'[s].demand.target = "ACTIVE"
    PROVE  SlotInv(s)'
<1>1. SlotInv(s)
  BY DEF Inv, SlotsInv
<1>2. (OtherTickets(s) /\ AcksLate(s) /\ IdleInv(s))'
  BY <1>1 DEF SlotInv, OtherTickets, AcksLate, IdleInv, Now, Matched, FlagsAre, Occupied
<1>3. PreparingInv(s)' /\ SettledInv(s)'
  BY <1>1 DEF SlotInv, PreparingInv, SettledInv, Now, Matched, FlagsAre, AckFor
<1>4. PreparedInv(s)'
  BY <1>1 DEF SlotInv, PreparedInv, Now, Matched, FlagsAre, AckFor
<1> QED BY <1>1, <1>2, <1>3, <1>4 DEF SlotInv, Occupied

LEMMA ReconcileSlotInv ==
    ASSUME Inv, NEW c \in Consumers, NEW demanded \in DemandSets, Reconcile(c, demanded), NEW s \in Slots
    PROVE  SlotInv(s)' /\ slot'[s] \in SlotRecord
<1> DEFINE r == SlotsAfter(c, demanded)[s]
<1>1. /\ TypeOK /\ SlotInv(s) /\ slot[s] \in SlotRecord /\ slot[s].gen \in Nat
      /\ UNCHANGED <<bridge, provider, acks, closed>>
  BY Typed DEF Inv, SlotsInv, Reconcile
<1>2. /\ r \in SlotRecord
      /\ \/ r = slot[s]
         \/ Occupied(s) /\ r = CancelledSlot(slot[s])
         \/ \E t \in Targets : /\ Occupied(s) /\ ~CannotUpdate(slot[s], t)
                               /\ r = [slot[s] EXCEPT !.demand.target = t]
  <2>1. Adjusted(s, SlotsAfter(c, demanded)[s])
    BY SlotAfter
  <2> QED BY <2>1 DEF Adjusted
<1>3. \/ slot'[s] = r
      \/ /\ r.stage = "EMPTY" /\ r.gen # MaxGeneration /\ "coordinator" \notin closed
         /\ \E u \in Units, t \in Targets : slot'[s] = Queued(c, u, t, r.gen)
  BY ReconcileSlot
<1>4. slot'[s] \in SlotRecord
  <2>1. ASSUME NEW u \in Units, NEW t \in Targets PROVE Queued(c, u, t, r.gen) \in SlotRecord
    <3>1. r.gen \in Generations
      BY <1>2 DEF SlotRecord
    <3>2. [consumer |-> c, unit |-> u, target |-> t] \in Demands
      BY DEF Demands
    <3> QED BY <3>1, <3>2 DEF Queued, SlotRecord, Stages
  <2> QED BY <1>2, <1>3, <2>1
<1>5. CASE slot'[s] = slot[s]
  BY <1>1, <1>4, <1>5, Frame
<1>6. CASE slot'[s] = r /\ Occupied(s) /\ r = CancelledSlot(slot[s]) /\ slot[s].stage = "QUEUED"
  <2>1. slot'[s] = Released(slot[s]) /\ slot[s].gen # MaxGeneration
    BY <1>1, <1>6 DEF CancelledSlot, SlotInv
  <2>2. slot'[s].stage = "EMPTY" /\ ~slot'[s].cancel /\ slot'[s].gen = slot[s].gen + 1
    BY <2>1 DEF Released
  <2>3. slot'[s].gen \in Generations
    BY <1>4 DEF SlotRecord
  <2> QED BY <1>1, <1>4, <1>6, <2>2, <2>3, IdleSlot
<1>7. CASE slot'[s] = r /\ Occupied(s) /\ r = CancelledSlot(slot[s]) /\ slot[s].stage # "QUEUED"
  <2>1. slot'[s] = [slot[s] EXCEPT !.cancel = TRUE]
    BY <1>7 DEF CancelledSlot
  <2>2. /\ slot'[s].gen = slot[s].gen /\ slot'[s].stage = slot[s].stage /\ slot'[s].cancel
        /\ slot'[s].demand.target = slot[s].demand.target
    BY <1>1, <2>1 DEF SlotRecord
  <2> QED BY <1>1, <1>4, <1>7, <2>2, RunningSlot
<1>8. ASSUME NEW t \in Targets, slot'[s] = r, Occupied(s), ~CannotUpdate(slot[s], t),
             r = [slot[s] EXCEPT !.demand.target = t]
      PROVE  SlotInv(s)'
  <2>1. /\ slot'[s].gen = slot[s].gen /\ slot'[s].stage = slot[s].stage /\ slot'[s].cancel = slot[s].cancel
        /\ slot'[s].demand.target = t
    BY <1>1, <1>8 DEF SlotRecord, Demands
  <2>2. ~slot[s].cancel /\ (slot[s].stage = "ACTIVE" => t = "ACTIVE")
    BY <1>8 DEF CannotUpdate
  <2> QED BY <1>1, <1>8, <2>1, <2>2, RunningSlot
<1>9. ASSUME NEW u \in Units, NEW t \in Targets, slot'[s] = Queued(c, u, t, r.gen),
             r.stage = "EMPTY", r.gen # MaxGeneration, "coordinator" \notin closed
      PROVE  SlotInv(s)'
  <2>1. slot'[s].stage = "QUEUED" /\ ~slot'[s].cancel /\ slot'[s].gen = r.gen
    BY <1>9 DEF Queued
  <2>2. CASE r = slot[s]
    BY <1>1, <1>4, <1>9, <2>1, <2>2, IdleSlot DEF SlotRecord
  <2>3. CASE Occupied(s) /\ r = CancelledSlot(slot[s])
    <3>1. slot[s].stage = "QUEUED" /\ slot[s].gen # MaxGeneration
      BY <1>1, <1>9, <2>3 DEF CancelledSlot, Occupied, SlotRecord, SlotInv
    <3>2. r.gen = slot[s].gen + 1
      BY <2>3, <3>1 DEF CancelledSlot, Released
    <3> QED BY <1>1, <1>4, <1>9, <2>1, <3>1, <3>2, IdleSlot DEF SlotRecord
  <2>4. CASE \E v \in Targets : Occupied(s) /\ r = [slot[s] EXCEPT !.demand.target = v]
    BY <1>1, <1>9, <2>4 DEF Occupied, SlotRecord, Demands
  <2> QED BY <1>2, <2>2, <2>3, <2>4
<1> QED BY <1>2, <1>3, <1>4, <1>5, <1>6, <1>7, <1>8, <1>9

EntryRecord == [slot : Slots, gen : 0..MaxGeneration, retiring : BOOLEAN]

LEMMA ReconcileTyped ==
    ASSUME Inv, NEW c \in Consumers, NEW demanded \in DemandSets, Reconcile(c, demanded)
    PROVE  TypeOK'
<1> DEFINE sl == SlotsAfter(c, demanded)
           e == EntriesAfter(c, demanded)
           missing == Missing(c, e, sl, demanded)
<1>1. TypeOK /\ entry \in [Consumers -> [Units -> EntryRecord]]
  BY DEF Inv, TypeOK, EntryRecord
<1>2. slot' \in [Slots -> SlotRecord]
  <2>1. \A s \in Slots : slot'[s] \in SlotRecord
    BY ReconcileSlotInv
  <2>2. \E f : slot' = [s \in Slots |-> f[s]]
    <3>1. \E new \in SUBSET missing : \E at \in [new -> Vacant(sl)] :
            slot' = [x \in Slots |->
                IF \E u \in new : at[u] = x
                THEN LET u == CHOOSE v \in new : at[v] = x IN Queued(c, u, demanded[u], sl[x].gen)
                ELSE sl[x]]
      BY DEF Reconcile
    <3> QED BY <3>1
  <2> QED BY <2>1, <2>2
<1>3. e \in [Units -> EntryRecord]
  <2>1. NoEntry \in EntryRecord
    BY Arithmetic DEF NoEntry, EntryRecord
  <2>2. \A u \in Units : entry[c][u] \in EntryRecord /\ [entry[c][u] EXCEPT !.retiring = TRUE] \in EntryRecord
    <3> TAKE u \in Units
    <3>1. entry[c][u] \in EntryRecord
      BY <1>1
    <3> QED BY <3>1 DEF EntryRecord
  <2> QED BY <2>1, <2>2 DEF EntriesAfter
<1>4. PICK new \in SUBSET missing : \E at \in [new -> Vacant(sl)] :
        entry' = [entry EXCEPT ![c] = [u \in Units |->
            IF u \in new THEN [slot |-> at[u], gen |-> sl[at[u]].gen, retiring |-> FALSE] ELSE e[u]]]
  BY DEF Reconcile
<1>5. PICK at \in [new -> Vacant(sl)] :
        entry' = [entry EXCEPT ![c] = [u \in Units |->
            IF u \in new THEN [slot |-> at[u], gen |-> sl[at[u]].gen, retiring |-> FALSE] ELSE e[u]]]
  BY <1>4
<1>6. \A u \in new : [slot |-> at[u], gen |-> sl[at[u]].gen, retiring |-> FALSE] \in EntryRecord
  <2> TAKE u \in new
  <2>1. at[u] \in Slots
    BY <1>5 DEF Vacant
  <2>2. sl[at[u]] \in SlotRecord
    BY <2>1, SlotAfter DEF Adjusted
  <2> QED BY <2>1, <2>2 DEF EntryRecord, SlotRecord, Generations
<1>7. entry' \in [Consumers -> [Units -> EntryRecord]]
  <2>1. [u \in Units |-> IF u \in new THEN [slot |-> at[u], gen |-> sl[at[u]].gen, retiring |-> FALSE] ELSE e[u]]
            \in [Units -> EntryRecord]
    BY <1>3, <1>6
  <2> QED BY <1>1, <1>5, <2>1
<1>8. \A d \in Consumers : want'[d] \in DemandSets
  BY <1>1 DEF TypeOK, Reconcile
<1> QED BY <1>1, <1>2, <1>7, <1>8 DEF TypeOK, Reconcile, SlotRecord, EntryRecord

LEMMA ReconcileStep ==
    ASSUME Inv, NEW c \in Consumers, NEW demanded \in DemandSets, Reconcile(c, demanded)
    PROVE  Inv' /\ UNCHANGED provider
BY ReconcileSlotInv, ReconcileTyped DEF Inv, SlotsInv, Slots, Reconcile

-----------------------------------------------------------------------------
(* The shutdown of the parts *)

\* What an invariant of the slots needs when a part is closed.
LEMMA CloseStep ==
    ASSUME Inv, UNCHANGED <<slot, bridge, provider, acks>>, TypeOK',
           \A s \in Slots : Occupied(s) =>
               /\ "coordinator" \notin closed'
               /\ slot[s].stage # "QUEUED" => "bridge" \notin closed'
    PROVE  Inv'
<1>1. ASSUME NEW s \in Slots PROVE SlotInv(s)'
  BY <1>1 DEF Inv, SlotsInv, SlotInv, OtherTickets, AcksLate, IdleInv, PreparingInv, PreparedInv, SettledInv,
     Now, AckFor, Matched, FlagsAre, Occupied
<1> QED BY <1>1 DEF Inv, SlotsInv, Slots

LEMMA ShutdownStep ==
    ASSUME Inv, (\E c \in Consumers : ShutdownReconciler(c)) \/ ShutdownBridge \/ ShutdownCoordinator
    PROVE  Inv' /\ UNCHANGED provider
<1>1. TypeOK /\ SlotsInv
  BY DEF Inv
<1>2. CASE \E c \in Consumers : ShutdownReconciler(c)
  <2>1. PICK c \in Consumers : ShutdownReconciler(c)
    BY <1>2
  <2>2. entry \in [Consumers -> [Units -> EntryRecord]] /\ NoEntry \in EntryRecord
    BY <1>1, Arithmetic DEF TypeOK, EntryRecord, NoEntry
  <2>3. entry' \in [Consumers -> [Units -> EntryRecord]]
    BY <2>1, <2>2 DEF ShutdownReconciler
  <2>4. TypeOK'
    BY <1>1, <2>1, <2>3 DEF TypeOK, ShutdownReconciler, EntryRecord, Parts
  <2>5. /\ "coordinator" \in closed' => "coordinator" \in closed \/ c = "coordinator"
        /\ "bridge" \in closed' => "bridge" \in closed \/ c = "bridge"
    BY <2>1 DEF ShutdownReconciler
  <2> QED BY <1>1, <2>1, <2>4, <2>5, CloseStep, StreamingAssumption DEF ShutdownReconciler, SlotsInv, SlotInv, Occupied
<1>3. CASE ShutdownBridge \/ ShutdownCoordinator
  <2>1. TypeOK'
    BY <1>1, <1>3 DEF TypeOK, ShutdownBridge, ShutdownCoordinator, Parts
  <2>2. \A s \in Slots : ~Occupied(s)
    BY <1>1, <1>3 DEF ShutdownBridge, ShutdownCoordinator, Vacated, SlotsInv, SlotInv
  <2> QED BY <1>3, <2>1, <2>2, CloseStep DEF ShutdownBridge, ShutdownCoordinator
<1> QED BY <1>2, <1>3

-----------------------------------------------------------------------------
(* The theorems *)

\* Every step keeps the invariant and is a legal step of the provider, or none.
LEMMA StepSimulates ==
    ASSUME Inv, [Next]_vars
    PROVE  Inv' /\ [Provider!ProviderNext]_provider
<1>1. CASE Pump
  <2>1. PICK accepts \in BOOLEAN : Visit(nextSlot, accepts)
    BY <1>1 DEF Pump
  <2> QED BY <2>1, VisitStep DEF Inv, TypeOK
<1>2. CASE \E a \in acks, again \in BOOLEAN : Deliver(a, again)
  BY <1>2, DeliverStep
<1>3. CASE \E s \in Slots, g \in Generations : Finish(s, g)
  BY <1>3, FinishStep
<1>4. CASE \E c \in Consumers : \E demanded \in DemandSets : Reconcile(c, demanded)
  BY <1>4, ReconcileStep
<1>5. CASE (\E c \in Consumers : ShutdownReconciler(c)) \/ ShutdownBridge \/ ShutdownCoordinator
  BY <1>5, ShutdownStep
<1>6. CASE UNCHANGED vars
  <2>1. UNCHANGED <<slot, bridge, provider, acks, closed, nextSlot, entry, repeats, want>>
    BY <1>6 DEF vars
  <2>2. TypeOK'
    BY <2>1 DEF Inv, TypeOK
  <2>3. \A s \in Slots : SlotInv(s)'
    BY <2>1, Frame DEF Inv, SlotsInv
  <2> QED BY <2>1, <2>2, <2>3 DEF Inv, SlotsInv, Slots
<1> QED BY <1>1, <1>2, <1>3, <1>4, <1>5, <1>6 DEF Next

THEOREM Invariance == Spec => []Inv
<1>1. Init => Inv
  BY InitInv
<1>2. Inv /\ [Next]_vars => Inv'
  BY StepSimulates
<1> QED BY <1>1, <1>2, PTL DEF Spec

\* The slots, flags, entries, tickets and demand sets keep their types.
THEOREM TypeCorrect == Spec => []TypeOK
<1>1. Inv => TypeOK
  BY DEF Inv
<1> QED BY <1>1, Invariance, PTL

\* The streaming code implements the protocol a provider relies on, for any number of slots,
\* consumers and units, and completions that arrive late, in any order and repeatedly.
THEOREM StreamingImplementsProvider == Spec => ImplementsProvider
<1>1. Init => Provider!ProviderInit
  BY DEF Init
<1>2. Inv /\ [Next]_vars => [Provider!ProviderNext]_provider
  BY StepSimulates
<1> QED BY <1>1, <1>2, Invariance, PTL DEF Spec, ImplementsProvider, Provider!ProviderSpec

\* A representation the provider holds active is wanted active, or on its way out.
THEOREM ActiveStaysWanted == Spec => []ActiveIsWanted
<1>1. Inv => ActiveIsWanted
  <2> SUFFICES ASSUME Inv, NEW s \in Slots, Now(s) = "active"
               PROVE  \/ slot[s].cancel
                      \/ slot[s].stage = "ACTIVE" /\ slot[s].demand.target = "ACTIVE"
                      \/ \E a \in acks : a.kind = "activate" /\ a.slot = s /\ a.gen = slot[s].gen
    BY DEF ActiveIsWanted, Now, Provider!Phase
  <2>1. SlotInv(s) /\ slot[s] \in SlotRecord
    BY Typed DEF Inv, SlotsInv
  <2>2. slot[s].stage = "ACTIVE" \/ (slot[s].stage = "PREPARED" /\ (slot[s].cancel \/ AckFor("activate", s, TRUE)))
    BY <2>1 DEF SlotInv, IdleInv, PreparingInv, PreparedInv, SettledInv, SlotRecord, Stages
  <2>3. CASE slot[s].stage = "ACTIVE"
    BY <2>1, <2>3 DEF SlotInv, SettledInv
  <2>4. CASE AckFor("activate", s, TRUE)
    BY <2>4 DEF AckFor
  <2> QED BY <2>2, <2>3, <2>4
<1> QED BY <1>1, Invariance, PTL

\* A bridge or a coordinator that is shut down leaves no ticket with the provider.
THEOREM ShutdownLeavesNothing == Spec => []NothingLeftBehind
<1>1. Inv => NothingLeftBehind
  <2> SUFFICES ASSUME Inv, closed \cap {"bridge", "coordinator"} # {}, NEW s \in Slots, NEW g \in Generations
               PROVE  Provider!Free(s, g)
    BY DEF NothingLeftBehind
  <2>1. SlotInv(s) /\ slot[s].stage \in {"EMPTY", "QUEUED"}
    BY DEF Inv, SlotsInv, SlotInv, Occupied
  <2>2. CASE g = slot[s].gen
    BY <2>1, <2>2 DEF SlotInv, IdleInv, Now, Provider!Free, Provider!Phase
  <2>3. CASE g # slot[s].gen
    BY <2>1, <2>3 DEF SlotInv, OtherTickets, Provider!Free, Provider!Phase
  <2> QED BY <2>2, <2>3
<1> QED BY <1>1, Invariance, PTL

-----------------------------------------------------------------------------
(* The tickets follow the demands *)

\* A slot without a ticket serves nobody; a ticket is the one the entry of its unit names.
TicketTracked(s) ==
    LET d == slot[s].demand IN
    /\ ~Occupied(s) => d = NoDemand
    /\ Occupied(s) =>
        /\ d.consumer \in Consumers /\ d.unit \in Units /\ d.target \in Targets
        /\ entry[d.consumer][d.unit].slot = s /\ entry[d.consumer][d.unit].gen = slot[s].gen
        /\ entry[d.consumer][d.unit].retiring => slot[s].cancel
        /\ \/ slot[s].cancel
           \/ d.unit \in DOMAIN want[d.consumer] /\ d.target = want[d.consumer][d.unit]

\* An entry names a ticket of the past, or one of its own consumer and unit.
EntryTrue(c, u) ==
    LET e == entry[c][u] IN
    e.gen # 0 =>
        /\ e.gen <= slot[e.slot].gen
        /\ e.gen = slot[e.slot].gen =>
               /\ Occupied(e.slot)
               /\ slot[e.slot].demand.consumer = c /\ slot[e.slot].demand.unit = u

DemandInv ==
    /\ DOMAIN want = Consumers
    /\ \A s \in Slots : TicketTracked(s)
    /\ \A c \in Consumers, u \in Units : EntryTrue(c, u)

LEMMA InitDemand == Init => DemandInv
<1> SUFFICES ASSUME Init PROVE DemandInv
  OBVIOUS
<1>1. \A s \in Slots : slot[s].stage = "EMPTY" /\ slot[s].demand = NoDemand
  BY DEF Init
<1>2. \A c \in Consumers, u \in Units : entry[c][u].gen = 0
  BY DEF Init, NoEntry
<1>3. DOMAIN want = Consumers
  BY DEF Init
<1> QED BY <1>1, <1>2, <1>3 DEF DemandInv, TicketTracked, EntryTrue, Occupied

LEMMA EntryTyped ==
    ASSUME TypeOK, NEW c \in Consumers, NEW u \in Units
    PROVE  /\ entry[c][u] \in EntryRecord /\ entry[c][u].slot \in Slots
           /\ entry[c][u].gen \in Nat /\ entry[c][u].retiring \in BOOLEAN
<1>1. entry[c][u] \in EntryRecord
  BY DEF TypeOK, EntryRecord
<1> QED BY <1>1, Arithmetic DEF EntryRecord

\* What the bridge and the completions do to a slot: its ticket advances, is
\* cancelled or is given back, and always for the same demand.
TicketMoves(s) ==
    \/ slot'[s] = slot[s]
    \/ /\ Occupied(s) /\ Occupied(s)'
       /\ slot'[s].gen = slot[s].gen /\ slot'[s].demand = slot[s].demand
       /\ slot[s].cancel => slot'[s].cancel
    \/ Occupied(s) /\ slot'[s] = Released(slot[s])

LEMMA ReleasedFacts ==
    ASSUME Inv, NEW s \in Slots, Occupied(s)
    PROVE  /\ Released(slot[s]).stage = "EMPTY" /\ ~Released(slot[s]).cancel
           /\ Released(slot[s]).demand = NoDemand
           /\ Released(slot[s]).gen = slot[s].gen + 1
<1>1. slot[s].gen # MaxGeneration
  BY DEF Inv, SlotsInv, SlotInv
<1> QED BY <1>1 DEF Released

LEMMA AdvanceMoves ==
    ASSUME Inv, NEW s \in Slots, NEW next \in Stages, Advance(s, next)
    PROVE  \A t \in Slots : TicketMoves(t)
<1>1. TypeOK /\ slot \in [Slots -> SlotRecord] /\ slot[s] \in SlotRecord
  BY Typed DEF Inv
<1> SUFFICES ASSUME NEW t \in Slots PROVE TicketMoves(t)
  OBVIOUS
<1>2. CASE t # s \/ ~MayAdvance(slot[s], next)
  BY <1>1, <1>2 DEF Advance, TicketMoves
<1>3. CASE t = s /\ MayAdvance(slot[s], next)
  <2>1. Occupied(s) /\ slot'[s] = Advanced(slot[s], next)
    BY <1>1, <1>3 DEF Advance, MayAdvance, Occupied
  <2>2. CASE next = "EMPTY"
    BY <1>3, <2>1, <2>2 DEF Advanced, TicketMoves
  <2>3. CASE next # "EMPTY"
    <3>1. /\ slot'[s].stage = next /\ slot'[s].gen = slot[s].gen
          /\ slot'[s].demand = slot[s].demand /\ slot'[s].cancel = slot[s].cancel
      BY <1>1, <2>1, <2>3 DEF Advanced, SlotRecord
    <3> QED BY <1>3, <2>1, <2>3, <3>1 DEF TicketMoves, Occupied
  <2> QED BY <2>2, <2>3
<1> QED BY <1>2, <1>3

LEMMA VisitMoves ==
    ASSUME Inv, NEW s \in Slots, NEW accepts \in BOOLEAN, Visit(s, accepts)
    PROVE  UNCHANGED <<entry, want>> /\ \A t \in Slots : TicketMoves(t)
<1>1. UNCHANGED slot \/ Advance(s, "PREPARING") \/ Advance(s, "RETIRING")
  BY DEF Visit, VisitIdle, VisitPrepare, VisitCancel, VisitActivate, VisitRetire, VisitSettled
<1>2. CASE UNCHANGED slot
  BY <1>2 DEF Visit, TicketMoves
<1>3. CASE Advance(s, "PREPARING") \/ Advance(s, "RETIRING")
  BY <1>3, AdvanceMoves DEF Visit, Stages
<1> QED BY <1>1, <1>2, <1>3

LEMMA DeliverMoves ==
    ASSUME Inv, NEW a \in acks, NEW again \in BOOLEAN, Deliver(a, again)
    PROVE  UNCHANGED <<entry, want>> /\ \A t \in Slots : TicketMoves(t)
<1>1. UNCHANGED <<entry, want>>
  BY DEF Deliver, AcknowledgePrepared, AcknowledgeActivated, AcknowledgeRetired, Take
<1>2. a.slot \in Slots /\ slot \in [Slots -> SlotRecord]
  BY Typed DEF Inv, TypeOK, Acks
<1>3. \/ UNCHANGED slot
      \/ \E next \in {"PREPARED", "FAILED", "ACTIVE", "EMPTY"} : Advance(a.slot, next)
      \/ Occupied(a.slot) /\ slot' = [slot EXCEPT ![a.slot] = CancelledSlot(slot[a.slot])]
  <2>1. CASE AcknowledgePrepared(a, again)
    BY <2>1 DEF AcknowledgePrepared
  <2>2. CASE AcknowledgeActivated(a, again)
    <3>1. Expected(a, bridge[a.slot].activate, "PREPARED") => Occupied(a.slot)
      BY DEF Expected, Valid
    <3> QED BY <2>2, <3>1 DEF AcknowledgeActivated
  <2>3. CASE AcknowledgeRetired(a, again)
    BY <2>3 DEF AcknowledgeRetired
  <2> QED BY <2>1, <2>2, <2>3 DEF Deliver
<1>4. CASE UNCHANGED slot
  BY <1>1, <1>4 DEF TicketMoves
<1>5. CASE \E next \in {"PREPARED", "FAILED", "ACTIVE", "EMPTY"} : Advance(a.slot, next)
  BY <1>1, <1>2, <1>5, AdvanceMoves DEF Stages
<1>6. CASE Occupied(a.slot) /\ slot' = [slot EXCEPT ![a.slot] = CancelledSlot(slot[a.slot])]
  <2>1. \A t \in Slots \ {a.slot} : slot'[t] = slot[t]
    BY <1>2, <1>6
  <2>2. slot'[a.slot] = CancelledSlot(slot[a.slot]) /\ slot[a.slot] \in SlotRecord
    BY <1>2, <1>6
  <2>3. TicketMoves(a.slot)
    <3>1. CASE slot[a.slot].stage = "QUEUED"
      BY <1>6, <2>2, <3>1 DEF CancelledSlot, TicketMoves
    <3>2. CASE slot[a.slot].stage # "QUEUED"
      <4>1. /\ slot'[a.slot].stage = slot[a.slot].stage /\ slot'[a.slot].gen = slot[a.slot].gen
            /\ slot'[a.slot].demand = slot[a.slot].demand /\ slot'[a.slot].cancel
        BY <2>2, <3>2 DEF CancelledSlot, SlotRecord
      <4> QED BY <1>6, <4>1 DEF TicketMoves, Occupied
    <3> QED BY <3>1, <3>2
  <2> QED BY <1>1, <2>1, <2>3 DEF TicketMoves
<1> QED BY <1>3, <1>4, <1>5, <1>6

\* A ticket that moves stays tracked.
LEMMA MovesDemand ==
    ASSUME Inv, DemandInv, UNCHANGED <<entry, want>>, \A t \in Slots : TicketMoves(t)
    PROVE  DemandInv'
<1>1. TypeOK
  BY DEF Inv
<1>2. ASSUME NEW s \in Slots PROVE TicketTracked(s)'
  <2>1. TicketTracked(s) /\ TicketMoves(s)
    BY DEF DemandInv
  <2>2. CASE slot'[s] = slot[s]
    BY <2>1, <2>2 DEF TicketTracked, Occupied
  <2>3. CASE /\ Occupied(s) /\ Occupied(s)'
             /\ slot'[s].gen = slot[s].gen /\ slot'[s].demand = slot[s].demand
             /\ slot[s].cancel => slot'[s].cancel
    BY <2>1, <2>3 DEF TicketTracked
  <2>4. CASE Occupied(s) /\ slot'[s] = Released(slot[s])
    BY <2>4, ReleasedFacts DEF TicketTracked, Occupied
  <2> QED BY <2>1, <2>2, <2>3, <2>4 DEF TicketMoves
<1>3. ASSUME NEW c \in Consumers, NEW u \in Units PROVE EntryTrue(c, u)'
  <2> DEFINE s == entry[c][u].slot
  <2>1. /\ EntryTrue(c, u) /\ TicketMoves(s) /\ s \in Slots
        /\ entry[c][u].gen \in Nat /\ slot[s].gen \in Nat /\ entry'[c][u] = entry[c][u]
    BY <1>1, EntryTyped, Typed DEF DemandInv
  <2>2. CASE slot'[s] = slot[s]
    BY <2>1, <2>2 DEF EntryTrue, Occupied
  <2>3. CASE /\ Occupied(s) /\ Occupied(s)'
             /\ slot'[s].gen = slot[s].gen /\ slot'[s].demand = slot[s].demand
             /\ slot[s].cancel => slot'[s].cancel
    BY <2>1, <2>3 DEF EntryTrue
  <2>4. CASE Occupied(s) /\ slot'[s] = Released(slot[s])
    <3>1. slot'[s].gen = slot[s].gen + 1
      BY <2>1, <2>4, ReleasedFacts
    <3> QED BY <2>1, <3>1 DEF EntryTrue
  <2> QED BY <2>1, <2>2, <2>3, <2>4 DEF TicketMoves
<1> QED BY <1>2, <1>3 DEF DemandInv

\* The tickets a consumer follows are its own, each under the unit of its entry.
LEMMA OwnTickets ==
    ASSUME Inv, DemandInv, NEW c \in Consumers, NEW u \in Units, Held(c, u)
    PROVE  /\ SlotOf(c, u) \in Slots /\ Occupied(SlotOf(c, u))
           /\ slot[SlotOf(c, u)].gen = entry[c][u].gen
           /\ slot[SlotOf(c, u)].demand.consumer = c /\ slot[SlotOf(c, u)].demand.unit = u
BY EntryTyped DEF Inv, DemandInv, EntryTrue, Held, Valid, SlotOf

\* retireMissing and refreshCurrent leave the tickets of other consumers alone.
LEMMA ForeignSlot ==
    ASSUME Inv, DemandInv, NEW c \in Consumers, NEW demanded \in DemandSets, NEW s \in Slots,
           Occupied(s) => slot[s].demand.consumer # c
    PROVE  SlotsAfter(c, demanded)[s] = slot[s]
<1>1. \A u \in Following(c) : SlotOf(c, u) # s
  BY OwnTickets DEF Following
<1>2. Cancelled(c, demanded) \subseteq Following(c) /\ Updated(c, demanded) \subseteq Following(c)
  BY DEF Cancelled, Dropped, Busy, Kept, Updated
<1> QED BY <1>1, <1>2 DEF SlotsAfter

\* What they do to a ticket of the consumer itself: it is being cancelled and stays so, it is
\* cancelled now, or it takes over the target its unit is demanded at.
LEMMA OwnSlot ==
    ASSUME Inv, DemandInv, NEW c \in Consumers, NEW demanded \in DemandSets, NEW s \in Slots,
           Occupied(s), slot[s].demand.consumer = c
    PROVE  LET u == slot[s].demand.unit
               r == SlotsAfter(c, demanded)[s]
               e == EntriesAfter(c, demanded)[u]
           IN  /\ u \in Units
               /\ \/ slot[s].stage = "QUEUED" /\ r = Released(slot[s])
                  \/ /\ r.stage = slot[s].stage /\ r.gen = slot[s].gen
                     /\ r.demand.consumer = c /\ r.demand.unit = u /\ r.demand.target \in Targets
                     /\ e.slot = s /\ e.gen = slot[s].gen
                     /\ e.retiring => r.cancel
                     /\ r.cancel \/ (u \in DOMAIN demanded /\ r.demand.target = demanded[u])
<1> DEFINE u == slot[s].demand.unit
           r == SlotsAfter(c, demanded)[s]
           e == EntriesAfter(c, demanded)[u]
<1>1. /\ TypeOK /\ slot[s] \in SlotRecord /\ slot[s].demand \in Demands
      /\ slot[s].gen \in Generations /\ "coordinator" \notin closed
  BY Typed DEF Inv, SlotRecord, SlotsInv, SlotInv
<1>2. /\ u \in Units /\ SlotOf(c, u) = s /\ entry[c][u].gen = slot[s].gen
      /\ entry[c][u].retiring => slot[s].cancel
      /\ slot[s].demand.target \in Targets
  BY DEF DemandInv, TicketTracked, SlotOf
<1>3. Held(c, u)
  BY <1>1, <1>2 DEF Held, Valid, Generations, SlotOf
<1>4. \A v \in Following(c) : SlotOf(c, v) = s => v = u
  BY OwnTickets DEF Following
<1>5. /\ Cancelled(c, demanded) \subseteq Following(c) /\ Updated(c, demanded) \subseteq Following(c)
      /\ Cancelled(c, demanded) \cap Updated(c, demanded) = {}
      /\ \A v \in Updated(c, demanded) : v \in DOMAIN demanded
      /\ \A v \in Following(c) : v \in Cancelled(c, demanded) \/ v \in Updated(c, demanded)
  BY DEF Cancelled, Dropped, Busy, Kept, Updated
<1>6. entry[c][u] \in EntryRecord /\ entry[c][u].slot = s
  BY <1>1, <1>2, EntryTyped DEF SlotOf
<1>7. CASE u \in Cancelled(c, demanded) /\ slot[s].stage = "QUEUED"
  <2>1. r = CancelledSlot(slot[s])
    BY <1>2, <1>7 DEF SlotsAfter
  <2> QED BY <1>2, <1>7, <2>1 DEF CancelledSlot
<1>8. CASE u \in Cancelled(c, demanded) /\ slot[s].stage # "QUEUED"
  <2>1. r = CancelledSlot(slot[s])
    BY <1>2, <1>8 DEF SlotsAfter
  <2>2. r.stage = slot[s].stage /\ r.gen = slot[s].gen /\ r.demand = slot[s].demand /\ r.cancel
    BY <1>1, <1>8, <2>1 DEF CancelledSlot, SlotRecord
  <2>3. e = [entry[c][u] EXCEPT !.retiring = TRUE]
    BY <1>2, <1>3, <1>8 DEF EntriesAfter
  <2>4. e.slot = s /\ e.gen = slot[s].gen
    BY <1>2, <1>6, <2>3 DEF EntryRecord
  <2> QED BY <1>2, <2>2, <2>4
<1>9. CASE u \in Updated(c, demanded)
  <2>1. u \notin Cancelled(c, demanded) /\ u \in DOMAIN demanded /\ demanded[u] \in Targets
    BY <1>5, <1>9, DemandTyped
  <2>2. s \notin {SlotOf(c, v) : v \in Cancelled(c, demanded)}
    BY <1>4, <1>5, <2>1
  <2>3. (CHOOSE v \in Updated(c, demanded) : SlotOf(c, v) = s) = u
    <3> DEFINE w == CHOOSE v \in Updated(c, demanded) : SlotOf(c, v) = s
    <3>1. w \in Updated(c, demanded) /\ SlotOf(c, w) = s
      BY <1>2, <1>9
    <3> QED BY <1>4, <1>5, <3>1
  <2>4. r = [slot[s] EXCEPT !.demand.target = demanded[u]]
    BY <1>2, <1>9, <2>2, <2>3 DEF SlotsAfter
  <2>5. r.demand = [slot[s].demand EXCEPT !.target = demanded[u]]
    BY <1>1, <2>4 DEF SlotRecord
  <2>6. r.demand.consumer = c /\ r.demand.unit = u /\ r.demand.target = demanded[u]
    BY <1>1, <2>5 DEF Demands
  <2>7. r.stage = slot[s].stage /\ r.gen = slot[s].gen /\ r.cancel = slot[s].cancel
    BY <1>1, <2>4 DEF SlotRecord
  <2>8. e = entry[c][u]
    BY <1>2, <1>3, <2>1 DEF EntriesAfter
  <2> QED BY <1>2, <1>6, <2>1, <2>6, <2>7, <2>8
<1>10. CASE u \notin Following(c)
  <2>1. entry[c][u].retiring /\ slot[s].cancel
    BY <1>2, <1>3, <1>10 DEF Following
  <2>2. u \notin Cancelled(c, demanded) /\ \A v \in Following(c) : SlotOf(c, v) # s
    BY <1>4, <1>5, <1>10
  <2>3. r = slot[s]
    BY <1>5, <2>2 DEF SlotsAfter
  <2>4. e = entry[c][u]
    BY <1>2, <1>3, <2>2 DEF EntriesAfter
  <2> QED BY <1>2, <1>6, <2>1, <2>3, <2>4
<1> QED BY <1>2, <1>5, <1>7, <1>8, <1>9, <1>10

\* submitMissing: new tickets for units without an entry, each in a vacant slot of its own.
Submitted(c, demanded, new, at) ==
    LET sl == SlotsAfter(c, demanded)
        e == EntriesAfter(c, demanded)
    IN  /\ \A u \in new : u \in DOMAIN demanded /\ e[u].gen = 0 /\ at[u] \in Vacant(sl)
        /\ \A u, v \in new : at[u] = at[v] => u = v
        /\ \A u \in new : /\ slot'[at[u]] = Queued(c, u, demanded[u], sl[at[u]].gen)
                          /\ entry'[c][u] = [slot |-> at[u], gen |-> sl[at[u]].gen, retiring |-> FALSE]
        /\ \A s \in Slots : (\A u \in new : at[u] # s) => slot'[s] = sl[s]
        /\ \A u \in Units \ new : entry'[c][u] = e[u]

LEMMA ReconcileSubmits ==
    ASSUME Inv, DemandInv, NEW c \in Consumers, NEW demanded \in DemandSets, Reconcile(c, demanded)
    PROVE  /\ \E new, at : Submitted(c, demanded, new, at)
           /\ \A d \in Consumers \ {c} : entry'[d] = entry[d] /\ want'[d] = want[d]
           /\ want'[c] = demanded
<1> DEFINE sl == SlotsAfter(c, demanded)
           e == EntriesAfter(c, demanded)
           missing == Missing(c, e, sl, demanded)
<1>1. PICK new \in SUBSET missing : \E at \in [new -> Vacant(sl)] :
        /\ \A u, v \in new : at[u] = at[v] => u = v
        /\ slot' = [s \in Slots |->
            IF \E u \in new : at[u] = s
            THEN LET u == CHOOSE v \in new : at[v] = s IN Queued(c, u, demanded[u], sl[s].gen)
            ELSE sl[s]]
        /\ entry' = [entry EXCEPT ![c] = [u \in Units |->
            IF u \in new THEN [slot |-> at[u], gen |-> sl[at[u]].gen, retiring |-> FALSE] ELSE e[u]]]
  BY DEF Reconcile, Admission
<1>2. PICK at \in [new -> Vacant(sl)] :
        /\ \A u, v \in new : at[u] = at[v] => u = v
        /\ slot' = [s \in Slots |->
            IF \E u \in new : at[u] = s
            THEN LET u == CHOOSE v \in new : at[v] = s IN Queued(c, u, demanded[u], sl[s].gen)
            ELSE sl[s]]
        /\ entry' = [entry EXCEPT ![c] = [u \in Units |->
            IF u \in new THEN [slot |-> at[u], gen |-> sl[at[u]].gen, retiring |-> FALSE] ELSE e[u]]]
  BY <1>1
<1>3. \A u \in new : u \in DOMAIN demanded /\ u \in Units /\ e[u].gen = 0 /\ at[u] \in Vacant(sl)
  BY <1>2, DemandTyped DEF Missing
<1>4. entry \in [Consumers -> [Units -> EntryRecord]] /\ DOMAIN want = Consumers
  <2>1. entry \in [Consumers -> [Units -> EntryRecord]]
    BY DEF Inv, TypeOK, EntryRecord
  <2>2. DOMAIN want = Consumers
    BY DEF DemandInv
  <2> QED BY <2>1, <2>2
<1>5. /\ entry'[c] = [u \in Units |->
            IF u \in new THEN [slot |-> at[u], gen |-> sl[at[u]].gen, retiring |-> FALSE] ELSE e[u]]
      /\ \A d \in Consumers \ {c} : entry'[d] = entry[d]
  BY <1>2, <1>4
<1>6. ASSUME NEW u \in new
      PROVE  slot'[at[u]] = Queued(c, u, demanded[u], sl[at[u]].gen)
  <2>1. at[u] \in Slots
    BY <1>3 DEF Vacant
  <2>2. (CHOOSE v \in new : at[v] = at[u]) = u
    BY <1>2
  <2> QED BY <1>2, <2>1, <2>2
<1>7. /\ \A s \in Slots : (\A u \in new : at[u] # s) => slot'[s] = sl[s]
      /\ \A u \in Units \ new : entry'[c][u] = e[u]
      /\ \A u \in new : entry'[c][u] = [slot |-> at[u], gen |-> sl[at[u]].gen, retiring |-> FALSE]
  <2> HIDE DEF sl, e, missing
  <2>1. \A s \in Slots : (\A u \in new : at[u] # s) => slot'[s] = sl[s]
    BY <1>2
  <2>2. \A u \in Units \ new : entry'[c][u] = e[u]
    BY <1>5
  <2>3. \A u \in new : entry'[c][u] = [slot |-> at[u], gen |-> sl[at[u]].gen, retiring |-> FALSE]
    BY <1>3, <1>5
  <2> QED BY <2>1, <2>2, <2>3
<1>9. Submitted(c, demanded, new, at)
  <2> HIDE DEF sl, e, missing
  <2>1. \A u, v \in new : at[u] = at[v] => u = v
    BY <1>2
  <2> QED BY <1>3, <1>6, <1>7, <2>1 DEF Submitted, sl, e
<1>8. want'[c] = demanded /\ \A d \in Consumers \ {c} : want'[d] = want[d]
  BY <1>4 DEF Reconcile
<1> QED BY <1>5, <1>8, <1>9

\* A consumer that reconciles leaves every ticket tracked, new ones included.
LEMMA ReconcileDemand ==
    ASSUME Inv, DemandInv, NEW c \in Consumers, NEW demanded \in DemandSets, Reconcile(c, demanded)
    PROVE  DemandInv'
<1> DEFINE sl == SlotsAfter(c, demanded)
           e == EntriesAfter(c, demanded)
<1>1. PICK new, at : Submitted(c, demanded, new, at)
  BY ReconcileSubmits
<1>2. /\ \A d \in Consumers \ {c} : entry'[d] = entry[d] /\ want'[d] = want[d]
      /\ want'[c] = demanded
  BY ReconcileSubmits
<1>3. TypeOK /\ slot \in [Slots -> SlotRecord] /\ new \subseteq Units
      /\ \A u \in new : /\ at[u] \in Slots /\ sl[at[u]].stage = "EMPTY"
                        /\ demanded[u] \in Targets /\ u \in DOMAIN demanded
  BY <1>1, Typed, DemandTyped DEF Inv, Submitted, Vacant
<1> HIDE DEF sl, e
<1>4. ASSUME NEW s \in Slots PROVE TicketTracked(s)'
  <2>1. TicketTracked(s) /\ slot[s] \in SlotRecord
    BY <1>3 DEF DemandInv
  <2>2. CASE \E u \in new : at[u] = s
    <3>1. PICK u \in new : at[u] = s
      BY <2>2
    <3>2. /\ slot'[s] = Queued(c, u, demanded[u], sl[s].gen)
          /\ entry'[c][u] = [slot |-> s, gen |-> sl[s].gen, retiring |-> FALSE]
      BY <1>1, <3>1 DEF Submitted, sl
    <3> QED BY <1>2, <1>3, <3>2 DEF TicketTracked, Queued, Occupied
  <2>3. CASE ~(\E u \in new : at[u] = s) /\ (Occupied(s) => slot[s].demand.consumer # c)
    <3>1. slot'[s] = slot[s]
      BY <1>1, <2>3, ForeignSlot DEF Submitted
    <3> QED BY <1>2, <2>1, <2>3, <3>1 DEF TicketTracked, Occupied
  <2>4. CASE ~(\E u \in new : at[u] = s) /\ Occupied(s) /\ slot[s].demand.consumer = c
    <3> DEFINE u == slot[s].demand.unit
    <3>1. slot'[s] = sl[s]
      BY <1>1, <2>4 DEF Submitted, sl
    <3>2. u \in Units
      BY <2>4, OwnSlot
    <3>3. CASE sl[s] = Released(slot[s])
      BY <2>4, <3>1, <3>3, ReleasedFacts DEF TicketTracked, Occupied
    <3>4. CASE sl[s] # Released(slot[s])
      <4>1. /\ sl[s].stage = slot[s].stage /\ sl[s].gen = slot[s].gen
            /\ sl[s].demand.consumer = c /\ sl[s].demand.unit = u /\ sl[s].demand.target \in Targets
            /\ e[u].slot = s /\ e[u].gen = slot[s].gen
            /\ e[u].retiring => sl[s].cancel
            /\ sl[s].cancel \/ (u \in DOMAIN demanded /\ sl[s].demand.target = demanded[u])
        BY <2>4, <3>4, OwnSlot DEF sl, e
      <4>2. e[u].gen # 0
        BY <1>3, <4>1, Typed DEF Generations
      <4>3. entry'[c][u] = e[u]
        BY <1>1, <3>2, <4>2 DEF Submitted, e
      <4> QED BY <1>2, <2>4, <3>1, <3>2, <4>1, <4>3 DEF TicketTracked, Occupied
    <3> QED BY <3>3, <3>4
  <2> QED BY <2>2, <2>3, <2>4
<1>5. ASSUME NEW d \in Consumers, NEW u \in Units, entry'[d][u].gen # 0,
             entry'[d][u] = entry[d][u] \/ (d = c /\ entry'[c][u].slot = entry[c][u].slot
                                                  /\ entry'[c][u].gen = entry[c][u].gen)
      PROVE  EntryTrue(d, u)'
  <2> DEFINE s == entry[d][u].slot
  <2>1. /\ EntryTrue(d, u) /\ s \in Slots /\ entry[d][u].gen \in Nat /\ slot[s].gen \in Nat
        /\ entry'[d][u].slot = s /\ entry'[d][u].gen = entry[d][u].gen
    BY <1>3, <1>5, EntryTyped, Typed DEF DemandInv
  <2>2. \/ sl[s] = slot[s]
        \/ Occupied(s) /\ sl[s] = Released(slot[s])
        \/ /\ Occupied(s) /\ sl[s].stage = slot[s].stage /\ sl[s].gen = slot[s].gen
           /\ sl[s].demand.consumer = slot[s].demand.consumer
           /\ sl[s].demand.unit = slot[s].demand.unit
    BY <2>1, ForeignSlot, OwnSlot DEF sl
  <2>3. \/ slot'[s] = sl[s]
        \/ sl[s].stage = "EMPTY" /\ slot'[s].gen = sl[s].gen
    <3>1. CASE \A v \in new : at[v] # s
      BY <1>1, <2>1, <3>1 DEF Submitted, sl
    <3>2. CASE \E v \in new : at[v] = s
      <4>1. PICK v \in new : at[v] = s
        BY <3>2
      <4>2. slot'[s] = Queued(c, v, demanded[v], sl[s].gen)
        BY <1>1, <4>1 DEF Submitted, sl
      <4> QED BY <1>3, <4>1, <4>2 DEF Queued
    <3> QED BY <3>1, <3>2
  <2>4. CASE Occupied(s) /\ sl[s] = Released(slot[s])
    <3>1. slot'[s].gen = slot[s].gen + 1
      BY <2>1, <2>3, <2>4, ReleasedFacts
    <3> QED BY <2>1, <3>1 DEF EntryTrue
  <2>5. CASE ~Occupied(s)
    <3>1. slot'[s].gen = slot[s].gen /\ entry[d][u].gen # slot[s].gen /\ entry[d][u].gen <= slot[s].gen
      BY <1>5, <2>1, <2>2, <2>3, <2>5 DEF EntryTrue
    <3> QED BY <2>1, <3>1 DEF EntryTrue
  <2>6. CASE Occupied(s) /\ sl[s] # Released(slot[s])
    <3>1. /\ sl[s].stage = slot[s].stage /\ sl[s].gen = slot[s].gen
          /\ sl[s].demand.consumer = slot[s].demand.consumer
          /\ sl[s].demand.unit = slot[s].demand.unit
      BY <2>2, <2>6
    <3>2. slot'[s] = sl[s]
      BY <2>3, <2>6, <3>1 DEF Occupied
    <3> QED BY <2>1, <2>6, <3>1, <3>2 DEF EntryTrue, Occupied
  <2> QED BY <2>4, <2>5, <2>6
<1>6. ASSUME NEW d \in Consumers, NEW u \in Units PROVE EntryTrue(d, u)'
  <2>1. CASE entry'[d][u].gen = 0
    BY <2>1 DEF EntryTrue
  <2>2. CASE entry'[d][u].gen # 0 /\ d # c
    BY <1>2, <1>5, <2>2
  <2>3. CASE d = c /\ u \in new
    <3>1. /\ slot'[at[u]] = Queued(c, u, demanded[u], sl[at[u]].gen)
          /\ entry'[c][u] = [slot |-> at[u], gen |-> sl[at[u]].gen, retiring |-> FALSE]
      BY <1>1, <2>3 DEF Submitted, sl
    <3>2. sl[at[u]].gen \in Nat
      <4>1. sl[at[u]] \in SlotRecord
        BY <1>3, <2>3, SlotAfter DEF Adjusted, sl
      <4> QED BY <4>1 DEF SlotRecord, Generations
    <3> QED BY <2>3, <3>1, <3>2 DEF EntryTrue, Queued, Occupied
  <2>4. CASE entry'[d][u].gen # 0 /\ d = c /\ u \notin new
    <3>1. entry'[c][u] = e[u]
      BY <1>1, <2>4 DEF Submitted, e
    <3>2. \/ e[u] = NoEntry \/ e[u] = entry[c][u]
          \/ e[u] = [entry[c][u] EXCEPT !.retiring = TRUE]
      BY DEF e, EntriesAfter
    <3>3. e[u].slot = entry[c][u].slot /\ e[u].gen = entry[c][u].gen
      BY <1>3, <2>4, <3>1, <3>2, EntryTyped DEF NoEntry, EntryRecord
    <3> QED BY <1>5, <2>4, <3>1, <3>3
  <2> QED BY <2>1, <2>2, <2>3, <2>4
<1>7. (DOMAIN want = Consumers)'
  BY DEF DemandInv, Reconcile
<1> QED BY <1>4, <1>6, <1>7 DEF DemandInv, Slots

\* A reconciler that shuts down forgets only tickets that are gone.
LEMMA ShutdownDemand ==
    ASSUME Inv, DemandInv, (\E c \in Consumers : ShutdownReconciler(c)) \/ ShutdownBridge \/ ShutdownCoordinator
    PROVE  DemandInv'
<1>1. UNCHANGED <<slot, want>>
  BY DEF ShutdownReconciler, ShutdownBridge, ShutdownCoordinator
<1>2. \A c \in Consumers, u \in Units :
          entry'[c][u] = entry[c][u] \/ (entry'[c][u] = NoEntry /\ ~Held(c, u))
  <2>1. CASE \E c \in Consumers : ShutdownReconciler(c)
    <3>1. PICK c \in Consumers : ShutdownReconciler(c)
      BY <2>1
    <3>2. entry \in [Consumers -> [Units -> EntryRecord]]
      BY DEF Inv, TypeOK, EntryRecord
    <3> QED BY <3>1, <3>2 DEF ShutdownReconciler
  <2>2. CASE ShutdownBridge \/ ShutdownCoordinator
    BY <2>2 DEF ShutdownBridge, ShutdownCoordinator
  <2> QED BY <2>1, <2>2
<1>3. ASSUME NEW s \in Slots PROVE TicketTracked(s)'
  <2>1. TicketTracked(s) /\ (Occupied(s) => "coordinator" \notin closed) /\ slot[s].gen # 0
    BY Typed DEF DemandInv, Inv, SlotsInv, SlotInv, Generations
  <2>2. CASE Occupied(s)
    <3> DEFINE c == slot[s].demand.consumer
               u == slot[s].demand.unit
    <3>1. c \in Consumers /\ u \in Units /\ Held(c, u)
      BY <2>1, <2>2 DEF TicketTracked, Held, Valid
    <3>2. entry'[c][u] = entry[c][u]
      BY <1>2, <3>1
    <3> QED BY <1>1, <2>1, <2>2, <3>2 DEF TicketTracked, Occupied
  <2>3. CASE ~Occupied(s)
    BY <1>1, <2>1, <2>3 DEF TicketTracked, Occupied
  <2> QED BY <2>2, <2>3
<1>4. ASSUME NEW c \in Consumers, NEW u \in Units PROVE EntryTrue(c, u)'
  BY <1>1, <1>2 DEF DemandInv, EntryTrue, NoEntry, Occupied
<1> QED BY <1>1, <1>3, <1>4 DEF DemandInv, Slots

LEMMA StepDemand == Inv /\ DemandInv /\ [Next]_vars => DemandInv'
<1> SUFFICES ASSUME Inv, DemandInv, [Next]_vars PROVE DemandInv'
  OBVIOUS
<1>1. CASE Pump
  <2>1. PICK accepts \in BOOLEAN : Visit(nextSlot, accepts)
    BY <1>1 DEF Pump
  <2> QED BY <2>1, VisitMoves, MovesDemand DEF Inv, TypeOK
<1>2. CASE \E a \in acks, again \in BOOLEAN : Deliver(a, again)
  BY <1>2, DeliverMoves, MovesDemand
<1>3. CASE UNCHANGED <<slot, entry, want>>
  BY <1>3, MovesDemand DEF TicketMoves
<1>4. CASE \E s \in Slots, g \in Generations : Finish(s, g)
  BY <1>3, <1>4 DEF Finish, FinishPrepare, FinishActivate, FinishRetire, Complete
<1>5. CASE \E c \in Consumers : \E demanded \in DemandSets : Reconcile(c, demanded)
  BY <1>5, ReconcileDemand
<1>6. CASE (\E c \in Consumers : ShutdownReconciler(c)) \/ ShutdownBridge \/ ShutdownCoordinator
  BY <1>6, ShutdownDemand
<1>7. CASE UNCHANGED vars
  BY <1>3, <1>7 DEF vars
<1> QED BY <1>1, <1>2, <1>4, <1>5, <1>6, <1>7 DEF Next

\* Every ticket is tracked by the entry of its consumer and unit, and is being cancelled or serves
\* what the consumer last asked for, for any number of slots, consumers and units.
THEOREM TicketsFollowDemand == Spec => []DemandFollowed
<1>1. Init => DemandInv
  BY InitDemand
<1>2. Inv /\ DemandInv /\ [Next]_vars => DemandInv'
  BY StepDemand
<1>3. DemandInv => DemandFollowed
  BY DEF DemandInv, TicketTracked, DemandFollowed
<1> QED BY <1>1, <1>2, <1>3, Invariance, PTL DEF Spec
=============================================================================
