----------------------------- MODULE EventMailbox -----------------------------
(***************************************************************************)
(* Source/Core/Events/SIREventMailbox.h: one ring per registered producer   *)
(* thread, pumped by the owner in turn with a quantum for each.  A ring     *)
(* moves by the actions of EventRings; the owner's pump is the consumer of  *)
(* all of them.  pump and pumpSpans differ only in how a callback gets the  *)
(* payloads: one by one, or a contiguous span at a time.                    *)
(***************************************************************************)
EXTENDS EventRings

CONSTANTS
    Producers,  \* ProducerCapacity: the rings are 0..(Producers - 1)
    Budgets, Quanta

ASSUME MailboxAssumption ==
    /\ Producers \in Nat \ {0} /\ Rings = 0..(Producers - 1)
    /\ Budgets \subseteq Nat \ {0} /\ Quanta \subseteq Nat \ {0}

VARIABLES
    registered, \* m_nRegistered
    sealed,     \* m_bSealed
    cursor,     \* m_nCursor
    closing,    \* m_bStopped
    pump        \* the pump that runs; m_bPumping is pump.on

mailboxVars == <<tail, headCache, producer, head, tailCache, lease, read, shown, cell, stopped,
                 registered, sealed, cursor, closing, pump>>

NoPump == [on |-> FALSE, start |-> 0, i |-> 0, budget |-> 0, quantum |-> 0, delivered |-> 0]

MailboxInit ==
    /\ RingsInit
    /\ registered = 0 /\ sealed = FALSE /\ cursor = 0 /\ closing = FALSE
    /\ pump = NoPump

RegisterProducer ==
    /\ ~sealed /\ registered < Producers
    /\ registered' = registered + 1
    /\ UNCHANGED <<ringVars, sealed, cursor, closing, pump>>

Seal ==
    /\ ~sealed /\ registered > 0
    /\ sealed' = TRUE
    /\ UNCHANGED <<ringVars, registered, cursor, closing, pump>>

Registered == {r \in Rings : r < registered}

\* tryPublish and publishBatch: the token is valid, and the ring takes the offer.
TryPublish(r, n) ==
    /\ sealed /\ ~closing /\ r \in Registered
    /\ Offer(r, n)
    /\ UNCHANGED <<registered, sealed, cursor, closing, pump>>

ProducerRuns(r) == ProducerStep(r) /\ UNCHANGED <<registered, sealed, cursor, closing, pump>>

PumpBegin(budget, quantum) ==
    /\ sealed /\ ~pump.on
    /\ pump' = [on |-> TRUE, start |-> cursor, i |-> 0, budget |-> budget, quantum |-> quantum, delivered |-> 0]
    /\ UNCHANGED <<ringVars, registered, sealed, cursor, closing>>

\* The ring of this turn.
Turn == (pump.start + pump.i) % registered

\* How many of its events it may deliver.
Allowed == Least(pump.budget - pump.delivered, pump.quantum)
Continues == pump.on /\ pump.i < registered /\ pump.delivered < pump.budget

\* Mutant: the next pump starts where this one did.
NextTurnSame(delivered) ==
    /\ pump' = [pump EXCEPT !.i = @ + 1, !.delivered = @ + delivered]
    /\ UNCHANGED cursor

NextTurn(delivered) ==
    /\ pump' = [pump EXCEPT !.i = @ + 1, !.delivered = @ + delivered]
    /\ cursor' = (Turn + 1) % registered

\* An empty ring passes its turn; otherwise its lease runs until DrainEnd.
DrainBegin ==
    /\ Continues /\ lease[Turn] = 0
    /\ Acquire(Turn, Least(Allowed, Capacity))
    /\ IF lease'[Turn] = 0 THEN NextTurn(0) ELSE UNCHANGED <<cursor, pump>>
    /\ UNCHANGED <<registered, sealed, closing>>

Callback ==
    /\ Continues /\ Look(Turn)
    /\ UNCHANGED <<registered, sealed, cursor, closing, pump>>

DrainEnd ==
    /\ Continues /\ lease[Turn] > 0 /\ read[Turn] = lease[Turn]
    /\ Commit(Turn, lease[Turn])
    /\ NextTurn(lease[Turn])
    /\ UNCHANGED <<registered, sealed, closing>>

PumpEnd ==
    /\ pump.on /\ ~Continues
    /\ pump' = NoPump
    /\ UNCHANGED <<ringVars, registered, sealed, cursor, closing>>

PumpStep == DrainBegin \/ Callback \/ DrainEnd \/ PumpEnd

\* stop, from any thread.  It stops the mailbox before the rings, so that a ring refuses only
\* what the mailbox has refused already: one action.
StopMailbox ==
    /\ ~closing
    /\ closing' = TRUE
    /\ stopped' = [r \in Rings |-> stopped[r] \/ r \in Registered]
    /\ UNCHANGED <<tail, headCache, producer, head, tailCache, lease, read, shown, cell,
                   registered, sealed, cursor, pump>>

MailboxNext ==
    \/ RegisterProducer \/ Seal
    \/ \E r \in Rings : (\E n \in 1..Capacity : TryPublish(r, n)) \/ ProducerRuns(r)
    \/ \E budget \in Budgets, quantum \in Quanta : PumpBegin(budget, quantum)
    \/ PumpStep
    \/ StopMailbox

MailboxSpec == MailboxInit /\ [][MailboxNext]_mailboxVars

-----------------------------------------------------------------------------
(* What the mailbox promises *)

\* Only the ring of this turn is leased, and its callbacks fit in the budget and the quantum
\* (pump, pumpSpans).
LeasesBelongToTurn == \A r \in Rings : lease[r] > 0 =>
    /\ Continues /\ r = Turn
    /\ lease[r] <= pump.quantum /\ pump.delivered + lease[r] <= pump.budget

\* The owner pumps again and again, with whatever budget; nothing is asked of the producers.
MailboxFairness ==
    /\ WF_mailboxVars(PumpStep)
    /\ WF_mailboxVars(\E budget \in Budgets, quantum \in Quanta : PumpBegin(budget, quantum))

LiveMailboxSpec == MailboxSpec /\ MailboxFairness

\* No producer is starved: a ring with events is drained, however small the budget of a pump and
\* whatever bursts the other producers send (pump: "avoids starvation during bursts").
ProducersAreServed == \A r \in Rings : head[r] # tail[r] ~> lease[r] > 0
=============================================================================
