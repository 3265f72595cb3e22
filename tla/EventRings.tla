------------------------------ MODULE EventRings ------------------------------
(***************************************************************************)
(* Source/Core/Events/SIRSPSCEventRing.h: rings between one producer and    *)
(* one consumer thread each.  Either side works on its own cursor and on a  *)
(* cached copy of the other one, and loads the other only when the copy     *)
(* promises too little.                                                     *)
(*                                                                         *)
(* One action per atomic access, and one per payload that is copied: the    *)
(* copies are ordinary stores that the release of the cursor publishes.     *)
(* The cursors are 64 bits wide and wrap; Width stands for 2^64.  A payload *)
(* is the number of its event, so that a wrong, torn or repeated one shows. *)
(***************************************************************************)
EXTENDS Integers

CONSTANTS
    Rings,
    Capacity,  \* places of a ring, a power of two
    Width      \* 2^64, a multiple of the capacity

ASSUME RingAssumption ==
    /\ Capacity \in Nat \ {0, 1}
    /\ Width \in Nat /\ Width > Capacity /\ Width % Capacity = 0

Cursors == 0..(Width - 1)
Cells == 0..(Capacity - 1)

VARIABLES
    tail, headCache,     \* sirSPSCProducerState_t
    producer,            \* the enqueue that runs: what it does next, its payloads, those copied
    head, tailCache,     \* sirSPSCConsumerState_t
    lease,               \* nReserved; bDraining holds where it is not 0
    read,                \* payloads of the lease the consumer has looked at
    shown,               \* the payload it looked at last
    cell,                \* m_Events
    stopped              \* m_bStopped

ringVars == <<tail, headCache, producer, head, tailCache, lease, read, shown, cell, stopped>>

Idle == [step |-> "idle", n |-> 0, done |-> 0]

RingsInit ==
    /\ tail = [r \in Rings |-> 0] /\ headCache = [r \in Rings |-> 0]
    /\ head = [r \in Rings |-> 0] /\ tailCache = [r \in Rings |-> 0]
    /\ producer = [r \in Rings |-> Idle]
    /\ lease = [r \in Rings |-> 0] /\ read = [r \in Rings |-> 0] /\ shown = [r \in Rings |-> 0]
    /\ cell \in [Rings -> [Cells -> {-1}]]
    /\ stopped = [r \in Rings |-> FALSE]

\* Unsigned arithmetic of the cursors, and the place of an event.
Plus(a, n) == (a + n) % Width
Distance(a, b) == (b - a) % Width
Place(a) == a % Capacity

Least(a, b) == IF a < b THEN a ELSE b

-----------------------------------------------------------------------------
(* The producer thread *)

\* tryEnqueue and enqueueBatch pass the check of m_bStopped.
Offer(r, n) ==
    /\ producer[r].step = "idle" /\ n > 0
    /\ ~stopped[r]
    /\ producer' = [producer EXCEPT ![r] = [step |-> "room", n |-> n, done |-> 0]]
    /\ UNCHANGED <<tail, headCache, head, tailCache, lease, read, shown, cell, stopped>>

\* Mutant: what the consumer has reserved counts as free.
KnownHeadLeased(r, n) ==
    IF Distance(headCache[r], tail[r]) + n > Capacity THEN Plus(head[r], lease[r]) ELSE headCache[r]

\* The cursor of the consumer is loaded when the cached one leaves too little room.
KnownHead(r, n) ==
    IF Distance(headCache[r], tail[r]) + n > Capacity THEN head[r] ELSE headCache[r]

\* A prefix that fits is accepted, or nothing when the ring is full.
FindRoom(r) ==
    LET n == producer[r].n
        known == KnownHead(r, n)
        room == Capacity - Distance(known, tail[r])
    IN
    /\ producer[r].step = "room"
    /\ headCache' = [headCache EXCEPT ![r] = known]
    /\ producer' = [producer EXCEPT ![r] =
           IF room <= 0 THEN Idle ELSE [step |-> "copy", n |-> Least(n, room), done |-> 0]]
    /\ UNCHANGED <<tail, head, tailCache, lease, read, shown, cell, stopped>>

Copy(r) ==
    LET event == Plus(tail[r], producer[r].done) IN
    /\ producer[r].step = "copy" /\ producer[r].done < producer[r].n
    /\ cell' = [cell EXCEPT ![r] = [@ EXCEPT ![Place(event)] = event]]
    /\ producer' = [producer EXCEPT ![r].done = @ + 1]
    /\ UNCHANGED <<tail, headCache, head, tailCache, lease, read, shown, stopped>>

\* The release store of nTail.
Publish(r) ==
    /\ producer[r].step = "copy" /\ producer[r].done = producer[r].n
    /\ tail' = [tail EXCEPT ![r] = Plus(@, producer[r].n)]
    /\ producer' = [producer EXCEPT ![r] = Idle]
    /\ UNCHANGED <<headCache, head, tailCache, lease, read, shown, cell, stopped>>

ProducerStep(r) == FindRoom(r) \/ Copy(r) \/ Publish(r)

-----------------------------------------------------------------------------
(* The consumer thread *)

\* availableForConsumer: the cursor of the producer is loaded when the cached one promises less
\* than the limit.
KnownTail(r, limit) ==
    IF Distance(head[r], tailCache[r]) < limit THEN tail[r] ELSE tailCache[r]

\* dequeueBatch, drainBatch and acquireReadSpans: what is there is reserved, up to the limit.
Acquire(r, limit) ==
    LET known == KnownTail(r, limit) IN
    /\ lease[r] = 0 /\ limit > 0
    /\ tailCache' = [tailCache EXCEPT ![r] = known]
    /\ lease' = [lease EXCEPT ![r] = Least(Distance(head[r], known), limit)]
    /\ UNCHANGED <<tail, headCache, producer, head, read, shown, cell, stopped>>

\* The callback, or the copy of dequeueBatch, gets the next payload of the lease.
Look(r) ==
    /\ read[r] < lease[r]
    /\ shown' = [shown EXCEPT ![r] = cell[r][Place(head[r] + read[r])]]
    /\ read' = [read EXCEPT ![r] = @ + 1]
    /\ UNCHANGED <<tail, headCache, producer, head, tailCache, lease, cell, stopped>>

\* The release store of nHead; commitRead may give back a prefix only.
Commit(r, n) ==
    /\ lease[r] > 0 /\ n <= lease[r]
    /\ head' = [head EXCEPT ![r] = Plus(@, n)]
    /\ lease' = [lease EXCEPT ![r] = 0] /\ read' = [read EXCEPT ![r] = 0]
    /\ UNCHANGED <<tail, headCache, producer, tailCache, shown, cell, stopped>>

Stop(r) ==
    /\ stopped' = [stopped EXCEPT ![r] = TRUE]
    /\ UNCHANGED <<tail, headCache, producer, head, tailCache, lease, read, shown, cell>>

-----------------------------------------------------------------------------

RingStep(r) ==
    \/ \E n \in 1..Capacity : Offer(r, n)
    \/ ProducerStep(r)
    \/ \E limit \in 1..Capacity : Acquire(r, limit)
    \/ Look(r)
    \/ \E n \in 0..Capacity : Commit(r, n)
    \/ Stop(r)

RingsSpec == RingsInit /\ [][\E r \in Rings : RingStep(r)]_ringVars

Channel == INSTANCE EventChannel
    WITH first <- head, count <- [r \in Rings |-> Distance(head[r], tail[r])], seen <- read

\* Each ring is a bounded channel: whatever the cached cursors, no accepted event is lost, shown
\* twice, out of order or overwritten before it is given back (enqueueBatchUnchecked,
\* availableForConsumer, drainBatch, acquireReadSpans, commitRead).
ImplementsChannel == Channel!ChannelSpec
=============================================================================
