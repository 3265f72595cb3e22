----------------------------- MODULE EventChannel -----------------------------
(***************************************************************************)
(* What an event ring promises its producer and its consumer: a bounded     *)
(* channel that keeps the accepted events in order, shows each one to the   *)
(* consumer as it was enqueued, and frees its place only when the consumer  *)
(* gives it back (SIRSPSCEventRing.h:56-59, 138-140).  The specification    *)
(* knows nothing of cells, cached cursors or copies.                        *)
(***************************************************************************)
EXTENDS Integers

CONSTANTS Rings, Capacity, Width

VARIABLES
    first,  \* number of the oldest event the consumer has not given back, modulo Width
    count,  \* events accepted since
    seen,   \* events the consumer has looked at in its current read
    shown   \* number of the event it was shown last

ChannelInit ==
    /\ first = [r \in Rings |-> 0] /\ count = [r \in Rings |-> 0]
    /\ seen = [r \in Rings |-> 0] /\ shown = [r \in Rings |-> 0]

Accept(r, n) ==
    /\ count[r] + n <= Capacity
    /\ count' = [count EXCEPT ![r] = @ + n]
    /\ UNCHANGED <<first, seen, shown>>

\* The events come one after the other, none twice and none left out.
Show(r) ==
    /\ seen[r] < count[r]
    /\ shown' = [shown EXCEPT ![r] = (first[r] + seen[r]) % Width]
    /\ seen' = [seen EXCEPT ![r] = @ + 1]
    /\ UNCHANGED <<first, count>>

\* What is given back is never shown again; what is kept will be.
GiveBack(r, n) ==
    /\ n <= count[r]
    /\ first' = [first EXCEPT ![r] = (@ + n) % Width]
    /\ count' = [count EXCEPT ![r] = @ - n]
    /\ seen' = [seen EXCEPT ![r] = 0]
    /\ UNCHANGED shown

ChannelNext == \E r \in Rings :
    \/ \E n \in 0..Capacity : Accept(r, n) \/ GiveBack(r, n)
    \/ Show(r)

ChannelSpec == ChannelInit /\ [][ChannelNext]_<<first, count, seen, shown>>
=============================================================================
