---------------------------- MODULE MCEventMailbox ----------------------------
(* Two producers on rings of two places, with cursors of two bits: the rings  *)
(* of a mailbox, or one ring alone whose consumer may give back a part.       *)
EXTENDS EventMailbox

VARIABLE alone  \* the ring has no mailbox

MCRings == 0..(Producers - 1)
MCVars == <<mailboxVars, alone>>
NoMailbox == UNCHANGED <<registered, sealed, cursor, closing, pump>>

MCInit == MailboxInit /\ alone \in BOOLEAN
MCNext ==
    /\ UNCHANGED alone
    /\ IF alone THEN RingStep(0) /\ NoMailbox ELSE MailboxNext

\* The consumer of a ring alone comes again and again, as the owner of a mailbox does.
Comes == alone /\ \E limit \in 1..Capacity : Acquire(0, limit) /\ NoMailbox /\ UNCHANGED alone
LiveMCSpec == MCInit /\ [][MCNext]_MCVars /\ MailboxFairness /\ WF_MCVars(Comes)
=============================================================================
