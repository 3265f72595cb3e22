-------------------------- MODULE StreamingProvider --------------------------
(***************************************************************************)
(* What a streaming provider may rely on: the calls that reach it for one   *)
(* ticket, a slot with a generation, and the completions it reports, in the *)
(* only order that leaves each representation prepared once, activated at   *)
(* most once and retired exactly once (SIRStreamingProviderBridge.h:27-40,  *)
(* 78-86).  The specification knows nothing of stages, bridge flags or       *)
(* demands; module Streaming shows that the streaming code implements it.   *)
(***************************************************************************)
EXTENDS Naturals

CONSTANTS Slots, MaxGeneration

Generations == 1..MaxGeneration

VARIABLE provider  \* provider[s][g]: what the provider does for ticket (s, g)

\* unused, preparing, cancelling (a cancellation reached a running prepare), prepared, spoiled
\* (a prepare or an activation that failed or was cancelled), activating, active, retiring, retired
Phases == {"unused", "preparing", "cancelling", "prepared", "spoiled",
           "activating", "active", "retiring", "retired"}

Phase(s, g) == provider[s][g].phase

\* The provider has nothing to do with the ticket, not yet or not any more.
Free(s, g) == Phase(s, g) \in {"unused", "retired"}

ProviderInit == provider = [s \in Slots |-> [g \in Generations |-> [phase |-> "unused", calls |-> 0]]]

Call(s, g, to) ==
    provider' = [provider EXCEPT ![s][g] = [phase |-> to, calls |-> provider[s][g].calls + 1]]

Become(s, g, to) ==
    provider' = [provider EXCEPT ![s][g] = [phase |-> to, calls |-> provider[s][g].calls]]

\* A slot is prepared for a fresh ticket only when no other ticket of the slot occupies the provider.
BeginPrepare(s, g) ==
    /\ Phase(s, g) = "unused"
    /\ \A h \in Generations : Free(s, h)
    /\ Call(s, g, "preparing")

\* The cancellation may arrive after the prepare has finished: what it prepared is then not used.
CancelPrepare(s, g) ==
    \/ Phase(s, g) = "preparing" /\ Call(s, g, "cancelling")
    \/ Phase(s, g) \in {"prepared", "spoiled"} /\ Call(s, g, "spoiled")

BeginActivate(s, g) == Phase(s, g) = "prepared" /\ Call(s, g, "activating")

\* Never while an operation runs, and never twice.
BeginRetire(s, g) == Phase(s, g) \in {"prepared", "spoiled", "active"} /\ Call(s, g, "retiring")

FinishPrepare(s, g) ==
    \/ Phase(s, g) = "preparing" /\ Become(s, g, "prepared")
    \/ Phase(s, g) \in {"preparing", "cancelling"} /\ Become(s, g, "spoiled")

FinishActivate(s, g) ==
    Phase(s, g) = "activating" /\ \E to \in {"active", "spoiled"} : Become(s, g, to)

FinishRetire(s, g) == Phase(s, g) = "retiring" /\ Become(s, g, "retired")

ProviderNext == \E s \in Slots, g \in Generations :
    \/ BeginPrepare(s, g) \/ CancelPrepare(s, g) \/ BeginActivate(s, g) \/ BeginRetire(s, g)
    \/ FinishPrepare(s, g) \/ FinishActivate(s, g) \/ FinishRetire(s, g)

ProviderSpec == ProviderInit /\ [][ProviderNext]_provider
=============================================================================
