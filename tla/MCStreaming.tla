----------------------------- MODULE MCStreaming -----------------------------
(* A small coordinator, its bridge and its reconcilers.                      *)
EXTENDS Streaming, TLC

Symmetry == Permutations(Units) \cup Permutations(Consumers)
=============================================================================
