--------------------------- MODULE MCTaskScheduler ---------------------------
(* A small scheduler: model values for the slots, workers and threads.       *)
EXTENDS TaskScheduler, TLC

\* The slots are interchangeable, and so are the workers.
Symmetry == Permutations(Slots) \cup Permutations(Workers)
=============================================================================
