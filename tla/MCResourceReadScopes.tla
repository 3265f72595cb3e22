------------------------ MODULE MCResourceReadScopes ------------------------
(* Small instances of the read scopes: keys whose searches start together.   *)
EXTENDS ResourceReadScopes, TLC

CONSTANT Hash   \* SIRResourceKeyHash of the keys, which collide

\* Open addressing: ( hash + probe ) % m_nReadKeyIndexCapacity.
MCProbe == [k \in Keys |-> [n \in Steps |-> (Hash + n) % CellCount]]

RecordSymmetry == Permutations(Records) \cup Permutations(Keys)
Symmetry == RecordSymmetry \cup Permutations(Scopes)
=============================================================================
