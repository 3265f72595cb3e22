---------------------------- MODULE MCStringPool ----------------------------
(* Four cooked names over two one-slot tiers: A and C fit in both, B in the  *)
(* larger one, F no longer decodes, so a retired scope does not index B and  *)
(* C, which lie behind it.  The dynamic name D is compared with B.           *)
EXTENDS StringPool, TLC

CONSTANTS A, B, C, D, E, F

MCCooked    == 0 :> A @@ 1 :> F @@ 2 :> B @@ 3 :> C
MCSize      == [t \in Texts |-> IF t \in {B, D} THEN 2 ELSE 1]
MCHash      == [t \in Texts |-> CASE t \in {B, D} -> 1 [] t = E -> 4 [] OTHER -> 5]
MCTierSlots == <<1, 1>>
MCTierBytes == <<1, 2>>
MCInitial   == <<0, 1>>
MCQueries   == {<<B, TRUE>>, <<D, TRUE>>, <<D, FALSE>>, <<E, TRUE>>}

Symmetry == Permutations(Users)
=============================================================================
