-------------------------- MODULE MCResourceFileLoad --------------------------
(* Three resources that depend on one another in several ways, payloads that  *)
(* share a content key, and a load of one of them; and one resource alone     *)
(* with a load and another client.                                            *)
EXTENDS ResourceFileLoad

Needs(key) == [target |-> key, required |-> TRUE]
Likes(key) == [target |-> key, required |-> FALSE]
Chunk(id, from) == [id |-> id, content |-> "hash", from |-> from]
Asset(key, deps, chunks) == [key |-> key, kind |-> "asset", deps |-> deps, chunks |-> chunks]

MCPublications == {
    Asset("a", <<>>, <<Chunk(1, 0), Chunk(2, Existing)>>),
    Asset("a", <<Likes("c")>>, <<>>),
    Asset("b", <<Needs("a")>>, <<Chunk(1, 0)>>),
    Asset("c", <<Likes("b")>>, <<Chunk(1, Existing)>>)
}
Symmetry == Permutations(Data)

MCRequests == {Asset("b", <<Needs("a")>>, <<Chunk(1, 0)>>)}

Plain == {Asset("a", <<>>, <<Chunk(1, 0)>>)}
=============================================================================
