---------------------------- MODULE ResourceMemory ----------------------------
(***************************************************************************)
(* The payload memory behind the resource graph (SIRResourceGraph.cpp):     *)
(* staging buffers that clients fill, shared chunks that records refer to   *)
(* by content, and the budget both are allocated from.  Only the writer     *)
(* thread touches any of it.                                                *)
(*                                                                         *)
(* Every allocation counts as one block of the budget: a record, the header *)
(* of a shared chunk, its payload, a staging buffer.  A payload is a member *)
(* of Data; sizes and alignments are left out, and the handle of a staging  *)
(* buffer that is gone is refused like that of an empty one.                *)
(***************************************************************************)
EXTENDS Integers, Sequences, FiniteSets, SequencesExt

CONSTANTS
    Data,
    MaxStaging,  \* m_nMaxStaging
    MaxBlocks    \* m_nMaxCommittedBytes, in allocations

ASSUME MemoryAssumption == MaxStaging \in Nat \ {0} /\ MaxBlocks \in Nat

StagingSlots == 0..(MaxStaging - 1)
Raw == "raw"          \* a payload nobody has written yet
Existing == -1        \* m_bReuseExisting: a chunk input that names no staging buffer

VARIABLES
    staging,  \* filled slots of m_pStaging: their payloads
    shared,   \* m_pSharedChunks: content key, payload and references of each chunk
    blocks    \* m_nCommittedBytes

memoryVars == <<staging, shared, blocks>>

MemoryInit == staging = <<>> /\ shared = <<>> /\ blocks = 0

\* A table with an entry that is new or replaces the one that was there.
With(table, x, entry) == [y \in DOMAIN table \cup {x} |-> IF y = x THEN entry ELSE table[y]]

LowestFree(numbers, used) == CHOOSE n \in numbers \ used : \A m \in numbers \ used : n <= m

\* allocateStaging takes the first free slot.
CanStage == StagingSlots \ DOMAIN staging # {} /\ blocks < MaxBlocks
FreeStaging == LowestFree(StagingSlots, DOMAIN staging)
AllocateStaging(payload) ==
    /\ CanStage
    /\ staging' = With(staging, FreeStaging, payload)
    /\ blocks' = blocks + 1
    /\ UNCHANGED shared

CancelStaging(s) ==
    /\ s \in DOMAIN staging
    /\ staging' = Restrict(staging, DOMAIN staging \ {s})
    /\ blocks' = blocks - 1
    /\ UNCHANGED shared

-----------------------------------------------------------------------------
(* The chunks of a publication *)

ChunkInput == [id : Int, content : STRING, from : StagingSlots \cup {Existing}]

\* findMatchingChunk: by content key and payload, or by content key alone.
Wanted(input) == IF input.from = Existing THEN Data \cup {Raw} ELSE {staging[input.from]}
Candidates(chunks, input) ==
    {c \in DOMAIN chunks : chunks[c].content = input.content /\ chunks[c].data \in Wanted(input)}

\* Two payloads under one content key are never taken for one another.
SamePayload(chunks, found) == \A c, d \in found : chunks[c].data = chunks[d].data

Prepared == [ok |-> TRUE, chunks |-> <<>>, fresh |-> {}, staged |-> {}, shared |-> shared, blocks |-> blocks + 1]

Refused(p, input) ==
    \/ \E i \in DOMAIN p.chunks : p.chunks[i].id = input.id
    \/ input.from = Existing /\ LET found == Candidates(p.shared, input)
                                IN found = {} \/ ~SamePayload(p.shared, found)
    \/ input.from # Existing /\ \/ input.from \notin DOMAIN staging
                                \/ input.from \in p.staged
                                \/ Candidates(p.shared, input) = {} /\ p.blocks = MaxBlocks

\* prepareChunk; the loop of publish ends at the first input that is refused.
PrepareChunk(p, input) ==
    IF ~p.ok \/ Refused(p, input) THEN [p EXCEPT !.ok = FALSE]
    ELSE LET found == Candidates(p.shared, input)
             fresh == found = {}
             c == IF fresh THEN LowestFree(1..MaxBlocks, DOMAIN p.shared) ELSE CHOOSE d \in found : TRUE
             chunks == IF fresh
                       THEN With(p.shared, c, [content |-> input.content, data |-> staging[input.from], refs |-> 0])
                       ELSE p.shared
         IN [ok |-> TRUE,
             chunks |-> Append(p.chunks, [id |-> input.id, chunk |-> c,
                                          content |-> input.content, data |-> chunks[c].data]),
             fresh |-> IF fresh THEN p.fresh \cup {c} ELSE p.fresh,
             staged |-> p.staged \cup ({input.from} \ {Existing}),
             shared |-> chunks,
             blocks |-> IF fresh THEN p.blocks + 1 ELSE p.blocks]

\* The record and all of its chunks, or as far as the first refusal.
Prepare(inputs) == FoldLeft(PrepareChunk, Prepared, inputs)

Uses(chunks, c) == Cardinality({i \in DOMAIN chunks : chunks[i].chunk = c})

\* adoptPublishedRecordChunks: a staging buffer becomes the payload of a fresh chunk, or is freed.
Adopt(p) ==
    /\ shared' = [c \in DOMAIN p.shared |-> [p.shared[c] EXCEPT !.refs = @ + Uses(p.chunks, c)]]
    /\ staging' = Restrict(staging, DOMAIN staging \ p.staged)
    /\ blocks' = p.blocks - (Cardinality(p.staged) - Cardinality(p.fresh))

\* Mutant: only the record is given back.
AbandonRecordOnly(p) ==
    /\ shared' = Restrict(p.shared, DOMAIN p.shared \ p.fresh)
    /\ blocks' = p.blocks - 1
    /\ UNCHANGED staging

\* abandonUnpublishedRecord: the fresh chunks and the record, but no staging buffer.
Abandon(p) ==
    /\ shared' = Restrict(p.shared, DOMAIN p.shared \ p.fresh)
    /\ blocks' = p.blocks - Cardinality(p.fresh) - 1
    /\ UNCHANGED staging

\* buildReplacement: the new record refers to the chunks it keeps.
Keep(chunks) ==
    /\ shared' = [c \in DOMAIN shared |-> [shared[c] EXCEPT !.refs = @ + Uses(chunks, c)]]
    /\ blocks' = blocks + 1
    /\ UNCHANGED staging

\* destroyRecord: a chunk goes with its last reference.
Destroy(chunks) ==
    LET left == [c \in DOMAIN shared |-> [shared[c] EXCEPT !.refs = @ - Uses(chunks, c)]]
        gone == {c \in DOMAIN shared : left[c].refs = 0}
    IN
    /\ shared' = Restrict(left, DOMAIN left \ gone)
    /\ blocks' = blocks - 1 - 2 * Cardinality(gone)
    /\ UNCHANGED staging
=============================================================================
