------------------------ MODULE ResourceFileLoad_proofs -----------------------
(***************************************************************************)
(* Proofs about the writer of the resource graph and the load that works    *)
(* beside its clients, for any number of resources, keys, payloads, staging *)
(* buffers and events.                                                      *)
(***************************************************************************)
EXTENDS ResourceFileLoad, FiniteSetTheorems, SequenceTheorems, WellFoundedInduction, TLAPS

(* Recursion over the naturals *)

\* A set of naturals that is not empty has a least element.
LEMMA First ==
    ASSUME NEW P \in SUBSET Nat, P # {}
    PROVE  \E n \in P : \A m \in P : n <= m
<1>1. PICK n \in P : \A m \in P : <<m, n>> \notin OpToRel(<, Nat)
  BY NatLessThanWellFounded, WFMin
<1>2. \A m \in P : ~(m < n)
  BY <1>1 DEF OpToRel
<1> QED BY <1>2

\* Induction over the members of a set.
LEMMA Upwards ==
    ASSUME NEW T, 0 \in T, \A n \in Nat : n \in T => n + 1 \in T
    PROVE  Nat \subseteq T
<1> SUFFICES ASSUME Nat \ T # {} PROVE FALSE
  OBVIOUS
<1>1. PICK n \in Nat \ T : \A m \in Nat \ T : n <= m
  BY First
<1>2. n # 0
  BY <1>1
<1>3. n - 1 \in Nat /\ n - 1 < n
  BY <1>2
<1>4. n - 1 \in T
  BY <1>1, <1>3
<1>5. (n - 1) + 1 \in T
  BY <1>3, <1>4
<1> QED BY <1>5

IteratesOf(F, b, k, w) == w[0] = b /\ \A n \in 1..k : w[n] = F[w[n - 1]]

\* The iterates of a function on a set exist.
LEMMA Iterates ==
    ASSUME NEW X, NEW b \in X, NEW F \in [X -> X], NEW k \in Nat
    PROVE  \E w \in [0..k -> X] : IteratesOf(F, b, k, w)
<1> USE DEF IteratesOf
<1> DEFINE Holds(m) == \E w \in [0..m -> X] : w[0] = b /\ \A n \in 1..m : w[n] = F[w[n - 1]]
           T == {m \in Nat : Holds(m)}
<1>1. 0 \in T
  <2> DEFINE v == [n \in 0..0 |-> b]
  <2>1. v \in [0..0 -> X] /\ v[0] = b
    OBVIOUS
  <2>2. \A n \in 1..0 : v[n] = F[v[n - 1]]
    OBVIOUS
  <2> HIDE DEF v
  <2>3. Holds(0)
    BY <2>1, <2>2
  <2> QED BY <2>3
<1>2. ASSUME NEW m \in Nat, m \in T PROVE m + 1 \in T
  <2>1. PICK w \in [0..m -> X] : w[0] = b /\ \A n \in 1..m : w[n] = F[w[n - 1]]
    BY <1>2
  <2> DEFINE v == [n \in 0..(m + 1) |-> IF n = m + 1 THEN F[w[m]] ELSE w[n]]
  <2>2. v \in [0..(m + 1) -> X] /\ v[0] = b
    BY <2>1
  <2>3. \A n \in 1..(m + 1) : v[n] = F[v[n - 1]]
    BY <2>1
  <2> HIDE DEF v
  <2>4. Holds(m + 1)
    BY <2>2, <2>3
  <2> QED BY <2>4
<1>3. Nat \subseteq T
  <2> HIDE DEF T
  <2> QED BY <1>1, <1>2, Upwards
<1> QED BY <1>3

-----------------------------------------------------------------------------
(* The keys on the paths from a key: the least set with the key that is     *)
(* closed under the dependencies of the records.                            *)

Heads(records, keys) ==
    UNION {Targets(records[s].deps) : s \in {t \in DOMAIN records : records[t].key \in keys}}

Closed(records, keys) ==
    \A s \in DOMAIN records : records[s].key \in keys => Targets(records[s].deps) \subseteq keys

\* What KeysFrom iterates.
Spreads(records, key, within) ==
    within = [n \in 0..MaxResources |-> IF n = 0 THEN {key} ELSE within[n - 1] \cup Heads(records, within[n - 1])]

PathKeys(records, key) ==
    LET within == CHOOSE within : Spreads(records, key, within)
    IN within[MaxResources]

LEMMA KeysAlongPaths == \A key : KeysFrom(key) = PathKeys(published, key)
BY DEF KeysFrom, PathKeys, Spreads, Heads

LEMMA KeysAlongPathsAfter == \A key : KeysFrom(key)' = PathKeys(published', key)
BY DEF KeysFrom, PathKeys, Spreads, Heads

\* The iteration has a result.
LEMMA SpreadsExists ==
    ASSUME NEW records, NEW key
    PROVE  \E within : Spreads(records, key, within)
<1> DEFINE U == {key} \cup Heads(records, {records[s].key : s \in DOMAIN records})
           F == [keys \in SUBSET U |-> keys \cup Heads(records, keys)]
<1>1. F \in [SUBSET U -> SUBSET U]
  <2>1. ASSUME NEW keys PROVE Heads(records, keys) \subseteq U
    BY DEF Heads
  <2> QED BY <2>1
<1>2. {key} \in SUBSET U
  OBVIOUS
<1>3. MaxResources \in Nat
  BY WriterAssumption
<1> HIDE DEF U
<1>4. PICK w \in [0..MaxResources -> SUBSET U] :
          w[0] = {key} /\ \A n \in 1..MaxResources : w[n] = F[w[n - 1]]
  <2> DEFINE X == SUBSET U
             b == {key}
  <2>1. F \in [X -> X] /\ b \in X
    BY <1>1, <1>2
  <2> HIDE DEF F, X, b
  <2>2. PICK w \in [0..MaxResources -> X] : IteratesOf(F, b, MaxResources, w)
    BY <1>3, <2>1, Iterates
  <2> QED BY <2>2 DEF X, b, IteratesOf
<1>5. ASSUME NEW n \in 1..MaxResources PROVE w[n] = w[n - 1] \cup Heads(records, w[n - 1])
  <2>1. n - 1 \in 0..MaxResources
    BY <1>3
  <2>2. w[n - 1] \in SUBSET U
    BY <2>1
  <2> QED BY <1>4, <2>2
<1> DEFINE v == [n \in 0..MaxResources |-> IF n = 0 THEN {key} ELSE w[n - 1] \cup Heads(records, w[n - 1])]
<1>6. \A n \in 0..MaxResources : w[n] = v[n]
  BY <1>3, <1>4, <1>5
<1>7. w = v
  BY <1>6
<1>8. Spreads(records, key, w)
  BY <1>7 DEF Spreads
<1> QED BY <1>8

\* The numbers of the steps, and what the first and each later one add.
LEMMA SpreadsSteps ==
    ASSUME NEW records, NEW key, NEW within, Spreads(records, key, within)
    PROVE  /\ within[0] = {key}
           /\ \A n \in Nat : n + 1 <= MaxResources => within[n + 1] = within[n] \cup Heads(records, within[n])
<1>1. MaxResources \in Nat
  BY WriterAssumption
<1> DEFINE G(n) == IF n = 0 THEN {key} ELSE within[n - 1] \cup Heads(records, within[n - 1])
<1> HIDE DEF G
<1>2. within = [n \in 0..MaxResources |-> G(n)]
  BY DEF Spreads, G
<1>3. \A n \in 0..MaxResources : within[n] = G(n)
  BY <1>2
<1>4. within[0] = {key}
  <2>1. within[0] = G(0)
    BY <1>1, <1>3
  <2> QED BY <2>1 DEF G
<1>5. ASSUME NEW n \in Nat, n + 1 <= MaxResources
      PROVE  within[n + 1] = within[n] \cup Heads(records, within[n])
  <2>1. within[n + 1] = G(n + 1)
    BY <1>1, <1>3, <1>5
  <2>2. n + 1 # 0 /\ (n + 1) - 1 = n
    OBVIOUS
  <2> QED BY <2>1, <2>2 DEF G
<1> QED BY <1>4, <1>5

\* No step goes beyond a closed set.
LEMMA SpreadsLeast ==
    ASSUME NEW records, NEW key, NEW within, Spreads(records, key, within),
           NEW C, key \in C, Closed(records, C)
    PROVE  \A n \in 0..MaxResources : within[n] \subseteq C
<1>1. MaxResources \in Nat
  BY WriterAssumption
<1> DEFINE T == {n \in Nat : n <= MaxResources => within[n] \subseteq C}
<1>2. 0 \in T
  BY SpreadsSteps
<1>3. ASSUME NEW n \in Nat, n \in T PROVE n + 1 \in T
  <2> SUFFICES ASSUME n + 1 <= MaxResources PROVE within[n + 1] \subseteq C
    OBVIOUS
  <2>1. within[n] \subseteq C
    BY <1>1, <1>3
  <2>2. Heads(records, within[n]) \subseteq C
    BY <2>1 DEF Heads, Closed
  <2>3. within[n + 1] = within[n] \cup Heads(records, within[n])
    BY SpreadsSteps
  <2> QED BY <2>1, <2>2, <2>3
<1>4. Nat \subseteq T
  <2> HIDE DEF T
  <2> QED BY <1>2, <1>3, Upwards
<1> QED BY <1>1, <1>4

\* A step that adds no source of an edge ends the iteration, and there are no more sources than
\* slots: the last step is closed.
LEMMA SpreadsCloses ==
    ASSUME NEW records, DOMAIN records \subseteq Slots, NEW key, NEW within, Spreads(records, key, within)
    PROVE  key \in within[MaxResources] /\ Closed(records, within[MaxResources])
<1> DEFINE Sources(n) == {s \in DOMAIN records : records[s].key \in within[n]}
           Done(n) == Closed(records, within[n]) \/ Cardinality(Sources(n)) > n
           T == {n \in Nat : n <= MaxResources => key \in within[n] /\ Done(n)}
<1>1. MaxResources \in Nat
  BY WriterAssumption
<1>2. IsFiniteSet(Slots) /\ Cardinality(Slots) = MaxResources
  <2>1. IsFiniteSet(0..(MaxResources - 1)) /\ Cardinality(0..(MaxResources - 1)) = MaxResources
    BY <1>1, FS_Interval, WriterAssumption
  <2> QED BY <2>1 DEF Slots
<1>3. ASSUME NEW n PROVE IsFiniteSet(Sources(n)) /\ Cardinality(Sources(n)) \in Nat
                         /\ Cardinality(Sources(n)) <= MaxResources
  <2>1. Sources(n) \subseteq Slots
    OBVIOUS
  <2> QED BY <1>2, <2>1, FS_Subset, FS_CardinalityType
<1>4. 0 \in T
  <2>1. within[0] = {key}
    BY SpreadsSteps
  <2>2. CASE Sources(0) = {}
    BY <2>1, <2>2 DEF Closed
  <2>3. CASE Sources(0) # {}
    <3>1. Cardinality(Sources(0)) # 0
      BY <2>3, <1>3, FS_EmptySet
    <3>2. Cardinality(Sources(0)) > 0
      BY <3>1, <1>3
    <3> QED BY <2>1, <3>2
  <2> QED BY <2>2, <2>3
<1>5. ASSUME NEW n \in Nat, n \in T PROVE n + 1 \in T
  <2> SUFFICES ASSUME n + 1 <= MaxResources PROVE key \in within[n + 1] /\ Done(n + 1)
    OBVIOUS
  <2>1. key \in within[n] /\ Done(n)
    BY <1>1, <1>5
  <2>2. within[n + 1] = within[n] \cup Heads(records, within[n])
    BY SpreadsSteps
  <2>3. Sources(n) \subseteq Sources(n + 1)
    BY <2>2
  <2>4. CASE Sources(n) = Sources(n + 1)
    <3>1. ASSUME NEW s \in DOMAIN records, records[s].key \in within[n + 1]
          PROVE  Targets(records[s].deps) \subseteq within[n + 1]
      <4>1. s \in Sources(n)
        BY <2>4, <3>1
      <4> QED BY <2>2, <4>1 DEF Heads
    <3>2. Closed(records, within[n + 1])
      BY <3>1 DEF Closed
    <3> QED BY <2>1, <2>2, <3>2
  <2>5. CASE Sources(n) # Sources(n + 1)
    <3>1. ~Closed(records, within[n])
      <4> SUFFICES ASSUME Closed(records, within[n]) PROVE FALSE
        OBVIOUS
      <4>1. Heads(records, within[n]) \subseteq within[n]
        BY DEF Heads, Closed
      <4>2. within[n + 1] = within[n]
        BY <2>2, <4>1
      <4> QED BY <2>5, <4>2
    <3>2. Cardinality(Sources(n)) > n
      BY <2>1, <3>1
    <3>3. Cardinality(Sources(n)) < Cardinality(Sources(n + 1))
      <4> HIDE DEF Sources
      <4>1. Cardinality(Sources(n)) <= Cardinality(Sources(n + 1))
        BY <1>3, <2>3, FS_Subset
      <4>2. Cardinality(Sources(n)) # Cardinality(Sources(n + 1))
        BY <1>3, <2>3, <2>5, FS_Subset
      <4> QED BY <1>3, <4>1, <4>2
    <3>4. Cardinality(Sources(n + 1)) > n + 1
      <4> HIDE DEF Sources
      <4> QED BY <1>3, <3>2, <3>3
    <3> QED BY <2>1, <2>2, <3>4
  <2> QED BY <2>4, <2>5
<1>6. Nat \subseteq T
  <2> HIDE DEF T
  <2> QED BY <1>4, <1>5, Upwards
<1>7. key \in within[MaxResources] /\ Done(MaxResources)
  BY <1>1, <1>6
<1>8. ~(Cardinality(Sources(MaxResources)) > MaxResources)
  <2> HIDE DEF Sources
  <2> QED BY <1>1, <1>3
<1> QED BY <1>7, <1>8

LEMMA PathKeysLeastClosed ==
    ASSUME NEW records, DOMAIN records \subseteq Slots, NEW key
    PROVE  /\ key \in PathKeys(records, key)
           /\ Closed(records, PathKeys(records, key))
           /\ \A C : key \in C /\ Closed(records, C) => PathKeys(records, key) \subseteq C
<1> DEFINE W == CHOOSE within : Spreads(records, key, within)
<1>1. Spreads(records, key, W)
  BY SpreadsExists
<1>2. PathKeys(records, key) = W[MaxResources]
  BY DEF PathKeys
<1> HIDE DEF W
<1>3. MaxResources \in 0..MaxResources
  BY WriterAssumption
<1> QED BY <1>1, <1>2, <1>3, SpreadsCloses, SpreadsLeast

-----------------------------------------------------------------------------
(* A record that is put into a slot or taken from it                        *)

LEMMA PutIn ==
    ASSUME NEW f, NEW s, NEW r
    PROVE  /\ DOMAIN With(f, s, r) = DOMAIN f \cup {s}
           /\ With(f, s, r)[s] = r
           /\ \A x \in DOMAIN f : x # s => With(f, s, r)[x] = f[x]
BY DEF With

LEMMA Taken ==
    ASSUME NEW f, NEW S, S \subseteq DOMAIN f
    PROVE  DOMAIN Restrict(f, S) = S /\ \A x \in S : Restrict(f, S)[x] = f[x]
BY DEF Restrict

\* The first free slot is a slot that is free.
LEMMA LowestFreeIsFree ==
    ASSUME NEW numbers \in SUBSET Nat, NEW used, numbers \ used # {}
    PROVE  LowestFree(numbers, used) \in numbers \ used
<1>1. PICK n \in numbers \ used : \A m \in numbers \ used : n <= m
  BY First
<1> QED BY <1>1 DEF LowestFree

Acyclic(records) ==
    \A s \in DOMAIN records : \A target \in Targets(records[s].deps) :
        records[s].key \notin PathKeys(records, target)

LEMMA AcyclicIsAcyclic == DependenciesAcyclic <=> Acyclic(published)
BY KeysAlongPaths DEF DependenciesAcyclic, Acyclic

LEMMA AcyclicIsAcyclicAfter == DependenciesAcyclic' <=> Acyclic(published')
BY KeysAlongPathsAfter DEF DependenciesAcyclic, Acyclic

\* A record whose key is on no path from its dependencies closes no cycle.  A path that goes
\* through it leads on from one of its dependencies; were there a cycle over it, its key would
\* have been on the path from that dependency before.
LEMMA AcyclicPut ==
    ASSUME NEW records, DOMAIN records \subseteq Slots, Acyclic(records), NEW s \in Slots, NEW r,
           \A target \in Targets(r.deps) : r.key \notin PathKeys(records, target)
    PROVE  Acyclic(With(records, s, r))
<1> DEFINE after == With(records, s, r)
           KF(x) == PathKeys(records, x)
           Behind == UNION {KF(d) : d \in Targets(r.deps)}
<1>1. /\ DOMAIN after = DOMAIN records \cup {s} /\ after[s] = r
      /\ \A x \in DOMAIN records : x # s => after[x] = records[x]
  BY DEF With
<1>2. DOMAIN after \subseteq Slots
  BY <1>1
<1> HIDE DEF after
<1>3. ASSUME NEW x
      PROVE  /\ x \in KF(x) /\ Closed(records, KF(x))
             /\ \A C : x \in C /\ Closed(records, C) => KF(x) \subseteq C
  BY PathKeysLeastClosed
<1>4. ASSUME NEW x
      PROVE  \A C : x \in C /\ Closed(after, C) => PathKeys(after, x) \subseteq C
  BY <1>2, PathKeysLeastClosed
<1> HIDE DEF KF
<1>5. ASSUME NEW d \in Targets(r.deps) PROVE PathKeys(after, d) \subseteq KF(d)
  <2>1. r.key \notin KF(d)
    BY DEF KF
  <2>2. Closed(after, KF(d))
    BY <1>1, <1>3, <2>1 DEF Closed
  <2> QED BY <1>3, <1>4, <2>2
<1>6. ASSUME NEW x PROVE PathKeys(after, x) \subseteq KF(x) \cup Behind
  <2> DEFINE C == KF(x) \cup Behind
  <2>1. ASSUME NEW e \in DOMAIN after, after[e].key \in C
        PROVE  Targets(after[e].deps) \subseteq C
    <3>1. CASE e = s
      BY <1>1, <1>3, <3>1
    <3>2. CASE e # s
      <4>1. e \in DOMAIN records /\ after[e] = records[e]
        BY <1>1, <3>2
      <4>2. CASE records[e].key \in KF(x)
        BY <1>3, <4>1, <4>2 DEF Closed
      <4>3. CASE records[e].key \in Behind
        <5>1. PICK d \in Targets(r.deps) : records[e].key \in KF(d)
          BY <4>3
        <5>2. Targets(records[e].deps) \subseteq KF(d)
          BY <1>3, <4>1, <5>1 DEF Closed
        <5> QED BY <4>1, <5>2
      <4> QED BY <2>1, <4>1, <4>2, <4>3
    <3> QED BY <3>1, <3>2
  <2>2. Closed(after, C)
    <3> HIDE DEF C
    <3> QED BY <2>1 DEF Closed
  <2>3. x \in C
    BY <1>3
  <2> HIDE DEF C
  <2>4. PathKeys(after, x) \subseteq C
    BY <1>4, <2>2, <2>3
  <2> QED BY <2>4 DEF C
<1>7. ASSUME NEW e \in DOMAIN after, NEW target \in Targets(after[e].deps)
      PROVE  after[e].key \notin PathKeys(after, target)
  <2>1. CASE e = s
    <3>1. r.key \notin KF(target)
      BY <1>1, <1>7, <2>1 DEF KF
    <3> QED BY <1>1, <1>5, <1>7, <2>1, <3>1
  <2>2. CASE e # s
    <3>1. e \in DOMAIN records /\ after[e] = records[e]
      BY <1>1, <2>2
    <3>2. target \in Targets(records[e].deps) /\ records[e].key \notin KF(target)
      BY <1>7, <3>1 DEF Acyclic, KF
    <3>3. CASE records[e].key \in PathKeys(after, target)
      <4>1. PICK d \in Targets(r.deps) : records[e].key \in KF(d)
        BY <1>6, <3>2, <3>3
      <4>2. target \in KF(d)
        BY <1>3, <3>1, <3>2, <4>1 DEF Closed
      <4>3. KF(target) \subseteq KF(d)
        BY <1>3, <4>2
      <4>4. r.key \notin KF(target)
        BY <4>3 DEF KF
      <4>5. Closed(after, KF(target))
        BY <1>1, <1>3, <4>4 DEF Closed
      <4>6. PathKeys(after, target) \subseteq KF(target)
        BY <1>3, <1>4, <4>5
      <4> QED BY <3>2, <3>3, <4>6
    <3> QED BY <3>1, <3>3
  <2> QED BY <2>1, <2>2
<1> QED BY <1>7 DEF Acyclic, after

\* Fewer records, fewer paths.
LEMMA AcyclicTaken ==
    ASSUME NEW records, DOMAIN records \subseteq Slots, Acyclic(records), NEW S, S \subseteq DOMAIN records
    PROVE  Acyclic(Restrict(records, S))
<1> DEFINE after == Restrict(records, S)
<1>1. DOMAIN after = S /\ \A x \in S : after[x] = records[x]
  BY Taken
<1> HIDE DEF after
<1>2. ASSUME NEW x PROVE PathKeys(after, x) \subseteq PathKeys(records, x)
  <2>1. x \in PathKeys(records, x) /\ Closed(records, PathKeys(records, x))
    BY PathKeysLeastClosed
  <2>2. Closed(after, PathKeys(records, x))
    BY <1>1, <2>1 DEF Closed
  <2>3. DOMAIN after \subseteq Slots
    BY <1>1
  <2> QED BY <2>1, <2>2, <2>3, PathKeysLeastClosed
<1>3. Acyclic(after)
  BY <1>1, <1>2 DEF Acyclic
<1> QED BY <1>3 DEF after

-----------------------------------------------------------------------------
(* No resource depends on itself                                            *)

Whole(r) == r = [slot |-> r.slot, key |-> r.key, kind |-> r.kind, gen |-> r.gen, rev |-> r.rev,
                 state |-> r.state, deps |-> r.deps, chunks |-> r.chunks]

\* A record says in which slot it is.
RecordsInv ==
    /\ DOMAIN published \subseteq Slots
    /\ \A s \in DOMAIN published : Whole(published[s]) /\ published[s].slot = s
    /\ DependenciesAcyclic

LEMMA SlotsAreNaturals == Slots \subseteq Nat /\ IsFiniteSet(Slots)
<1>1. MaxResources \in Nat \ {0}
  BY WriterAssumption
<1> QED BY <1>1, FS_Interval DEF Slots

LEMMA RecordsStart == LoadInit => RecordsInv
BY DEF LoadInit, WriterInit, RecordsInv, DependenciesAcyclic

LEMMA RecordsUntouched ==
    ASSUME RecordsInv, UNCHANGED published
    PROVE  RecordsInv'
<1>1. Acyclic(published')
  BY AcyclicIsAcyclic DEF RecordsInv
<1> QED BY <1>1, AcyclicIsAcyclicAfter DEF RecordsInv

LEMMA RecordsPublish ==
    ASSUME RecordsInv, NEW record, Whole(record), record.slot \in Slots, NEW reverse, NEW sequences,
           \A target \in Targets(record.deps) : record.key \notin PathKeys(published, target),
           PublishRecord(record, reverse, sequences)
    PROVE  RecordsInv'
<1> DEFINE s == record.slot
<1>1. published' = With(published, s, record)
  BY DEF PublishRecord
<1>2. DOMAIN published \subseteq Slots /\ Acyclic(published)
  BY AcyclicIsAcyclic DEF RecordsInv
<1>3. DependenciesAcyclic'
  <2>1. Acyclic(With(published, s, record))
    BY <1>2, AcyclicPut
  <2> QED BY <1>1, <2>1, AcyclicIsAcyclicAfter
<1>4. DOMAIN published' = DOMAIN published \cup {s}
  BY <1>1 DEF With
<1>5. ASSUME NEW x \in DOMAIN published' PROVE Whole(published'[x]) /\ published'[x].slot = x
  <2>1. CASE x = s
    BY <1>1, <1>4, <2>1 DEF With
  <2>2. CASE x # s
    <3>1. x \in DOMAIN published /\ published'[x] = published[x]
      BY <1>1, <1>4, <2>2 DEF With
    <3> QED BY <3>1 DEF RecordsInv
  <2> QED BY <2>1, <2>2
<1> QED BY <1>2, <1>3, <1>4, <1>5 DEF RecordsInv

LEMMA RecordsRetire ==
    ASSUME RecordsInv, NEW s, Retire(s)
    PROVE  RecordsInv'
<1> DEFINE S == DOMAIN published \ {s}
<1>1. published' = Restrict(published, S)
  BY DEF Retire
<1>2. DOMAIN published \subseteq Slots /\ Acyclic(published)
  BY AcyclicIsAcyclic DEF RecordsInv
<1>3. DependenciesAcyclic'
  <2>1. Acyclic(Restrict(published, S))
    BY <1>2, AcyclicTaken
  <2> QED BY <1>1, <2>1, AcyclicIsAcyclicAfter
<1>4. DOMAIN published' = S /\ \A x \in S : published'[x] = published[x]
  BY <1>1, Taken
<1> QED BY <1>2, <1>3, <1>4 DEF RecordsInv

\* The slot of a publication that is admitted.
LEMMA SlotForIsSlot ==
    ASSUME RecordsInv, NEW key, Known(key) \/ EmptySlots # {}
    PROVE  /\ SlotFor(key) \in Slots
           /\ Known(key) => SlotFor(key) \in DOMAIN published /\ published[SlotFor(key)].key = key
           /\ ~Known(key) => SlotFor(key) \notin DOMAIN published
<1>1. CASE Known(key)
  <2>1. SlotOf(key) \in DOMAIN published /\ published[SlotOf(key)].key = key
    BY <1>1 DEF Known, SlotOf
  <2> QED BY <1>1, <2>1 DEF SlotFor, RecordsInv
<1>2. CASE ~Known(key)
  <2>1. LowestFree(Slots, DOMAIN published) \in Slots \ DOMAIN published
    BY <1>2, SlotsAreNaturals, LowestFreeIsFree DEF EmptySlots
  <2> QED BY <1>2, <2>1 DEF SlotFor
<1> QED BY <1>1, <1>2

LEMMA RecordIsWhole == \A publication, chunks : Whole(Record(publication, chunks))
BY DEF Whole, Record

LEMMA RecordsCommit ==
    ASSUME RecordsInv, NEW publication, NEW prepared, Admitted(publication), Commit(publication, prepared)
    PROVE  RecordsInv'
<1> DEFINE record == Record(publication, prepared.chunks)
           reverse == [edges EXCEPT ![record.slot] = [i \in DOMAIN record.deps |-> record.deps[i].target]]
           sequences == [invalidation EXCEPT ![record.slot] = 0]
<1>1. PublishRecord(record, reverse, sequences)
  BY DEF Commit
<1>2. Whole(record)
  BY RecordIsWhole
<1>3. record.slot = SlotFor(publication.key) /\ record.key = publication.key /\ record.deps = publication.deps
  BY DEF Record
<1>4. record.slot \in Slots
  BY <1>3, SlotForIsSlot DEF Admitted
<1>5. ASSUME NEW target \in Targets(record.deps) PROVE record.key \notin PathKeys(published, target)
  <2>1. PICK i \in DOMAIN publication.deps : target = publication.deps[i].target
    BY <1>3, <1>5 DEF Targets
  <2>2. publication.key \notin KeysFrom(target)
    BY <2>1 DEF Admitted, ValidDependencies, ReachesKey
  <2> QED BY <1>3, <2>2, KeysAlongPaths
<1> HIDE DEF record, reverse, sequences
<1> QED BY <1>1, <1>2, <1>4, <1>5, RecordsPublish

LEMMA RecordsRequest ==
    ASSUME RecordsInv, NEW key, Request(key)
    PROVE  RecordsInv'
<1> DEFINE s == LowestFree(Slots, DOMAIN published)
           record == [slot |-> s, key |-> key, kind |-> "none", gen |-> nextGeneration[s], rev |-> 0,
                      state |-> "REQUESTED", deps |-> <<>>, chunks |-> <<>>]
           sequences == [invalidation EXCEPT ![s] = 0]
<1>1. PublishRecord(record, edges, sequences)
  BY DEF Request
<1>2. s \in Slots
  BY SlotsAreNaturals, LowestFreeIsFree DEF EmptySlots, Request
<1>3. Whole(record) /\ record.slot \in Slots /\ record.deps = <<>>
  BY <1>2 DEF Whole
<1>4. Targets(<<>>) = {}
  BY DEF Targets
<1> HIDE DEF record, sequences
<1> QED BY <1>1, <1>3, <1>4, RecordsPublish

\* The record that replaces another.
LEMMA Replacement ==
    ASSUME NEW r, Whole(r), NEW state, NEW chunks
    PROVE  [r EXCEPT !.rev = @ + 1, !.state = state, !.chunks = chunks] =
               [slot |-> r.slot, key |-> r.key, kind |-> r.kind, gen |-> r.gen, rev |-> r.rev + 1,
                state |-> state, deps |-> r.deps, chunks |-> chunks]
<1>1. ASSUME NEW slot, NEW key, NEW kind, NEW gen, NEW rev, NEW st, NEW deps, NEW ch,
             r = [slot |-> slot, key |-> key, kind |-> kind, gen |-> gen, rev |-> rev,
                  state |-> st, deps |-> deps, chunks |-> ch]
      PROVE  [r EXCEPT !.rev = @ + 1, !.state = state, !.chunks = chunks] =
                 [slot |-> slot, key |-> key, kind |-> kind, gen |-> gen, rev |-> rev + 1,
                  state |-> state, deps |-> deps, chunks |-> chunks]
  <2> DEFINE x == [r EXCEPT !.rev = @ + 1, !.state = state, !.chunks = chunks]
             y == [slot |-> slot, key |-> key, kind |-> kind, gen |-> gen, rev |-> rev + 1,
                   state |-> state, deps |-> deps, chunks |-> chunks]
             z == [f \in DOMAIN r |-> IF f = "chunks" THEN chunks ELSE IF f = "state" THEN state
                                      ELSE IF f = "rev" THEN r.rev + 1 ELSE r[f]]
  <2>1. DOMAIN r = {"slot", "key", "kind", "gen", "rev", "state", "deps", "chunks"}
    BY <1>1
  <2>2. /\ r.slot = slot /\ r.key = key /\ r.kind = kind /\ r.gen = gen /\ r.rev = rev
        /\ r.deps = deps
    BY <1>1
  <2>3. x = z
    BY <2>1
  <2>4. DOMAIN y = DOMAIN r
    BY <2>1
  <2>5. ASSUME NEW f \in DOMAIN r PROVE z[f] = y[f]
    BY <2>1, <2>2
  <2>6. y = [f \in DOMAIN y |-> y[f]]
    OBVIOUS
  <2> HIDE DEF x, y
  <2> QED BY <2>3, <2>4, <2>5, <2>6 DEF x, y
<1> QED BY <1>1 DEF Whole

LEMMA RecordsReplace ==
    ASSUME RecordsInv, NEW s \in DOMAIN published, NEW chunks, NEW state, Replace(published[s], chunks, state)
    PROVE  RecordsInv'
<1> DEFINE record == [published[s] EXCEPT !.rev = @ + 1, !.state = state, !.chunks = chunks]
<1>1. PublishRecord(record, edges, invalidation)
  BY DEF Replace
<1>2. Whole(published[s]) /\ published[s].slot = s /\ s \in Slots
  BY DEF RecordsInv
<1>3. /\ Whole(record) /\ record.slot = s /\ record.key = published[s].key
      /\ record.deps = published[s].deps
  <2>1. record = [slot |-> published[s].slot, key |-> published[s].key, kind |-> published[s].kind,
                  gen |-> published[s].gen, rev |-> published[s].rev + 1,
                  state |-> state, deps |-> published[s].deps, chunks |-> chunks]
    BY <1>2, Replacement
  <2> HIDE DEF record
  <2> QED BY <1>2, <2>1 DEF Whole
<1>4. Acyclic(published)
  BY AcyclicIsAcyclic DEF RecordsInv
<1>5. \A target \in Targets(record.deps) : record.key \notin PathKeys(published, target)
  BY <1>3, <1>4 DEF Acyclic
<1> HIDE DEF record
<1> QED BY <1>1, <1>2, <1>3, <1>5, RecordsPublish

LEMMA RecordsWriter ==
    ASSUME RecordsInv, WriterNext
    PROVE  RecordsInv'
<1>1. ASSUME NEW key \in Keys, Request(key) PROVE RecordsInv'
  BY <1>1, RecordsRequest
<1>2. ASSUME NEW publication \in Publications, Publish(publication) PROVE RecordsInv'
  BY <1>2, RecordsCommit DEF Publish
<1>3. ASSUME NEW publication \in Publications, PublishFails(publication) PROVE RecordsInv'
  BY <1>3, RecordsUntouched DEF PublishFails, recordVars
<1>4. ASSUME NEW s \in Slots, Retire(s) PROVE RecordsInv'
  BY <1>4, RecordsRetire
<1>5. ASSUME NEW s \in Slots, MarkFailed(s) PROVE RecordsInv'
  BY <1>5, RecordsReplace DEF MarkFailed
<1>6. ASSUME NEW s \in Slots, CompilePlan(s) PROVE RecordsInv'
  BY <1>6, RecordsUntouched DEF CompilePlan, recordVars
<1>7. ASSUME NEW s \in DOMAIN published, NEW i \in DOMAIN published[s].chunks, EvictChunk(s, i)
      PROVE  RecordsInv'
  BY <1>7, RecordsReplace DEF EvictChunk
<1>8. ASSUME NEW record \in retired, Collect(record) PROVE RecordsInv'
  BY <1>8, RecordsUntouched DEF Collect
<1>9. ASSUME NEW data \in Data, Stage(data) PROVE RecordsInv'
  BY <1>9, RecordsUntouched DEF Stage, recordVars
<1>10. ASSUME NEW s \in StagingSlots, Unstage(s) PROVE RecordsInv'
  BY <1>10, RecordsUntouched DEF Unstage, recordVars
<1>11. ASSUME NEW capacity \in 1..MaxEvents, Poll(capacity) PROVE RecordsInv'
  BY <1>11, RecordsUntouched DEF Poll, recordVars
<1>12. ASSUME Rescan PROVE RecordsInv'
  BY <1>12, RecordsUntouched DEF Rescan, recordVars
<1> QED BY <1>1, <1>2, <1>3, <1>4, <1>5, <1>6, <1>7, <1>8, <1>9, <1>10, <1>11, <1>12 DEF WriterNext

LEMMA RecordsStep ==
    ASSUME RecordsInv, [LoadNext]_loadVars
    PROVE  RecordsInv'
<1>1. CASE ClientStep
  BY <1>1, RecordsWriter DEF ClientStep
<1>2. ASSUME NEW request \in Requests, Begin(request) PROVE RecordsInv'
  BY <1>2, RecordsUntouched DEF Begin, recordVars
<1>3. CASE ReadStarts \/ ReadFails \/ TaskGone \/ CancelLoad
  BY <1>3, RecordsUntouched DEF ReadStarts, ReadFails, TaskGone, CancelLoad, writerVars, recordVars
<1>4. ASSUME NEW data \in Data, ReadEnds(data) PROVE RecordsInv'
  BY <1>4, RecordsUntouched DEF ReadEnds, recordVars
<1>5. CASE PollPublishes
  BY <1>5, RecordsCommit DEF PollPublishes, MayPublish
<1>6. CASE PollDiscards
  BY <1>6, RecordsUntouched DEF PollDiscards, recordVars
<1>7. CASE UNCHANGED loadVars
  BY <1>7, RecordsUntouched DEF loadVars, writerVars, recordVars
<1> QED BY <1>1, <1>2, <1>3, <1>4, <1>5, <1>6, <1>7 DEF LoadNext

\* In every state no resource depends on itself: a publication that would close a cycle is refused,
\* over edges to keys that are not there yet as well (validateDependencies, reachesKey).
THEOREM NoDependencyCycle == LoadSpec => []DependenciesAcyclic
<1>1. LoadInit => RecordsInv
  BY RecordsStart
<1>2. RecordsInv /\ [LoadNext]_loadVars => RecordsInv'
  BY RecordsStep
<1>3. RecordsInv => DependenciesAcyclic
  BY DEF RecordsInv
<1> QED BY <1>1, <1>2, <1>3, PTL DEF LoadSpec

-----------------------------------------------------------------------------
(* The ring of the journal                                                  *)

\* A set of naturals that is bounded and not empty has its maximum.
LEMMA Greatest ==
    ASSUME NEW S, S \subseteq Nat, S # {}, NEW k \in Nat, \A x \in S : x <= k
    PROVE  Max(S) \in S /\ \A x \in S : x <= Max(S)
<1> DEFINE P == {n \in Nat : n <= k /\ k - n \in S}
<1>1. P # {}
  <2>1. PICK x \in S : x <= k
    OBVIOUS
  <2>2. k - x \in Nat /\ k - x <= k /\ k - (k - x) = x
    BY <2>1
  <2>3. k - x \in P
    BY <2>1, <2>2
  <2> QED BY <2>3
<1>2. P \in SUBSET Nat
  OBVIOUS
<1> HIDE DEF P
<1>3. PICK n \in P : \A m \in P : n <= m
  BY <1>1, <1>2, First
<1>4. n \in Nat /\ k - n \in S
  BY <1>3 DEF P
<1>5. ASSUME NEW x \in S PROVE k - n >= x
  <2>1. x \in Nat /\ x <= k
    OBVIOUS
  <2>2. k - x \in Nat /\ k - x <= k /\ k - (k - x) = x
    BY <2>1
  <2>3. k - x \in P
    BY <2>2 DEF P
  <2>4. n <= k - x
    BY <1>3, <2>3
  <2> QED BY <1>4, <2>1, <2>4
<1>6. \E m \in S : \A x \in S : m >= x
  BY <1>4, <1>5
<1> QED BY <1>6 DEF Max

\* Two events less than a ring apart have different places.
LEMMA PlacesDiffer ==
    ASSUME NEW a \in Nat, NEW b \in Nat, a < b, b < a + MaxEvents
    PROVE  a % MaxEvents # b % MaxEvents
<1> SUFFICES ASSUME a % MaxEvents = b % MaxEvents PROVE FALSE
  OBVIOUS
<1> DEFINE M == MaxEvents
<1>1. M \in Nat \ {0}
  BY WriterAssumption
<1> HIDE DEF M
<1>2. a = M * (a \div M) + (a % M) /\ a \div M \in Int /\ a % M \in Int
  BY <1>1
<1>3. b = M * (b \div M) + (b % M) /\ b \div M \in Int /\ b % M \in Int
  BY <1>1
<1>4. a % M = b % M
  BY DEF M
<1> DEFINE p == a \div M
           q == b \div M
<1>5. p \in Int /\ q \in Int /\ M * q - M * p = b - a
  BY <1>1, <1>2, <1>3, <1>4
<1>6. 0 < b - a /\ b - a < M
  BY <1>1 DEF M
<1> HIDE DEF p, q
<1>7. M * (q - p) = b - a
  BY <1>1, <1>5
<1>8. CASE q - p <= 0
  <2>1. M * (q - p) <= 0
    BY <1>1, <1>5, <1>8
  <2> QED BY <1>6, <1>7, <2>1
<1>9. CASE q - p >= 1
  <2>1. M * (q - p) >= M
    BY <1>1, <1>5, <1>9
  <2> QED BY <1>1, <1>6, <1>7, <2>1
<1> QED BY <1>5, <1>8, <1>9

\* What a ring holds after the events of a change: those, and what it held and they did not lap.
NumberIn(j, n) == j.events[(n - 1) % MaxEvents]

NotedIn(j, k, L, seq) ==
    /\ k.total = j.total + L
    /\ \A n \in 1..k.total : (n - 1) % MaxEvents \in DOMAIN k.events
    /\ \A n \in 1..j.total : n > k.total - MaxEvents => NumberIn(k, n) = NumberIn(j, n)
    /\ \A i \in 1..L : j.total + i > k.total - MaxEvents => NumberIn(k, j.total + i) = seq[i]

LEMMA Noted ==
    ASSUME NEW j, j.total \in Nat, \A n \in 1..j.total : (n - 1) % MaxEvents \in DOMAIN j.events,
           NEW E, NEW L \in Nat, NEW seq \in [1..L -> E],
           NEW k, k = Note(j, seq)
    PROVE  NotedIn(j, k, L, seq)
<1> DEFINE position(i) == (j.total + i - 1) % MaxEvents
           written == {position(i) : i \in DOMAIN seq}
           at(p) == {i \in DOMAIN seq : position(i) = p}
<1>1. MaxEvents \in Nat \ {0}
  BY WriterAssumption
<1>2. Len(seq) = L /\ DOMAIN seq = 1..L
  OBVIOUS
<1>3. /\ k.total = j.total + L
      /\ DOMAIN k.events = DOMAIN j.events \cup written
      /\ \A p \in DOMAIN k.events : k.events[p] = IF p \in written THEN seq[Max(at(p))] ELSE j.events[p]
  BY <1>2 DEF Note
<1>4. ASSUME NEW n \in 1..k.total PROVE (n - 1) % MaxEvents \in DOMAIN k.events
  <2>1. CASE n <= j.total
    BY <1>3, <2>1
  <2>2. CASE n > j.total
    <3>1. n - j.total \in 1..L /\ j.total + (n - j.total) - 1 = n - 1
      BY <1>3, <2>2
    <3>2. position(n - j.total) \in written
      BY <1>2, <3>1
    <3> QED BY <1>3, <3>1, <3>2
  <2> QED BY <1>3, <2>1, <2>2
<1>5. ASSUME NEW n \in 1..j.total, n > k.total - MaxEvents
      PROVE  k.events[(n - 1) % MaxEvents] = j.events[(n - 1) % MaxEvents]
  <2>1. ASSUME NEW i \in 1..L PROVE position(i) # (n - 1) % MaxEvents
    <3> DEFINE t == j.total
               M == MaxEvents
    <3>1. t \in Nat /\ M \in Nat /\ n \in 1..t /\ n > (t + L) - M
      BY <1>1, <1>3, <1>5
    <3> HIDE DEF t, M
    <3>2. n - 1 \in Nat /\ t + i - 1 \in Nat /\ n - 1 < t + i - 1 /\ t + i - 1 < (n - 1) + M
      BY <3>1
    <3> QED BY <3>2, PlacesDiffer DEF t, M
  <2>2. (n - 1) % MaxEvents \notin written
    BY <1>2, <2>1
  <2> QED BY <1>3, <2>2
<1>6. ASSUME NEW i \in 1..L, j.total + i > k.total - MaxEvents
      PROVE  k.events[position(i)] = seq[i]
  <2>1. ASSUME NEW h \in 1..L, h > i PROVE position(h) # position(i)
    <3>1. /\ j.total + i - 1 \in Nat /\ j.total + h - 1 \in Nat
          /\ j.total + i - 1 < j.total + h - 1 /\ j.total + h - 1 < (j.total + i - 1) + MaxEvents
      BY <1>1, <1>3, <1>6, <2>1
    <3> QED BY <3>1, PlacesDiffer
  <2>2. i \in at(position(i)) /\ at(position(i)) \subseteq 1..L
    BY <1>2
  <2>3. position(i) \in written
    BY <1>2
  <2> HIDE DEF written, position
  <2>4. \A h \in at(position(i)) : h <= i
    BY <2>1, <2>2
  <2> DEFINE S == at(position(i))
  <2>5. i \in S /\ S \subseteq Nat /\ \A h \in S : h <= i
    BY <2>2, <2>4
  <2> HIDE DEF S
  <2>6. Max(S) = i
    <3>1. Max(S) \in S /\ \A h \in S : h <= Max(S)
      BY <2>5, Greatest
    <3>2. Max(S) \in Nat /\ i \in Nat /\ Max(S) <= i /\ i <= Max(S)
      BY <2>5, <3>1
    <3> QED BY <3>2
  <2> QED BY <1>3, <2>3, <2>6 DEF S
<1> QED BY <1>3, <1>4, <1>5, <1>6 DEF NotedIn, NumberIn

-----------------------------------------------------------------------------
(* No client misses an invalidation                                         *)

Latest(s) == [gen |-> published[s].gen, change |-> invalidation[s]]
Says(n) == [gen |-> EventAt(n).gen, change |-> EventAt(n).change]

\* The numbers of the events that are still in the ring, and of those a client has not polled.
Held == {n \in 1..journal.total : n > journal.total - MaxEvents}
Ahead == (reader.cursor + 1)..journal.total

Counted ==
    /\ journal.total \in Nat
    /\ \A n \in 1..journal.total : (n - 1) % MaxEvents \in DOMAIN journal.events
    /\ DOMAIN invalidation = Slots
    /\ reader = [cursor |-> reader.cursor, rescan |-> reader.rescan, noticed |-> reader.noticed]
    /\ reader.cursor \in Nat /\ reader.cursor <= journal.total

\* The last event about a resource that the ring holds is about its latest invalidation.
JournalTrueOf(s) == invalidation[s] > 0 =>
    \A n \in Held : EventAt(n).slot = s /\ (\A m \in Held : m > n => EventAt(m).slot # s) => Says(n) = Latest(s)

\* A client that has not learnt of it yet has an event about it ahead, or knows that it lost some.
ReaderTrueOf(s) == invalidation[s] > 0 =>
    \/ reader.rescan \/ Pending > MaxEvents
    \/ reader.noticed[s] = Latest(s)
    \/ \E n \in Ahead : EventAt(n).slot = s

JournalInv ==
    /\ Counted
    /\ \A s \in DOMAIN published : JournalTrueOf(s) /\ ReaderTrueOf(s)

LEMMA JournalStart == LoadInit => JournalInv
<1> SUFFICES ASSUME LoadInit PROVE JournalInv
  OBVIOUS
<1>1. /\ published = <<>> /\ journal = [events |-> <<>>, total |-> 0]
      /\ reader = [cursor |-> 0, rescan |-> FALSE, noticed |-> [s \in Slots |-> [gen |-> 0, change |-> 0]]]
      /\ invalidation = [s \in Slots |-> 0]
  BY DEF LoadInit, WriterInit
<1>2. Counted
  BY <1>1 DEF Counted
<1> QED BY <1>1, <1>2 DEF JournalInv

LastCounts(noticed, events, k, s) ==
    \E i \in 1..k : /\ events[i].slot = s
                    /\ \A h \in 1..k : h > i => events[h].slot # s
                    /\ Heed(noticed, events)[s] = [gen |-> events[i].gen, change |-> events[i].change]

\* The events a poll hands out: of each resource the last one counts.
LEMMA Heeded ==
    ASSUME NEW noticed, NEW k \in Nat, NEW events, DOMAIN events = 1..k, NEW s \in Slots
    PROVE  /\ (\A i \in 1..k : events[i].slot # s) => Heed(noticed, events)[s] = noticed[s]
           /\ (\E i \in 1..k : events[i].slot = s) =>
                  LastCounts(noticed, events, k, s)
<1> DEFINE S == {i \in DOMAIN events : events[i].slot = s}
           i == Max(S)
<1>1. Heed(noticed, events)[s] = IF S = {} THEN noticed[s]
                                 ELSE [gen |-> events[i].gen, change |-> events[i].change]
  BY DEF Heed
<1>2. S \subseteq 1..k /\ \A h \in 1..k : h \in S <=> events[h].slot = s
  OBVIOUS
<1> HIDE DEF S
<1>3. ASSUME S # {} PROVE i \in S /\ \A h \in S : h <= i
  <2>1. S \subseteq Nat /\ \A h \in S : h <= k
    BY <1>2
  <2> QED BY <1>3, <2>1, Greatest
<1> HIDE DEF i
<1>4. ASSUME S # {}
      PROVE  i \in 1..k /\ events[i].slot = s /\ \A h \in 1..k : h > i => events[h].slot # s
  <2>1. i \in 1..k /\ events[i].slot = s
    BY <1>2, <1>3, <1>4
  <2>2. ASSUME NEW h \in 1..k, h > i, events[h].slot = s PROVE FALSE
    <3>1. h <= i
      BY <1>2, <1>3, <1>4, <2>2
    <3> QED BY <2>1, <2>2, <3>1
  <2> QED BY <2>1, <2>2
<1> QED BY <1>1, <1>2, <1>4 DEF LastCounts

\* What invalidateReverseDependents leaves: an event for each record that is affected.
Marks(records, sequences, affected, L, seq) ==
    /\ invalidation' = [s \in Slots |-> IF s \in affected THEN change + 1 ELSE sequences[s]]
    /\ journal' = Note(journal, seq)
    /\ \A i \in 1..L : /\ seq[i].slot \in affected \cap DOMAIN records
                       /\ seq[i].gen = records[seq[i].slot].gen
                       /\ seq[i].change = change + 1
    /\ \A s \in affected \cap DOMAIN records : \E i \in 1..L : seq[i].slot = s

LEMMA Invalidated ==
    ASSUME NEW key, NEW records, DOMAIN records \subseteq Slots, NEW reverse, NEW sequences,
           Invalidate(key, records, reverse, sequences)
    PROVE  \E affected \in SUBSET Slots, L \in Nat : \E E : \E seq \in [1..L -> E] :
               Marks(records, sequences, affected, L, seq)
<1> DEFINE affected == Affected(key, records, reverse)
           D == affected \cap DOMAIN records
           Event(s) == [key |-> key, slot |-> s, gen |-> records[s].gen, change |-> change + 1]
           events == [s \in D |-> Event(s)]
           E == Range(events)
           L == Cardinality(E)
           seq == SetToSeq(E)
<1>1. affected \in SUBSET Slots
  BY DEF Affected
<1>2. invalidation' = [s \in Slots |-> IF s \in affected THEN change + 1 ELSE sequences[s]]
      /\ journal' = Note(journal, seq)
  BY DEF Invalidate
<1>3. E = {Event(s) : s \in D}
  BY DEF Range
<1>4. IsFiniteSet(E)
  <2>1. IsFiniteSet(D)
    <3>1. D \subseteq Slots
      OBVIOUS
    <3> QED BY <3>1, SlotsAreNaturals, FS_Subset
  <2>2. events \in Surjection(D, E)
    BY <1>3 DEF Surjection
  <2> HIDE DEF D, E, events
  <2> QED BY <2>1, <2>2, FS_Surjection
<1>5. L \in Nat /\ seq \in [1..L -> E] /\ \A e \in E : \E i \in 1..L : seq[i] = e
  <2> HIDE DEF E
  <2>1. L \in Nat /\ ExistsBijection(1..L, E)
    BY <1>4, FS_CardinalityType
  <2>2. \E f \in [1..L -> E] : IsInjective(f)
    BY <2>1 DEF ExistsBijection, Bijection, Injection
  <2>3. seq \in [1..L -> E] /\ IsInjective(seq)
    BY <2>2 DEF SetToSeq
  <2>4. seq \in Injection(1..L, E)
    BY <2>3 DEF Injection
  <2> DEFINE N == 1..L
  <2>5. IsFiniteSet(N) /\ Cardinality(N) = L
    BY <2>1, FS_Interval
  <2> HIDE DEF seq
  <2>6. seq \in Surjection(N, E)
    <3> HIDE DEF N
    <3>1. seq \in Injection(N, E)
      BY <2>4 DEF N
    <3> QED BY <1>4, <2>5, <3>1, FS_Injection
  <2> QED BY <2>1, <2>3, <2>6 DEF Surjection
<1> HIDE DEF seq, L, affected
<1>6. ASSUME NEW i \in 1..L
      PROVE  seq[i].slot \in D /\ seq[i].gen = records[seq[i].slot].gen /\ seq[i].change = change + 1
  <2>1. PICK s \in D : seq[i] = Event(s)
    BY <1>3, <1>5
  <2> QED BY <2>1
<1>7. ASSUME NEW s \in D PROVE \E i \in 1..L : seq[i].slot = s
  <2>1. Event(s) \in E
    BY <1>3
  <2>2. PICK i \in 1..L : seq[i] = Event(s)
    BY <1>5, <2>1
  <2> QED BY <2>2
<1>8. Marks(records, sequences, affected, L, seq)
  BY <1>2, <1>6, <1>7 DEF Marks
<1> HIDE DEF E
<1> QED BY <1>1, <1>5, <1>8

\* A change keeps the invariant when the records that keep an old mark keep their generation.
LEMMA JournalChange ==
    ASSUME JournalInv, NEW key, NEW records, records = published', DOMAIN records \subseteq Slots,
           NEW reverse, NEW sequences, Invalidate(key, records, reverse, sequences), UNCHANGED reader,
           \A s \in DOMAIN records : sequences[s] > 0 =>
               s \in DOMAIN published /\ sequences[s] = invalidation[s] /\ records[s].gen = published[s].gen
    PROVE  JournalInv'
<1>1. PICK affected \in SUBSET Slots, L \in Nat : \E E : \E seq \in [1..L -> E] :
          Marks(records, sequences, affected, L, seq)
  BY Invalidated
<1>2. PICK E : \E seq \in [1..L -> E] : Marks(records, sequences, affected, L, seq)
  BY <1>1
<1>20. PICK seq \in [1..L -> E] : Marks(records, sequences, affected, L, seq)
  BY <1>2
<1> DEFINE t == journal.total
           T == t + L
           M == MaxEvents
           c == reader.cursor
           At(n) == NumberIn(journal', n)
<1>3. /\ t \in Nat /\ M \in Nat \ {0} /\ c \in Nat /\ c <= t /\ T \in Nat /\ T >= t
      /\ \A n \in 1..t : (n - 1) % MaxEvents \in DOMAIN journal.events
  BY WriterAssumption DEF JournalInv, Counted
<1>4. /\ journal'.total = T
      /\ \A n \in 1..T : (n - 1) % MaxEvents \in DOMAIN journal'.events
      /\ \A n \in 1..t : n > T - M => At(n) = EventAt(n)
      /\ \A i \in 1..L : t + i > T - M => At(t + i) = seq[i]
  <2>1. journal' = Note(journal, seq)
    BY <1>20 DEF Marks
  <2>2. NotedIn(journal, journal', L, seq)
    BY <1>3, <2>1, Noted
  <2>3. journal'.total = T
    BY <2>2 DEF NotedIn
  <2>4. \A n \in 1..T : (n - 1) % MaxEvents \in DOMAIN journal'.events
    BY <2>2, <2>3 DEF NotedIn
  <2>5. \A n \in 1..t : n > T - M => At(n) = EventAt(n)
    BY <2>2, <2>3 DEF NotedIn, EventAt, NumberIn
  <2>6. ASSUME NEW i \in 1..L, t + i > T - M PROVE At(t + i) = seq[i]
    <3> HIDE DEF T
    <3>1. journal.total + i > journal'.total - MaxEvents
      BY <2>3, <2>6
    <3>2. NumberIn(journal', journal.total + i) = seq[i]
      BY <2>2, <3>1 DEF NotedIn
    <3> QED BY <3>2
  <2> QED BY <2>3, <2>4, <2>5, <2>6
<1>5. /\ invalidation' = [s \in Slots |-> IF s \in affected THEN change + 1 ELSE sequences[s]]
      /\ \A i \in 1..L : /\ seq[i].slot \in affected \cap DOMAIN records
                         /\ seq[i].gen = records[seq[i].slot].gen
                         /\ seq[i].change = change + 1
      /\ \A s \in affected \cap DOMAIN records : \E i \in 1..L : seq[i].slot = s
  BY <1>20 DEF Marks
<1> HIDE DEF t, T, M, c, At
<1>6. Counted'
  <2>1. journal'.total \in Nat /\ \A n \in 1..journal'.total : (n - 1) % MaxEvents \in DOMAIN journal'.events
    BY <1>3, <1>4
  <2>2. DOMAIN invalidation' = Slots
    BY <1>5
  <2>3. reader' = [cursor |-> reader'.cursor, rescan |-> reader'.rescan, noticed |-> reader'.noticed]
        /\ reader'.cursor \in Nat
    BY DEF JournalInv, Counted
  <2>4. reader'.cursor <= journal'.total
    BY <1>3, <1>4 DEF c
  <2> QED BY <2>1, <2>2, <2>3, <2>4 DEF Counted
<1>7. Held' = {n \in 1..T : n > T - M} /\ Held = {n \in 1..t : n > t - M}
  BY <1>4 DEF Held, t, M
<1>8. Ahead' = (c + 1)..T /\ Ahead = (c + 1)..t
  BY <1>4 DEF Ahead, t, c
<1>9. Pending' = T - c /\ Pending = t - c
  BY <1>4 DEF Pending, t, c
<1>10. \A n : EventAt(n)' = At(n)
  BY DEF EventAt, At, NumberIn
<1>11. ASSUME NEW s \in DOMAIN published', invalidation'[s] > 0 , s \in affected
       PROVE  /\ \A n \in Held' : At(n).slot = s /\ (\A m \in Held' : m > n => At(m).slot # s) =>
                     [gen |-> At(n).gen, change |-> At(n).change] = Latest(s)'
              /\ Pending' > M \/ \E n \in Ahead' : At(n).slot = s
  <2>1. PICK i \in 1..L : seq[i].slot = s
    BY <1>5, <1>11
  <2>2. Latest(s)' = [gen |-> records[s].gen, change |-> change + 1]
    BY <1>5, <1>11 DEF Latest
  <2>3. t + i \in (c + 1)..T /\ t + i \in 1..T
    BY <1>3 DEF T
  <2>4. ASSUME NEW n \in Held', At(n).slot = s, \A m \in Held' : m > n => At(m).slot # s
        PROVE  [gen |-> At(n).gen, change |-> At(n).change] = Latest(s)'
    <3>1. n \in 1..T /\ n > T - M
      BY <1>7
    <3>2. CASE n > t
      <4>1. n - t \in 1..L /\ t + (n - t) = n
        BY <1>3, <3>1, <3>2 DEF T
      <4>2. At(n) = seq[n - t]
        BY <1>4, <3>1, <4>1
      <4> QED BY <1>5, <2>2, <2>4, <4>1, <4>2
    <3>3. CASE n <= t
      <4>1. t + i > n /\ t + i > T - M
        BY <1>3, <3>1, <3>3 DEF T
      <4>2. t + i \in Held'
        BY <1>7, <2>3, <4>1
      <4>3. At(t + i) = seq[i]
        BY <1>4, <4>1
      <4> QED BY <2>1, <2>4, <4>1, <4>2, <4>3
    <3> QED BY <1>3, <3>1, <3>2, <3>3
  <2>5. CASE t + i > T - M
    <3>1. At(t + i).slot = s
      BY <1>4, <2>1, <2>5
    <3> QED BY <1>8, <2>3, <2>4, <3>1
  <2>6. CASE ~(t + i > T - M)
    <3>1. T - c > M
      BY <1>3, <2>6
    <3> QED BY <1>9, <2>4, <3>1
  <2> QED BY <2>5, <2>6
<1>12. ASSUME NEW s \in DOMAIN published', invalidation'[s] > 0 , s \notin affected
       PROVE  /\ s \in DOMAIN published /\ invalidation[s] > 0 /\ Latest(s)' = Latest(s)
              /\ \A i \in 1..L : seq[i].slot # s
  <2>1. s \in Slots
    BY <1>12
  <2>2. invalidation'[s] = sequences[s]
    BY <1>5, <1>12, <2>1
  <2>3. s \in DOMAIN published /\ sequences[s] = invalidation[s] /\ records[s].gen = published[s].gen
    BY <1>12, <2>2
  <2> QED BY <1>5, <1>12, <2>2, <2>3 DEF Latest
<1>13. ASSUME NEW s \in DOMAIN published' PROVE JournalTrueOf(s)'
  <2> SUFFICES ASSUME invalidation'[s] > 0, NEW n \in Held', At(n).slot = s,
                      \A m \in Held' : m > n => At(m).slot # s
               PROVE  [gen |-> At(n).gen, change |-> At(n).change] = Latest(s)'
    BY <1>10 DEF JournalTrueOf, Says
  <2>1. CASE s \in affected
    BY <1>11, <2>1
  <2>2. CASE s \notin affected
    <3>1. /\ s \in DOMAIN published /\ invalidation[s] > 0 /\ Latest(s)' = Latest(s)
          /\ \A i \in 1..L : seq[i].slot # s
      BY <1>12, <2>2
    <3>2. n \in 1..T /\ n > T - M
      BY <1>7
    <3>3. n <= t
      <4> SUFFICES ASSUME n > t PROVE FALSE
        BY <1>3, <3>2
      <4>1. n - t \in 1..L /\ t + (n - t) = n
        BY <1>3, <3>2 DEF T
      <4>2. At(n) = seq[n - t]
        BY <1>4, <3>2, <4>1
      <4> QED BY <3>1, <4>1, <4>2
    <3>4. n \in Held /\ At(n) = EventAt(n)
      <4>1. n \in 1..t /\ n > t - M
        BY <1>3, <3>2, <3>3
      <4> QED BY <1>4, <1>7, <3>2, <4>1
    <3>5. ASSUME NEW m \in Held, m > n PROVE EventAt(m).slot # s
      <4>1. m \in 1..t /\ m \in 1..T /\ m > T - M
        BY <1>3, <1>7, <3>2, <3>5
      <4>2. m \in Held' /\ At(m) = EventAt(m)
        BY <1>4, <1>7, <4>1
      <4> QED BY <3>5, <4>2
    <3>6. Says(n) = Latest(s)
      BY <3>1, <3>4, <3>5 DEF JournalInv, JournalTrueOf
    <3> QED BY <3>1, <3>4, <3>6 DEF Says
  <2> QED BY <2>1, <2>2
<1>14. ASSUME NEW s \in DOMAIN published' PROVE ReaderTrueOf(s)'
  <2> SUFFICES ASSUME invalidation'[s] > 0
               PROVE  \/ reader'.rescan \/ Pending' > M
                      \/ reader'.noticed[s] = Latest(s)'
                      \/ \E n \in Ahead' : At(n).slot = s
    BY <1>10 DEF ReaderTrueOf, M
  <2>1. CASE s \in affected
    BY <1>11, <2>1
  <2>2. CASE s \notin affected
    <3>1. s \in DOMAIN published /\ invalidation[s] > 0 /\ Latest(s)' = Latest(s)
      BY <1>12, <2>2
    <3>2. \/ reader.rescan \/ Pending > M
          \/ reader.noticed[s] = Latest(s)
          \/ \E n \in Ahead : EventAt(n).slot = s
      BY <3>1 DEF JournalInv, ReaderTrueOf, M
    <3>3. CASE reader.rescan \/ reader.noticed[s] = Latest(s)
      BY <3>1, <3>3
    <3>4. CASE Pending > M
      BY <1>3, <1>9, <3>4
    <3>5. ASSUME NEW n \in Ahead, EventAt(n).slot = s
          PROVE  Pending' > M \/ \E m \in Ahead' : At(m).slot = s
      <4>1. n \in 1..t /\ n \in (c + 1)..T
        BY <1>3, <1>8
      <4>2. CASE n > T - M
        <5>1. At(n) = EventAt(n)
          BY <1>4, <4>1, <4>2
        <5> QED BY <1>8, <3>5, <4>1, <5>1
      <4>3. CASE ~(n > T - M)
        <5>1. T - c > M
          BY <1>3, <4>1, <4>3
        <5> QED BY <1>9, <5>1
      <4> QED BY <4>2, <4>3
    <3> QED BY <3>2, <3>3, <3>4, <3>5
  <2> QED BY <2>1, <2>2
<1> QED BY <1>6, <1>13, <1>14 DEF JournalInv

LEMMA JournalUntouched ==
    ASSUME JournalInv, UNCHANGED <<published, invalidation, journal, reader>>
    PROVE  JournalInv'
BY DEF JournalInv, Counted, JournalTrueOf, ReaderTrueOf, Held, Ahead, Pending, EventAt, Says, Latest

LEMMA JournalPublish ==
    ASSUME RecordsInv, JournalInv, NEW record, NEW s, s = record.slot, s \in Slots, NEW reverse, NEW sequences,
           PublishRecord(record, reverse, sequences), UNCHANGED reader,
           \A x \in Slots : x # s => sequences[x] = invalidation[x],
           sequences[s] > 0 => s \in DOMAIN published /\ sequences[s] = invalidation[s]
                                                      /\ record.gen = published[s].gen
    PROVE  JournalInv'
<1> DEFINE records == With(published, s, record)
<1>1. records = published' /\ Invalidate(record.key, records, reverse, sequences)
  BY DEF PublishRecord
<1>2. DOMAIN published \subseteq Slots
  BY DEF RecordsInv
<1>3. /\ DOMAIN records = DOMAIN published \cup {s} /\ records[s] = record
      /\ \A x \in DOMAIN published : x # s => records[x] = published[x]
  BY DEF With
<1> HIDE DEF records
<1>4. ASSUME NEW x \in DOMAIN records, sequences[x] > 0
      PROVE  x \in DOMAIN published /\ sequences[x] = invalidation[x] /\ records[x].gen = published[x].gen
  <2>1. CASE x = s
    BY <1>3, <1>4, <2>1
  <2>2. CASE x # s
    BY <1>2, <1>3, <1>4, <2>2
  <2> QED BY <2>1, <2>2
<1>5. DOMAIN records \subseteq Slots
  BY <1>2, <1>3
<1> QED BY <1>1, <1>4, <1>5, JournalChange

LEMMA JournalRetire ==
    ASSUME RecordsInv, JournalInv, NEW s, Retire(s)
    PROVE  JournalInv'
<1> DEFINE S == DOMAIN published \ {s}
           records == Restrict(published, S)
           reverse == [edges EXCEPT ![s] = <<>>]
           sequences == [invalidation EXCEPT ![s] = 0]
<1>1. /\ records = published' /\ UNCHANGED reader
      /\ Invalidate(published[s].key, records, reverse, sequences)
  BY DEF Retire
<1>2. DOMAIN published \subseteq Slots /\ DOMAIN invalidation = Slots
  BY DEF RecordsInv, JournalInv, Counted
<1>3. DOMAIN records = S /\ \A x \in S : records[x] = published[x]
  BY Taken
<1> HIDE DEF records, reverse
<1>4. ASSUME NEW x \in DOMAIN records, sequences[x] > 0
      PROVE  x \in DOMAIN published /\ sequences[x] = invalidation[x] /\ records[x].gen = published[x].gen
  BY <1>2, <1>3
<1>5. DOMAIN records \subseteq Slots
  BY <1>2, <1>3
<1> HIDE DEF sequences
<1> QED BY <1>1, <1>4, <1>5, JournalChange

LEMMA JournalCommit ==
    ASSUME RecordsInv, JournalInv, NEW publication, NEW prepared,
           Admitted(publication), Commit(publication, prepared), UNCHANGED reader
    PROVE  JournalInv'
<1> DEFINE record == Record(publication, prepared.chunks)
           s == record.slot
           reverse == [edges EXCEPT ![s] = [i \in DOMAIN record.deps |-> record.deps[i].target]]
           sequences == [invalidation EXCEPT ![s] = 0]
<1>1. PublishRecord(record, reverse, sequences)
  BY DEF Commit
<1>2. s = SlotFor(publication.key)
  BY DEF Record
<1>3. s \in Slots
  BY <1>2, SlotForIsSlot DEF Admitted
<1>4. DOMAIN invalidation = Slots
  BY DEF JournalInv, Counted
<1>5. sequences[s] = 0 /\ \A x \in Slots : x # s => sequences[x] = invalidation[x]
  BY <1>3, <1>4
<1>6. ~(sequences[s] > 0)
  BY <1>5
<1> HIDE DEF record, reverse, sequences
<1> QED BY <1>1, <1>3, <1>5, <1>6, JournalPublish

LEMMA JournalRequest ==
    ASSUME RecordsInv, JournalInv, NEW key, Request(key)
    PROVE  JournalInv'
<1> DEFINE s == LowestFree(Slots, DOMAIN published)
           record == [slot |-> s, key |-> key, kind |-> "none", gen |-> nextGeneration[s], rev |-> 0,
                      state |-> "REQUESTED", deps |-> <<>>, chunks |-> <<>>]
           sequences == [invalidation EXCEPT ![s] = 0]
<1>1. PublishRecord(record, edges, sequences) /\ UNCHANGED reader
  BY DEF Request
<1>2. s \in Slots
  BY SlotsAreNaturals, LowestFreeIsFree DEF EmptySlots, Request
<1>3. record.slot = s
  OBVIOUS
<1>4. DOMAIN invalidation = Slots
  BY DEF JournalInv, Counted
<1> HIDE DEF s
<1>5. sequences[s] = 0 /\ \A x \in Slots : x # s => sequences[x] = invalidation[x]
  BY <1>2, <1>4
<1>6. ~(sequences[s] > 0)
  BY <1>5
<1> HIDE DEF record, sequences
<1> QED BY <1>1, <1>2, <1>3, <1>5, <1>6, JournalPublish

LEMMA JournalReplace ==
    ASSUME RecordsInv, JournalInv, NEW s \in DOMAIN published, NEW chunks, NEW state,
           Replace(published[s], chunks, state)
    PROVE  JournalInv'
<1> DEFINE record == [published[s] EXCEPT !.rev = @ + 1, !.state = state, !.chunks = chunks]
<1>1. PublishRecord(record, edges, invalidation) /\ UNCHANGED reader
  BY DEF Replace
<1>2. Whole(published[s]) /\ published[s].slot = s /\ s \in Slots
  BY DEF RecordsInv
<1>3. record = [slot |-> published[s].slot, key |-> published[s].key, kind |-> published[s].kind,
                gen |-> published[s].gen, rev |-> published[s].rev + 1,
                state |-> state, deps |-> published[s].deps, chunks |-> chunks]
  BY <1>2, Replacement
<1> HIDE DEF record
<1>4. record.slot = s /\ record.gen = published[s].gen
  BY <1>2, <1>3
<1> QED BY <1>1, <1>2, <1>4, JournalPublish

\* A poll moves over events: of each resource the last of them counts, or one is still ahead.
LEMMA JournalPoll ==
    ASSUME RecordsInv, JournalInv, NEW capacity \in 1..MaxEvents, Poll(capacity)
    PROVE  JournalInv'
<1>1. /\ journal' = journal /\ published' = published /\ invalidation' = invalidation
      /\ DOMAIN published \subseteq Slots
  BY DEF Poll, recordVars, RecordsInv
<1>2. Counted
  BY DEF JournalInv
<1>3. ASSUME NEW s \in DOMAIN published' PROVE JournalTrueOf(s)'
  BY <1>1, <1>3 DEF JournalInv, JournalTrueOf, Held, EventAt, Says, Latest
<1>4. CASE Overflowed
  <2>1. reader' = [reader EXCEPT !.cursor = journal.total, !.rescan = TRUE]
    BY <1>4 DEF Poll, Resume
  <2>2. reader' = [cursor |-> journal.total, rescan |-> TRUE, noticed |-> reader.noticed]
    BY <1>2, <2>1 DEF Counted
  <2>3. Counted'
    BY <1>1, <1>2, <2>2 DEF Counted
  <2>4. reader'.rescan = TRUE
    BY <2>2
  <2> QED BY <1>3, <2>3, <2>4 DEF JournalInv, ReaderTrueOf
<1>5. CASE ~Overflowed
  <2> DEFINE count == IF Pending < capacity THEN Pending ELSE capacity
             events == [i \in 1..count |-> EventAt(reader.cursor + i)]
             c == reader.cursor
             t == journal.total
  <2>1. reader' = [reader EXCEPT !.cursor = @ + count, !.noticed = Heed(@, events)]
    BY <1>5 DEF Poll, Resume
  <2>2. reader' = [cursor |-> c + count, rescan |-> reader.rescan, noticed |-> Heed(reader.noticed, events)]
    BY <1>2, <2>1 DEF Counted
  <2>3. c \in Nat /\ t \in Nat /\ c <= t /\ count \in Nat /\ c + count <= t /\ MaxEvents \in Nat
    BY <1>2, WriterAssumption DEF Counted, Pending
  <2>4. t - c <= MaxEvents
    BY <1>5, <2>3 DEF Overflowed, Pending
  <2> HIDE DEF count
  <2>5. Counted'
    <3>1. reader'.cursor = c + count
      BY <2>2
    <3>2. reader' = [cursor |-> reader'.cursor, rescan |-> reader'.rescan, noticed |-> reader'.noticed]
      BY <2>2
    <3> QED BY <1>1, <1>2, <2>3, <3>1, <3>2 DEF Counted
  <2>6. ASSUME NEW s \in DOMAIN published' PROVE ReaderTrueOf(s)'
    <3> SUFFICES ASSUME invalidation[s] > 0, ~reader.rescan
                 PROVE  \/ Heed(reader.noticed, events)[s] = Latest(s)
                        \/ \E n \in (c + count + 1)..t : EventAt(n).slot = s
      BY <1>1, <2>2 DEF ReaderTrueOf, Latest, Ahead, EventAt
    <3>1. s \in DOMAIN published /\ s \in Slots
      BY <1>1, <2>6
    <3>2. \A i \in 1..count : events[i] = EventAt(c + i)
      OBVIOUS
    <3>3. DOMAIN events = 1..count
      OBVIOUS
    <3> HIDE DEF events
    <3>4. CASE \A i \in 1..count : events[i].slot # s
      <4>1. Heed(reader.noticed, events)[s] = reader.noticed[s]
        <5>1. count \in Nat /\ s \in Slots /\ ~\E i \in 1..count : events[i].slot = s
          BY <2>3, <3>1, <3>4
        <5> QED BY <3>3, <5>1, Heeded
      <4>2. ~(Pending > MaxEvents)
        BY <1>5 DEF Overflowed
      <4>3. reader.noticed[s] = Latest(s) \/ \E n \in Ahead : EventAt(n).slot = s
        BY <3>1, <4>2 DEF JournalInv, ReaderTrueOf
      <4>4. ASSUME NEW n \in Ahead, EventAt(n).slot = s PROVE n \in (c + count + 1)..t
        <5>1. n \in (c + 1)..t
          BY DEF Ahead
        <5>2. ~(n <= c + count)
          <6> SUFFICES ASSUME n <= c + count PROVE FALSE
            OBVIOUS
          <6>1. n - c \in 1..count /\ c + (n - c) = n
            BY <2>3, <5>1
          <6>2. events[n - c] = EventAt(n)
            BY <3>2, <6>1
          <6> QED BY <3>4, <4>4, <6>1, <6>2
        <5> QED BY <2>3, <5>1, <5>2
      <4> QED BY <4>1, <4>3, <4>4
    <3>5. CASE \E i \in 1..count : events[i].slot = s
      <4>1. PICK i \in 1..count : /\ events[i].slot = s
                                  /\ \A h \in 1..count : h > i => events[h].slot # s
                                  /\ Heed(reader.noticed, events)[s] = [gen |-> events[i].gen, change |-> events[i].change]
        <5>1. LastCounts(reader.noticed, events, count, s)
          BY <2>3, <3>1, <3>3, <3>5, Heeded
        <5> QED BY <5>1 DEF LastCounts
      <4> SUFFICES ASSUME \A n \in (c + count + 1)..t : EventAt(n).slot # s
                   PROVE  [gen |-> events[i].gen, change |-> events[i].change] = Latest(s)
        BY <4>1
      <4> DEFINE n == c + i
      <4>2. n \in Held /\ n \in Nat
        BY <2>3, <2>4 DEF Held
      <4>3. events[i] = EventAt(n)
        BY <3>2
      <4>4. ASSUME NEW m \in Held, m > n PROVE EventAt(m).slot # s
        <5>1. m \in 1..t
          BY DEF Held
        <5>2. CASE m <= c + count
          <6>1. m - c \in 1..count /\ c + (m - c) = m /\ m - c > i
            BY <2>3, <4>4, <5>1, <5>2
          <6>2. events[m - c] = EventAt(m)
            BY <3>2, <6>1
          <6> QED BY <4>1, <6>1, <6>2
        <5>3. CASE m > c + count
          BY <2>3, <5>1, <5>3
        <5> QED BY <2>3, <5>1, <5>2, <5>3
      <4> HIDE DEF n
      <4>5. EventAt(n).slot = s
        BY <4>1, <4>3
      <4>6. Says(n) = Latest(s)
        BY <3>1, <4>2, <4>4, <4>5 DEF JournalInv, JournalTrueOf
      <4> QED BY <4>3, <4>6 DEF Says
    <3> QED BY <3>4, <3>5
  <2> QED BY <1>3, <2>5, <2>6 DEF JournalInv
<1> QED BY <1>4, <1>5

LEMMA JournalRescan ==
    ASSUME RecordsInv, JournalInv, Rescan
    PROVE  JournalInv'
<1> DEFINE noticed == [s \in Slots |-> IF s \in DOMAIN published
                                       THEN [gen |-> published[s].gen, change |-> invalidation[s]]
                                       ELSE reader.noticed[s]]
<1>1. /\ journal' = journal /\ published' = published /\ invalidation' = invalidation
      /\ DOMAIN published \subseteq Slots
      /\ reader' = [reader EXCEPT !.rescan = FALSE, !.noticed = noticed]
  BY DEF Rescan, recordVars, RecordsInv
<1>2. Counted
  BY DEF JournalInv
<1> HIDE DEF noticed
<1>3. reader' = [cursor |-> reader.cursor, rescan |-> FALSE, noticed |-> noticed]
  BY <1>1, <1>2 DEF Counted
<1>4. Counted'
  BY <1>1, <1>2, <1>3 DEF Counted
<1>5. ASSUME NEW s \in DOMAIN published' PROVE JournalTrueOf(s)' /\ ReaderTrueOf(s)'
  <2>1. JournalTrueOf(s)'
    BY <1>1, <1>5 DEF JournalInv, JournalTrueOf, Held, EventAt, Says, Latest
  <2>2. reader'.noticed[s] = Latest(s)'
    BY <1>1, <1>3, <1>5 DEF Latest, noticed
  <2> QED BY <2>1, <2>2 DEF ReaderTrueOf
<1> QED BY <1>4, <1>5 DEF JournalInv

LEMMA JournalWriter ==
    ASSUME RecordsInv, JournalInv, WriterNext
    PROVE  JournalInv'
<1>1. ASSUME NEW key \in Keys, Request(key) PROVE JournalInv'
  BY <1>1, JournalRequest
<1>2. ASSUME NEW publication \in Publications, Publish(publication) PROVE JournalInv'
  BY <1>2, JournalCommit DEF Publish
<1>3. ASSUME NEW publication \in Publications, PublishFails(publication) PROVE JournalInv'
  BY <1>3, JournalUntouched DEF PublishFails, recordVars
<1>4. ASSUME NEW s \in Slots, Retire(s) PROVE JournalInv'
  BY <1>4, JournalRetire
<1>5. ASSUME NEW s \in Slots, MarkFailed(s) PROVE JournalInv'
  BY <1>5, JournalReplace DEF MarkFailed
<1>6. ASSUME NEW s \in Slots, CompilePlan(s) PROVE JournalInv'
  BY <1>6, JournalUntouched DEF CompilePlan, recordVars
<1>7. ASSUME NEW s \in DOMAIN published, NEW i \in DOMAIN published[s].chunks, EvictChunk(s, i)
      PROVE  JournalInv'
  BY <1>7, JournalReplace DEF EvictChunk
<1>8. ASSUME NEW record \in retired, Collect(record) PROVE JournalInv'
  BY <1>8, JournalUntouched DEF Collect
<1>9. ASSUME NEW data \in Data, Stage(data) PROVE JournalInv'
  BY <1>9, JournalUntouched DEF Stage, recordVars
<1>10. ASSUME NEW s \in StagingSlots, Unstage(s) PROVE JournalInv'
  BY <1>10, JournalUntouched DEF Unstage, recordVars
<1>11. ASSUME NEW capacity \in 1..MaxEvents, Poll(capacity) PROVE JournalInv'
  BY <1>11, JournalPoll
<1>12. ASSUME Rescan PROVE JournalInv'
  BY <1>12, JournalRescan
<1> QED BY <1>1, <1>2, <1>3, <1>4, <1>5, <1>6, <1>7, <1>8, <1>9, <1>10, <1>11, <1>12 DEF WriterNext

LEMMA JournalStep ==
    ASSUME RecordsInv, JournalInv, [LoadNext]_loadVars
    PROVE  JournalInv'
<1>1. CASE ClientStep
  BY <1>1, JournalWriter DEF ClientStep
<1>2. ASSUME NEW request \in Requests, Begin(request) PROVE JournalInv'
  BY <1>2, JournalUntouched DEF Begin, recordVars
<1>3. CASE ReadStarts \/ ReadFails \/ TaskGone \/ CancelLoad
  BY <1>3, JournalUntouched DEF ReadStarts, ReadFails, TaskGone, CancelLoad, writerVars, recordVars
<1>4. ASSUME NEW data \in Data, ReadEnds(data) PROVE JournalInv'
  BY <1>4, JournalUntouched DEF ReadEnds, recordVars
<1>5. CASE PollPublishes
  BY <1>5, JournalCommit DEF PollPublishes, MayPublish
<1>6. CASE PollDiscards
  BY <1>6, JournalUntouched DEF PollDiscards, recordVars
<1>7. CASE UNCHANGED loadVars
  BY <1>7, JournalUntouched DEF loadVars, writerVars, recordVars
<1> QED BY <1>1, <1>2, <1>3, <1>4, <1>5, <1>6, <1>7 DEF LoadNext

\* The last event about a resource a client has still to poll is in the ring, or the client has
\* overflowed.
LEMMA JournalTells ==
    ASSUME RecordsInv, JournalInv
    PROVE  NothingUnnoticed
<1> SUFFICES ASSUME NEW s \in DOMAIN published, invalidation[s] > 0, ~reader.rescan, ~(Pending > MaxEvents),
                    reader.noticed[s] # Latest(s)
             PROVE  \E n \in Ahead : EventAt(n).slot = s /\ Says(n) = Latest(s)
  BY DEF NothingUnnoticed, Latest, Says, Ahead
<1> DEFINE S == {n \in Ahead : EventAt(n).slot = s}
           k == Max(S)
           c == reader.cursor
           t == journal.total
<1>1. c \in Nat /\ t \in Nat /\ c <= t /\ MaxEvents \in Nat /\ t - c <= MaxEvents /\ Ahead = (c + 1)..t
  BY WriterAssumption DEF JournalInv, Counted, Pending, Ahead
<1>2. S # {}
  BY DEF JournalInv, ReaderTrueOf
<1>3. S \subseteq Nat /\ \A n \in S : n <= t
  BY <1>1
<1>4. \A n \in Ahead : n \in S <=> EventAt(n).slot = s
  OBVIOUS
<1>5. S \subseteq Ahead
  OBVIOUS
<1> HIDE DEF S
<1>6. k \in S /\ \A n \in S : n <= k
  BY <1>1, <1>2, <1>3, Greatest
<1> HIDE DEF k
<1>7. k \in Ahead /\ EventAt(k).slot = s /\ k \in Nat
  BY <1>3, <1>4, <1>5, <1>6
<1>8. k \in Held
  BY <1>1, <1>7 DEF Held
<1>9. ASSUME NEW m \in Held, m > k PROVE EventAt(m).slot # s
  <2>1. m \in Ahead
    BY <1>1, <1>7, <1>9 DEF Held
  <2>2. m \notin S
    <3> SUFFICES ASSUME m \in S PROVE FALSE
      OBVIOUS
    <3>1. m <= k /\ m \in Nat
      BY <1>3, <1>6
    <3> QED BY <1>7, <1>9, <3>1
  <2> QED BY <1>4, <2>1, <2>2
<1>10. Says(k) = Latest(s)
  BY <1>7, <1>8, <1>9 DEF JournalInv, JournalTrueOf
<1> QED BY <1>7, <1>10

\* However far a client lags behind, no invalidation of a resource that lives escapes it: it knows
\* of it, has its event ahead, or knows that it must look again (invalidateReverseDependents,
\* pollInvalidations).
THEOREM EveryInvalidationNoticed == LoadSpec => []NothingUnnoticed
<1>1. LoadInit => RecordsInv /\ JournalInv
  BY RecordsStart, JournalStart
<1>2. RecordsInv /\ JournalInv /\ [LoadNext]_loadVars => RecordsInv' /\ JournalInv'
  BY RecordsStep, JournalStep
<1>3. RecordsInv /\ JournalInv => NothingUnnoticed
  BY JournalTells
<1> QED BY <1>1, <1>2, <1>3, PTL DEF LoadSpec

-----------------------------------------------------------------------------
(* The chunks of a publication, one after another                           *)

\* What FoldLeft recurses over: the parts of the first m inputs.
FoldsOver(h, m, inputs) ==
    h = [S \in SUBSET (1..m) |-> IF S = {} THEN Prepared
                                 ELSE PrepareChunk(h[S \ {Max(S)}], inputs[Max(S)])]

LEMMA GreatestUpTo ==
    ASSUME NEW m \in Nat, NEW S \in SUBSET (1..(m + 1)), S # {}
    PROVE  Max(S) \in S /\ Max(S) \in 1..(m + 1) /\ S \ {Max(S)} \in SUBSET (1..m)
           /\ (m + 1 \in S => Max(S) = m + 1)
<1>1. S \subseteq Nat /\ m + 1 \in Nat /\ \A x \in S : x <= m + 1
  OBVIOUS
<1> DEFINE k == Max(S)
<1>2. k \in S /\ \A x \in S : x <= k
  BY <1>1, Greatest
<1> HIDE DEF k
<1>3. k \in 1..(m + 1)
  BY <1>2
<1>4. ASSUME NEW x \in S \ {k} PROVE x \in 1..m
  BY <1>2, <1>3
<1>5. m + 1 \in S => k = m + 1
  BY <1>2, <1>3
<1>6. S \ {k} \in SUBSET (1..m)
  BY <1>4
<1> QED BY <1>2, <1>3, <1>5, <1>6 DEF k

LEMMA FoldExists ==
    ASSUME NEW inputs, NEW L \in Nat
    PROVE  \E h : FoldsOver(h, L, inputs)
<1> DEFINE T == {m \in Nat : \E h : FoldsOver(h, m, inputs)}
<1>1. 0 \in T
  <2> DEFINE h == [S \in SUBSET (1..0) |-> Prepared]
  <2>1. \A S \in SUBSET (1..0) : S = {}
    OBVIOUS
  <2>2. FoldsOver(h, 0, inputs)
    BY <2>1 DEF FoldsOver
  <2> HIDE DEF h
  <2> QED BY <2>2
<1>2. ASSUME NEW m \in Nat, m \in T PROVE m + 1 \in T
  <2>1. PICK h : FoldsOver(h, m, inputs)
    BY <1>2
  <2> DEFINE H(S) == IF S = {} THEN Prepared ELSE PrepareChunk(h[S \ {Max(S)}], inputs[Max(S)])
             G(S) == IF m + 1 \in S THEN PrepareChunk(h[S \ {m + 1}], inputs[m + 1]) ELSE h[S]
             g == [S \in SUBSET (1..(m + 1)) |-> G(S)]
             F(S) == IF S = {} THEN Prepared ELSE PrepareChunk(g[S \ {Max(S)}], inputs[Max(S)])
  <2>2. \A S \in SUBSET (1..m) : h[S] = H(S)
    <3>1. h = [S \in SUBSET (1..m) |-> H(S)]
      BY <2>1 DEF FoldsOver
    <3> HIDE DEF H
    <3> QED BY <3>1
  <2>3. ASSUME NEW S \in SUBSET (1..(m + 1)) PROVE G(S) = F(S)
    <3>1. CASE S = {}
      <4>1. G(S) = h[S] /\ S \in SUBSET (1..m)
        BY <3>1
      <4> QED BY <2>2, <3>1, <4>1
    <3>2. CASE S # {}
      <4> DEFINE k == Max(S)
                 R == S \ {k}
      <4>2. k \in S /\ k \in 1..(m + 1) /\ R \in SUBSET (1..m) /\ (m + 1 \in S => k = m + 1)
        BY <3>2, GreatestUpTo
      <4>3. m + 1 \notin R
        BY <4>2
      <4>4. g[R] = h[R]
        BY <4>2, <4>3
      <4>5. F(S) = PrepareChunk(h[R], inputs[k])
        BY <3>2, <4>4
      <4>6. CASE m + 1 \in S
        <5>1. k = m + 1
          BY <4>2, <4>6
        <5> QED BY <4>5, <4>6, <5>1
      <4>7. CASE m + 1 \notin S
        <5>1. S \in SUBSET (1..m)
          BY <4>7
        <5>2. h[S] = H(S)
          BY <2>2, <5>1
        <5> QED BY <3>2, <4>5, <4>7, <5>2
      <4> QED BY <4>6, <4>7
    <3> QED BY <3>1, <3>2
  <2> HIDE DEF G
  <2>4. g = [S \in SUBSET (1..(m + 1)) |-> F(S)]
    BY <2>3
  <2> HIDE DEF g
  <2>5. FoldsOver(g, m + 1, inputs)
    BY <2>4 DEF FoldsOver
  <2> QED BY <2>5
<1>3. Nat \subseteq T
  <2> HIDE DEF T
  <2> QED BY <1>1, <1>2, Upwards
<1> QED BY <1>3

\* Prepare goes through the inputs in their order.
LEMMA PrepareInOrder ==
    ASSUME NEW inputs, NEW L \in Nat, DOMAIN inputs = 1..L
    PROVE  \E w : /\ w[0] = Prepared
                  /\ \A m \in Nat : m + 1 <= L => w[m + 1] = PrepareChunk(w[m], inputs[m + 1])
                  /\ Prepare(inputs) = w[L]
<1> DEFINE h == CHOOSE h : FoldsOver(h, L, inputs)
           w == [m \in 0..L |-> h[1..m]]
<1>1. FoldsOver(h, L, inputs)
  BY FoldExists
<1>2. Prepare(inputs) = h[1..L]
  BY DEF Prepare, FoldLeft, MapThenFoldSet, FoldsOver
<1> HIDE DEF h
<1> DEFINE H(S) == IF S = {} THEN Prepared ELSE PrepareChunk(h[S \ {Max(S)}], inputs[Max(S)])
<1>3. \A S \in SUBSET (1..L) : h[S] = H(S)
  <2>1. h = [S \in SUBSET (1..L) |-> H(S)]
    BY <1>1 DEF FoldsOver
  <2> HIDE DEF H
  <2> QED BY <2>1
<1>4. w[0] = Prepared
  <2>1. 1..0 = {} /\ 0 \in 0..L
    OBVIOUS
  <2>2. h[{}] = Prepared
    BY <1>3
  <2> QED BY <2>1, <2>2
<1>5. ASSUME NEW m \in Nat, m + 1 <= L PROVE w[m + 1] = PrepareChunk(w[m], inputs[m + 1])
  <2> DEFINE S == 1..(m + 1)
  <2>1. m + 1 \in S /\ S # {} /\ m \in 0..L /\ m + 1 \in 0..L
    BY <1>5
  <2>2. S \in SUBSET (1..L)
    BY <1>5
  <2>3. Max(S) = m + 1
    BY <2>1, GreatestUpTo
  <2>5. S \ {m + 1} = 1..m
    OBVIOUS
  <2> HIDE DEF S
  <2>4. h[S] = PrepareChunk(h[1..m], inputs[m + 1])
    BY <1>3, <2>1, <2>2, <2>3, <2>5
  <2> QED BY <2>1, <2>4 DEF S
<1>6. Prepare(inputs) = w[L]
  BY <1>2
<1> HIDE DEF w
<1> QED BY <1>4, <1>5, <1>6

\* Two sets that share nothing.
LEMMA Joined ==
    ASSUME NEW A, IsFiniteSet(A), NEW B, IsFiniteSet(B), A \cap B = {}
    PROVE  /\ IsFiniteSet(A \cup B) /\ Cardinality(A \cup B) = Cardinality(A) + Cardinality(B)
           /\ Cardinality(A) \in Nat /\ Cardinality(B) \in Nat
<1>1. Cardinality(A) \in Nat /\ Cardinality(B) \in Nat /\ Cardinality(A \cap B) = 0
  BY FS_CardinalityType, FS_EmptySet
<1>2. IsFiniteSet(A \cup B) /\ Cardinality(A \cup B) = Cardinality(A) + Cardinality(B) - Cardinality(A \cap B)
  BY FS_Union
<1> QED BY <1>1, <1>2

Payloads == Data \cup {Raw}
ChunkUse == [id : Int, chunk : Nat, content : STRING, data : Payloads]
SharedChunk == [content : STRING, data : Payloads, refs : Nat]
Tables == UNION {[D -> SharedChunk] : D \in SUBSET (1..MaxBlocks)}

MemoryTypes ==
    /\ staging \in [DOMAIN staging -> Payloads] /\ DOMAIN staging \subseteq StagingSlots
    /\ shared \in Tables
    /\ blocks \in Nat /\ blocks <= MaxBlocks

Covers(table, chunks) == \A i \in DOMAIN chunks :
    /\ chunks[i].chunk \in DOMAIN table
    /\ table[chunks[i].chunk].content = chunks[i].content
    /\ table[chunks[i].chunk].data = chunks[i].data

Parts == [ok : BOOLEAN, chunks : Seq(ChunkUse), fresh : SUBSET (1..MaxBlocks), staged : SUBSET StagingSlots,
          shared : Tables, blocks : Nat]

\* What is true of a record that is being prepared: its fresh chunks are new and each is used, the
\* chunks that were there are untouched, and each fresh chunk and the record are paid for.
PartsInv(p) ==
    /\ p \in Parts
    /\ DOMAIN p.shared = DOMAIN shared \cup p.fresh /\ p.fresh \cap DOMAIN shared = {}
    /\ \A c \in DOMAIN shared : p.shared[c] = shared[c]
    /\ \A c \in p.fresh : p.shared[c].refs = 0 /\ \E i \in DOMAIN p.chunks : p.chunks[i].chunk = c
    /\ p.staged \subseteq DOMAIN staging /\ Cardinality(p.fresh) <= Cardinality(p.staged)
    /\ p.blocks = blocks + 1 + Cardinality(p.fresh) /\ p.blocks <= MaxBlocks
    /\ Covers(p.shared, p.chunks)

LEMMA TableMembers ==
    ASSUME NEW table \in Tables
    PROVE  /\ table = [c \in DOMAIN table |-> table[c]] /\ DOMAIN table \subseteq 1..MaxBlocks
           /\ \A c \in DOMAIN table : table[c] \in SharedChunk
           /\ IsFiniteSet(DOMAIN table)
<1>1. PICK D \in SUBSET (1..MaxBlocks) : table \in [D -> SharedChunk]
  BY DEF Tables
<1>2. IsFiniteSet(1..MaxBlocks)
  BY FS_Interval, MemoryAssumption
<1> QED BY <1>1, <1>2, FS_Subset

LEMMA PartsFinite ==
    ASSUME NEW p \in Parts
    PROVE  /\ IsFiniteSet(p.fresh) /\ Cardinality(p.fresh) \in Nat
           /\ IsFiniteSet(p.staged) /\ Cardinality(p.staged) \in Nat
<1>1. IsFiniteSet(1..MaxBlocks) /\ IsFiniteSet(StagingSlots)
  <2>1. MaxBlocks \in Int /\ MaxStaging - 1 \in Int
    BY MemoryAssumption
  <2> QED BY <2>1, FS_Interval DEF StagingSlots
<1>2. p.fresh \subseteq 1..MaxBlocks /\ p.staged \subseteq StagingSlots
  BY DEF Parts
<1> QED BY <1>1, <1>2, FS_Subset, FS_CardinalityType

LEMMA PartsStart ==
    ASSUME MemoryTypes, blocks < MaxBlocks
    PROVE  PartsInv(Prepared)
<1>1. Prepared \in Parts
  <2>1. <<>> \in Seq(ChunkUse)
    BY EmptySeq
  <2> QED BY <2>1 DEF Prepared, Parts, MemoryTypes
<1>2. Cardinality({}) = 0
  BY FS_EmptySet
<1>3. blocks + 1 + 0 = blocks + 1 /\ blocks + 1 <= MaxBlocks
  BY MemoryAssumption DEF MemoryTypes
<1> QED BY <1>1, <1>2, <1>3 DEF PartsInv, Prepared, Covers

LEMMA PartsRefused ==
    ASSUME NEW p, PartsInv(p)
    PROVE  PartsInv([p EXCEPT !.ok = FALSE])
<1> DEFINE q == [p EXCEPT !.ok = FALSE]
<1>1. q \in Parts /\ q.chunks = p.chunks /\ q.fresh = p.fresh /\ q.staged = p.staged
      /\ q.shared = p.shared /\ q.blocks = p.blocks
  BY DEF PartsInv, Parts
<1> HIDE DEF q
<1> QED BY <1>1 DEF PartsInv, q

Appended(after, chunks, use) ==
    /\ Append(chunks, use) \in Seq(ChunkUse)
    /\ Covers(after, Append(chunks, use))
    /\ \A i \in DOMAIN chunks : i \in DOMAIN Append(chunks, use) /\ Append(chunks, use)[i] = chunks[i]
    /\ \E i \in DOMAIN Append(chunks, use) : Append(chunks, use)[i] = use

\* A chunk that is appended names an entry of the table.
LEMMA CoversMore ==
    ASSUME NEW table, NEW after, DOMAIN table \subseteq DOMAIN after,
           \A c \in DOMAIN table : after[c] = table[c],
           NEW chunks \in Seq(ChunkUse), Covers(table, chunks), NEW use \in ChunkUse,
           use.chunk \in DOMAIN after, after[use.chunk].content = use.content, after[use.chunk].data = use.data
    PROVE  Appended(after, chunks, use)
<1> DEFINE more == Append(chunks, use)
           n == Len(chunks)
<1>1. /\ more \in Seq(ChunkUse) /\ Len(more) = n + 1 /\ more[n + 1] = use
      /\ \A i \in 1..n : more[i] = chunks[i]
  BY AppendProperties
<1>2. n \in Nat /\ DOMAIN chunks = 1..n
  BY LenProperties
<1>3. DOMAIN more = 1..(n + 1)
  BY <1>1, LenProperties
<1> HIDE DEF more, n
<1>4. ASSUME NEW i \in DOMAIN more
      PROVE  /\ more[i].chunk \in DOMAIN after
             /\ after[more[i].chunk].content = more[i].content /\ after[more[i].chunk].data = more[i].data
  <2>1. CASE i = n + 1
    BY <1>1, <2>1
  <2>2. CASE i # n + 1
    <3>1. i \in 1..n
      BY <1>2, <1>3, <2>2
    <3> QED BY <1>1, <1>2, <3>1 DEF Covers
  <2> QED BY <2>1, <2>2
<1>5. Covers(after, more)
  BY <1>4 DEF Covers
<1> QED BY <1>1, <1>2, <1>3, <1>5 DEF more, Appended

\* What an input that is not refused satisfies.
LEMMA Accepted ==
    ASSUME NEW p, NEW input \in ChunkInput, ~Refused(p, input)
    PROVE  /\ {input.from} \ {Existing} \subseteq DOMAIN staging \ p.staged
           /\ Candidates(p.shared, input) = {} => /\ input.from # Existing
                                                  /\ p.blocks # MaxBlocks
BY DEF Refused

\* There is a number for a fresh chunk: each chunk has cost a block.
LEMMA FreshFree ==
    ASSUME MemoryTypes, Cardinality(DOMAIN shared) <= blocks, NEW p, PartsInv(p), p.blocks < MaxBlocks
    PROVE  LowestFree(1..MaxBlocks, DOMAIN p.shared) \in (1..MaxBlocks) \ DOMAIN p.shared
<1> DEFINE D == DOMAIN p.shared
           N == 1..MaxBlocks
<1>1. MaxBlocks \in Nat /\ IsFiniteSet(N) /\ Cardinality(N) = MaxBlocks /\ N \in SUBSET Nat
  BY FS_Interval, MemoryAssumption
<1>2. IsFiniteSet(p.fresh) /\ Cardinality(p.fresh) \in Nat
  BY PartsFinite DEF PartsInv
<1>3. IsFiniteSet(DOMAIN shared) /\ Cardinality(DOMAIN shared) \in Nat
  BY TableMembers, FS_CardinalityType DEF MemoryTypes
<1>4. Cardinality(D) = Cardinality(DOMAIN shared) + Cardinality(p.fresh)
  <2>1. D = DOMAIN shared \cup p.fresh /\ DOMAIN shared \cap p.fresh = {}
    BY DEF PartsInv
  <2> HIDE DEF D
  <2>2. Cardinality(DOMAIN shared \cup p.fresh) = Cardinality(DOMAIN shared) + Cardinality(p.fresh)
    BY <1>2, <1>3, <2>1, Joined
  <2> QED BY <2>1, <2>2
<1>5. Cardinality(D) < MaxBlocks
  BY <1>1, <1>2, <1>3, <1>4 DEF PartsInv, MemoryTypes
<1>6. N \ D # {}
  <2> SUFFICES ASSUME N \subseteq D PROVE FALSE
    OBVIOUS
  <2>1. IsFiniteSet(D) /\ Cardinality(D) \in Nat
    <3>1. p.shared \in Tables
      BY DEF PartsInv, Parts
    <3> QED BY <3>1, TableMembers, FS_CardinalityType
  <2> HIDE DEF N, D
  <2>2. Cardinality(N) <= Cardinality(D)
    BY <2>1, FS_Subset
  <2> QED BY <1>1, <1>5, <2>1, <2>2
<1> HIDE DEF N, D
<1>7. LowestFree(N, D) \in N \ D
  BY <1>1, <1>6, LowestFreeIsFree
<1> QED BY <1>7 DEF N, D

\* One more staging buffer is used up.
LEMMA StagedMore ==
    ASSUME NEW A, IsFiniteSet(A), NEW x
    PROVE  /\ IsFiniteSet(A \cup ({x} \ {Existing}))
           /\ Cardinality(A) <= Cardinality(A \cup ({x} \ {Existing}))
           /\ x \notin A /\ x # Existing => Cardinality(A \cup ({x} \ {Existing})) = Cardinality(A) + 1
<1>1. CASE x = Existing
  <2>1. A \cup ({x} \ {Existing}) = A /\ Cardinality(A) \in Nat
    BY <1>1, FS_CardinalityType
  <2> QED BY <1>1, <2>1
<1>2. CASE x # Existing
  <2>1. A \cup ({x} \ {Existing}) = A \cup {x} /\ Cardinality(A) \in Nat
    BY <1>2, FS_CardinalityType
  <2>2. IsFiniteSet(A \cup {x}) /\ Cardinality(A \cup {x}) = IF x \in A THEN Cardinality(A) ELSE Cardinality(A) + 1
    BY FS_AddElement
  <2> QED BY <1>2, <2>1, <2>2
<1> QED BY <1>1, <1>2

\* An input that takes a chunk that is there.
LEMMA PartsShare ==
    ASSUME MemoryTypes, NEW p, PartsInv(p), NEW input \in ChunkInput, ~Refused(p, input),
           NEW c \in Candidates(p.shared, input),
           NEW q, q = [ok |-> TRUE,
                       chunks |-> Append(p.chunks, [id |-> input.id, chunk |-> c, content |-> input.content,
                                                    data |-> p.shared[c].data]),
                       fresh |-> p.fresh, staged |-> p.staged \cup ({input.from} \ {Existing}),
                       shared |-> p.shared, blocks |-> p.blocks]
    PROVE  PartsInv(q)
<1> DEFINE use == [id |-> input.id, chunk |-> c, content |-> input.content, data |-> p.shared[c].data]
<1>1. p \in Parts /\ Covers(p.shared, p.chunks)
  BY DEF PartsInv
<1>2. /\ p.shared \in Tables /\ p.chunks \in Seq(ChunkUse) /\ p.blocks \in Nat
      /\ p.fresh \in SUBSET (1..MaxBlocks) /\ p.staged \in SUBSET StagingSlots
  BY <1>1 DEF Parts
<1>3. c \in DOMAIN p.shared /\ p.shared[c].content = input.content
  BY DEF Candidates
<1>4. c \in Nat /\ p.shared[c] \in SharedChunk
  <2>1. DOMAIN p.shared \subseteq 1..MaxBlocks
    BY <1>2, TableMembers
  <2> QED BY <1>2, <1>3, <2>1, TableMembers
<1>5. use \in ChunkUse
  BY <1>4 DEF ChunkUse, ChunkInput, SharedChunk
<1>6. use.chunk = c /\ use.content = input.content /\ use.data = p.shared[c].data
  OBVIOUS
<1> HIDE DEF use
<1>7. /\ Append(p.chunks, use) \in Seq(ChunkUse)
      /\ Covers(p.shared, Append(p.chunks, use))
      /\ \A i \in DOMAIN p.chunks : i \in DOMAIN Append(p.chunks, use) /\ Append(p.chunks, use)[i] = p.chunks[i]
  <2>1. /\ DOMAIN p.shared \subseteq DOMAIN p.shared /\ \A d \in DOMAIN p.shared : p.shared[d] = p.shared[d]
        /\ use.chunk \in DOMAIN p.shared /\ p.shared[use.chunk].content = use.content
        /\ p.shared[use.chunk].data = use.data
    BY <1>3, <1>6
  <2>2. Appended(p.shared, p.chunks, use)
    BY <1>1, <1>2, <1>5, <2>1, CoversMore
  <2> QED BY <2>2 DEF Appended
<1>8. /\ {input.from} \ {Existing} \subseteq DOMAIN staging
      /\ p.staged \cup ({input.from} \ {Existing}) \subseteq DOMAIN staging
      /\ DOMAIN staging \subseteq StagingSlots
  BY Accepted DEF PartsInv, MemoryTypes
<1>9. Cardinality(p.fresh) <= Cardinality(p.staged \cup ({input.from} \ {Existing}))
  <2>1. IsFiniteSet(p.staged) /\ Cardinality(p.staged) \in Nat /\ Cardinality(p.fresh) \in Nat
    BY <1>1, PartsFinite
  <2>2. Cardinality(p.staged) <= Cardinality(p.staged \cup ({input.from} \ {Existing}))
        /\ Cardinality(p.staged \cup ({input.from} \ {Existing})) \in Nat
    BY <2>1, StagedMore, FS_CardinalityType
  <2>3. Cardinality(p.fresh) <= Cardinality(p.staged)
    BY DEF PartsInv
  <2> QED BY <2>1, <2>2, <2>3
<1>10. q = [ok |-> TRUE, chunks |-> Append(p.chunks, use), fresh |-> p.fresh,
            staged |-> p.staged \cup ({input.from} \ {Existing}), shared |-> p.shared, blocks |-> p.blocks]
  BY DEF use
<1>11. q \in Parts
  BY <1>2, <1>7, <1>8, <1>10 DEF Parts
<1>12. /\ q.chunks = Append(p.chunks, use) /\ q.fresh = p.fresh /\ q.shared = p.shared /\ q.blocks = p.blocks
       /\ q.staged = p.staged \cup ({input.from} \ {Existing})
  BY <1>10
<1>13. \A d \in q.fresh : q.shared[d].refs = 0 /\ \E i \in DOMAIN q.chunks : q.chunks[i].chunk = d
  BY <1>7, <1>12 DEF PartsInv
<1> QED BY <1>7, <1>8, <1>9, <1>11, <1>12, <1>13 DEF PartsInv

\* An input that takes a chunk of its own.
LEMMA PartsFresh ==
    ASSUME MemoryTypes, Cardinality(DOMAIN shared) <= blocks, NEW p, PartsInv(p), NEW input \in ChunkInput,
           ~Refused(p, input), Candidates(p.shared, input) = {},
           NEW c, c = LowestFree(1..MaxBlocks, DOMAIN p.shared),
           NEW table, table = With(p.shared, c, [content |-> input.content, data |-> staging[input.from], refs |-> 0]),
           NEW q, q = [ok |-> TRUE,
                       chunks |-> Append(p.chunks, [id |-> input.id, chunk |-> c, content |-> input.content,
                                                    data |-> table[c].data]),
                       fresh |-> p.fresh \cup {c}, staged |-> p.staged \cup ({input.from} \ {Existing}),
                       shared |-> table, blocks |-> p.blocks + 1]
    PROVE  PartsInv(q)
<1> DEFINE use == [id |-> input.id, chunk |-> c, content |-> input.content, data |-> table[c].data]
           entry == [content |-> input.content, data |-> staging[input.from], refs |-> 0]
<1>1. p \in Parts /\ Covers(p.shared, p.chunks)
  BY DEF PartsInv
<1>2. /\ p.shared \in Tables /\ p.chunks \in Seq(ChunkUse) /\ p.blocks \in Nat
      /\ p.fresh \in SUBSET (1..MaxBlocks) /\ p.staged \in SUBSET StagingSlots
  BY <1>1 DEF Parts
<1>3. /\ input.from # Existing /\ p.blocks # MaxBlocks
      /\ input.from \in DOMAIN staging /\ input.from \notin p.staged
  BY Accepted
<1>4. p.blocks < MaxBlocks /\ MaxBlocks \in Nat
  BY <1>2, <1>3, MemoryAssumption DEF PartsInv
<1>5. c \in 1..MaxBlocks /\ c \notin DOMAIN p.shared
  BY <1>4, FreshFree
<1>6. entry \in SharedChunk
  BY <1>3 DEF SharedChunk, ChunkInput, MemoryTypes
<1>7. /\ DOMAIN table = DOMAIN p.shared \cup {c} /\ table[c] = entry
      /\ \A d \in DOMAIN p.shared : table[d] = p.shared[d]
      /\ table = [d \in DOMAIN table |-> table[d]]
  BY <1>5 DEF With
<1>8. table \in Tables
  <2>1. DOMAIN p.shared \subseteq 1..MaxBlocks /\ \A d \in DOMAIN p.shared : p.shared[d] \in SharedChunk
    BY <1>2, TableMembers
  <2> HIDE DEF entry
  <2>2. \A d \in DOMAIN table : table[d] \in SharedChunk
    BY <1>6, <1>7, <2>1
  <2>3. table \in [DOMAIN table -> SharedChunk] /\ DOMAIN table \in SUBSET (1..MaxBlocks)
    BY <1>5, <1>7, <2>1, <2>2
  <2> QED BY <2>3 DEF Tables
<1>9. use \in ChunkUse
  <2>1. table[c].data \in Payloads
    BY <1>6, <1>7 DEF SharedChunk
  <2> QED BY <1>5, <2>1 DEF ChunkUse, ChunkInput
<1>10. use.chunk = c /\ use.content = input.content /\ use.data = table[c].data /\ table[c].content = input.content
       /\ table[c].refs = 0
  BY <1>7
<1> HIDE DEF use, entry
<1>11. /\ Append(p.chunks, use) \in Seq(ChunkUse)
       /\ Covers(table, Append(p.chunks, use))
       /\ \A i \in DOMAIN p.chunks : i \in DOMAIN Append(p.chunks, use) /\ Append(p.chunks, use)[i] = p.chunks[i]
       /\ \E i \in DOMAIN Append(p.chunks, use) : Append(p.chunks, use)[i] = use
  <2>1. /\ DOMAIN p.shared \subseteq DOMAIN table /\ \A d \in DOMAIN p.shared : table[d] = p.shared[d]
        /\ use.chunk \in DOMAIN table /\ table[use.chunk].content = use.content /\ table[use.chunk].data = use.data
    BY <1>7, <1>10
  <2>2. Appended(table, p.chunks, use)
    BY <1>1, <1>2, <1>9, <2>1, CoversMore
  <2> QED BY <2>2 DEF Appended
<1>12. /\ p.staged \cup ({input.from} \ {Existing}) \subseteq DOMAIN staging /\ DOMAIN staging \subseteq StagingSlots
  BY <1>3 DEF PartsInv, MemoryTypes
<1>13. /\ Cardinality(p.fresh \cup {c}) = Cardinality(p.fresh) + 1
       /\ Cardinality(p.staged \cup ({input.from} \ {Existing})) = Cardinality(p.staged) + 1
       /\ Cardinality(p.fresh) \in Nat /\ Cardinality(p.staged) \in Nat
  <2>1. /\ IsFiniteSet(p.staged) /\ IsFiniteSet(p.fresh)
        /\ Cardinality(p.staged) \in Nat /\ Cardinality(p.fresh) \in Nat
    BY <1>1, PartsFinite
  <2>2. c \notin p.fresh
    BY <1>5 DEF PartsInv
  <2>3. Cardinality(p.fresh \cup {c}) = Cardinality(p.fresh) + 1
    BY <2>1, <2>2, FS_AddElement
  <2> QED BY <1>3, <2>1, <2>3, StagedMore
<1>14. q = [ok |-> TRUE, chunks |-> Append(p.chunks, use), fresh |-> p.fresh \cup {c},
            staged |-> p.staged \cup ({input.from} \ {Existing}), shared |-> table, blocks |-> p.blocks + 1]
  BY DEF use
<1>15. q \in Parts
  BY <1>2, <1>5, <1>8, <1>11, <1>12, <1>14 DEF Parts
<1>16. /\ q.chunks = Append(p.chunks, use) /\ q.fresh = p.fresh \cup {c} /\ q.shared = table
       /\ q.blocks = p.blocks + 1 /\ q.staged = p.staged \cup ({input.from} \ {Existing})
  BY <1>14
<1>17. /\ DOMAIN q.shared = DOMAIN shared \cup q.fresh /\ q.fresh \cap DOMAIN shared = {}
       /\ \A d \in DOMAIN shared : q.shared[d] = shared[d]
  <2>1. /\ DOMAIN p.shared = DOMAIN shared \cup p.fresh /\ p.fresh \cap DOMAIN shared = {}
        /\ \A d \in DOMAIN shared : p.shared[d] = shared[d]
    BY DEF PartsInv
  <2>2. DOMAIN table = DOMAIN shared \cup (p.fresh \cup {c}) /\ (p.fresh \cup {c}) \cap DOMAIN shared = {}
    BY <1>5, <1>7, <2>1
  <2>3. \A d \in DOMAIN shared : table[d] = shared[d]
    BY <1>7, <2>1
  <2> QED BY <1>16, <2>2, <2>3
<1>18. ASSUME NEW d \in q.fresh
       PROVE  q.shared[d].refs = 0 /\ \E i \in DOMAIN q.chunks : q.chunks[i].chunk = d
  <2>1. CASE d = c
    BY <1>10, <1>11, <1>16, <2>1
  <2>2. CASE d # c
    <3>1. d \in p.fresh /\ d \in DOMAIN p.shared
      BY <1>16, <2>2 DEF PartsInv
    <3>2. p.shared[d].refs = 0 /\ \E i \in DOMAIN p.chunks : p.chunks[i].chunk = d
      BY <3>1 DEF PartsInv
    <3> QED BY <1>7, <1>11, <1>16, <3>1, <3>2
  <2> QED BY <2>1, <2>2
<1>19. Cardinality(q.fresh) <= Cardinality(q.staged)
  BY <1>13, <1>16 DEF PartsInv
<1>20. q.blocks = blocks + 1 + Cardinality(q.fresh) /\ q.blocks <= MaxBlocks
  <2>1. p.blocks = blocks + 1 + Cardinality(p.fresh) /\ blocks \in Nat
    BY DEF PartsInv, MemoryTypes
  <2>2. Cardinality(q.fresh) = Cardinality(p.fresh) + 1 /\ q.blocks = p.blocks + 1
    BY <1>13, <1>16
  <2> DEFINE x == Cardinality(p.fresh)
             y == Cardinality(q.fresh)
             m == p.blocks
             n == q.blocks
  <2>3. m = blocks + 1 + x /\ y = x + 1 /\ n = m + 1 /\ x \in Nat /\ m \in Nat /\ m < MaxBlocks
    BY <1>2, <1>4, <1>13, <2>1, <2>2
  <2> HIDE DEF x, y, m, n
  <2>4. n = blocks + 1 + y /\ n <= MaxBlocks
    BY <1>4, <2>1, <2>3
  <2> QED BY <2>4 DEF y, n
<1> QED BY <1>11, <1>12, <1>15, <1>16, <1>17, <1>18, <1>19, <1>20 DEF PartsInv

LEMMA PartsStep ==
    ASSUME MemoryTypes, Cardinality(DOMAIN shared) <= blocks, NEW p, PartsInv(p), NEW input \in ChunkInput
    PROVE  PartsInv(PrepareChunk(p, input))
<1>1. CASE ~p.ok \/ Refused(p, input)
  <2>1. PrepareChunk(p, input) = [p EXCEPT !.ok = FALSE]
    BY <1>1 DEF PrepareChunk
  <2> QED BY <2>1, PartsRefused
<1>2. CASE p.ok /\ ~Refused(p, input) /\ Candidates(p.shared, input) # {}
  <2> DEFINE c == CHOOSE d \in Candidates(p.shared, input) : TRUE
  <2>1. c \in Candidates(p.shared, input)
    BY <1>2
  <2>2. PrepareChunk(p, input) =
            [ok |-> TRUE,
             chunks |-> Append(p.chunks, [id |-> input.id, chunk |-> c, content |-> input.content,
                                          data |-> p.shared[c].data]),
             fresh |-> p.fresh, staged |-> p.staged \cup ({input.from} \ {Existing}),
             shared |-> p.shared, blocks |-> p.blocks]
    BY <1>2 DEF PrepareChunk
  <2> HIDE DEF c
  <2> QED BY <1>2, <2>1, <2>2, PartsShare
<1>3. CASE p.ok /\ ~Refused(p, input) /\ Candidates(p.shared, input) = {}
  <2> DEFINE c == LowestFree(1..MaxBlocks, DOMAIN p.shared)
             table == With(p.shared, c, [content |-> input.content, data |-> staging[input.from], refs |-> 0])
  <2>1. PrepareChunk(p, input) =
            [ok |-> TRUE,
             chunks |-> Append(p.chunks, [id |-> input.id, chunk |-> c, content |-> input.content,
                                          data |-> table[c].data]),
             fresh |-> p.fresh \cup {c}, staged |-> p.staged \cup ({input.from} \ {Existing}),
             shared |-> table, blocks |-> p.blocks + 1]
    BY <1>3 DEF PrepareChunk
  <2> QED BY <1>3, <2>1, PartsFresh
<1> QED BY <1>1, <1>2, <1>3

LEMMA PartsPrepared ==
    ASSUME MemoryTypes, Cardinality(DOMAIN shared) <= blocks, blocks < MaxBlocks,
           NEW inputs \in Seq(ChunkInput)
    PROVE  PartsInv(Prepare(inputs))
<1> DEFINE L == Len(inputs)
<1>1. L \in Nat /\ DOMAIN inputs = 1..L /\ \A i \in 1..L : inputs[i] \in ChunkInput
  BY LenProperties
<1> HIDE DEF L
<1>2. PICK w : /\ w[0] = Prepared
               /\ \A m \in Nat : m + 1 <= L => w[m + 1] = PrepareChunk(w[m], inputs[m + 1])
               /\ Prepare(inputs) = w[L]
  BY <1>1, PrepareInOrder
<1> DEFINE T == {m \in Nat : m <= L => PartsInv(w[m])}
<1>3. 0 \in T
  BY <1>2, PartsStart
<1>4. ASSUME NEW m \in Nat, m \in T PROVE m + 1 \in T
  <2> SUFFICES ASSUME m + 1 <= L PROVE PartsInv(w[m + 1])
    OBVIOUS
  <2>1. PartsInv(w[m])
    BY <1>1, <1>4
  <2>2. inputs[m + 1] \in ChunkInput /\ w[m + 1] = PrepareChunk(w[m], inputs[m + 1])
    BY <1>1, <1>2
  <2> QED BY <2>1, <2>2, PartsStep
<1>5. Nat \subseteq T
  <2> HIDE DEF T
  <2> QED BY <1>3, <1>4, Upwards
<1> QED BY <1>1, <1>2, <1>5

-----------------------------------------------------------------------------
(* The references of the records                                            *)

RefsOf(records, c) == Cardinality(UNION {UsesOf(r, c) : r \in records})

LEMMA UsesCounted ==
    ASSUME NEW r, r.chunks \in Seq(ChunkUse), NEW c
    PROVE  /\ IsFiniteSet(UsesOf(r, c)) /\ Cardinality(UsesOf(r, c)) = Uses(r.chunks, c)
           /\ Uses(r.chunks, c) \in Nat
<1> DEFINE S == {i \in DOMAIN r.chunks : r.chunks[i].chunk = c}
<1>1. IsFiniteSet(S)
  <2>1. Len(r.chunks) \in Nat /\ DOMAIN r.chunks = 1..Len(r.chunks)
    BY LenProperties
  <2>2. IsFiniteSet(1..Len(r.chunks))
    BY <2>1, FS_Interval
  <2> QED BY <2>1, <2>2, FS_Subset
<1>2. IsFiniteSet({r}) /\ Cardinality({r}) = 1
  BY FS_Singleton
<1>3. UsesOf(r, c) = {r} \X S /\ Uses(r.chunks, c) = Cardinality(S)
  BY DEF UsesOf, Uses
<1> HIDE DEF S
<1>4. IsFiniteSet({r} \X S) /\ Cardinality({r} \X S) = Cardinality({r}) * Cardinality(S) /\ Cardinality(S) \in Nat
  BY <1>1, <1>2, FS_Product, FS_CardinalityType
<1>5. 1 * Cardinality(S) = Cardinality(S)
  BY <1>4
<1> QED BY <1>2, <1>3, <1>4, <1>5

LEMMA UsesFinite ==
    ASSUME NEW R, IsFiniteSet(R), \A r \in R : r.chunks \in Seq(ChunkUse), NEW c
    PROVE  IsFiniteSet(UNION {UsesOf(r, c) : r \in R}) /\ RefsOf(R, c) \in Nat
<1> DEFINE T == {UsesOf(r, c) : r \in R}
           f == [r \in R |-> UsesOf(r, c)]
<1>1. f \in Surjection(R, T)
  BY DEF Surjection
<1>2. \A t \in T : IsFiniteSet(t)
  BY UsesCounted
<1> HIDE DEF f, T
<1>3. IsFiniteSet(T)
  BY <1>1, FS_Surjection
<1>4. IsFiniteSet(UNION T)
  BY <1>2, <1>3, FS_UNION
<1>5. Cardinality(UNION T) \in Nat
  BY <1>4, FS_CardinalityType
<1> QED BY <1>4, <1>5 DEF T, RefsOf

\* A record that comes or goes brings or takes its references.
LEMMA RefsMore ==
    ASSUME NEW R, IsFiniteSet(R), \A r \in R : r.chunks \in Seq(ChunkUse),
           NEW x, x \notin R, x.chunks \in Seq(ChunkUse), NEW c
    PROVE  RefsOf(R \cup {x}, c) = RefsOf(R, c) + Uses(x.chunks, c)
<1> DEFINE A == UNION {UsesOf(r, c) : r \in R}
           B == UsesOf(x, c)
<1>1. IsFiniteSet(A) /\ IsFiniteSet(B) /\ Cardinality(B) = Uses(x.chunks, c)
  <2>1. IsFiniteSet(A)
    BY UsesFinite
  <2>2. IsFiniteSet(B) /\ Cardinality(B) = Uses(x.chunks, c)
    BY UsesCounted
  <2> QED BY <2>1, <2>2
<1>2. A \cap B = {}
  BY DEF UsesOf
<1>3. UNION {UsesOf(r, c) : r \in R \cup {x}} = A \cup B
  OBVIOUS
<1> HIDE DEF A, B
<1>4. Cardinality(A \cup B) = Cardinality(A) + Cardinality(B)
  BY <1>1, <1>2, Joined
<1> QED BY <1>1, <1>3, <1>4 DEF A, RefsOf

LEMMA RefsLess ==
    ASSUME NEW R, IsFiniteSet(R), \A r \in R : r.chunks \in Seq(ChunkUse), NEW x \in R, NEW c
    PROVE  RefsOf(R \ {x}, c) = RefsOf(R, c) - Uses(x.chunks, c) /\ RefsOf(R \ {x}, c) \in Nat
<1> DEFINE Q == R \ {x}
<1>1. IsFiniteSet(Q) /\ x \notin Q /\ Q \cup {x} = R /\ \A r \in Q : r.chunks \in Seq(ChunkUse)
  BY FS_Subset
<1>2. x.chunks \in Seq(ChunkUse)
  OBVIOUS
<1> HIDE DEF Q
<1>3. RefsOf(Q \cup {x}, c) = RefsOf(Q, c) + Uses(x.chunks, c)
  BY <1>1, <1>2, RefsMore
<1>4. RefsOf(Q, c) \in Nat /\ Uses(x.chunks, c) \in Nat
  BY <1>1, <1>2, UsesFinite, UsesCounted
<1>5. RefsOf(R, c) = RefsOf(Q, c) + Uses(x.chunks, c)
  BY <1>1, <1>3
<1> DEFINE a == RefsOf(R, c)
           b == RefsOf(Q, c)
           d == Uses(x.chunks, c)
<1>6. a = b + d /\ b \in Nat /\ d \in Nat
  BY <1>4, <1>5
<1> HIDE DEF a, b, d
<1>7. b = a - d
  BY <1>6
<1> QED BY <1>6, <1>7 DEF a, b, d, Q

\* A chunk that a record names has a reference, one that none names has none.
LEMMA RefsSome ==
    ASSUME NEW R, IsFiniteSet(R), \A r \in R : r.chunks \in Seq(ChunkUse), NEW c
    PROVE  RefsOf(R, c) = 0 <=> \A r \in R : \A i \in DOMAIN r.chunks : r.chunks[i].chunk # c
<1> DEFINE A == UNION {UsesOf(r, c) : r \in R}
<1>1. A = {} <=> \A r \in R : \A i \in DOMAIN r.chunks : r.chunks[i].chunk # c
  <2>1. ASSUME NEW r \in R, NEW i \in DOMAIN r.chunks, r.chunks[i].chunk = c PROVE A # {}
    <3>1. <<r, i>> \in UsesOf(r, c)
      BY <2>1 DEF UsesOf
    <3> QED BY <3>1
  <2>2. ASSUME A # {} PROVE \E r \in R : \E i \in DOMAIN r.chunks : r.chunks[i].chunk = c
    <3>1. PICK r \in R : UsesOf(r, c) # {}
      BY <2>2
    <3> QED BY <3>1 DEF UsesOf
  <2> HIDE DEF A
  <2> QED BY <2>1, <2>2
<1>2. IsFiniteSet(A)
  BY UsesFinite
<1>3. RefsOf(R, c) = Cardinality(A)
  BY DEF RefsOf
<1> HIDE DEF A
<1>4. Cardinality(A) = 0 <=> A = {}
  BY <1>2, FS_EmptySet
<1> QED BY <1>1, <1>3, <1>4

Chunked(records) == IsFiniteSet(records) /\ \A r \in records : r.chunks \in Seq(ChunkUse)

\* Each chunk of a table counts the references of the records, and each record finds its chunks.
Exact(records, table) ==
    /\ \A c \in DOMAIN table : table[c].refs = RefsOf(records, c) /\ table[c].refs > 0
    /\ \A r \in records : Covers(table, r.chunks)

LEMMA TableOf ==
    ASSUME NEW table, table = [c \in DOMAIN table |-> table[c]], DOMAIN table \subseteq 1..MaxBlocks,
           \A c \in DOMAIN table : table[c] \in SharedChunk
    PROVE  table \in Tables
<1>1. table \in [DOMAIN table -> SharedChunk] /\ DOMAIN table \in SUBSET (1..MaxBlocks)
  OBVIOUS
<1> QED BY <1>1 DEF Tables

\* A table with fresh chunks that some chunks of a record use, and with all the others.
Furthers(table, before, fresh, chunks) ==
    /\ DOMAIN table = DOMAIN before \cup fresh /\ fresh \cap DOMAIN before = {}
    /\ \A c \in DOMAIN before : table[c] = before[c]
    /\ \A c \in fresh : table[c].refs = 0 /\ \E i \in DOMAIN chunks : chunks[i].chunk = c
    /\ Covers(table, chunks)

Referred(table, chunks) == [c \in DOMAIN table |-> [table[c] EXCEPT !.refs = @ + Uses(chunks, c)]]

\* A record that comes adds its references to chunks that were there and to fresh ones.
LEMMA MoreReferences ==
    ASSUME NEW R, Chunked(R), NEW x, x \notin R, x.chunks \in Seq(ChunkUse),
           NEW before \in Tables, Exact(R, before), NEW table \in Tables, NEW fresh,
           Furthers(table, before, fresh, x.chunks)
    PROVE  Referred(table, x.chunks) \in Tables /\ Exact(R \cup {x}, Referred(table, x.chunks))
<1> DEFINE after == Referred(table, x.chunks)
<1>0. /\ DOMAIN table = DOMAIN before \cup fresh /\ fresh \cap DOMAIN before = {}
      /\ \A c \in DOMAIN before : table[c] = before[c]
      /\ \A c \in fresh : table[c].refs = 0 /\ \E i \in DOMAIN x.chunks : x.chunks[i].chunk = c
      /\ Covers(table, x.chunks)
      /\ after = [c \in DOMAIN table |-> [table[c] EXCEPT !.refs = @ + Uses(x.chunks, c)]]
  BY DEF Furthers, Referred
<1> HIDE DEF after
<1>1. DOMAIN after = DOMAIN table
  BY <1>0
<1>2. DOMAIN table \subseteq 1..MaxBlocks /\ \A c \in DOMAIN table : table[c] \in SharedChunk
  BY TableMembers
<1>3. ASSUME NEW c \in DOMAIN table
      PROVE  /\ after[c] = [content |-> table[c].content, data |-> table[c].data,
                            refs |-> table[c].refs + Uses(x.chunks, c)]
             /\ Uses(x.chunks, c) \in Nat /\ table[c].refs \in Nat
  <2>1. table[c] \in SharedChunk /\ after[c] = [table[c] EXCEPT !.refs = @ + Uses(x.chunks, c)]
    BY <1>0, <1>2
  <2>2. Uses(x.chunks, c) \in Nat
    BY UsesCounted
  <2> QED BY <2>1, <2>2 DEF SharedChunk
<1>4. ASSUME NEW c \in DOMAIN table
      PROVE  /\ after[c].content = table[c].content /\ after[c].data = table[c].data
             /\ after[c].refs = table[c].refs + Uses(x.chunks, c) /\ after[c] \in SharedChunk
  <2> DEFINE old == table[c]
             new == after[c]
             k == Uses(x.chunks, c)
  <2>1. old \in SharedChunk
    BY <1>2
  <2>2. new = [content |-> old.content, data |-> old.data, refs |-> old.refs + k] /\ k \in Nat
    BY <1>3
  <2> HIDE DEF old, new, k
  <2>3. new.content = old.content /\ new.data = old.data /\ new.refs = old.refs + k
    BY <2>2
  <2>4. new \in SharedChunk
    BY <2>1, <2>2 DEF SharedChunk
  <2> QED BY <2>3, <2>4 DEF old, new, k
<1>5. after \in Tables
  <2>1. after = [c \in DOMAIN after |-> after[c]]
    BY <1>0
  <2>2. DOMAIN after \subseteq 1..MaxBlocks /\ \A c \in DOMAIN after : after[c] \in SharedChunk
    BY <1>1, <1>2, <1>4
  <2> QED BY <2>1, <2>2, TableOf
<1>6. ASSUME NEW c \in DOMAIN after PROVE table[c].refs = RefsOf(R, c)
  <2>1. CASE c \in DOMAIN before
    BY <1>0, <2>1 DEF Exact
  <2>2. CASE c \in fresh
    <3>1. \A r \in R : \A i \in DOMAIN r.chunks : r.chunks[i].chunk # c
      BY <1>0, <2>2 DEF Exact, Covers
    <3>2. RefsOf(R, c) = 0
      BY <3>1, RefsSome DEF Chunked
    <3> QED BY <1>0, <2>2, <3>2
  <2> QED BY <1>0, <1>1, <2>1, <2>2
<1>7. ASSUME NEW c \in DOMAIN after PROVE after[c].refs = RefsOf(R \cup {x}, c)
  <2>1. RefsOf(R \cup {x}, c) = RefsOf(R, c) + Uses(x.chunks, c)
    BY RefsMore DEF Chunked
  <2> QED BY <1>1, <1>4, <1>6, <1>7, <2>1
<1>8. ASSUME NEW c \in DOMAIN after PROVE after[c].refs > 0
  <2>1. CASE c \in DOMAIN before
    <3> DEFINE n == table[c].refs
               k == Uses(x.chunks, c)
    <3>1. n > 0 /\ n \in Nat /\ k \in Nat
      BY <1>0, <1>3, <2>1 DEF Exact
    <3>2. after[c].refs = n + k
      BY <1>1, <1>4, <1>8
    <3> HIDE DEF n, k
    <3> QED BY <3>1, <3>2
  <2>2. CASE c \in fresh
    <3>1. after[c].refs # 0
      <4>1. Chunked(R \cup {x})
        BY FS_AddElement DEF Chunked
      <4>2. RefsOf(R \cup {x}, c) # 0
        BY <1>0, <2>2, <4>1, RefsSome DEF Chunked
      <4> QED BY <1>7, <4>2
    <3>2. after[c].refs \in Nat
      BY <1>1, <1>4 DEF SharedChunk
    <3> QED BY <3>1, <3>2
  <2> QED BY <1>0, <1>1, <2>1, <2>2
<1>9. ASSUME NEW r \in R \cup {x} PROVE Covers(after, r.chunks)
  <2>1. CASE r = x
    BY <1>0, <1>1, <1>4, <2>1 DEF Covers
  <2>2. CASE r \in R
    <3> SUFFICES ASSUME NEW i \in DOMAIN r.chunks
                 PROVE  /\ r.chunks[i].chunk \in DOMAIN after
                        /\ after[r.chunks[i].chunk].content = r.chunks[i].content
                        /\ after[r.chunks[i].chunk].data = r.chunks[i].data
      BY DEF Covers
    <3> DEFINE c == r.chunks[i].chunk
    <3>1. c \in DOMAIN before /\ before[c].content = r.chunks[i].content /\ before[c].data = r.chunks[i].data
      BY <2>2 DEF Exact, Covers
    <3> HIDE DEF c
    <3>2. c \in DOMAIN table /\ table[c] = before[c]
      BY <1>0, <3>1
    <3>3. c \in DOMAIN after /\ after[c].content = before[c].content /\ after[c].data = before[c].data
      BY <1>1, <1>4, <3>2
    <3> QED BY <3>1, <3>3 DEF c
  <2> QED BY <2>1, <2>2
<1>10. Exact(R \cup {x}, after)
  BY <1>7, <1>8, <1>9 DEF Exact
<1> QED BY <1>5, <1>10 DEF after

Unreferred(table, chunks) == [c \in DOMAIN table |-> [table[c] EXCEPT !.refs = @ - Uses(chunks, c)]]
Freed(table, chunks) == {c \in DOMAIN table : Unreferred(table, chunks)[c].refs = 0}
Kept(table, chunks) ==
    Restrict(Unreferred(table, chunks), DOMAIN Unreferred(table, chunks) \ Freed(table, chunks))

\* A record that goes takes its references along, and the chunks that have no other.
LEMMA FewerReferences ==
    ASSUME NEW R, Chunked(R), NEW x \in R, NEW table \in Tables, Exact(R, table)
    PROVE  /\ Kept(table, x.chunks) \in Tables
           /\ DOMAIN Kept(table, x.chunks) = DOMAIN table \ Freed(table, x.chunks)
           /\ Exact(R \ {x}, Kept(table, x.chunks))
<1> DEFINE left == Unreferred(table, x.chunks)
           gone == Freed(table, x.chunks)
           after == Kept(table, x.chunks)
<1>0. /\ left = [c \in DOMAIN table |-> [table[c] EXCEPT !.refs = @ - Uses(x.chunks, c)]]
      /\ gone = {c \in DOMAIN table : left[c].refs = 0}
      /\ after = Restrict(left, DOMAIN left \ gone)
  BY DEF Unreferred, Freed, Kept
<1> HIDE DEF left, gone, after
<1>1. DOMAIN table \subseteq 1..MaxBlocks /\ \A c \in DOMAIN table : table[c] \in SharedChunk
  BY TableMembers
<1>2. DOMAIN after = DOMAIN table \ gone /\ \A c \in DOMAIN after : after[c] = left[c]
  BY <1>0, Taken
<1>3. ASSUME NEW c \in DOMAIN table
      PROVE  /\ left[c].content = table[c].content /\ left[c].data = table[c].data
             /\ left[c].refs = RefsOf(R \ {x}, c) /\ left[c] \in SharedChunk /\ left[c].refs \in Nat
  <2>1. table[c] \in SharedChunk /\ left[c] = [table[c] EXCEPT !.refs = @ - Uses(x.chunks, c)]
    BY <1>0, <1>1
  <2>2. left[c] = [content |-> table[c].content, data |-> table[c].data,
                   refs |-> table[c].refs - Uses(x.chunks, c)]
    BY <2>1 DEF SharedChunk
  <2>3. table[c].refs = RefsOf(R, c)
    BY DEF Exact
  <2>4. RefsOf(R \ {x}, c) = RefsOf(R, c) - Uses(x.chunks, c) /\ RefsOf(R \ {x}, c) \in Nat
    BY RefsLess DEF Chunked
  <2>5. left[c] = [content |-> table[c].content, data |-> table[c].data, refs |-> RefsOf(R \ {x}, c)]
    BY <2>2, <2>3, <2>4
  <2> DEFINE old == table[c]
             new == left[c]
             k == RefsOf(R \ {x}, c)
  <2>6. new = [content |-> old.content, data |-> old.data, refs |-> k] /\ k \in Nat /\ old \in SharedChunk
    BY <2>1, <2>4, <2>5
  <2> HIDE DEF old, new, k
  <2>7. new.content = old.content /\ new.data = old.data /\ new.refs = k /\ new.refs \in Nat
    BY <2>6
  <2>8. new \in SharedChunk
    BY <2>6 DEF SharedChunk
  <2> QED BY <2>7, <2>8 DEF old, new, k
<1>4. after \in Tables
  <2>1. after = [c \in DOMAIN after |-> after[c]]
    BY <1>0 DEF Restrict
  <2>2. DOMAIN after \subseteq 1..MaxBlocks
    BY <1>1, <1>2
  <2>3. \A c \in DOMAIN after : after[c] \in SharedChunk
    BY <1>2, <1>3
  <2> QED BY <2>1, <2>2, <2>3, TableOf
<1>5. ASSUME NEW c \in DOMAIN after PROVE after[c].refs = RefsOf(R \ {x}, c) /\ after[c].refs > 0
  <2>1. c \in DOMAIN table /\ after[c] = left[c] /\ c \notin gone
    BY <1>2
  <2>2. left[c].refs # 0
    BY <1>0, <2>1
  <2>3. left[c].refs \in Nat /\ left[c].refs = RefsOf(R \ {x}, c)
    BY <1>3, <2>1
  <2> QED BY <2>1, <2>2, <2>3
<1>6. ASSUME NEW r \in R \ {x}, NEW i \in DOMAIN r.chunks
      PROVE  /\ r.chunks[i].chunk \in DOMAIN after
             /\ after[r.chunks[i].chunk].content = r.chunks[i].content
             /\ after[r.chunks[i].chunk].data = r.chunks[i].data
  <2> DEFINE c == r.chunks[i].chunk
  <2>1. c \in DOMAIN table /\ table[c].content = r.chunks[i].content /\ table[c].data = r.chunks[i].data
    BY DEF Exact, Covers
  <2>2. RefsOf(R \ {x}, c) # 0
    <3>1. IsFiniteSet(R \ {x}) /\ \A q \in R \ {x} : q.chunks \in Seq(ChunkUse)
      BY FS_Subset DEF Chunked
    <3> QED BY <3>1, RefsSome
  <2> HIDE DEF c
  <2>3. c \notin gone
    BY <1>0, <1>3, <2>1, <2>2
  <2>4. c \in DOMAIN after /\ after[c] = left[c]
    BY <1>2, <2>1, <2>3
  <2> QED BY <1>3, <2>1, <2>4 DEF c
<1>7. Exact(R \ {x}, after)
  BY <1>5, <1>6 DEF Exact, Covers
<1> QED BY <1>2, <1>4, <1>7 DEF gone, after

-----------------------------------------------------------------------------
(* Records that replace one another                                         *)

Tidy(r) == r.slot \in Slots /\ r.gen \in Nat /\ r.rev \in Nat /\ r.chunks \in Seq(ChunkUse)
Older(r, x) == r.gen < x.gen \/ (r.gen = x.gen /\ r.rev < x.rev)

\* What is in a slot is newer than all that was there, so that no record is ever there twice.
OrderInv ==
    /\ nextGeneration \in [Slots -> Nat]
    /\ IsFiniteSet(LiveRecords)
    /\ \A r \in LiveRecords : Tidy(r) /\ r.gen < nextGeneration[r.slot]
    /\ \A r \in retired : r.slot \in DOMAIN published => Older(r, published[r.slot])

\* A record is the first of a new identity, or the next revision of the one in its slot.
Succeeds(record) ==
    LET s == record.slot IN
    \/ /\ s \notin DOMAIN published /\ record.gen = nextGeneration[s]
       /\ nextGeneration' = [nextGeneration EXCEPT ![s] = @ + 1]
    \/ /\ s \in DOMAIN published /\ record.gen = published[s].gen /\ record.rev = published[s].rev + 1
       /\ nextGeneration' = nextGeneration

LEMMA LiveAre ==
    /\ \A s \in DOMAIN published : published[s] \in LiveRecords
    /\ \A r \in LiveRecords : r \in retired \/ \E s \in DOMAIN published : r = published[s]
    /\ retired \subseteq LiveRecords
BY DEF LiveRecords, Range

LEMMA RecordIsNew ==
    ASSUME RecordsInv, OrderInv, NEW record, Tidy(record), Succeeds(record)
    PROVE  record \notin LiveRecords
<1> SUFFICES ASSUME record \in LiveRecords PROVE FALSE
  OBVIOUS
<1> DEFINE s == record.slot
<1>1. record.gen < nextGeneration[s] /\ nextGeneration[s] \in Nat /\ record.gen \in Nat /\ record.rev \in Nat
  BY DEF OrderInv, Tidy
<1>2. s \in DOMAIN published /\ record.gen = published[s].gen /\ record.rev = published[s].rev + 1
  BY <1>1 DEF Succeeds
<1>3. published[s].gen \in Nat /\ published[s].rev \in Nat
  BY <1>2, LiveAre DEF OrderInv, Tidy
<1>4. CASE record \in retired
  BY <1>2, <1>3, <1>4 DEF OrderInv, Older
<1>5. CASE \E t \in DOMAIN published : record = published[t]
  <2>1. PICK t \in DOMAIN published : record = published[t]
    BY <1>5
  <2>2. t = s
    BY <2>1 DEF RecordsInv
  <2> QED BY <1>2, <1>3, <2>1, <2>2
<1> QED BY <1>4, <1>5, LiveAre

LEMMA LiveAfterPublish ==
    ASSUME NEW record, NEW reverse, NEW sequences, PublishRecord(record, reverse, sequences)
    PROVE  LiveRecords' = LiveRecords \cup {record}
<1> DEFINE s == record.slot
<1>1. /\ published' = With(published, s, record)
      /\ retired' = retired \cup (IF s \in DOMAIN published THEN {published[s]} ELSE {})
  BY DEF PublishRecord
<1>2. /\ DOMAIN published' = DOMAIN published \cup {s} /\ published'[s] = record
      /\ \A t \in DOMAIN published : t # s => published'[t] = published[t]
  <2> HIDE DEF s
  <2>1. /\ DOMAIN With(published, s, record) = DOMAIN published \cup {s}
        /\ With(published, s, record)[s] = record
        /\ \A t \in DOMAIN published : t # s => With(published, s, record)[t] = published[t]
    BY DEF With
  <2> QED BY <1>1, <2>1
<1>3. LiveRecords' = {published'[t] : t \in DOMAIN published'} \cup retired'
  BY DEF LiveRecords, Range
<1>4. LiveRecords = {published[t] : t \in DOMAIN published} \cup retired
  BY DEF LiveRecords, Range
<1>5. ASSUME NEW r \in LiveRecords' PROVE r \in LiveRecords \cup {record}
  BY <1>1, <1>2, <1>3, <1>4, <1>5
<1>6. ASSUME NEW r \in LiveRecords \cup {record} PROVE r \in LiveRecords'
  <2>1. CASE r = record
    BY <1>2, <1>3, <2>1
  <2>2. CASE r \in retired
    BY <1>1, <1>3, <2>2
  <2>3. ASSUME NEW t \in DOMAIN published, r = published[t] PROVE r \in LiveRecords'
    BY <1>1, <1>2, <1>3, <2>3
  <2> QED BY <1>4, <2>1, <2>2, <2>3
<1> QED BY <1>5, <1>6

LEMMA OrderPublish ==
    ASSUME RecordsInv, OrderInv, NEW record, Tidy(record), Succeeds(record), NEW reverse, NEW sequences,
           PublishRecord(record, reverse, sequences)
    PROVE  OrderInv'
<1> DEFINE s == record.slot
<1>1. /\ published' = With(published, s, record)
      /\ retired' = retired \cup (IF s \in DOMAIN published THEN {published[s]} ELSE {})
  BY DEF PublishRecord
<1>2. /\ DOMAIN published' = DOMAIN published \cup {s} /\ published'[s] = record
      /\ \A t \in DOMAIN published : t # s => published'[t] = published[t]
  <2> HIDE DEF s
  <2>1. /\ DOMAIN With(published, s, record) = DOMAIN published \cup {s}
        /\ With(published, s, record)[s] = record
        /\ \A t \in DOMAIN published : t # s => With(published, s, record)[t] = published[t]
    BY DEF With
  <2> QED BY <1>1, <2>1
<1>3. LiveRecords' = LiveRecords \cup {record}
  BY LiveAfterPublish
<1>4. s \in Slots /\ record.gen \in Nat /\ record.rev \in Nat
  BY DEF Tidy
<1>5. /\ nextGeneration' \in [Slots -> Nat]
      /\ \A t \in Slots : nextGeneration[t] <= nextGeneration'[t]
      /\ record.gen < nextGeneration'[s]
  <2>1. nextGeneration \in [Slots -> Nat]
    BY DEF OrderInv
  <2>2. CASE s \notin DOMAIN published
    BY <1>4, <2>1, <2>2 DEF Succeeds
  <2>3. CASE s \in DOMAIN published
    <3>1. nextGeneration' = nextGeneration /\ record.gen = published[s].gen
      BY <2>3 DEF Succeeds
    <3>2. published[s].slot = s /\ published[s].gen < nextGeneration[published[s].slot]
      BY <2>3, LiveAre DEF OrderInv, RecordsInv
    <3> QED BY <2>1, <3>1, <3>2
  <2> QED BY <2>2, <2>3
<1>6. IsFiniteSet(LiveRecords')
  <2>1. IsFiniteSet(LiveRecords)
    BY DEF OrderInv
  <2> QED BY <1>3, <2>1, FS_AddElement
<1>7. ASSUME NEW r \in LiveRecords' PROVE Tidy(r) /\ r.gen < nextGeneration'[r.slot]
  <2>1. CASE r = record
    BY <1>5, <2>1
  <2>2. CASE r \in LiveRecords
    <3>1. Tidy(r) /\ r.gen < nextGeneration[r.slot]
      BY <2>2 DEF OrderInv
    <3>2. r.slot \in Slots /\ r.gen \in Nat /\ nextGeneration[r.slot] \in Nat /\ nextGeneration'[r.slot] \in Nat
      BY <1>5, <3>1 DEF Tidy, OrderInv
    <3>3. nextGeneration[r.slot] <= nextGeneration'[r.slot]
      BY <1>5, <3>2
    <3>4. r.gen < nextGeneration'[r.slot]
      BY <3>1, <3>2, <3>3
    <3> QED BY <3>1, <3>4
  <2> QED BY <1>3, <1>7, <2>1, <2>2
<1>8. ASSUME NEW r \in retired', r.slot \in DOMAIN published' PROVE Older(r, published'[r.slot])
  <2>1. CASE r \in retired /\ r.slot # s
    BY <1>2, <1>8, <2>1 DEF OrderInv
  <2>2. CASE r \in retired /\ r.slot = s /\ s \notin DOMAIN published
    <3>1. r.gen < nextGeneration[s]
      BY <2>2, LiveAre DEF OrderInv
    <3>2. record.gen = nextGeneration[s]
      BY <2>2 DEF Succeeds
    <3>3. Older(r, record)
      BY <3>1, <3>2 DEF Older
    <3> QED BY <1>2, <2>2, <3>3
  <2>3. CASE s \in DOMAIN published /\ r.slot = s /\ (r \in retired \/ r = published[s])
    <3> DEFINE old == published[s]
    <3>1. record.gen = old.gen /\ record.rev = old.rev + 1
      BY <2>3 DEF Succeeds
    <3>2. Older(r, old) \/ r = old
      BY <2>3 DEF OrderInv
    <3>3. r.gen \in Nat /\ r.rev \in Nat /\ old.gen \in Nat /\ old.rev \in Nat
      BY <2>3, LiveAre DEF OrderInv, Tidy
    <3> HIDE DEF old
    <3>4. Older(r, record)
      BY <3>1, <3>2, <3>3 DEF Older
    <3> QED BY <1>2, <2>3, <3>4
  <2>4. r \in retired \/ (s \in DOMAIN published /\ r = published[s])
    BY <1>1, <1>8
  <2>5. s \in DOMAIN published /\ r = published[s] => r.slot = s
    BY DEF RecordsInv
  <2> QED BY <2>1, <2>2, <2>3, <2>4, <2>5
<1> QED BY <1>5, <1>6, <1>7, <1>8 DEF OrderInv

\* A record that is retired lives on.
LEMMA OrderRetire ==
    ASSUME RecordsInv, OrderInv, NEW s, Retire(s)
    PROVE  OrderInv' /\ LiveRecords' = LiveRecords
<1>1. /\ s \in DOMAIN published /\ nextGeneration' = nextGeneration
      /\ published' = Restrict(published, DOMAIN published \ {s}) /\ retired' = retired \cup {published[s]}
  BY DEF Retire
<1>2. DOMAIN published' = DOMAIN published \ {s} /\ \A t \in DOMAIN published' : published'[t] = published[t]
  BY <1>1, Taken
<1>3. LiveRecords' = LiveRecords
  <2>1. LiveRecords' = {published'[t] : t \in DOMAIN published'} \cup retired'
    BY DEF LiveRecords, Range
  <2>2. LiveRecords = {published[t] : t \in DOMAIN published} \cup retired
    BY DEF LiveRecords, Range
  <2>3. \A r : r \in LiveRecords' <=> r \in LiveRecords
    BY <1>1, <1>2, <2>1, <2>2
  <2> QED BY <2>3
<1>4. ASSUME NEW r \in retired', r.slot \in DOMAIN published' PROVE Older(r, published'[r.slot])
  <2>1. r # published[s]
    BY <1>1, <1>2, <1>4 DEF RecordsInv
  <2>2. r \in retired /\ r.slot \in DOMAIN published
    BY <1>1, <1>2, <1>4, <2>1
  <2> QED BY <1>2, <1>4, <2>2 DEF OrderInv
<1> QED BY <1>1, <1>3, <1>4 DEF OrderInv

LEMMA OrderCollect ==
    ASSUME RecordsInv, OrderInv, NEW record \in retired, Collect(record)
    PROVE  OrderInv' /\ LiveRecords' = LiveRecords \ {record} /\ record \in LiveRecords
<1>1. retired' = retired \ {record} /\ published' = published /\ nextGeneration' = nextGeneration
  BY DEF Collect
<1>2. record \in LiveRecords /\ record.gen \in Nat /\ record.rev \in Nat
  BY LiveAre DEF OrderInv, Tidy
<1>3. \A t \in DOMAIN published : published[t] # record
  BY <1>2 DEF OrderInv, Older, RecordsInv
<1>4. LiveRecords' = LiveRecords \ {record}
  <2>1. LiveRecords' = {published[t] : t \in DOMAIN published} \cup retired'
    BY <1>1 DEF LiveRecords, Range
  <2>2. LiveRecords = {published[t] : t \in DOMAIN published} \cup retired
    BY DEF LiveRecords, Range
  <2> QED BY <1>1, <1>3, <2>1, <2>2
<1>5. IsFiniteSet(LiveRecords')
  BY <1>4, FS_RemoveElement DEF OrderInv
<1> QED BY <1>1, <1>2, <1>4, <1>5 DEF OrderInv

LEMMA OrderUntouched ==
    ASSUME OrderInv, UNCHANGED <<published, retired, nextGeneration>>
    PROVE  OrderInv' /\ LiveRecords' = LiveRecords
<1>1. LiveRecords' = LiveRecords
  BY DEF LiveRecords, Range
<1> QED BY <1>1 DEF OrderInv

-----------------------------------------------------------------------------
(* The budget                                                               *)

Budget(records, table, stage) ==
    Cardinality(records) + 2 * Cardinality(DOMAIN table) + Cardinality(DOMAIN stage)

MemoryInv == MemoryTypes /\ OrderInv /\ Exact(LiveRecords, shared) /\ blocks = Budget(LiveRecords, shared, staging)

LEMMA MemoryTells ==
    ASSUME MemoryInv
    PROVE  MemoryExact
<1>1. \A c : RefsOf(LiveRecords, c) = References(c)
  BY DEF RefsOf, References
<1> QED BY <1>1 DEF MemoryInv, Exact, Covers, Budget, MemoryExact

LEMMA StagingFinite ==
    ASSUME NEW S, S \subseteq StagingSlots
    PROVE  IsFiniteSet(S) /\ Cardinality(S) \in Nat
<1>1. IsFiniteSet(StagingSlots)
  <2>1. MaxStaging - 1 \in Int
    BY MemoryAssumption
  <2> QED BY <2>1, FS_Interval DEF StagingSlots
<1> QED BY <1>1, FS_Subset, FS_CardinalityType

LEMMA MemoryFinite ==
    ASSUME MemoryInv
    PROVE  /\ Chunked(LiveRecords) /\ Cardinality(LiveRecords) \in Nat
           /\ IsFiniteSet(DOMAIN shared) /\ Cardinality(DOMAIN shared) \in Nat
           /\ IsFiniteSet(DOMAIN staging) /\ Cardinality(DOMAIN staging) \in Nat
           /\ Cardinality(DOMAIN shared) <= blocks
<1>1. Chunked(LiveRecords) /\ Cardinality(LiveRecords) \in Nat
  <2>1. IsFiniteSet(LiveRecords)
    BY DEF MemoryInv, OrderInv
  <2>2. \A r \in LiveRecords : r.chunks \in Seq(ChunkUse)
    BY DEF MemoryInv, OrderInv, Tidy
  <2> QED BY <2>1, <2>2, FS_CardinalityType DEF Chunked
<1>2. IsFiniteSet(DOMAIN shared) /\ Cardinality(DOMAIN shared) \in Nat
  <2>1. shared \in Tables
    BY DEF MemoryInv, MemoryTypes
  <2> QED BY <2>1, TableMembers, FS_CardinalityType
<1>3. IsFiniteSet(DOMAIN staging) /\ Cardinality(DOMAIN staging) \in Nat
  BY StagingFinite DEF MemoryInv, MemoryTypes
<1>4. Cardinality(DOMAIN shared) <= blocks
  <2> DEFINE a == Cardinality(LiveRecords)
             b == Cardinality(DOMAIN shared)
             c == Cardinality(DOMAIN staging)
  <2>1. a \in Nat /\ b \in Nat /\ c \in Nat /\ blocks = a + 2 * b + c
    BY <1>1, <1>2, <1>3 DEF MemoryInv, Budget
  <2> HIDE DEF a, b, c
  <2>2. b <= blocks
    BY <2>1
  <2> QED BY <2>2 DEF b
<1> QED BY <1>1, <1>2, <1>3, <1>4

\* What a record costs that is new: itself, and two blocks for each fresh chunk less the buffers it uses up.
LEMMA BudgetCommit ==
    ASSUME NEW n \in Nat, NEW r \in Nat, NEW t \in Nat, NEW s \in Nat, NEW fresh \in Nat, NEW staged \in Nat,
           n = r + 2 * t + s, NEW limit \in Nat, fresh <= staged, staged <= s, n + 1 + fresh <= limit,
           NEW after, after = n + 1 + fresh - (staged - fresh)
    PROVE  after = (r + 1) + 2 * (t + fresh) + (s - staged) /\ after \in Nat /\ after <= limit
OBVIOUS

LEMMA MemoryStart == LoadInit => MemoryInv
<1> SUFFICES ASSUME LoadInit PROVE MemoryInv
  OBVIOUS
<1>1. /\ published = <<>> /\ retired = {} /\ nextGeneration = [s \in Slots |-> 1]
      /\ staging = <<>> /\ shared = <<>> /\ blocks = 0
  BY DEF LoadInit, WriterInit, MemoryInit
<1>2. LiveRecords = {} /\ DOMAIN shared = {} /\ DOMAIN staging = {}
  BY <1>1 DEF LiveRecords, Range
<1>3. IsFiniteSet({}) /\ Cardinality({}) = 0
  BY FS_EmptySet
<1>4. shared \in Tables
  <2>1. shared = [c \in DOMAIN shared |-> shared[c]]
    BY <1>1
  <2> QED BY <1>2, <2>1, TableOf
<1>5. MemoryTypes
  <2>1. staging \in [DOMAIN staging -> Payloads]
    BY <1>1, <1>2
  <2> QED BY <1>1, <1>2, <1>4, <2>1, MemoryAssumption DEF MemoryTypes
<1>6. OrderInv
  BY <1>1, <1>2, <1>3 DEF OrderInv
<1>7. Exact(LiveRecords, shared)
  BY <1>2 DEF Exact
<1>8. blocks = Budget(LiveRecords, shared, staging)
  BY <1>1, <1>2, <1>3 DEF Budget
<1> QED BY <1>5, <1>6, <1>7, <1>8 DEF MemoryInv

LEMMA RecordSucceeds ==
    ASSUME RecordsInv, MemoryInv, NEW publication, NEW chunks \in Seq(ChunkUse), Admitted(publication),
           nextGeneration' = IF Known(publication.key) THEN nextGeneration
                             ELSE [nextGeneration EXCEPT ![Record(publication, chunks).slot] = @ + 1]
    PROVE  Tidy(Record(publication, chunks)) /\ Succeeds(Record(publication, chunks))
<1> DEFINE record == Record(publication, chunks)
           s == SlotFor(publication.key)
<1>1. /\ s \in Slots
      /\ Known(publication.key) => s \in DOMAIN published
      /\ ~Known(publication.key) => s \notin DOMAIN published
  BY SlotForIsSlot DEF Admitted
<1>2. /\ record.slot = s /\ record.chunks = chunks
      /\ record.gen = IF Known(publication.key) THEN published[s].gen ELSE nextGeneration[s]
      /\ record.rev = IF Known(publication.key) THEN published[s].rev + 1 ELSE 1
  BY DEF Record
<1> HIDE DEF s
<1>3. CASE Known(publication.key)
  <2>1. s \in DOMAIN published /\ record.gen = published[s].gen /\ record.rev = published[s].rev + 1
    BY <1>1, <1>2, <1>3
  <2>2. published[s].gen \in Nat /\ published[s].rev \in Nat
    BY <2>1, LiveAre DEF MemoryInv, OrderInv, Tidy
  <2>3. nextGeneration' = nextGeneration
    BY <1>3
  <2> HIDE DEF record
  <2>4. Tidy(record)
    BY <1>1, <1>2, <2>1, <2>2 DEF Tidy
  <2>5. Succeeds(record)
    BY <1>1, <1>2, <2>1, <2>3 DEF Succeeds
  <2> QED BY <2>4, <2>5 DEF record
<1>4. CASE ~Known(publication.key)
  <2>1. s \notin DOMAIN published /\ record.gen = nextGeneration[s] /\ record.rev = 1
    BY <1>1, <1>2, <1>4
  <2>2. nextGeneration[s] \in Nat
    BY <1>1 DEF MemoryInv, OrderInv
  <2>3. nextGeneration' = [nextGeneration EXCEPT ![s] = @ + 1]
    BY <1>2, <1>4
  <2> HIDE DEF record
  <2>4. Tidy(record)
    BY <1>1, <1>2, <2>1, <2>2 DEF Tidy
  <2>5. Succeeds(record)
    BY <1>1, <1>2, <2>1, <2>3 DEF Succeeds
  <2> QED BY <2>4, <2>5 DEF record
<1> QED BY <1>3, <1>4

\* A publication that goes through.
LEMMA MemoryCommit ==
    ASSUME RecordsInv, MemoryInv, NEW publication, NEW inputs \in Seq(ChunkInput), Admitted(publication),
           Commit(publication, Prepare(inputs))
    PROVE  MemoryInv'
<1> DEFINE p == Prepare(inputs)
           record == Record(publication, p.chunks)
<1>1. PartsInv(p)
  BY PartsPrepared, MemoryFinite DEF MemoryInv, Admitted
<1> HIDE DEF p
<1>2. /\ Adopt(p)
      /\ \E reverse, sequences : PublishRecord(record, reverse, sequences)
      /\ nextGeneration' = IF Known(publication.key) THEN nextGeneration
                           ELSE [nextGeneration EXCEPT ![record.slot] = @ + 1]
  BY DEF Commit, p
<1>3. p.chunks \in Seq(ChunkUse) /\ p.shared \in Tables
  BY <1>1 DEF PartsInv, Parts
<1>4. Tidy(record) /\ Succeeds(record) /\ record.chunks = p.chunks
  BY <1>2, <1>3, RecordSucceeds DEF Record
<1> HIDE DEF record
<1>5. OrderInv' /\ LiveRecords' = LiveRecords \cup {record} /\ record \notin LiveRecords
  <2>1. OrderInv
    BY DEF MemoryInv
  <2> QED BY <1>2, <1>4, <2>1, OrderPublish, LiveAfterPublish, RecordIsNew
<1>6. shared' \in Tables /\ Exact(LiveRecords', shared')
  <2>1. /\ Chunked(LiveRecords) /\ shared \in Tables /\ Exact(LiveRecords, shared)
    BY MemoryFinite DEF MemoryInv, MemoryTypes
  <2>2. Furthers(p.shared, shared, p.fresh, record.chunks) /\ record.chunks \in Seq(ChunkUse)
    BY <1>1, <1>3, <1>4 DEF PartsInv, Furthers
  <2>3. shared' = Referred(p.shared, record.chunks)
    BY <1>2, <1>4 DEF Adopt, Referred
  <2>4. shared' \in Tables /\ Exact(LiveRecords \cup {record}, shared')
    BY <1>3, <1>5, <2>1, <2>2, <2>3, MoreReferences
  <2> QED BY <1>5, <2>4
<1>7. staging' \in [DOMAIN staging' -> Payloads] /\ DOMAIN staging' = DOMAIN staging \ p.staged
      /\ DOMAIN staging' \subseteq StagingSlots
  <2>1. staging' = Restrict(staging, DOMAIN staging \ p.staged)
    BY <1>2 DEF Adopt
  <2>2. staging' = [x \in DOMAIN staging \ p.staged |-> staging[x]]
    BY <2>1 DEF Restrict
  <2> QED BY <2>2 DEF MemoryInv, MemoryTypes
<1>8. /\ Cardinality(LiveRecords') = Cardinality(LiveRecords) + 1
      /\ Cardinality(DOMAIN shared') = Cardinality(DOMAIN shared) + Cardinality(p.fresh)
      /\ Cardinality(DOMAIN staging') = Cardinality(DOMAIN staging) - Cardinality(p.staged)
      /\ Cardinality(p.staged) <= Cardinality(DOMAIN staging)
      /\ Cardinality(p.staged) \in Nat /\ Cardinality(p.fresh) \in Nat
  <2>1. IsFiniteSet(p.fresh) /\ IsFiniteSet(p.staged)
        /\ Cardinality(p.staged) \in Nat /\ Cardinality(p.fresh) \in Nat
    BY <1>1, PartsFinite DEF PartsInv
  <2>2. Cardinality(LiveRecords') = Cardinality(LiveRecords) + 1
    BY <1>5, MemoryFinite, FS_AddElement DEF Chunked
  <2>3. Cardinality(DOMAIN shared') = Cardinality(DOMAIN shared) + Cardinality(p.fresh)
    <3>1. DOMAIN shared' = DOMAIN shared \cup p.fresh /\ DOMAIN shared \cap p.fresh = {}
      BY <1>1, <1>2 DEF Adopt, PartsInv
    <3> QED BY <2>1, <3>1, MemoryFinite, Joined
  <2>4. p.staged \subseteq DOMAIN staging
    BY <1>1 DEF PartsInv
  <2>5. Cardinality(DOMAIN staging \ p.staged) = Cardinality(DOMAIN staging) - Cardinality(p.staged)
    <3>1. DOMAIN staging \cap p.staged = p.staged
      BY <2>4
    <3>2. Cardinality(DOMAIN staging \ p.staged) =
              Cardinality(DOMAIN staging) - Cardinality(DOMAIN staging \cap p.staged)
      BY MemoryFinite, FS_Difference
    <3> QED BY <3>1, <3>2
  <2>6. Cardinality(p.staged) <= Cardinality(DOMAIN staging)
    BY <2>4, MemoryFinite, FS_Subset
  <2> QED BY <1>7, <2>1, <2>2, <2>3, <2>5, <2>6
<1>9. blocks' = Budget(LiveRecords', shared', staging') /\ blocks' \in Nat /\ blocks' <= MaxBlocks
  <2> DEFINE r == Cardinality(LiveRecords)
             t == Cardinality(DOMAIN shared)
             s == Cardinality(DOMAIN staging)
             fresh == Cardinality(p.fresh)
             staged == Cardinality(p.staged)
             n == p.blocks
  <2>1. /\ r \in Nat /\ t \in Nat /\ s \in Nat /\ fresh \in Nat /\ staged \in Nat /\ blocks \in Nat
        /\ blocks = r + 2 * t + s
    BY <1>8, MemoryFinite DEF MemoryInv, MemoryTypes, Budget
  <2>2. fresh <= staged /\ staged <= s
    BY <1>1, <1>8 DEF PartsInv
  <2>3. n = blocks + 1 + fresh /\ n <= MaxBlocks
    BY <1>1 DEF PartsInv
  <2>4. blocks' = n - (staged - fresh)
    BY <1>2 DEF Adopt
  <2>5. Budget(LiveRecords', shared', staging') = (r + 1) + 2 * (t + fresh) + (s - staged)
    BY <1>8 DEF Budget
  <2>6. MaxBlocks \in Nat
    BY MemoryAssumption
  <2> HIDE DEF r, t, s, fresh, staged, n
  <2>7. blocks' = blocks + 1 + fresh - (staged - fresh) /\ blocks + 1 + fresh <= MaxBlocks
    BY <2>1, <2>3, <2>4
  <2>8. blocks' = (r + 1) + 2 * (t + fresh) + (s - staged) /\ blocks' \in Nat /\ blocks' <= MaxBlocks
    BY <2>1, <2>2, <2>6, <2>7, BudgetCommit
  <2> QED BY <2>5, <2>8
<1>10. MemoryTypes'
  BY <1>6, <1>7, <1>9 DEF MemoryTypes
<1> QED BY <1>5, <1>6, <1>9, <1>10 DEF MemoryInv

\* A record whose chunks are all there already.
LEMMA MemoryReferred ==
    ASSUME RecordsInv, MemoryInv, NEW record, Tidy(record), Succeeds(record), NEW reverse, NEW sequences,
           PublishRecord(record, reverse, sequences), Covers(shared, record.chunks),
           shared' = Referred(shared, record.chunks), blocks < MaxBlocks, blocks' = blocks + 1, staging' = staging
    PROVE  MemoryInv'
<1>1. OrderInv' /\ LiveRecords' = LiveRecords \cup {record} /\ record \notin LiveRecords
  <2>1. OrderInv
    BY DEF MemoryInv
  <2> QED BY <2>1, OrderPublish, LiveAfterPublish, RecordIsNew
<1>2. shared' \in Tables /\ Exact(LiveRecords', shared')
  <2>1. Chunked(LiveRecords) /\ shared \in Tables /\ Exact(LiveRecords, shared)
    BY MemoryFinite DEF MemoryInv, MemoryTypes
  <2>2. Furthers(shared, shared, {}, record.chunks) /\ record.chunks \in Seq(ChunkUse)
    BY DEF Furthers, Tidy
  <2>3. Referred(shared, record.chunks) \in Tables
        /\ Exact(LiveRecords \cup {record}, Referred(shared, record.chunks))
    BY <1>1, <2>1, <2>2, MoreReferences
  <2> QED BY <1>1, <2>3
<1>3. DOMAIN shared' = DOMAIN shared
  BY DEF Referred
<1>4. Cardinality(LiveRecords') = Cardinality(LiveRecords) + 1
  BY <1>1, MemoryFinite, FS_AddElement DEF Chunked
<1>5. blocks' = Budget(LiveRecords', shared', staging') /\ blocks' \in Nat /\ blocks' <= MaxBlocks
  <2> DEFINE r == Cardinality(LiveRecords)
             t == Cardinality(DOMAIN shared)
             s == Cardinality(DOMAIN staging)
  <2>1. r \in Nat /\ t \in Nat /\ s \in Nat /\ blocks \in Nat /\ blocks = r + 2 * t + s
    BY MemoryFinite DEF MemoryInv, MemoryTypes, Budget
  <2>2. Budget(LiveRecords', shared', staging') = (r + 1) + 2 * t + s
    BY <1>3, <1>4 DEF Budget
  <2> HIDE DEF r, t, s
  <2> QED BY <2>1, <2>2, MemoryAssumption
<1>6. MemoryTypes'
  BY <1>2, <1>5 DEF MemoryInv, MemoryTypes
<1> QED BY <1>1, <1>2, <1>5, <1>6 DEF MemoryInv

LEMMA MemoryRequest ==
    ASSUME RecordsInv, MemoryInv, NEW key, Request(key)
    PROVE  MemoryInv'
<1> DEFINE s == LowestFree(Slots, DOMAIN published)
           record == [slot |-> s, key |-> key, kind |-> "none", gen |-> nextGeneration[s], rev |-> 0,
                      state |-> "REQUESTED", deps |-> <<>>, chunks |-> <<>>]
           sequences == [invalidation EXCEPT ![s] = 0]
<1>1. /\ PublishRecord(record, edges, sequences) /\ nextGeneration' = [nextGeneration EXCEPT ![s] = @ + 1]
      /\ blocks < MaxBlocks /\ blocks' = blocks + 1 /\ staging' = staging /\ shared' = shared
  BY DEF Request
<1>2. s \in Slots \ DOMAIN published
  BY SlotsAreNaturals, LowestFreeIsFree DEF EmptySlots, Request
<1>3. record.slot = s /\ record.gen = nextGeneration[s] /\ record.rev = 0 /\ record.chunks = <<>>
  OBVIOUS
<1> HIDE DEF s, record, sequences
<1>4. nextGeneration[s] \in Nat
  BY <1>2 DEF MemoryInv, OrderInv
<1>5. Tidy(record) /\ Succeeds(record)
  <2>1. <<>> \in Seq(ChunkUse)
    BY EmptySeq
  <2> QED BY <1>1, <1>2, <1>3, <1>4, <2>1 DEF Tidy, Succeeds
<1>6. Covers(shared, record.chunks)
  BY <1>3 DEF Covers
<1>7. shared' = Referred(shared, record.chunks)
  <2>1. shared \in Tables
    BY DEF MemoryInv, MemoryTypes
  <2>2. shared = [c \in DOMAIN shared |-> shared[c]] /\ \A c \in DOMAIN shared : shared[c] \in SharedChunk
    BY <2>1, TableMembers
  <2>3. ASSUME NEW c \in DOMAIN shared
        PROVE  [shared[c] EXCEPT !.refs = @ + Uses(record.chunks, c)] = shared[c]
    <3> DEFINE old == shared[c]
    <3>1. old \in SharedChunk
      BY <2>2
    <3>2. Uses(record.chunks, c) = 0
      <4>1. {i \in DOMAIN record.chunks : record.chunks[i].chunk = c} = {}
        BY <1>3
      <4> QED BY <4>1, FS_EmptySet DEF Uses
    <3> HIDE DEF old
    <3>3. [old EXCEPT !.refs = @ + 0] = old
      BY <3>1 DEF SharedChunk
    <3> QED BY <3>2, <3>3 DEF old
  <2>4. Referred(shared, record.chunks) = shared
    BY <2>2, <2>3 DEF Referred
  <2> QED BY <1>1, <2>4
<1> QED BY <1>1, <1>5, <1>6, <1>7, MemoryReferred

\* A chunk that is taken from a record leaves the others.
LEMMA Removed ==
    ASSUME NEW chunks \in Seq(ChunkUse), NEW table, Covers(table, chunks), NEW i \in DOMAIN chunks
    PROVE  RemoveAt(chunks, i) \in Seq(ChunkUse) /\ Covers(table, RemoveAt(chunks, i))
<1> DEFINE n == Len(chunks)
           S == {chunks[j] : j \in 1..n}
           a == SubSeq(chunks, 1, i - 1)
           b == SubSeq(chunks, i + 1, n)
           left == a \o b
<1>1. n \in Nat /\ DOMAIN chunks = 1..n /\ i \in 1..n
  BY LenProperties
<1>2. S \subseteq ChunkUse
  BY <1>1, ElementOfSeq
<1>3. a \in Seq(S)
  <2>1. \A j \in 1..(i - 1) : chunks[j] \in S
    BY <1>1
  <2> HIDE DEF S
  <2> QED BY <1>1, <2>1, SubSeqProperties
<1>4. b \in Seq(S)
  <2>1. \A j \in (i + 1)..n : chunks[j] \in S
    BY <1>1
  <2> HIDE DEF S, n
  <2> QED BY <1>1, <2>1, SubSeqProperties
<1>5. left \in Seq(S)
  <2> HIDE DEF S, a, b
  <2> QED BY <1>3, <1>4, ConcatProperties
<1>6. RemoveAt(chunks, i) = left
  BY DEF RemoveAt
<1> HIDE DEF left
<1>7. \A j \in DOMAIN left : left[j] \in S
  <2> HIDE DEF S
  <2>1. DOMAIN left = 1..Len(left)
    BY <1>5, LenProperties
  <2> QED BY <1>5, <2>1, ElementOfSeq
<1>8. left \in Seq(ChunkUse)
  <2> HIDE DEF S
  <2> QED BY <1>2, <1>5
<1>9. ASSUME NEW j \in DOMAIN left
      PROVE  /\ left[j].chunk \in DOMAIN table
             /\ table[left[j].chunk].content = left[j].content /\ table[left[j].chunk].data = left[j].data
  <2>1. PICK h \in 1..n : left[j] = chunks[h]
    BY <1>7
  <2> QED BY <1>1, <2>1 DEF Covers
<1> QED BY <1>6, <1>8, <1>9 DEF Covers

LEMMA MemoryReplace ==
    ASSUME RecordsInv, MemoryInv, NEW s \in DOMAIN published, NEW chunks \in Seq(ChunkUse), Covers(shared, chunks),
           NEW state, Replace(published[s], chunks, state)
    PROVE  MemoryInv'
<1> DEFINE old == published[s]
           record == [old EXCEPT !.rev = @ + 1, !.state = state, !.chunks = chunks]
<1>1. /\ PublishRecord(record, edges, invalidation) /\ nextGeneration' = nextGeneration
      /\ blocks < MaxBlocks /\ Keep(chunks)
  BY DEF Replace
<1>2. Whole(old) /\ old.slot = s /\ s \in Slots
  BY DEF RecordsInv
<1>3. old.gen \in Nat /\ old.rev \in Nat
  BY LiveAre DEF MemoryInv, OrderInv, Tidy
<1>4. record.slot = s /\ record.gen = old.gen /\ record.rev = old.rev + 1 /\ record.chunks = chunks
  <2>1. record = [slot |-> old.slot, key |-> old.key, kind |-> old.kind, gen |-> old.gen, rev |-> old.rev + 1,
                  state |-> state, deps |-> old.deps, chunks |-> chunks]
    BY <1>2, Replacement
  <2> HIDE DEF record
  <2> QED BY <1>2, <2>1
<1> HIDE DEF record
<1>5. Tidy(record)
  BY <1>2, <1>3, <1>4 DEF Tidy
<1>6. Succeeds(record)
  BY <1>1, <1>4 DEF Succeeds
<1>7. shared' = Referred(shared, record.chunks) /\ blocks' = blocks + 1 /\ staging' = staging
  BY <1>1, <1>4 DEF Keep, Referred
<1> QED BY <1>1, <1>4, <1>5, <1>6, <1>7, MemoryReferred

\* What the records of a state find in memory.
LEMMA LiveFinds ==
    ASSUME MemoryInv, NEW s \in DOMAIN published
    PROVE  published[s].chunks \in Seq(ChunkUse) /\ Covers(shared, published[s].chunks)
BY LiveAre DEF MemoryInv, OrderInv, Tidy, Exact

LEMMA MemoryRetire ==
    ASSUME RecordsInv, MemoryInv, NEW s, Retire(s)
    PROVE  MemoryInv'
<1>1. OrderInv' /\ LiveRecords' = LiveRecords
  BY OrderRetire DEF MemoryInv
<1>2. UNCHANGED <<staging, shared, blocks>>
  BY DEF Retire, memoryVars
<1> QED BY <1>1, <1>2 DEF MemoryInv, MemoryTypes, Budget

LEMMA MemoryCollect ==
    ASSUME RecordsInv, MemoryInv, NEW record \in retired, Collect(record)
    PROVE  MemoryInv'
<1> DEFINE gone == Freed(shared, record.chunks)
<1>1. /\ shared' = Kept(shared, record.chunks)
      /\ blocks' = blocks - 1 - 2 * Cardinality(gone) /\ staging' = staging
  BY DEF Collect, Destroy, Kept, Unreferred, Freed
<1>2. OrderInv' /\ LiveRecords' = LiveRecords \ {record} /\ record \in LiveRecords
  BY OrderCollect DEF MemoryInv
<1>3. shared' \in Tables /\ DOMAIN shared' = DOMAIN shared \ gone /\ Exact(LiveRecords', shared')
  <2>1. Chunked(LiveRecords) /\ shared \in Tables /\ Exact(LiveRecords, shared)
    BY MemoryFinite DEF MemoryInv, MemoryTypes
  <2> QED BY <1>1, <1>2, <2>1, FewerReferences
<1>4. gone \subseteq DOMAIN shared
  BY DEF Freed
<1> HIDE DEF gone
<1>5. Cardinality(LiveRecords') = Cardinality(LiveRecords) - 1 /\ Cardinality(LiveRecords') \in Nat
  <2>1. IsFiniteSet(LiveRecords)
    BY MemoryFinite DEF Chunked
  <2>2. Cardinality(LiveRecords \ {record}) = Cardinality(LiveRecords) - 1 /\ IsFiniteSet(LiveRecords \ {record})
    BY <1>2, <2>1, FS_RemoveElement
  <2> QED BY <1>2, <2>2, FS_CardinalityType
<1>6. /\ Cardinality(DOMAIN shared') = Cardinality(DOMAIN shared) - Cardinality(gone)
      /\ Cardinality(DOMAIN shared') \in Nat /\ Cardinality(gone) \in Nat
  <2>1. IsFiniteSet(gone) /\ Cardinality(gone) \in Nat
    BY <1>4, MemoryFinite, FS_Subset, FS_CardinalityType
  <2>2. IsFiniteSet(DOMAIN shared \ gone)
        /\ Cardinality(DOMAIN shared \ gone) = Cardinality(DOMAIN shared) - Cardinality(DOMAIN shared \cap gone)
    BY MemoryFinite, FS_Difference
  <2>3. DOMAIN shared \cap gone = gone
    BY <1>4
  <2>4. Cardinality(DOMAIN shared \ gone) \in Nat
    BY <2>2, FS_CardinalityType
  <2> QED BY <1>3, <2>1, <2>2, <2>3, <2>4
<1>7. blocks' = Budget(LiveRecords', shared', staging') /\ blocks' \in Nat /\ blocks' <= MaxBlocks
  <2> DEFINE r == Cardinality(LiveRecords)
             t == Cardinality(DOMAIN shared)
             s == Cardinality(DOMAIN staging)
             g == Cardinality(gone)
  <2>1. /\ r \in Nat /\ t \in Nat /\ s \in Nat /\ blocks \in Nat /\ blocks <= MaxBlocks
        /\ blocks = r + (2 * t) + s
    BY MemoryFinite DEF MemoryInv, MemoryTypes, Budget
  <2>2. Budget(LiveRecords', shared', staging') = (r - 1) + (2 * (t - g)) + s
    BY <1>1, <1>5, <1>6 DEF Budget
  <2>3. g \in Nat /\ r - 1 \in Nat /\ t - g \in Nat
    BY <1>5, <1>6
  <2>4. blocks' = blocks - 1 - (2 * g) /\ MaxBlocks \in Nat
    BY <1>1, MemoryAssumption
  <2> HIDE DEF r, t, s, g
  <2>5. blocks' = (r - 1) + (2 * (t - g)) + s
    BY <2>1, <2>3, <2>4
  <2>6. blocks' \in Nat
    BY <2>1, <2>3, <2>5
  <2>7. blocks' <= MaxBlocks
    BY <2>1, <2>3, <2>4
  <2> QED BY <2>2, <2>5, <2>6, <2>7
<1>8. MemoryTypes'
  BY <1>1, <1>3, <1>7 DEF MemoryInv, MemoryTypes
<1> QED BY <1>2, <1>3, <1>7, <1>8 DEF MemoryInv

\* A step that leaves the records and the chunks alone.
LEMMA MemoryStaging ==
    ASSUME MemoryInv, UNCHANGED <<published, retired, nextGeneration, shared>>,
           staging' \in [DOMAIN staging' -> Payloads], DOMAIN staging' \subseteq StagingSlots,
           blocks' = blocks + Cardinality(DOMAIN staging') - Cardinality(DOMAIN staging), blocks' <= MaxBlocks
    PROVE  MemoryInv'
<1>1. OrderInv' /\ LiveRecords' = LiveRecords
  BY OrderUntouched DEF MemoryInv
<1>2. blocks' = Budget(LiveRecords', shared', staging') /\ blocks' \in Nat
  <2> DEFINE r == Cardinality(LiveRecords)
             t == Cardinality(DOMAIN shared)
             s == Cardinality(DOMAIN staging)
             after == Cardinality(DOMAIN staging')
  <2>1. r \in Nat /\ t \in Nat /\ s \in Nat /\ blocks \in Nat /\ blocks = r + (2 * t) + s
    BY MemoryFinite DEF MemoryInv, MemoryTypes, Budget
  <2>2. after \in Nat
    BY StagingFinite
  <2>3. Budget(LiveRecords', shared', staging') = r + (2 * t) + after
    BY <1>1 DEF Budget
  <2>4. blocks' = blocks + after - s
    OBVIOUS
  <2> HIDE DEF r, t, s, after
  <2> QED BY <2>1, <2>2, <2>3, <2>4
<1>3. MemoryTypes'
  BY <1>2 DEF MemoryInv, MemoryTypes
<1> QED BY <1>1, <1>2, <1>3 DEF MemoryInv, Exact

LEMMA MemoryAllocate ==
    ASSUME MemoryInv, NEW payload \in Payloads, AllocateStaging(payload), UNCHANGED recordVars
    PROVE  MemoryInv' /\ FreeStaging \in StagingSlots
<1> DEFINE x == FreeStaging
<1>1. x \in StagingSlots \ DOMAIN staging
  <2>1. StagingSlots \in SUBSET Nat
    BY DEF StagingSlots
  <2> QED BY <2>1, LowestFreeIsFree DEF AllocateStaging, CanStage, FreeStaging
<1>2. /\ staging' = With(staging, x, payload) /\ blocks' = blocks + 1 /\ shared' = shared /\ blocks < MaxBlocks
      /\ UNCHANGED <<published, retired, nextGeneration>>
  BY DEF AllocateStaging, CanStage, recordVars
<1> HIDE DEF x
<1>3. DOMAIN staging' = DOMAIN staging \cup {x} /\ staging' \in [DOMAIN staging' -> Payloads]
  BY <1>2 DEF With, MemoryInv, MemoryTypes
<1>4. Cardinality(DOMAIN staging') = Cardinality(DOMAIN staging) + 1
  BY <1>1, <1>3, MemoryFinite, FS_AddElement
<1>5. blocks' = blocks + Cardinality(DOMAIN staging') - Cardinality(DOMAIN staging) /\ blocks' <= MaxBlocks
  <2> DEFINE a == Cardinality(DOMAIN staging)
             b == Cardinality(DOMAIN staging')
  <2>1. a \in Nat /\ b = a + 1 /\ blocks \in Nat /\ MaxBlocks \in Nat
    BY <1>4, MemoryFinite, MemoryAssumption DEF MemoryInv, MemoryTypes
  <2> HIDE DEF a, b
  <2>2. blocks' = blocks + b - a /\ blocks' <= MaxBlocks
    BY <1>2, <2>1
  <2> QED BY <2>2 DEF a, b
<1>6. DOMAIN staging' \subseteq StagingSlots
  BY <1>1, <1>3 DEF MemoryInv, MemoryTypes
<1>7. MemoryInv'
  BY <1>2, <1>3, <1>5, <1>6, MemoryStaging
<1> QED BY <1>1, <1>7 DEF x

LEMMA MemoryCancel ==
    ASSUME MemoryInv, NEW s, CancelStaging(s), UNCHANGED recordVars
    PROVE  MemoryInv'
<1>1. /\ s \in DOMAIN staging /\ staging' = Restrict(staging, DOMAIN staging \ {s})
      /\ blocks' = blocks - 1 /\ shared' = shared /\ UNCHANGED <<published, retired, nextGeneration>>
  BY DEF CancelStaging, recordVars
<1>2. DOMAIN staging' = DOMAIN staging \ {s} /\ staging' \in [DOMAIN staging' -> Payloads]
  BY <1>1 DEF Restrict, MemoryInv, MemoryTypes
<1>3. Cardinality(DOMAIN staging') = Cardinality(DOMAIN staging) - 1
  BY <1>1, <1>2, MemoryFinite, FS_RemoveElement
<1>4. blocks' = blocks + Cardinality(DOMAIN staging') - Cardinality(DOMAIN staging) /\ blocks' <= MaxBlocks
  <2> DEFINE a == Cardinality(DOMAIN staging)
             b == Cardinality(DOMAIN staging')
  <2>1. a \in Nat /\ b = a - 1 /\ blocks \in Nat /\ MaxBlocks \in Nat /\ blocks <= MaxBlocks
    BY <1>3, MemoryFinite, MemoryAssumption DEF MemoryInv, MemoryTypes
  <2> HIDE DEF a, b
  <2>2. blocks' = blocks + b - a /\ blocks' <= MaxBlocks
    BY <1>1, <2>1
  <2> QED BY <2>2 DEF a, b
<1>5. DOMAIN staging' \subseteq StagingSlots
  BY <1>2 DEF MemoryInv, MemoryTypes
<1> QED BY <1>1, <1>2, <1>4, <1>5, MemoryStaging

LEMMA MemoryUntouched ==
    ASSUME MemoryInv, UNCHANGED <<recordVars, memoryVars>>
    PROVE  MemoryInv'
<1>1. OrderInv' /\ LiveRecords' = LiveRecords
  BY OrderUntouched DEF MemoryInv, recordVars
<1>2. UNCHANGED <<staging, shared, blocks>>
  BY DEF memoryVars
<1> QED BY <1>1, <1>2 DEF MemoryInv, MemoryTypes, Budget

\* A publication that is refused half way leaves everything as it was.
LEMMA MemoryAbandon ==
    ASSUME MemoryInv, NEW inputs \in Seq(ChunkInput), blocks < MaxBlocks, Abandon(Prepare(inputs)),
           UNCHANGED recordVars
    PROVE  MemoryInv'
<1> DEFINE p == Prepare(inputs)
<1>1. PartsInv(p)
  BY PartsPrepared, MemoryFinite DEF MemoryInv
<1>2. /\ shared' = Restrict(p.shared, DOMAIN p.shared \ p.fresh)
      /\ blocks' = p.blocks - Cardinality(p.fresh) - 1 /\ staging' = staging
  BY DEF Abandon
<1> HIDE DEF p
<1>3. shared' = shared
  <2>1. DOMAIN p.shared \ p.fresh = DOMAIN shared
    BY <1>1 DEF PartsInv
  <2>2. shared' = [c \in DOMAIN shared |-> p.shared[c]]
    BY <1>2, <2>1 DEF Restrict
  <2>3. \A c \in DOMAIN shared : p.shared[c] = shared[c]
    BY <1>1 DEF PartsInv
  <2>4. shared = [c \in DOMAIN shared |-> shared[c]]
    BY TableMembers DEF MemoryInv, MemoryTypes
  <2> QED BY <2>2, <2>3, <2>4
<1>4. blocks' = blocks
  <2> DEFINE f == Cardinality(p.fresh)
             n == p.blocks
  <2>1. f \in Nat /\ blocks \in Nat /\ n = blocks + 1 + f /\ blocks' = n - f - 1
    BY <1>1, <1>2, PartsFinite DEF PartsInv, MemoryInv, MemoryTypes
  <2> HIDE DEF f, n
  <2> QED BY <2>1
<1> QED BY <1>2, <1>3, <1>4, MemoryUntouched DEF memoryVars

-----------------------------------------------------------------------------
(* What a load hands to the writer                                          *)

LoadInv ==
    /\ "active" \in DOMAIN load
    /\ load.active => /\ "request" \in DOMAIN load /\ load.request \in Requests
                      /\ "staging" \in DOMAIN load /\ load.staging \in StagingSlots

LEMMA InputChunks ==
    ASSUME LoadInv, load.active
    PROVE  Input.chunks \in Seq(ChunkInput)
<1> DEFINE request == load.request
           chunk == request.chunks[1]
           given == [chunk EXCEPT !.from = load.staging]
<1>1. request \in Publication /\ Len(request.chunks) = 1 /\ load.staging \in StagingSlots
  BY RequestsAssumption DEF LoadInv
<1>2. request.chunks \in Seq(ChunkInput) /\ "chunks" \in DOMAIN request
  BY <1>1 DEF Publication
<1>3. chunk \in ChunkInput
  BY <1>1, <1>2, ElementOfSeq
<1>4. Input.chunks = <<given>>
  BY <1>2 DEF Input
<1>5. given \in ChunkInput
  <2> HIDE DEF chunk
  <2> QED BY <1>1, <1>3 DEF ChunkInput
<1> HIDE DEF given
<1> QED BY <1>4, <1>5

LEMMA LoadStep ==
    ASSUME MemoryInv, LoadInv, [LoadNext]_loadVars
    PROVE  LoadInv'
<1>1. CASE ClientStep
  BY <1>1 DEF ClientStep, LoadInv
<1>2. ASSUME NEW request \in Requests, Begin(request) PROVE LoadInv'
  <2>1. Raw \in Payloads
    BY DEF Payloads
  <2>2. FreeStaging \in StagingSlots
    BY <1>2, <2>1, MemoryAllocate DEF Begin
  <2>3. load' = [active |-> TRUE, request |-> request, staging |-> FreeStaging, task |-> "QUEUED",
                 discard |-> FALSE, cancelled |-> FALSE,
                 expected |-> Revision(request.key), basis |-> Identity(request.key)]
    BY <1>2 DEF Begin
  <2>4. /\ "active" \in DOMAIN load' /\ "request" \in DOMAIN load' /\ "staging" \in DOMAIN load'
        /\ load'.request = request /\ load'.staging = FreeStaging
    BY <2>3
  <2> QED BY <2>2, <2>4 DEF LoadInv
<1>3. ASSUME NEW state, TaskBecomes(state) PROVE LoadInv'
  BY <1>3 DEF TaskBecomes, LoadInv
<1>4. CASE ReadStarts \/ ReadFails \/ TaskGone \/ \E data \in Data : ReadEnds(data)
  BY <1>3, <1>4 DEF ReadStarts, ReadFails, TaskGone, ReadEnds
<1>5. CASE CancelLoad
  <2> DEFINE cancelled == load.cancelled \/ load.task \in {"QUEUED", "RUNNING"}
             task == IF load.task = "QUEUED" THEN "CANCELLED" ELSE load.task
  <2>1. load' = [load EXCEPT !.discard = TRUE, !.cancelled = cancelled, !.task = task]
    BY <1>5 DEF CancelLoad
  <2> HIDE DEF cancelled, task
  <2>2. /\ DOMAIN load' = DOMAIN load
        /\ "active" \in DOMAIN load => load'.active = load.active
        /\ "request" \in DOMAIN load => load'.request = load.request
        /\ "staging" \in DOMAIN load => load'.staging = load.staging
    BY <2>1
  <2> QED BY <2>2 DEF LoadInv
<1>6. CASE load' = NoLoad
  BY <1>6 DEF NoLoad, LoadInv
<1>7. CASE UNCHANGED loadVars
  BY <1>7 DEF loadVars, LoadInv
<1> QED BY <1>1, <1>2, <1>4, <1>5, <1>6, <1>7 DEF LoadNext, PollPublishes, PollDiscards

LEMMA MemoryWriter ==
    ASSUME RecordsInv, MemoryInv, WriterNext
    PROVE  MemoryInv'
<1>1. ASSUME NEW key \in Keys, Request(key) PROVE MemoryInv'
  BY <1>1, MemoryRequest
<1>2. ASSUME NEW publication \in Publications, Publish(publication) PROVE MemoryInv'
  <2>1. publication.chunks \in Seq(ChunkInput)
    BY PublicationsAssumption DEF Publication
  <2> QED BY <1>2, <2>1, MemoryCommit DEF Publish
<1>3. ASSUME NEW publication \in Publications, PublishFails(publication) PROVE MemoryInv'
  <2>1. publication.chunks \in Seq(ChunkInput)
    BY PublicationsAssumption DEF Publication
  <2>2. blocks < MaxBlocks
    BY <1>3 DEF PublishFails, Admitted
  <2> QED BY <1>3, <2>1, <2>2, MemoryAbandon DEF PublishFails
<1>4. ASSUME NEW s \in Slots, Retire(s) PROVE MemoryInv'
  BY <1>4, MemoryRetire
<1>5. ASSUME NEW s \in Slots, MarkFailed(s) PROVE MemoryInv'
  <2>1. s \in DOMAIN published /\ Replace(published[s], published[s].chunks, "FAILED")
    BY <1>5 DEF MarkFailed
  <2> QED BY <2>1, LiveFinds, MemoryReplace
<1>6. ASSUME NEW s \in Slots, CompilePlan(s) PROVE MemoryInv'
  BY <1>6, MemoryUntouched DEF CompilePlan
<1>7. ASSUME NEW s \in DOMAIN published, NEW i \in DOMAIN published[s].chunks, EvictChunk(s, i)
      PROVE  MemoryInv'
  <2> DEFINE left == RemoveAt(published[s].chunks, i)
             state == IF Len(published[s].chunks) = 1 THEN "REQUESTED" ELSE "RESIDENT"
  <2>1. Replace(published[s], left, state)
    BY <1>7 DEF EvictChunk
  <2>2. left \in Seq(ChunkUse) /\ Covers(shared, left)
    BY LiveFinds, Removed
  <2> HIDE DEF left, state
  <2> QED BY <2>1, <2>2, MemoryReplace
<1>8. ASSUME NEW record \in retired, Collect(record) PROVE MemoryInv'
  BY <1>8, MemoryCollect
<1>9. ASSUME NEW data \in Data, Stage(data) PROVE MemoryInv'
  BY <1>9, MemoryAllocate DEF Stage, Payloads
<1>10. ASSUME NEW s \in StagingSlots, Unstage(s) PROVE MemoryInv'
  BY <1>10, MemoryCancel DEF Unstage
<1>11. ASSUME NEW capacity \in 1..MaxEvents, Poll(capacity) PROVE MemoryInv'
  BY <1>11, MemoryUntouched DEF Poll
<1>12. ASSUME Rescan PROVE MemoryInv'
  BY <1>12, MemoryUntouched DEF Rescan
<1> QED BY <1>1, <1>2, <1>3, <1>4, <1>5, <1>6, <1>7, <1>8, <1>9, <1>10, <1>11, <1>12 DEF WriterNext

LEMMA MemoryStep ==
    ASSUME RecordsInv, MemoryInv, LoadInv, [LoadNext]_loadVars
    PROVE  MemoryInv'
<1>1. CASE ClientStep
  BY <1>1, MemoryWriter DEF ClientStep
<1>2. ASSUME NEW request \in Requests, Begin(request) PROVE MemoryInv'
  BY <1>2, MemoryAllocate DEF Begin, Payloads
<1>3. CASE ReadStarts \/ ReadFails \/ TaskGone \/ CancelLoad
  BY <1>3, MemoryUntouched DEF ReadStarts, ReadFails, TaskGone, CancelLoad, writerVars
<1>4. ASSUME NEW data \in Data, ReadEnds(data) PROVE MemoryInv'
  <2>1. /\ staging' = [staging EXCEPT ![load.staging] = data] /\ shared' = shared /\ blocks' = blocks
        /\ UNCHANGED <<published, retired, nextGeneration>>
    BY <1>4 DEF ReadEnds, recordVars
  <2>2. staging' \in [DOMAIN staging' -> Payloads] /\ DOMAIN staging' = DOMAIN staging
    BY <2>1 DEF MemoryInv, MemoryTypes, Payloads
  <2>3. OrderInv' /\ LiveRecords' = LiveRecords
    BY <2>1, OrderUntouched DEF MemoryInv
  <2>4. MemoryTypes'
    BY <2>1, <2>2 DEF MemoryInv, MemoryTypes
  <2>5. blocks' = Budget(LiveRecords', shared', staging')
    BY <2>1, <2>2, <2>3 DEF MemoryInv, Budget
  <2> QED BY <2>1, <2>3, <2>4, <2>5 DEF MemoryInv
<1>5. CASE PollPublishes
  <2>1. Input.chunks \in Seq(ChunkInput)
    BY <1>5, InputChunks DEF PollPublishes, MayPublish, TaskIs
  <2> QED BY <1>5, <2>1, MemoryCommit DEF PollPublishes, MayPublish
<1>6. CASE PollDiscards
  BY <1>6, MemoryCancel DEF PollDiscards
<1>7. CASE UNCHANGED loadVars
  BY <1>7, MemoryUntouched DEF loadVars, writerVars
<1> QED BY <1>1, <1>2, <1>3, <1>4, <1>5, <1>6, <1>7 DEF LoadNext

\* Each shared chunk counts exactly the records that refer to it, holds what was published under it
\* and goes with the last of them, and the budget is charged for what is there and nothing else,
\* also after a publication that was refused half way and a load that came to nothing (prepareChunk,
\* adoptPublishedRecordChunks, abandonUnpublishedRecord, buildReplacement, destroyRecord).
THEOREM MemoryStaysExact == LoadSpec => []MemoryExact
<1>1. LoadInit => RecordsInv /\ MemoryInv /\ LoadInv
  <2>1. LoadInit => LoadInv
    BY DEF LoadInit, NoLoad, LoadInv
  <2> QED BY <2>1, RecordsStart, MemoryStart
<1>2. RecordsInv /\ MemoryInv /\ LoadInv /\ [LoadNext]_loadVars => RecordsInv' /\ MemoryInv' /\ LoadInv'
  BY RecordsStep, MemoryStep, LoadStep
<1>3. MemoryInv => MemoryExact
  BY MemoryTells
<1> QED BY <1>1, <1>2, <1>3, PTL DEF LoadSpec

-----------------------------------------------------------------------------
(* The walk that compiles a plan, over any records                          *)

Knows(records, key) == \E s \in DOMAIN records : records[s].key = key
Place(records, key) == CHOOSE s \in DOMAIN records : records[s].key = key
DepsOf(records, walk) == records[walk.queue[walk.depth]].deps

Considered(records, walk, dep) ==
    IF ~Knows(records, dep.target) THEN IF dep.required THEN Stop(walk, "DEPENDENCY_MISSING") ELSE PassOver(walk)
    ELSE LET child == Place(records, dep.target) IN
         IF child \in OnPath(walk) THEN Stop(walk, "DEPENDENCY_CYCLE")
         ELSE IF child \in Range(walk.order) THEN PassOver(walk)
         ELSE IF walk.depth = MaxResources THEN Stop(walk, "OUT_OF_BUDGET")
         ELSE Enter(walk, child)

Turn(records, walk) ==
    LET deps == DepsOf(records, walk)
        next == walk.next[walk.depth]
    IN IF walk.result # "PENDING" THEN walk
       ELSE IF next \in DOMAIN deps THEN Considered(records, walk, deps[next]) ELSE Leave(walk)

Turns == MaxResources + MaxEdges

\* What Walk iterates.
Walks(records, root, walk) ==
    walk = [n \in 0..Turns |-> IF n = 0 THEN WalkFrom(root) ELSE Turn(records, walk[n - 1])]

Walked(records, root) ==
    LET walk == CHOOSE walk : Walks(records, root, walk)
    IN walk[Turns]

LEMMA WalkIsWalked == \A root : Walk(root) = Walked(published, root)
BY DEF Walk, Walked, Walks, Turns, WalkOn, Turn, DepsOf, Consider, Considered, Known, SlotOf, Knows, Place

LEMMA WalkIsWalkedAfter == \A root : Walk(root)' = Walked(published', root)
BY DEF Walk, Walked, Walks, Turns, WalkOn, Turn, DepsOf, Consider, Considered, Known, SlotOf, Knows, Place,
       WalkFrom, OnPath, Leave, PassOver, Enter, Stop

\* Records a walk can go over: each key in one place.
Linked(records) ==
    /\ DOMAIN records \subseteq Slots
    /\ \A s \in DOMAIN records : \E n \in Nat : DOMAIN records[s].deps = 1..n
    /\ \A s, t \in DOMAIN records : records[s].key = records[t].key => s = t

LEMMA PlaceOfKey ==
    ASSUME NEW records, NEW key, Knows(records, key)
    PROVE  Place(records, key) \in DOMAIN records /\ records[Place(records, key)].key = key
BY DEF Knows, Place

\* A dependency that holds nothing up: its slot is among some places, or it may be missing.
Settled(records, dep, places) ==
    IF Knows(records, dep.target) THEN Place(records, dep.target) \in places ELSE ~dep.required

SettledAll(records, s, places) ==
    \A i \in DOMAIN records[s].deps : Settled(records, records[s].deps[i], places)

\* Every slot of an order is behind all it depends on.
Ordered(records, order) ==
    \A k \in DOMAIN order : SettledAll(records, order[k], {order[j] : j \in 1..(k - 1)})

Results == {"PENDING", "SUCCESS", "DEPENDENCY_MISSING", "DEPENDENCY_CYCLE", "OUT_OF_BUDGET"}

WalkTypes(D) == [depth : 0..MaxResources, queue : [1..MaxResources -> D],
                 next : [1..MaxResources -> Nat \ {0}], order : Seq(D), result : Results]

Seen(walk) == OnPath(walk) \cup Range(walk.order)

\* What is done, and what the walk has entered from a slot on its path.
Below(walk, d) == IF d < walk.depth THEN Range(walk.order) \cup {walk.queue[d + 1]} ELSE Range(walk.order)

\* On its path a walk has settled all dependencies before the next.
PathSettled(records, walk) ==
    \A d \in 1..walk.depth : \A i \in DOMAIN records[walk.queue[d]].deps :
        i < walk.next[d] => Settled(records, records[walk.queue[d]].deps[i], Below(walk, d))

WalkInv(records, root, walk) ==
    /\ walk \in WalkTypes(DOMAIN records)
    /\ Ordered(records, walk.order)
    /\ PathSettled(records, walk)
    /\ \A s \in Seen(walk) : records[s].key \in PathKeys(records, records[root].key)
    /\ root \in Seen(walk)
    /\ walk.result = "PENDING" => walk.depth # 0
    /\ walk.result = "SUCCESS" => walk.depth = 0

LEMMA SettledMore ==
    ASSUME NEW records, NEW dep, NEW places, NEW more, places \subseteq more, Settled(records, dep, places)
    PROVE  Settled(records, dep, more)
BY DEF Settled

LEMMA WalkStarts ==
    ASSUME NEW records, Linked(records), NEW root \in DOMAIN records
    PROVE  WalkInv(records, root, WalkFrom(root))
<1> DEFINE w == WalkFrom(root)
<1>1. MaxResources \in Nat \ {0}
  BY WriterAssumption
<1>2. w \in WalkTypes(DOMAIN records)
  BY <1>1 DEF WalkFrom, WalkTypes, Results
<1>3. w.depth = 1 /\ w.order = <<>> /\ w.result = "PENDING" /\ w.queue[1] = root /\ w.next[1] = 1
  BY <1>1 DEF WalkFrom
<1> HIDE DEF w
<1>4. OnPath(w) = {root}
  BY <1>3 DEF OnPath
<1>5. Range(w.order) = {}
  BY <1>3 DEF Range
<1>6. Ordered(records, w.order)
  BY <1>3 DEF Ordered
<1>7. PathSettled(records, w)
  <2>1. PICK n \in Nat : DOMAIN records[root].deps = 1..n
    BY DEF Linked
  <2> SUFFICES ASSUME NEW d \in 1..w.depth, NEW i \in DOMAIN records[w.queue[d]].deps, i < w.next[d] PROVE FALSE
    BY DEF PathSettled
  <2>2. d = 1
    BY <1>3
  <2>3. i \in 1..n /\ i < 1
    BY <1>3, <2>1, <2>2
  <2> QED BY <2>3
<1>8. records[root].key \in PathKeys(records, records[root].key)
  BY PathKeysLeastClosed DEF Linked
<1>9. Seen(w) = {root}
  BY <1>4, <1>5 DEF Seen
<1>10. /\ \A s \in Seen(w) : records[s].key \in PathKeys(records, records[root].key)
       /\ root \in Seen(w)
  BY <1>8, <1>9
<1>11. w.depth # 0 /\ w.result # "SUCCESS"
  BY <1>3
<1> QED BY <1>2, <1>6, <1>7, <1>10, <1>11 DEF WalkInv, w

\* The turns of a walk, and what each of them makes of it.
WalkFields == {"depth", "queue", "next", "order", "result"}
IsWalk(w) == w = [depth |-> w.depth, queue |-> w.queue, next |-> w.next, order |-> w.order, result |-> w.result]

LEMMA WalkByFields ==
    ASSUME NEW w, w = [f \in WalkFields |-> w[f]]
    PROVE  IsWalk(w)
BY DEF IsWalk, WalkFields

LEMMA TypedIsWalk == \A D : \A w \in WalkTypes(D) : IsWalk(w)
BY DEF WalkTypes, IsWalk

LEMMA LeaveMakes ==
    ASSUME NEW D, NEW w \in WalkTypes(D), w.depth # 0
    PROVE  LET s == w.queue[w.depth]
               v == Leave(w)
           IN /\ s \in D /\ v \in WalkTypes(D)
              /\ v.depth = w.depth - 1 /\ v.queue = w.queue /\ v.next = w.next /\ v.order = Append(w.order, s)
              /\ v.result = IF w.depth = 1 THEN "SUCCESS" ELSE w.result
<1> DEFINE s == w.queue[w.depth]
           v == Leave(w)
<1>1. IsWalk(w)
  BY TypedIsWalk
<1>2. v.depth = w.depth - 1 /\ v.queue = w.queue /\ v.next = w.next
  BY <1>1 DEF IsWalk, Leave
<1>3. v.order = Append(w.order, s)
  BY <1>1 DEF IsWalk, Leave
<1>4. v.result = IF w.depth = 1 THEN "SUCCESS" ELSE w.result
  BY <1>1 DEF IsWalk, Leave
<1>5. v = [f \in WalkFields |-> v[f]]
  BY <1>1 DEF IsWalk, Leave, WalkFields
<1>6. IsWalk(v)
  BY <1>5, WalkByFields
<1>7. /\ MaxResources \in Nat \ {0} /\ w.depth \in 1..MaxResources /\ s \in D
      /\ w.queue \in [1..MaxResources -> D] /\ w.next \in [1..MaxResources -> Nat \ {0}]
      /\ w.order \in Seq(D) /\ w.result \in Results
  BY WriterAssumption DEF WalkTypes
<1> HIDE DEF v, s
<1>8. v.order \in Seq(D)
  BY <1>3, <1>7
<1>9. v.depth \in 0..MaxResources /\ v.result \in Results
  BY <1>2, <1>4, <1>7 DEF Results
<1>10. v \in WalkTypes(D)
  BY <1>2, <1>6, <1>7, <1>8, <1>9 DEF IsWalk, WalkTypes
<1> QED BY <1>2, <1>3, <1>4, <1>7, <1>10 DEF v, s

LEMMA PassOverMakes ==
    ASSUME NEW D, NEW w \in WalkTypes(D), w.depth # 0
    PROVE  LET v == PassOver(w)
           IN /\ v \in WalkTypes(D)
              /\ v.depth = w.depth /\ v.queue = w.queue /\ v.order = w.order /\ v.result = w.result
              /\ v.next = [w.next EXCEPT ![w.depth] = @ + 1]
<1> DEFINE v == PassOver(w)
<1>1. IsWalk(w)
  BY TypedIsWalk
<1>2. v.depth = w.depth /\ v.queue = w.queue /\ v.order = w.order /\ v.result = w.result
  BY <1>1 DEF IsWalk, PassOver
<1>3. v.next = [w.next EXCEPT ![w.depth] = @ + 1]
  BY <1>1 DEF IsWalk, PassOver
<1>4. v = [f \in WalkFields |-> v[f]]
  BY <1>1 DEF IsWalk, PassOver, WalkFields
<1>5. IsWalk(v)
  BY <1>4, WalkByFields
<1>6. /\ MaxResources \in Nat \ {0} /\ w.depth \in 1..MaxResources
      /\ w.queue \in [1..MaxResources -> D] /\ w.next \in [1..MaxResources -> Nat \ {0}]
      /\ w.order \in Seq(D) /\ w.result \in Results
  BY WriterAssumption DEF WalkTypes
<1> HIDE DEF v
<1>7. v.next \in [1..MaxResources -> Nat \ {0}]
  BY <1>3, <1>6
<1>8. v \in WalkTypes(D)
  BY <1>2, <1>5, <1>6, <1>7 DEF IsWalk, WalkTypes
<1> QED BY <1>2, <1>3, <1>8 DEF v

LEMMA EnterMakes ==
    ASSUME NEW D, NEW w \in WalkTypes(D), w.depth # 0, w.depth # MaxResources, NEW child \in D
    PROVE  LET d == w.depth
               v == Enter(w, child)
           IN /\ v \in WalkTypes(D)
              /\ v.depth = d + 1 /\ v.order = w.order /\ v.result = w.result
              /\ v.queue[d + 1] = child /\ v.next[d + 1] = 1 /\ v.next[d] = w.next[d] + 1
              /\ \A e \in 1..d : v.queue[e] = w.queue[e]
              /\ \A e \in 1..d : e # d => v.next[e] = w.next[e]
<1> DEFINE u == PassOver(w)
           v == Enter(w, child)
<1>1. /\ u \in WalkTypes(D) /\ u.depth = w.depth /\ u.queue = w.queue /\ u.order = w.order /\ u.result = w.result
      /\ u.next = [w.next EXCEPT ![w.depth] = @ + 1]
  BY PassOverMakes
<1>2. v = [u EXCEPT !.depth = @ + 1, !.queue = [@ EXCEPT ![w.depth + 1] = child],
                    !.next = [@ EXCEPT ![w.depth + 1] = 1]]
  BY DEF Enter
<1> HIDE DEF u, v
<1>3. IsWalk(u)
  BY <1>1, TypedIsWalk
<1>4. v.depth = w.depth + 1 /\ v.order = w.order /\ v.result = w.result
  BY <1>1, <1>2, <1>3 DEF IsWalk
<1>5. v.queue = [w.queue EXCEPT ![w.depth + 1] = child]
  BY <1>1, <1>2, <1>3 DEF IsWalk
<1>6. v.next = [u.next EXCEPT ![w.depth + 1] = 1]
  BY <1>2, <1>3 DEF IsWalk
<1>7. v = [f \in WalkFields |-> v[f]]
  BY <1>2, <1>3 DEF IsWalk, WalkFields
<1>8. IsWalk(v)
  BY <1>7, WalkByFields
<1>9. /\ MaxResources \in Nat \ {0} /\ w.depth \in 1..MaxResources /\ w.depth + 1 \in 1..MaxResources
      /\ w.queue \in [1..MaxResources -> D] /\ u.next \in [1..MaxResources -> Nat \ {0}]
      /\ w.order \in Seq(D) /\ w.result \in Results
  BY <1>1, WriterAssumption DEF WalkTypes
<1>10. v.queue \in [1..MaxResources -> D] /\ v.next \in [1..MaxResources -> Nat \ {0}]
  BY <1>5, <1>6, <1>9
<1>11. v \in WalkTypes(D)
  BY <1>4, <1>8, <1>9, <1>10 DEF IsWalk, WalkTypes
<1>12. /\ v.queue[w.depth + 1] = child /\ v.next[w.depth + 1] = 1 /\ v.next[w.depth] = w.next[w.depth] + 1
       /\ \A e \in 1..w.depth : v.queue[e] = w.queue[e]
       /\ \A e \in 1..w.depth : e # w.depth => v.next[e] = w.next[e]
  <2>1. w.depth # w.depth + 1 /\ w.next \in [1..MaxResources -> Nat \ {0}]
    BY <1>9 DEF WalkTypes
  <2> QED BY <1>1, <1>5, <1>6, <1>9, <2>1
<1> QED BY <1>4, <1>11, <1>12 DEF v

LEMMA StopMakes ==
    ASSUME NEW D, NEW w \in WalkTypes(D), NEW result \in Results
    PROVE  LET v == Stop(w, result)
           IN /\ v \in WalkTypes(D)
              /\ v.depth = w.depth /\ v.queue = w.queue /\ v.next = w.next /\ v.order = w.order
              /\ v.result = result
<1> DEFINE v == Stop(w, result)
<1>1. IsWalk(w)
  BY TypedIsWalk
<1>2. v.depth = w.depth /\ v.queue = w.queue /\ v.next = w.next /\ v.order = w.order /\ v.result = result
  BY <1>1 DEF IsWalk, Stop
<1>3. v = [f \in WalkFields |-> v[f]]
  BY <1>1 DEF IsWalk, Stop, WalkFields
<1>4. IsWalk(v)
  BY <1>3, WalkByFields
<1>5. w.depth \in 0..MaxResources /\ w.queue \in [1..MaxResources -> D]
      /\ w.next \in [1..MaxResources -> Nat \ {0}] /\ w.order \in Seq(D)
  BY DEF WalkTypes
<1> HIDE DEF v
<1>6. v \in WalkTypes(D)
  BY <1>2, <1>4, <1>5 DEF IsWalk, WalkTypes
<1> QED BY <1>2, <1>6 DEF v

\* Where a walk is that goes on.
LEMMA WalkAt ==
    ASSUME NEW records, NEW root, NEW w, WalkInv(records, root, w), w.result = "PENDING"
    PROVE  /\ MaxResources \in Nat \ {0} /\ w.depth \in 1..MaxResources
           /\ w.queue \in [1..MaxResources -> DOMAIN records] /\ w.queue[w.depth] \in DOMAIN records
           /\ w.next \in [1..MaxResources -> Nat \ {0}] /\ w.next[w.depth] \in Nat \ {0}
           /\ w.order \in Seq(DOMAIN records)
           /\ w \in WalkTypes(DOMAIN records)
<1>1. w \in WalkTypes(DOMAIN records) /\ w.depth # 0
  BY DEF WalkInv
<1> QED BY <1>1, WriterAssumption DEF WalkTypes

LEMMA PathIs ==
    ASSUME NEW w, NEW v, w.depth \in Nat \ {0}, v.depth = w.depth - 1, v.queue = w.queue
    PROVE  OnPath(w) = OnPath(v) \cup {w.queue[w.depth]}
<1>1. \A e : e \in 1..w.depth <=> e \in 1..v.depth \/ e = w.depth
  OBVIOUS
<1> QED BY <1>1 DEF OnPath

LEMMA RangeAppend ==
    ASSUME NEW D, NEW order \in Seq(D), NEW s \in D
    PROVE  /\ Range(Append(order, s)) = Range(order) \cup {s}
           /\ Range(order) = {order[j] : j \in 1..Len(order)}
           /\ Len(Append(order, s)) = Len(order) + 1 /\ DOMAIN Append(order, s) = 1..(Len(order) + 1)
           /\ Append(order, s)[Len(order) + 1] = s
           /\ \A j \in 1..Len(order) : Append(order, s)[j] = order[j]
<1>1. /\ Len(order) \in Nat /\ DOMAIN order = 1..Len(order)
      /\ Len(Append(order, s)) = Len(order) + 1 /\ DOMAIN Append(order, s) = 1..(Len(order) + 1)
      /\ Append(order, s)[Len(order) + 1] = s
      /\ \A j \in 1..Len(order) : Append(order, s)[j] = order[j]
  OBVIOUS
<1>2. Range(order) = {order[j] : j \in 1..Len(order)}
  BY <1>1 DEF Range
<1> DEFINE longer == Append(order, s)
<1>3. Range(longer) = {longer[j] : j \in 1..(Len(order) + 1)}
  BY <1>1 DEF Range
<1>4. \A j : j \in 1..(Len(order) + 1) <=> j \in 1..Len(order) \/ j = Len(order) + 1
  BY <1>1
<1> HIDE DEF longer
<1>5. \A x : x \in Range(longer) <=> x \in Range(order) \/ x = s
  BY <1>1, <1>2, <1>3, <1>4 DEF longer
<1> QED BY <1>1, <1>2, <1>5 DEF longer

LEMMA LeaveKeeps ==
    ASSUME NEW records, Linked(records), NEW root \in DOMAIN records, NEW w, WalkInv(records, root, w),
           w.result = "PENDING", w.next[w.depth] \notin DOMAIN DepsOf(records, w)
    PROVE  WalkInv(records, root, Leave(w)) /\ Seen(w) \subseteq Seen(Leave(w))
<1> DEFINE D == DOMAIN records
           d == w.depth
           s == w.queue[d]
           v == Leave(w)
<1>1. /\ d \in Nat \ {0} /\ s \in D /\ w.order \in Seq(D) /\ w \in WalkTypes(D) /\ w.next[d] \in Nat \ {0}
  BY WalkAt
<1>2. /\ v \in WalkTypes(D) /\ v.depth = d - 1 /\ v.queue = w.queue /\ v.next = w.next
      /\ v.order = Append(w.order, s) /\ v.result = IF d = 1 THEN "SUCCESS" ELSE w.result
  BY <1>1, LeaveMakes
<1> HIDE DEF D, d, s, v
<1>3. Range(v.order) = Range(w.order) \cup {s}
  BY <1>1, <1>2, RangeAppend
<1>4. OnPath(w) = OnPath(v) \cup {s}
  BY <1>1, <1>2, PathIs DEF d, s
<1>5. Seen(v) = Seen(w)
  BY <1>3, <1>4 DEF Seen
<1>6. SettledAll(records, s, Range(w.order))
  <2> SUFFICES ASSUME NEW i \in DOMAIN records[s].deps
               PROVE  Settled(records, records[s].deps[i], Range(w.order))
    BY DEF SettledAll
  <2>1. PICK n \in Nat : DOMAIN records[s].deps = 1..n
    BY <1>1 DEF Linked, D
  <2>2. w.next[d] \notin 1..n
    BY <2>1 DEF DepsOf, s, d
  <2>3. i < w.next[d]
    BY <1>1, <2>1, <2>2
  <2>4. Below(w, d) = Range(w.order)
    BY <1>1 DEF Below, d
  <2>5. d \in 1..w.depth
    BY <1>1 DEF d
  <2> QED BY <2>3, <2>4, <2>5 DEF WalkInv, PathSettled, s
<1>7. Ordered(records, v.order)
  <2> DEFINE L == Len(w.order)
             Before(k) == {v.order[j] : j \in 1..(k - 1)}
  <2>1. /\ L \in Nat /\ DOMAIN w.order = 1..L /\ DOMAIN v.order = 1..(L + 1) /\ v.order[L + 1] = s
        /\ \A j \in 1..L : v.order[j] = w.order[j]
        /\ Range(w.order) = {w.order[j] : j \in 1..L}
    BY <1>1, <1>2, RangeAppend
  <2> HIDE DEF L
  <2>2. ASSUME NEW k \in 1..L PROVE SettledAll(records, v.order[k], Before(k))
    <3>1. \A j \in 1..(k - 1) : j \in 1..L
      BY <2>1
    <3>2. Before(k) = {w.order[j] : j \in 1..(k - 1)}
      BY <2>1, <3>1
    <3>3. SettledAll(records, w.order[k], {w.order[j] : j \in 1..(k - 1)})
      BY <2>1 DEF WalkInv, Ordered
    <3> QED BY <2>1, <3>2, <3>3
  <2>3. SettledAll(records, v.order[L + 1], Before(L + 1))
    <3>1. (L + 1) - 1 = L
      BY <2>1
    <3>2. Before(L + 1) = Range(w.order)
      BY <2>1, <3>1
    <3> QED BY <1>6, <2>1, <3>2
  <2>4. ASSUME NEW k \in DOMAIN v.order PROVE SettledAll(records, v.order[k], Before(k))
    <3>1. k \in 1..L \/ k = L + 1
      BY <2>1, <2>4
    <3> HIDE DEF Before
    <3> QED BY <2>2, <2>3, <3>1
  <2> QED BY <2>4 DEF Ordered
<1>8. PathSettled(records, v)
  <2> SUFFICES ASSUME NEW e \in 1..v.depth, NEW i \in DOMAIN records[v.queue[e]].deps, i < v.next[e]
               PROVE  Settled(records, records[v.queue[e]].deps[i], Below(v, e))
    BY DEF PathSettled
  <2>1. e \in 1..w.depth /\ e < w.depth /\ (e < v.depth \/ e + 1 = w.depth)
    BY <1>1, <1>2 DEF d
  <2>2. Settled(records, records[w.queue[e]].deps[i], Below(w, e))
    BY <1>2, <2>1 DEF WalkInv, PathSettled
  <2>3. Below(w, e) = Range(w.order) \cup {w.queue[e + 1]}
    BY <2>1 DEF Below
  <2>4. Below(w, e) \subseteq Below(v, e)
    <3>1. CASE e < v.depth
      BY <1>2, <1>3, <2>3, <3>1 DEF Below
    <3>2. CASE e + 1 = w.depth
      <4>1. w.queue[e + 1] = s
        BY <3>2 DEF s, d
      <4> QED BY <1>3, <2>3, <4>1 DEF Below
    <3> QED BY <2>1, <3>1, <3>2
  <2> QED BY <1>2, <2>2, <2>4, SettledMore
<1>9. /\ v.result = "PENDING" => v.depth # 0
      /\ v.result = "SUCCESS" => v.depth = 0
  BY <1>1, <1>2
<1>10. WalkInv(records, root, v)
  BY <1>2, <1>5, <1>7, <1>8, <1>9 DEF WalkInv, D
<1> QED BY <1>5, <1>10 DEF v

\* A dependency that is done, or that may be missing.
LEMMA PassOverKeeps ==
    ASSUME NEW records, Linked(records), NEW root \in DOMAIN records, NEW w, WalkInv(records, root, w),
           w.result = "PENDING", w.next[w.depth] \in DOMAIN DepsOf(records, w),
           Settled(records, DepsOf(records, w)[w.next[w.depth]], Range(w.order))
    PROVE  WalkInv(records, root, PassOver(w)) /\ Seen(w) \subseteq Seen(PassOver(w))
<1> DEFINE D == DOMAIN records
           d == w.depth
           s == w.queue[d]
           v == PassOver(w)
<1>1. /\ MaxResources \in Nat /\ d \in 1..MaxResources /\ s \in D /\ w \in WalkTypes(D)
      /\ w.next \in [1..MaxResources -> Nat \ {0}] /\ w.next[d] \in Nat \ {0}
  BY WalkAt
<1>10. w.depth # 0
  BY <1>1
<1>2. /\ v \in WalkTypes(D) /\ v.depth = d /\ v.queue = w.queue /\ v.order = w.order /\ v.result = w.result
      /\ v.next = [w.next EXCEPT ![d] = @ + 1]
  BY <1>1, <1>10, PassOverMakes
<1> HIDE DEF D, d, s, v
<1>3. OnPath(v) = OnPath(w) /\ Seen(v) = Seen(w)
  BY <1>2 DEF OnPath, Seen, d
<1>4. PathSettled(records, v)
  <2> SUFFICES ASSUME NEW e \in 1..v.depth, NEW i \in DOMAIN records[v.queue[e]].deps, i < v.next[e]
               PROVE  Settled(records, records[v.queue[e]].deps[i], Below(v, e))
    BY DEF PathSettled
  <2>1. Below(v, e) = Below(w, e) /\ e \in 1..w.depth /\ e \in 1..MaxResources
    BY <1>1, <1>2 DEF Below, d
  <2>2. CASE i < w.next[e]
    BY <1>2, <2>1, <2>2 DEF WalkInv, PathSettled
  <2>3. CASE ~(i < w.next[e])
    <3>1. e = d
      BY <1>1, <1>2, <2>1, <2>3
    <3>2. v.next[e] = w.next[d] + 1
      BY <1>1, <1>2, <3>1
    <3>3. PICK n \in Nat : DOMAIN records[s].deps = 1..n
      BY <1>1 DEF Linked, D
    <3>4. i \in 1..n
      BY <1>2, <3>1, <3>3 DEF s
    <3>5. i = w.next[d]
      BY <1>1, <2>3, <3>1, <3>2, <3>4
    <3>6. Below(w, d) = Range(w.order)
      BY <1>1 DEF Below, d
    <3> QED BY <1>2, <2>1, <3>1, <3>5, <3>6 DEF DepsOf, s, d
  <2> QED BY <2>2, <2>3
<1>5. WalkInv(records, root, v)
  BY <1>2, <1>3, <1>4 DEF WalkInv, D, d
<1> QED BY <1>3, <1>5 DEF v

LEMMA EnterKeeps ==
    ASSUME NEW records, Linked(records), NEW root \in DOMAIN records, NEW w, WalkInv(records, root, w),
           w.result = "PENDING", w.depth # MaxResources, w.next[w.depth] \in DOMAIN DepsOf(records, w),
           NEW dep, dep = DepsOf(records, w)[w.next[w.depth]], Knows(records, dep.target)
    PROVE  LET v == Enter(w, Place(records, dep.target))
           IN WalkInv(records, root, v) /\ Seen(w) \subseteq Seen(v)
<1> DEFINE D == DOMAIN records
           d == w.depth
           s == w.queue[d]
           child == Place(records, dep.target)
           v == Enter(w, child)
<1>1. /\ MaxResources \in Nat /\ d \in 1..MaxResources /\ s \in D /\ w \in WalkTypes(D)
      /\ w.queue \in [1..MaxResources -> D]
      /\ w.next \in [1..MaxResources -> Nat \ {0}] /\ w.next[d] \in Nat \ {0}
  BY WalkAt
<1>2. w.depth # 0
  BY <1>1
<1>3. child \in D /\ records[child].key = dep.target
  BY PlaceOfKey
<1>4. d # MaxResources
  OBVIOUS
<1>5. /\ v \in WalkTypes(D) /\ v.depth = d + 1 /\ v.order = w.order /\ v.result = w.result
      /\ v.queue[d + 1] = child /\ v.next[d + 1] = 1 /\ v.next[d] = w.next[d] + 1
      /\ \A e \in 1..d : v.queue[e] = w.queue[e]
      /\ \A e \in 1..d : e # d => v.next[e] = w.next[e]
  <2> HIDE DEF child, D
  <2> QED BY <1>1, <1>2, <1>3, <1>4, EnterMakes
<1> HIDE DEF D, d, s, v, child
<1>6. d + 1 \in 1..MaxResources /\ d # d + 1
  BY <1>1, <1>4
<1>9. Seen(v) = Seen(w) \cup {child}
  <2>1. \A e : e \in 1..v.depth <=> e \in 1..d \/ e = d + 1
    BY <1>1, <1>5
  <2>2. OnPath(w) = {w.queue[e] : e \in 1..d}
    BY DEF OnPath, d
  <2>3. OnPath(v) = {v.queue[e] : e \in 1..v.depth}
    BY DEF OnPath
  <2>4. v.queue[d + 1] = child /\ \A e \in 1..d : v.queue[e] = w.queue[e]
    BY <1>5
  <2>5. OnPath(v) = OnPath(w) \cup {child}
    BY <2>1, <2>2, <2>3, <2>4
  <2> QED BY <1>5, <2>5 DEF Seen
<1>10. records[child].key \in PathKeys(records, records[root].key)
  <2> DEFINE P == PathKeys(records, records[root].key)
  <2>1. Closed(records, P)
    BY PathKeysLeastClosed DEF Linked
  <2>2. s \in Seen(w)
    BY <1>1 DEF s, d, Seen, OnPath
  <2>3. records[s].key \in P
    BY <2>2 DEF WalkInv
  <2>4. dep.target \in Targets(records[s].deps)
    BY DEF Targets, DepsOf, s, d
  <2> QED BY <1>1, <1>3, <2>1, <2>3, <2>4 DEF Closed, D
<1>11. PathSettled(records, v)
  <2> SUFFICES ASSUME NEW e \in 1..v.depth, NEW i \in DOMAIN records[v.queue[e]].deps, i < v.next[e]
               PROVE  Settled(records, records[v.queue[e]].deps[i], Below(v, e))
    BY DEF PathSettled
  <2>1. PICK n \in Nat : DOMAIN records[v.queue[e]].deps = 1..n
    <3>1. v.queue[e] \in D
      BY <1>1, <1>5, <1>6 DEF WalkTypes
    <3> QED BY <3>1 DEF Linked, D
  <2>2. e = d + 1 \/ (e \in 1..d /\ (e < d \/ e = d))
    BY <1>1, <1>5
  <2>3. CASE e < d /\ e \in 1..d
    <3>1. e \in 1..w.depth /\ e < w.depth /\ e < v.depth /\ e + 1 \in 1..d
      BY <1>1, <1>5, <2>3 DEF d
    <3>2. v.queue[e] = w.queue[e] /\ v.next[e] = w.next[e] /\ v.queue[e + 1] = w.queue[e + 1]
      BY <1>5, <2>3, <3>1
    <3>3. Below(v, e) = Below(w, e)
      BY <1>5, <3>1, <3>2 DEF Below
    <3> QED BY <3>1, <3>2, <3>3 DEF WalkInv, PathSettled
  <2>4. CASE e = d
    <3>1. v.queue[e] = s /\ d \in 1..w.depth /\ ~(d < w.depth) /\ d < v.depth
      BY <1>1, <1>5, <2>4 DEF s, d
    <3>2. Below(w, d) = Range(w.order) /\ Below(v, d) = Range(w.order) \cup {child}
      BY <1>5, <3>1 DEF Below
    <3>3. CASE i < w.next[d]
      <4>1. Settled(records, records[s].deps[i], Below(w, d))
        BY <2>4, <3>1, <3>3 DEF WalkInv, PathSettled, s
      <4>2. Below(w, d) \subseteq Below(v, d)
        BY <3>2
      <4> QED BY <2>4, <3>1, <4>1, <4>2, SettledMore
    <3>4. CASE i = w.next[d]
      <4>1. records[s].deps[i] = dep
        BY <3>4 DEF DepsOf, s, d
      <4> QED BY <2>4, <3>1, <3>2, <4>1 DEF Settled, child
    <3> QED BY <1>1, <1>5, <2>1, <2>4, <3>3, <3>4
  <2>5. CASE e = d + 1
    BY <1>5, <2>1, <2>5
  <2> QED BY <2>2, <2>3, <2>4, <2>5
<1>12. WalkInv(records, root, v)
  <2>1. /\ \A x \in Seen(v) : records[x].key \in PathKeys(records, records[root].key)
        /\ root \in Seen(v)
    BY <1>9, <1>10 DEF WalkInv
  <2>2. v.depth # 0 /\ v.result # "SUCCESS"
    BY <1>1, <1>5
  <2> QED BY <1>5, <1>11, <2>1, <2>2 DEF WalkInv, D
<1> QED BY <1>9, <1>12 DEF v, child

LEMMA StopKeeps ==
    ASSUME NEW records, NEW root \in DOMAIN records, NEW w, WalkInv(records, root, w),
           NEW result \in Results \ {"PENDING", "SUCCESS"}
    PROVE  WalkInv(records, root, Stop(w, result)) /\ Seen(w) \subseteq Seen(Stop(w, result))
<1> DEFINE v == Stop(w, result)
<1>1. w \in WalkTypes(DOMAIN records)
  BY DEF WalkInv
<1>2. /\ v \in WalkTypes(DOMAIN records) /\ v.depth = w.depth /\ v.queue = w.queue /\ v.next = w.next
      /\ v.order = w.order /\ v.result = result
  BY <1>1, StopMakes
<1> HIDE DEF v
<1>3. Seen(v) = Seen(w)
  BY <1>2 DEF Seen, OnPath
<1>4. PathSettled(records, v)
  BY <1>2 DEF WalkInv, PathSettled, Below
<1>5. WalkInv(records, root, v)
  BY <1>2, <1>3, <1>4 DEF WalkInv
<1> QED BY <1>3, <1>5 DEF v

LEMMA TurnKeeps ==
    ASSUME NEW records, Linked(records), NEW root \in DOMAIN records, NEW w, WalkInv(records, root, w)
    PROVE  WalkInv(records, root, Turn(records, w)) /\ Seen(w) \subseteq Seen(Turn(records, w))
<1> DEFINE next == w.next[w.depth]
           deps == DepsOf(records, w)
           dep == deps[next]
           child == Place(records, dep.target)
           Good(v) == WalkInv(records, root, v) /\ Seen(w) \subseteq Seen(v)
<1> SUFFICES Good(Turn(records, w))
  OBVIOUS
<1>1. CASE w.result # "PENDING"
  BY <1>1 DEF Turn
<1>2. CASE w.result = "PENDING" /\ next \notin DOMAIN deps
  <2>1. Turn(records, w) = Leave(w)
    BY <1>2 DEF Turn
  <2> QED BY <1>2, <2>1, LeaveKeeps
<1>3. CASE w.result = "PENDING" /\ next \in DOMAIN deps
  <2>1. Turn(records, w) = Considered(records, w, dep)
    BY <1>3 DEF Turn
  <2>2. Good(Stop(w, "DEPENDENCY_MISSING")) /\ Good(Stop(w, "DEPENDENCY_CYCLE")) /\ Good(Stop(w, "OUT_OF_BUDGET"))
    BY StopKeeps DEF Results
  <2>3. Settled(records, dep, Range(w.order)) => Good(PassOver(w))
    BY <1>3, PassOverKeeps
  <2>4. Knows(records, dep.target) /\ w.depth # MaxResources => Good(Enter(w, child))
    BY <1>3, EnterKeeps
  <2> HIDE DEF Good, dep
  <2>5. CASE ~Knows(records, dep.target)
    BY <2>1, <2>2, <2>3, <2>5 DEF Considered, Settled
  <2>6. CASE Knows(records, dep.target)
    BY <2>1, <2>2, <2>3, <2>4, <2>6 DEF Considered, Settled
  <2> QED BY <2>5, <2>6
<1> QED BY <1>1, <1>2, <1>3

LEMMA TurnsNatural == Turns \in Nat
BY WriterAssumption DEF Turns

LEMMA WalksExists ==
    ASSUME NEW records, Linked(records), NEW root \in DOMAIN records
    PROVE  \E walk : Walks(records, root, walk)
<1> DEFINE X == {w \in WalkTypes(DOMAIN records) : WalkInv(records, root, w)}
           F == [w \in X |-> Turn(records, w)]
           b == WalkFrom(root)
<1>1. \A w : w \in X <=> WalkInv(records, root, w)
  BY DEF WalkInv
<1>2. b \in X
  BY <1>1, WalkStarts
<1> HIDE DEF X, b
<1>3. F \in [X -> X]
  BY <1>1, TurnKeeps
<1>4. \A w \in X : F[w] = Turn(records, w)
  OBVIOUS
<1> HIDE DEF F
<1>5. PICK walk \in [0..Turns -> X] : IteratesOf(F, b, Turns, walk)
  BY <1>2, <1>3, TurnsNatural, Iterates
<1>6. walk[0] = b
  BY <1>5 DEF IteratesOf
<1>7. ASSUME NEW n \in 1..Turns PROVE walk[n] = Turn(records, walk[n - 1])
  <2>1. walk[n] = F[walk[n - 1]]
    BY <1>5 DEF IteratesOf
  <2>2. n - 1 \in 0..Turns
    BY TurnsNatural
  <2> QED BY <1>4, <1>5, <2>1, <2>2
<1> DEFINE v == [n \in 0..Turns |-> IF n = 0 THEN WalkFrom(root) ELSE Turn(records, walk[n - 1])]
<1>8. \A n \in 0..Turns : walk[n] = v[n]
  BY <1>6, <1>7, TurnsNatural DEF b
<1>9. walk = v
  BY <1>5, <1>8
<1> QED BY <1>9 DEF Walks

LEMMA WalksTurns ==
    ASSUME NEW records, NEW root, NEW walk, Walks(records, root, walk)
    PROVE  /\ walk[0] = WalkFrom(root)
           /\ \A n \in Nat : n + 1 <= Turns => walk[n + 1] = Turn(records, walk[n])
<1> DEFINE G(n) == IF n = 0 THEN WalkFrom(root) ELSE Turn(records, walk[n - 1])
<1> HIDE DEF G
<1>1. walk = [n \in 0..Turns |-> G(n)]
  BY DEF Walks, G
<1>2. \A n \in 0..Turns : walk[n] = G(n)
  BY <1>1
<1>3. walk[0] = WalkFrom(root)
  <2>1. walk[0] = G(0)
    BY <1>2, TurnsNatural
  <2> QED BY <2>1 DEF G
<1>4. ASSUME NEW n \in Nat, n + 1 <= Turns PROVE walk[n + 1] = Turn(records, walk[n])
  <2>1. walk[n + 1] = G(n + 1)
    BY <1>2, <1>4, TurnsNatural
  <2>2. n + 1 # 0 /\ (n + 1) - 1 = n
    OBVIOUS
  <2> QED BY <2>1, <2>2 DEF G
<1> QED BY <1>3, <1>4

LEMMA WalksKeep ==
    ASSUME NEW records, Linked(records), NEW root \in DOMAIN records, NEW walk, Walks(records, root, walk)
    PROVE  \A n \in 0..Turns : WalkInv(records, root, walk[n])
<1> DEFINE T == {n \in Nat : n <= Turns => WalkInv(records, root, walk[n])}
<1>1. 0 \in T
  BY WalksTurns, WalkStarts
<1>2. ASSUME NEW n \in Nat, n \in T PROVE n + 1 \in T
  <2> SUFFICES ASSUME n + 1 <= Turns PROVE WalkInv(records, root, walk[n + 1])
    OBVIOUS
  <2>1. WalkInv(records, root, walk[n])
    BY <1>2, TurnsNatural
  <2>2. walk[n + 1] = Turn(records, walk[n])
    BY WalksTurns
  <2> QED BY <2>1, <2>2, TurnKeeps
<1>3. Nat \subseteq T
  <2> HIDE DEF T
  <2> QED BY <1>1, <1>2, Upwards
<1> QED BY <1>3, TurnsNatural

\* A walk never turns its back on a slot it has seen.
LEMMA WalksSee ==
    ASSUME NEW records, Linked(records), NEW root \in DOMAIN records, NEW walk, Walks(records, root, walk)
    PROVE  \A n \in 0..Turns : Seen(walk[n]) \subseteq Seen(walk[Turns])
<1> DEFINE T == {m \in Nat : m <= Turns => Seen(walk[Turns - m]) \subseteq Seen(walk[Turns])}
<1>1. 0 \in T
  <2>1. Turns - 0 = Turns
    BY TurnsNatural
  <2> QED BY <2>1
<1>2. ASSUME NEW m \in Nat, m \in T PROVE m + 1 \in T
  <2> SUFFICES ASSUME m + 1 <= Turns PROVE Seen(walk[Turns - (m + 1)]) \subseteq Seen(walk[Turns])
    OBVIOUS
  <2> DEFINE n == Turns - (m + 1)
  <2>1. n \in Nat /\ n \in 0..Turns /\ n + 1 <= Turns /\ n + 1 = Turns - m
    BY TurnsNatural
  <2>2. Seen(walk[n + 1]) \subseteq Seen(walk[Turns])
    BY <1>2, <2>1, TurnsNatural
  <2> HIDE DEF n
  <2>3. WalkInv(records, root, walk[n])
    BY <2>1, WalksKeep
  <2>4. walk[n + 1] = Turn(records, walk[n])
    BY <2>1, WalksTurns
  <2>5. Seen(walk[n]) \subseteq Seen(walk[n + 1])
    BY <2>3, <2>4, TurnKeeps
  <2> QED BY <2>2, <2>5 DEF n
<1>3. Nat \subseteq T
  <2> HIDE DEF T
  <2> QED BY <1>1, <1>2, Upwards
<1>4. ASSUME NEW n \in 0..Turns PROVE Seen(walk[n]) \subseteq Seen(walk[Turns])
  <2>1. Turns - n \in Nat /\ Turns - n <= Turns /\ Turns - (Turns - n) = n
    BY TurnsNatural
  <2>2. Turns - n \in T
    BY <1>3, <2>1
  <2> QED BY <2>1, <2>2
<1> QED BY <1>4

LEMMA WalkedIs ==
    ASSUME NEW records, Linked(records), NEW root \in DOMAIN records
    PROVE  \E walk : Walks(records, root, walk) /\ Walked(records, root) = walk[Turns]
BY WalksExists DEF Walked

LEMMA WalkedKeeps ==
    ASSUME NEW records, Linked(records), NEW root \in DOMAIN records
    PROVE  WalkInv(records, root, Walked(records, root))
<1>1. Turns \in 0..Turns
  BY TurnsNatural
<1> QED BY <1>1, WalkedIs, WalksKeep

\* What a walk that succeeds has put in order: the slots on the paths from its root, each behind all
\* it depends on.
LEMMA WalkedTells ==
    ASSUME NEW records, Linked(records), NEW root \in DOMAIN records,
           Walked(records, root).result = "SUCCESS"
    PROVE  LET order == Walked(records, root).order
           IN /\ order \in Seq(DOMAIN records) /\ Ordered(records, order)
              /\ root \in Range(order) /\ Seen(Walked(records, root)) = Range(order)
              /\ Range(order) = {s \in DOMAIN records : records[s].key \in PathKeys(records, records[root].key)}
<1> DEFINE w == Walked(records, root)
           key == records[root].key
           C == {records[s].key : s \in Range(w.order)} \cup {k \in PathKeys(records, key) : ~Knows(records, k)}
<1>1. WalkInv(records, root, w)
  BY WalkedKeeps
<1>2. w.depth = 0 /\ w.order \in Seq(DOMAIN records)
  BY <1>1 DEF WalkInv, WalkTypes
<1> HIDE DEF w
<1>3. OnPath(w) = {}
  BY <1>2 DEF OnPath
<1>4. Seen(w) = Range(w.order)
  BY <1>3 DEF Seen
<1>5. root \in Range(w.order) /\ \A s \in Range(w.order) : records[s].key \in PathKeys(records, key)
  BY <1>1, <1>4 DEF WalkInv
<1>6. Ordered(records, w.order)
  BY <1>1 DEF WalkInv
<1>7. DOMAIN w.order = 1..Len(w.order) /\ Len(w.order) \in Nat /\ \A k \in DOMAIN w.order : w.order[k] \in DOMAIN records
  BY <1>2
<1>8. Range(w.order) \subseteq DOMAIN records /\ Range(w.order) = {w.order[k] : k \in DOMAIN w.order}
  BY <1>7 DEF Range
<1>9. key \in C
  BY <1>5
<1>10. Closed(records, C)
  <2> SUFFICES ASSUME NEW s \in DOMAIN records, records[s].key \in C, NEW target \in Targets(records[s].deps)
               PROVE  target \in C
    BY DEF Closed
  <2>1. s \in Range(w.order)
    <3>1. Knows(records, records[s].key)
      BY DEF Knows
    <3>2. PICK t \in Range(w.order) : records[s].key = records[t].key
      BY <3>1
    <3>3. t \in DOMAIN records
      BY <1>8
    <3>4. s = t
      BY <3>2, <3>3 DEF Linked
    <3> QED BY <3>4
  <2>2. PICK k \in DOMAIN w.order : s = w.order[k]
    BY <1>8, <2>1
  <2>3. PICK i \in DOMAIN records[s].deps : target = records[s].deps[i].target
    BY DEF Targets
  <2> DEFINE dep == records[s].deps[i]
             before == {w.order[j] : j \in 1..(k - 1)}
  <2>4. Settled(records, dep, before)
    BY <1>6, <2>2 DEF Ordered, SettledAll
  <2>5. before \subseteq Range(w.order)
    <3>1. \A j \in 1..(k - 1) : j \in DOMAIN w.order
      BY <1>7
    <3> QED BY <1>8, <3>1
  <2>6. target \in PathKeys(records, key)
    <3>1. records[s].key \in PathKeys(records, key)
      BY <1>5, <2>1
    <3> QED BY <3>1, PathKeysLeastClosed DEF Linked, Closed
  <2> HIDE DEF before
  <2>7. CASE Knows(records, target)
    <3>1. Place(records, target) \in Range(w.order)
      BY <2>3, <2>4, <2>5, <2>7 DEF Settled
    <3>2. records[Place(records, target)].key = target
      BY <2>7, PlaceOfKey
    <3> QED BY <3>1, <3>2
  <2>8. CASE ~Knows(records, target)
    BY <2>6, <2>8
  <2> QED BY <2>7, <2>8
<1>11. PathKeys(records, key) \subseteq C
  <2> HIDE DEF C, key
  <2> QED BY <1>9, <1>10, PathKeysLeastClosed DEF Linked
<1>12. ASSUME NEW s \in DOMAIN records, records[s].key \in PathKeys(records, key)
       PROVE  s \in Range(w.order)
  <2>1. Knows(records, records[s].key) /\ records[s].key \in C
    BY <1>11, <1>12 DEF Knows
  <2>2. PICK t \in Range(w.order) : records[s].key = records[t].key
    BY <2>1
  <2>3. t \in DOMAIN records
    BY <1>8
  <2>4. s = t
    BY <2>2, <2>3 DEF Linked
  <2> QED BY <2>4
<1>13. Range(w.order) = {s \in DOMAIN records : records[s].key \in PathKeys(records, key)}
  <2> HIDE DEF C, key
  <2> QED BY <1>5, <1>8, <1>12
<1> QED BY <1>2, <1>4, <1>5, <1>6, <1>13 DEF w

\* Records that look the same from a slot: it depends on the same, and finds it where it was.
Alike(before, after, s) ==
    /\ s \in DOMAIN after /\ after[s].deps = before[s].deps
    /\ \A i \in DOMAIN before[s].deps :
           LET key == before[s].deps[i].target
           IN /\ Knows(after, key) <=> Knows(before, key)
              /\ Knows(before, key) => Place(after, key) = Place(before, key)

LEMMA SameTurn ==
    ASSUME NEW before, NEW after, NEW w, w.result = "PENDING" => Alike(before, after, w.queue[w.depth])
    PROVE  Turn(after, w) = Turn(before, w)
<1>1. CASE w.result # "PENDING"
  BY <1>1 DEF Turn
<1>2. CASE w.result = "PENDING"
  <2> DEFINE deps == DepsOf(before, w)
             next == w.next[w.depth]
  <2>1. DepsOf(after, w) = deps
    BY <1>2 DEF DepsOf, Alike
  <2>2. ASSUME next \in DOMAIN deps PROVE Considered(after, w, deps[next]) = Considered(before, w, deps[next])
    <3> DEFINE key == deps[next].target
    <3>1. Knows(after, key) <=> Knows(before, key)
      BY <1>2, <2>2 DEF Alike, DepsOf
    <3>2. Knows(before, key) => Place(after, key) = Place(before, key)
      BY <1>2, <2>2 DEF Alike, DepsOf
    <3> HIDE DEF deps, next
    <3> QED BY <3>1, <3>2 DEF Considered
  <2> QED BY <2>1, <2>2 DEF Turn
<1> QED BY <1>1, <1>2

\* A change that no slot of the order notices leaves the walk as it is.
LEMMA SameWalk ==
    ASSUME NEW before, Linked(before), NEW after, Linked(after),
           NEW root \in DOMAIN before, root \in DOMAIN after, Walked(before, root).result = "SUCCESS",
           \A s \in Range(Walked(before, root).order) : Alike(before, after, s)
    PROVE  Walked(after, root) = Walked(before, root)
<1>1. PICK w : Walks(before, root, w) /\ Walked(before, root) = w[Turns]
  BY WalkedIs
<1>2. PICK v : Walks(after, root, v) /\ Walked(after, root) = v[Turns]
  BY WalkedIs
<1>3. \A n \in 0..Turns : WalkInv(before, root, w[n]) /\ Seen(w[n]) \subseteq Range(w[Turns].order)
  BY <1>1, WalksKeep, WalksSee, WalkedTells
<1> DEFINE T == {n \in Nat : n <= Turns => v[n] = w[n]}
<1>4. 0 \in T
  BY <1>1, <1>2, WalksTurns
<1>5. ASSUME NEW n \in Nat, n \in T PROVE n + 1 \in T
  <2> SUFFICES ASSUME n + 1 <= Turns PROVE v[n + 1] = w[n + 1]
    OBVIOUS
  <2>1. n \in 0..Turns /\ v[n] = w[n]
    BY <1>5, TurnsNatural
  <2>2. v[n + 1] = Turn(after, w[n]) /\ w[n + 1] = Turn(before, w[n])
    BY <1>1, <1>2, <2>1, WalksTurns
  <2>3. ASSUME w[n].result = "PENDING" PROVE Alike(before, after, w[n].queue[w[n].depth])
    <3>1. w[n].depth \in Nat /\ w[n].depth # 0
      BY <1>3, <2>1, <2>3, WriterAssumption DEF WalkInv, WalkTypes
    <3>2. w[n].queue[w[n].depth] \in Seen(w[n])
      BY <3>1 DEF Seen, OnPath
    <3> QED BY <1>1, <1>3, <2>1, <3>2
  <2> QED BY <2>2, <2>3, SameTurn
<1>6. Nat \subseteq T
  <2> HIDE DEF T
  <2> QED BY <1>4, <1>5, Upwards
<1> QED BY <1>1, <1>2, <1>6, TurnsNatural

-----------------------------------------------------------------------------
(* What depends on a key is told when the key changes                       *)

Sources(reverse, keys) == {s \in Slots : Range(reverse[s]) \cap keys # {}}
SourceKeys(records, reverse, keys) == {records[s].key : s \in Sources(reverse, keys) \cap DOMAIN records}

\* What Affected iterates.
Reaches(key, records, reverse, within) ==
    within = [n \in 0..MaxResources |-> IF n = 0 THEN {key}
                                        ELSE within[n - 1] \cup SourceKeys(records, reverse, within[n - 1])]

LEMMA AffectedIs ==
    \A key, records, reverse :
        Affected(key, records, reverse) =
            Sources(reverse, (CHOOSE within : Reaches(key, records, reverse, within))[MaxResources])
BY DEF Affected, Reaches, SourceKeys, Sources

LEMMA ReachesExists ==
    ASSUME NEW key, NEW records, NEW reverse
    PROVE  \E within : Reaches(key, records, reverse, within)
<1> DEFINE U == {key} \cup {records[s].key : s \in DOMAIN records}
           F == [keys \in SUBSET U |-> keys \cup SourceKeys(records, reverse, keys)]
           X == SUBSET U
           b == {key}
<1>1. F \in [X -> X] /\ b \in X
  <2>1. ASSUME NEW keys PROVE SourceKeys(records, reverse, keys) \subseteq U
    BY DEF SourceKeys
  <2> QED BY <2>1
<1>2. \A keys \in X : F[keys] = keys \cup SourceKeys(records, reverse, keys)
  OBVIOUS
<1>3. MaxResources \in Nat
  BY WriterAssumption
<1> HIDE DEF F, X, b
<1>4. PICK w \in [0..MaxResources -> X] : IteratesOf(F, b, MaxResources, w)
  BY <1>1, <1>3, Iterates
<1>5. ASSUME NEW n \in 1..MaxResources
      PROVE  w[n] = w[n - 1] \cup SourceKeys(records, reverse, w[n - 1])
  <2>1. n - 1 \in 0..MaxResources
    BY <1>3
  <2>2. w[n] = F[w[n - 1]]
    BY <1>4 DEF IteratesOf
  <2> QED BY <1>2, <1>4, <2>1, <2>2
<1>6. w[0] = {key}
  BY <1>4 DEF IteratesOf, b
<1> DEFINE v == [n \in 0..MaxResources |-> IF n = 0 THEN {key}
                                           ELSE w[n - 1] \cup SourceKeys(records, reverse, w[n - 1])]
<1>7. \A n \in 0..MaxResources : w[n] = v[n]
  BY <1>3, <1>5, <1>6
<1>8. w = v
  BY <1>4, <1>7
<1> QED BY <1>8 DEF Reaches

LEMMA ReachesFirst ==
    ASSUME NEW key, NEW records, NEW reverse, NEW within, Reaches(key, records, reverse, within)
    PROVE  key \in within[MaxResources]
<1> DEFINE G(n) == IF n = 0 THEN {key} ELSE within[n - 1] \cup SourceKeys(records, reverse, within[n - 1])
           T == {n \in Nat : n <= MaxResources => key \in within[n]}
<1>1. MaxResources \in Nat
  BY WriterAssumption
<1> HIDE DEF G
<1>2. within = [n \in 0..MaxResources |-> G(n)]
  BY DEF Reaches, G
<1>3. \A n \in 0..MaxResources : within[n] = G(n)
  BY <1>2
<1>4. 0 \in T
  <2>1. within[0] = G(0)
    BY <1>1, <1>3
  <2> QED BY <2>1 DEF G
<1>5. ASSUME NEW n \in Nat, n \in T PROVE n + 1 \in T
  <2> SUFFICES ASSUME n + 1 <= MaxResources PROVE key \in within[n + 1]
    OBVIOUS
  <2>1. within[n + 1] = G(n + 1) /\ n + 1 # 0 /\ (n + 1) - 1 = n
    BY <1>1, <1>3
  <2>2. key \in within[n]
    BY <1>1, <1>5
  <2> QED BY <2>1, <2>2 DEF G
<1>6. Nat \subseteq T
  <2> HIDE DEF T
  <2> QED BY <1>4, <1>5, Upwards
<1> QED BY <1>1, <1>6

LEMMA AffectedFirst ==
    ASSUME NEW key, NEW records, NEW reverse, NEW s \in Slots, key \in Range(reverse[s])
    PROVE  s \in Affected(key, records, reverse)
<1> DEFINE W == CHOOSE within : Reaches(key, records, reverse, within)
<1>1. Reaches(key, records, reverse, W)
  BY ReachesExists
<1>2. Affected(key, records, reverse) = Sources(reverse, W[MaxResources])
  BY AffectedIs
<1> HIDE DEF W
<1>3. key \in W[MaxResources]
  BY <1>1, ReachesFirst
<1> QED BY <1>2, <1>3 DEF Sources

\* The edges of a slot hold what its record depends on, and no slot was ever told of a later change.
LinksInv ==
    /\ Linked(published)
    /\ DOMAIN edges = Slots
    /\ \A s \in DOMAIN published : Targets(published[s].deps) \subseteq Range(edges[s])
    /\ change \in Nat /\ DOMAIN invalidation = Slots
    /\ \A s \in Slots : invalidation[s] \in 0..change

\* A change of one slot: the others keep their records, those that depend on its key are told, and its
\* record, if it has one then, is a new identity or a new revision.
Changes(x, key) ==
    /\ x \in Slots /\ change' = change + 1 /\ plan' = plan
    /\ DOMAIN published \subseteq DOMAIN published' \cup {x} /\ DOMAIN published' \subseteq DOMAIN published \cup {x}
    /\ \A s \in DOMAIN published : s # x => published'[s] = published[s]
    /\ x \in DOMAIN published => published[x].key = key
    /\ DOMAIN edges' = Slots /\ \A s \in Slots : s # x => edges'[s] = edges[s]
    /\ DOMAIN invalidation' = Slots /\ invalidation'[x] \in 0..(change + 1)
    /\ \A s \in Slots : s # x => invalidation'[s] \in {invalidation[s], change + 1}
    /\ \A s \in Slots : s # x /\ key \in Range(edges[s]) => invalidation'[s] = change + 1
    /\ IF x \notin DOMAIN published' THEN nextGeneration' = nextGeneration
       ELSE LET record == published'[x] IN
            /\ record.key = key /\ record.slot = x
            /\ Succeeds(record)
            /\ x \in DOMAIN published \/ ~Known(key)
            /\ Targets(record.deps) \subseteq Range(edges'[x])
            /\ \E n \in Nat : DOMAIN record.deps = 1..n

LEMMA LinksStart == LoadInit => LinksInv
<1> SUFFICES ASSUME LoadInit PROVE LinksInv
  OBVIOUS
<1>1. /\ published = <<>> /\ change = 0 /\ edges = [s \in Slots |-> <<>>]
      /\ invalidation = [s \in Slots |-> 0]
  BY DEF LoadInit, WriterInit
<1> QED BY <1>1 DEF LinksInv, Linked

LEMMA LinksUntouched ==
    ASSUME LinksInv, UNCHANGED <<published, edges, change, invalidation>>
    PROVE  LinksInv'
BY DEF LinksInv, Linked

LEMMA LinksChange ==
    ASSUME LinksInv, NEW x, NEW key, Changes(x, key)
    PROVE  LinksInv'
<1>1. Linked(published')
  <2>1. DOMAIN published' \subseteq Slots
    BY DEF Changes, LinksInv, Linked
  <2>2. ASSUME NEW s \in DOMAIN published' PROVE \E n \in Nat : DOMAIN published'[s].deps = 1..n
    BY <2>2 DEF Changes, LinksInv, Linked
  <2>3. ASSUME NEW s \in DOMAIN published', NEW t \in DOMAIN published', published'[s].key = published'[t].key
        PROVE  s = t
    <3>1. ASSUME NEW a \in DOMAIN published', NEW b \in DOMAIN published', a # x, b = x,
                 published'[a].key = published'[b].key
          PROVE  FALSE
      <4>1. a \in DOMAIN published /\ published'[a] = published[a] /\ published[a].key = key
        BY <3>1 DEF Changes
      <4>2. CASE x \in DOMAIN published
        BY <3>1, <4>1, <4>2 DEF Changes, LinksInv, Linked
      <4>3. CASE x \notin DOMAIN published
        BY <3>1, <4>1, <4>3 DEF Changes, Known
      <4> QED BY <4>2, <4>3
    <3>2. CASE s # x /\ t # x
      BY <2>3, <3>2 DEF Changes, LinksInv, Linked
    <3> QED BY <2>3, <3>1, <3>2
  <2> QED BY <2>1, <2>2, <2>3 DEF Linked
<1>2. ASSUME NEW s \in DOMAIN published' PROVE Targets(published'[s].deps) \subseteq Range(edges'[s])
  <2>1. CASE s = x
    BY <1>2, <2>1 DEF Changes
  <2>2. CASE s # x
    <3>1. s \in DOMAIN published /\ s \in Slots /\ published'[s] = published[s] /\ edges'[s] = edges[s]
      BY <1>2, <2>2 DEF Changes, LinksInv, Linked
    <3> QED BY <3>1 DEF LinksInv
  <2> QED BY <2>1, <2>2
<1>3. change' \in Nat /\ \A s \in Slots : invalidation'[s] \in 0..change'
  <2>1. change \in Nat /\ change' = change + 1
    BY DEF LinksInv, Changes
  <2>2. ASSUME NEW s \in Slots PROVE invalidation'[s] \in 0..(change + 1)
    BY <2>1, <2>2 DEF LinksInv, Changes
  <2> QED BY <2>1, <2>2
<1> QED BY <1>1, <1>2, <1>3 DEF LinksInv, Changes

-----------------------------------------------------------------------------
(* A plan that validates is the plan that would be compiled now             *)

\* An entry tells of a record that is or was in its slot, and of no later invalidation.
Past(entry) ==
    /\ entry.slot \in Slots /\ entry.gen \in Nat /\ entry.rev \in Nat /\ entry.change \in 0..change
    /\ entry.gen < nextGeneration[entry.slot]
    /\ entry.slot \in DOMAIN published /\ published[entry.slot].gen = entry.gen =>
           entry.rev <= published[entry.slot].rev

PlanIsCurrent ==
    /\ plan.root \in DOMAIN published
    /\ Walk(plan.root).result = "SUCCESS" /\ plan.entries = Entries(plan.root)

PlanInv == plan # NoPlan =>
    /\ \A i \in DOMAIN plan.entries : Past(plan.entries[i])
    /\ PlanValid => PlanIsCurrent

LEMMA PlanStart == LoadInit => PlanInv
BY DEF LoadInit, WriterInit, PlanInv

LEMMA PlanUntouched ==
    ASSUME PlanInv, UNCHANGED <<published, nextGeneration, invalidation, change, plan>>
    PROVE  PlanInv'
<1>1. \A root : Walk(root)' = Walk(root)
  BY WalkIsWalked, WalkIsWalkedAfter
<1>2. \A s : Entry(s)' = Entry(s)
  BY DEF Entry
<1>3. Entries(plan.root)' = Entries(plan.root)
  BY <1>1, <1>2 DEF Entries
<1>4. PlanIsCurrent' <=> PlanIsCurrent
  BY <1>1, <1>3 DEF PlanIsCurrent
<1>5. PlanValid' <=> PlanValid
  BY <1>2 DEF PlanValid
<1> QED BY <1>4, <1>5 DEF PlanInv, Past

LEMMA PastChange ==
    ASSUME OrderInv, LinksInv, NEW x, NEW key, Changes(x, key), NEW entry, Past(entry)
    PROVE  Past(entry)'
<1> DEFINE s == entry.slot
<1>1. change \in Nat /\ change' = change + 1 /\ s \in Slots /\ entry.gen \in Nat /\ entry.rev \in Nat
      /\ entry.change \in 0..change /\ entry.gen < nextGeneration[s] /\ nextGeneration \in [Slots -> Nat]
  BY DEF LinksInv, Changes, Past, OrderInv
<1>2. entry.change \in 0..change'
  BY <1>1
<1>3. ASSUME NEW t \in DOMAIN published PROVE published[t].gen \in Nat /\ published[t].rev \in Nat
  BY <1>3, LiveAre DEF OrderInv, Tidy
<1>4. CASE x \notin DOMAIN published'
  <2>1. nextGeneration' = nextGeneration
    BY <1>4 DEF Changes
  <2>2. s \in DOMAIN published' => s \in DOMAIN published /\ published'[s] = published[s]
    BY <1>4 DEF Changes
  <2> QED BY <1>1, <1>2, <2>1, <2>2 DEF Past
<1>5. CASE x \in DOMAIN published'
  <2> DEFINE record == published'[x]
  <2>1. record.slot = x /\ Succeeds(record)
    BY <1>5 DEF Changes
  <2> HIDE DEF record
  <2>2. CASE x \notin DOMAIN published
    <3>1. record.gen = nextGeneration[x] /\ nextGeneration' = [nextGeneration EXCEPT ![x] = @ + 1]
      BY <2>1, <2>2 DEF Succeeds
    <3>2. entry.gen < nextGeneration'[s]
      BY <1>1, <3>1
    <3>3. s = x => published'[s].gen # entry.gen
      BY <1>1, <3>1 DEF record
    <3>4. s # x /\ s \in DOMAIN published' => s \in DOMAIN published /\ published'[s] = published[s]
      BY DEF Changes
    <3> QED BY <1>1, <1>2, <3>2, <3>3, <3>4 DEF Past
  <2>3. CASE x \in DOMAIN published
    <3>1. /\ record.gen = published[x].gen /\ record.rev = published[x].rev + 1
          /\ nextGeneration' = nextGeneration
      BY <2>1, <2>3 DEF Succeeds
    <3>2. s = x /\ published'[s].gen = entry.gen => entry.rev <= published'[s].rev
      <4> SUFFICES ASSUME s = x, record.gen = entry.gen PROVE entry.rev <= record.rev
        BY DEF record
      <4>1. entry.rev <= published[x].rev
        BY <2>3, <3>1 DEF Past
      <4> QED BY <1>1, <1>3, <2>3, <3>1, <4>1
    <3>3. s # x /\ s \in DOMAIN published' => s \in DOMAIN published /\ published'[s] = published[s]
      BY DEF Changes
    <3> QED BY <1>1, <1>2, <3>1, <3>2, <3>3 DEF Past
  <2> QED BY <2>2, <2>3
<1> QED BY <1>4, <1>5

\* An entry that holds after a change is of another slot, and that slot was not told of it.
LEMMA EntryUnchanged ==
    ASSUME OrderInv, LinksInv, NEW x, NEW key, Changes(x, key), NEW entry, Past(entry),
           entry.slot \in DOMAIN published', entry = Entry(entry.slot)'
    PROVE  LET s == entry.slot
           IN /\ s # x /\ s \in DOMAIN published /\ published'[s] = published[s]
              /\ invalidation'[s] = invalidation[s] /\ entry = Entry(s) /\ key \notin Range(edges[s])
<1> DEFINE s == entry.slot
<1>1. /\ entry.gen = published'[s].gen /\ entry.rev = published'[s].rev /\ entry.change = invalidation'[s]
      /\ entry = [slot |-> s, gen |-> published'[s].gen, rev |-> published'[s].rev,
                  state |-> published'[s].state, change |-> invalidation'[s]]
  BY DEF Entry
<1>2. /\ change \in Nat /\ s \in Slots /\ entry.gen \in Nat /\ entry.rev \in Nat /\ entry.change \in 0..change
      /\ entry.gen < nextGeneration[s] /\ nextGeneration \in [Slots -> Nat]
  BY DEF LinksInv, Past, OrderInv
<1>3. s # x
  <2> SUFFICES ASSUME s = x PROVE FALSE
    OBVIOUS
  <2>1. Succeeds(published'[x]) /\ published'[x].slot = x
    BY DEF Changes
  <2>2. CASE x \notin DOMAIN published
    <3>1. published'[x].gen = nextGeneration[x]
      BY <2>1, <2>2 DEF Succeeds
    <3> QED BY <1>1, <1>2, <3>1
  <2>3. CASE x \in DOMAIN published
    <3>1. published'[x].gen = published[x].gen /\ published'[x].rev = published[x].rev + 1
      BY <2>1, <2>3 DEF Succeeds
    <3>2. published[x].rev \in Nat
      BY <2>3, LiveAre DEF OrderInv, Tidy
    <3>3. entry.rev <= published[x].rev
      BY <1>1, <2>3, <3>1 DEF Past
    <3> QED BY <1>1, <1>2, <3>1, <3>2, <3>3
  <2> QED BY <2>2, <2>3
<1>4. s \in DOMAIN published /\ published'[s] = published[s]
  BY <1>3 DEF Changes
<1>5. invalidation'[s] # change + 1
  BY <1>1, <1>2
<1>6. invalidation'[s] = invalidation[s] /\ key \notin Range(edges[s])
  BY <1>2, <1>3, <1>5 DEF Changes
<1>7. entry = Entry(s)
  BY <1>1, <1>4, <1>6 DEF Entry
<1> QED BY <1>3, <1>4, <1>6, <1>7

\* Slots that keep their records find what they depend on where it was, but for the key that changes.
LEMMA ChangeAlike ==
    ASSUME LinksInv, LinksInv', NEW x, NEW key, Changes(x, key), NEW s \in DOMAIN published, s # x,
           key \notin Range(edges[s])
    PROVE  Alike(published, published', s)
<1>1. s \in DOMAIN published' /\ published'[s] = published[s]
  BY DEF Changes
<1>2. ASSUME NEW i \in DOMAIN published[s].deps, NEW k, k = published[s].deps[i].target
      PROVE  /\ Knows(published', k) <=> Knows(published, k)
             /\ Knows(published, k) => Place(published', k) = Place(published, k)
  <2>1. k # key
    BY <1>2 DEF LinksInv, Targets
  <2>2. \A t \in DOMAIN published : published[t].key = k =>
            t \in DOMAIN published' /\ published'[t].key = k
    BY <2>1 DEF Changes
  <2>3. \A t \in DOMAIN published' : published'[t].key = k =>
            t \in DOMAIN published /\ published[t].key = k
    BY <2>1 DEF Changes
  <2>4. Knows(published', k) <=> Knows(published, k)
    BY <2>2, <2>3 DEF Knows
  <2>5. ASSUME Knows(published, k) PROVE Place(published', k) = Place(published, k)
    <3>1. Place(published, k) \in DOMAIN published /\ published[Place(published, k)].key = k
      BY <2>5, PlaceOfKey
    <3>2. Place(published', k) \in DOMAIN published' /\ published'[Place(published', k)].key = k
      BY <2>4, <2>5, PlaceOfKey
    <3>3. Place(published', k) \in DOMAIN published /\ published[Place(published', k)].key = k
      BY <2>3, <3>2
    <3> QED BY <3>1, <3>3 DEF LinksInv, Linked
  <2> QED BY <2>4, <2>5
<1> QED BY <1>1, <1>2 DEF Alike

LEMMA PlanChange ==
    ASSUME RecordsInv, OrderInv, LinksInv, PlanInv, NEW x, NEW key, Changes(x, key)
    PROVE  PlanInv'
<1>1. LinksInv'
  BY LinksChange
<1>2. plan' = plan
  BY DEF Changes
<1> SUFFICES ASSUME plan # NoPlan
             PROVE  /\ \A i \in DOMAIN plan.entries : Past(plan.entries[i])'
                    /\ PlanValid' => PlanIsCurrent'
  BY <1>2 DEF PlanInv
<1>3. \A i \in DOMAIN plan.entries : Past(plan.entries[i])
  BY DEF PlanInv
<1>4. ASSUME NEW i \in DOMAIN plan.entries PROVE Past(plan.entries[i])'
  <2>1. ASSUME NEW e, Past(e) PROVE Past(e)'
    BY <2>1, PastChange
  <2> QED BY <1>2, <1>3, <2>1 DEF Past
<1>5. ASSUME PlanValid' PROVE PlanIsCurrent'
  <2>0. PICK root, order : root = plan.root /\ order = Walked(published, root).order
    OBVIOUS
  <2>1. ASSUME NEW i \in DOMAIN plan.entries, NEW entry, entry = plan.entries[i]
        PROVE  /\ entry.slot # x /\ entry.slot \in DOMAIN published
               /\ published'[entry.slot] = published[entry.slot]
               /\ invalidation'[entry.slot] = invalidation[entry.slot]
               /\ entry = Entry(entry.slot) /\ key \notin Range(edges[entry.slot])
    <3>1. entry.slot \in DOMAIN published' /\ entry = Entry(entry.slot)'
      BY <1>2, <1>5, <2>1 DEF PlanValid, Entry
    <3>2. Past(entry)
      BY <1>3, <2>1
    <3> QED BY <3>1, <3>2, EntryUnchanged
  <2>2. PlanValid
    BY <2>1 DEF PlanValid
  <2>3. /\ root \in DOMAIN published /\ Walked(published, root).result = "SUCCESS"
        /\ plan.entries = [i \in DOMAIN order |-> Entry(order[i])]
    BY <2>0, <2>2, WalkIsWalked DEF PlanInv, PlanIsCurrent, Entries
  <2>4. Linked(published) /\ Linked(published')
    BY <1>1 DEF LinksInv
  <2>5. root \in Range(order)
    BY <2>0, <2>3, <2>4, WalkedTells
  <2>6. ASSUME NEW i \in DOMAIN order
        PROVE  /\ order[i] # x /\ order[i] \in DOMAIN published /\ published'[order[i]] = published[order[i]]
               /\ invalidation'[order[i]] = invalidation[order[i]] /\ key \notin Range(edges[order[i]])
    <3>1. i \in DOMAIN plan.entries /\ plan.entries[i] = Entry(order[i])
      BY <2>3
    <3>2. plan.entries[i].slot = order[i]
      BY <3>1 DEF Entry
    <3> QED BY <2>1, <3>1, <3>2
  <2>7. ASSUME NEW s \in Range(order)
        PROVE  s # x /\ s \in DOMAIN published /\ key \notin Range(edges[s])
    BY <2>6 DEF Range
  <2>8. Walked(published', root) = Walked(published, root)
    <3>1. ASSUME NEW s \in Range(Walked(published, root).order) PROVE Alike(published, published', s)
      BY <1>1, <2>0, <2>7, ChangeAlike
    <3>2. root \in DOMAIN published'
      BY <2>5, <2>7 DEF Changes
    <3> QED BY <2>3, <2>4, <3>1, <3>2, SameWalk
  <2>9. root \in DOMAIN published'
    BY <2>5, <2>7 DEF Changes
  <2>10. Walk(root)' = Walked(published, root)
    BY <2>8, WalkIsWalkedAfter
  <2>11. \A i \in DOMAIN order : Entry(order[i])' = Entry(order[i])
    BY <2>6 DEF Entry
  <2>12. Entries(root)' = plan.entries
    BY <2>0, <2>3, <2>10, <2>11 DEF Entries
  <2> QED BY <1>2, <2>0, <2>3, <2>9, <2>10, <2>12 DEF PlanIsCurrent
<1> QED BY <1>2, <1>4, <1>5

\* What invalidateReverseDependents leaves of the sequences.
LEMMA InvalidateMarks ==
    ASSUME LinksInv, NEW key, NEW records, NEW reverse, NEW sequences, NEW x \in Slots,
           Invalidate(key, records, reverse, sequences),
           sequences[x] \in 0..change,
           \A s \in Slots : s # x => sequences[s] = invalidation[s] /\ reverse[s] = edges[s]
    PROVE  /\ change' = change + 1 /\ DOMAIN invalidation' = Slots /\ invalidation'[x] \in 0..(change + 1)
           /\ \A s \in Slots : s # x => invalidation'[s] \in {invalidation[s], change + 1}
           /\ \A s \in Slots : s # x /\ key \in Range(edges[s]) => invalidation'[s] = change + 1
<1> DEFINE affected == Affected(key, records, reverse)
<1>1. /\ change' = change + 1
      /\ invalidation' = [s \in Slots |-> IF s \in affected THEN change + 1 ELSE sequences[s]]
  BY DEF Invalidate
<1>2. change \in Nat
  BY DEF LinksInv
<1>3. \A s \in Slots : s # x /\ key \in Range(edges[s]) => s \in affected
  BY AffectedFirst
<1> HIDE DEF affected
<1> QED BY <1>1, <1>2, <1>3

\* A record is put into a slot.
PutsIn(x, key, record, reverse, sequences) ==
    /\ x \in Slots /\ record.slot = x /\ record.key = key /\ Succeeds(record)
    /\ DOMAIN reverse = Slots /\ sequences[x] \in 0..change
    /\ \A s \in Slots : s # x => sequences[s] = invalidation[s] /\ reverse[s] = edges[s]
    /\ Targets(record.deps) \subseteq Range(reverse[x]) /\ \E n \in Nat : DOMAIN record.deps = 1..n
    /\ IF x \in DOMAIN published THEN published[x].key = key ELSE ~Known(key)

LEMMA PublishChanges ==
    ASSUME LinksInv, NEW x, NEW key, NEW record, NEW reverse, NEW sequences,
           PutsIn(x, key, record, reverse, sequences), PublishRecord(record, reverse, sequences), plan' = plan
    PROVE  Changes(x, key)
<1> DEFINE records == With(published, x, record)
<1>1. published' = records /\ edges' = reverse /\ Invalidate(key, records, reverse, sequences)
  BY DEF PublishRecord, PutsIn
<1>2. /\ DOMAIN records = DOMAIN published \cup {x} /\ records[x] = record
      /\ \A s \in DOMAIN published : s # x => records[s] = published[s]
  BY DEF With
<1> HIDE DEF records
<1>3. /\ x \in Slots /\ sequences[x] \in 0..change
      /\ \A s \in Slots : s # x => sequences[s] = invalidation[s] /\ reverse[s] = edges[s]
  BY DEF PutsIn
<1>4. /\ change' = change + 1 /\ DOMAIN invalidation' = Slots /\ invalidation'[x] \in 0..(change + 1)
      /\ \A s \in Slots : s # x => invalidation'[s] \in {invalidation[s], change + 1}
      /\ \A s \in Slots : s # x /\ key \in Range(edges[s]) => invalidation'[s] = change + 1
  <2>1. Invalidate(key, records, reverse, sequences)
    BY <1>1
  <2> QED BY <1>3, <2>1, InvalidateMarks
<1>5. /\ DOMAIN published \subseteq DOMAIN published' \cup {x} /\ DOMAIN published' \subseteq DOMAIN published \cup {x}
      /\ x \in DOMAIN published' /\ published'[x] = record
      /\ \A s \in DOMAIN published : s # x => published'[s] = published[s]
  BY <1>1, <1>2
<1>6. DOMAIN edges' = Slots /\ \A s \in Slots : s # x => edges'[s] = edges[s]
  BY <1>1, <1>3 DEF PutsIn
<1>7. Targets(record.deps) \subseteq Range(edges'[x])
  BY <1>1 DEF PutsIn
<1> QED BY <1>4, <1>5, <1>6, <1>7 DEF Changes, PutsIn

LEMMA RetireChanges ==
    ASSUME RecordsInv, LinksInv, NEW x, Retire(x)
    PROVE  Changes(x, published[x].key)
<1> DEFINE S == DOMAIN published \ {x}
           reverse == [edges EXCEPT ![x] = <<>>]
           sequences == [invalidation EXCEPT ![x] = 0]
<1>1. /\ x \in DOMAIN published /\ published' = Restrict(published, S) /\ edges' = reverse
      /\ Invalidate(published[x].key, Restrict(published, S), reverse, sequences)
      /\ nextGeneration' = nextGeneration /\ plan' = plan
  BY DEF Retire
<1>2. DOMAIN published' = S /\ \A s \in S : published'[s] = published[s]
  BY <1>1, Taken
<1>3. x \in Slots /\ DOMAIN edges = Slots /\ DOMAIN invalidation = Slots /\ change \in Nat
  BY <1>1 DEF RecordsInv, LinksInv
<1>4. /\ DOMAIN reverse = Slots /\ sequences[x] \in 0..change
      /\ \A s \in Slots : s # x => sequences[s] = invalidation[s] /\ reverse[s] = edges[s]
  BY <1>3
<1> HIDE DEF reverse, sequences
<1> DEFINE key == published[x].key
           records == Restrict(published, S)
<1>5. Invalidate(key, records, reverse, sequences)
  BY <1>1
<1> HIDE DEF key, records
<1>6. /\ change' = change + 1 /\ DOMAIN invalidation' = Slots /\ invalidation'[x] \in 0..(change + 1)
      /\ \A s \in Slots : s # x => invalidation'[s] \in {invalidation[s], change + 1}
      /\ \A s \in Slots : s # x /\ key \in Range(edges[s]) => invalidation'[s] = change + 1
  BY <1>3, <1>4, <1>5, InvalidateMarks
<1>7. DOMAIN published \subseteq DOMAIN published' \cup {x} /\ DOMAIN published' \subseteq DOMAIN published \cup {x}
      /\ x \notin DOMAIN published'
  BY <1>2
<1>8. x \in DOMAIN published => published[x].key = key
  BY DEF key
<1>9. Changes(x, key)
  BY <1>1, <1>2, <1>3, <1>4, <1>6, <1>7, <1>8 DEF Changes
<1> QED BY <1>9 DEF key

LEMMA CommitChanges ==
    ASSUME RecordsInv, MemoryInv, LinksInv, NEW publication, NEW prepared, prepared.chunks \in Seq(ChunkUse),
           NEW n \in Nat, DOMAIN publication.deps = 1..n,
           Admitted(publication), Commit(publication, prepared), plan' = plan
    PROVE  \E x : Changes(x, publication.key)
<1> DEFINE record == Record(publication, prepared.chunks)
           x == SlotFor(publication.key)
           targets == [i \in DOMAIN record.deps |-> record.deps[i].target]
           reverse == [edges EXCEPT ![record.slot] = targets]
           sequences == [invalidation EXCEPT ![record.slot] = 0]
<1>1. PublishRecord(record, reverse, sequences)
  BY DEF Commit
<1>2. record.slot = x /\ record.key = publication.key /\ record.deps = publication.deps
  BY DEF Record
<1>3. /\ x \in Slots
      /\ IF x \in DOMAIN published THEN published[x].key = publication.key ELSE ~Known(publication.key)
  BY SlotForIsSlot DEF Admitted
<1>4. Succeeds(record)
  BY RecordSucceeds DEF Commit
<1>5. DOMAIN edges = Slots /\ DOMAIN invalidation = Slots /\ change \in Nat
  BY DEF LinksInv
<1>6. Targets(record.deps) \subseteq Range(targets)
  BY DEF Targets, Range
<1> HIDE DEF record, x, targets
<1>7. /\ DOMAIN reverse = Slots /\ sequences[x] \in 0..change /\ reverse[x] = targets
      /\ \A s \in Slots : s # x => sequences[s] = invalidation[s] /\ reverse[s] = edges[s]
  BY <1>2, <1>3, <1>5
<1> HIDE DEF reverse, sequences
<1>8. PutsIn(x, publication.key, record, reverse, sequences)
  BY <1>2, <1>3, <1>4, <1>6, <1>7 DEF PutsIn
<1> QED BY <1>1, <1>8, PublishChanges

LEMMA RequestChanges ==
    ASSUME RecordsInv, MemoryInv, LinksInv, NEW key, Request(key)
    PROVE  \E x : Changes(x, key)
<1> DEFINE x == LowestFree(Slots, DOMAIN published)
           record == [slot |-> x, key |-> key, kind |-> "none", gen |-> nextGeneration[x], rev |-> 0,
                      state |-> "REQUESTED", deps |-> <<>>, chunks |-> <<>>]
           sequences == [invalidation EXCEPT ![x] = 0]
<1>1. /\ PublishRecord(record, edges, sequences) /\ plan' = plan /\ ~Known(key)
      /\ nextGeneration' = [nextGeneration EXCEPT ![x] = @ + 1]
  BY DEF Request
<1>2. x \in Slots \ DOMAIN published
  BY SlotsAreNaturals, LowestFreeIsFree DEF EmptySlots, Request
<1> HIDE DEF x
<1>3. /\ record.slot = x /\ record.key = key /\ record.gen = nextGeneration[x]
      /\ Targets(record.deps) = {} /\ DOMAIN record.deps = 1..0
  BY DEF Targets
<1>4. DOMAIN edges = Slots /\ DOMAIN invalidation = Slots /\ change \in Nat
  BY DEF LinksInv
<1>5. sequences[x] \in 0..change /\ \A s \in Slots : s # x => sequences[s] = invalidation[s]
  BY <1>2, <1>4
<1> HIDE DEF record, sequences
<1>6. Succeeds(record)
  BY <1>1, <1>2, <1>3 DEF Succeeds
<1>7. PutsIn(x, key, record, edges, sequences)
  BY <1>1, <1>2, <1>3, <1>4, <1>5, <1>6 DEF PutsIn
<1> QED BY <1>1, <1>7, PublishChanges

LEMMA ReplaceChanges ==
    ASSUME RecordsInv, LinksInv, NEW x \in DOMAIN published, NEW chunks, NEW state,
           Replace(published[x], chunks, state)
    PROVE  Changes(x, published[x].key)
<1> DEFINE record == [published[x] EXCEPT !.rev = @ + 1, !.state = state, !.chunks = chunks]
<1>1. PublishRecord(record, edges, invalidation) /\ plan' = plan /\ nextGeneration' = nextGeneration
  BY DEF Replace
<1>2. Whole(published[x]) /\ published[x].slot = x /\ x \in Slots
  BY DEF RecordsInv
<1>3. record = [slot |-> published[x].slot, key |-> published[x].key, kind |-> published[x].kind,
                gen |-> published[x].gen, rev |-> published[x].rev + 1,
                state |-> state, deps |-> published[x].deps, chunks |-> chunks]
  BY <1>2, Replacement
<1> HIDE DEF record
<1>4. /\ record.slot = x /\ record.key = published[x].key /\ record.deps = published[x].deps
      /\ record.gen = published[x].gen /\ record.rev = published[x].rev + 1
  BY <1>2, <1>3
<1>5. /\ DOMAIN edges = Slots /\ DOMAIN invalidation = Slots /\ invalidation[x] \in 0..change
      /\ Targets(record.deps) \subseteq Range(edges[x]) /\ \E n \in Nat : DOMAIN record.deps = 1..n
  BY <1>2, <1>4 DEF LinksInv, Linked
<1>6. Succeeds(record)
  BY <1>1, <1>4 DEF Succeeds
<1>7. PutsIn(x, published[x].key, record, edges, invalidation)
  BY <1>2, <1>4, <1>5, <1>6 DEF PutsIn
<1> QED BY <1>1, <1>7, PublishChanges

\* A plan that is compiled holds entries of now.
LEMMA PlanCompile ==
    ASSUME RecordsInv, MemoryInv, LinksInv, NEW root, CompilePlan(root)
    PROVE  PlanInv'
<1>1. /\ root \in DOMAIN published /\ Walk(root).result = "SUCCESS"
      /\ plan' = [root |-> root, entries |-> Entries(root)]
      /\ UNCHANGED <<published, nextGeneration, invalidation, change>>
  BY DEF CompilePlan, recordVars
<1>2. plan'.root = root /\ plan'.entries = Entries(root)
  BY <1>1
<1>3. PICK w : w = Walked(published, root)
  OBVIOUS
<1>4. Walk(root) = w /\ Walk(root)' = w
  BY <1>1, <1>3, WalkIsWalked, WalkIsWalkedAfter
<1>5. w.order \in Seq(DOMAIN published)
  BY <1>1, <1>3, <1>4, WalkedTells DEF LinksInv
<1>6. Entries(root) = [i \in DOMAIN w.order |-> Entry(w.order[i])]
  BY <1>4 DEF Entries
<1>7. Entries(root)' = Entries(root)
  <2>1. \A s : Entry(s)' = Entry(s)
    BY <1>1 DEF Entry
  <2> QED BY <1>4, <1>6, <2>1 DEF Entries
<1>8. PlanIsCurrent'
  BY <1>1, <1>2, <1>4, <1>7 DEF PlanIsCurrent
<1>9. ASSUME NEW i \in DOMAIN plan'.entries PROVE Past(plan.entries[i])'
  <2>1. PICK s \in DOMAIN published : plan'.entries[i] = Entry(s)
    <3>1. i \in DOMAIN w.order /\ plan'.entries[i] = Entry(w.order[i])
      BY <1>2, <1>6, <1>9
    <3>2. w.order[i] \in DOMAIN published
      BY <1>5, <3>1
    <3> QED BY <3>1, <3>2
  <2>2. /\ s \in Slots /\ published[s].slot = s /\ published[s].gen < nextGeneration[s]
        /\ published[s].gen \in Nat /\ published[s].rev \in Nat /\ invalidation[s] \in 0..change
    BY LiveAre DEF RecordsInv, MemoryInv, OrderInv, Tidy, LinksInv
  <2>3. /\ Entry(s).slot = s /\ Entry(s).gen = published[s].gen /\ Entry(s).rev = published[s].rev
        /\ Entry(s).change = invalidation[s]
    BY DEF Entry
  <2>4. Past(Entry(s))
    BY <2>2, <2>3 DEF Past
  <2> QED BY <1>1, <2>1, <2>4 DEF Past
<1> QED BY <1>8, <1>9 DEF PlanInv

PlansInv == LinksInv /\ PlanInv

LEMMA PlansChange ==
    ASSUME RecordsInv, MemoryInv, PlansInv, \E x, key : Changes(x, key)
    PROVE  PlansInv'
BY LinksChange, PlanChange DEF PlansInv, MemoryInv

LEMMA PlansUntouched ==
    ASSUME PlansInv, UNCHANGED <<recordVars, plan>>
    PROVE  PlansInv'
BY LinksUntouched, PlanUntouched DEF PlansInv, recordVars

LEMMA PlansCommit ==
    ASSUME RecordsInv, MemoryInv, PlansInv, NEW publication, NEW inputs \in Seq(ChunkInput),
           NEW n \in Nat, DOMAIN publication.deps = 1..n,
           Admitted(publication), Commit(publication, Prepare(inputs)), plan' = plan
    PROVE  PlansInv'
<1>1. PartsInv(Prepare(inputs))
  BY PartsPrepared, MemoryFinite DEF MemoryInv, Admitted
<1>2. Prepare(inputs).chunks \in Seq(ChunkUse)
  BY <1>1 DEF PartsInv, Parts
<1>3. \E x : Changes(x, publication.key)
  BY <1>2, CommitChanges DEF PlansInv
<1> QED BY <1>3, PlansChange

LEMMA PlansReplace ==
    ASSUME RecordsInv, MemoryInv, PlansInv, NEW x \in DOMAIN published, NEW chunks, NEW state,
           Replace(published[x], chunks, state)
    PROVE  PlansInv'
BY ReplaceChanges, PlansChange DEF PlansInv

\* What a client publishes, itself or by a load, has a sequence of dependencies.
LEMMA PublicationParts ==
    ASSUME NEW publication \in Publication
    PROVE  /\ publication.chunks \in Seq(ChunkInput)
           /\ \E n \in Nat : DOMAIN publication.deps = 1..n
<1>1. /\ publication.chunks \in Seq(ChunkInput)
      /\ publication.deps \in Seq([target : Keys, required : BOOLEAN])
  BY DEF Publication
<1>2. Len(publication.deps) \in Nat /\ DOMAIN publication.deps = 1..Len(publication.deps)
  BY <1>1, LenProperties
<1> QED BY <1>1, <1>2

LEMMA PlansWriter ==
    ASSUME RecordsInv, MemoryInv, PlansInv, WriterNext
    PROVE  PlansInv'
<1>1. ASSUME NEW key \in Keys, Request(key) PROVE PlansInv'
  BY <1>1, RequestChanges, PlansChange DEF PlansInv
<1>2. ASSUME NEW publication \in Publications, Publish(publication) PROVE PlansInv'
  <2>1. publication \in Publication
    BY PublicationsAssumption
  <2>2. publication.chunks \in Seq(ChunkInput) /\ \E n \in Nat : DOMAIN publication.deps = 1..n
    BY <2>1, PublicationParts
  <2>3. Admitted(publication) /\ Commit(publication, Prepare(publication.chunks)) /\ plan' = plan
    BY <1>2 DEF Publish
  <2> QED BY <2>2, <2>3, PlansCommit
<1>3. ASSUME NEW publication \in Publications, PublishFails(publication) PROVE PlansInv'
  BY <1>3, PlansUntouched DEF PublishFails
<1>4. ASSUME NEW s \in Slots, Retire(s) PROVE PlansInv'
  BY <1>4, RetireChanges, PlansChange DEF PlansInv
<1>5. ASSUME NEW s \in Slots, MarkFailed(s) PROVE PlansInv'
  BY <1>5, PlansReplace DEF MarkFailed
<1>6. ASSUME NEW s \in Slots, CompilePlan(s) PROVE PlansInv'
  <2>1. UNCHANGED recordVars
    BY <1>6 DEF CompilePlan
  <2> QED BY <1>6, <2>1, PlanCompile, LinksUntouched DEF PlansInv, recordVars
<1>7. ASSUME NEW s \in DOMAIN published, NEW i \in DOMAIN published[s].chunks, EvictChunk(s, i)
      PROVE  PlansInv'
  BY <1>7, PlansReplace DEF EvictChunk
<1>8. ASSUME NEW record \in retired, Collect(record) PROVE PlansInv'
  BY <1>8, LinksUntouched, PlanUntouched DEF Collect, PlansInv
<1>9. ASSUME NEW data \in Data, Stage(data) PROVE PlansInv'
  BY <1>9, PlansUntouched DEF Stage
<1>10. ASSUME NEW s \in StagingSlots, Unstage(s) PROVE PlansInv'
  BY <1>10, PlansUntouched DEF Unstage
<1>11. ASSUME NEW capacity \in 1..MaxEvents, Poll(capacity) PROVE PlansInv'
  BY <1>11, PlansUntouched DEF Poll
<1>12. ASSUME Rescan PROVE PlansInv'
  BY <1>12, PlansUntouched DEF Rescan
<1> QED BY <1>1, <1>2, <1>3, <1>4, <1>5, <1>6, <1>7, <1>8, <1>9, <1>10, <1>11, <1>12 DEF WriterNext

LEMMA PlansStep ==
    ASSUME RecordsInv, MemoryInv, LoadInv, PlansInv, [LoadNext]_loadVars
    PROVE  PlansInv'
<1>1. CASE ClientStep
  BY <1>1, PlansWriter DEF ClientStep
<1>2. ASSUME NEW request \in Requests, Begin(request) PROVE PlansInv'
  BY <1>2, PlansUntouched DEF Begin
<1>3. CASE ReadStarts \/ ReadFails \/ TaskGone \/ CancelLoad
  BY <1>3, PlansUntouched DEF ReadStarts, ReadFails, TaskGone, CancelLoad, writerVars
<1>4. ASSUME NEW data \in Data, ReadEnds(data) PROVE PlansInv'
  BY <1>4, PlansUntouched DEF ReadEnds
<1>5. CASE PollPublishes
  <2>1. load.active /\ Admitted(Input) /\ Commit(Input, Prepare(Input.chunks)) /\ plan' = plan
    BY <1>5 DEF PollPublishes, MayPublish, TaskIs
  <2>2. load.request \in Publication
    BY <2>1, RequestsAssumption DEF LoadInv
  <2>3. Input.deps = load.request.deps
    BY <2>2 DEF Input, Publication
  <2>4. Input.chunks \in Seq(ChunkInput) /\ \E n \in Nat : DOMAIN Input.deps = 1..n
    BY <2>1, <2>2, <2>3, InputChunks, PublicationParts
  <2> QED BY <2>1, <2>4, PlansCommit
<1>6. CASE PollDiscards
  BY <1>6, PlansUntouched DEF PollDiscards
<1>7. CASE UNCHANGED loadVars
  BY <1>7, PlansUntouched DEF loadVars, writerVars
<1> QED BY <1>1, <1>2, <1>3, <1>4, <1>5, <1>6, <1>7 DEF LoadNext

\* A plan that is current holds what lies on the paths from its root, in order.
LEMMA PlansTell ==
    ASSUME PlansInv
    PROVE  ValidPlanIsCurrent
<1> SUFFICES ASSUME plan # NoPlan, PlanValid
             PROVE  /\ Walk(plan.root).result = "SUCCESS" /\ plan.entries = Entries(plan.root)
                    /\ {plan.entries[i].slot : i \in DOMAIN plan.entries} = Needed(plan.root)
                    /\ \A i \in DOMAIN plan.entries :
                           \A dep \in Range(published[plan.entries[i].slot].deps) :
                               IF Known(dep.target) THEN SlotOf(dep.target) \in SlotsBefore(i) ELSE ~dep.required
  BY DEF ValidPlanIsCurrent
<1> DEFINE order == Walked(published, plan.root).order
<1>1. /\ plan.root \in DOMAIN published
      /\ Walk(plan.root).result = "SUCCESS" /\ plan.entries = Entries(plan.root)
  BY DEF PlansInv, PlanInv, PlanIsCurrent
<1>2. plan.entries = [i \in DOMAIN order |-> Entry(order[i])]
  BY <1>1, WalkIsWalked DEF Entries
<1>3. /\ order \in Seq(DOMAIN published) /\ Ordered(published, order)
      /\ Range(order) = {s \in DOMAIN published : published[s].key \in PathKeys(published, published[plan.root].key)}
  BY <1>1, WalkIsWalked, WalkedTells DEF PlansInv, LinksInv
<1> HIDE DEF order
<1>4. DOMAIN plan.entries = DOMAIN order /\ \A i \in DOMAIN order : plan.entries[i].slot = order[i]
  BY <1>2 DEF Entry
<1>5. {plan.entries[i].slot : i \in DOMAIN plan.entries} = Range(order)
  BY <1>4 DEF Range
<1>6. Range(order) = Needed(plan.root)
  BY <1>3, KeysAlongPaths DEF Needed
<1>7. ASSUME NEW i \in DOMAIN plan.entries, NEW dep \in Range(published[plan.entries[i].slot].deps)
      PROVE  IF Known(dep.target) THEN SlotOf(dep.target) \in SlotsBefore(i) ELSE ~dep.required
  <2>1. i \in DOMAIN order /\ dep \in Range(published[order[i]].deps)
    BY <1>4, <1>7
  <2>2. Settled(published, dep, {order[j] : j \in 1..(i - 1)})
    BY <1>3, <2>1 DEF Ordered, SettledAll, Range
  <2>3. SlotsBefore(i) = {order[j] : j \in 1..(i - 1)}
    <3>1. \A j \in 1..(i - 1) : j \in DOMAIN order
      BY <1>3, <2>1, LenProperties
    <3> QED BY <1>4, <3>1 DEF SlotsBefore
  <2> QED BY <2>2, <2>3 DEF Settled, Knows, Place, Known, SlotOf
<1> QED BY <1>1, <1>5, <1>6, <1>7

\* A client that holds a plan and finds it valid may load by it: it holds exactly what lies on the
\* paths from its root, each behind all it depends on, as if it had been compiled now
\* (compileDependencyOrder, compileTaskPlan, validateTaskPlan).
THEOREM ValidPlansAreCurrent == LoadSpec => []ValidPlanIsCurrent
<1>1. LoadInit => RecordsInv /\ MemoryInv /\ LoadInv /\ PlansInv
  <2>1. LoadInit => LoadInv
    BY DEF LoadInit, NoLoad, LoadInv
  <2> QED BY <2>1, RecordsStart, MemoryStart, LinksStart, PlanStart DEF PlansInv
<1>2. RecordsInv /\ MemoryInv /\ LoadInv /\ PlansInv /\ [LoadNext]_loadVars
          => RecordsInv' /\ MemoryInv' /\ LoadInv' /\ PlansInv'
  BY RecordsStep, MemoryStep, LoadStep, PlansStep
<1>3. PlansInv => ValidPlanIsCurrent
  BY PlansTell
<1> QED BY <1>1, <1>2, <1>3, PTL DEF LoadSpec
=============================================================================
