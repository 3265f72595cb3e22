---------------------- MODULE ResourceReadScopes_proofs ----------------------
(***************************************************************************)
(* Proofs about ResourceReadScopes, for any number of records, keys,       *)
(* scopes, slots, pins and cells.  IInv is the inductive invariant.  Its   *)
(* parts lean on each other: a scope holds nothing that may be given back  *)
(* because the index shows nothing but current records, which rests on the *)
(* order of a publication and on the keys of the current records.          *)
(***************************************************************************)
EXTENDS ResourceReadScopes, FiniteSetTheorems, TLAPS

\* The records in the cells of the index.
Entries == {cells[c] : c \in Cells} \cap Records

\* What the index holds: while a publication has not reached it, the old record.
Indexed ==
    IF writer = "INDEX" THEN (Current \ {published[target]}) \cup ({prior} \ {None})
    ELSE Current

\* Every allocated record is current, retired or about to be retired, and only one of these.
Memory ==
    /\ allocated = Current \cup retired \cup ({prior} \ {None})
    /\ Current \cap retired = {} /\ prior \notin Current \cup retired
    /\ \A s, t \in Slots : published[s] = published[t] /\ published[s] # None => s = t
    /\ \A r \in retired : retireEpoch[r] < epoch
    /\ writer \in {"IDLE", "SCAN"} => prior = None
    /\ writer \in {"INDEX", "ADVANCE"} => epoch < MaxEpoch

\* The generation of every handle was taken from its slot.
Handles ==
    /\ HandlesNameOneKey
    /\ \A r \in allocated : info[r].generation < nextGeneration[info[r].slot]

\* A key has one current record; a publication works on one key.
Keyed ==
    /\ \A r, q \in Current : info[r].key = info[q].key => r = q
    /\ writer = "INDEX" =>
        /\ prior # None \/ published[target] # None
        /\ prior # None => info[prior].key = TargetKey
        /\ \A r \in Current \ {published[target]} : info[r].key # TargetKey

\* A search for the key of r arrives at r.
Placed(r) == \E n \in Steps :
    cells[Probe[info[r].key][n]] = r /\ Reachable(info[r].key, n)

\* The index holds each of its records once, where a search finds it.
Index ==
    /\ Entries = Indexed
    /\ \A c, d \in Cells : cells[c] \in Records /\ cells[c] = cells[d] => c = d
    /\ \A r \in Indexed : Placed(r)

\* A scope announces the epoch it entered in, and no record it has loaded was
\* retired before.
Views ==
    \A x \in Scopes :
        /\ entered[x] <= epoch
        /\ at[x] \in {"ANNOUNCE", "CONFIRM", "WITHDRAW", "IN", "PROBE"} => entered[x] >= 1
        /\ at[x] \in {"CONFIRM", "IN", "PROBE"} => readerEpochs[token[x]] = entered[x]
        /\ at[x] \notin {"IN", "PROBE"} => held[x] = {}
        /\ held[x] \subseteq Current \cup ({prior} \ {None})
                               \cup {r \in retired : entered[x] <= retireEpoch[r]}

\* A scope whose reader slot has been scanned bounds the oldest epoch, or entered
\* too late to have loaded a retired record.
Collecting ==
    writer = "SCAN" => \A x \in Scopes :
        token[x] <= scanned => oldest <= entered[x] \/ held[x] \cap retired = {}

\* The pins of a record.
PinsOf(f, r) == {p \in Pins : f[p] = r}

\* The counts are exact, and a handle that was granted is the current one of its pin.
Pinned ==
    /\ \A p \in Pins : pinRecord[p] # None => pinRecord[p] \in allocated
    /\ \A r \in Records : pinCount[r] = Cardinality(PinsOf(pinRecord, r))
    /\ \A g \in granted : pinRecord[g.pin] = g.record /\ pinGeneration[g.pin] = g.generation

\* The key is ahead of a search that has not missed it.
Searching ==
    \A x \in Scopes :
        /\ at[x] # "PROBE" => probe[x] = 0
        /\ at[x] = "PROBE" => sought[x] \in Keys
        /\ at[x] = "PROBE" /\ ~missed[x] =>
            \E n \in Steps : n >= probe[x] /\ Holds(sought[x], n) /\ Reachable(sought[x], n)

IInv ==
    /\ TypeOK
    /\ Memory
    /\ Handles
    /\ Keyed
    /\ Index
    /\ Views
    /\ Collecting
    /\ Pinned
    /\ Searching

-----------------------------------------------------------------------------
(* What the steps of the threads leave alone *)

\* The steps of a scope.
ScopeStep(x) == EnterStep(x) \/ LookupStep(x) \/ Leave(x)

\* Scopes change nothing outside the scopes.
LEMMA ScopeFrame ==
    ASSUME NEW x \in Scopes, ScopeStep(x)
    PROVE  UNCHANGED <<publishVars, memoryVars, writerVars, pinVars>>
BY DEF ScopeStep, EnterStep, LookupStep, Claim, LoadEpoch, Announce, Confirm, Withdraw,
       FindBegin, FindFails, FindSucceeds, FindNext, Resolve, Leave

\* Steps of pins, and of the writer when it collects.
PinStep ==
    \/ \E x \in Scopes, r \in Records, p \in Pins : Pin(x, r, p)
    \/ \E h \in PinHandles : ReleasePin(h)

\* Pins change nothing outside the pins.
LEMMA PinFrame ==
    ASSUME PinStep
    PROVE  UNCHANGED <<publishVars, memoryVars, writerVars, scopeVars>>
BY DEF PinStep, Pin, ReleasePin

\* A publication, whoever asks for it, exchanges the word of one slot: for an
\* unused record or for none.
Publication(s, r) ==
    /\ Exchange(s, r)
    /\ \/ \E k \in Keys, resident \in BOOLEAN :
            /\ k \notin Registered /\ s \in Vacant
            /\ Write(r, [key |-> k, slot |-> s, generation |-> nextGeneration[s], resident |-> resident])
            /\ Incarnation(s)
       \/ \E resident \in BOOLEAN :
            /\ s \notin Vacant
            /\ Write(r, [info[published[s]] EXCEPT !.resident = resident])
            /\ UNCHANGED nextGeneration
       \/ r = None /\ s \notin Vacant /\ UNCHANGED <<info, allocated, nextGeneration>>

\* The steps of the system, sorted by what they change.
LEMMA StepCases ==
    ASSUME [Next]_vars
    PROVE  \/ \E s \in Slots, r \in Records \cup {None} : Publication(s, r)
           \/ UpdateIndex
           \/ Advance
           \/ CollectBegin
           \/ CollectScan
           \/ \E budget \in Budgets : CollectEnd(budget)
           \/ \E x \in Scopes : ScopeStep(x)
           \/ PinStep
           \/ UNCHANGED vars
<1>1. ASSUME NEW k \in Keys, NEW r \in Records, NEW resident \in BOOLEAN, Introduce(k, r, resident)
      PROVE  \E s \in Slots : Publication(s, r)
  BY <1>1 DEF Introduce, Publication, Vacant
<1>2. ASSUME NEW s \in Slots, NEW r \in Records, NEW resident \in BOOLEAN, Supersede(s, r, resident)
      PROVE  Publication(s, r)
  BY <1>2 DEF Supersede, Publication
<1>3. ASSUME NEW s \in Slots, Retire(s) PROVE Publication(s, None)
  BY <1>3 DEF Retire, Publication
<1> QED BY <1>1, <1>2, <1>3 DEF Next, WriterStep, ScopeStep, PinStep

-----------------------------------------------------------------------------
(* Constants *)

\* Nothing takes a word for a record that is none, and memory has contents.
LEMMA Words ==
    /\ None \notin Records /\ Empty \notin Records /\ Tombstone \notin Records
    /\ Blank \in Infos
    /\ 1 \in Slots /\ 0 \in Steps /\ Reserved \in Nat /\ Reserved > MaxEpoch
    /\ MaxReaders \in Nat /\ MaxEpoch \in Nat /\ CellCount \in Nat
<1>1. PICK k \in Keys : TRUE
  BY WordsAssumption
<1>2. 1 \in Slots /\ 0 \in Steps /\ 1 \in Generations
  BY BoundsAssumption DEF Slots, Steps, Generations
<1>3. [key |-> k, slot |-> 1, generation |-> 1, resident |-> TRUE] \in Infos
  BY <1>2 DEF Infos
<1> QED BY <1>2, <1>3, WordsAssumption, BoundsAssumption DEF Blank, Reserved

\* A set of pins is finite, so what is counted is a number.
LEMMA PinSets ==
    ASSUME NEW S \in SUBSET Pins
    PROVE  IsFiniteSet(S) /\ Cardinality(S) \in 0..MaxPins
<1>1. IsFiniteSet(Pins) /\ Cardinality(Pins) = MaxPins
  BY FS_Interval, BoundsAssumption DEF Pins
<1> QED BY <1>1, FS_Subset, FS_CardinalityType, BoundsAssumption

\* One pin more is counted once.
LEMMA CountOnePin ==
    ASSUME NEW S \in SUBSET Pins, NEW p \in Pins, p \notin S
    PROVE  Cardinality(S) \in Nat /\ Cardinality(S \cup {p}) = Cardinality(S) + 1
BY PinSets, FS_AddElement, BoundsAssumption

-----------------------------------------------------------------------------
(* Types *)

\* The words of a publication have their types.
LEMMA PublicationType ==
    ASSUME IInv, NEW s \in Slots, NEW r \in Records \cup {None}, Publication(s, r)
    PROVE  TypeOK'
<1> USE DEF TypeOK, IInv, Publication, Exchange, scopeVars, pinVars
<1>1. info' \in [Records -> Infos] /\ allocated' \subseteq Records
  <2>1. ASSUME NEW k \in Keys, NEW resident \in BOOLEAN,
               Write(r, [key |-> k, slot |-> s, generation |-> nextGeneration[s], resident |-> resident])
        PROVE  info' \in [Records -> Infos] /\ allocated' \subseteq Records
    BY <2>1 DEF Write, Infos, Unused
  <2>2. ASSUME NEW resident \in BOOLEAN, s \notin Vacant,
               Write(r, [info[published[s]] EXCEPT !.resident = resident])
        PROVE  info' \in [Records -> Infos] /\ allocated' \subseteq Records
    <3>1. info[published[s]] \in Infos
      BY <2>2 DEF Vacant
    <3>2. [info[published[s]] EXCEPT !.resident = resident] \in Infos
      BY <3>1 DEF Infos
    <3> QED BY <2>2, <3>2 DEF Write, Unused
  <2> QED BY <2>1, <2>2
<1>2. nextGeneration' \in [Slots -> Generations]
  <2>1. CASE Incarnation(s)
    <3>1. nextGeneration[s] + 1 \in Generations
      BY <2>1, BoundsAssumption DEF Incarnation, Generations
    <3> QED BY <2>1, <3>1 DEF Incarnation
  <2> QED BY <2>1
<1>3. published' \in [Slots -> Records \cup {None}] /\ target' \in Slots
      /\ prior' \in Records \cup {None} /\ writer' = "INDEX" /\ retired' = retired
  OBVIOUS
<1> QED BY <1>1, <1>2, <1>3

\* The words a scope writes have their types, and the scopes share no reader slot.
LEMMA ScopeType ==
    ASSUME IInv, NEW x \in Scopes, ScopeStep(x)
    PROVE  TypeOK'
<1> USE DEF TypeOK, IInv
<1>0. UNCHANGED <<publishVars, memoryVars, writerVars, pinVars>>
  BY ScopeFrame
<1>f. /\ published' = published /\ cells' = cells /\ epoch' = epoch
      /\ info' = info /\ allocated' = allocated /\ retired' = retired
      /\ retireEpoch' = retireEpoch /\ nextGeneration' = nextGeneration /\ writer' = writer
      /\ target' = target /\ prior' = prior /\ scanned' = scanned /\ oldest' = oldest
      /\ pinRecord' = pinRecord /\ pinGeneration' = pinGeneration /\ pinCount' = pinCount
      /\ granted' = granted
  BY <1>0 DEF publishVars, memoryVars, writerVars, pinVars
<1>1. ASSUME NEW i \in Table, Claim(x, i) PROVE TypeOK'
  <2>1. token'[x] = i /\ i # 0 /\ i \in 0..MaxReaders
    BY <1>1, Words DEF Claim, Table
  <2>2. \A y \in Scopes : token[y] # i
    BY <1>1 DEF Claim, VacantReader
  <2>3. Reserved # 0 /\ Reserved \in 0..Reserved
    BY Words
  <2>4. /\ readerEpochs' \in [Table -> 0..Reserved] /\ token' \in [Scopes -> 0..MaxReaders]
        /\ at' \in [Scopes -> {"OUT", "LOAD", "ANNOUNCE", "CONFIRM", "WITHDRAW", "IN", "PROBE"}]
    BY <1>1, <2>1, <2>3 DEF Claim
  <2>5. \A y \in Scopes :
          /\ (at'[y] = "OUT") <=> (token'[y] = 0)
          /\ \A z \in Scopes : token'[y] = token'[z] /\ token'[y] # 0 => y = z
    BY <1>1, <2>1, <2>2 DEF Claim
  <2>6. \A j \in Table : (readerEpochs'[j] = 0) <=> (\A y \in Scopes : token'[y] # j)
    <3>1. readerEpochs'[i] = Reserved /\ token'[x] = i
      BY <1>1, <2>1 DEF Claim
    <3>2. ASSUME NEW j \in Table, j # i
          PROVE  /\ readerEpochs'[j] = readerEpochs[j]
                 /\ \A y \in Scopes : token'[y] = j <=> token[y] = j
      BY <1>1, <3>2, Words DEF Claim, Table
    <3> QED BY <2>3, <3>1, <3>2
  <2>7. UNCHANGED <<entered, held, sought, probe, missed>>
    BY <1>1 DEF Claim
  <2> QED BY <1>f, <2>4, <2>5, <2>6, <2>7
<1>2. CASE LoadEpoch(x)
  BY <1>f, <1>2, Words DEF LoadEpoch
<1>3. CASE Announce(x)
  <2>1. entered[x] \in 0..Reserved /\ entered[x] # 0 /\ token[x] \in Table
    BY <1>3, Words DEF Announce, Views, Table
  <2> QED BY <1>f, <1>3, <2>1 DEF Announce
<1>4. CASE Confirm(x)
  BY <1>f, <1>4 DEF Confirm
<1>5. CASE Withdraw(x)
  <2>1. Reserved # 0 /\ Reserved \in 0..Reserved
    BY Words
  <2> QED BY <1>f, <1>5, <2>1 DEF Withdraw
<1>6. CASE Leave(x)
  <2>1. 0 \in 0..Reserved /\ 0 \in 0..MaxReaders /\ 0 \in 0..MaxEpoch /\ 0 \notin Table
    BY Words DEF Table
  <2>2. \A y \in Scopes : y # x => token[y] # token[x]
    BY <1>6 DEF Leave
  <2>3. /\ readerEpochs' = [readerEpochs EXCEPT ![token[x]] = 0]
        /\ token' = [token EXCEPT ![x] = 0] /\ entered' = [entered EXCEPT ![x] = 0]
        /\ held' = [held EXCEPT ![x] = {}] /\ at' = [at EXCEPT ![x] = "OUT"]
        /\ sought' = sought /\ probe' = probe /\ missed' = missed
    BY <1>6 DEF Leave
  <2>4. /\ token' \in [Scopes -> 0..MaxReaders] /\ readerEpochs' \in [Table -> 0..Reserved]
        /\ entered' \in [Scopes -> 0..MaxEpoch] /\ held' \in [Scopes -> SUBSET Records]
    BY <2>1, <2>3
  <2>5. at' \in [Scopes -> {"OUT", "LOAD", "ANNOUNCE", "CONFIRM", "WITHDRAW", "IN", "PROBE"}]
    BY <2>3
  <2>6. \A y \in Scopes : /\ (at'[y] = "OUT") <=> (token'[y] = 0)
                         /\ \A z \in Scopes : token'[y] = token'[z] /\ token'[y] # 0 => y = z
    BY <2>2, <2>3
  <2>7. \A i \in Table : (readerEpochs'[i] = 0) <=> (\A y \in Scopes : token'[y] # i)
    BY <2>1, <2>2, <2>3, <2>4
  <2> QED BY <1>f, <2>3, <2>4, <2>5, <2>6, <2>7
<1>7. CASE LookupStep(x)
  <2>1. /\ readerEpochs' = readerEpochs /\ token' = token /\ entered' = entered
        /\ at' \in [Scopes -> {"OUT", "LOAD", "ANNOUNCE", "CONFIRM", "WITHDRAW", "IN", "PROBE"}]
        /\ \A y \in Scopes : at'[y] = "OUT" <=> at[y] = "OUT"
        /\ sought' \in [Scopes -> Keys \cup {None}]
        /\ missed' \in [Scopes -> BOOLEAN]
    <3>1. ASSUME NEW k \in Keys, FindBegin(x, k)
          PROVE  /\ UNCHANGED <<readerEpochs, token, entered>>
                 /\ at[x] = "IN" /\ at' = [at EXCEPT ![x] = "PROBE"]
                 /\ sought' = [sought EXCEPT ![x] = k]
                 /\ \E b \in BOOLEAN : missed' = [missed EXCEPT ![x] = b]
      BY <3>1 DEF FindBegin
    <3>2. ASSUME FindFails(x) \/ FindSucceeds(x)
          PROVE  /\ UNCHANGED <<readerEpochs, token, entered>>
                 /\ at[x] = "PROBE" /\ at' = [at EXCEPT ![x] = "IN"]
                 /\ sought' = [sought EXCEPT ![x] = None]
                 /\ missed' = [missed EXCEPT ![x] = FALSE]
      BY <3>2 DEF FindFails, FindSucceeds, FindReturn
    <3>3. ASSUME FindNext(x) \/ \E s \in Slots : Resolve(x, s)
          PROVE  UNCHANGED <<readerEpochs, token, entered, at, sought, missed>>
      BY <3>3 DEF FindNext, Resolve
    <3>4. CASE \E k \in Keys : FindBegin(x, k)
      <4>1. PICK k \in Keys : FindBegin(x, k)
        BY <3>4
      <4> QED BY <3>1, <4>1
    <3>5. CASE FindFails(x) \/ FindSucceeds(x)
      <4>1. UNCHANGED <<readerEpochs, token, entered>>
        BY <3>2, <3>5
      <4>2. at' = [at EXCEPT ![x] = "IN"] /\ at[x] = "PROBE"
        BY <3>2, <3>5
      <4>3. sought' = [sought EXCEPT ![x] = None] /\ missed' = [missed EXCEPT ![x] = FALSE]
        BY <3>2, <3>5
      <4>4. sought' \in [Scopes -> Keys \cup {None}] /\ missed' \in [Scopes -> BOOLEAN]
        BY <4>3
      <4> QED BY <4>1, <4>2, <4>4
    <3>6. CASE FindNext(x) \/ \E s \in Slots : Resolve(x, s)
      BY <3>3, <3>6
    <3> QED BY <1>7, <3>4, <3>5, <3>6 DEF LookupStep
  <2>2. held' \in [Scopes -> SUBSET Records]
    <3>1. CASE FindFails(x)
      BY <1>f, <3>1 DEF FindFails
    <3>2. CASE FindSucceeds(x)
      BY <1>f, <3>2 DEF FindSucceeds, Holds
    <3>3. CASE FindNext(x)
      BY <1>f, <3>3 DEF FindNext
    <3>4. CASE (\E k \in Keys : FindBegin(x, k)) \/ \E s \in Slots : Resolve(x, s)
      BY <1>f, <3>4 DEF FindBegin, Resolve
    <3> QED BY <1>7, <3>1, <3>2, <3>3, <3>4 DEF LookupStep
  <2>3. probe' \in [Scopes -> Steps]
    BY <1>7, Words DEF LookupStep, FindBegin, FindFails, FindSucceeds, FindNext, FindReturn, Resolve, Steps
  <2> QED BY <1>f, <2>1, <2>2, <2>3
<1> QED BY <1>1, <1>2, <1>3, <1>4, <1>5, <1>6, <1>7 DEF ScopeStep, EnterStep

\* A scope holds allocated records only.
LEMMA HeldAllocated ==
    ASSUME IInv, NEW x \in Scopes
    PROVE  held[x] \subseteq allocated
BY DEF IInv, Views, Memory

-----------------------------------------------------------------------------
(* The pins *)

\* Pins keep the types, the counts and the bond of a handle with its record.
LEMMA PinStepKeeps ==
    ASSUME IInv, PinStep
    PROVE  TypeOK' /\ Pinned'
<1> USE DEF TypeOK, IInv, Pinned
<1>0. UNCHANGED <<publishVars, memoryVars, writerVars, scopeVars>>
  BY PinFrame
<1>f. /\ published' = published /\ cells' = cells /\ epoch' = epoch
      /\ info' = info /\ allocated' = allocated /\ retired' = retired
      /\ retireEpoch' = retireEpoch /\ nextGeneration' = nextGeneration /\ writer' = writer
      /\ target' = target /\ prior' = prior /\ scanned' = scanned /\ oldest' = oldest
      /\ readerEpochs' = readerEpochs /\ at' = at /\ token' = token /\ entered' = entered
      /\ held' = held /\ sought' = sought /\ probe' = probe /\ missed' = missed
  BY <1>0 DEF publishVars, memoryVars, writerVars, scopeVars
<1>c. ASSUME pinRecord' \in [Pins -> Records \cup {None}],
             pinCount' \in [Records -> Int],
             \A r \in Records : pinCount'[r] = Cardinality(PinsOf(pinRecord', r))
      PROVE  pinCount' \in [Records -> 0..MaxPins]
  <2>1. ASSUME NEW r \in Records PROVE pinCount'[r] \in 0..MaxPins
    <3> DEFINE S == PinsOf(pinRecord', r)
    <3>1. S \in SUBSET Pins
      BY DEF PinsOf
    <3>2. pinCount'[r] = Cardinality(S)
      BY <1>c
    <3> HIDE DEF S
    <3> QED BY <3>1, <3>2, PinSets
  <2> QED BY <1>c, <2>1
<1>i. \A r \in Records : pinCount[r] \in Int
  BY BoundsAssumption
<1>1. ASSUME NEW x \in Scopes, NEW r \in Records, NEW p \in Pins, Pin(x, r, p)
      PROVE  TypeOK' /\ Pinned'
  <2>1. /\ pinRecord[p] = None /\ pinRecord' = [pinRecord EXCEPT ![p] = r]
        /\ pinGeneration[p] < MaxGeneration
        /\ pinGeneration' = [pinGeneration EXCEPT ![p] = @ + 1]
        /\ pinCount' = [pinCount EXCEPT ![r] = @ + 1]
        /\ granted' = granted \cup {[pin |-> p, generation |-> pinGeneration[p] + 1, record |-> r]}
    BY <1>1 DEF Pin
  <2>2. r \in allocated
    BY <1>1, HeldAllocated DEF Pin
  <2>3. pinRecord' \in [Pins -> Records \cup {None}]
    BY <2>1
  <2>4. pinCount' \in [Records -> Int]
    BY <1>i, <2>1
  <2>5. ASSUME NEW q \in Records
        PROVE  pinCount'[q] = Cardinality(PinsOf(pinRecord', q))
    <3>1. pinCount'[q] = pinCount[q] + IF q = r THEN 1 ELSE 0
      BY <1>i, <2>1
    <3>2. pinCount[q] = Cardinality(PinsOf(pinRecord, q))
      OBVIOUS
    <3>3. pinRecord'[p] = r /\ \A o \in Pins : o # p => pinRecord'[o] = pinRecord[o]
      BY <2>1
    <3>4. /\ PinsOf(pinRecord', r) = PinsOf(pinRecord, r) \cup {p}
          /\ p \notin PinsOf(pinRecord, r) /\ PinsOf(pinRecord, r) \in SUBSET Pins
      BY <2>1, <3>3, Words DEF PinsOf
    <3>5. q # r => PinsOf(pinRecord', q) = PinsOf(pinRecord, q)
      BY <2>1, <3>3, Words DEF PinsOf
    <3>6. Cardinality(PinsOf(pinRecord', r)) = Cardinality(PinsOf(pinRecord, r)) + 1
      BY <3>4, CountOnePin
    <3> QED BY <3>1, <3>2, <3>5, <3>6
  <2>6. pinCount' \in [Records -> 0..MaxPins]
    BY <1>c, <2>3, <2>4, <2>5
  <2>7. pinGeneration[p] + 1 \in Generations /\ pinGeneration' \in [Pins -> 0..MaxGeneration]
    <3>1. pinGeneration[p] \in 0..MaxGeneration
      OBVIOUS
    <3>2. pinGeneration[p] + 1 \in Generations /\ pinGeneration[p] + 1 \in 0..MaxGeneration
      BY <2>1, <3>1, BoundsAssumption DEF Generations
    <3> QED BY <2>1, <3>2
  <2>8. granted' \subseteq [pin : Pins, generation : Generations, record : Records]
    BY <2>1, <2>7
  <2>9. \A g \in granted : g.pin # p
    BY <2>1, Words
  <2>10. \A g \in granted' : pinRecord'[g.pin] = g.record /\ pinGeneration'[g.pin] = g.generation
    <3>1. ASSUME NEW g \in granted
          PROVE  pinRecord'[g.pin] = g.record /\ pinGeneration'[g.pin] = g.generation
      <4>1. g.pin \in Pins /\ g.pin # p
        BY <2>9
      <4> QED BY <2>1, <4>1
    <3> QED BY <2>1, <3>1
  <2>11. \A o \in Pins : pinRecord'[o] # None => pinRecord'[o] \in allocated'
    BY <1>f, <2>1, <2>2
  <2>12. TypeOK'
    BY <1>f, <2>3, <2>6, <2>7, <2>8
  <2> QED BY <2>5, <2>10, <2>11, <2>12
<1>2. ASSUME NEW h \in PinHandles, ReleasePin(h)
      PROVE  TypeOK' /\ Pinned'
  <2> DEFINE p == h.pin
             r == pinRecord[p]
  <2>1. /\ p \in Pins /\ r \in Records /\ r = pinRecord[p] /\ h.generation = pinGeneration[p]
        /\ pinRecord' = [pinRecord EXCEPT ![p] = None]
        /\ pinCount' = [pinCount EXCEPT ![r] = @ - 1]
        /\ granted' = {g \in granted : <<g.pin, g.generation>> # <<p, h.generation>>}
        /\ pinGeneration' = pinGeneration
    BY <1>2 DEF ReleasePin, Names, PinHandles
  <2> HIDE DEF p, r
  <2>3. pinRecord' \in [Pins -> Records \cup {None}]
    BY <2>1
  <2>4. pinCount' \in [Records -> Int]
    BY <1>i, <2>1
  <2>5. ASSUME NEW q \in Records
        PROVE  pinCount'[q] = Cardinality(PinsOf(pinRecord', q))
    <3>1. pinCount'[q] = pinCount[q] - IF q = r THEN 1 ELSE 0
      BY <1>i, <2>1
    <3>2. pinCount[q] = Cardinality(PinsOf(pinRecord, q))
      OBVIOUS
    <3>3. pinRecord'[p] = None /\ \A o \in Pins : o # p => pinRecord[o] = pinRecord'[o]
      BY <2>1
    <3>4. /\ PinsOf(pinRecord, r) = PinsOf(pinRecord', r) \cup {p}
          /\ p \notin PinsOf(pinRecord', r) /\ PinsOf(pinRecord', r) \in SUBSET Pins
      BY <2>1, <3>3, Words DEF PinsOf
    <3>5. q # r => PinsOf(pinRecord', q) = PinsOf(pinRecord, q)
      BY <2>1, <3>3, Words DEF PinsOf
    <3>6. /\ Cardinality(PinsOf(pinRecord, r)) = Cardinality(PinsOf(pinRecord', r)) + 1
          /\ Cardinality(PinsOf(pinRecord', r)) \in Nat
      <4> DEFINE S == PinsOf(pinRecord', r)
      <4>1. S \in SUBSET Pins /\ p \notin S /\ PinsOf(pinRecord, r) = S \cup {p} /\ p \in Pins
        BY <2>1, <3>4
      <4> HIDE DEF S
      <4>2. Cardinality(S) \in Nat /\ Cardinality(S \cup {p}) = Cardinality(S) + 1
        BY <4>1, CountOnePin
      <4> QED BY <4>1, <4>2 DEF S
    <3>7. CASE q = r
      BY <3>1, <3>2, <3>6, <3>7
    <3>8. CASE q # r
      BY <1>i, <3>1, <3>2, <3>5, <3>8
    <3> QED BY <3>7, <3>8
  <2>6. pinCount' \in [Records -> 0..MaxPins]
    BY <1>c, <2>3, <2>4, <2>5
  <2>7. \A g \in granted' : g \in granted /\ g.pin # p
    BY <2>1
  <2>8. \A g \in granted' : pinRecord'[g.pin] = g.record /\ pinGeneration'[g.pin] = g.generation
    BY <2>1, <2>7
  <2>9. \A o \in Pins : pinRecord'[o] # None => pinRecord'[o] \in allocated'
    BY <1>f, <2>1
  <2>10. TypeOK'
    BY <1>f, <2>1, <2>3, <2>6, <2>7
  <2> QED BY <2>5, <2>8, <2>9, <2>10
<1> QED BY <1>1, <1>2 DEF PinStep

-----------------------------------------------------------------------------
(* Publications: memory, handles, keys and the index *)

\* What a publication does to the records, whichever operation asks for it.
LEMMA PublicationFacts ==
    ASSUME IInv, NEW s \in Slots, NEW r \in Records \cup {None}, Publication(s, r)
    PROVE  /\ writer = "IDLE" /\ prior = None /\ epoch < MaxEpoch
           /\ published' = [published EXCEPT ![s] = r]
           /\ prior' = published[s] /\ target' = s /\ writer' = "INDEX"
           /\ UNCHANGED <<cells, epoch, retired, retireEpoch, scopeVars, pinVars>>
           /\ r \notin allocated /\ r # published[s]
           /\ allocated' = allocated \cup ({r} \ {None})
           /\ \A q \in allocated : info'[q] = info[q]
           /\ Current' = (Current \ {published[s]}) \cup ({r} \ {None})
<1>1. /\ writer = "IDLE" /\ prior = None /\ epoch < MaxEpoch
      /\ published' = [published EXCEPT ![s] = r]
      /\ prior' = published[s] /\ target' = s /\ writer' = "INDEX"
      /\ UNCHANGED <<cells, epoch, retired, retireEpoch, scopeVars, pinVars>>
  BY DEF Publication, Exchange, IInv, Memory
<1>2. /\ r \notin allocated
      /\ allocated' = allocated \cup ({r} \ {None})
      /\ \A q \in allocated : info'[q] = info[q]
  BY Words DEF Publication, Write, Unused, IInv, TypeOK
<1>3. r # published[s]
  <2>1. published[s] # None => published[s] \in allocated
    BY DEF IInv, Memory, Current
  <2>2. r = None => s \notin Vacant
    BY Words DEF Publication, Write, Unused
  <2> QED BY <1>2, <2>1, <2>2 DEF Vacant
<1>4. Current' = (Current \ {published[s]}) \cup ({r} \ {None})
  <2>1. \A t \in Slots : published'[t] = IF t = s THEN r ELSE published[t]
    BY <1>1 DEF IInv, TypeOK
  <2>2. \A t \in Slots : t # s /\ published[t] # None => published[t] # published[s]
    BY DEF IInv, Memory
  <2>3. ASSUME NEW q \in Current' PROVE q \in (Current \ {published[s]}) \cup ({r} \ {None})
    BY <2>1, <2>2, <2>3 DEF Current
  <2>4. ASSUME NEW q \in (Current \ {published[s]}) \cup ({r} \ {None}) PROVE q \in Current'
    <3>1. CASE q = r /\ r # None
      BY <2>1, <3>1 DEF Current
    <3>2. CASE q \in Current \ {published[s]}
      <4>1. PICK t \in Slots : q = published[t] /\ q # None
        BY <3>2 DEF Current
      <4>2. published'[t] = q
        BY <2>1, <3>2, <4>1
      <4> QED BY <4>1, <4>2 DEF Current
    <3> QED BY <2>4, <3>1, <3>2
  <2> QED BY <2>3, <2>4
<1> QED BY <1>1, <1>2, <1>3, <1>4

\* The index still holds what it held; now that is the old record.
LEMMA PublicationKeeps ==
    ASSUME IInv, NEW s \in Slots, NEW r \in Records \cup {None}, Publication(s, r)
    PROVE  Memory' /\ Handles' /\ Keyed' /\ Index'
<1> DEFINE old == published[s]
<1>f. /\ writer = "IDLE" /\ prior = None /\ epoch < MaxEpoch
      /\ published' = [published EXCEPT ![s] = r]
      /\ prior' = old /\ target' = s /\ writer' = "INDEX"
      /\ cells' = cells /\ epoch' = epoch /\ retired' = retired /\ retireEpoch' = retireEpoch
      /\ r \notin allocated /\ r # old
      /\ allocated' = allocated \cup ({r} \ {None})
      /\ \A q \in allocated : info'[q] = info[q]
      /\ Current' = (Current \ {old}) \cup ({r} \ {None})
  BY PublicationFacts
<1>m. allocated = Current \cup retired /\ Current \cap retired = {}
  BY <1>f DEF IInv, Memory
<1>o. old = None \/ old \in Current
  BY DEF Current
<1>p. published'[target'] = r
  BY <1>f DEF IInv, TypeOK
<1>n. None \notin Current /\ None \notin allocated
  BY Words DEF Current, IInv, TypeOK
<1>x. Indexed' = Current /\ Indexed = Current
  <2>1. r \notin Current
    BY <1>f, <1>m
  <2>2. Indexed' = (Current' \ {r}) \cup ({old} \ {None})
    BY <1>f, <1>p DEF Indexed
  <2>3. Indexed = Current
    BY <1>f DEF Indexed
  <2> QED BY <1>f, <1>o, <1>n, <2>1, <2>2, <2>3
<1>1. Memory'
  <2>1. allocated' = Current' \cup retired' \cup ({prior'} \ {None})
    BY <1>f, <1>m, <1>o, <1>n
  <2>2. Current' \cap retired' = {} /\ prior' \notin Current' \cup retired'
    BY <1>f, <1>m, <1>o, <1>n, Words DEF IInv, TypeOK
  <2>3. \A t, u \in Slots : published'[t] = published'[u] /\ published'[t] # None => t = u
    <3>1. \A t, u \in Slots : published[t] = published[u] /\ published[t] # None => t = u
      BY DEF IInv, Memory
    <3>2. \A t \in Slots : t # s => published'[t] = published[t]
      BY <1>f DEF IInv, TypeOK
    <3>3. published'[s] = r
      BY <1>f DEF IInv, TypeOK
    <3>4. \A t \in Slots : published[t] # None => published[t] \in allocated
      BY <1>m DEF Current
    <3> QED BY <1>f, <3>1, <3>2, <3>3, <3>4
  <2>4. \A q \in retired' : retireEpoch'[q] < epoch'
    BY <1>f DEF IInv, Memory
  <2> QED BY <1>f, <2>1, <2>2, <2>3, <2>4 DEF Memory
<1>2. Handles'
  <2> USE DEF IInv, Handles, HandlesNameOneKey
  <2>1. \A q \in allocated : info[q] \in Infos /\ info[q].slot \in Slots /\ info[q].generation \in Nat
    BY BoundsAssumption DEF TypeOK, Infos, Generations
  <2>2. CASE r = None
    <3>1. allocated' = allocated /\ nextGeneration' = nextGeneration
      BY <1>f, <2>2, Words DEF Publication, Write, Unused
    <3> QED BY <1>f, <3>1
  <2>3. ASSUME NEW k \in Keys, NEW resident \in BOOLEAN,
               Write(r, [key |-> k, slot |-> s, generation |-> nextGeneration[s], resident |-> resident]),
               Incarnation(s)
        PROVE  Handles'
    <3>1. r \in Records /\ info'[r].slot = s /\ info'[r].generation = nextGeneration[s]
      BY <2>3 DEF Write, Unused, TypeOK
    <3>2. nextGeneration[s] \in Nat /\ nextGeneration'[s] = nextGeneration[s] + 1
      BY <2>3, BoundsAssumption DEF Incarnation, TypeOK, Generations
    <3>3. \A t \in Slots : t # s => nextGeneration'[t] = nextGeneration[t]
      BY <2>3 DEF Incarnation, TypeOK
    <3>4. \A t \in Slots : nextGeneration[t] \in Nat
      BY BoundsAssumption DEF TypeOK, Generations
    <3>5. \A q \in allocated' : info'[q].generation < nextGeneration'[info'[q].slot]
      BY <1>f, <2>1, <3>1, <3>2, <3>3, <3>4
    <3>6. \A q \in allocated : ~(info'[q].slot = s /\ info'[q].generation = nextGeneration[s])
      BY <1>f, <2>1, <3>2
    <3>7. HandlesNameOneKey'
      BY <1>f, <3>1, <3>6
    <3> QED BY <3>5, <3>7
  <2>4. ASSUME NEW resident \in BOOLEAN, s \notin Vacant,
               Write(r, [info[old] EXCEPT !.resident = resident]),
               nextGeneration' = nextGeneration
        PROVE  Handles'
    <3>1. old \in allocated
      BY <1>m, <2>4 DEF Vacant, Current
    <3>2. r \in Records /\ info'[r] = [info[old] EXCEPT !.resident = resident]
      BY <2>4 DEF Write, Unused, TypeOK
    <3>3. /\ info'[r].slot = info[old].slot /\ info'[r].generation = info[old].generation
          /\ info'[r].key = info[old].key
      BY <2>1, <3>1, <3>2 DEF Infos
    <3> QED BY <1>f, <2>4, <3>1, <3>3
  <2> QED BY <2>2, <2>3, <2>4 DEF Publication
<1>3. Keyed'
  <2> USE DEF IInv, Keyed
  <2>1. \A q \in Current : info'[q] = info[q]
    BY <1>f, <1>m
  <2>2. \A q, t \in Current : info'[q].key = info'[t].key => q = t
    BY <2>1
  <2>3. ASSUME r # None
        PROVE  /\ \A q \in Current \ {old} : info'[q].key # info'[r].key
               /\ old # None => info'[old].key = info'[r].key
    <3>1. r \in Records
      BY <2>3
    <3>2. ASSUME NEW k \in Keys, NEW resident \in BOOLEAN, k \notin Registered, s \in Vacant,
                 Write(r, [key |-> k, slot |-> s, generation |-> nextGeneration[s], resident |-> resident])
          PROVE  /\ \A q \in Current \ {old} : info'[q].key # info'[r].key
                 /\ old = None
      <4>1. info'[r].key = k /\ old = None
        BY <3>1, <3>2 DEF Write, TypeOK, Vacant
      <4> QED BY <2>1, <3>2, <4>1 DEF Registered
    <3>3. ASSUME NEW resident \in BOOLEAN, s \notin Vacant,
                 Write(r, [info[old] EXCEPT !.resident = resident])
          PROVE  info'[r].key = info'[old].key /\ old \in Current
      <4>1. old \in Current /\ info[old] \in Infos
        BY <1>m, <3>3 DEF Vacant, Current, TypeOK
      <4>2. info'[r] = [info[old] EXCEPT !.resident = resident]
        BY <3>1, <3>3 DEF Write, TypeOK
      <4>3. info'[r].key = info[old].key
        BY <4>1, <4>2 DEF Infos
      <4> QED BY <2>1, <4>1, <4>3
    <3> QED BY <2>2, <2>3, <3>2, <3>3 DEF Publication
  <2>4. r = None => old \in Current
    BY <1>o, <1>f
  <2>5. TargetKey' = info'[IF r # None THEN r ELSE old].key
    BY <1>f, <1>p DEF TargetKey
  <2>6. \A q, t \in Current' : info'[q].key = info'[t].key => q = t
    BY <1>f, <2>2, <2>3
  <2>7. prior' # None \/ published'[target'] # None
    BY <1>f, <1>p
  <2>8. prior' # None => info'[prior'].key = TargetKey'
    BY <1>f, <2>3, <2>5
  <2>9. \A q \in Current' \ {published'[target']} : info'[q].key # TargetKey'
    BY <1>f, <1>p, <2>2, <2>3, <2>4, <2>5
  <2> QED BY <2>6, <2>7, <2>8, <2>9
<1>4. Index'
  <2> USE DEF IInv, Index
  <2>1. \A q \in Current : info'[q] = info[q]
    BY <1>f, <1>m
  <2>2. Entries' = Indexed'
    BY <1>f, <1>x DEF Entries
  <2>3. \A c, d \in Cells : cells'[c] \in Records /\ cells'[c] = cells'[d] => c = d
    BY <1>f
  <2>4. ASSUME NEW q \in Indexed'
        PROVE  Placed(q)'
    <3>1. Placed(q) /\ info'[q] = info[q]
      BY <1>x, <2>1
    <3> QED BY <1>f, <3>1 DEF Placed, Reachable
  <2> QED BY <2>2, <2>3, <2>4
<1> QED BY <1>1, <1>2, <1>3, <1>4

\* The cell that a publication changes: the one of the old record, or the first
\* that is free; a search for the key arrives there.
LEMMA UpdateFacts ==
    ASSUME IInv, UpdateIndex
    PROVE  /\ writer = "INDEX" /\ TargetKey \in Keys
           /\ published[target] # None => info[published[target]].key = TargetKey
           /\ \E n \in Steps :
                /\ Reachable(TargetKey, n)
                /\ prior # None => cells[Probe[TargetKey][n]] = prior
                /\ prior = None => cells[Probe[TargetKey][n]] \notin Records /\ published[target] # None
                /\ cells' = [cells EXCEPT ![Probe[TargetKey][n]] =
                               IF published[target] = None THEN Tombstone ELSE published[target]]
<1> DEFINE k == TargetKey
           new == published[target]
<1>1. writer = "INDEX"
  BY DEF UpdateIndex
<1>2. (new # None => new \in Current) /\ new \in Records \cup {None} /\ prior \in Records \cup {None}
  BY DEF Current, IInv, TypeOK
<1>3. /\ prior # None \/ new # None
      /\ prior # None => info[prior].key = k
      /\ \A r \in Current \ {new} : info[r].key # k
  BY <1>1 DEF IInv, Keyed
<1>4. k \in Keys /\ (new # None => info[new].key = k)
  <2>1. \A r \in Records : info[r].key \in Keys
    BY DEF IInv, TypeOK, Infos
  <2> QED BY <1>2, <1>3, <2>1 DEF TargetKey
<1>5. PICK n \in Destinations(k) :
        /\ \A m \in Destinations(k) : n <= m
        /\ cells' = IF new = None /\ ~Holds(k, n) THEN cells
                    ELSE [cells EXCEPT ![Probe[k][n]] = IF new = None THEN Tombstone ELSE new]
  BY DEF UpdateIndex, Withdrawn
<1> DEFINE found == {m \in Steps : Reachable(k, m) /\ Holds(k, m)}
<1>6. ASSUME NEW m \in Steps, Holds(k, m) PROVE prior # None /\ cells[Probe[k][m]] = prior
  <2>1. Probe[k][m] \in Cells
    BY <1>4, ProbeAssumption
  <2>2. cells[Probe[k][m]] \in Entries /\ info[cells[Probe[k][m]]].key = k
    BY <1>6, <2>1 DEF Holds, Entries
  <2>3. Entries = (Current \ {new}) \cup ({prior} \ {None})
    BY <1>1 DEF IInv, Index, Indexed
  <2> QED BY <1>3, <2>2, <2>3
<1>7. CASE prior # None
  <2>1. prior \in Indexed
    BY <1>1, <1>7 DEF Indexed
  <2>2. PICK m \in Steps : cells[Probe[k][m]] = prior /\ Reachable(k, m)
    BY <1>3, <1>7, <2>1 DEF IInv, Index, Placed
  <2>3. m \in found
    BY <1>2, <1>3, <1>7, <2>2 DEF Holds
  <2>4. Destinations(k) = found
    BY <2>3 DEF Destinations
  <2>5. n \in Steps /\ Reachable(k, n) /\ Holds(k, n)
    BY <1>5, <2>4
  <2> QED BY <1>1, <1>4, <1>5, <1>6, <1>7, <2>5
<1>8. CASE prior = None
  <2>1. \A m \in Steps : ~Holds(k, m)
    BY <1>6, <1>8
  <2>2. Destinations(k) = {m \in Steps : cells[Probe[k][m]] \in {Empty, Tombstone}}
    BY <2>1 DEF Destinations
  <2>3. n \in Steps /\ cells[Probe[k][n]] \notin Records
    BY <1>5, <2>2, Words
  <2>4. Reachable(k, n)
    <3> SUFFICES ASSUME NEW m \in Steps, m < n PROVE cells[Probe[k][m]] # Empty
      BY DEF Reachable
    <3>1. m \notin Destinations(k)
      BY <1>5, <2>3, BoundsAssumption DEF Steps
    <3> QED BY <2>2, <3>1
  <2> QED BY <1>1, <1>3, <1>4, <1>5, <1>8, <2>3, <2>4
<1> QED BY <1>7, <1>8

\* The cell of a publication turns from the old record to the new: no other
\* search changes, since no cell becomes unused.
LEMMA UpdateIndexKeeps ==
    ASSUME IInv, UpdateIndex
    PROVE  TypeOK' /\ Memory' /\ Handles' /\ Keyed' /\ Index'
<1> DEFINE k == TargetKey
           new == published[target]
           w == IF new = None THEN Tombstone ELSE new
<1>f. /\ writer' = "ADVANCE" /\ published' = published /\ epoch' = epoch
      /\ info' = info /\ allocated' = allocated /\ retired' = retired /\ retireEpoch' = retireEpoch
      /\ nextGeneration' = nextGeneration /\ target' = target /\ prior' = prior
      /\ scanned' = scanned /\ oldest' = oldest /\ readerEpochs' = readerEpochs /\ at' = at
      /\ token' = token /\ entered' = entered /\ held' = held /\ sought' = sought /\ probe' = probe
      /\ pinRecord' = pinRecord /\ pinGeneration' = pinGeneration /\ pinCount' = pinCount
      /\ granted' = granted
  BY DEF UpdateIndex, memoryVars, pinVars
<1>u. /\ writer = "INDEX" /\ k \in Keys
      /\ new # None => info[new].key = k
  BY UpdateFacts
<1>p. PICK n \in Steps :
        /\ Reachable(k, n)
        /\ prior # None => cells[Probe[k][n]] = prior
        /\ prior = None => cells[Probe[k][n]] \notin Records /\ new # None
        /\ cells' = [cells EXCEPT ![Probe[k][n]] = w]
  BY UpdateFacts
<1> DEFINE c == Probe[k][n]
<1>c. c \in Cells
  BY <1>u, ProbeAssumption
<1>n. /\ new \in Records \cup {None} /\ prior \in Records \cup {None}
      /\ new # None => new \in Current
      /\ prior \notin Current
  BY DEF Current, IInv, TypeOK, Memory
<1>w. w # Empty /\ w \in Records \cup {Tombstone} /\ (w \in Records <=> new # None)
  BY <1>n, Words, WordsAssumption
<1>d. \A d \in Cells : cells'[d] = IF d = c THEN w ELSE cells[d]
  BY <1>p DEF IInv, TypeOK
<1>r. Current' = Current /\ Indexed' = Current
  BY <1>f DEF Current, Indexed
<1>i. Indexed = (Current \ {new}) \cup ({prior} \ {None})
  BY <1>u DEF Indexed
<1>e. Entries = Indexed
  BY DEF IInv, Index
<1>1. TypeOK'
  <2>1. cells' \in [Cells -> Records \cup {Empty, Tombstone}]
    BY <1>p, <1>w DEF IInv, TypeOK
  <2>2. missed' \in [Scopes -> BOOLEAN]
    BY DEF UpdateIndex, IInv, TypeOK
  <2> QED BY <1>f, <2>1, <2>2 DEF IInv, TypeOK
<1>2. Memory'
  BY <1>f, <1>u, <1>r DEF IInv, Memory
<1>3. Handles'
  BY <1>f DEF IInv, Handles, HandlesNameOneKey
<1>4. Keyed'
  BY <1>f, <1>r DEF IInv, Keyed
<1>5. Index'
  <2>1. \A d \in Cells : cells[d] \in Records => cells[d] \in Indexed
    BY <1>e DEF Entries
  <2>2. \A d \in Cells : cells[d] \in Records /\ d # c => cells[d] \in Current \ {new}
    <3> SUFFICES ASSUME NEW d \in Cells, cells[d] \in Records, d # c
                 PROVE  cells[d] # prior
      BY <1>i, <2>1
    <3>1. prior # None => cells[c] = prior
      BY <1>p
    <3> QED BY <1>c, <3>1, Words DEF IInv, Index
  <2>3. ASSUME NEW q \in Current, q # new PROVE \E d \in Cells : d # c /\ cells[d] = q
    <3>1. q \in Entries
      BY <1>e, <1>i, <2>3
    <3>2. PICK d \in Cells : cells[d] = q
      BY <3>1 DEF Entries
    <3>3. q # prior /\ q \in Records
      BY <1>n, <3>1 DEF Entries
    <3> QED BY <1>p, <3>2, <3>3
  <2>4. Entries' = Current
    <3>1. ASSUME NEW q \in Entries' PROVE q \in Current
      BY <1>n, <1>w, <1>d, <2>2, <3>1, Words DEF Entries
    <3>2. ASSUME NEW q \in Current PROVE q \in Entries'
      <4>1. q \in Records
        BY DEF Current, IInv, TypeOK
      <4>2. CASE q = new
        <5>1. cells'[c] = q
          BY <1>c, <1>d, <4>1, <4>2, Words
        <5> QED BY <1>c, <4>1, <5>1 DEF Entries
      <4>3. CASE q # new
        <5>1. \E d \in Cells : cells'[d] = q
          BY <1>d, <2>3, <4>3
        <5> QED BY <4>1, <5>1 DEF Entries
      <4> QED BY <4>2, <4>3
    <3> QED BY <3>1, <3>2
  <2>5. \A a, b \in Cells : cells'[a] \in Records /\ cells'[a] = cells'[b] => a = b
    <3>1. \A a, b \in Cells : cells[a] \in Records /\ cells[a] = cells[b] => a = b
      BY DEF IInv, Index
    <3>2. \A d \in Cells : d # c => cells'[d] # w \/ w \notin Records
      BY <1>d, <1>w, <2>2
    <3> QED BY <1>d, <3>1, <3>2
  <2>7. ASSUME NEW q \in Current PROVE Placed(q)'
    <3>1. q \in Records /\ info[q].key \in Keys
      BY DEF Current, IInv, TypeOK, Infos
    <3>2. CASE q = new
      <4>1. info[q].key = k /\ cells'[Probe[k][n]] = q
        BY <1>u, <1>c, <1>d, <3>1, <3>2, Words
      <4>2. \A o \in Steps : Probe[k][o] \in Cells
        BY <1>u, ProbeAssumption
      <4>3. \A o \in Steps : o < n => cells'[Probe[k][o]] # Empty
        BY <1>d, <1>w, <1>p, <4>2 DEF Reachable
      <4> QED BY <1>f, <4>1, <4>3 DEF Placed, Reachable
    <3>3. CASE q # new
      <4>1. PICK m \in Steps : cells[Probe[info[q].key][m]] = q /\ Reachable(info[q].key, m)
        BY <1>i, <3>3 DEF IInv, Index, Placed
      <4>2. Probe[info[q].key][m] \in Cells
        BY <3>1, ProbeAssumption
      <4>3. q # prior
        BY <1>n
      <4>4. cells'[Probe[info[q].key][m]] = q
        BY <1>p, <1>d, <3>1, <4>1, <4>2, <4>3
      <4>5. \A o \in Steps : Probe[info[q].key][o] \in Cells
        BY <3>1, ProbeAssumption
      <4>6. \A o \in Steps : o < m => cells'[Probe[info[q].key][o]] # Empty
        BY <1>d, <1>w, <4>1, <4>5 DEF Reachable
      <4> QED BY <1>f, <4>4, <4>6 DEF Placed, Reachable
    <3> QED BY <3>2, <3>3
  <2> QED BY <1>r, <2>4, <2>5, <2>7 DEF Index
<1> QED BY <1>1, <1>2, <1>3, <1>4, <1>5

\* The old record becomes a retired one, stamped with the epoch that ends.
LEMMA AdvanceKeeps ==
    ASSUME IInv, Advance
    PROVE  TypeOK' /\ Memory' /\ Handles' /\ Keyed' /\ Index'
<1>f. /\ writer = "ADVANCE" /\ writer' = "IDLE" /\ prior' = None /\ epoch' = epoch + 1
      /\ published' = published /\ cells' = cells /\ info' = info /\ allocated' = allocated
      /\ nextGeneration' = nextGeneration /\ target' = target
      /\ scanned' = scanned /\ oldest' = oldest /\ readerEpochs' = readerEpochs /\ at' = at
      /\ token' = token /\ entered' = entered /\ held' = held /\ sought' = sought /\ probe' = probe
      /\ missed' = missed
      /\ pinRecord' = pinRecord /\ pinGeneration' = pinGeneration /\ pinCount' = pinCount
      /\ granted' = granted
  BY DEF Advance, scopeVars, pinVars
<1>t. /\ epoch \in 1..MaxEpoch /\ epoch < MaxEpoch
      /\ retireEpoch \in [Records -> 0..MaxEpoch] /\ prior \in Records \cup {None}
      /\ retired \subseteq Records
  BY <1>f DEF IInv, TypeOK, Memory
<1>p. retired' = retired \cup ({prior} \ {None})
  BY DEF Advance
<1>e. /\ retireEpoch' \in [Records -> 0..MaxEpoch]
      /\ prior # None => retireEpoch'[prior] = epoch
      /\ \A r \in Records : r # prior => retireEpoch'[r] = retireEpoch[r]
  BY <1>t, Words DEF Advance
<1>r. Current' = Current /\ Indexed' = Current /\ Indexed = Current
  BY <1>f DEF Current, Indexed
<1>1. TypeOK'
  <2>1. epoch' \in 1..MaxEpoch
    BY <1>f, <1>t, Words
  <2> QED BY <1>f, <1>t, <1>p, <1>e, <2>1 DEF IInv, TypeOK
<1>2. Memory'
  <2>1. \A r \in retired' : retireEpoch'[r] < epoch'
    <3>1. \A r \in retired : retireEpoch[r] < epoch /\ r # prior /\ retireEpoch[r] \in Int
      BY <1>t, Words DEF IInv, Memory
    <3> QED BY <1>f, <1>t, <1>p, <1>e, <3>1
  <2>2. /\ allocated = Current \cup retired \cup ({prior} \ {None})
        /\ Current \cap retired = {} /\ prior \notin Current \cup retired
    BY DEF IInv, Memory
  <2>3. None \notin Current \cup retired'
    BY <1>t, <1>p, Words DEF Current
  <2>4. \A s, t \in Slots : published'[s] = published'[t] /\ published'[s] # None => s = t
    BY <1>f DEF IInv, Memory
  <2>5. /\ allocated' = Current' \cup retired' \cup ({prior'} \ {None})
        /\ Current' \cap retired' = {} /\ prior' \notin Current' \cup retired'
    BY <1>f, <1>p, <1>r, <2>2, <2>3
  <2> QED BY <1>f, <2>1, <2>4, <2>5 DEF Memory
<1>3. Handles'
  BY <1>f DEF IInv, Handles, HandlesNameOneKey
<1>4. Keyed'
  BY <1>f, <1>r DEF IInv, Keyed
<1>5. Index'
  BY <1>f, <1>r DEF IInv, Index, Entries, Placed, Reachable
<1> QED BY <1>1, <1>2, <1>3, <1>4, <1>5

\* Looking for the oldest reader changes nothing but what the writer remembers.
LEMMA CollectKeeps ==
    ASSUME IInv, CollectBegin \/ CollectScan
    PROVE  TypeOK' /\ Memory' /\ Handles' /\ Keyed' /\ Index'
<1>f. /\ UNCHANGED <<publishVars, memoryVars, nextGeneration, target, prior, scopeVars, pinVars>>
      /\ writer \in {"IDLE", "SCAN"} /\ writer' \in {"IDLE", "SCAN"}
  BY DEF CollectBegin, CollectScan
<1>g. /\ published' = published /\ cells' = cells /\ epoch' = epoch /\ info' = info
      /\ allocated' = allocated /\ retired' = retired /\ retireEpoch' = retireEpoch
      /\ nextGeneration' = nextGeneration /\ target' = target /\ prior' = prior
      /\ readerEpochs' = readerEpochs /\ at' = at
      /\ token' = token /\ entered' = entered /\ held' = held /\ sought' = sought /\ probe' = probe
      /\ missed' = missed
      /\ pinRecord' = pinRecord /\ pinGeneration' = pinGeneration /\ pinCount' = pinCount
      /\ granted' = granted
  BY <1>f DEF publishVars, memoryVars, scopeVars, pinVars
<1>1. TypeOK'
  <2>1. scanned' \in 0..MaxReaders /\ oldest' \in 1..Reserved
    <3>1. CASE CollectBegin
      BY <3>1, Words DEF CollectBegin
    <3>2. CASE CollectScan
      <4>1. scanned \in 0..MaxReaders /\ scanned < MaxReaders /\ oldest \in 1..Reserved
        BY <3>2 DEF CollectScan, IInv, TypeOK
      <4>2. scanned + 1 \in Table /\ scanned + 1 \in 0..MaxReaders
        BY <4>1, Words DEF Table
      <4>3. readerEpochs[scanned + 1] \in 0..Reserved
        BY <4>2 DEF IInv, TypeOK
      <4> QED BY <3>2, <4>1, <4>2, <4>3, Words DEF CollectScan
    <3> QED BY <3>1, <3>2
  <2> QED BY <1>f, <1>g, <2>1 DEF IInv, TypeOK
<1>r. Current' = Current /\ Indexed' = Current /\ Indexed = Current
  BY <1>f, <1>g DEF Current, Indexed
<1>2. Memory'
  BY <1>f, <1>g, <1>r DEF IInv, Memory
<1>3. Handles'
  BY <1>g DEF IInv, Handles, HandlesNameOneKey
<1>4. Keyed'
  BY <1>f, <1>g, <1>r DEF IInv, Keyed
<1>5. Index'
  BY <1>g, <1>r DEF IInv, Index, Entries, Placed, Reachable
<1> QED BY <1>1, <1>2, <1>3, <1>4, <1>5

\* Only retired records are given back: none that is pinned, and none that a
\* scope holds.
LEMMA FreedFacts ==
    ASSUME IInv, NEW budget \in Budgets, CollectEnd(budget)
    PROVE  \E freed \in SUBSET retired :
             /\ retired' = retired \ freed
             /\ allocated' = allocated \ freed
             /\ info' = [r \in Records |-> IF r \in freed THEN Blank ELSE info[r]]
             /\ \A p \in Pins : pinRecord[p] \notin freed
             /\ \A x \in Scopes : held[x] \cap freed = {}
<1> DEFINE freed == {r \in Visited(budget) : Collectable(r)}
<1>1. freed \in SUBSET retired
  BY DEF Visited
<1>2. /\ retired' = retired \ freed
      /\ allocated' = allocated \ freed
      /\ info' = [r \in Records |-> IF r \in freed THEN Blank ELSE info[r]]
  BY DEF CollectEnd
<1>3. ASSUME NEW p \in Pins PROVE pinRecord[p] \notin freed
  <2> SUFFICES ASSUME pinRecord[p] \in freed PROVE FALSE
    OBVIOUS
  <2> DEFINE r == pinRecord[p]
  <2>1. r \in Records /\ pinCount[r] = 0
    BY <1>1 DEF Collectable, IInv, TypeOK
  <2>2. Cardinality(PinsOf(pinRecord, r)) = 0
    BY <2>1 DEF IInv, Pinned
  <2>3. p \in PinsOf(pinRecord, r) /\ PinsOf(pinRecord, r) \in SUBSET Pins
    BY DEF PinsOf
  <2>4. PinsOf(pinRecord, r) = {}
    <3> DEFINE S == PinsOf(pinRecord, r)
    <3>1. IsFiniteSet(S) /\ Cardinality(S) = 0
      BY <2>2, <2>3, PinSets
    <3> HIDE DEF S
    <3>2. S = {}
      BY <3>1, FS_EmptySet
    <3> QED BY <3>2 DEF S
  <2> QED BY <2>3, <2>4
<1>4. ASSUME NEW x \in Scopes PROVE held[x] \cap freed = {}
  <2> SUFFICES ASSUME NEW r \in held[x], r \in freed PROVE FALSE
    OBVIOUS
  <2>1. writer = "SCAN" /\ scanned = MaxReaders /\ token[x] <= MaxReaders
    BY Words DEF CollectEnd, IInv, TypeOK
  <2>2. oldest <= entered[x]
    BY <1>1, <2>1 DEF IInv, Collecting
  <2>3. entered[x] <= retireEpoch[r]
    BY <1>1, <2>1 DEF IInv, Views, Memory
  <2>4. retireEpoch[r] < oldest
    BY DEF Collectable
  <2>5. retireEpoch[r] \in Int /\ oldest \in Int /\ entered[x] \in Int
    BY <1>1, Words DEF IInv, TypeOK
  <2> QED BY <2>2, <2>3, <2>4, <2>5
<1> QED BY <1>1, <1>2, <1>3, <1>4

\* The records that stay are as they were.
LEMMA CollectEndKeeps ==
    ASSUME IInv, NEW budget \in Budgets, CollectEnd(budget)
    PROVE  TypeOK' /\ Memory' /\ Handles' /\ Keyed' /\ Index'
<1>f. /\ writer = "SCAN" /\ writer' = "IDLE" /\ scanned' = 0 /\ oldest' = Reserved
      /\ published' = published /\ cells' = cells /\ epoch' = epoch /\ retireEpoch' = retireEpoch
      /\ nextGeneration' = nextGeneration /\ target' = target /\ prior' = prior
      /\ readerEpochs' = readerEpochs /\ at' = at
      /\ token' = token /\ entered' = entered /\ held' = held /\ sought' = sought /\ probe' = probe
      /\ missed' = missed
      /\ pinRecord' = pinRecord /\ pinGeneration' = pinGeneration /\ pinCount' = pinCount
      /\ granted' = granted
  BY DEF CollectEnd, publishVars, scopeVars, pinVars
<1>p. PICK freed \in SUBSET retired :
        /\ retired' = retired \ freed
        /\ allocated' = allocated \ freed
        /\ info' = [r \in Records |-> IF r \in freed THEN Blank ELSE info[r]]
  BY FreedFacts
<1>m. /\ allocated = Current \cup retired /\ Current \cap retired = {} /\ prior = None
      /\ Current \subseteq Records /\ allocated \subseteq Records /\ retired \subseteq Records
  BY <1>f DEF IInv, Memory, TypeOK, Current
<1>i. \A r \in allocated' : r \in allocated /\ info'[r] = info[r]
  BY <1>p, <1>m
<1>r. Current' = Current /\ Indexed' = Current /\ Indexed = Current
  BY <1>f DEF Current, Indexed
<1>1. TypeOK'
  <2>1. info' \in [Records -> Infos]
    BY <1>p, Words DEF IInv, TypeOK
  <2>2. scanned' \in 0..MaxReaders /\ oldest' \in 1..Reserved
    BY <1>f, Words
  <2> QED BY <1>f, <1>p, <2>1, <2>2 DEF IInv, TypeOK
<1>2. Memory'
  <2>1. allocated' = Current' \cup retired' \cup ({prior'} \ {None})
    BY <1>f, <1>p, <1>m, <1>r
  <2>2. Current' \cap retired' = {} /\ prior' \notin Current' \cup retired'
    BY <1>f, <1>p, <1>m, <1>r, Words
  <2> QED BY <1>f, <1>p, <2>1, <2>2 DEF IInv, Memory
<1>3. Handles'
  BY <1>f, <1>i DEF IInv, Handles, HandlesNameOneKey
<1>4. Keyed'
  BY <1>f, <1>r, <1>p, <1>m, <1>i DEF IInv, Keyed
<1>5. Index'
  <2>1. \A r \in Current : info'[r] = info[r]
    BY <1>p, <1>m
  <2> QED BY <1>f, <1>r, <2>1 DEF IInv, Index, Entries, Placed, Reachable
<1> QED BY <1>1, <1>2, <1>3, <1>4, <1>5

-----------------------------------------------------------------------------
(* The writer and the scopes: views, the scan, the pins and the searches *)

\* A publication takes no record from a scope, a pin or a search.
LEMMA PublicationKeepsReaders ==
    ASSUME IInv, NEW s \in Slots, NEW r \in Records \cup {None}, Publication(s, r)
    PROVE  Views' /\ Collecting' /\ Pinned' /\ Searching'
<1>f. /\ writer = "IDLE" /\ prior = None
      /\ prior' = published[s] /\ writer' = "INDEX"
      /\ cells' = cells /\ epoch' = epoch /\ retired' = retired /\ retireEpoch' = retireEpoch
      /\ allocated' = allocated \cup ({r} \ {None})
      /\ \A q \in allocated : info'[q] = info[q]
      /\ Current' = (Current \ {published[s]}) \cup ({r} \ {None})
      /\ UNCHANGED <<scopeVars, pinVars>>
  BY PublicationFacts
<1>g. /\ readerEpochs' = readerEpochs /\ at' = at /\ token' = token /\ entered' = entered
      /\ held' = held /\ sought' = sought /\ probe' = probe /\ missed' = missed
      /\ pinRecord' = pinRecord /\ pinGeneration' = pinGeneration /\ pinCount' = pinCount
      /\ granted' = granted
  BY <1>f DEF scopeVars, pinVars
<1>1. Views'
  <2>1. Current \subseteq Current' \cup ({prior'} \ {None})
    BY <1>f DEF Current
  <2>2. \A x \in Scopes : held[x] \subseteq Current \cup {q \in retired : entered[x] <= retireEpoch[q]}
    BY <1>f DEF IInv, Views
  <2> QED BY <1>f, <1>g, <2>1, <2>2 DEF IInv, Views
<1>2. Collecting'
  BY <1>f DEF Collecting
<1>3. Pinned'
  BY <1>f, <1>g DEF IInv, Pinned
<1>4. Searching'
  <2>1. ASSUME NEW k \in Keys, NEW n \in Steps, Holds(k, n) PROVE Holds(k, n)'
    <3>1. Probe[k][n] \in Cells
      BY ProbeAssumption
    <3>2. cells[Probe[k][n]] \in Entries
      BY <2>1, <3>1 DEF Holds, Entries
    <3>3. cells[Probe[k][n]] \in allocated
      BY <1>f, <3>2 DEF IInv, Index, Indexed, Memory
    <3> QED BY <1>f, <2>1, <3>3 DEF Holds
  <2>2. \A k, n : Reachable(k, n) => Reachable(k, n)'
    BY <1>f DEF Reachable
  <2>3. ASSUME NEW x \in Scopes, at'[x] = "PROBE", ~missed'[x]
        PROVE  \E n \in Steps : n >= probe'[x] /\ (Holds(sought[x], n) /\ Reachable(sought[x], n))'
    <3>1. sought[x] \in Keys
      BY <1>g, <2>3 DEF IInv, Searching
    <3>2. PICK n \in Steps : n >= probe[x] /\ Holds(sought[x], n) /\ Reachable(sought[x], n)
      BY <1>g, <2>3 DEF IInv, Searching
    <3> DEFINE k == sought[x]
    <3>3. /\ cells'[Probe[k][n]] \in Records /\ info'[cells'[Probe[k][n]]].key = k
          /\ \A m \in Steps : m < n => cells'[Probe[k][m]] # Empty
      BY <2>1, <2>2, <3>1, <3>2 DEF Holds, Reachable
    <3> QED BY <1>g, <3>2, <3>3 DEF Holds, Reachable
  <2> QED BY <1>g, <2>3 DEF IInv, Searching
<1> QED BY <1>1, <1>2, <1>3, <1>4

\* A cell turns from the old record of a key to the new one: a search for that
\* key finds the new one there, and if there is none it has missed the key.
LEMMA UpdateIndexKeepsReaders ==
    ASSUME IInv, UpdateIndex
    PROVE  Views' /\ Collecting' /\ Pinned' /\ Searching'
<1> DEFINE k == TargetKey
           new == published[target]
<1>f. /\ writer' = "ADVANCE" /\ published' = published /\ epoch' = epoch
      /\ info' = info /\ allocated' = allocated /\ retired' = retired /\ retireEpoch' = retireEpoch
      /\ prior' = prior /\ readerEpochs' = readerEpochs /\ at' = at
      /\ token' = token /\ entered' = entered /\ held' = held /\ sought' = sought /\ probe' = probe
      /\ pinRecord' = pinRecord /\ pinGeneration' = pinGeneration /\ pinCount' = pinCount
      /\ granted' = granted
      /\ missed' = [x \in Scopes |-> missed[x] \/ (sought[x] = k /\ new = None)]
  BY DEF UpdateIndex, memoryVars, pinVars
<1>1. Views'
  BY <1>f DEF IInv, Views, Current
<1>2. Collecting'
  BY <1>f DEF Collecting
<1>3. Pinned'
  BY <1>f DEF IInv, Pinned
<1>4. Searching'
  <2>u. writer = "INDEX" /\ k \in Keys /\ (new # None => info[new].key = k /\ new \in Records)
    BY UpdateFacts DEF IInv, TypeOK
  <2>p. PICK n \in Steps :
          /\ prior # None => cells[Probe[k][n]] = prior
          /\ prior = None => cells[Probe[k][n]] \notin Records
          /\ cells' = [cells EXCEPT ![Probe[k][n]] = IF new = None THEN Tombstone ELSE new]
    BY UpdateFacts
  <2> DEFINE c == Probe[k][n]
  <2>c. c \in Cells
    BY <2>u, ProbeAssumption
  <2>d. \A d \in Cells : cells'[d] = IF d = c THEN (IF new = None THEN Tombstone ELSE new) ELSE cells[d]
    BY <2>p DEF IInv, TypeOK
  <2>w. (IF new = None THEN Tombstone ELSE new) # Empty
    BY <2>u, WordsAssumption
  <2>1. ASSUME NEW x \in Scopes, at[x] = "PROBE", ~missed'[x]
        PROVE  \E m \in Steps : m >= probe'[x] /\ (Holds(sought[x], m) /\ Reachable(sought[x], m))'
    <3> DEFINE j == sought[x]
    <3>1. j \in Keys /\ ~missed[x] /\ (j = k => new # None)
      BY <1>f, <2>1 DEF IInv, Searching
    <3>2. PICK m \in Steps : m >= probe[x] /\ Holds(j, m) /\ Reachable(j, m)
      BY <2>1, <3>1 DEF IInv, Searching
    <3>3. \A o \in Steps : Probe[j][o] \in Cells
      BY <3>1, ProbeAssumption
    <3>4. \A o \in Steps : o < m => cells'[Probe[j][o]] # Empty
      BY <2>d, <2>w, <3>2, <3>3 DEF Reachable
    <3>5. cells'[Probe[j][m]] \in Records /\ info[cells'[Probe[j][m]]].key = j
      <4>1. CASE Probe[j][m] # c
        BY <2>d, <3>2, <3>3, <4>1 DEF Holds
      <4>2. CASE Probe[j][m] = c
        <5>1. cells[c] \in Records /\ info[cells[c]].key = j
          BY <3>2, <4>2 DEF Holds
        <5>2. prior # None /\ cells[c] = prior
          BY <2>p, <5>1
        <5>3. info[prior].key = k
          BY <2>u, <5>2 DEF IInv, Keyed
        <5>4. j = k /\ cells'[c] = new
          BY <2>c, <2>d, <3>1, <5>1, <5>2, <5>3
        <5> QED BY <2>u, <3>1, <4>2, <5>4
      <4> QED BY <4>1, <4>2
    <3> QED BY <1>f, <3>2, <3>4, <3>5 DEF Holds, Reachable
  <2> QED BY <1>f, <2>1 DEF IInv, Searching
<1> QED BY <1>1, <1>2, <1>3, <1>4

\* A scope that holds the record that is retired entered in time.
LEMMA AdvanceKeepsReaders ==
    ASSUME IInv, Advance
    PROVE  Views' /\ Collecting' /\ Pinned' /\ Searching'
<1>f. /\ writer = "ADVANCE" /\ writer' = "IDLE" /\ prior' = None /\ epoch' = epoch + 1
      /\ published' = published /\ cells' = cells /\ info' = info /\ allocated' = allocated
      /\ readerEpochs' = readerEpochs /\ at' = at
      /\ token' = token /\ entered' = entered /\ held' = held /\ sought' = sought /\ probe' = probe
      /\ missed' = missed
      /\ pinRecord' = pinRecord /\ pinGeneration' = pinGeneration /\ pinCount' = pinCount
      /\ granted' = granted
      /\ retired' = retired \cup ({prior} \ {None})
  BY DEF Advance, scopeVars, pinVars
<1>1. Views'
  <2>1. /\ \A r \in retired : retireEpoch'[r] = retireEpoch[r]
        /\ prior # None => retireEpoch'[prior] = epoch
    BY DEF Advance, IInv, TypeOK, Memory
  <2>2. ASSUME NEW x \in Scopes
        PROVE  held[x] \subseteq Current' \cup ({prior'} \ {None})
                               \cup {r \in retired' : entered[x] <= retireEpoch'[r]}
    <3>1. /\ entered[x] <= epoch
          /\ held[x] \subseteq Current \cup ({prior} \ {None})
                               \cup {r \in retired : entered[x] <= retireEpoch[r]}
      BY DEF IInv, Views
    <3>2. Current' = Current
      BY <1>f DEF Current
    <3> QED BY <1>f, <2>1, <3>1, <3>2
  <2>3. \A x \in Scopes : entered[x] <= epoch + 1
    <3>1. epoch \in Int /\ \A x \in Scopes : entered[x] \in Int /\ entered[x] <= epoch
      BY Words DEF IInv, TypeOK, Views
    <3> QED BY <3>1
  <2> QED BY <1>f, <2>2, <2>3 DEF IInv, Views
<1>2. Collecting'
  BY <1>f DEF Collecting
<1>3. Pinned'
  BY <1>f DEF IInv, Pinned
<1>4. Searching'
  BY <1>f DEF IInv, Searching, Holds, Reachable
<1> QED BY <1>1, <1>2, <1>3, <1>4

\* The scan sees the epoch of every scope that holds something.
LEMMA CollectKeepsReaders ==
    ASSUME IInv, CollectBegin \/ CollectScan
    PROVE  Views' /\ Collecting' /\ Pinned' /\ Searching'
<1>f. /\ UNCHANGED <<publishVars, memoryVars, nextGeneration, target, prior, scopeVars, pinVars>>
  BY DEF CollectBegin, CollectScan
<1>g. /\ published' = published /\ cells' = cells /\ epoch' = epoch /\ info' = info
      /\ allocated' = allocated /\ retired' = retired /\ retireEpoch' = retireEpoch /\ prior' = prior
      /\ readerEpochs' = readerEpochs /\ at' = at
      /\ token' = token /\ entered' = entered /\ held' = held /\ sought' = sought /\ probe' = probe
      /\ missed' = missed
      /\ pinRecord' = pinRecord /\ pinGeneration' = pinGeneration /\ pinCount' = pinCount
      /\ granted' = granted
  BY <1>f DEF publishVars, memoryVars, scopeVars, pinVars
<1>1. Views'
  BY <1>g DEF IInv, Views, Current
<1>2. Collecting'
  <2>1. CASE CollectBegin
    <3>1. scanned' = 0
      BY <2>1 DEF CollectBegin
    <3>2. \A x \in Scopes : token[x] <= 0 => held[x] = {}
      <4>1. \A x \in Scopes : token[x] <= 0 => at[x] = "OUT"
        BY Words DEF IInv, TypeOK
      <4> QED BY <4>1 DEF IInv, Views
    <3> QED BY <1>g, <3>1, <3>2 DEF Collecting
  <2>2. ASSUME CollectScan, readerEpochs[scanned + 1] # Reserved
        PROVE  Collecting'
    <3> DEFINE seen == readerEpochs[scanned + 1]
    <3>1. /\ writer = "SCAN" /\ scanned' = scanned + 1
          /\ oldest' = IF seen # 0 /\ seen < oldest THEN seen ELSE oldest
      BY <2>2 DEF CollectScan
    <3>2. scanned \in 0..MaxReaders /\ scanned < MaxReaders /\ oldest \in Int
      BY <2>2, Words DEF CollectScan, IInv, TypeOK
    <3>3. seen \in Int
      BY <3>2, Words DEF IInv, TypeOK, Table
    <3>4. ASSUME NEW x \in Scopes, token[x] <= scanned + 1, held[x] \cap retired # {}
          PROVE  oldest' <= entered[x]
      <4>1. entered[x] \in Int /\ token[x] \in Int
        BY Words DEF IInv, TypeOK
      <4>2. CASE token[x] <= scanned
        <5>1. oldest <= entered[x]
          BY <3>1, <3>4, <4>2 DEF IInv, Collecting
        <5> QED BY <3>1, <3>2, <3>3, <4>1, <5>1
      <4>3. CASE token[x] = scanned + 1
        <5>1. seen = entered[x] /\ entered[x] >= 1
          BY <3>4, <4>3 DEF IInv, Views
        <5> QED BY <3>1, <3>2, <3>3, <4>1, <5>1
      <4> QED BY <3>2, <3>4, <4>1, <4>2, <4>3
    <3> QED BY <1>g, <3>1, <3>4 DEF Collecting
  <2>3. CASE CollectScan /\ readerEpochs[scanned + 1] = Reserved
    BY <2>3 DEF CollectScan, Collecting
  <2> QED BY <2>1, <2>2, <2>3
<1>3. Pinned'
  BY <1>g DEF IInv, Pinned
<1>4. Searching'
  BY <1>g DEF IInv, Searching, Holds, Reachable
<1> QED BY <1>1, <1>2, <1>3, <1>4

\* What is given back is in nobody's hands.
LEMMA CollectEndKeepsReaders ==
    ASSUME IInv, NEW budget \in Budgets, CollectEnd(budget)
    PROVE  Views' /\ Collecting' /\ Pinned' /\ Searching'
<1>f. /\ writer = "SCAN" /\ writer' = "IDLE"
      /\ published' = published /\ cells' = cells /\ epoch' = epoch /\ retireEpoch' = retireEpoch
      /\ prior' = prior /\ readerEpochs' = readerEpochs /\ at' = at
      /\ token' = token /\ entered' = entered /\ held' = held /\ sought' = sought /\ probe' = probe
      /\ missed' = missed
      /\ pinRecord' = pinRecord /\ pinGeneration' = pinGeneration /\ pinCount' = pinCount
      /\ granted' = granted
  BY DEF CollectEnd, publishVars, scopeVars, pinVars
<1>p. PICK freed \in SUBSET retired :
        /\ retired' = retired \ freed
        /\ allocated' = allocated \ freed
        /\ info' = [r \in Records |-> IF r \in freed THEN Blank ELSE info[r]]
        /\ \A p \in Pins : pinRecord[p] \notin freed
        /\ \A x \in Scopes : held[x] \cap freed = {}
  BY FreedFacts
<1>c. Current' = Current
  BY <1>f DEF Current
<1>1. Views'
  BY <1>f, <1>p, <1>c DEF IInv, Views
<1>2. Collecting'
  BY <1>f DEF Collecting
<1>3. Pinned'
  BY <1>f, <1>p DEF IInv, Pinned
<1>4. Searching'
  <2>1. \A c \in Cells : cells[c] \in Records => info'[cells[c]] = info[cells[c]]
    BY <1>f, <1>p DEF IInv, Memory, Index, Indexed, Entries
  <2>2. \A k \in Keys, n \in Steps : Probe[k][n] \in Cells
    BY ProbeAssumption
  <2> QED BY <1>f, <2>1, <2>2 DEF IInv, Searching, Holds, Reachable
<1> QED BY <1>1, <1>2, <1>3, <1>4

-----------------------------------------------------------------------------
(* The scopes *)

\* What a scope loads is current, or is about to be retired; while the writer
\* collects, it is not retired.
LEMMA LoadedIsVisible ==
    ASSUME IInv, NEW r \in Records,
           (\E c \in Cells : cells[c] = r) \/ (\E s \in Slots : published[s] = r)
    PROVE  /\ r \in Current \cup ({prior} \ {None})
           /\ writer = "SCAN" => r \notin retired
<1>1. r \in Current \cup ({prior} \ {None})
  <2>1. CASE \E c \in Cells : cells[c] = r
    BY <2>1 DEF IInv, Index, Entries, Indexed
  <2>2. CASE \E s \in Slots : published[s] = r
    BY <2>2, Words DEF Current
  <2> QED BY <2>1, <2>2
<1>2. writer = "SCAN" => prior = None
  BY DEF IInv, Memory
<1> QED BY <1>1, <1>2 DEF IInv, Memory

\* A step of x leaves the other scopes and their reader slots alone.
Others(x) == \A y \in Scopes : y # x =>
    /\ at'[y] = at[y] /\ token'[y] = token[y] /\ entered'[y] = entered[y]
    /\ held'[y] = held[y] /\ sought'[y] = sought[y] /\ probe'[y] = probe[y]
    /\ missed'[y] = missed[y]
    /\ token[y] # 0 => readerEpochs'[token[y]] = readerEpochs[token[y]]

\* What a step of x does to its own epoch, reader slot and records.
Own(x) ==
    /\ entered'[x] \in {entered[x], epoch, 0}
    /\ at'[x] \in {"ANNOUNCE", "CONFIRM", "WITHDRAW", "IN", "PROBE"} => entered'[x] >= 1
    /\ at'[x] \in {"CONFIRM", "IN", "PROBE"} => readerEpochs'[token'[x]] = entered'[x]
    /\ at'[x] \notin {"IN", "PROBE"} => held'[x] = {}
    /\ held'[x] # {} => token'[x] = token[x] /\ entered'[x] = entered[x]
    /\ \A r \in held'[x] \ held[x] :
        r \in Records /\ ((\E c \in Cells : cells[c] = r) \/ (\E s \in Slots : published[s] = r))

\* A scope loads what is in a cell or in a published word, and nothing before it is in.
LEMMA ScopeFacts ==
    ASSUME IInv, NEW x \in Scopes, ScopeStep(x)
    PROVE  Others(x) /\ Own(x)
<1> USE DEF IInv, TypeOK, Others, Own
<1>v. /\ at[x] \in {"ANNOUNCE", "CONFIRM", "WITHDRAW", "IN", "PROBE"} => entered[x] >= 1
      /\ at[x] \in {"CONFIRM", "IN", "PROBE"} => readerEpochs[token[x]] = entered[x]
      /\ at[x] \notin {"IN", "PROBE"} => held[x] = {}
  BY DEF Views
<1>t. \A y \in Scopes : /\ token[y] # 0 => token[y] \in Table
                        /\ y # x /\ token[y] # 0 => token[y] # token[x]
  BY Words DEF Table
<1>o. at[x] # "OUT" => token[x] \in Table
  BY <1>t
<1>e. epoch >= 1
  BY Words
<1>1. ASSUME NEW i \in Table, Claim(x, i) PROVE Others(x) /\ Own(x)
  <2>1. \A y \in Scopes : token[y] # i
    BY <1>1 DEF Claim, VacantReader
  <2> QED BY <1>1, <1>v, <1>t, <2>1 DEF Claim
<1>2. CASE LoadEpoch(x)
  BY <1>2, <1>v, <1>t, <1>e DEF LoadEpoch
<1>3. CASE Announce(x)
  BY <1>3, <1>v, <1>t, <1>o DEF Announce
<1>4. CASE Confirm(x)
  BY <1>4, <1>v, <1>t DEF Confirm
<1>5. CASE Withdraw(x)
  BY <1>5, <1>v, <1>t, <1>o DEF Withdraw
<1>6. CASE Leave(x)
  BY <1>6, <1>v, <1>t, <1>o DEF Leave
<1>7. CASE LookupStep(x)
  <2>1. /\ UNCHANGED <<readerEpochs, token, entered>>
        /\ at[x] \in {"IN", "PROBE"} /\ at'[x] \in {"IN", "PROBE"}
        /\ \A y \in Scopes : y # x =>
            /\ at'[y] = at[y] /\ held'[y] = held[y] /\ sought'[y] = sought[y]
            /\ probe'[y] = probe[y] /\ missed'[y] = missed[y]
    BY <1>7 DEF LookupStep, FindBegin, FindFails, FindSucceeds, FindNext, FindReturn, Resolve
  <2>2. at[x] = "PROBE" => Probe[sought[x]][probe[x]] \in Cells
    BY ProbeAssumption DEF Searching
  <2>3. \A r \in held'[x] \ held[x] :
          r \in Records /\ ((\E c \in Cells : cells[c] = r) \/ (\E s \in Slots : published[s] = r))
    <3>1. CASE FindFails(x) \/ FindSucceeds(x) \/ FindNext(x)
      <4> DEFINE word == cells[Probe[sought[x]][probe[x]]]
      <4>1. CASE FindFails(x)
        BY <2>2, <4>1 DEF FindFails
      <4>2. CASE FindSucceeds(x)
        BY <2>2, <4>2 DEF FindSucceeds, Holds
      <4>3. CASE FindNext(x)
        BY <2>2, <4>3 DEF FindNext
      <4> QED BY <3>1, <4>1, <4>2, <4>3
    <3>2. CASE \E s \in Slots : Resolve(x, s)
      BY <3>2 DEF Resolve
    <3>3. CASE \E k \in Keys : FindBegin(x, k)
      BY <3>3 DEF FindBegin
    <3> QED BY <1>7, <3>1, <3>2, <3>3 DEF LookupStep
  <2> QED BY <1>v, <2>1, <2>3
<1> QED BY <1>1, <1>2, <1>3, <1>4, <1>5, <1>6, <1>7 DEF ScopeStep, EnterStep

\* A scope keeps its views, hides nothing from the scan and loses no key.
LEMMA ScopeKeepsReaders ==
    ASSUME IInv, NEW x \in Scopes, ScopeStep(x)
    PROVE  Views' /\ Collecting' /\ Searching'
<1>0. UNCHANGED <<publishVars, memoryVars, writerVars, pinVars>>
  BY ScopeFrame
<1>f. /\ published' = published /\ cells' = cells /\ epoch' = epoch
      /\ info' = info /\ allocated' = allocated /\ retired' = retired
      /\ retireEpoch' = retireEpoch /\ writer' = writer
      /\ prior' = prior /\ scanned' = scanned /\ oldest' = oldest
  BY <1>0 DEF publishVars, memoryVars, writerVars
<1>s. Others(x) /\ Own(x)
  BY ScopeFacts
<1>c. Current' = Current
  BY <1>f DEF Current
<1>l. \A r \in held'[x] \ held[x] :
        r \in Current \cup ({prior} \ {None}) /\ (writer = "SCAN" => r \notin retired)
  BY <1>s, LoadedIsVisible DEF Own
<1>1. Views'
  <2> USE DEF IInv, Views
  <2>1. ASSUME NEW y \in Scopes, y # x
        PROVE  /\ at'[y] = at[y] /\ token'[y] = token[y] /\ entered'[y] = entered[y] /\ held'[y] = held[y]
               /\ at[y] # "OUT" => readerEpochs'[token[y]] = readerEpochs[token[y]]
    BY <1>s, <2>1 DEF Others, TypeOK
  <2>2. /\ entered'[x] <= epoch
        /\ at'[x] \in {"ANNOUNCE", "CONFIRM", "WITHDRAW", "IN", "PROBE"} => entered'[x] >= 1
        /\ at'[x] \in {"CONFIRM", "IN", "PROBE"} => readerEpochs'[token'[x]] = entered'[x]
        /\ at'[x] \notin {"IN", "PROBE"} => held'[x] = {}
    BY <1>s, Words DEF Own, TypeOK
  <2>3. held'[x] \subseteq Current \cup ({prior} \ {None}) \cup {r \in retired : entered'[x] <= retireEpoch[r]}
    <3> SUFFICES ASSUME NEW r \in held'[x]
                 PROVE  r \in Current \cup ({prior} \ {None}) \cup {q \in retired : entered'[x] <= retireEpoch[q]}
      OBVIOUS
    <3>1. entered'[x] = entered[x]
      BY <1>s DEF Own
    <3> QED BY <1>l, <3>1
  <2> QED BY <1>f, <1>c, <2>1, <2>2, <2>3
<1>2. Collecting'
  <2> SUFFICES ASSUME writer = "SCAN", NEW y \in Scopes, token'[y] <= scanned
               PROVE  oldest <= entered'[y] \/ held'[y] \cap retired = {}
    BY <1>f DEF Collecting
  <2>1. CASE y # x
    BY <1>s, <2>1 DEF Others, IInv, Collecting
  <2>2. CASE y = x /\ held'[x] # {}
    <3>1. oldest <= entered[x] \/ held[x] \cap retired = {}
      BY <1>s, <2>2 DEF Own, IInv, Collecting
    <3> QED BY <1>s, <1>l, <2>2, <3>1 DEF Own
  <2> QED BY <2>1, <2>2
<1>3. Searching'
  <2> USE DEF IInv, Searching
  <2>h. \A k, n : (Holds(k, n) => Holds(k, n)') /\ (Reachable(k, n) => Reachable(k, n)')
    BY <1>f DEF Holds, Reachable
  <2> DEFINE Ahead(y) == \E n \in Steps : n >= probe'[y]
                /\ cells[Probe[sought'[y]][n]] \in Records
                /\ info[cells[Probe[sought'[y]][n]]].key = sought'[y]
                /\ Reachable(sought'[y], n)
  <2>1. ASSUME NEW y \in Scopes, y # x
        PROVE  /\ at'[y] # "PROBE" => probe'[y] = 0
               /\ at'[y] = "PROBE" => sought'[y] \in Keys
               /\ at'[y] = "PROBE" /\ ~missed'[y] => Ahead(y)
    BY <1>s, <2>1 DEF Others, Holds
  <2>2. ASSUME EnterStep(x) \/ Leave(x)
        PROVE  at'[x] # "PROBE" /\ probe'[x] = 0
    BY <2>2 DEF EnterStep, Claim, LoadEpoch, Announce, Confirm, Withdraw, Leave, TypeOK
  <2>3. ASSUME FindFails(x) \/ FindSucceeds(x)
        PROVE  at'[x] # "PROBE" /\ probe'[x] = 0
    BY <2>3, Words DEF FindFails, FindSucceeds, FindReturn, TypeOK
  <2>4. ASSUME NEW s \in Slots, Resolve(x, s)
        PROVE  at'[x] # "PROBE" /\ probe'[x] = 0
    BY <2>4 DEF Resolve, TypeOK
  <2>5. ASSUME NEW k \in Keys, FindBegin(x, k)
        PROVE  sought'[x] \in Keys /\ (~missed'[x] => Ahead(x))
    <3>1. /\ sought'[x] = k /\ probe'[x] = 0
          /\ missed'[x] = \A c \in Cells : cells[c] \in Records => info[cells[c]].key # k
      BY <2>5 DEF FindBegin, TypeOK
    <3>2. ASSUME ~missed'[x] PROVE Ahead(x)
      <4>1. PICK c \in Cells : cells[c] \in Records /\ info[cells[c]].key = k
        BY <3>1, <3>2
      <4>2. cells[c] \in Indexed
        BY <4>1 DEF Index, Entries
      <4>3. PICK n \in Steps : cells[Probe[k][n]] = cells[c] /\ Reachable(k, n)
        BY <4>1, <4>2 DEF Index, Placed
      <4>4. n >= 0
        BY BoundsAssumption DEF Steps
      <4> QED BY <3>1, <4>1, <4>3, <4>4
    <3> QED BY <3>1, <3>2
  <2>6. ASSUME FindNext(x)
        PROVE  sought'[x] \in Keys /\ (~missed'[x] => Ahead(x))
    <3>1. /\ at[x] = "PROBE" /\ sought' = sought /\ missed' = missed /\ probe'[x] = probe[x] + 1
          /\ ~Holds(sought[x], probe[x])
      BY <2>6 DEF FindNext, TypeOK
    <3>2. ASSUME ~missed[x] PROVE Ahead(x)
      <4>1. PICK n \in Steps : n >= probe[x] /\ Holds(sought[x], n) /\ Reachable(sought[x], n)
        BY <3>1, <3>2
      <4>2. n # probe[x] /\ n \in Int /\ probe[x] \in Int
        BY <3>1, <4>1, BoundsAssumption DEF TypeOK, Steps
      <4>3. n >= probe'[x]
        BY <3>1, <4>1, <4>2
      <4> QED BY <3>1, <4>1, <4>3 DEF Holds
    <3> QED BY <3>1, <3>2
  <2>7. /\ at'[x] # "PROBE" => probe'[x] = 0
        /\ at'[x] = "PROBE" => sought'[x] \in Keys
        /\ at'[x] = "PROBE" /\ ~missed'[x] => Ahead(x)
    <3>1. ASSUME NEW k \in Keys, FindBegin(x, k) PROVE at'[x] = "PROBE"
      BY <3>1 DEF FindBegin, TypeOK
    <3>2. FindNext(x) => at'[x] = "PROBE"
      BY DEF FindNext
    <3> HIDE DEF Ahead
    <3> QED BY <2>2, <2>3, <2>4, <2>5, <2>6, <3>1, <3>2 DEF ScopeStep, LookupStep
  <2> QED BY <1>f, <2>1, <2>7 DEF Holds, Reachable
<1> QED BY <1>1, <1>2, <1>3

-----------------------------------------------------------------------------
(* The invariant *)

\* The initial state has no records and no readers.
LEMMA InitIInv == Init => IInv
<1> SUFFICES ASSUME Init PROVE IInv
  OBVIOUS
<1>1. TypeOK
  <2>1. /\ 1 \in 1..MaxEpoch /\ 0 \in 0..MaxEpoch /\ 1 \in Generations /\ 0 \in 0..MaxReaders
        /\ Reserved \in 1..Reserved /\ 0 \in 0..Reserved /\ 0 \in 0..MaxGeneration /\ 0 \in 0..MaxPins
        /\ 0 \notin Table
    BY BoundsAssumption DEF Generations, Reserved, Table
  <2> QED BY <2>1, Words DEF Init, TypeOK
<1>2. Current = {} /\ Indexed = {}
  BY DEF Init, Current, Indexed
<1>3. Memory /\ Keyed
  BY <1>2, Words DEF Init, Memory, Keyed
<1>4. Handles
  BY DEF Init, Handles, HandlesNameOneKey
<1>5. Index
  BY <1>2, Words DEF Init, Index, Entries
<1>6. Views /\ Collecting /\ Searching
  BY DEF Init, Views, Collecting, Searching
<1>7. Pinned
  <2>1. ASSUME NEW r \in Records PROVE Cardinality(PinsOf(pinRecord, r)) = 0
    <3>1. PinsOf(pinRecord, r) = {}
      BY Words DEF Init, PinsOf
    <3> QED BY <3>1, FS_EmptySet
  <2> QED BY <2>1 DEF Init, Pinned
<1> QED BY <1>1, <1>3, <1>4, <1>5, <1>6, <1>7 DEF IInv

\* What does not change keeps what depends on it alone.
LEMMA Untouched ==
    ASSUME IInv, UNCHANGED <<publishVars, memoryVars, writerVars>>
    PROVE  /\ Memory' /\ Handles' /\ Keyed' /\ Index'
           /\ UNCHANGED pinVars => Pinned'
           /\ UNCHANGED scopeVars => Views' /\ Collecting' /\ Searching'
<1>f. /\ published' = published /\ cells' = cells /\ epoch' = epoch
      /\ info' = info /\ allocated' = allocated /\ retired' = retired
      /\ retireEpoch' = retireEpoch /\ nextGeneration' = nextGeneration /\ writer' = writer
      /\ target' = target /\ prior' = prior /\ scanned' = scanned /\ oldest' = oldest
  BY DEF publishVars, memoryVars, writerVars
<1>1. Current' = Current /\ Indexed' = Indexed
  BY <1>f DEF Current, Indexed
<1>2. Memory'
  BY <1>f, <1>1 DEF IInv, Memory
<1>3. Handles'
  BY <1>f DEF IInv, Handles, HandlesNameOneKey
<1>4. Keyed'
  BY <1>f, <1>1 DEF IInv, Keyed, TargetKey
<1>5. Index'
  BY <1>f, <1>1 DEF IInv, Index, Entries, Placed, Reachable
<1>6. UNCHANGED pinVars => Pinned'
  BY <1>f DEF IInv, Pinned, pinVars
<1>7. UNCHANGED scopeVars => Views' /\ Collecting' /\ Searching'
  BY <1>f, <1>1 DEF IInv, Views, Collecting, Searching, Holds, Reachable, scopeVars
<1> QED BY <1>2, <1>3, <1>4, <1>5, <1>6, <1>7

\* Every step keeps every part of the invariant.
LEMMA NextIInv == IInv /\ [Next]_vars => IInv'
<1> SUFFICES ASSUME IInv, [Next]_vars PROVE IInv'
  OBVIOUS
<1> USE DEF IInv
<1>1. ASSUME NEW s \in Slots, NEW r \in Records \cup {None}, Publication(s, r) PROVE IInv'
  BY <1>1, PublicationType, PublicationKeeps, PublicationKeepsReaders
<1>2. CASE UpdateIndex
  BY <1>2, UpdateIndexKeeps, UpdateIndexKeepsReaders
<1>3. CASE Advance
  BY <1>3, AdvanceKeeps, AdvanceKeepsReaders
<1>4. CASE CollectBegin \/ CollectScan
  BY <1>4, CollectKeeps, CollectKeepsReaders
<1>5. ASSUME NEW budget \in Budgets, CollectEnd(budget) PROVE IInv'
  BY <1>5, CollectEndKeeps, CollectEndKeepsReaders
<1>6. ASSUME NEW x \in Scopes, ScopeStep(x) PROVE IInv'
  BY <1>6, ScopeFrame, ScopeType, ScopeKeepsReaders, Untouched
<1>7. CASE PinStep
  BY <1>7, PinFrame, PinStepKeeps, Untouched
<1>8. CASE UNCHANGED vars
  <2>1. TypeOK'
    BY <1>8 DEF TypeOK, vars, publishVars, memoryVars, writerVars, scopeVars, pinVars
  <2> QED BY <1>8, <2>1, Untouched DEF vars
<1> QED BY <1>1, <1>2, <1>3, <1>4, <1>5, <1>6, <1>7, <1>8, StepCases

\* IInv is an invariant of the resource graph.
THEOREM Inductive == Spec => []IInv
<1>1. Init => IInv
  BY InitIInv
<1>2. IInv /\ [Next]_vars => IInv'
  BY NextIInv
<1> QED BY <1>1, <1>2, PTL DEF Spec

-----------------------------------------------------------------------------
(* The properties *)

\* Types, and the table of reader slots: a slot belongs to one scope at most.
THEOREM TypeCorrect == Spec => []TypeOK
<1>1. IInv => TypeOK
  BY DEF IInv
<1> QED BY <1>1, Inductive, PTL

\* The memory of a record is never given back under a scope that has loaded its
\* address, however publication, collection and the entering of scopes interleave.
THEOREM NoDanglingView == Spec => []HeldRecordsLive
<1>1. IInv => HeldRecordsLive
  BY HeldAllocated DEF HeldRecordsLive
<1> QED BY <1>1, Inductive, PTL

\* Nor under a provider whose pin it has not released.
THEOREM NoDanglingPin == Spec => []PinnedRecordsLive
<1>1. IInv => PinnedRecordsLive
  <2> SUFFICES ASSUME IInv, NEW g \in granted
               PROVE  g.record \in allocated /\ pinRecord[g.pin] = g.record
    BY DEF PinnedRecordsLive
  <2>1. g.pin \in Pins /\ g.record \in Records /\ pinRecord[g.pin] = g.record
    BY DEF IInv, TypeOK, Pinned
  <2> QED BY <2>1, Words DEF IInv, Pinned
<1> QED BY <1>1, Inductive, PTL

\* Between publications the index holds exactly the published records, where
\* searches arrive.
THEOREM IndexIsFaithful == Spec => []IndexFaithful
<1>1. IInv => IndexFaithful
  BY DEF IInv, Index, Indexed, Entries, Placed, IndexFaithful
<1> QED BY <1>1, Inductive, PTL

\* A handle names one key for ever.
THEOREM HandlesAreUnambiguous == Spec => []HandlesNameOneKey
<1>1. IInv => HandlesNameOneKey
  BY DEF IInv, Handles
<1> QED BY <1>1, Inductive, PTL

\* A search without a lock that comes back empty is right.
THEOREM NoFalseMiss == Spec => MissesAreReal
<1> DEFINE Real == \A x \in Scopes :
        at[x] = "PROBE" /\ at'[x] = "IN" /\ ~Holds(sought[x], probe[x]) => missed[x]
<1>1. ASSUME IInv, [Next]_vars PROVE Real
  <2> SUFFICES ASSUME NEW x \in Scopes, at[x] = "PROBE", at'[x] = "IN",
                      ~Holds(sought[x], probe[x]), ~missed[x]
               PROVE  FALSE
    OBVIOUS
  <2>1. PICK n \in Steps : n >= probe[x] /\ Holds(sought[x], n) /\ Reachable(sought[x], n)
    BY <1>1 DEF IInv, Searching
  <2>2. n # probe[x] /\ n \in 0..(CellCount - 1) /\ probe[x] \in Steps
    BY <1>1, <2>1 DEF IInv, TypeOK, Steps
  <2>3. probe[x] < n
    BY <2>1, <2>2, BoundsAssumption DEF Steps
  <2>4. cells[Probe[sought[x]][probe[x]]] # Empty
    BY <2>1, <2>2, <2>3 DEF Reachable
  <2>5. probe[x] # CellCount - 1
    BY <2>2, <2>3, BoundsAssumption
  <2>6. ~FindFails(x) /\ ~FindSucceeds(x)
    BY <2>4, <2>5 DEF FindFails, FindSucceeds
  <2>7. \E y \in Scopes : ScopeStep(y)
    <3>1. at' # at
      OBVIOUS
    <3>2. ASSUME NEW s \in Slots, NEW r \in Records \cup {None}, Publication(s, r) PROVE at' = at
      BY <3>2 DEF Publication, Exchange, scopeVars
    <3>3. ASSUME UpdateIndex \/ Advance \/ CollectBegin \/ CollectScan PROVE at' = at
      BY <3>3 DEF UpdateIndex, Advance, CollectBegin, CollectScan, scopeVars
    <3>4. ASSUME NEW budget \in Budgets, CollectEnd(budget) PROVE at' = at
      BY <3>4 DEF CollectEnd, scopeVars
    <3>5. ASSUME PinStep PROVE at' = at
      BY <3>5, PinFrame DEF scopeVars
    <3>6. ASSUME UNCHANGED vars PROVE at' = at
      BY <3>6 DEF vars, scopeVars
    <3> QED BY <1>1, <3>1, <3>2, <3>3, <3>4, <3>5, <3>6, StepCases
  <2>8. PICK y \in Scopes : ScopeStep(y)
    BY <2>7
  <2>9. y = x
    BY <1>1, <2>8, ScopeFacts DEF Others
  <2>10. ~ScopeStep(x)
    <3>1. ~EnterStep(x) /\ ~Leave(x)
      BY DEF EnterStep, Claim, LoadEpoch, Announce, Confirm, Withdraw, Leave
    <3>2. \A k \in Keys : ~FindBegin(x, k)
      BY DEF FindBegin
    <3>3. \A s \in Slots : ~Resolve(x, s)
      BY DEF Resolve
    <3>4. ~FindNext(x)
      BY DEF FindNext
    <3> QED BY <2>6, <3>1, <3>2, <3>3, <3>4 DEF ScopeStep, LookupStep
  <2> QED BY <2>8, <2>9, <2>10
<1>2. [Next]_vars /\ IInv => [Real]_vars
  BY <1>1
<1>3. Spec => [][Real]_vars
  BY <1>2, Inductive, PTL DEF Spec
<1> QED BY <1>3 DEF MissesAreReal
=============================================================================
