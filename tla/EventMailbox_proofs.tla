------------------------- MODULE EventMailbox_proofs ------------------------
(***************************************************************************)
(* Proofs about the rings of EventRings and the mailbox that moves them,   *)
(* for any rings, capacity and width of a cursor.  Every ring keeps a      *)
(* window: going round from the cached head, first the head, then the      *)
(* cached tail, then the tail come, and never more than a capacity behind  *)
(* the first of them; every place from the head to the tail and on to the  *)
(* copies in progress holds its own event.  With the window each step of a *)
(* ring is a step of the channel of EventChannel or none; the mailbox moves*)
(* its rings only by those steps, and its owner never leases two rings at  *)
(* once, nor more than the budget and the quantum of its pump.             *)
(***************************************************************************)
EXTENDS EventMailbox, TLAPS

(* The rings *)

\* The window of one ring: its four cursors, the payloads the producer has found room for and
\* those it has copied, what the consumer has reserved and looked at, and the cells.
Window(H, T, HC, TC, n, done, L, R, C) ==
    /\ H \in Cursors /\ T \in Cursors /\ HC \in Cursors /\ TC \in Cursors
    /\ n \in Nat /\ done \in Nat /\ L \in Nat /\ R \in Nat
    /\ C \in [Cells -> Cursors \cup {-1}]
    /\ Distance(HC, H) <= Distance(HC, T) /\ Distance(HC, T) + n <= Capacity /\ done <= n
    /\ Distance(H, TC) <= Distance(H, T)
    /\ R <= L /\ L <= Distance(H, TC)
    /\ \A k \in Cells : k < Distance(H, T) + done => C[Place(Plus(H, k))] = Plus(H, k)

Claimed(r) == IF producer[r].step = "copy" THEN producer[r].n ELSE 0

RingInv(r) ==
    /\ Window(head[r], tail[r], headCache[r], tailCache[r], Claimed(r), producer[r].done,
              lease[r], read[r], cell[r])
    /\ producer[r].step = "room" => producer[r].n > 0 /\ producer[r].n <= Capacity
    /\ producer[r].step # "copy" => producer[r].done = 0

RingsTyped ==
    /\ tail \in [Rings -> Cursors] /\ headCache \in [Rings -> Cursors]
    /\ head \in [Rings -> Cursors] /\ tailCache \in [Rings -> Cursors]
    /\ producer \in [Rings -> [step : {"idle", "room", "copy"}, n : Nat, done : Nat]]
    /\ lease \in [Rings -> Nat] /\ read \in [Rings -> Nat]
    /\ DOMAIN shown = Rings
    /\ cell \in [Rings -> [Cells -> Cursors \cup {-1}]]

RingsInv == RingsTyped /\ \A r \in Rings : RingInv(r)

-----------------------------------------------------------------------------
(* Arithmetic of the cursors *)

LEMMA PlusIs ==
    ASSUME NEW a \in Cursors, NEW n \in 0..Capacity
    PROVE  /\ Plus(a, n) \in Cursors
           /\ Plus(a, n) = IF a + n < Width THEN a + n ELSE a + n - Width
  <1> DEFINE x == a + n
  <1>1. x \in Nat /\ x < 2 * Width /\ Width \in Nat /\ Width > 0
      BY RingAssumption DEF Cursors
  <1> HIDE DEF x
  <1>2. x < Width => x % Width = x
      BY <1>1
  <1>3. x >= Width => x % Width = x - Width
      BY <1>1
  <1> QED
      BY <1>1, <1>2, <1>3 DEF Plus, Cursors, x

LEMMA DistanceIs ==
    ASSUME NEW a \in Cursors, NEW b \in Cursors
    PROVE  /\ Distance(a, b) \in Cursors
           /\ Distance(a, b) = IF a <= b THEN b - a ELSE b - a + Width
  <1> DEFINE x == b - a
  <1>1. x \in Int /\ x < Width /\ x + Width > 0 /\ Width \in Nat /\ Width > 0
      BY RingAssumption DEF Cursors
  <1> HIDE DEF x
  <1>2. x >= 0 => x % Width = x
      BY <1>1
  <1>3. x < 0 => x % Width = x + Width
      BY <1>1
  <1> QED
      BY <1>1, <1>2, <1>3 DEF Distance, Cursors, x

\* No multiple of the capacity lies strictly between 0 and the capacity.
LEMMA NoMultipleBetween ==
    ASSUME NEW q \in Int, NEW c \in Nat, c > 0, c * q < c, c * q > -c
    PROVE  q = 0
  <1>1. CASE q <= -1
      BY <1>1
  <1>2. CASE q >= 1
      BY <1>2
  <1> QED
      BY <1>1, <1>2

LEMMA Divided ==
    ASSUME NEW x \in Int
    PROVE  \E q \in Int, m \in Cells : x = Capacity * q + m /\ x % Capacity = m
  <1>1. x = Capacity * (x \div Capacity) + (x % Capacity) /\ x \div Capacity \in Int
      BY RingAssumption
  <1>2. x % Capacity \in Cells
      BY RingAssumption DEF Cells
  <1> QED
      BY <1>1, <1>2

LEMMA PlaceUnique ==
    ASSUME NEW x \in Int, NEW q \in Int, NEW m \in Cells, x = Capacity * q + m
    PROVE  x % Capacity = m
  <1>1. PICK p \in Int, l \in Cells : x = Capacity * p + l /\ x % Capacity = l
      BY Divided
  <1>2. Capacity * (p - q) = m - l
      BY <1>1, RingAssumption DEF Cells
  <1>3. p - q = 0
      BY <1>2, NoMultipleBetween, RingAssumption DEF Cells
  <1> QED
      BY <1>1, <1>3, RingAssumption DEF Cells

\* Two events less than a capacity apart have different places.
LEMMA PlacesDiffer ==
    ASSUME NEW a \in Nat, NEW i \in Nat, NEW j \in Nat, i < j, j < i + Capacity
    PROVE  Place(a + i) # Place(a + j)
  <1> SUFFICES ASSUME Place(a + i) = Place(a + j) PROVE FALSE
      OBVIOUS
  <1>1. PICK p \in Int, l \in Cells : a + i = Capacity * p + l /\ (a + i) % Capacity = l
      BY Divided
  <1>2. PICK q \in Int, m \in Cells : a + j = Capacity * q + m /\ (a + j) % Capacity = m
      BY Divided
  <1>3. l = m
      BY <1>1, <1>2 DEF Place
  <1>4. Capacity * (q - p) = j - i
      BY <1>1, <1>2, <1>3, RingAssumption DEF Cells
  <1>5. q - p = 0
      BY <1>4, NoMultipleBetween, RingAssumption
  <1> QED
      BY <1>4, <1>5, RingAssumption

\* A cursor that wraps stays on its place: the width is a multiple of the capacity.
LEMMA PlaceOfPlus ==
    ASSUME NEW a \in Cursors, NEW n \in 0..Capacity
    PROVE  Place(Plus(a, n)) = Place(a + n)
  <1>1. CASE a + n < Width
      BY <1>1, PlusIs
  <1>2. CASE a + n >= Width
      <2>1. Plus(a, n) = a + n - Width /\ Plus(a, n) \in Int /\ a + n \in Int
          BY <1>2, PlusIs, RingAssumption DEF Cursors
      <2>2. PICK q \in Int, m \in Cells : a + n = Capacity * q + m /\ (a + n) % Capacity = m
          BY <2>1, Divided
      <2>3. Width \in Int /\ Width % Capacity = 0
          BY RingAssumption
      <2>4. PICK p \in Int, l \in Cells : Width = Capacity * p + l /\ Width % Capacity = l
          BY <2>3, Divided
      <2>5. Width = Capacity * p
          BY <2>3, <2>4, RingAssumption
      <2>6. Capacity * p \in Int /\ Capacity * q \in Int /\ m \in Int /\ a \in Int /\ n \in Int
          BY RingAssumption DEF Cells, Cursors
      <2>7. Plus(a, n) = Capacity * q - Capacity * p + m
          BY <2>1, <2>2, <2>3, <2>5, <2>6
      <2>8. Capacity * q - Capacity * p = Capacity * (q - p) /\ q - p \in Int
          BY RingAssumption
      <2>9. Plus(a, n) % Capacity = m
          BY <2>1, <2>8, <2>7, PlaceUnique
      <2> QED
          BY <2>2, <2>9 DEF Place
  <1> QED
      BY <1>1, <1>2, RingAssumption DEF Cursors

LEMMA PlaceIsCell == ASSUME NEW x \in Nat PROVE Place(x) \in Cells
  BY RingAssumption DEF Place, Cells

LEMMA PlacesOfPlusDiffer ==
    ASSUME NEW a \in Cursors, NEW i \in Cells, NEW j \in Cells, i < j
    PROVE  Place(Plus(a, i)) # Place(Plus(a, j))
  <1>1. i \in 0..Capacity /\ j \in 0..Capacity /\ i \in Nat /\ j \in Nat /\ a \in Nat /\ j < i + Capacity
      BY RingAssumption DEF Cells, Cursors
  <1>2. Place(Plus(a, i)) = Place(a + i) /\ Place(Plus(a, j)) = Place(a + j)
      BY <1>1, PlaceOfPlus
  <1>3. Place(a + i) # Place(a + j)
      BY <1>1, PlacesDiffer
  <1> QED
      BY <1>2, <1>3

-----------------------------------------------------------------------------
(* What the steps do to a window *)

\* The distances of a window, as numbers.
LEMMA WindowDistances ==
    ASSUME NEW H, NEW T, NEW HC, NEW TC, NEW n, NEW done, NEW L, NEW R, NEW C,
           Window(H, T, HC, TC, n, done, L, R, C)
    PROVE  /\ Distance(H, T) \in Nat /\ Distance(HC, T) \in Nat /\ Distance(H, TC) \in Nat
           /\ Distance(H, T) <= Distance(HC, T)
           /\ Distance(H, T) + n <= Capacity /\ L <= Distance(H, T) /\ Distance(H, H) = 0
           /\ Capacity \in Nat /\ n \in 0..Capacity /\ done \in 0..Capacity /\ L \in 0..Capacity
  <1>1. H \in Cursors /\ T \in Cursors /\ HC \in Cursors /\ TC \in Cursors /\ H \in Nat /\ T \in Nat
        /\ HC \in Nat /\ TC \in Nat /\ H < Width /\ T < Width /\ HC < Width /\ TC < Width
      BY RingAssumption DEF Window, Cursors
  <1>2. /\ Distance(H, T) = (IF H <= T THEN T - H ELSE T - H + Width)
        /\ Distance(HC, T) = (IF HC <= T THEN T - HC ELSE T - HC + Width)
        /\ Distance(HC, H) = (IF HC <= H THEN H - HC ELSE H - HC + Width)
        /\ Distance(H, TC) = (IF H <= TC THEN TC - H ELSE TC - H + Width)
        /\ Distance(H, H) = (IF H <= H THEN H - H ELSE H - H + Width)
      BY <1>1, DistanceIs
  <1>3. /\ Distance(HC, H) <= Distance(HC, T) /\ Distance(HC, T) + n <= Capacity /\ done <= n
        /\ Distance(H, TC) <= Distance(H, T) /\ L <= Distance(H, TC)
        /\ n \in Nat /\ done \in Nat /\ L \in Nat /\ Width \in Nat /\ Capacity \in Nat
      BY RingAssumption DEF Window
  <1> QED
      BY <1>1, <1>2, <1>3

LEMMA WindowCopy ==
    ASSUME NEW H, NEW T, NEW HC, NEW TC, NEW n, NEW done, NEW L, NEW R, NEW C,
           Window(H, T, HC, TC, n, done, L, R, C), done < n
    PROVE  Window(H, T, HC, TC, n, done + 1, L, R, [C EXCEPT ![Place(Plus(T, done))] = Plus(T, done)])
  <1> DEFINE d == Distance(H, T)
  <1>1. H \in Cursors /\ T \in Cursors /\ n \in Nat /\ done \in Nat /\ done + 1 \in Nat /\ done + 1 <= n
      BY DEF Window
  <1>2. d \in Nat /\ d + n <= Capacity /\ Capacity \in Nat /\ d + done \in Cells /\ done \in 0..Capacity
        /\ d + done \in 0..Capacity
      BY <1>1, WindowDistances, RingAssumption DEF Cells
  <1>3. Plus(T, done) = Plus(H, d + done)
      <2>1. H \in Nat /\ T \in Nat /\ Width \in Nat /\ Capacity < Width /\ H < Width /\ T < Width
          BY <1>1, RingAssumption DEF Cursors
      <2>2. d = IF H <= T THEN T - H ELSE T - H + Width
          BY <1>1, DistanceIs
      <2>3. /\ Plus(T, done) = (IF T + done < Width THEN T + done ELSE T + done - Width)
            /\ Plus(H, d + done) = (IF H + (d + done) < Width THEN H + (d + done) ELSE H + (d + done) - Width)
          BY <1>1, <1>2, PlusIs
      <2> HIDE DEF d
      <2> QED
          BY <1>1, <1>2, <2>1, <2>2, <2>3
  <1>4. Plus(T, done) \in Cursors /\ Place(Plus(T, done)) \in Cells
      <2>1. Plus(T, done) \in Cursors
          BY <1>1, <1>2, PlusIs
      <2>2. Plus(T, done) \in Nat
          BY <2>1, RingAssumption DEF Cursors
      <2> QED
          BY <2>1, <2>2, PlaceIsCell
  <1> DEFINE D == [C EXCEPT ![Place(Plus(T, done))] = Plus(T, done)]
  <1>5. D \in [Cells -> Cursors \cup {-1}]
      BY <1>4 DEF Window
  <1>6. ASSUME NEW k \in Cells, k < d + (done + 1)
        PROVE  D[Place(Plus(H, k))] = Plus(H, k)
      <2>1. CASE k = d + done
          BY <1>3, <1>4, <2>1 DEF Window
      <2>2. CASE k < d + done
          <3>1. Place(Plus(H, k)) # Place(Plus(T, done))
              BY <1>1, <1>2, <1>3, <2>2, PlacesOfPlusDiffer
          <3>2. C[Place(Plus(H, k))] = Plus(H, k)
              BY <2>2 DEF Window
          <3>3. Place(Plus(H, k)) \in Cells
              <4>1. k \in 0..Capacity
                  BY <1>2 DEF Cells
              <4>2. Plus(H, k) \in Nat
                  BY <1>1, <4>1, PlusIs, RingAssumption DEF Cursors
              <4> QED
                  BY <4>2, PlaceIsCell
          <3> QED
              BY <3>1, <3>2, <3>3 DEF Window
      <2>3. k \in Nat
          BY RingAssumption DEF Cells
      <2> QED
          BY <1>1, <1>2, <1>6, <2>1, <2>2, <2>3
  <1> QED
      BY <1>1, <1>5, <1>6 DEF Window

\* Loading the cursor of the consumer.
LEMMA WindowKnownHead ==
    ASSUME NEW H, NEW T, NEW HC, NEW TC, NEW L, NEW R, NEW C, NEW known \in {H, HC},
           Window(H, T, HC, TC, 0, 0, L, R, C)
    PROVE  Window(H, T, known, TC, 0, 0, L, R, C)
  <1>1. Distance(H, T) \in Nat /\ Distance(H, T) <= Capacity /\ Distance(H, H) = 0 /\ Capacity \in Nat
      BY WindowDistances
  <1> QED
      BY <1>1 DEF Window

\* Finding room for m payloads.
LEMMA WindowClaim ==
    ASSUME NEW H, NEW T, NEW HC, NEW TC, NEW L, NEW R, NEW C, NEW m \in Nat,
           Window(H, T, HC, TC, 0, 0, L, R, C), m <= Capacity - Distance(HC, T)
    PROVE  Window(H, T, HC, TC, m, 0, L, R, C)
  <1>1. Distance(HC, T) \in Nat /\ Capacity \in Nat
      BY WindowDistances
  <1> QED
      BY <1>1 DEF Window

LEMMA WindowPublish ==
    ASSUME NEW H, NEW T, NEW HC, NEW TC, NEW n, NEW L, NEW R, NEW C,
           Window(H, T, HC, TC, n, n, L, R, C)
    PROVE  /\ Window(H, Plus(T, n), HC, TC, 0, 0, L, R, C)
           /\ Distance(H, Plus(T, n)) = Distance(H, T) + n
  <1>1. /\ Distance(H, T) \in Nat /\ Distance(HC, T) \in Nat /\ Distance(H, T) <= Distance(HC, T)
        /\ Capacity \in Nat /\ n \in 0..Capacity /\ n \in Nat
      BY WindowDistances
  <1>2. /\ H \in Cursors /\ T \in Cursors /\ HC \in Cursors /\ H \in Nat /\ T \in Nat /\ HC \in Nat
        /\ H < Width /\ T < Width /\ HC < Width /\ Width \in Nat /\ Capacity < Width
        /\ Distance(HC, T) + n <= Capacity
      BY RingAssumption DEF Window, Cursors
  <1>3. Plus(T, n) \in Cursors /\ Plus(T, n) \in Nat
        /\ Plus(T, n) = (IF T + n < Width THEN T + n ELSE T + n - Width)
      BY <1>1, <1>2, PlusIs DEF Cursors
  <1>4. /\ Distance(H, T) = (IF H <= T THEN T - H ELSE T - H + Width)
        /\ Distance(HC, T) = (IF HC <= T THEN T - HC ELSE T - HC + Width)
        /\ Distance(H, Plus(T, n)) = (IF H <= Plus(T, n) THEN Plus(T, n) - H ELSE Plus(T, n) - H + Width)
        /\ Distance(HC, Plus(T, n)) = (IF HC <= Plus(T, n) THEN Plus(T, n) - HC ELSE Plus(T, n) - HC + Width)
      BY <1>2, <1>3, DistanceIs
  <1>5. Distance(H, Plus(T, n)) = Distance(H, T) + n /\ Distance(HC, Plus(T, n)) = Distance(HC, T) + n
      BY <1>1, <1>2, <1>3, <1>4
  <1>6. Distance(HC, H) \in Nat /\ Distance(H, TC) \in Nat /\ Distance(HC, H) <= Distance(HC, T)
        /\ Distance(H, TC) <= Distance(H, T)
      BY <1>2, DistanceIs, RingAssumption DEF Window, Cursors
  <1>7. Distance(HC, H) <= Distance(HC, T) + n /\ Distance(H, TC) <= Distance(H, T) + n
        /\ Distance(HC, T) + n + 0 <= Capacity
      BY <1>1, <1>2, <1>6
  <1> QED
      BY <1>1, <1>3, <1>5, <1>7 DEF Window

\* Loading the cursor of the producer, and reserving m events.
LEMMA WindowAcquire ==
    ASSUME NEW H, NEW T, NEW HC, NEW TC, NEW n, NEW done, NEW R, NEW C, NEW known \in {T, TC},
           Window(H, T, HC, TC, n, done, 0, R, C), NEW m \in Nat, m <= Distance(H, known)
    PROVE  Window(H, T, HC, known, n, done, m, R, C)
  <1>1. Distance(H, T) \in Nat
      BY WindowDistances
  <1>2. R \in Nat /\ R <= 0
      BY DEF Window
  <1> QED
      BY <1>1, <1>2 DEF Window

\* The next event of a lease is there, as it was enqueued.
LEMMA WindowLook ==
    ASSUME NEW H, NEW T, NEW HC, NEW TC, NEW n, NEW done, NEW L, NEW R, NEW C,
           Window(H, T, HC, TC, n, done, L, R, C), R < L
    PROVE  /\ Window(H, T, HC, TC, n, done, L, R + 1, C)
           /\ C[Place(H + R)] = Plus(H, R) /\ R < Distance(H, T)
  <1>1. Distance(H, T) \in Nat /\ L <= Distance(H, T) /\ Distance(H, T) + n <= Capacity /\ Capacity \in Nat
      BY WindowDistances
  <1>2. R \in Nat /\ L \in Nat /\ n \in Nat /\ done \in Nat /\ H \in Cursors /\ R + 1 \in Nat /\ R + 1 <= L
      BY DEF Window
  <1>3. R \in Cells /\ R \in 0..Capacity /\ R < Distance(H, T) + done
      BY <1>1, <1>2 DEF Cells
  <1>4. C[Place(Plus(H, R))] = Plus(H, R)
      BY <1>3 DEF Window
  <1>5. Place(Plus(H, R)) = Place(H + R)
      BY <1>2, <1>3, PlaceOfPlus
  <1> QED
      BY <1>1, <1>2, <1>4, <1>5 DEF Window

LEMMA WindowCommit ==
    ASSUME NEW H, NEW T, NEW HC, NEW TC, NEW n, NEW done, NEW L, NEW R, NEW C, NEW m \in Nat,
           Window(H, T, HC, TC, n, done, L, R, C), m <= L
    PROVE  /\ Window(Plus(H, m), T, HC, TC, n, done, 0, 0, C)
           /\ Distance(Plus(H, m), T) = Distance(H, T) - m /\ m <= Distance(H, T)
  <1>1. /\ Distance(H, T) \in Nat /\ Distance(HC, T) \in Nat /\ Distance(H, T) <= Distance(HC, T)
        /\ Distance(H, TC) \in Nat /\ Capacity \in Nat /\ Distance(H, T) + n <= Capacity
        /\ L <= Distance(H, T) /\ L \in Nat /\ L <= Distance(H, TC) /\ Distance(H, TC) <= Distance(H, T)
        /\ n \in Nat /\ done \in Nat /\ done <= n
      BY WindowDistances DEF Window
  <1>2. /\ H \in Cursors /\ T \in Cursors /\ HC \in Cursors /\ TC \in Cursors
        /\ H \in Nat /\ T \in Nat /\ HC \in Nat /\ TC \in Nat
        /\ H < Width /\ T < Width /\ HC < Width /\ TC < Width /\ Width \in Nat /\ Capacity < Width
        /\ Distance(HC, H) <= Distance(HC, T)
      BY RingAssumption DEF Window, Cursors
  <1>3. m \in 0..Capacity
      BY <1>1
  <1> DEFINE G == Plus(H, m)
  <1>4. G \in Cursors /\ G \in Nat /\ G < Width /\ G = (IF H + m < Width THEN H + m ELSE H + m - Width)
      BY <1>2, <1>3, PlusIs DEF Cursors
  <1> HIDE DEF G
  <1>5. /\ Distance(H, T) = (IF H <= T THEN T - H ELSE T - H + Width)
        /\ Distance(H, TC) = (IF H <= TC THEN TC - H ELSE TC - H + Width)
        /\ Distance(HC, T) = (IF HC <= T THEN T - HC ELSE T - HC + Width)
        /\ Distance(HC, H) = (IF HC <= H THEN H - HC ELSE H - HC + Width)
      BY <1>2, DistanceIs
  <1>6. /\ Distance(G, T) = (IF G <= T THEN T - G ELSE T - G + Width)
        /\ Distance(G, TC) = (IF G <= TC THEN TC - G ELSE TC - G + Width)
        /\ Distance(HC, G) = (IF HC <= G THEN G - HC ELSE G - HC + Width)
      BY <1>2, <1>4, DistanceIs
  <1>7. Distance(G, T) = Distance(H, T) - m
      BY <1>1, <1>2, <1>4, <1>5, <1>6
  <1>8. Distance(G, TC) = Distance(H, TC) - m
      BY <1>1, <1>2, <1>4, <1>5, <1>6
  <1>9. Distance(HC, G) <= Distance(HC, T)
      BY <1>1, <1>2, <1>4, <1>5, <1>6
  <1>10. ASSUME NEW k \in Cells, k < Distance(G, T) + done
         PROVE  C[Place(Plus(G, k))] = Plus(G, k)
      <2>1. k \in Nat /\ m + k < Distance(H, T) + done /\ m + k \in Cells
          BY <1>1, <1>7, <1>10 DEF Cells
      <2>2. k \in 0..Capacity /\ m + k \in 0..Capacity
          BY <1>1, <2>1 DEF Cells
      <2>3. /\ Plus(G, k) = (IF G + k < Width THEN G + k ELSE G + k - Width)
            /\ Plus(H, m + k) = (IF H + (m + k) < Width THEN H + (m + k) ELSE H + (m + k) - Width)
          BY <1>2, <1>4, <2>2, PlusIs
      <2>4. Plus(G, k) = Plus(H, m + k)
          BY <1>1, <1>2, <1>4, <2>1, <2>2, <2>3
      <2> QED
          BY <2>1, <2>4 DEF Window
  <1>11. Distance(G, TC) <= Distance(G, T) /\ Distance(G, TC) >= 0 /\ m <= Distance(H, T)
      BY <1>1, <1>7, <1>8
  <1> QED
      BY <1>4, <1>7, <1>9, <1>10, <1>11 DEF Window, G

-----------------------------------------------------------------------------
(* The steps of a ring *)

\* What the channel sees of the rings.
Counts == [r \in Rings |-> Distance(head[r], tail[r])]
ChannelStep == Channel!ChannelNext \/ UNCHANGED <<head, Counts, read, shown>>

Same(q) ==
    /\ tail'[q] = tail[q] /\ headCache'[q] = headCache[q] /\ producer'[q] = producer[q]
    /\ head'[q] = head[q] /\ tailCache'[q] = tailCache[q]
    /\ lease'[q] = lease[q] /\ read'[q] = read[q] /\ cell'[q] = cell[q]

\* A ring that does not move keeps its window.
LEMMA OthersHold ==
    ASSUME RingsInv, RingsTyped', NEW r \in Rings, RingInv(r)', \A q \in Rings : q # r => Same(q)
    PROVE  RingsInv'
  <1>1. ASSUME NEW q \in Rings, q # r PROVE RingInv(q)'
      BY <1>1 DEF RingsInv, RingInv, Claimed, Same
  <1> QED
      BY <1>1 DEF RingsInv

\* Nothing the channel knows of moves.
LEMMA Unseen ==
    ASSUME UNCHANGED <<head, tail, read, shown>>
    PROVE  ChannelStep
  BY DEF ChannelStep, Counts

\* The channel sees the events of one ring change.
LEMMA CountsMove ==
    ASSUME NEW r \in Rings, NEW v,
           \A q \in Rings : Distance(head[q], tail[q])' = IF q = r THEN v ELSE Distance(head[q], tail[q])
    PROVE  Counts' = [Counts EXCEPT ![r] = v]
  <1>1. Counts' = [q \in Rings |-> Distance(head[q], tail[q])']
      BY DEF Counts
  <1>2. [Counts EXCEPT ![r] = v] = [q \in Rings |-> IF q = r THEN v ELSE Distance(head[q], tail[q])]
      BY DEF Counts
  <1> QED
      BY <1>1, <1>2

LEMMA InitHolds == RingsInit => RingsInv /\ Channel!ChannelInit
  <1> SUFFICES ASSUME RingsInit PROVE RingsInv /\ Channel!ChannelInit
      OBVIOUS
  <1>1. 0 \in Cursors /\ Distance(0, 0) = 0
      <2>1. 0 \in Cursors
          BY RingAssumption DEF Cursors
      <2> QED
          BY <2>1, DistanceIs
  <1>2. RingsTyped
      BY <1>1 DEF RingsInit, RingsTyped, Idle
  <1>3. ASSUME NEW r \in Rings PROVE RingInv(r)
      <2>1. /\ head[r] = 0 /\ tail[r] = 0 /\ headCache[r] = 0 /\ tailCache[r] = 0 /\ producer[r] = Idle
            /\ lease[r] = 0 /\ read[r] = 0 /\ Claimed(r) = 0
          BY DEF RingsInit, Idle, Claimed
      <2>2. ~ \E k \in Cells : k < 0 + 0
          BY RingAssumption DEF Cells
      <2>3. cell[r] \in [Cells -> Cursors \cup {-1}]
          BY <1>2 DEF RingsTyped
      <2>4. Window(0, 0, 0, 0, 0, 0, 0, 0, cell[r])
          BY <1>1, <2>2, <2>3, RingAssumption DEF Window
      <2> QED
          BY <2>1, <2>4 DEF RingInv, Idle
  <1>4. Channel!ChannelInit
      BY <1>1 DEF RingsInit, Channel!ChannelInit
  <1> QED
      BY <1>2, <1>3, <1>4 DEF RingsInv

LEMMA OfferHolds ==
    ASSUME RingsInv, NEW r \in Rings, NEW n \in 1..Capacity, Offer(r, n)
    PROVE  RingsInv' /\ ChannelStep
  <1>1. producer' = [producer EXCEPT ![r] = [step |-> "room", n |-> n, done |-> 0]] /\ n > 0 /\ n <= Capacity
        /\ n \in Nat /\ producer[r].step = "idle"
        /\ UNCHANGED <<tail, headCache, head, tailCache, lease, read, shown, cell>>
      BY RingAssumption DEF Offer
  <1>2. RingsTyped'
      BY <1>1 DEF RingsInv, RingsTyped
  <1>3. producer'[r] = [step |-> "room", n |-> n, done |-> 0] /\ \A q \in Rings : q # r => producer'[q] = producer[q]
      BY <1>1 DEF RingsInv, RingsTyped
  <1>4. Window(head[r], tail[r], headCache[r], tailCache[r], 0, 0, lease[r], read[r], cell[r])
      BY <1>1 DEF RingsInv, RingInv, Claimed
  <1>5. RingInv(r)'
      BY <1>1, <1>3, <1>4 DEF RingInv, Claimed
  <1>6. \A q \in Rings : q # r => Same(q)
      BY <1>1, <1>3 DEF Same
  <1> QED
      BY <1>1, <1>2, <1>5, <1>6, OthersHold, Unseen

LEMMA FindRoomHolds ==
    ASSUME RingsInv, NEW r \in Rings, FindRoom(r)
    PROVE  RingsInv' /\ ChannelStep
  <1> DEFINE n == producer[r].n
             known == KnownHead(r, n)
             room == Capacity - Distance(known, tail[r])
             next == IF room <= 0 THEN Idle ELSE [step |-> "copy", n |-> Least(n, room), done |-> 0]
  <1>1. /\ producer[r].step = "room" /\ headCache' = [headCache EXCEPT ![r] = known]
        /\ producer' = [producer EXCEPT ![r] = next]
        /\ UNCHANGED <<tail, head, tailCache, lease, read, shown, cell>>
      BY DEF FindRoom
  <1>2. Window(head[r], tail[r], headCache[r], tailCache[r], 0, 0, lease[r], read[r], cell[r])
        /\ n \in Nat /\ n > 0
      BY <1>1 DEF RingsInv, RingInv, Claimed, RingsTyped
  <1>3. known \in {head[r], headCache[r]}
      BY DEF KnownHead
  <1>4. Window(head[r], tail[r], known, tailCache[r], 0, 0, lease[r], read[r], cell[r])
      <2> HIDE DEF known
      <2> QED
          BY <1>2, <1>3, WindowKnownHead
  <1>5. known \in Cursors /\ room \in Int /\ Distance(known, tail[r]) \in Nat
      <2> HIDE DEF known
      <2>1. Distance(known, tail[r]) \in Nat /\ Capacity \in Nat
          BY <1>4, WindowDistances
      <2> QED
          BY <1>4, <2>1 DEF Window
  <1>6. /\ next \in [step : {"idle", "room", "copy"}, n : Nat, done : Nat]
        /\ next.step # "room" /\ next.done = 0
        /\ next.step = "copy" => next.n <= room
      <2> HIDE DEF known, room, n
      <2> QED
          BY <1>2, <1>5 DEF Idle, Least
  <1>7. RingsTyped' /\ producer'[r] = next /\ headCache'[r] = known
        /\ \A q \in Rings : q # r => producer'[q] = producer[q] /\ headCache'[q] = headCache[q]
      <2> HIDE DEF known, next
      <2> QED
          BY <1>1, <1>5, <1>6 DEF RingsInv, RingsTyped
  <1>8. RingInv(r)'
      <2> DEFINE m == IF next.step = "copy" THEN next.n ELSE 0
      <2>1. (m \in Nat /\ m <= room) \/ m = 0
          BY <1>6
      <2>2. Window(head[r], tail[r], known, tailCache[r], m, 0, lease[r], read[r], cell[r])
          <3> HIDE DEF known, m
          <3> QED
              BY <1>4, <2>1, WindowClaim
      <2> HIDE DEF known, next
      <2> QED
          BY <1>1, <1>6, <1>7, <2>2 DEF RingInv, Claimed
  <1>9. \A q \in Rings : q # r => Same(q)
      BY <1>1, <1>7 DEF Same
  <1> QED
      BY <1>1, <1>7, <1>8, <1>9, OthersHold, Unseen

LEMMA CopyHolds ==
    ASSUME RingsInv, NEW r \in Rings, Copy(r)
    PROVE  RingsInv' /\ ChannelStep
  <1> DEFINE event == Plus(tail[r], producer[r].done)
             cells == [cell[r] EXCEPT ![Place(event)] = event]
  <1>1. /\ producer[r].step = "copy" /\ producer[r].done < producer[r].n
        /\ cell' = [cell EXCEPT ![r] = cells]
        /\ producer' = [producer EXCEPT ![r].done = @ + 1]
        /\ UNCHANGED <<tail, headCache, head, tailCache, lease, read, shown>>
      BY DEF Copy
  <1> HIDE DEF cells
  <1>2. Window(head[r], tail[r], headCache[r], tailCache[r], producer[r].n, producer[r].done,
               lease[r], read[r], cell[r])
      BY <1>1 DEF RingsInv, RingInv, Claimed
  <1>3. Window(head[r], tail[r], headCache[r], tailCache[r], producer[r].n, producer[r].done + 1,
               lease[r], read[r], cells)
      BY <1>1, <1>2, WindowCopy DEF cells
  <1>4. cells \in [Cells -> Cursors \cup {-1}]
      BY <1>3 DEF Window
  <1>5. /\ producer' \in [Rings -> [step : {"idle", "room", "copy"}, n : Nat, done : Nat]]
        /\ producer'[r].step = "copy" /\ producer'[r].n = producer[r].n
        /\ producer'[r].done = producer[r].done + 1
        /\ \A q \in Rings : q # r => producer'[q] = producer[q]
      BY <1>1 DEF RingsInv, RingsTyped
  <1>6. /\ cell' \in [Rings -> [Cells -> Cursors \cup {-1}]] /\ cell'[r] = cells
        /\ \A q \in Rings : q # r => cell'[q] = cell[q]
      BY <1>1, <1>4 DEF RingsInv, RingsTyped
  <1>7. RingsTyped'
      BY <1>1, <1>5, <1>6 DEF RingsInv, RingsTyped
  <1>8. RingInv(r)'
      BY <1>1, <1>3, <1>5, <1>6 DEF RingInv, Claimed
  <1>9. \A q \in Rings : q # r => Same(q)
      BY <1>1, <1>5, <1>6 DEF Same
  <1> QED
      BY <1>1, <1>7, <1>8, <1>9, OthersHold, Unseen

\* The payloads become events of the channel at the release of the cursor.
LEMMA PublishHolds ==
    ASSUME RingsInv, NEW r \in Rings, Publish(r)
    PROVE  RingsInv' /\ ChannelStep
  <1> DEFINE n == producer[r].n
             to == Plus(tail[r], n)
  <1>1. /\ producer[r].step = "copy" /\ producer[r].done = n
        /\ tail' = [tail EXCEPT ![r] = to] /\ producer' = [producer EXCEPT ![r] = Idle]
        /\ UNCHANGED <<headCache, head, tailCache, lease, read, shown, cell>>
      BY DEF Publish
  <1>2. Window(head[r], tail[r], headCache[r], tailCache[r], n, n, lease[r], read[r], cell[r])
      BY <1>1 DEF RingsInv, RingInv, Claimed
  <1>3. /\ Window(head[r], to, headCache[r], tailCache[r], 0, 0, lease[r], read[r], cell[r])
        /\ Distance(head[r], to) = Distance(head[r], tail[r]) + n
        /\ Distance(head[r], tail[r]) \in Nat /\ Distance(head[r], tail[r]) + n <= Capacity /\ n \in 0..Capacity
      BY <1>2, WindowPublish, WindowDistances
  <1> HIDE DEF n, to
  <1>4. to \in Cursors
      BY <1>3 DEF Window
  <1>5. /\ RingsTyped' /\ tail'[r] = to /\ producer'[r] = Idle
        /\ \A q \in Rings : q # r => tail'[q] = tail[q] /\ producer'[q] = producer[q]
      BY <1>1, <1>4 DEF RingsInv, RingsTyped, Idle
  <1>6. RingInv(r)'
      BY <1>1, <1>3, <1>5 DEF RingInv, Claimed, Idle
  <1>7. \A q \in Rings : q # r => Same(q)
      BY <1>1, <1>5 DEF Same
  <1>8. Channel!Accept(r, n)
      <2>1. \A q \in Rings : Distance(head[q], tail[q])' =
                IF q = r THEN Counts[r] + n ELSE Distance(head[q], tail[q])
          BY <1>1, <1>3, <1>5 DEF Counts
      <2>3. Counts' = [Counts EXCEPT ![r] = @ + n]
          BY <2>1, CountsMove
      <2>2. Counts[r] + n <= Capacity
          BY <1>3 DEF Counts
      <2> QED
          BY <1>1, <2>2, <2>3 DEF Channel!Accept, Counts
  <1>9. ChannelStep
      BY <1>3, <1>8 DEF ChannelStep, Channel!ChannelNext
  <1> QED
      BY <1>5, <1>6, <1>7, <1>9, OthersHold

LEMMA AcquireHolds ==
    ASSUME RingsInv, NEW r \in Rings, NEW limit \in 1..Capacity, Acquire(r, limit)
    PROVE  RingsInv' /\ ChannelStep
  <1> DEFINE known == KnownTail(r, limit)
             m == Least(Distance(head[r], known), limit)
  <1>1. /\ lease[r] = 0 /\ tailCache' = [tailCache EXCEPT ![r] = known] /\ lease' = [lease EXCEPT ![r] = m]
        /\ UNCHANGED <<tail, headCache, producer, head, read, shown, cell>>
      BY DEF Acquire
  <1>2. Window(head[r], tail[r], headCache[r], tailCache[r], Claimed(r), producer[r].done, 0, read[r], cell[r])
      BY <1>1 DEF RingsInv, RingInv
  <1>3. known \in {tail[r], tailCache[r]}
      BY DEF KnownTail
  <1> HIDE DEF known
  <1>4. known \in Cursors /\ Distance(head[r], known) \in Nat
      <2>1. head[r] \in Cursors /\ known \in Cursors
          BY <1>2, <1>3 DEF Window
      <2>2. Distance(head[r], known) \in Cursors
          BY <2>1, DistanceIs
      <2> QED
          BY <2>1, <2>2, RingAssumption DEF Cursors
  <1>5. m \in Nat /\ m <= Distance(head[r], known)
      BY <1>4, RingAssumption DEF Least
  <1> HIDE DEF m
  <1>6. Window(head[r], tail[r], headCache[r], known, Claimed(r), producer[r].done, m, read[r], cell[r])
      BY <1>2, <1>3, <1>5, WindowAcquire
  <1>7. /\ RingsTyped' /\ tailCache'[r] = known /\ lease'[r] = m
        /\ \A q \in Rings : q # r => tailCache'[q] = tailCache[q] /\ lease'[q] = lease[q]
      BY <1>1, <1>4, <1>5 DEF RingsInv, RingsTyped
  <1>8. RingInv(r)'
      BY <1>1, <1>6, <1>7 DEF RingsInv, RingInv, Claimed
  <1>9. \A q \in Rings : q # r => Same(q)
      BY <1>1, <1>7 DEF Same
  <1> QED
      BY <1>1, <1>7, <1>8, <1>9, OthersHold, Unseen

\* What the consumer looks at is the event whose turn it is.
LEMMA LookHolds ==
    ASSUME RingsInv, NEW r \in Rings, Look(r)
    PROVE  RingsInv' /\ ChannelStep
  <1>1. /\ read[r] < lease[r] /\ shown' = [shown EXCEPT ![r] = cell[r][Place(head[r] + read[r])]]
        /\ read' = [read EXCEPT ![r] = @ + 1]
        /\ UNCHANGED <<tail, headCache, producer, head, tailCache, lease, cell>>
      BY DEF Look
  <1>2. Window(head[r], tail[r], headCache[r], tailCache[r], Claimed(r), producer[r].done,
               lease[r], read[r], cell[r])
      BY DEF RingsInv, RingInv
  <1>3. /\ Window(head[r], tail[r], headCache[r], tailCache[r], Claimed(r), producer[r].done,
                  lease[r], read[r] + 1, cell[r])
        /\ cell[r][Place(head[r] + read[r])] = Plus(head[r], read[r])
        /\ read[r] < Distance(head[r], tail[r])
      BY <1>1, <1>2, WindowLook
  <1>4. /\ RingsTyped' /\ read'[r] = read[r] + 1 /\ \A q \in Rings : q # r => read'[q] = read[q]
      BY <1>1 DEF RingsInv, RingsTyped
  <1>5. RingInv(r)'
      BY <1>1, <1>3, <1>4 DEF RingsInv, RingInv, Claimed
  <1>6. \A q \in Rings : q # r => Same(q)
      BY <1>1, <1>4 DEF Same
  <1>7. Channel!Show(r)
      <2>1. UNCHANGED <<head, Counts>> /\ read[r] < Counts[r]
          BY <1>1, <1>3 DEF Counts
      <2>2. shown' = [shown EXCEPT ![r] = (head[r] + read[r]) % Width]
          BY <1>1, <1>3 DEF Plus
      <2> QED
          BY <1>1, <2>1, <2>2 DEF Channel!Show, Counts
  <1>8. ChannelStep
      BY <1>7 DEF ChannelStep, Channel!ChannelNext
  <1> QED
      BY <1>4, <1>5, <1>6, <1>8, OthersHold

LEMMA CommitHolds ==
    ASSUME RingsInv, NEW r \in Rings, NEW n \in 0..Capacity, Commit(r, n)
    PROVE  RingsInv' /\ ChannelStep
  <1> DEFINE to == Plus(head[r], n)
  <1>1. /\ n <= lease[r] /\ n \in Nat /\ head' = [head EXCEPT ![r] = to]
        /\ lease' = [lease EXCEPT ![r] = 0] /\ read' = [read EXCEPT ![r] = 0]
        /\ UNCHANGED <<tail, headCache, producer, tailCache, shown, cell>>
      BY RingAssumption DEF Commit
  <1>2. Window(head[r], tail[r], headCache[r], tailCache[r], Claimed(r), producer[r].done,
               lease[r], read[r], cell[r])
      BY DEF RingsInv, RingInv
  <1>3. /\ Window(to, tail[r], headCache[r], tailCache[r], Claimed(r), producer[r].done, 0, 0, cell[r])
        /\ Distance(to, tail[r]) = Distance(head[r], tail[r]) - n /\ n <= Distance(head[r], tail[r])
      BY <1>1, <1>2, WindowCommit
  <1>4. to \in Cursors
      BY <1>3 DEF Window
  <1>5. Channel!GiveBack(r, n)
      <2>1. head' = [head EXCEPT ![r] = (@ + n) % Width]
          BY <1>1 DEF Plus
      <2> HIDE DEF to
      <2>2. \A q \in Rings : Distance(head[q], tail[q])' =
                IF q = r THEN Counts[r] - n ELSE Distance(head[q], tail[q])
          BY <1>1, <1>3 DEF Counts, RingsInv, RingsTyped
      <2>3. Counts' = [Counts EXCEPT ![r] = @ - n]
          BY <2>2, CountsMove
      <2>4. n <= Counts[r]
          BY <1>3 DEF Counts
      <2> QED
          BY <1>1, <2>1, <2>3, <2>4 DEF Channel!GiveBack, Counts
  <1>6. ChannelStep
      BY <1>5 DEF ChannelStep, Channel!ChannelNext
  <1> HIDE DEF to
  <1>7. /\ RingsTyped' /\ head'[r] = to /\ lease'[r] = 0 /\ read'[r] = 0
        /\ \A q \in Rings : q # r => head'[q] = head[q] /\ lease'[q] = lease[q] /\ read'[q] = read[q]
      BY <1>1, <1>4 DEF RingsInv, RingsTyped
  <1>8. RingInv(r)'
      BY <1>1, <1>3, <1>7 DEF RingsInv, RingInv, Claimed
  <1>9. \A q \in Rings : q # r => Same(q)
      BY <1>1, <1>7 DEF Same
  <1> QED
      BY <1>6, <1>7, <1>8, <1>9, OthersHold

\* Stopping rings moves no event.
LEMMA QuietHolds ==
    ASSUME RingsInv, UNCHANGED <<tail, headCache, producer, head, tailCache, lease, read, shown, cell>>
    PROVE  RingsInv' /\ ChannelStep
  <1>1. RingsInv'
      BY DEF RingsInv, RingsTyped, RingInv, Claimed
  <1> QED
      BY <1>1, Unseen

LEMMA ProducerStepHolds ==
    ASSUME RingsInv, NEW r \in Rings, ProducerStep(r)
    PROVE  RingsInv' /\ ChannelStep
  BY FindRoomHolds, CopyHolds, PublishHolds DEF ProducerStep

LEMMA RingStepHolds ==
    ASSUME RingsInv, NEW r \in Rings, RingStep(r)
    PROVE  RingsInv' /\ ChannelStep
  <1>1. CASE Stop(r)
      BY <1>1, QuietHolds DEF Stop
  <1> QED
      BY <1>1, OfferHolds, ProducerStepHolds, AcquireHolds, LookHolds, CommitHolds DEF RingStep

\* Every ring is a bounded channel, for any capacity and width of its cursors, and also when a
\* lease is given back in part (SIRSPSCEventRing).
THEOREM RingsAreChannels == RingsSpec => ImplementsChannel
  <1>1. RingsInv /\ [\E r \in Rings : RingStep(r)]_ringVars => RingsInv' /\ ChannelStep
      <2>1. CASE \E r \in Rings : RingStep(r)
          BY <2>1, RingStepHolds
      <2>2. CASE UNCHANGED ringVars
          BY <2>2, QuietHolds DEF ringVars
      <2> QED
          BY <2>1, <2>2
  <1>2. ChannelStep => [Channel!ChannelNext]_<<head, Counts, read, shown>>
      BY DEF ChannelStep
  <1> QED
      BY InitHolds, <1>1, <1>2, PTL DEF RingsSpec, ImplementsChannel, Channel!ChannelSpec, Counts

-----------------------------------------------------------------------------
(* The mailbox *)

PumpTyped ==
    /\ registered \in 0..Producers /\ cursor \in Nat
    /\ pump \in [on : BOOLEAN, start : Nat, i : Nat, budget : Nat, quantum : Nat, delivered : Nat]
    /\ pump.on => sealed /\ pump.budget > 0 /\ pump.quantum > 0

MailboxInv == RingsInv /\ PumpTyped /\ LeasesBelongToTurn

LEMMA TurnIsARing ==
    ASSUME PumpTyped, Continues
    PROVE  Turn \in Rings /\ Turn \in Nat /\ registered \in Nat \ {0}
  <1>1. registered \in Nat \ {0} /\ registered <= Producers /\ Producers \in Nat
        /\ pump.start + pump.i \in Nat
      BY MailboxAssumption DEF PumpTyped, Continues
  <1>2. (pump.start + pump.i) % registered \in 0..(registered - 1)
      BY <1>1
  <1> QED
      BY <1>1, <1>2, MailboxAssumption DEF Turn

LEMMA NextTurnTyped ==
    ASSUME PumpTyped, Continues, NEW n \in Nat, NextTurn(n)
    PROVE  /\ cursor' \in Nat /\ pump'.on
           /\ pump' \in [on : BOOLEAN, start : Nat, i : Nat, budget : Nat, quantum : Nat, delivered : Nat]
           /\ pump'.budget = pump.budget /\ pump'.quantum = pump.quantum
  <1>1. Turn + 1 \in Nat /\ registered \in Nat \ {0}
      BY TurnIsARing
  <1>2. (Turn + 1) % registered \in Nat
      BY <1>1
  <1>3. pump' = [on |-> pump.on, start |-> pump.start, i |-> pump.i + 1, budget |-> pump.budget,
                 quantum |-> pump.quantum, delivered |-> pump.delivered + n]
      BY DEF NextTurn, PumpTyped
  <1>4. /\ pump.on \in BOOLEAN /\ pump.start \in Nat /\ pump.i + 1 \in Nat /\ pump.budget \in Nat
        /\ pump.quantum \in Nat /\ pump.delivered + n \in Nat
      BY DEF PumpTyped
  <1>5. pump' \in [on : BOOLEAN, start : Nat, i : Nat, budget : Nat, quantum : Nat, delivered : Nat]
      BY <1>3, <1>4
  <1>6. cursor' \in Nat
      BY <1>2 DEF NextTurn
  <1>7. pump'.on /\ pump'.budget = pump.budget /\ pump'.quantum = pump.quantum
      BY <1>3 DEF Continues
  <1> QED
      BY <1>5, <1>6, <1>7

LEMMA NextTurnHolds ==
    ASSUME PumpTyped, Continues, NEW n \in Nat, NextTurn(n), UNCHANGED <<registered, sealed>>
    PROVE  PumpTyped'
  <1>1. pump.on /\ sealed /\ pump.budget > 0 /\ pump.quantum > 0 /\ registered \in 0..Producers
      BY DEF PumpTyped, Continues
  <1>2. /\ cursor' \in Nat
        /\ pump' \in [on : BOOLEAN, start : Nat, i : Nat, budget : Nat, quantum : Nat, delivered : Nat]
        /\ pump'.budget = pump.budget /\ pump'.quantum = pump.quantum
      BY NextTurnTyped
  <1> QED
      BY <1>1, <1>2 DEF PumpTyped

\* While no ring is leased it does not matter whose turn it is.
LEMMA NothingLeased ==
    ASSUME \A r \in Rings : lease'[r] = 0
    PROVE  LeasesBelongToTurn'
  BY DEF LeasesBelongToTurn

LEMMA LeasesTyped ==
    ASSUME RingsInv, NEW r \in Rings
    PROVE  lease[r] \in 0..Capacity /\ lease[r] \in Nat /\ Distance(head[r], tail[r]) \in Nat
  BY WindowDistances, RingAssumption DEF RingsInv, RingInv

LEMMA InitHoldsForMailbox == MailboxInit => MailboxInv /\ Channel!ChannelInit
  <1> SUFFICES ASSUME MailboxInit PROVE MailboxInv /\ Channel!ChannelInit
      OBVIOUS
  <1>1. RingsInv /\ Channel!ChannelInit
      BY InitHolds DEF MailboxInit
  <1>2. PumpTyped
      BY MailboxAssumption DEF MailboxInit, PumpTyped, NoPump
  <1>3. LeasesBelongToTurn
      BY DEF MailboxInit, RingsInit, LeasesBelongToTurn
  <1> QED
      BY <1>1, <1>2, <1>3 DEF MailboxInv

LEMMA DrainBeginHolds ==
    ASSUME MailboxInv, DrainBegin
    PROVE  MailboxInv' /\ ChannelStep
  <1> DEFINE limit == Least(Allowed, Capacity)
             m == Least(Distance(head[Turn], KnownTail(Turn, limit)), limit)
  <1>1. /\ Continues /\ lease[Turn] = 0 /\ Acquire(Turn, limit) /\ UNCHANGED <<registered, sealed, closing>>
        /\ PumpTyped /\ Turn \in Rings
      BY TurnIsARing DEF DrainBegin, MailboxInv
  <1>2. /\ Allowed \in Int /\ Allowed > 0 /\ Allowed <= pump.quantum /\ Allowed <= pump.budget - pump.delivered
        /\ pump.delivered \in Nat /\ pump.budget \in Nat /\ pump.quantum \in Nat
      BY <1>1 DEF Allowed, Least, PumpTyped, Continues
  <1>3. limit \in 1..Capacity /\ limit <= Allowed
      BY <1>2, RingAssumption DEF Least
  <1> HIDE DEF limit
  <1>4. RingsInv' /\ ChannelStep
      BY <1>1, <1>3, AcquireHolds DEF MailboxInv
  <1>5. lease' = [lease EXCEPT ![Turn] = m]
      BY <1>1 DEF Acquire
  <1> HIDE DEF m
  <1>6. /\ \A r \in Rings : r # Turn => lease'[r] = 0
        /\ lease'[Turn] = m
      <2>1. \A r \in Rings : lease[r] \in Nat
          BY DEF MailboxInv, RingsInv, RingsTyped
      <2>2. DOMAIN lease = Rings
          BY DEF MailboxInv, RingsInv, RingsTyped
      <2> QED
          BY <1>1, <1>5, <2>1, <2>2 DEF MailboxInv, LeasesBelongToTurn
  <1>7. CASE m = 0
      <2>1. NextTurn(0)
          BY <1>6, <1>7 DEF DrainBegin
      <2>2. PumpTyped'
          BY <1>1, <2>1, NextTurnHolds
      <2>3. LeasesBelongToTurn'
          BY <1>6, <1>7, NothingLeased
      <2> QED
          BY <1>4, <2>2, <2>3 DEF MailboxInv
  <1>8. CASE m # 0
      <2>1. UNCHANGED <<cursor, pump>>
          BY <1>6, <1>8 DEF DrainBegin
      <2>2. PumpTyped'
          BY <1>1, <2>1 DEF PumpTyped
      <2>3. m \in Int /\ m <= limit
          <3>1. Distance(head[Turn], KnownTail(Turn, limit)) \in Int
              <4>1. head[Turn] \in Cursors /\ KnownTail(Turn, limit) \in Cursors
                  BY <1>1 DEF MailboxInv, RingsInv, RingsTyped, KnownTail
              <4>2. Distance(head[Turn], KnownTail(Turn, limit)) \in Cursors
                  BY <4>1, DistanceIs
              <4> QED
                  BY <4>2, RingAssumption DEF Cursors
          <3> QED
              BY <1>3, <3>1, RingAssumption DEF m, Least
      <2>4. m <= pump.quantum /\ pump.delivered + m <= pump.budget
          BY <1>2, <1>3, <2>3, RingAssumption
      <2>5. Continues' /\ Turn' = Turn
          BY <1>1, <2>1 DEF Continues, Turn
      <2>6. LeasesBelongToTurn'
          BY <1>6, <2>1, <2>4, <2>5 DEF LeasesBelongToTurn
      <2> QED
          BY <1>4, <2>2, <2>6 DEF MailboxInv
  <1> QED
      BY <1>7, <1>8

LEMMA CallbackHolds ==
    ASSUME MailboxInv, Callback
    PROVE  MailboxInv' /\ ChannelStep
  <1>1. Turn \in Rings /\ Look(Turn) /\ UNCHANGED <<registered, sealed, cursor, closing, pump, lease>>
      BY TurnIsARing DEF Callback, MailboxInv, Look
  <1>2. RingsInv' /\ ChannelStep
      BY <1>1, LookHolds DEF MailboxInv
  <1>3. PumpTyped' /\ LeasesBelongToTurn'
      BY <1>1 DEF MailboxInv, PumpTyped, LeasesBelongToTurn, Continues, Turn
  <1> QED
      BY <1>2, <1>3 DEF MailboxInv

LEMMA DrainEndHolds ==
    ASSUME MailboxInv, DrainEnd
    PROVE  MailboxInv' /\ ChannelStep
  <1>1. /\ Turn \in Rings /\ Continues /\ Commit(Turn, lease[Turn]) /\ NextTurn(lease[Turn])
        /\ lease[Turn] \in 0..Capacity /\ lease[Turn] \in Nat /\ UNCHANGED <<registered, sealed, closing>>
      BY TurnIsARing, LeasesTyped DEF DrainEnd, MailboxInv
  <1>2. RingsInv' /\ ChannelStep
      BY <1>1, CommitHolds DEF MailboxInv
  <1>3. PumpTyped'
      BY <1>1, NextTurnHolds DEF MailboxInv
  <1>4. \A r \in Rings : lease'[r] = 0
      <2>1. lease' = [lease EXCEPT ![Turn] = 0]
          BY <1>1 DEF Commit
      <2>2. DOMAIN lease = Rings /\ \A r \in Rings : lease[r] \in Nat
          BY DEF MailboxInv, RingsInv, RingsTyped
      <2> QED
          BY <2>1, <2>2 DEF MailboxInv, LeasesBelongToTurn
  <1> QED
      BY <1>2, <1>3, <1>4, NothingLeased DEF MailboxInv

\* The steps of the owner that touch no ring, and of other threads.
LEMMA NoLease ==
    ASSUME MailboxInv, ~Continues
    PROVE  \A r \in Rings : lease[r] = 0
  <1> TAKE r \in Rings
  <1>1. lease[r] \in Nat
      BY LeasesTyped DEF MailboxInv
  <1>2. ~(lease[r] > 0)
      BY DEF MailboxInv, LeasesBelongToTurn
  <1> QED
      BY <1>1, <1>2, SMT

LEMMA PumpEdgesHold ==
    ASSUME MailboxInv,
           PumpEnd \/ \E budget \in Budgets, quantum \in Quanta : PumpBegin(budget, quantum)
    PROVE  MailboxInv' /\ ChannelStep
  <1>1. ~Continues /\ UNCHANGED ringVars /\ UNCHANGED <<registered, sealed, cursor, closing>>
      BY DEF PumpEnd, PumpBegin, Continues
  <1>2. RingsInv' /\ ChannelStep
      BY <1>1, QuietHolds DEF MailboxInv, ringVars
  <1>3. LeasesBelongToTurn'
      BY <1>1, NoLease, NothingLeased DEF ringVars
  <1>4. PumpTyped'
      <2>1. PumpTyped
          BY DEF MailboxInv
      <2>2. CASE PumpEnd
          BY <1>1, <2>1, <2>2 DEF PumpEnd, NoPump, PumpTyped
      <2>3. ASSUME NEW budget \in Budgets, NEW quantum \in Quanta, PumpBegin(budget, quantum)
            PROVE  PumpTyped'
          <3>1. pump' = [on |-> TRUE, start |-> cursor, i |-> 0, budget |-> budget, quantum |-> quantum,
                         delivered |-> 0] /\ sealed
              BY <2>3 DEF PumpBegin
          <3>2. budget \in Nat /\ quantum \in Nat /\ budget > 0 /\ quantum > 0 /\ cursor \in Nat
              BY <2>1, MailboxAssumption DEF PumpTyped
          <3> QED
              BY <1>1, <2>1, <3>1, <3>2 DEF PumpTyped
      <2> QED
          BY <2>2, <2>3
  <1> QED
      BY <1>2, <1>3, <1>4 DEF MailboxInv

LEMMA RegistrationHolds ==
    ASSUME MailboxInv, RegisterProducer \/ Seal
    PROVE  MailboxInv' /\ ChannelStep
  <1>1. ~sealed /\ UNCHANGED ringVars /\ UNCHANGED <<cursor, closing, pump>>
      BY DEF RegisterProducer, Seal
  <1>2. RingsInv' /\ ChannelStep
      BY <1>1, QuietHolds DEF MailboxInv, ringVars
  <1>3. ~pump.on
      BY <1>1 DEF MailboxInv, PumpTyped
  <1>4. LeasesBelongToTurn'
      BY <1>1, <1>3, NoLease, NothingLeased DEF Continues, ringVars
  <1>5. PumpTyped'
      BY <1>1, <1>3, MailboxAssumption DEF RegisterProducer, Seal, MailboxInv, PumpTyped
  <1> QED
      BY <1>2, <1>4, <1>5 DEF MailboxInv

\* Producers and stop leave the owner's pump and leases alone.
LEMMA ProducersHold ==
    ASSUME MailboxInv,
           \/ \E r \in Rings : (\E n \in 1..Capacity : TryPublish(r, n)) \/ ProducerRuns(r)
           \/ StopMailbox \/ UNCHANGED mailboxVars
    PROVE  MailboxInv' /\ ChannelStep
  <1>1. RingsInv' /\ ChannelStep
      <2>1. CASE StopMailbox \/ UNCHANGED mailboxVars
          BY <2>1, QuietHolds DEF StopMailbox, mailboxVars, MailboxInv
      <2>2. CASE \E r \in Rings : (\E n \in 1..Capacity : TryPublish(r, n)) \/ ProducerRuns(r)
          BY <2>2, OfferHolds, ProducerStepHolds DEF TryPublish, ProducerRuns, MailboxInv
      <2> QED
          BY <2>1, <2>2
  <1>2. UNCHANGED <<registered, sealed, cursor, pump, lease>>
      BY DEF TryPublish, ProducerRuns, StopMailbox, Offer, ProducerStep, FindRoom, Copy, Publish, mailboxVars
  <1>3. PumpTyped' /\ LeasesBelongToTurn'
      BY <1>2 DEF MailboxInv, PumpTyped, LeasesBelongToTurn, Continues, Turn
  <1> QED
      BY <1>1, <1>3 DEF MailboxInv

LEMMA MailboxStepHolds ==
    ASSUME MailboxInv, [MailboxNext]_mailboxVars
    PROVE  MailboxInv' /\ ChannelStep
  BY DrainBeginHolds, CallbackHolds, DrainEndHolds, PumpEdgesHold, RegistrationHolds, ProducersHold
     DEF MailboxNext, PumpStep

\* Every ring of a mailbox is a bounded channel from its producer to the owner, for any number of
\* producers, capacity, width of a cursor, budgets and quanta (SIREventMailbox).
THEOREM MailboxRingsAreChannels == MailboxSpec => ImplementsChannel
  <1>1. ChannelStep => [Channel!ChannelNext]_<<head, Counts, read, shown>>
      BY DEF ChannelStep
  <1> QED
      BY InitHoldsForMailbox, MailboxStepHolds, <1>1, PTL
         DEF MailboxSpec, ImplementsChannel, Channel!ChannelSpec, Counts

\* The owner leases one ring at a time, that of the turn, and never more events than are left of
\* the budget and of the quantum of its pump (pump, pumpSpans).
THEOREM LeasesFitTheTurn == MailboxSpec => []LeasesBelongToTurn
  <1>1. MailboxInv => LeasesBelongToTurn
      BY DEF MailboxInv
  <1> QED
      BY InitHoldsForMailbox, MailboxStepHolds, <1>1, PTL DEF MailboxSpec
=============================================================================
