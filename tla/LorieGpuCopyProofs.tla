------------------------- MODULE LorieGpuCopyProofs -------------------------
(***************************************************************************)
(* Proofs about LorieGpuCopy, for every capacity of the ring, every size   *)
(* of the indices that is a multiple of it, every number of copies,        *)
(* disconnections and deaths: the ring implements CopyQueue, and           *)
(* ShownIsMade, AckedOnce and NothingLost are invariants.                  *)
(***************************************************************************)
EXTENDS LorieGpuCopy, FiniteSetTheorems, TLAPS

(* The number of the last copy that was taken off. *)
Taken == Published - Queued

(* The indices, and what the slots between them hold. *)
RingInv ==
    /\ writeIndex \in 0 .. IndexSize - 1 /\ readIndex \in 0 .. IndexSize - 1
    /\ serialCounter \in Nat /\ filling \in Copies \union {NoCopy}
    /\ DOMAIN entries = 0 .. Capacity - 1
    /\ Queued <= Capacity /\ (filling # NoCopy => Queued < Capacity)
    /\ \A j \in 0 .. Queued - 1 :
          entries[(readIndex + j) % Capacity].serial = Taken + 1 + j
    /\ filling # NoCopy =>
          entries[writeIndex % Capacity].serial = serialCounter

(* What the renderer has in hand. *)
HandInv ==
    /\ pcG \in {"idle", "submit", "drain", "publish"}
    /\ pcG = "submit" => Queued > 0 /\ entry.serial = Taken + 1
    /\ pcG \in {"drain", "publish"} => entry.serial = Taken

QueueInv == RingInv /\ HandInv

(* The serials that copies have: none until they are scheduled, *)
SerialInv ==
    /\ serial \in [Copies -> Nat] /\ completedSerial \in Nat
    /\ vblank \in [Copies -> {"none", "polling", "shown", "skipped"}]
    /\ \A c \in Copies : serial[c] <= serialCounter
    /\ \A c, d \in Copies : serial[c] = serial[d] /\ serial[c] # 0 => c = d
    /\ \A c \in Copies : vblank[c] = "none" /\ c # filling => serial[c] = 0
    /\ \A c \in Copies : vblank[c] = "polling" => serial[c] # 0
    /\ filling # NoCopy =>
          vblank[filling] = "none" /\ serial[filling] = serialCounter

(* those of the copies that wait and of the one in hand, *)
SlotInv ==
    /\ \A j \in 0 .. Queued - 1 :
          LET e == entries[(readIndex + j) % Capacity]
          IN  e.copy \in Copies /\ serial[e.copy] = e.serial
    /\ filling # NoCopy => entries[writeIndex % Capacity].copy = filling
    /\ pcG = "submit" =>
          entry.copy \in Copies /\ serial[entry.copy] = entry.serial

(* and what became of those that were taken off. *)
FateInv ==
    /\ completedSerial <= Taken
    /\ \A c \in Copies : serial[c] # 0 /\ serial[c] <= Taken =>
          c \in batch \union executed \union dropped
    /\ \A c \in batch :
          c \in Copies /\ completedSerial < serial[c] /\ serial[c] <= Taken
    /\ pcG \in {"idle", "publish"} => batch = {}
    /\ \A c \in Copies : vblank[c] = "shown" =>
          IF serial[c] = 0 THEN c \in executed
                           ELSE serial[c] <= completedSerial

CopyInv == QueueInv /\ SerialInv /\ SlotInv /\ FateInv

(* There has been one connection at most, and the renderer that works has  *)
(* its shared state.                                                       *)
FirstInv ==
    /\ losses \in Nat
    /\ losses = 0 =>
          /\ connNo \in {NoConn, 1} /\ (connG <=> connNo = 1)
          /\ mapNo \in {NoConn, connNo}
          /\ pcG # "idle" => mapNo # NoConn
          /\ pcG = "idle" => completedSerial = Taken
          /\ sentOn \in [Copies -> {NoConn, 1}]
          /\ \A c \in Copies : serial[c] # 0 => sentOn[c] = 1
          /\ dropped \subseteq stale

-----------------------------------------------------------------------------
(* Arithmetic of indices. *)

(* A remainder is in range, and what it is near the range. *)
LEMMA ModInRange ==
    ASSUME NEW n \in Nat \ {0}, NEW a \in Int
    PROVE  /\ a % n \in 0 .. n - 1
           /\ 0 <= a /\ a < n => a % n = a
           /\ a < 0 /\ -n <= a => a % n = a + n
           /\ n <= a /\ a < n + n => a % n = a - n
OBVIOUS

(* Division with remainder. *)
LEMMA Division ==
    ASSUME NEW n \in Nat \ {0}, NEW a \in Nat
    PROVE  \E q \in Int : a = n * q + (a % n)
<1>1. a = n * (a \div n) + (a % n) /\ a \div n \in Int
  OBVIOUS
<1>2. QED
  BY <1>1, Zenon

(* The remainder is the only one. *)
LEMMA Remainder ==
    ASSUME NEW n \in Nat \ {0}, NEW q \in Int, NEW r \in 0 .. n - 1
    PROVE  (n * q + r) % n = r
OBVIOUS

(* A multiple of n does not change the remainder, *)
LEMMA ModShift ==
    ASSUME NEW n \in Nat \ {0}, NEW m \in Nat, m % n = 0, NEW a \in Nat
    PROVE  (a + m) % n = a % n
<1>1. PICK q \in Int : a = n * q + (a % n)
  BY Division, Zenon
<1>2. PICK k \in Int : m = n * k
  <2>1. PICK k \in Int : m = n * k + (m % n)
    BY Division, Zenon
  <2>2. n * k \in Int
    OBVIOUS
  <2>3. m = n * k
    BY <2>1, <2>2
  <2>4. QED
    BY <2>3, Zenon
<1>3. a % n \in 0 .. n - 1
  BY ModInRange
<1>4. n * (q + k) = n * q + n * k
  OBVIOUS
<1>5. a + m = n * (q + k) + (a % n)
  <2>1. n * q \in Int /\ n * k \in Int
    OBVIOUS
  <2>2. \A x, y, z \in Int : (x + z) + y = (x + y) + z
    OBVIOUS
  <2>3. a + m = (n * q + (a % n)) + n * k
    BY <1>1, <1>2, Zenon
  <2>4. QED
    BY <1>3, <1>4, <2>1, <2>2, <2>3
<1>6. q + k \in Int
  OBVIOUS
<1>7. QED
  BY <1>3, <1>5, <1>6, Remainder, Zenon

(* and numbers less than n apart have different ones. *)
LEMMA ModDistinct ==
    ASSUME NEW n \in Nat \ {0}, NEW a \in Nat, NEW b \in Nat, a < b, b < a + n
    PROVE  b % n # a % n
<1> SUFFICES ASSUME b % n = a % n
             PROVE  FALSE
  OBVIOUS
<1>1. PICK q \in Int : a = n * q + (a % n)
  BY Division, Zenon
<1>2. PICK k \in Int : b = n * k + (a % n)
  BY Division, Zenon
<1>3. b - a = n * (k - q)
  BY <1>1, <1>2, ModInRange
<1>4. k - q > 0 /\ k - q < 1
  BY <1>3
<1>5. QED
  BY <1>4

-----------------------------------------------------------------------------
(* The distance of two indices, *)
LEMMA Distance ==
    ASSUME NEW w \in 0 .. IndexSize - 1, NEW r \in 0 .. IndexSize - 1
    PROVE  \E d \in Nat : /\ d = (w - r) % IndexSize
                          /\ d = IF w >= r THEN w - r
                                           ELSE w - r + IndexSize
<1>1. IndexSize \in Nat \ {0}
  BY RingAssumption DEF RingAssumption
<1>2. PICK d \in Int : d = w - r /\ -IndexSize <= d /\ d < IndexSize
  BY <1>1
<1>3. /\ 0 <= d => d % IndexSize = d
      /\ d < 0 => d % IndexSize = d + IndexSize
  BY <1>1, <1>2, ModInRange, Zenon
<1>4. QED
  BY <1>1, <1>2, <1>3

(* an index moved on by one, *)
LEMMA Advance ==
    ASSUME NEW w \in 0 .. IndexSize - 1
    PROVE  \E v \in 0 .. IndexSize - 1 :
               /\ v = (w + 1) % IndexSize
               /\ v = IF w = IndexSize - 1 THEN 0 ELSE w + 1
<1>1. IndexSize \in Nat \ {0}
  BY RingAssumption DEF RingAssumption
<1>2. CASE w = IndexSize - 1
  <2>1. IndexSize % IndexSize = 0
    BY <1>1, ModInRange
  <2>2. w + 1 = IndexSize
    BY <1>1, <1>2
  <2>3. QED
    BY <1>1, <1>2, <2>1, <2>2
<1>3. CASE w < IndexSize - 1
  <2>1. PICK d \in Int : d = w + 1 /\ 0 <= d /\ d < IndexSize
    BY <1>1, <1>3
  <2>2. d % IndexSize = d
    BY <1>1, <2>1, ModInRange, Zenon
  <2>3. QED
    BY <1>1, <1>3, <2>1, <2>2
<1>4. QED
  BY <1>1, <1>2, <1>3

(* and the distance then. *)
LEMMA Grow ==
    ASSUME NEW w \in 0 .. IndexSize - 1, NEW r \in 0 .. IndexSize - 1,
           (w - r) % IndexSize < Capacity
    PROVE  /\ (w + 1) % IndexSize \in 0 .. IndexSize - 1
           /\ (((w + 1) % IndexSize) - r) % IndexSize
                = ((w - r) % IndexSize) + 1
<1>1. IndexSize \in Nat /\ Capacity \in Nat \ {0} /\ IndexSize > Capacity
  BY RingAssumption, Zenon DEF RingAssumption
<1>2. PICK v \in 0 .. IndexSize - 1 :
         /\ v = (w + 1) % IndexSize
         /\ v = IF w = IndexSize - 1 THEN 0 ELSE w + 1
  BY <1>1, Advance, Zenon
<1>3. PICK d \in Nat :
         /\ d = (w - r) % IndexSize
         /\ d = IF w >= r THEN w - r ELSE w - r + IndexSize
  BY <1>1, Distance, Zenon
<1>4. PICK e \in Nat :
         /\ e = (v - r) % IndexSize
         /\ e = IF v >= r THEN v - r ELSE v - r + IndexSize
  BY <1>1, Distance, Zenon
<1>5. d < Capacity
  BY <1>3, Zenon
<1>6. e = d + 1
  BY <1>1, <1>2, <1>3, <1>4, <1>5
<1>7. QED
  BY <1>2, <1>3, <1>4, <1>6, Zenon

(* Taking an entry off a ring that has one leaves one less in it. *)
LEMMA Shrink ==
    ASSUME NEW w \in 0 .. IndexSize - 1, NEW r \in 0 .. IndexSize - 1,
           (w - r) % IndexSize > 0
    PROVE  /\ (r + 1) % IndexSize \in 0 .. IndexSize - 1
           /\ (w - ((r + 1) % IndexSize)) % IndexSize
                = ((w - r) % IndexSize) - 1
<1>1. IndexSize \in Nat /\ Capacity \in Nat \ {0} /\ IndexSize > Capacity
  BY RingAssumption, Zenon DEF RingAssumption
<1>2. PICK v \in 0 .. IndexSize - 1 :
         /\ v = (r + 1) % IndexSize
         /\ v = IF r = IndexSize - 1 THEN 0 ELSE r + 1
  BY <1>1, Advance, Zenon
<1>3. PICK d \in Nat :
         /\ d = (w - r) % IndexSize
         /\ d = IF w >= r THEN w - r ELSE w - r + IndexSize
  BY <1>1, Distance, Zenon
<1>4. PICK e \in Nat :
         /\ e = (w - v) % IndexSize
         /\ e = IF w >= v THEN w - v ELSE w - v + IndexSize
  BY <1>1, Distance, Zenon
<1>5. d > 0
  BY <1>3, Zenon
<1>6. e = d - 1
  BY <1>1, <1>2, <1>3, <1>4, <1>5
<1>7. QED
  BY <1>2, <1>3, <1>4, <1>6, Zenon

(* The slot of an index and the slot of its remainder are one. *)
LEMMA SlotShift ==
    ASSUME NEW r \in 0 .. IndexSize - 1, NEW j \in Nat
    PROVE  (((r + 1) % IndexSize) + j) % Capacity = (r + (j + 1)) % Capacity
<1>1. /\ Capacity \in Nat \ {0} /\ IndexSize \in Nat \ {0}
      /\ IndexSize % Capacity = 0
  BY RingAssumption DEF RingAssumption
<1>2. PICK v \in Nat :
         /\ v = (r + 1) % IndexSize
         /\ v = IF r = IndexSize - 1 THEN 0 ELSE r + 1
  BY <1>1, Advance
<1>3. CASE r = IndexSize - 1
  <2>1. (j + IndexSize) % Capacity = j % Capacity
    BY <1>1, ModShift, Zenon
  <2>2. r + (j + 1) = j + IndexSize /\ v + j = j
    BY <1>1, <1>2, <1>3
  <2>3. QED
    BY <1>2, <2>1, <2>2, Zenon
<1>4. CASE r # IndexSize - 1
  <2>1. v + j = r + (j + 1)
    BY <1>1, <1>2, <1>4
  <2>2. QED
    BY <1>2, <2>1, Zenon
<1>5. QED
  BY <1>3, <1>4, Zenon

(* The slot that is written is the one behind those that wait. *)
LEMMA WriteSlot ==
    ASSUME NEW w \in 0 .. IndexSize - 1, NEW r \in 0 .. IndexSize - 1
    PROVE  /\ (w - r) % IndexSize \in Nat
           /\ w % Capacity = (r + ((w - r) % IndexSize)) % Capacity
<1>1. /\ Capacity \in Nat \ {0} /\ IndexSize \in Nat \ {0}
      /\ IndexSize % Capacity = 0
  BY RingAssumption DEF RingAssumption
<1>2. PICK d \in Nat :
         /\ d = (w - r) % IndexSize
         /\ d = IF w >= r THEN w - r ELSE w - r + IndexSize
  BY <1>1, Distance, Zenon
<1>3. CASE w >= r
  <2>1. r + d = w
    BY <1>1, <1>2, <1>3
  <2>2. QED
    BY <1>2, <2>1, Zenon
<1>4. CASE w < r
  <2>1. r + d = w + IndexSize
    BY <1>1, <1>2, <1>4
  <2>2. w \in Nat
    BY <1>1
  <2>3. (w + IndexSize) % Capacity = w % Capacity
    BY <1>1, <2>2, ModShift, Zenon
  <2>4. QED
    BY <1>2, <2>1, <2>3, Zenon
<1>5. QED
  BY <1>1, <1>3, <1>4

-----------------------------------------------------------------------------
(* What Queued and Published are, as numbers. *)
LEMMA Numbers ==
    ASSUME RingInv
    PROVE  /\ Capacity \in Nat \ {0} /\ IndexSize \in Nat
           /\ readIndex \in Nat /\ writeIndex \in Nat
           /\ Queued \in Nat /\ Published \in Int /\ Taken \in Int
           /\ Published = Taken + Queued
           /\ writeIndex % Capacity = (readIndex + Queued) % Capacity
<1>1. Capacity \in Nat \ {0} /\ IndexSize \in Nat
  BY RingAssumption, Zenon DEF RingAssumption
<1>2. readIndex \in Nat /\ writeIndex \in Nat /\ serialCounter \in Nat
  BY <1>1 DEF RingInv
<1>3. Queued \in Nat /\ writeIndex % Capacity = (readIndex + Queued) % Capacity
  BY WriteSlot, Zenon DEF RingInv, Queued
<1>4. Published \in Int
  BY <1>2 DEF Published
<1>5. Taken \in Int /\ Published = Taken + Queued
  BY <1>3, <1>4 DEF Taken
<1>6. QED
  BY <1>1, <1>2, <1>3, <1>4, <1>5, Zenon

(* A step that leaves the ring and the entry in hand alone. *)
LEMMA QuietStep ==
    ASSUME QueueInv, UNCHANGED <<gpuRing, serialCounter, filling, pcG, entry>>
    PROVE  /\ QueueInv' /\ UNCHANGED Queue!vars
           /\ Queued' = Queued /\ Taken' = Taken
<1>1. Queued' = Queued /\ Published' = Published /\ Taken' = Taken
  BY Zenon DEF gpuRing, Queued, Published, Taken
<1>2. RingInv'
  BY <1>1, Zenon DEF QueueInv, RingInv, gpuRing
<1>3. HandInv'
  BY <1>1, Zenon DEF QueueInv, HandInv
<1>4. UNCHANGED Queue!vars
  BY <1>1, Zenon DEF Queue!vars, gpuRing
<1>5. QED
  BY <1>1, <1>2, <1>3, <1>4, Zenon DEF QueueInv

(* lorieTryScheduleGpuCopy() fills a slot that no waiting copy has: the   *)
(* queue does not see it yet.                                              *)
LEMMA ScheduleStep ==
    ASSUME QueueInv, NEW c \in Copies, Schedule(c)
    PROVE  /\ QueueInv' /\ UNCHANGED Queue!vars
           /\ Queued' = Queued /\ Taken' = Taken
<1>1. /\ filling = NoCopy /\ filling' = c /\ c # NoCopy
      /\ serialCounter \in Nat /\ serialCounter' = serialCounter + 1
  BY RingAssumption
     DEF QueueInv, RingInv, Schedule, NextCopy, XFree, Copies, NoCopy,
         RingAssumption
<1>2. Published' = Published /\ Published = serialCounter
  BY <1>1 DEF Published
<1>3. Queued' = Queued
  BY Zenon DEF Schedule, Queued
<1>4. Taken' = Taken
  BY <1>2, <1>3, Zenon DEF Taken
<1>5. Queued \in Nat /\ Capacity \in Nat \ {0} /\ Queued < Capacity
  BY Numbers DEF QueueInv, Schedule, RingFull
<1>6. writeIndex % Capacity \in 0 .. Capacity - 1
  BY <1>5, ModInRange, Numbers DEF QueueInv
<1>7. entries'[writeIndex % Capacity].serial = serialCounter + 1
  BY <1>6, Zenon DEF QueueInv, RingInv, Schedule
<1>8. ASSUME NEW j \in 0 .. Queued - 1
      PROVE  entries'[(readIndex + j) % Capacity].serial = Taken + 1 + j
  <2>1. j \in Nat /\ readIndex \in Nat /\ readIndex + j \in Nat
    BY <1>5, Numbers DEF QueueInv
  <2>2. (readIndex + j) % Capacity \in 0 .. Capacity - 1
    BY <1>5, <2>1, ModInRange
  <2>3. (readIndex + Queued) % Capacity # (readIndex + j) % Capacity
    <3>1. PICK a \in Nat, b \in Nat :
             /\ a = readIndex + j /\ b = readIndex + Queued
             /\ a < b /\ b < a + Capacity
      BY <1>5, <2>1
    <3>2. b % Capacity # a % Capacity
      BY <1>5, <3>1, ModDistinct, Zenon
    <3>3. QED
      BY <3>1, <3>2, Zenon
  <2>4. writeIndex % Capacity # (readIndex + j) % Capacity
    BY <2>3, Numbers, Zenon DEF QueueInv
  <2>5. entries'[(readIndex + j) % Capacity]
          = entries[(readIndex + j) % Capacity]
    BY <2>2, <2>4, Zenon DEF QueueInv, RingInv, Schedule
  <2>6. QED
    BY <2>5, Zenon DEF QueueInv, RingInv
<1>9. RingInv'
  BY <1>1, <1>3, <1>4, <1>5, <1>7, <1>8 DEF QueueInv, RingInv, Schedule
<1>10. HandInv'
  BY <1>3, <1>4, Zenon DEF QueueInv, HandInv, Schedule, gpuRenderer
<1>11. UNCHANGED Queue!vars
  BY <1>2, <1>3, Zenon DEF Queue!vars, Schedule, gpuRenderer
<1>12. QED
  BY <1>3, <1>4, <1>9, <1>10, <1>11, Zenon DEF QueueInv

(* The store to writeIndex is the moment at which the copy is scheduled. *)
LEMMA PublishStep ==
    ASSUME QueueInv, PublishEntry
    PROVE  /\ QueueInv' /\ Queue!Schedule
           /\ Queued' = Queued + 1 /\ Taken' = Taken
<1>1. /\ filling # NoCopy /\ filling' = NoCopy
      /\ serialCounter \in Nat /\ serialCounter' = serialCounter
  BY Zenon DEF QueueInv, RingInv, PublishEntry
<1>2. Published' = serialCounter /\ Published = serialCounter - 1
  BY <1>1 DEF Published
<1>3. /\ Queued \in Nat /\ Capacity \in Nat \ {0} /\ Queued < Capacity
      /\ Taken \in Int /\ Published = Taken + Queued
  BY <1>1, Numbers, Zenon DEF QueueInv, RingInv
<1>4. writeIndex' \in 0 .. IndexSize - 1 /\ Queued' = Queued + 1
  BY <1>3, Grow, Zenon DEF QueueInv, RingInv, PublishEntry, Queued
<1>5. Taken' = Taken
  BY <1>1, <1>2, <1>3, <1>4 DEF Taken
<1>6. entries[(readIndex + Queued) % Capacity].serial = Taken + 1 + Queued
  <2>1. entries[writeIndex % Capacity].serial = serialCounter
    BY <1>1, Zenon DEF QueueInv, RingInv
  <2>2. serialCounter = Taken + 1 + Queued
    BY <1>1, <1>2, <1>3
  <2>3. QED
    BY <2>1, <2>2, Numbers, Zenon DEF QueueInv
<1>7. ASSUME NEW j \in 0 .. Queued' - 1
      PROVE  entries[(readIndex + j) % Capacity].serial = Taken + 1 + j
  <2>1. j \in 0 .. Queued - 1 \/ j = Queued
    BY <1>3, <1>4
  <2>2. QED
    BY <1>6, <2>1, Zenon DEF QueueInv, RingInv
<1>8. RingInv'
  BY <1>1, <1>3, <1>4, <1>5, <1>7 DEF QueueInv, RingInv, PublishEntry
<1>9. HandInv'
  BY <1>3, <1>4, <1>5 DEF QueueInv, HandInv, PublishEntry, gpuRenderer
<1>10. Queue!Schedule
  <2>1. Published - (Published - Queued) < Capacity
    BY <1>3
  <2>2. Published' = Published + 1
    BY <1>1, <1>2
  <2>3. Published' - Queued' = Published - Queued
    BY <1>5, Zenon DEF Taken
  <2>4. QED
    BY <2>1, <2>2, <2>3, Zenon DEF Queue!Schedule, PublishEntry, gpuRenderer
<1>11. QED
  BY <1>4, <1>5, <1>8, <1>9, <1>10, Zenon DEF QueueInv

(* applyPendingGpuCopiesLocked() looks at the copy that is next. *)
LEMMA ReadStep ==
    ASSUME QueueInv, ReadEntry
    PROVE  /\ QueueInv' /\ Queue!Fetch
           /\ Queued' = Queued /\ Taken' = Taken
<1>1. Queued' = Queued /\ Published' = Published /\ Taken' = Taken
  BY Zenon DEF ReadEntry, gpuRing, gpuPresent, Queued, Published, Taken
<1>2. /\ Queued \in Nat \ {0} /\ Taken \in Int
      /\ Published = Taken + Queued /\ readIndex \in Nat
  BY Numbers, Zenon DEF QueueInv, ReadEntry
<1>3. entry'.serial = Taken + 1
  <2>1. 0 \in 0 .. Queued - 1 /\ readIndex + 0 = readIndex
    BY <1>2
  <2>2. entries[(readIndex + 0) % Capacity].serial = Taken + 1 + 0
    BY <2>1, Zenon DEF QueueInv, RingInv
  <2>3. QED
    BY <1>2, <2>1, <2>2 DEF ReadEntry
<1>4. RingInv'
  BY <1>1, Zenon DEF QueueInv, RingInv, ReadEntry, gpuRing, gpuPresent
<1>5. HandInv'
  BY <1>1, <1>2, <1>3 DEF HandInv, ReadEntry
<1>6. Queue!Fetch
  <2>1. Published - Queued < Published
    BY <1>2
  <2>2. QED
    BY <1>1, <1>3, <2>1, Zenon DEF Queue!Fetch, Taken, ReadEntry, gpuRing
<1>7. QED
  BY <1>1, <1>4, <1>5, <1>6, Zenon DEF QueueInv

(* The store to readIndex is the moment at which the copy is taken off. *)
LEMMA SubmitStep ==
    ASSUME QueueInv, Submit
    PROVE  /\ QueueInv' /\ Queue!Take
           /\ Queued' = Queued - 1 /\ Taken' = Taken + 1
<1>1. Published' = Published
  BY Zenon DEF Submit, gpuPresent, Published
<1>2. /\ Queued \in Nat \ {0} /\ Taken \in Int
      /\ Published = Taken + Queued /\ readIndex \in Nat
      /\ entry.serial = Taken + 1 /\ entry' = entry
  BY Numbers DEF QueueInv, HandInv, Submit
<1>3. readIndex' \in 0 .. IndexSize - 1 /\ Queued' = Queued - 1
  BY <1>2, Shrink DEF QueueInv, RingInv, Submit, Queued
<1>4. Taken' = Taken + 1
  BY <1>1, <1>2, <1>3 DEF Taken
<1>5. ASSUME NEW j \in 0 .. Queued' - 1
      PROVE  entries[(readIndex' + j) % Capacity].serial = Taken' + 1 + j
  <2>1. j \in Nat /\ j + 1 \in 0 .. Queued - 1
    BY <1>2, <1>3
  <2>2. (readIndex' + j) % Capacity = (readIndex + (j + 1)) % Capacity
    BY <2>1, SlotShift, Zenon DEF QueueInv, RingInv, Submit
  <2>3. entries[(readIndex + (j + 1)) % Capacity].serial = Taken + 1 + (j + 1)
    BY <2>1, Zenon DEF QueueInv, RingInv
  <2>4. QED
    BY <1>2, <1>4, <2>1, <2>2, <2>3
<1>6. Queued' <= Capacity /\ (filling # NoCopy => Queued' < Capacity)
  <2>1. Queued <= Capacity /\ Capacity \in Nat \ {0}
    BY Numbers, Zenon DEF QueueInv, RingInv
  <2>2. Queued' < Capacity /\ Queued' <= Capacity
    BY <1>2, <1>3, <2>1
  <2>3. QED
    BY <2>2, Zenon
<1>7. RingInv'
  BY <1>3, <1>5, <1>6, Zenon DEF QueueInv, RingInv, Submit, gpuPresent
<1>8. HandInv'
  BY <1>2, <1>4, Zenon DEF HandInv, Submit
<1>9. Queue!Take
  BY <1>1, <1>2, <1>4, Zenon DEF Queue!Take, Taken, Submit
<1>10. QED
  BY <1>3, <1>4, <1>7, <1>8, <1>9, Zenon DEF QueueInv

(* The fence is not seen by the queue. *)
LEMMA FenceStep ==
    ASSUME QueueInv, Fence
    PROVE  /\ QueueInv' /\ UNCHANGED Queue!vars
           /\ Queued' = Queued /\ Taken' = Taken
<1>1. Queued' = Queued /\ Published' = Published /\ Taken' = Taken
  BY Zenon DEF Fence, gpuRing, gpuPresent, Queued, Published, Taken
<1>2. RingInv'
  BY <1>1, Zenon DEF QueueInv, RingInv, Fence, gpuRing, gpuPresent
<1>3. HandInv'
  BY <1>1, Zenon DEF QueueInv, HandInv, Fence
<1>4. UNCHANGED Queue!vars
  BY <1>1, Zenon DEF Queue!vars, Fence, gpuRing
<1>5. QED
  BY <1>1, <1>2, <1>3, <1>4, Zenon DEF QueueInv

(* The store to completedSerial reports all copies that were taken off. *)
LEMMA SerialStep ==
    ASSUME QueueInv, PublishSerial
    PROVE  /\ QueueInv' /\ Queue!Complete
           /\ Queued' = Queued /\ Taken' = Taken
<1>1. Queued' = Queued /\ Published' = Published /\ Taken' = Taken
  BY Zenon DEF PublishSerial, gpuPresent, Queued, Published, Taken
<1>2. RingInv'
  BY <1>1, Zenon DEF QueueInv, RingInv, PublishSerial, gpuPresent
<1>3. HandInv'
  BY <1>1, Zenon DEF QueueInv, HandInv, PublishSerial
<1>4. Queue!Complete
  BY <1>1, Zenon DEF Queue!Complete, Taken, QueueInv, HandInv, PublishSerial
<1>5. QED
  BY <1>1, <1>2, <1>3, <1>4, Zenon DEF QueueInv

(* The death of the renderer takes nothing off the ring. *)
LEMMA DieStep ==
    ASSUME QueueInv, Die
    PROVE  /\ QueueInv' /\ UNCHANGED Queue!vars
           /\ Queued' = Queued /\ Taken' = Taken
<1>1. Queued' = Queued /\ Published' = Published /\ Taken' = Taken
  BY Zenon DEF Die, gpuRing, gpuPresent, Queued, Published, Taken
<1>2. RingInv'
  BY <1>1, Zenon DEF QueueInv, RingInv, Die, gpuRing, gpuPresent
<1>3. HandInv'
  BY Zenon DEF HandInv, Die
<1>4. UNCHANGED Queue!vars
  BY <1>1, Zenon DEF Queue!vars, Die, gpuRing
<1>5. QED
  BY <1>1, <1>2, <1>3, <1>4, Zenon DEF QueueInv

(* Every step preserves the invariant and is one of the queue or none. *)
LEMMA QueueNext ==
    ASSUME QueueInv, [GpuNext]_gpuVars
    PROVE  QueueInv' /\ [Queue!Next]_(Queue!vars)
<1>1. CASE UNCHANGED gpuVars
  BY <1>1, QuietStep, Zenon DEF gpuVars, gpuPresent, gpuRenderer
<1>2. ASSUME NEW c \in Copies, CopyByCpu(c)
      PROVE  QueueInv' /\ UNCHANGED Queue!vars
  BY <1>2, QuietStep, Zenon DEF CopyByCpu, gpuRenderer
<1>3. ASSUME NEW c \in Copies, Scrap(c) \/ PollDone(c) \/ PollStalled(c)
      PROVE  QueueInv' /\ UNCHANGED Queue!vars
  BY <1>3, QuietStep, Zenon DEF Scrap, PollDone, PollStalled, gpuRenderer
<1>4. CASE Resize \/ Connect \/ Disconnect
  BY <1>4, QuietStep, Zenon DEF Resize, Connect, Disconnect, gpuPresent, gpuRenderer
<1>5. CASE MapState \/ UnmapState \/ \E w \in BOOLEAN : SetWindow(w)
  BY <1>5, QuietStep, Zenon DEF MapState, UnmapState, SetWindow, gpuPresent
<1>6. CASE PublishEntry
  BY <1>6, PublishStep, Zenon DEF Queue!Next
<1>7. CASE ReadEntry
  BY <1>7, ReadStep, Zenon DEF Queue!Next
<1>8. CASE Submit
  BY <1>8, SubmitStep, Zenon DEF Queue!Next
<1>9. CASE PublishSerial
  BY <1>9, SerialStep, Zenon DEF Queue!Next
<1>10. QED
  BY <1>1, <1>2, <1>3, <1>4, <1>5, <1>6, <1>7, <1>8, <1>9,
     ScheduleStep, FenceStep, DieStep, Zenon
     DEF GpuNext, GpuX, GpuR

(* The ring is empty at first, wherever its indices are. *)
LEMMA QueueStart ==
    ASSUME GpuInit
    PROVE  QueueInv /\ Queue!Init /\ Queued = 0 /\ Taken = Earlier
<1>1. /\ IndexSize \in Nat \ {0} /\ Earlier \in Nat
      /\ Capacity \in Nat \ {0}
  BY RingAssumption DEF RingAssumption
<1>2. Earlier % IndexSize \in 0 .. IndexSize - 1
  BY <1>1, ModInRange
<1>3. Queued = 0
  <2>1. PICK a \in Int : a = writeIndex /\ a = readIndex
    BY <1>1, <1>2 DEF GpuInit
  <2>2. 0 % IndexSize = 0 /\ a - a = 0
    BY <1>1, ModInRange
  <2>3. QED
    BY <2>1, <2>2, Zenon DEF Queued
<1>4. Published = Earlier /\ Taken = Earlier
  BY <1>1, <1>3 DEF GpuInit, Published, Taken
<1>5. RingInv
  BY <1>1, <1>2, <1>3 DEF GpuInit, RingInv
<1>6. HandInv
  BY Zenon DEF GpuInit, HandInv
<1>7. Queue!Init
  BY <1>1, <1>4, Zenon DEF Queue!Init, GpuInit, Taken, NoEntry
<1>8. QED
  BY <1>3, <1>4, <1>5, <1>6, <1>7, Zenon DEF QueueInv

(* The slots between readIndex and writeIndex hold the serials that were   *)
(* published and not taken off, one after the other, in every state.       *)
THEOREM QueueInvCorrect == GpuSpec => []QueueInv
<1>1. GpuInit => QueueInv
  BY QueueStart, Zenon
<1>2. QueueInv /\ [GpuNext]_gpuVars => QueueInv'
  BY QueueNext, Zenon
<1>3. QED
  BY <1>1, <1>2, PTL DEF GpuSpec

(* The ring of lorie.h, with indices that wrap at any multiple of its      *)
(* capacity and after any number of earlier copies, implements CopyQueue.  *)
THEOREM Refinement == GpuSpec => IsQueue
<1>1. GpuInit => Queue!Init
  BY QueueStart, Zenon
<1>2. QueueInv /\ [GpuNext]_gpuVars => [Queue!Next]_(Queue!vars)
  BY QueueNext, Zenon
<1>3. QED
  BY <1>1, <1>2, QueueInvCorrect, PTL DEF GpuSpec, IsQueue, Queue!Spec

-----------------------------------------------------------------------------
(* What becomes of the copies. *)

(* No copy is NoCopy. *)
LEMMA Apart ==
    ASSUME QueueInv
    PROVE  Copies \subseteq Nat \ {NoCopy} /\ NoCopy \notin Copies
BY RingAssumption DEF RingAssumption, Copies, NoCopy

(* A step that leaves the copies alone, or takes back the polling of one. *)
LEMMA CopyQuietStep ==
    ASSUME CopyInv,
           UNCHANGED <<gpuRing, serial, serialCounter, filling, pcG, entry,
                       batch, executed, dropped>>,
           \/ UNCHANGED vblank
           \/ \E c \in Copies : /\ vblank[c] = "polling"
                                /\ vblank' = [vblank EXCEPT ![c] = "skipped"]
    PROVE  CopyInv'
<1>1. QueueInv' /\ Queued' = Queued /\ Taken' = Taken
  BY QuietStep, Zenon DEF CopyInv
<1>2. SerialInv'
  <2>1. CASE UNCHANGED vblank
    BY <2>1, Zenon DEF CopyInv, SerialInv, gpuRing
  <2>2. ASSUME NEW c \in Copies, vblank[c] = "polling",
               vblank' = [vblank EXCEPT ![c] = "skipped"]
        PROVE  SerialInv'
    BY <2>2 DEF CopyInv, SerialInv, gpuRing
  <2>3. QED
    BY <2>1, <2>2, Zenon
<1>3. SlotInv'
  BY <1>1, Zenon DEF CopyInv, SlotInv, gpuRing
<1>4. FateInv'
  BY <1>1, Zenon DEF CopyInv, FateInv, SerialInv, gpuRing
<1>5. QED
  BY <1>1, <1>2, <1>3, <1>4, Zenon DEF CopyInv

(* A copy that present_execute_copy() makes itself has no serial. *)
LEMMA CopyCpuStep ==
    ASSUME CopyInv, NEW c \in Copies, CopyByCpu(c)
    PROVE  CopyInv'
<1>1. QueueInv' /\ Queued' = Queued /\ Taken' = Taken
  BY QuietStep, Zenon DEF CopyInv, CopyByCpu, gpuRenderer
<1>2. serial[c] = 0
  BY Apart, Zenon DEF CopyInv, SerialInv, CopyByCpu, NextCopy, XFree
<1>3. SerialInv'
  BY Zenon DEF CopyInv, SerialInv, CopyByCpu, NextCopy, XFree, gpuRing
<1>4. SlotInv'
  BY <1>1, Zenon DEF CopyInv, SlotInv, CopyByCpu, gpuRing, gpuRenderer
<1>5. FateInv'
  BY <1>1, <1>2, Zenon DEF CopyInv, FateInv, SerialInv, CopyByCpu, gpuRing, gpuRenderer
<1>6. QED
  BY <1>1, <1>3, <1>4, <1>5, Zenon DEF CopyInv

(* A copy is reported when completedSerial has reached its serial. *)
LEMMA CopyDoneStep ==
    ASSUME CopyInv, NEW c \in Copies, PollDone(c)
    PROVE  CopyInv'
<1>1. QueueInv' /\ Queued' = Queued /\ Taken' = Taken
  BY QuietStep, Zenon DEF CopyInv, PollDone, gpuRenderer
<1>2. serial[c] # 0 /\ serial[c] <= completedSerial
  BY Zenon DEF CopyInv, SerialInv, PollDone, IsDone
<1>3. SerialInv'
  BY DEF CopyInv, SerialInv, PollDone, gpuRing
<1>4. SlotInv'
  BY <1>1, Zenon DEF CopyInv, SlotInv, PollDone, gpuRing, gpuRenderer
<1>5. FateInv'
  BY <1>1, <1>2, Zenon DEF CopyInv, FateInv, SerialInv, PollDone, gpuRing, gpuRenderer
<1>6. QED
  BY <1>1, <1>3, <1>4, <1>5, Zenon DEF CopyInv

(* A copy that is scheduled has the next serial, and no one else has it. *)
LEMMA CopyScheduleStep ==
    ASSUME CopyInv, NEW c \in Copies, Schedule(c)
    PROVE  CopyInv'
<1>1. QueueInv' /\ Queued' = Queued /\ Taken' = Taken
  BY ScheduleStep, Zenon DEF CopyInv
<1>2. /\ filling = NoCopy /\ filling' = c /\ c # NoCopy
      /\ vblank[c] = "none" /\ vblank' = vblank
      /\ serialCounter \in Nat /\ serialCounter' = serialCounter + 1
      /\ serial' = [serial EXCEPT ![c] = serialCounter + 1]
  BY Apart, Zenon DEF CopyInv, QueueInv, RingInv, Schedule, NextCopy, XFree
<1>3. serial[c] = 0
  BY <1>2, Zenon DEF CopyInv, SerialInv
<1>4. SerialInv'
  <2>1. /\ serial' \in [Copies -> Nat] /\ serial'[c] = serialCounter + 1
        /\ \A d \in Copies : d # c => serial'[d] = serial[d]
    BY <1>2 DEF CopyInv, SerialInv
  <2>2. \A d \in Copies : serial[d] \in Nat /\ serial[d] <= serialCounter
    BY Zenon DEF CopyInv, SerialInv
  <2>3. \A d \in Copies : serial'[d] <= serialCounter + 1
    BY <1>2, <2>1, <2>2
  <2>4. ASSUME NEW d \in Copies, NEW e \in Copies,
               serial'[d] = serial'[e], serial'[d] # 0
        PROVE  d = e
    BY <1>2, <2>1, <2>2, <2>4 DEF CopyInv, SerialInv
  <2>5. \A d \in Copies : vblank[d] = "none" /\ d # c => serial'[d] = 0
    BY <1>2, <2>1, Apart, Zenon DEF CopyInv, SerialInv
  <2>6. \A d \in Copies : vblank[d] = "polling" => serial'[d] # 0
    BY <1>2, <2>1, Zenon DEF CopyInv, SerialInv
  <2>7. /\ completedSerial' \in Nat
        /\ vblank \in [Copies -> {"none", "polling", "shown", "skipped"}]
    BY Zenon DEF CopyInv, SerialInv, Schedule
  <2>8. \A d, e \in Copies :
           serial'[d] = serial'[e] /\ serial'[d] # 0 => d = e
    BY <2>4, Zenon
  <2>9. QED
    BY <1>2, <2>1, <2>3, <2>5, <2>6, <2>7, <2>8, Zenon DEF SerialInv
<1>5. Taken \in Int /\ 0 <= Taken /\ Taken <= serialCounter
  <2>1. /\ Taken \in Int /\ Queued \in Nat /\ Published = Taken + Queued
        /\ completedSerial \in Nat /\ completedSerial <= Taken
    BY Numbers, Zenon DEF CopyInv, QueueInv, FateInv, SerialInv
  <2>2. Published = serialCounter
    BY <1>2 DEF Published
  <2>3. QED
    BY <1>2, <2>1, <2>2
<1>6. SlotInv'
  <2>1. /\ Queued \in Nat /\ Capacity \in Nat \ {0} /\ Queued < Capacity
        /\ readIndex \in Nat /\ writeIndex \in Nat
    BY Numbers DEF CopyInv, QueueInv, Schedule, RingFull
  <2>2. ASSUME NEW j \in 0 .. Queued - 1
        PROVE  LET e == entries'[(readIndex + j) % Capacity]
               IN  e.copy \in Copies /\ serial'[e.copy] = e.serial
    <3>1. readIndex + j \in Nat
      BY <2>1
    <3>2. (readIndex + Queued) % Capacity # (readIndex + j) % Capacity
      <4>1. PICK a \in Nat, b \in Nat :
               /\ a = readIndex + j /\ b = readIndex + Queued
               /\ a < b /\ b < a + Capacity
        BY <2>1, <3>1
      <4>2. b % Capacity # a % Capacity
        BY <2>1, <4>1, ModDistinct, Zenon
      <4>3. QED
        BY <4>1, <4>2, Zenon
    <3>3. writeIndex % Capacity # (readIndex + j) % Capacity
      BY <3>2, Numbers, Zenon DEF CopyInv, QueueInv
    <3>4. (readIndex + j) % Capacity \in 0 .. Capacity - 1
      BY <2>1, <3>1, ModInRange
    <3>5. PICK e : /\ e = entries[(readIndex + j) % Capacity]
                   /\ e = entries'[(readIndex + j) % Capacity]
      BY <3>3, <3>4, Zenon DEF CopyInv, QueueInv, RingInv, Schedule
    <3>6. /\ e.copy \in Copies /\ serial[e.copy] = e.serial
          /\ e.serial = Taken + 1 + j
      BY <3>5, Zenon DEF CopyInv, QueueInv, RingInv, SlotInv
    <3>7. e.copy # c
      BY <1>3, <1>5, <2>1, <3>6
    <3>8. serial'[e.copy] = serial[e.copy]
      BY <1>2, <3>6, <3>7, Zenon DEF CopyInv, SerialInv
    <3>9. QED
      BY <3>5, <3>6, <3>8, Zenon
  <2>3. entries'[writeIndex % Capacity].copy = c
    <3>1. writeIndex % Capacity \in 0 .. Capacity - 1
      BY <2>1, ModInRange
    <3>2. QED
      BY <3>1, Zenon DEF CopyInv, QueueInv, RingInv, Schedule
  <2>4. pcG = "submit" =>
          entry.copy \in Copies /\ serial'[entry.copy] = entry.serial
    <3>1. HAVE pcG = "submit"
    <3>2. /\ entry.copy \in Copies /\ serial[entry.copy] = entry.serial
          /\ entry.serial = Taken + 1
      BY <3>1, Zenon DEF CopyInv, QueueInv, HandInv, SlotInv
    <3>3. entry.copy # c
      BY <1>3, <1>5, <3>2
    <3>4. QED
      BY <1>2, <3>2, <3>3, Zenon DEF CopyInv, SerialInv
  <2>5. QED
    BY <1>1, <1>2, <2>2, <2>3, <2>4, Zenon DEF SlotInv, Schedule, gpuRenderer
<1>7. FateInv'
  <2>1. \A d \in Copies : d # c => serial'[d] = serial[d]
    BY <1>2, Zenon DEF CopyInv, SerialInv
  <2>2. serial'[c] > Taken /\ serial'[c] # 0
    BY <1>2, <1>5 DEF CopyInv, SerialInv
  <2>3. ~(serial'[c] <= Taken)
    <3>1. serial'[c] \in Nat
      BY <1>2 DEF CopyInv, SerialInv
    <3>2. QED
      BY <1>5, <2>2, <3>1
  <2>4. c \notin batch
    <3>1. completedSerial \in Nat /\ ~(completedSerial < 0)
      BY DEF CopyInv, SerialInv
    <3>2. QED
      BY <1>3, <3>1, Zenon DEF CopyInv, FateInv
  <2>5. /\ \A d \in Copies : serial'[d] # 0 /\ serial'[d] <= Taken =>
              d \in batch \union executed \union dropped
        /\ \A d \in batch : /\ d \in Copies /\ completedSerial < serial'[d]
                            /\ serial'[d] <= Taken
    BY <2>1, <2>3, <2>4, Zenon DEF CopyInv, FateInv
  <2>6. \A d \in Copies : vblank[d] = "shown" =>
          IF serial'[d] = 0 THEN d \in executed
                            ELSE serial'[d] <= completedSerial
    <3>1. ASSUME NEW d \in Copies, vblank[d] = "shown"
          PROVE  d # c
      BY <1>2, <3>1
    <3>2. QED
      BY <2>1, <3>1, Zenon DEF CopyInv, FateInv
  <2>7. QED
    BY <1>1, <2>5, <2>6, Zenon
       DEF CopyInv, FateInv, Schedule, gpuRenderer
<1>8. QED
  BY <1>1, <1>4, <1>6, <1>7, Zenon DEF CopyInv

(* It begins to poll when it is published. *)
LEMMA CopyPublishStep ==
    ASSUME CopyInv, PublishEntry
    PROVE  CopyInv'
<1>1. QueueInv' /\ Queued' = Queued + 1 /\ Taken' = Taken
  BY PublishStep, Zenon DEF CopyInv
<1>2. /\ filling \in Copies /\ filling' = NoCopy
      /\ vblank[filling] = "none" /\ serial[filling] = serialCounter
      /\ vblank' = [vblank EXCEPT ![filling] = "polling"]
  BY Zenon DEF CopyInv, QueueInv, RingInv, SerialInv, PublishEntry
<1>3. /\ entries[(readIndex + Queued) % Capacity].copy = filling
      /\ entries[(readIndex + Queued) % Capacity].serial = serialCounter
  BY Numbers, Zenon DEF CopyInv, QueueInv, RingInv, SlotInv, PublishEntry
<1>4. serialCounter # 0
  <2>1. serialCounter = Taken + Queued + 1
    <3>1. serialCounter \in Nat /\ Published = serialCounter - 1
      BY Zenon DEF CopyInv, QueueInv, RingInv, Published, PublishEntry
    <3>2. Taken \in Int /\ Queued \in Nat /\ Published = Taken + Queued
      BY Numbers, Zenon DEF CopyInv, QueueInv
    <3>3. QED
      BY <3>1, <3>2
  <2>2. Taken \in Int /\ 0 <= Taken /\ Queued \in Nat
    BY Numbers DEF CopyInv, QueueInv, FateInv, SerialInv
  <2>3. QED
    BY <2>1, <2>2
<1>5. SerialInv'
  BY <1>2, <1>4, Apart, Zenon DEF CopyInv, SerialInv, PublishEntry
<1>6. SlotInv'
  <2>1. ASSUME NEW j \in 0 .. Queued' - 1
        PROVE  LET e == entries[(readIndex + j) % Capacity]
               IN  e.copy \in Copies /\ serial[e.copy] = e.serial
    <3>1. j \in 0 .. Queued - 1 \/ j = Queued
      BY <1>1, Numbers DEF CopyInv, QueueInv
    <3>2. QED
      BY <1>2, <1>3, <3>1, Zenon DEF CopyInv, SlotInv
  <2>2. QED
    BY <1>2, <2>1, Zenon DEF CopyInv, SlotInv, PublishEntry, gpuRenderer
<1>7. FateInv'
  BY <1>1, <1>2, Zenon DEF CopyInv, FateInv, SerialInv, PublishEntry, gpuRenderer
<1>8. QED
  BY <1>1, <1>5, <1>6, <1>7, Zenon DEF CopyInv

(* The entry in hand is that of a copy. *)
LEMMA CopyReadStep ==
    ASSUME CopyInv, ReadEntry
    PROVE  CopyInv'
<1>1. QueueInv' /\ Queued' = Queued /\ Taken' = Taken
  BY ReadStep, Zenon DEF CopyInv
<1>2. SerialInv'
  BY Zenon DEF CopyInv, SerialInv, ReadEntry, gpuRing, gpuPresent
<1>3. entry'.copy \in Copies /\ serial[entry'.copy] = entry'.serial
  <2>1. 0 \in 0 .. Queued - 1 /\ readIndex + 0 = readIndex
    BY Numbers DEF CopyInv, QueueInv, ReadEntry
  <2>2. QED
    BY <2>1, Zenon DEF CopyInv, SlotInv, ReadEntry
<1>4. SlotInv'
  BY <1>1, <1>3, Zenon DEF CopyInv, SlotInv, ReadEntry, gpuRing, gpuPresent
<1>5. FateInv'
  BY <1>1, Zenon DEF CopyInv, FateInv, ReadEntry, gpuRing, gpuPresent
<1>6. QED
  BY <1>1, <1>2, <1>4, <1>5, Zenon DEF CopyInv

(* A copy that is taken off is given to the GPU or passed over. *)
LEMMA CopySubmitStep ==
    ASSUME CopyInv, Submit
    PROVE  CopyInv'
<1>1. QueueInv' /\ Queued' = Queued - 1 /\ Taken' = Taken + 1
  BY SubmitStep, Zenon DEF CopyInv
<1>2. /\ entry.copy \in Copies /\ serial[entry.copy] = Taken + 1
      /\ Taken \in Int /\ Queued \in Nat
  BY Numbers, Zenon DEF CopyInv, QueueInv, HandInv, SlotInv, Submit
<1>3. SerialInv'
  BY Zenon DEF CopyInv, SerialInv, Submit, gpuPresent
<1>4. SlotInv'
  <2>1. ASSUME NEW j \in 0 .. Queued' - 1
        PROVE  LET e == entries[(readIndex' + j) % Capacity]
               IN  e.copy \in Copies /\ serial[e.copy] = e.serial
    <3>1. j \in Nat /\ j + 1 \in 0 .. Queued - 1
      BY <1>1, <1>2
    <3>2. (readIndex' + j) % Capacity = (readIndex + (j + 1)) % Capacity
      BY <3>1, SlotShift, Zenon DEF CopyInv, QueueInv, RingInv, Submit
    <3>3. QED
      BY <3>1, <3>2, Zenon DEF CopyInv, SlotInv
  <2>2. QED
    BY <2>1, Zenon DEF CopyInv, SlotInv, Submit, gpuPresent
<1>5. FateInv'
  <2>1. ASSUME NEW c \in Copies, serial[c] # 0, serial[c] <= Taken + 1
        PROVE  c \in batch' \union executed \union dropped'
    <3>1. CASE serial[c] <= Taken
      BY <2>1, <3>1, Zenon DEF CopyInv, FateInv, Submit
    <3>2. CASE serial[c] = Taken + 1
      <4>1. c = entry.copy
        BY <1>2, <2>1, <3>2, Zenon DEF CopyInv, SerialInv
      <4>2. QED
        BY <4>1, Zenon DEF Submit
    <3>3. QED
      BY <1>2, <2>1, <3>1, <3>2 DEF CopyInv, SerialInv
  <2>2. ASSUME NEW c \in batch'
        PROVE  /\ c \in Copies /\ completedSerial < serial[c]
               /\ serial[c] <= Taken + 1
    <3>1. c \in batch \/ c = entry.copy
      BY Zenon DEF Submit
    <3>2. QED
      BY <1>2, <3>1 DEF CopyInv, FateInv, SerialInv
  <2>3. completedSerial <= Taken + 1
    BY <1>2 DEF CopyInv, FateInv, SerialInv
  <2>4. QED
    BY <1>1, <2>1, <2>2, <2>3, Zenon DEF CopyInv, FateInv, Submit, gpuPresent
<1>6. QED
  BY <1>1, <1>3, <1>4, <1>5, Zenon DEF CopyInv

(* After the fence all copies given to the GPU are made. *)
LEMMA CopyFenceStep ==
    ASSUME CopyInv, Fence
    PROVE  CopyInv'
<1>1. QueueInv' /\ Queued' = Queued /\ Taken' = Taken
  BY FenceStep, Zenon DEF CopyInv
<1>2. SerialInv'
  BY Zenon DEF CopyInv, SerialInv, Fence, gpuRing, gpuPresent
<1>3. SlotInv'
  BY <1>1, Zenon DEF CopyInv, SlotInv, Fence, gpuRing, gpuPresent
<1>4. FateInv'
  BY <1>1, Zenon DEF CopyInv, FateInv, Fence, gpuRing, gpuPresent
<1>5. QED
  BY <1>1, <1>2, <1>3, <1>4, Zenon DEF CopyInv

(* completedSerial moves on when none is on the GPU. *)
LEMMA CopySerialStep ==
    ASSUME CopyInv, PublishSerial
    PROVE  CopyInv'
<1>1. /\ QueueInv' /\ Queued' = Queued /\ Taken' = Taken
      /\ completedSerial' = Taken /\ Taken \in Int
  BY SerialStep, Numbers, Zenon DEF CopyInv, QueueInv, HandInv, PublishSerial
<1>2. completedSerial' \in Nat
  BY <1>1 DEF CopyInv, FateInv, SerialInv
<1>3. SerialInv'
  BY <1>2, Zenon DEF CopyInv, SerialInv, PublishSerial, gpuPresent
<1>4. SlotInv'
  BY <1>1, Zenon DEF CopyInv, SlotInv, PublishSerial, gpuPresent
<1>5. FateInv'
  <2>1. batch = {}
    BY Zenon DEF CopyInv, FateInv, PublishSerial
  <2>2. completedSerial' <= Taken
    BY <1>1
  <2>3. ASSUME NEW c \in Copies, vblank[c] = "shown"
        PROVE  IF serial[c] = 0 THEN c \in executed
                                ELSE serial[c] <= completedSerial'
    <3>1. serial[c] \in Nat /\ completedSerial \in Nat /\ completedSerial <= Taken
      BY Zenon DEF CopyInv, FateInv, SerialInv
    <3>2. IF serial[c] = 0 THEN c \in executed ELSE serial[c] <= completedSerial
      BY <2>3, Zenon DEF CopyInv, FateInv
    <3>3. QED
      BY <1>1, <3>1, <3>2
  <2>4. QED
    BY <1>1, <2>1, <2>2, <2>3, Zenon
       DEF CopyInv, FateInv, PublishSerial, gpuPresent
<1>6. QED
  BY <1>1, <1>3, <1>4, <1>5, Zenon DEF CopyInv

(* The copies on the GPU of a renderer that dies are passed over. *)
LEMMA CopyDieStep ==
    ASSUME CopyInv, Die
    PROVE  CopyInv'
<1>1. QueueInv' /\ Queued' = Queued /\ Taken' = Taken
  BY DieStep, Zenon DEF CopyInv
<1>2. SerialInv'
  BY Zenon DEF CopyInv, SerialInv, Die, gpuRing, gpuPresent
<1>3. SlotInv'
  BY <1>1, Zenon DEF CopyInv, SlotInv, Die, gpuRing, gpuPresent
<1>4. FateInv'
  BY <1>1, Zenon DEF CopyInv, FateInv, Die, gpuRing, gpuPresent
<1>5. QED
  BY <1>1, <1>2, <1>3, <1>4, Zenon DEF CopyInv

(* Every step preserves the invariant. *)
LEMMA CopyNext ==
    ASSUME CopyInv, [GpuNext]_gpuVars
    PROVE  CopyInv'
<1>1. CASE UNCHANGED gpuVars
  BY <1>1, CopyQuietStep, Zenon DEF gpuVars, gpuPresent, gpuRenderer
<1>2. ASSUME NEW c \in Copies, Scrap(c) \/ PollStalled(c)
      PROVE  CopyInv'
  BY <1>2, CopyQuietStep, Zenon DEF Scrap, PollStalled, gpuRenderer
<1>3. CASE Resize \/ Connect \/ Disconnect
  BY <1>3, CopyQuietStep, Zenon
     DEF Resize, Connect, Disconnect, gpuPresent, gpuRenderer
<1>4. CASE MapState \/ UnmapState \/ \E w \in BOOLEAN : SetWindow(w)
  BY <1>4, CopyQuietStep, Zenon DEF MapState, UnmapState, SetWindow, gpuPresent
<1>5. QED
  BY <1>1, <1>2, <1>3, <1>4, CopyCpuStep, CopyDoneStep, CopyScheduleStep,
     CopyPublishStep, CopyReadStep, CopySubmitStep, CopyFenceStep,
     CopySerialStep, CopyDieStep, Zenon
     DEF GpuNext, GpuX, GpuR

(* It holds at first. *)
LEMMA CopyStart ==
    ASSUME GpuInit
    PROVE  CopyInv
<1>1. QueueInv /\ Earlier \in Nat
  BY QueueStart, RingAssumption, Zenon DEF RingAssumption
<1>2. Queued = 0 /\ Taken = Earlier
  BY QueueStart, Zenon
<1>3. SerialInv
  BY <1>1 DEF GpuInit, SerialInv
<1>4. SlotInv
  BY <1>2 DEF GpuInit, SlotInv
<1>5. FateInv
  BY <1>1, <1>2 DEF GpuInit, FateInv
<1>6. QED
  BY <1>1, <1>3, <1>4, <1>5, Zenon DEF CopyInv

(* It says what ShownIsMade says. *)
LEMMA CopyImplies ==
    ASSUME CopyInv
    PROVE  ShownIsMade
<1> SUFFICES ASSUME NEW c \in Copies, vblank[c] = "shown"
             PROVE  c \in executed \union dropped /\ c \notin InRing \union batch
  BY Zenon DEF ShownIsMade
<1>1. serial[c] = 0 \/ serial[c] <= completedSerial
  BY Zenon DEF CopyInv, FateInv
<1>2. /\ serial[c] \in Nat /\ completedSerial \in Nat /\ Taken \in Int
      /\ completedSerial <= Taken /\ Queued \in Nat
  BY Numbers, Zenon DEF CopyInv, QueueInv, FateInv, SerialInv
<1>3. c \notin batch
  <2>1. ~(completedSerial < serial[c])
    BY <1>1, <1>2
  <2>2. QED
    BY <2>1, Zenon DEF CopyInv, FateInv
<1>4. c \in executed \union dropped
  BY <1>1, <1>2, <1>3 DEF CopyInv, FateInv
<1>5. ASSUME NEW j \in 0 .. Queued - 1
      PROVE  entries[(readIndex + j) % Capacity].copy # c
  <2>1. PICK e : e = entries[(readIndex + j) % Capacity]
    OBVIOUS
  <2>2. serial[e.copy] = Taken + 1 + j
    BY <2>1, Zenon DEF CopyInv, QueueInv, RingInv, SlotInv
  <2>3. QED
    BY <1>1, <1>2, <2>1, <2>2
<1>6. QED
  BY <1>3, <1>4, <1>5, Zenon DEF InRing

(* Every copy that was taken off the ring is on the GPU, made or passed    *)
(* over, and none that completedSerial covers is still on the GPU.         *)
THEOREM CopyInvCorrect == GpuSpec => []CopyInv
<1>1. GpuInit => CopyInv
  BY CopyStart, Zenon
<1>2. CopyInv /\ [GpuNext]_gpuVars => CopyInv'
  BY CopyNext, Zenon
<1>3. QED
  BY <1>1, <1>2, PTL DEF GpuSpec

(* What the X server reports as presented was made or passed over, and the *)
(* GPU no longer reads its source, for every capacity and number of copies.*)
THEOREM ShownIsMadeCorrect == GpuSpec => []ShownIsMade
<1>1. CopyInv => ShownIsMade
  BY CopyImplies, Zenon
<1>2. QED
  BY <1>1, CopyInvCorrect, PTL

-----------------------------------------------------------------------------
(* What is counted. *)

(* The copies that poll are finitely many. *)
LEMMA PendingFinite ==
    ASSUME CopyInv, AckedOnce
    PROVE  /\ gpuPending \subseteq Copies /\ IsFiniteSet(gpuPending)
           /\ NoCopy \notin gpuPending
<1>1. IsFiniteSet(Copies)
  BY FS_Interval, RingAssumption DEF Copies, RingAssumption
<1>2. gpuPending \subseteq Copies
  BY Zenon DEF AckedOnce
<1>3. QED
  BY <1>1, <1>2, FS_Subset, Apart, Zenon DEF CopyInv

(* A copy that polled polls no longer. *)
LEMMA AckStep ==
    ASSUME CopyInv, AckedOnce, NEW c \in Copies, NEW v \in {"shown", "skipped"},
           XFree, vblank[c] = "polling", Ack(c), filling' = filling,
           vblank' = [vblank EXCEPT ![c] = v]
    PROVE  AckedOnce'
<1>1. c \in gpuPending /\ filling = NoCopy
  BY Zenon DEF AckedOnce, XFree
<1>2. gpuPending' = gpuPending \ {c} /\ rootPending' = rootPending - 1
  BY <1>1, Zenon DEF Ack
<1>3. rootPending = Cardinality(gpuPending)
  <2>1. gpuPending \union ({filling} \ {NoCopy}) = gpuPending
    BY <1>1, Zenon
  <2>2. QED
    BY <2>1, Zenon DEF AckedOnce
<1>4. Cardinality(gpuPending \ {c}) = Cardinality(gpuPending) - 1
  BY <1>1, PendingFinite, FS_RemoveElement, Zenon
<1>5. gpuPending' = {d \in Copies : vblank'[d] = "polling"}
  BY <1>1, <1>2, Zenon DEF AckedOnce, CopyInv, SerialInv
<1>6. gpuPending' \union ({filling'} \ {NoCopy}) = gpuPending \ {c}
  BY <1>1, <1>2, Zenon
<1>7. QED
  BY <1>2, <1>3, <1>4, <1>5, <1>6, Zenon DEF AckedOnce

(* Every step keeps the count. *)
LEMMA AckNext ==
    ASSUME CopyInv, AckedOnce, [GpuNext]_gpuVars
    PROVE  AckedOnce'
<1>1. ASSUME UNCHANGED <<vblank, gpuPending, rootPending, filling>>
      PROVE  AckedOnce'
  BY <1>1, Zenon DEF AckedOnce
<1>2. ASSUME NEW c \in Copies, CopyByCpu(c)
      PROVE  AckedOnce'
  <2>1. vblank[c] = "none" /\ vblank' = [vblank EXCEPT ![c] = "shown"]
    BY <1>2, Zenon DEF CopyByCpu, NextCopy
  <2>2. {d \in Copies : vblank'[d] = "polling"}
          = {d \in Copies : vblank[d] = "polling"}
    BY <2>1, Zenon DEF CopyInv, SerialInv
  <2>3. QED
    BY <1>2, <2>2, Zenon DEF AckedOnce, CopyByCpu
<1>3. ASSUME NEW c \in Copies, Schedule(c)
      PROVE  AckedOnce'
  <2>1. /\ filling = NoCopy /\ filling' = c /\ c # NoCopy
        /\ rootPending' = rootPending + 1
        /\ vblank[c] = "none" /\ UNCHANGED <<vblank, gpuPending>>
    BY <1>3, Apart, Zenon DEF CopyInv, Schedule, NextCopy, XFree
  <2>2. c \notin gpuPending
    BY <2>1, Zenon DEF AckedOnce
  <2>3. Cardinality(gpuPending \union {c}) = Cardinality(gpuPending) + 1
    BY <2>2, PendingFinite, FS_AddElement, Zenon
  <2>4. /\ gpuPending \union ({filling} \ {NoCopy}) = gpuPending
        /\ gpuPending' \union ({filling'} \ {NoCopy}) = gpuPending \union {c}
    BY <2>1, Zenon
  <2>5. QED
    BY <2>1, <2>3, <2>4, Zenon DEF AckedOnce
<1>4. CASE PublishEntry
  <2>1. /\ filling \in Copies /\ filling # NoCopy /\ filling' = NoCopy
        /\ gpuPending' = gpuPending \union {filling}
        /\ vblank' = [vblank EXCEPT ![filling] = "polling"]
        /\ rootPending' = rootPending
    BY <1>4, Zenon DEF CopyInv, QueueInv, RingInv, PublishEntry
  <2>2. gpuPending' = {d \in Copies : vblank'[d] = "polling"}
    BY <2>1, Zenon DEF AckedOnce, CopyInv, SerialInv
  <2>3. gpuPending' \union ({filling'} \ {NoCopy})
          = gpuPending \union ({filling} \ {NoCopy})
    BY <2>1, Zenon
  <2>4. QED
    BY <2>1, <2>2, <2>3, Zenon DEF AckedOnce
<1>5. ASSUME NEW c \in Copies, Scrap(c) \/ PollDone(c) \/ PollStalled(c)
      PROVE  AckedOnce'
  BY <1>5, AckStep, Zenon DEF Scrap, PollDone, PollStalled
<1>6. CASE \/ Resize \/ Connect \/ Disconnect \/ Die \/ MapState \/ UnmapState
           \/ \E w \in BOOLEAN : SetWindow(w)
  BY <1>1, <1>6, Zenon DEF Resize, Connect, Disconnect, Die, MapState, UnmapState,
                    SetWindow, gpuPresent
<1>7. CASE ReadEntry \/ Submit \/ Fence \/ PublishSerial
  BY <1>1, <1>7, Zenon DEF ReadEntry, Submit, Fence, PublishSerial, gpuPresent
<1>8. CASE UNCHANGED gpuVars
  BY <1>1, <1>8, Zenon DEF gpuVars, gpuPresent
<1>9. QED
  BY <1>2, <1>3, <1>4, <1>5, <1>6, <1>7, <1>8, Zenon DEF GpuNext, GpuX, GpuR

(* rootGpuCopyPending is the number of copies that poll or are being       *)
(* scheduled: every copy is acknowledged exactly once.                     *)
THEOREM AckedOnceCorrect == GpuSpec => []AckedOnce
<1>1. GpuInit => AckedOnce
  <2> SUFFICES ASSUME GpuInit PROVE AckedOnce
    OBVIOUS
  <2>1. gpuPending \union ({filling} \ {NoCopy}) = {}
    BY Zenon DEF GpuInit
  <2>2. gpuPending = {c \in Copies : vblank[c] = "polling"}
    BY Zenon DEF GpuInit
  <2>3. QED
    BY <2>1, <2>2, FS_EmptySet, Zenon DEF GpuInit, AckedOnce
<1>2. CopyInv /\ AckedOnce /\ [GpuNext]_gpuVars => AckedOnce'
  BY AckNext, Zenon
<1>3. QED
  BY <1>1, <1>2, CopyInvCorrect, PTL DEF GpuSpec

-----------------------------------------------------------------------------
(* The first connection. *)

(* The copies that poll and were not taken off are in the ring. *)
LEMMA PollingInRing ==
    ASSUME CopyInv, NEW c \in Copies, vblank[c] = "polling", Taken < serial[c]
    PROVE  c \in InRing
<1>1. /\ Taken \in Int /\ Queued \in Nat /\ Published = Taken + Queued
      /\ serial[c] \in Nat /\ serial[c] # 0 /\ serialCounter \in Nat
      /\ serial[c] <= serialCounter
  BY Numbers, Zenon DEF CopyInv, QueueInv, RingInv, SerialInv
<1>2. serial[c] <= Published
  <2>1. CASE filling = NoCopy
    BY <1>1, <2>1 DEF Published
  <2>2. CASE filling # NoCopy
    <3>1. /\ filling \in Copies /\ vblank[filling] = "none"
          /\ serial[filling] = serialCounter
      BY <2>2, Zenon DEF CopyInv, QueueInv, RingInv, SerialInv
    <3>2. serial[c] # serialCounter
      BY <1>1, <3>1, Zenon DEF CopyInv, SerialInv
    <3>3. QED
      BY <1>1, <2>2, <3>2 DEF Published
  <2>3. QED
    BY <2>1, <2>2, Zenon
<1>3. PICK j \in 0 .. Queued - 1 : serial[c] = Taken + 1 + j
  <2>1. PICK n \in Nat, t \in Int, q \in Nat :
           n = serial[c] /\ t = Taken /\ q = Queued /\ t < n /\ n <= t + q
    BY <1>1, <1>2, Zenon
  <2>2. \E j \in 0 .. q - 1 : n = t + 1 + j
    <3>1. n - t - 1 \in 0 .. q - 1 /\ n = t + 1 + (n - t - 1)
      BY <2>1
    <3>2. QED
      BY <3>1, Zenon
  <2>3. QED
    BY <2>1, <2>2, Zenon
<1>4. PICK e : e = entries[(readIndex + j) % Capacity]
  OBVIOUS
<1>5. e.copy \in Copies /\ serial[e.copy] = serial[c]
  BY <1>3, <1>4, Zenon DEF CopyInv, QueueInv, RingInv, SlotInv
<1>6. e.copy = c
  BY <1>1, <1>5, Zenon DEF CopyInv, SerialInv
<1>7. QED
  BY <1>4, <1>6, Zenon DEF InRing

(* A step within the first connection, one action at a time. *)
LEMMA FirstNext ==
    ASSUME CopyInv, FirstInv, [GpuNext]_gpuVars
    PROVE  FirstInv'
<1>1. ASSUME UNCHANGED <<gpuRing, serial, serialCounter, filling, pcG, entry,
                         connG, connNo, sentOn, mapNo, dropped, stale, losses>>
      PROVE  FirstInv'
  <2>1. Taken' = Taken
    BY <1>1, QuietStep, Zenon DEF CopyInv
  <2>2. QED
    BY <1>1, <2>1, Zenon DEF FirstInv, gpuRing
<1>2. ASSUME NEW c \in Copies,
             CopyByCpu(c) \/ Scrap(c) \/ PollDone(c) \/ PollStalled(c)
      PROVE  FirstInv'
  BY <1>1, <1>2, Zenon DEF CopyByCpu, Scrap, PollDone, PollStalled, gpuRenderer
<1>3. ASSUME NEW c \in Copies, Schedule(c)
      PROVE  FirstInv'
  <2>1. Taken' = Taken
    BY <1>3, ScheduleStep, Zenon DEF CopyInv
  <2>2. /\ connG /\ sentOn' = [sentOn EXCEPT ![c] = connNo]
        /\ UNCHANGED <<completedSerial, connG, connNo, pcG, mapNo, dropped,
                       stale, losses>>
    BY <1>3, Zenon DEF Schedule, GpuCopyStalled, gpuRenderer
  <2>3. \A d \in Copies : d # c => serial'[d] = serial[d]
    BY <1>3, Zenon DEF Schedule, CopyInv, SerialInv
  <2>4. losses = 0 => /\ sentOn' \in [Copies -> {NoConn, 1}]
                      /\ \A d \in Copies : serial'[d] # 0 => sentOn'[d] = 1
    BY <2>2, <2>3, Zenon DEF FirstInv
  <2>5. QED
    BY <2>1, <2>2, <2>4, Zenon DEF FirstInv
<1>4. CASE PublishEntry
  <2>1. Taken' = Taken
    BY <1>4, PublishStep, Zenon DEF CopyInv
  <2>2. QED
    BY <1>4, <2>1, Zenon DEF FirstInv, PublishEntry, gpuRenderer
<1>5. CASE Resize
  <2>1. Taken' = Taken
    BY <1>5, QuietStep, Zenon DEF CopyInv, Resize, gpuPresent, gpuRenderer
  <2>2. stale \subseteq stale'
    BY <1>5, Zenon DEF Resize
  <2>3. QED
    BY <1>5, <2>1, <2>2, Zenon DEF FirstInv, Resize, gpuRing, gpuPresent, gpuRenderer
<1>6. CASE Connect \/ MapState \/ UnmapState
  <2>1. Taken' = Taken
    BY <1>6, QuietStep, Zenon
       DEF CopyInv, Connect, MapState, UnmapState, gpuPresent, gpuRenderer
  <2>2. CASE Connect
    <3>1. 0 + 1 = 1 /\ NoConn # 1
      BY DEF NoConn
    <3>2. losses = 0 => connNo = NoConn /\ connNo' = 1 /\ connG' /\ mapNo = NoConn
      BY <2>2, <3>1, Zenon DEF FirstInv, Connect, NoConn
    <3>3. QED
      BY <2>1, <2>2, <3>1, <3>2, Zenon
         DEF FirstInv, Connect, gpuRing, gpuPresent, gpuRenderer
  <2>3. CASE MapState
    BY <2>1, <2>3, Zenon DEF FirstInv, MapState, gpuRing, gpuPresent
  <2>4. CASE UnmapState
    <3>1. NoConn # 1
      BY DEF NoConn
    <3>2. losses # 0
      BY <2>4, <3>1, Zenon DEF FirstInv, UnmapState
    <3>3. QED
      BY <2>4, <3>2, Zenon DEF FirstInv, UnmapState
  <2>5. QED
    BY <1>6, <2>2, <2>3, <2>4, Zenon
<1>7. CASE Disconnect \/ Die
  BY <1>7 DEF FirstInv, Disconnect, Die
<1>8. ASSUME NEW w \in BOOLEAN, SetWindow(w)
      PROVE  FirstInv'
  BY <1>1, <1>8, Zenon DEF SetWindow, gpuPresent
<1>9. CASE ReadEntry
  <2>1. Taken' = Taken
    BY <1>9, ReadStep, Zenon DEF CopyInv
  <2>2. QED
    BY <1>9, <2>1, Zenon DEF FirstInv, ReadEntry, gpuRing, gpuPresent
<1>10. CASE Submit
  <2>1. losses = 0 => dropped' \subseteq stale
    <3>1. HAVE losses = 0
    <3>2. entry.copy \in Copies /\ serial[entry.copy] # 0
      <4>1. /\ entry.copy \in Copies /\ serial[entry.copy] = Taken + 1
            /\ Taken \in Int /\ completedSerial \in Nat
            /\ completedSerial <= Taken
        BY <1>10, Numbers, Zenon
           DEF CopyInv, QueueInv, HandInv, SlotInv, FateInv, SerialInv, Submit
      <4>2. QED
        BY <4>1
    <3>3. sentOn[entry.copy] = mapNo
      BY <1>10, <3>1, <3>2, Zenon DEF FirstInv, Submit
    <3>4. QED
      BY <1>10, <3>1, <3>3, Zenon DEF FirstInv, Submit
  <2>2. QED
    BY <1>10, <2>1, Zenon DEF FirstInv, Submit, gpuPresent
<1>11. CASE Fence
  BY <1>11, Zenon DEF FirstInv, Fence, gpuRing, gpuPresent
<1>12. CASE PublishSerial
  <2>1. completedSerial' = Taken'
    BY <1>12, SerialStep, Zenon DEF CopyInv, QueueInv, HandInv, PublishSerial
  <2>2. QED
    BY <1>12, <2>1, Zenon DEF FirstInv, PublishSerial, gpuPresent
<1>13. CASE UNCHANGED gpuVars
  BY <1>1, <1>13, Zenon DEF gpuVars, gpuPresent, gpuRenderer
<1>14. QED
  BY <1>2, <1>3, <1>4, <1>5, <1>6, <1>7, <1>8, <1>9, <1>10, <1>11, <1>12,
     <1>13, Zenon
     DEF GpuNext, GpuX, GpuR

(* Within the first connection every copy that polls is reported some time *)
(* or still under way, and only a resize makes the renderer pass one over. *)
THEOREM NothingLostCorrect == GpuSpec => []NothingLost
<1>1. GpuInit => FirstInv
  <2> SUFFICES ASSUME GpuInit PROVE FirstInv
    OBVIOUS
  <2>1. Taken = Earlier
    BY QueueStart, Zenon
  <2>2. QED
    BY <2>1 DEF GpuInit, FirstInv, NoConn
<1>2. CopyInv /\ FirstInv /\ [GpuNext]_gpuVars => FirstInv'
  BY FirstNext, Zenon
<1>3. CopyInv /\ FirstInv => NothingLost
  <2> SUFFICES ASSUME CopyInv, FirstInv, losses = 0
               PROVE  /\ dropped \subseteq stale
                      /\ \A c \in Copies : ~Orphaned(c)
    BY Zenon DEF NothingLost
  <2>1. dropped \subseteq stale
    BY Zenon DEF FirstInv
  <2>2. ASSUME NEW c \in Copies, Orphaned(c)
        PROVE  FALSE
    <3>1. Taken < serial[c]
      <4>1. /\ completedSerial = Taken /\ Taken \in Int
            /\ serial[c] \in Nat /\ ~(completedSerial >= serial[c])
        BY <2>2, Numbers, Zenon
           DEF CopyInv, QueueInv, SerialInv, FirstInv, Orphaned, IsDone
      <4>2. QED
        BY <4>1
    <3>2. QED
      BY <2>2, <3>1, PollingInRing, Zenon DEF Orphaned
  <2>3. QED
    BY <2>1, <2>2, Zenon
<1>4. QED
  BY <1>1, <1>2, <1>3, CopyInvCorrect, PTL DEF GpuSpec
=============================================================================
