------------------------ MODULE BufferedChannelProofs ------------------------
(***************************************************************************)
(* Proofs about BufferedChannel for any set of fibers and of workers, any  *)
(* messages, any capacity and any modulus of the indices the assumptions   *)
(* allow.                                                                  *)
(*                                                                         *)
(* The argument has three layers.                                          *)
(*                                                                         *)
(*   - RingQueue is a FIFO (RingPushes, RingPops): Contents of the ring after    *)
(*     TryPush is an Append, after TryPop a Tail.  The slots of the        *)
(*     indices differ as long as a turn of the indices at the modulus      *)
(*     keeps the slots, or has not happened yet: that is what the last     *)
(*     conjunct of ChannelAssumption is for, and RingKept bounds tail_ by  *)
(*     the messages that have been through the ring.                       *)
(*   - Every handle of the channel is in one place: in the list of         *)
(*     waiters, once, or in the hands of the one fiber about to schedule   *)
(*     it (HandlesInPlace, Errands), and what a call has in its local      *)
(*     variables follows from where its fiber is (Locals).                 *)
(*   - lock() keeps the others out from the test of the ring to the push   *)
(*     into the list, though the fiber that took it is suspended in        *)
(*     between and its awaiter releases it (LockKept).  So the ring is     *)
(*     still full, or empty, when the awaiter joins the list, and the      *)
(*     waiters are senders before a full ring or receivers before an       *)
(*     empty one, never both (WaitersAreOfAKind).                          *)
(*                                                                         *)
(* ChannelInv is the conjunction of these and inductive together with the  *)
(* types; the two refinements follow from it step by step.                 *)
(***************************************************************************)
EXTENDS BufferedChannel, FiberRuntimeProofs, FiniteSetTheorems

\* What division by the capacity and by the modulus comes to.
LEMMA Remainder == \A a \in Int : (a % Capacity) \in Slots
  BY RingAssumption DEF Slots

LEMMA Quotient ==
  \A a \in Int : \E q \in Int, r \in Int : a = Capacity * q + r /\ r = (a % Capacity)
  BY RingAssumption

LEMMA Distributes ==
  ASSUME NEW c \in Int, NEW p \in Int, NEW q \in Int
  PROVE  /\ c * (q - p) = c * q - c * p /\ c * (q + p) = c * q + c * p
         /\ c * q \in Int /\ c * p \in Int
  OBVIOUS

LEMMA MultipleIsFar ==
  ASSUME NEW c \in Nat \ {0}, NEW p \in Int
  PROVE  /\ p > 0 => c * p >= c
         /\ p < 0 => c * p < 0
  OBVIOUS

LEMMA RemainderIs ==
  ASSUME NEW a \in Int, NEW q \in Int, NEW r \in Slots, a = Capacity * q + r
  PROVE  (a % Capacity) = r
  BY RingAssumption DEF Slots

\* Less than Capacity consecutive indices have different slots.
LEMMA SlotsDiffer ==
  ASSUME NEW a \in Nat, NEW b \in Nat, a <= b, b - a < Capacity,
         (a % Capacity) = (b % Capacity)
  PROVE  a = b
<1>1. PICK p \in Int, r \in Int : a = Capacity * p + r /\ r = (a % Capacity)
  BY Quotient
<1>2. PICK q \in Int, s \in Int : b = Capacity * q + s /\ s = (b % Capacity)
  BY Quotient
<1>3. b - a = Capacity * (q - p)
  <2>1. /\ Capacity * (q - p) = Capacity * q - Capacity * p
        /\ Capacity * q \in Int /\ Capacity * p \in Int
    BY Distributes, RingAssumption
  <2>2. a = Capacity * p + r /\ b = Capacity * q + r
    BY <1>1, <1>2
  <2> QED
    BY <2>1, <2>2
<1>4. q - p = 0
  BY <1>3, MultipleIsFar, RingAssumption
<1>5. b - a = 0
  BY <1>3, <1>4, RingAssumption
<1> QED
  BY <1>5

\* Where the capacity divides the modulus, a turn of the indices is one of the slots.
LEMMA TurnKeepsSlot ==
  ASSUME (WordSize % Capacity) = 0, NEW a \in Int
  PROVE  ((a + WordSize) % Capacity) = (a % Capacity)
<1>0. WordSize \in Int /\ Capacity \in Int
  BY RingAssumption
<1>1. PICK p \in Int, r \in Int : a = Capacity * p + r /\ r = (a % Capacity)
  BY Quotient
<1>2. PICK q \in Int, s \in Int : WordSize = Capacity * q + s /\ s = (WordSize % Capacity)
  BY <1>0, Quotient
<1>3. a + WordSize = Capacity * (q + p) + r
  <2>1. /\ Capacity * (q + p) = Capacity * q + Capacity * p
        /\ Capacity * q \in Int /\ Capacity * p \in Int
    BY <1>0, Distributes
  <2>2. a = Capacity * p + r /\ WordSize = Capacity * q
    BY <1>0, <1>1, <1>2, Distributes
  <2> QED
    BY <2>1, <2>2
<1>4. r \in Slots
  BY <1>1, Remainder
<1>5. a + WordSize \in Int /\ q + p \in Int
  BY <1>0
<1> QED
  BY <1>1, <1>3, <1>4, <1>5, RemainderIs

LEMMA Wrapped ==
  ASSUME NEW a \in -1 .. 2 * WordSize - 1
  PROVE  (a % WordSize) = IF a < 0 THEN a + WordSize ELSE IF a < WordSize THEN a ELSE a - WordSize
  BY RingAssumption

LEMMA IncrementIs ==
  ASSUME NEW a \in 0 .. WordSize - 1
  PROVE  Increment(a) = IF a + 1 < WordSize THEN a + 1 ELSE 0
  BY RingAssumption DEF Increment

-----------------------------------------------------------------------------
\* The slot of the k-th index from head_ on.
Place(r, k) == ((r.head + k) % WordSize) % Capacity

\* The indices have not turned over, or it does not matter.
Straight(r) == (WordSize % Capacity) = 0 \/ r.head < r.tail

\* tail_ is ahead of head_ by the elements and one more, at the modulus.
LEMMA Indices ==
  ASSUME NEW Items, NEW r, RingOK(r, Items)
  PROVE  /\ r.head \in 0 .. WordSize - 1 /\ r.tail \in 0 .. WordSize - 1
         /\ Size(r) \in 0 .. Capacity
         /\ Minus(r.tail, r.head) = Size(r) + 1
         /\ r.tail = IF r.head + Size(r) + 1 < WordSize THEN r.head + Size(r) + 1
                     ELSE r.head + Size(r) + 1 - WordSize
<1>1. r.head \in 0 .. WordSize - 1 /\ r.tail \in 0 .. WordSize - 1 /\ Size(r) <= Capacity
  BY DEF RingOK
<1>2. Minus(r.tail, r.head) = IF r.tail < r.head THEN r.tail - r.head + WordSize
                              ELSE r.tail - r.head
  <2>1. r.tail - r.head \in -(WordSize - 1) .. WordSize - 1
    BY <1>1, RingAssumption
  <2> QED
    BY <1>1, <2>1, RingAssumption DEF Minus
<1> DEFINE d == Minus(r.tail, r.head)
<1>3. d \in 0 .. WordSize - 1
  BY <1>1, <1>2, RingAssumption
<1>4. Size(r) = IF d = 0 THEN WordSize - 1 ELSE d - 1
  BY <1>3, Wrapped, RingAssumption DEF Size, Minus
<1> HIDE DEF d
<1>5. d # 0 /\ Size(r) = d - 1
  BY <1>1, <1>3, <1>4, RingAssumption
<1> QED
  BY <1>1, <1>2, <1>3, <1>5, RingAssumption DEF d

\* And the other way round: indices so far apart hold so many elements.
LEMMA SizeIs ==
  ASSUME NEW r, r.head \in 0 .. WordSize - 1, r.tail \in 0 .. WordSize - 1,
         NEW n \in 0 .. Capacity,
         r.tail = IF r.head + n + 1 < WordSize THEN r.head + n + 1
                  ELSE r.head + n + 1 - WordSize
  PROVE  Size(r) = n
<1>1. Minus(r.tail, r.head) = n + 1
  <2>1. r.tail - r.head = n + 1 \/ r.tail - r.head = n + 1 - WordSize
    BY RingAssumption
  <2> QED
    BY <2>1, RingAssumption DEF Minus
<1>2. Minus(n + 1, 1) = n
  BY RingAssumption DEF Minus
<1> QED
  BY <1>1, <1>2 DEF Size

\* A slot by its distance from head_, the indices turned over or not.
LEMMA PlaceIs ==
  ASSUME NEW Items, NEW r, RingOK(r, Items), Straight(r), NEW k \in 0 .. Size(r)
  PROVE  Place(r, k) = ((r.head + k) % Capacity)
<1>1. /\ r.head \in 0 .. WordSize - 1 /\ k \in 0 .. Capacity
      /\ r.head < r.tail => r.head + k < WordSize
  BY Indices, RingAssumption
<1> DEFINE a == r.head + k
<1>2. a \in 0 .. 2 * WordSize - 1 /\ (r.head < r.tail => a < WordSize)
  BY <1>1, RingAssumption
<1>3. Place(r, k) = ((a % WordSize) % Capacity)
  BY DEF Place
<1> HIDE DEF a
<1>4. CASE a < WordSize
  <2>1. (a % WordSize) = a
    BY <1>2, <1>4, Wrapped, RingAssumption
  <2> QED
    BY <1>3, <2>1 DEF a
<1>5. CASE a >= WordSize
  <2>1. (WordSize % Capacity) = 0
    BY <1>2, <1>5, RingAssumption DEF Straight
  <2> DEFINE b == a - WordSize
  <2>2. b \in Int /\ b + WordSize = a /\ (a % WordSize) = b
    BY <1>2, <1>5, Wrapped, RingAssumption
  <2> HIDE DEF b
  <2>3. ((b + WordSize) % Capacity) = (b % Capacity)
    BY <2>1, <2>2, TurnKeepsSlot
  <2> QED
    BY <1>3, <2>2, <2>3 DEF a
<1> QED
  BY <1>2, <1>4, <1>5, RingAssumption

\* The slots of the elements, and the free one after them, are different.
LEMMA PlacesDiffer ==
  ASSUME NEW Items, NEW r, RingOK(r, Items), Straight(r),
         NEW j \in 0 .. Size(r), NEW k \in 0 .. Size(r), j < k, k - j < Capacity
  PROVE  Place(r, j) # Place(r, k)
<1>1. /\ r.head + j \in Nat /\ r.head + k \in Nat /\ r.head + j < r.head + k
      /\ (r.head + k) - (r.head + j) < Capacity
  BY Indices, RingAssumption
<1>2. ((r.head + j) % Capacity) # ((r.head + k) % Capacity)
  BY <1>1, SlotsDiffer
<1> QED
  BY <1>2, PlaceIs

LEMMA PlaceIsSlot ==
  ASSUME NEW Items, NEW r, RingOK(r, Items), NEW k \in 0 .. Capacity
  PROVE  Place(r, k) \in Slots
<1>1. r.head + k \in 0 .. 2 * WordSize - 1
  BY Indices, RingAssumption
<1>2. ((r.head + k) % WordSize) \in Int
  BY <1>1, Wrapped, RingAssumption
<1> QED
  BY <1>2, Remainder DEF Place

\* The slots the calls look at.
LEMMA SlotsOfCalls ==
  ASSUME NEW Items, NEW r, RingOK(r, Items)
  PROVE  /\ (r.head % Capacity) = Place(r, 0)
         /\ (Minus(r.tail, 1) % Capacity) = Place(r, Size(r))
         /\ \A k \in 1 .. Size(r) : (Minus(r.head + k, 1) % Capacity) = Place(r, k - 1)
         /\ (Increment(r.head) = r.tail) <=> Size(r) = 0
<1>1. /\ r.head \in 0 .. WordSize - 1 /\ r.tail \in 0 .. WordSize - 1
      /\ Size(r) \in 0 .. Capacity
      /\ r.tail = IF r.head + Size(r) + 1 < WordSize THEN r.head + Size(r) + 1
                  ELSE r.head + Size(r) + 1 - WordSize
  BY Indices
<1> DEFINE n == Size(r)
<1> HIDE DEF n
<1>2. r.head % WordSize = r.head /\ r.head + 0 = r.head
  BY <1>1, Wrapped, RingAssumption
<1>3. (r.head % Capacity) = Place(r, 0)
  BY <1>2 DEF Place
<1>4. Minus(r.tail, 1) = ((r.head + n) % WordSize)
  <2>1. r.tail - 1 \in -1 .. 2 * WordSize - 1 /\ r.head + n \in -1 .. 2 * WordSize - 1
    BY <1>1, RingAssumption DEF n
  <2> QED
    BY <1>1, <2>1, Wrapped, RingAssumption, SMTT(30) DEF n, Minus
<1>5. (Minus(r.tail, 1) % Capacity) = Place(r, n)
  BY <1>4 DEF Place
<1>6. \A k \in 1 .. n : (Minus(r.head + k, 1) % Capacity) = Place(r, k - 1)
  <2>1. \A k \in 1 .. n : (r.head + k) - 1 = r.head + (k - 1)
    BY <1>1 DEF n
  <2> QED
    BY <2>1 DEF Minus, Place
<1>7. (Increment(r.head) = r.tail) <=> n = 0
  <2>1. r.head + 1 \in -1 .. 2 * WordSize - 1
    BY <1>1, RingAssumption
  <2>2. Increment(r.head) = IF r.head + 1 < WordSize THEN r.head + 1 ELSE r.head + 1 - WordSize
    BY <1>1, RingAssumption DEF Increment
  <2> QED
    BY <1>1, <2>2, RingAssumption DEF n
<1> QED
  BY <1>3, <1>5, <1>6, <1>7 DEF n

LEMMA SlotsHold ==
  ASSUME NEW Items, NEW r, RingOK(r, Items)
  PROVE  SlotsMatchIndices(r) <=>
           \A i \in Slots : r.buffer[i] # NoItem <=> \E k \in 0 .. Size(r) - 1 : i = Place(r, k)
<1>1. \A k \in 0 .. Size(r) - 1 : Place(r, k) \in Slots
  BY Indices, PlaceIsSlot, RingAssumption
<1>2. SlotsMatchIndices(r) <=>
        {i \in Slots : r.buffer[i] # NoItem} = {Place(r, k) : k \in 0 .. Size(r) - 1}
  BY DEF SlotsMatchIndices, Place
<1> QED
  BY <1>1, <1>2

\* What the ring holds is items.
LEMMA ContentsAre ==
  ASSUME NEW Items, NEW r, RingOK(r, Items), SlotsMatchIndices(r)
  PROVE  /\ Contents(r) \in Seq(Items) /\ Len(Contents(r)) = Size(r)
         /\ \A k \in 1 .. Size(r) : Contents(r)[k] = r.buffer[Place(r, k - 1)]
<1>1. \A k \in 1 .. Size(r) : k - 1 \in 0 .. Size(r) - 1 /\ k - 1 \in 0 .. Capacity
  BY Indices, RingAssumption
<1>2. \A k \in 1 .. Size(r) : Place(r, k - 1) \in Slots
  BY <1>1, PlaceIsSlot
<1>3. \A k \in 1 .. Size(r) : r.buffer[Place(r, k - 1)] \in Items
  BY <1>1, <1>2, SlotsHold DEF RingOK
<1>4. Contents(r) = [k \in 1 .. Size(r) |-> r.buffer[Place(r, k - 1)]]
  BY SlotsOfCalls DEF Contents
<1>5. Size(r) \in Nat
  BY Indices, RingAssumption
<1> QED
  BY <1>3, <1>4, <1>5

\* RingQueue::TryPush on a ring that is not full appends its item to what the ring
\* holds and writes no slot that is in use, wrapped around or not.
THEOREM RingPushes ==
  ASSUME NEW Items, NoItem \notin Items,
         NEW r, RingOK(r, Items), Straight(r), SlotsMatchIndices(r),
         ~IsFull(r), NEW m \in Items, (WordSize % Capacity) = 0 \/ r.tail + 1 < WordSize
  PROVE  LET s == TryPush(r, m)
         IN  /\ RingOK(s, Items) /\ Straight(s) /\ SlotsMatchIndices(s)
             /\ Size(s) = Size(r) + 1 /\ Contents(s) = Append(Contents(r), m)
             /\ r.tail + 1 < WordSize => s.tail = r.tail + 1
<1> DEFINE s == TryPush(r, m)
           n == Size(r)
           at == Place(r, n)
<1>1. /\ r.head \in 0 .. WordSize - 1 /\ r.tail \in 0 .. WordSize - 1
      /\ n \in 0 .. Capacity - 1 /\ Minus(r.tail, r.head) = n + 1
      /\ r.tail = IF r.head + n + 1 < WordSize THEN r.head + n + 1
                  ELSE r.head + n + 1 - WordSize
  BY Indices, RingAssumption DEF IsFull
<1>2. at \in Slots
  BY <1>1, PlaceIsSlot, RingAssumption
<1>3. r \in [buffer : [Slots -> Items \union {NoItem}],
             head : 0 .. WordSize - 1, tail : 0 .. WordSize - 1]
  BY DEF RingOK
<1>4. s = [r EXCEPT !.buffer[at] = m, !.tail = Increment(@)]
  <2>1. Minus(r.tail, r.head) # Capacity + 1
    BY <1>1, RingAssumption
  <2> QED
    BY <2>1, SlotsOfCalls DEF TryPush
<1> HIDE DEF s, n, at
<1>5. /\ s.head = r.head /\ s.tail = Increment(r.tail)
      /\ s.buffer = [r.buffer EXCEPT ![at] = m]
  BY <1>3, <1>4
<1>6. Increment(r.tail) = IF r.tail + 1 < WordSize THEN r.tail + 1 ELSE 0
  BY <1>1, IncrementIs
<1>7. s.tail \in 0 .. WordSize - 1
  BY <1>1, <1>5, <1>6, RingAssumption
<1>8. s.tail = IF s.head + (n + 1) + 1 < WordSize THEN s.head + (n + 1) + 1
               ELSE s.head + (n + 1) + 1 - WordSize
  BY <1>1, <1>5, <1>6, RingAssumption
<1>9. Size(s) = n + 1
  <2>1. n + 1 \in 0 .. Capacity
    BY <1>1, RingAssumption
  <2>2. s.head \in 0 .. WordSize - 1
    BY <1>1, <1>5
  <2> QED
    BY <1>7, <1>8, <2>1, <2>2, SizeIs
<1>10. RingOK(s, Items)
  <2>1. s \in [buffer : [Slots -> Items \union {NoItem}],
               head : 0 .. WordSize - 1, tail : 0 .. WordSize - 1]
    <3>1. Increment(r.tail) \in 0 .. WordSize - 1
      BY <1>5, <1>7
    <3>2. [r.buffer EXCEPT ![at] = m] \in [Slots -> Items \union {NoItem}]
      BY <1>3
    <3> QED
      BY <1>3, <1>4, <3>1, <3>2
  <2> QED
    BY <1>1, <1>9, <2>1, RingAssumption DEF RingOK
<1>11. Straight(s)
  BY <1>1, <1>5, <1>6 DEF Straight
<1>12. \A k \in Int : Place(s, k) = Place(r, k)
  BY <1>5 DEF Place
<1>13. \A k \in 0 .. n - 1 : Place(r, k) # at
  BY <1>1, PlacesDiffer, RingAssumption DEF n, at
<1>14. SlotsMatchIndices(s)
  <2>1. ASSUME NEW i \in Slots
        PROVE  s.buffer[i] # NoItem <=> \E k \in 0 .. n : i = Place(s, k)
    <3>1. i = at => s.buffer[i] = m
      BY <1>2, <1>3, <1>5
    <3>2. i # at => s.buffer[i] = r.buffer[i]
      BY <1>3, <1>5
    <3>3. r.buffer[i] # NoItem <=> \E k \in 0 .. n - 1 : i = Place(r, k)
      BY SlotsHold DEF n
    <3>4. at = Place(s, n) /\ 0 .. n = (0 .. n - 1) \union {n}
      BY <1>1, <1>12 DEF at
    <3>5. \A k \in 0 .. n - 1 : Place(s, k) = Place(r, k)
      BY <1>12
    <3> QED
      BY <3>1, <3>2, <3>3, <3>4, <3>5
  <2>2. (n + 1) - 1 = n
    BY <1>1
  <2> QED
    BY <1>9, <1>10, <2>1, <2>2, SlotsHold
<1>15. Contents(s) = Append(Contents(r), m)
  <2>1. /\ Contents(r) \in Seq(Items) /\ Len(Contents(r)) = n
        /\ \A k \in 1 .. n : Contents(r)[k] = r.buffer[Place(r, k - 1)]
    BY ContentsAre DEF n
  <2>2. /\ Contents(s) \in Seq(Items) /\ Len(Contents(s)) = n + 1
        /\ \A k \in 1 .. n + 1 : Contents(s)[k] = s.buffer[Place(s, k - 1)]
    BY <1>9, <1>10, <1>14, ContentsAre
  <2>3. ASSUME NEW k \in 1 .. n PROVE Contents(s)[k] = Contents(r)[k]
    <3>1. k \in 1 .. n + 1 /\ k - 1 \in 0 .. n - 1 /\ k - 1 \in 0 .. Capacity /\ k - 1 \in Int
      BY <1>1, RingAssumption
    <3>2. Place(r, k - 1) \in Slots /\ Place(r, k - 1) # at /\ Place(s, k - 1) = Place(r, k - 1)
      BY <1>12, <1>13, <3>1, PlaceIsSlot
    <3>3. s.buffer[Place(r, k - 1)] = r.buffer[Place(r, k - 1)]
      BY <1>3, <1>5, <3>2
    <3> QED
      BY <2>1, <2>2, <3>1, <3>2, <3>3
  <2>4. Contents(s)[n + 1] = m
    <3>1. n + 1 \in 1 .. n + 1 /\ (n + 1) - 1 = n /\ n \in Int
      BY <1>1
    <3>2. Place(s, (n + 1) - 1) = at
      BY <1>12, <3>1 DEF at
    <3> QED
      BY <1>2, <1>3, <1>5, <2>2, <3>1, <3>2
  <2>5. n \in Nat
    BY <1>1
  <2> QED
    BY <2>1, <2>2, <2>3, <2>4, <2>5
<1> QED
  BY <1>5, <1>6, <1>9, <1>10, <1>11, <1>14, <1>15 DEF s, n

\* RingQueue::TryPop on a ring that is not empty returns the oldest item, leaves the
\* others in their order and resets the slot, wrapped around or not.
THEOREM RingPops ==
  ASSUME NEW Items, NoItem \notin Items,
         NEW r, RingOK(r, Items), Straight(r), SlotsMatchIndices(r),
         ~IsEmpty(r)
  PROVE  LET s == TryPop(r)
         IN  /\ RingOK(s, Items) /\ Straight(s) /\ SlotsMatchIndices(s)
             /\ Size(s) = Size(r) - 1 /\ Contents(r) # <<>> /\ Contents(s) = Tail(Contents(r))
             /\ Oldest(r) = Head(Contents(r)) /\ Oldest(r) \in Items
             /\ s.tail = r.tail
<1> DEFINE s == TryPop(r)
           n == Size(r)
           at == Place(r, 0)
<1>1. /\ r.head \in 0 .. WordSize - 1 /\ r.tail \in 0 .. WordSize - 1
      /\ n \in 1 .. Capacity /\ Minus(r.tail, r.head) = n + 1
      /\ r.tail = IF r.head + n + 1 < WordSize THEN r.head + n + 1
                  ELSE r.head + n + 1 - WordSize
  BY Indices, RingAssumption DEF IsEmpty
<1>2. at \in Slots
  BY <1>1, PlaceIsSlot, RingAssumption
<1>3. r \in [buffer : [Slots -> Items \union {NoItem}],
             head : 0 .. WordSize - 1, tail : 0 .. WordSize - 1]
  BY DEF RingOK
<1>4. /\ s = [r EXCEPT !.buffer[at] = NoItem, !.head = Increment(@)]
      /\ Oldest(r) = r.buffer[at]
  <2>1. Increment(r.head) # r.tail
    BY <1>1, SlotsOfCalls
  <2> QED
    BY <2>1, SlotsOfCalls DEF TryPop, Oldest
<1> HIDE DEF s, n, at
<1>5. /\ s.tail = r.tail /\ s.head = Increment(r.head)
      /\ s.buffer = [r.buffer EXCEPT ![at] = NoItem]
  BY <1>3, <1>4
<1>6. Increment(r.head) = IF r.head + 1 < WordSize THEN r.head + 1 ELSE 0
  BY <1>1, IncrementIs
<1>7. s.head \in 0 .. WordSize - 1 /\ n - 1 \in 0 .. Capacity
  BY <1>1, <1>5, <1>6, RingAssumption
<1>8. s.tail = IF s.head + (n - 1) + 1 < WordSize THEN s.head + (n - 1) + 1
               ELSE s.head + (n - 1) + 1 - WordSize
  BY <1>1, <1>5, <1>6, RingAssumption
<1>9. Size(s) = n - 1
  BY <1>1, <1>5, <1>7, <1>8, SizeIs
<1>10. RingOK(s, Items)
  <2>1. s \in [buffer : [Slots -> Items \union {NoItem}],
               head : 0 .. WordSize - 1, tail : 0 .. WordSize - 1]
    <3>1. Increment(r.head) \in 0 .. WordSize - 1
      BY <1>5, <1>7
    <3>2. [r.buffer EXCEPT ![at] = NoItem] \in [Slots -> Items \union {NoItem}]
      BY <1>3
    <3> QED
      BY <1>3, <1>4, <3>1, <3>2
  <2> QED
    BY <1>1, <1>9, <2>1, RingAssumption DEF RingOK
<1>11. Straight(s)
  <2>1. r.head < r.tail => Increment(r.head) < r.tail
    BY <1>1, <1>6, RingAssumption
  <2> QED
    BY <1>5, <2>1 DEF Straight
<1>12. \A k \in 0 .. n - 1 : Place(s, k) = Place(r, k + 1)
  <2> TAKE k \in 0 .. n - 1
  <2>1. ((s.head + k) % WordSize) = ((r.head + (k + 1)) % WordSize)
    <3>1. s.head + k \in 0 .. 2 * WordSize - 1 /\ r.head + (k + 1) \in 0 .. 2 * WordSize - 1
      BY <1>1, <1>7, RingAssumption
    <3>2. CASE r.head + 1 < WordSize
      <4>1. s.head + k = r.head + (k + 1)
        BY <1>1, <1>5, <1>6, <3>2, RingAssumption
      <4> QED
        BY <4>1
    <3>3. CASE r.head + 1 >= WordSize
      <4>1. /\ s.head + k = k /\ r.head + (k + 1) = k + WordSize
            /\ k \in 0 .. WordSize - 1 /\ k + WordSize \in 0 .. 2 * WordSize - 1
        BY <1>1, <1>5, <1>6, <3>3, RingAssumption
      <4>2. (k % WordSize) = k /\ ((k + WordSize) % WordSize) = k
        BY <4>1, Wrapped, RingAssumption
      <4> QED
        BY <4>1, <4>2
    <3> QED
      BY <1>1, <3>2, <3>3, RingAssumption
  <2> QED
    BY <2>1 DEF Place
<1>13. \A k \in 1 .. n - 1 : Place(r, k) # at
  BY <1>1, PlacesDiffer, RingAssumption DEF n, at
<1>14. SlotsMatchIndices(s)
  <2>1. ASSUME NEW i \in Slots
        PROVE  s.buffer[i] # NoItem <=> \E k \in 0 .. (n - 1) - 1 : i = Place(s, k)
    <3>1. i = at => s.buffer[i] = NoItem
      BY <1>2, <1>3, <1>5
    <3>2. i # at => s.buffer[i] = r.buffer[i]
      BY <1>3, <1>5
    <3>3. r.buffer[i] # NoItem <=> \E k \in 0 .. n - 1 : i = Place(r, k)
      BY SlotsHold DEF n
    <3>4. (\E k \in 0 .. n - 1 : i = Place(r, k))
            <=> i = at \/ \E k \in 1 .. n - 1 : i = Place(r, k)
      <4>1. 0 .. n - 1 = {0} \union (1 .. n - 1)
        BY <1>1
      <4> QED
        BY <4>1 DEF at
    <3>5. (\E k \in 1 .. n - 1 : i = Place(r, k)) <=> \E k \in 0 .. (n - 1) - 1 : i = Place(s, k)
      <4>1. ASSUME NEW k \in 1 .. n - 1
            PROVE  k - 1 \in 0 .. (n - 1) - 1 /\ Place(r, k) = Place(s, k - 1)
        <5>1. k - 1 \in 0 .. n - 1 /\ k - 1 \in 0 .. (n - 1) - 1 /\ (k - 1) + 1 = k
          BY <1>1
        <5> QED
          BY <5>1, <1>12
      <4>2. ASSUME NEW k \in 0 .. (n - 1) - 1
            PROVE  k + 1 \in 1 .. n - 1 /\ Place(r, k + 1) = Place(s, k)
        <5>1. k + 1 \in 1 .. n - 1 /\ k \in 0 .. n - 1
          BY <1>1
        <5> QED
          BY <5>1, <1>12
      <4> QED
        BY <4>1, <4>2
    <3> QED
      BY <3>1, <3>2, <3>3, <3>4, <3>5, <1>13
  <2> QED
    BY <1>9, <1>10, <2>1, SlotsHold
<1>15. /\ Contents(r) \in Seq(Items) /\ Len(Contents(r)) = n
       /\ \A k \in 1 .. n : Contents(r)[k] = r.buffer[Place(r, k - 1)]
  BY ContentsAre DEF n
<1>16. Contents(s) = Tail(Contents(r))
  <2>2. /\ Contents(s) \in Seq(Items) /\ Len(Contents(s)) = n - 1
        /\ \A k \in 1 .. n - 1 : Contents(s)[k] = s.buffer[Place(s, k - 1)]
    BY <1>9, <1>10, <1>14, ContentsAre
  <2>3. ASSUME NEW k \in 1 .. n - 1 PROVE Contents(s)[k] = Contents(r)[k + 1]
    <3>1. /\ k + 1 \in 1 .. n /\ k - 1 \in 0 .. n - 1 /\ k \in 0 .. Capacity
          /\ (k - 1) + 1 = k /\ (k + 1) - 1 = k
      BY <1>1, RingAssumption
    <3>2. Place(r, k) \in Slots /\ Place(r, k) # at /\ Place(s, k - 1) = Place(r, k)
      <4>1. Place(s, k - 1) = Place(r, (k - 1) + 1)
        BY <1>12, <3>1
      <4> QED
        BY <4>1, <1>13, <3>1, PlaceIsSlot
    <3>3. s.buffer[Place(r, k)] = r.buffer[Place(r, k)]
      BY <1>3, <1>5, <3>2
    <3>4. Contents(s)[k] = s.buffer[Place(s, k - 1)]
      BY <2>2
    <3>5. Contents(r)[k + 1] = r.buffer[Place(r, (k + 1) - 1)]
      BY <1>15, <3>1
    <3> QED
      BY <3>1, <3>2, <3>3, <3>4, <3>5
  <2>5. n \in Nat \ {0}
    BY <1>1
  <2> QED
    BY <1>15, <2>2, <2>3, <2>5
<1>17. Contents(r) # <<>> /\ Oldest(r) = Head(Contents(r)) /\ Oldest(r) \in Items
  <2>1. 1 \in 1 .. n /\ 1 - 1 = 0
    BY <1>1
  <2>2. Contents(r)[1] = r.buffer[at]
    BY <1>15, <2>1 DEF at
  <2> QED
    BY <1>1, <1>4, <1>15, <2>1, <2>2
<1> QED
  BY <1>5, <1>9, <1>10, <1>11, <1>14, <1>16, <1>17 DEF s, n
-----------------------------------------------------------------------------
ChannelAwaiters == {"yield", "channel"}

\* The fibers of which the channel has a handle.
Parked == Range(waiters) \union (Range(whom) \ {None})

\* Where fibers are; one the channel has a handle of waits in the list, once, or
\* is about to be scheduled by one other.
HandlesInPlace ==
  /\ InPlace(Parked, ChannelAwaiters)
  /\ NoDuplicates(waiters)
  /\ \A f \in Fibers : whom[f] \notin Range(waiters)
  /\ \A f, g \in Fibers : whom[f] = whom[g] /\ whom[f] # None => f = g

\* What the local variables of a call hold, by the place of its fiber.
HasArg == {"sendlock", "send", "waitsend", "wakerecv", "sent"}

HasValue(f) ==
  \/ pc[f] \in {"wakesend", "got"}
  \/ pc[f] = "waitrecv" /\ f \in Range(whom)

Locals ==
  /\ \A f \in Fibers :
       /\ arg[f] # NoItem <=> pc[f] \in HasArg
       /\ arg[f] # NoItem => arg[f] \in sent
       /\ value[f] # NoItem <=> HasValue(f)
  /\ \A f, g \in Fibers : arg[f] = arg[g] /\ arg[f] # NoItem => f = g

Errands ==
  \A f \in Fibers :
    \/ pc[f] \notin {"wakerecv", "wakesend"} /\ whom[f] = None
    \/ pc[f] = "wakerecv" /\ whom[f] \in Fibers /\ pc[whom[f]] = "waitrecv"
    \/ pc[f] = "wakesend" /\ whom[f] \in Fibers /\ pc[whom[f]] = "waitsend"

\* A fiber behind lock() is on a thread, and one whose awaiter is about to run
\* finds the ring as it left it.
Holds(w) == At(w, "send") \/ At(w, "recv") \/ RunsAwaiter(w, "channel")

LockKept ==
  /\ \A v, w \in Workers : Holds(v) /\ Holds(w) => v = w
  /\ locked <=> \E w \in Workers : Holds(w)
  /\ \A f \in Fibers : pc[f] \in {"send", "recv"} => \E w \in Workers : running[w] = f
  /\ \A w \in Workers : RunsAwaiter(w, "channel") =>
       \/ pc[after[w]] = "waitsend" /\ IsFull(ring)
       \/ pc[after[w]] = "waitrecv" /\ IsEmpty(ring)

\* The messages that are, or were, in the ring or went straight to a receiver.
Keeps(f) ==
  \/ pc[f] \in {"sendlock", "send"}
  \/ pc[f] = "waitsend" /\ f \notin Range(whom)

Passed == {m \in sent : \A f \in Fibers : Keeps(f) => arg[f] # m}

RingKept ==
  /\ SlotsMatchIndices(ring) /\ Straight(ring)
  /\ (WordSize % Capacity) = 0 \/ ring.tail <= Cardinality(Passed) + 1

\* A fiber that yields is not in a call.
Yielders == \A f \in Fibers : awaiter[f] = "yield" => pc[f] = "out"

ChannelInv ==
  /\ Yielders /\ HandlesInPlace /\ Locals /\ Errands
  /\ LockKept /\ RingKept /\ WaitersAreOfAKind
-----------------------------------------------------------------------------
\* The types, and where fibers are, opened up.
LEMMA Opened ==
  ASSUME TypeOK
  PROVE  /\ running \in [Workers -> Fibers \union {None}]
         /\ after \in [Workers -> Fibers \union {None}]
         /\ coro \in [Fibers -> CoroStates] /\ awaiter \in [Fibers -> {None, "yield", "channel"}]
         /\ runq \in Seq(Fibers) /\ waiters \in Seq(Fibers)
         /\ whom \in [Fibers -> Fibers \union {None}] /\ pc \in [Fibers -> Labels]
         /\ arg \in [Fibers -> Messages \union {NoItem}]
         /\ value \in [Fibers -> Messages \union {NoItem}]
         /\ sent \subseteq Messages /\ RingOK(ring, Messages) /\ locked \in BOOLEAN
         /\ None \notin Fibers \union {"yield", "channel"} /\ NoItem \notin Messages
  BY ChannelAssumption DEF TypeOK, RuntimeTypeOK

LEMMA Placed ==
  ASSUME TypeOK, HandlesInPlace
  PROVE  /\ \A w \in Workers : running[w] # None =>
              /\ running[w] \in Fibers /\ awaiter[running[w]] = None /\ after[w] = None
              /\ running[w] \notin Parked /\ running[w] \notin Range(runq)
         /\ \A w \in Workers : after[w] # None =>
              after[w] \in Fibers /\ after[w] \notin Parked /\ after[w] \notin Range(runq)
         /\ \A f \in Parked : f \in Fibers /\ awaiter[f] = None /\ f \notin Range(runq)
         /\ \A f \in Range(runq) : f \in Fibers /\ awaiter[f] = None
         /\ \A v, w \in Workers : running[v] = running[w] /\ running[v] # None => v = w
         /\ \A v, w \in Workers : after[v] = after[w] /\ after[v] # None => v = w
         /\ \A v, w \in Workers : running[v] = after[w] => running[v] = None
<1> USE DEF HandlesInPlace, InPlace
<1>0. \A a \in ChannelAwaiters : a # None
  BY Opened DEF ChannelAwaiters
<1>a. \A w \in Workers : running[w] # None => coro[running[w]] = "active"
  BY DEF Shows
<1>b. \A f \in Parked \union Range(runq) : coro[f] = "saved" /\ awaiter[f] = None
  BY Zenon DEF Shows, Reachable
<1>c. \A w \in Workers : after[w] # None =>
           \/ coro[after[w]] = "complete"
           \/ coro[after[w]] = "saved" /\ awaiter[after[w]] # None
  BY <1>0 DEF Shows
<1>2. Parked \subseteq Fibers /\ Range(runq) \subseteq Fibers
  BY Opened DEF PlacesType, Range
<1>3. Parked \intersect Range(runq) = {}
  BY DEF Apart
<1>4. \A w \in Workers : running[w] # None =>
        running[w] \in Fibers /\ awaiter[running[w]] = None /\ after[w] = None
  BY Opened DEF Shows
<1>5. \A w \in Workers : after[w] # None => after[w] \in Fibers
  BY Opened
<1> QED
  BY <1>a, <1>b, <1>c, <1>2, <1>3, <1>4, <1>5 DEF Apart

\* Who is about to be scheduled, when a fiber has found one or has scheduled it.
LEMMA Called ==
  ASSUME TypeOK, NEW f \in Fibers, NEW h \in Fibers, whom[f] = None
  PROVE  LET g == [whom EXCEPT ![f] = h]
         IN  Range(g) \ {None} = (Range(whom) \ {None}) \union {h}
<1> DEFINE g == [whom EXCEPT ![f] = h]
<1>1. /\ DOMAIN g = Fibers /\ DOMAIN whom = Fibers /\ g[f] = h
      /\ \A x \in Fibers : x # f => g[x] = whom[x]
  BY Opened
<1> HIDE DEF g
<1> QED
  BY <1>1, Opened DEF Range, g

LEMMA CalledOff ==
  ASSUME TypeOK, HandlesInPlace, NEW f \in Fibers, whom[f] # None
  PROVE  LET g == [whom EXCEPT ![f] = None]
         IN  Range(g) \ {None} = (Range(whom) \ {None}) \ {whom[f]}
<1> DEFINE g == [whom EXCEPT ![f] = None]
<1>1. /\ DOMAIN g = Fibers /\ DOMAIN whom = Fibers /\ g[f] = None
      /\ \A x \in Fibers : x # f => g[x] = whom[x]
  BY Opened
<1>2. \A x \in Fibers : x # f /\ whom[x] # None => whom[x] # whom[f]
  BY DEF HandlesInPlace
<1> HIDE DEF g
<1> QED
  BY <1>1, <1>2, Opened DEF Range, g

\* The oldest waiter, and the list without it.
LEMMA OldestWaiter ==
  ASSUME TypeOK, HandlesInPlace, waiters # <<>>
  PROVE  /\ Head(waiters) \in Range(waiters) /\ Head(waiters) \in Fibers
         /\ Tail(waiters) \in Seq(Fibers) /\ NoDuplicates(Tail(waiters))
         /\ Range(Tail(waiters)) = Range(waiters) \ {Head(waiters)}
         /\ Head(waiters) \notin Range(whom) /\ awaiter[Head(waiters)] = None
<1>1. waiters \in Seq(Fibers) /\ NoDuplicates(waiters)
  BY Opened DEF HandlesInPlace
<1>2. /\ Head(waiters) \in Range(waiters)
      /\ NoDuplicates(Tail(waiters)) /\ Range(Tail(waiters)) = Range(waiters) \ {Head(waiters)}
  BY <1>1, TailRange
<1>3. Head(waiters) \in Fibers /\ Tail(waiters) \in Seq(Fibers)
  BY <1>1
<1>4. Head(waiters) \notin Range(whom)
  BY <1>2, Opened DEF HandlesInPlace, Range
<1> QED
  BY <1>2, <1>3, <1>4, Placed DEF Parked

\* Senders wait before a full ring, receivers before an empty one.
LEMMA WhoWaits ==
  ASSUME TypeOK, WaitersAreOfAKind
  PROVE  /\ ~IsEmpty(ring) =>
              \A f \in Range(waiters) : pc[f] = "waitsend" /\ IsFull(ring)
         /\ ~IsFull(ring) =>
              \A f \in Range(waiters) : pc[f] = "waitrecv" /\ IsEmpty(ring)
         /\ IsFull(ring) => ~IsEmpty(ring)
<1>1. IsFull(ring) => ~IsEmpty(ring)
  BY RingAssumption DEF IsFull, IsEmpty
<1> QED
  BY <1>1 DEF WaitersAreOfAKind

LEMMA HeadWaits ==
  ASSUME TypeOK, waiters # <<>> PROVE Head(waiters) \in Range(waiters)
<1>1. 1 \in DOMAIN waiters /\ Head(waiters) = waiters[1]
  BY Opened
<1> QED
  BY <1>1 DEF Range
-----------------------------------------------------------------------------
\* The ring of a Send that finds room, and of a Recv that refills it.
\* Where the modulus is not a multiple of the capacity, tail_ has not got there yet:
\* it is bounded by the messages passed on, and those by MaxSent.
LEMMA IndexHasRoom ==
  ASSUME TypeOK, Locals, RingKept, NEW f \in Fibers, Keeps(f)
  PROVE  (WordSize % Capacity) = 0 \/ ring.tail + 1 < WordSize
<1>1. /\ MaxSent \in Nat /\ Messages = 1 .. MaxSent
      /\ (WordSize % Capacity) = 0 \/ MaxSent + 1 < WordSize
  BY ChannelAssumption DEF Messages
<1>2. IsFiniteSet(Messages) /\ Cardinality(Messages) = MaxSent
  BY <1>1, FS_Interval
<1>3. arg[f] \in Messages
  <2>1. arg[f] # NoItem
    BY DEF Locals, HasArg, Keeps
  <2> QED
    BY <2>1, Opened
<1>4. Passed \union {arg[f]} \subseteq Messages /\ arg[f] \notin Passed /\ Passed \subseteq Messages
  BY <1>3, Opened DEF Passed
<1>5. IsFiniteSet(Passed) /\ Cardinality(Passed \union {arg[f]}) = Cardinality(Passed) + 1
      /\ Cardinality(Passed \union {arg[f]}) <= MaxSent /\ Cardinality(Passed) \in Nat
  BY <1>2, <1>4, FS_Subset, FS_AddElement, FS_CardinalityType
<1>6. ring.tail \in Nat
  BY Opened, Indices, RingAssumption
<1> QED
  BY <1>1, <1>5, <1>6, RingAssumption DEF RingKept

\* TryPush of a Send that finds room and nobody waiting.
LEMMA RoomTaken ==
  ASSUME TypeOK, Locals, RingKept, NEW f \in Fibers, Keeps(f), ~IsFull(ring)
  PROVE  LET s == TryPush(ring, arg[f])
         IN  /\ RingOK(s, Messages) /\ Straight(s) /\ SlotsMatchIndices(s)
             /\ Size(s) = Size(ring) + 1 /\ Contents(s) = Append(Contents(ring), arg[f])
             /\ (WordSize % Capacity) = 0 \/ s.tail = ring.tail + 1
<1>1. arg[f] \in Messages
  BY Opened DEF Locals, HasArg, Keeps
<1> QED
  BY <1>1, Opened, IndexHasRoom, RingPushes DEF RingKept

\* TryPop of a Recv, and the state its TryPush of the waiting sender finds.
LEMMA RoomMade ==
  ASSUME TypeOK, Locals, RingKept, ~IsEmpty(ring)
  PROVE  LET s == TryPop(ring)
         IN  /\ RingOK(s, Messages) /\ Straight(s) /\ SlotsMatchIndices(s)
             /\ Size(s) = Size(ring) - 1
             /\ Contents(ring) # <<>> /\ Contents(s) = Tail(Contents(ring))
             /\ Oldest(ring) = Head(Contents(ring)) /\ Oldest(ring) \in Messages
             /\ s.tail = ring.tail
  BY Opened, RingPops DEF RingKept

\* The ring of a Recv that takes the oldest message and lets a waiting sender in.
LEMMA Refilled ==
  ASSUME TypeOK, Locals, RingKept, NEW f \in Fibers, Keeps(f), IsFull(ring)
  PROVE  LET s == TryPush(TryPop(ring), arg[f])
         IN  /\ RingOK(s, Messages) /\ Straight(s) /\ SlotsMatchIndices(s)
             /\ Size(s) = Size(ring)
             /\ Contents(s) = Append(Tail(Contents(ring)), arg[f])
             /\ (WordSize % Capacity) = 0 \/ s.tail = ring.tail + 1
<1> DEFINE r == TryPop(ring)
           s == TryPush(r, arg[f])
<1>1. ~IsEmpty(ring) /\ Size(ring) \in 0 .. Capacity
  BY Opened, Indices, RingAssumption DEF IsEmpty, IsFull
<1>2. /\ RingOK(r, Messages) /\ Straight(r) /\ SlotsMatchIndices(r)
      /\ Size(r) = Size(ring) - 1 /\ Contents(r) = Tail(Contents(ring))
      /\ r.tail = ring.tail
  BY <1>1, RoomMade
<1>3. arg[f] \in Messages
  BY Opened DEF Locals, HasArg, Keeps
<1>4. ~IsFull(r)
  BY <1>1, <1>2 DEF IsFull
<1>5. (WordSize % Capacity) = 0 \/ r.tail + 1 < WordSize
  BY <1>2, IndexHasRoom
<1> HIDE DEF r
<1>6. /\ RingOK(s, Messages) /\ Straight(s) /\ SlotsMatchIndices(s)
      /\ Size(s) = Size(r) + 1 /\ Contents(s) = Append(Contents(r), arg[f])
      /\ r.tail + 1 < WordSize => s.tail = r.tail + 1
  BY <1>2, <1>3, <1>4, <1>5, RingPushes, Opened
<1> QED
  BY <1>1, <1>2, <1>5, <1>6 DEF r
-----------------------------------------------------------------------------
\* What the steps do, in a state that satisfies the invariant.
Inv == TypeOK /\ ChannelInv

LEMMA PushDoes ==
  ASSUME Inv, NEW w \in Workers, SendPushes(w)
  PROVE  LET f == running[w]
         IN  /\ f \in Fibers /\ pc[f] = "send" /\ pc' = [pc EXCEPT ![f] = "sent"]
             /\ waiters = <<>> /\ Keeps(f) /\ f \notin Parked /\ Holds(w)
             /\ ring' = TryPush(ring, arg[f]) /\ ~IsFull(ring) /\ locked' = FALSE
             /\ UNCHANGED <<runtime, waiters, arg, value, whom, sent>>
<1>1. running[w] \in Fibers /\ pc[running[w]] = "send" /\ running[w] \notin Parked
  BY Placed DEF Inv, ChannelInv, SendPushes, Goto, At
<1>2. waiters = <<>>
  BY HeadWaits, WhoWaits DEF Inv, ChannelInv, SendPushes, MustPass
<1> QED
  BY <1>1, <1>2 DEF SendPushes, Goto, Keeps, Holds, At

LEMMA PassDoes ==
  ASSUME Inv, NEW w \in Workers, SendPasses(w)
  PROVE  LET f == running[w]
             h == Head(waiters)
         IN  /\ f \in Fibers /\ pc[f] = "send" /\ pc' = [pc EXCEPT ![f] = "wakerecv"]
             /\ Keeps(f) /\ f \notin Parked /\ Holds(w) /\ whom[f] = None
             /\ h \in Fibers /\ pc[h] = "waitrecv" /\ h \in Range(waiters) /\ h \notin Range(whom)
             /\ waiters \in Seq(Fibers) /\ waiters # <<>>
             /\ waiters' \in Seq(Fibers) /\ NoDuplicates(waiters') /\ waiters' = Tail(waiters)
             /\ Range(waiters') = Range(waiters) \ {h}
             /\ value' = [value EXCEPT ![h] = arg[f]] /\ whom' = [whom EXCEPT ![f] = h]
             /\ Range(whom') \ {None} = (Range(whom) \ {None}) \union {h}
             /\ IsEmpty(ring) /\ locked' = FALSE /\ arg[f] \in Messages
             /\ \A g \in Range(waiters) : pc[g] = "waitrecv"
             /\ UNCHANGED <<runtime, ring, arg, sent>>
<1> DEFINE f == running[w]
           h == Head(waiters)
<1> USE DEF Inv, ChannelInv
<1>1. f \in Fibers /\ pc[f] = "send" /\ f \notin Parked
  BY Placed DEF SendPasses, Goto, At
<1>2. IsEmpty(ring) /\ waiters # <<>> /\ ~IsFull(ring)
  BY WhoWaits DEF SendPasses, MustPass
<1>3. \A g \in Range(waiters) : pc[g] = "waitrecv"
  BY <1>2, WhoWaits
<1>4. /\ h \in Fibers /\ h \in Range(waiters) /\ h \notin Range(whom)
      /\ Tail(waiters) \in Seq(Fibers) /\ NoDuplicates(Tail(waiters))
      /\ Range(Tail(waiters)) = Range(waiters) \ {h}
  BY <1>2, OldestWaiter
<1>5. whom[f] = None
  BY <1>1 DEF Errands
<1>6. Keeps(f) /\ Holds(w) /\ arg[f] \in Messages
  BY <1>1, Opened DEF Keeps, Holds, At, SendPasses, Goto, Locals, HasArg
<1>7. Range(whom') \ {None} = (Range(whom) \ {None}) \union {h}
  BY <1>1, <1>4, <1>5, Called DEF SendPasses
<1> QED
  BY <1>1, <1>2, <1>3, <1>4, <1>5, <1>6, <1>7, Opened DEF SendPasses, Goto

LEMMA PopDoes ==
  ASSUME Inv, NEW w \in Workers, RecvPops(w)
  PROVE  LET f == running[w]
         IN  /\ f \in Fibers /\ pc[f] = "recv" /\ pc' = [pc EXCEPT ![f] = "got"]
             /\ waiters = <<>> /\ f \notin Parked /\ Holds(w)
             /\ value' = [value EXCEPT ![f] = Oldest(ring)] /\ Oldest(ring) \in Messages
             /\ ring' = TryPop(ring) /\ ~IsEmpty(ring) /\ locked' = FALSE
             /\ UNCHANGED <<runtime, waiters, arg, whom, sent>>
<1>1. running[w] \in Fibers /\ pc[running[w]] = "recv" /\ running[w] \notin Parked
  BY Placed DEF Inv, ChannelInv, RecvPops, Goto, At
<1>2. Oldest(ring) \in Messages
  BY RoomMade DEF Inv, ChannelInv, RecvPops
<1> QED
  BY <1>1, <1>2 DEF RecvPops, Goto, Holds, At

LEMMA RefillDoes ==
  ASSUME Inv, NEW w \in Workers, RecvRefills(w)
  PROVE  LET f == running[w]
             h == Head(waiters)
         IN  /\ f \in Fibers /\ pc[f] = "recv" /\ pc' = [pc EXCEPT ![f] = "wakesend"]
             /\ Keeps(h) /\ f \notin Parked /\ Holds(w) /\ whom[f] = None
             /\ h \in Fibers /\ pc[h] = "waitsend" /\ h \in Range(waiters) /\ h \notin Range(whom)
             /\ awaiter[h] = None
             /\ waiters \in Seq(Fibers) /\ waiters # <<>>
             /\ waiters' \in Seq(Fibers) /\ NoDuplicates(waiters') /\ waiters' = Tail(waiters)
             /\ Range(waiters') = Range(waiters) \ {h}
             /\ value' = [value EXCEPT ![f] = Oldest(ring)] /\ whom' = [whom EXCEPT ![f] = h]
             /\ Range(whom') \ {None} = (Range(whom) \ {None}) \union {h}
             /\ Oldest(ring) \in Messages /\ IsFull(ring) /\ locked' = FALSE
             /\ ring' = TryPush(TryPop(ring), arg[h])
             /\ \A g \in Range(waiters) : pc[g] = "waitsend"
             /\ UNCHANGED <<runtime, arg, sent>>
<1> DEFINE f == running[w]
           h == Head(waiters)
<1> USE DEF Inv, ChannelInv
<1>1. f \in Fibers /\ pc[f] = "recv" /\ f \notin Parked
  BY Placed DEF RecvRefills, Goto, At
<1>2. ~IsEmpty(ring) /\ waiters # <<>>
  BY DEF RecvRefills
<1>3. /\ h \in Fibers /\ h \in Range(waiters) /\ h \notin Range(whom) /\ awaiter[h] = None
      /\ Tail(waiters) \in Seq(Fibers) /\ NoDuplicates(Tail(waiters))
      /\ Range(Tail(waiters)) = Range(waiters) \ {h}
  BY <1>2, OldestWaiter
<1>4. IsFull(ring) /\ \A g \in Range(waiters) : pc[g] = "waitsend"
  BY <1>2, <1>3, WhoWaits
<1>5. whom[f] = None
  BY <1>1 DEF Errands
<1>6. Keeps(h) /\ Holds(w) /\ Oldest(ring) \in Messages
  BY <1>1, <1>2, <1>3, <1>4, RoomMade DEF Keeps, Holds, At, RecvRefills, Goto
<1>7. Range(whom') \ {None} = (Range(whom) \ {None}) \union {h}
  BY <1>1, <1>3, <1>5, Called DEF RecvRefills
<1> QED
  BY <1>1, <1>2, <1>3, <1>4, <1>5, <1>6, <1>7, Opened DEF RecvRefills, Goto

LEMMA AwaiterDoes ==
  ASSUME Inv, NEW w \in Workers, RunChannelAwaiter(w)
  PROVE  LET f == after[w]
         IN  /\ f \in Fibers /\ f \notin Parked /\ Holds(w)
             /\ \/ pc[f] = "waitsend" /\ IsFull(ring)
                \/ pc[f] = "waitrecv" /\ IsEmpty(ring)
             /\ RunsAwaiter(w, "channel") /\ TakeAwaiter(w) /\ awaiter[f] = "channel"
             /\ waiters' = Append(waiters, f) /\ waiters' \in Seq(Fibers)
             /\ NoDuplicates(waiters') /\ Range(waiters') = Range(waiters) \union {f}
             /\ locked' = FALSE
             /\ UNCHANGED <<runq, ring, arg, value, whom, sent, pc>>
<1> DEFINE f == after[w]
<1> USE DEF Inv, ChannelInv
<1>1. RunsAwaiter(w, "channel") /\ f # None /\ awaiter[f] = "channel"
  BY DEF RunChannelAwaiter, RunsAwaiter
<1>2. f \in Fibers /\ f \notin Parked
  BY <1>1, Placed
<1>3. /\ NoDuplicates(Append(waiters, f)) /\ Range(Append(waiters, f)) = Range(waiters) \union {f}
      /\ Append(waiters, f) \in Seq(Fibers)
  <2>1. waiters \in Seq(Fibers) /\ NoDuplicates(waiters) /\ f \notin Range(waiters)
    BY <1>2, Opened DEF HandlesInPlace, Parked
  <2> QED
    BY <1>2, <2>1, AppendRange
<1>4. \/ pc[f] = "waitsend" /\ IsFull(ring)
      \/ pc[f] = "waitrecv" /\ IsEmpty(ring)
  BY <1>1 DEF LockKept
<1> QED
  BY <1>1, <1>2, <1>3, <1>4 DEF RunChannelAwaiter, Holds

LEMMA SuspendDoes ==
  ASSUME Inv, NEW w \in Workers, SendSuspends(w) \/ RecvSuspends(w)
  PROVE  LET f == running[w]
         IN  /\ f \in Fibers /\ f \notin Parked /\ Holds(w) /\ Suspend(w, "channel")
             /\ \/ pc[f] = "send" /\ pc' = [pc EXCEPT ![f] = "waitsend"] /\ IsFull(ring)
                \/ pc[f] = "recv" /\ pc' = [pc EXCEPT ![f] = "waitrecv"] /\ IsEmpty(ring)
             /\ UNCHANGED <<locked, data>>
<1>1. running[w] \in Fibers /\ running[w] \notin Parked
  BY Placed DEF Inv, ChannelInv, SendSuspends, RecvSuspends, Goto, At
<1> QED
  BY <1>1 DEF SendSuspends, RecvSuspends, Goto, Holds, At

LEMMA WakeDoes ==
  ASSUME Inv, NEW w \in Workers, WakeReceiver(w) \/ WakeSender(w)
  PROVE  LET f == running[w]
             h == whom[f]
         IN  /\ f \in Fibers /\ f \notin Parked /\ h \in Fibers /\ h \in Range(whom) /\ h # None
             /\ h \in Parked /\ h \notin Range(waiters) /\ h # f /\ awaiter[h] = None
             /\ \/ /\ pc[f] = "wakerecv" /\ pc[h] = "waitrecv"
                   /\ pc' = [pc EXCEPT ![f] = "sent", ![h] = "got"]
                \/ /\ pc[f] = "wakesend" /\ pc[h] = "waitsend"
                   /\ pc' = [pc EXCEPT ![f] = "got", ![h] = "sent"]
             /\ Schedule(h) /\ whom' = [whom EXCEPT ![f] = None]
             /\ Range(whom') \ {None} = (Range(whom) \ {None}) \ {h}
             /\ UNCHANGED <<running, after, awaiter, coro, locked, ring, waiters, arg, value, sent>>
<1> DEFINE f == running[w]
           h == whom[f]
<1> USE DEF Inv, ChannelInv
<1>1. f \in Fibers /\ f \notin Parked /\ pc[f] \in {"wakerecv", "wakesend"}
  BY Placed DEF WakeReceiver, WakeSender, ScheduleServed, At
<1>2. h \in Fibers /\ h # None
  BY <1>1, Opened DEF Errands
<1>3. h \in Range(whom) /\ h \in Parked /\ h \notin Range(waiters)
  <2>1. h \in Range(whom)
    BY <1>1, Opened DEF Range
  <2> QED
    BY <1>1, <1>2, <2>1 DEF Parked, HandlesInPlace
<1>4. awaiter[h] = None /\ h # f
  BY <1>1, <1>3, Placed
<1>5. \/ /\ pc[f] = "wakerecv" /\ pc[h] = "waitrecv"
         /\ pc' = [pc EXCEPT ![f] = "sent", ![h] = "got"]
      \/ /\ pc[f] = "wakesend" /\ pc[h] = "waitsend"
         /\ pc' = [pc EXCEPT ![f] = "got", ![h] = "sent"]
  BY <1>1 DEF WakeReceiver, WakeSender, ScheduleServed, At, Errands
<1>6. Schedule(h) /\ whom' = [whom EXCEPT ![f] = None]
      /\ UNCHANGED <<running, after, awaiter, coro, locked, ring, waiters, arg, value, sent>>
  BY DEF WakeReceiver, WakeSender, ScheduleServed
<1>7. Range(whom') \ {None} = (Range(whom) \ {None}) \ {h}
  BY <1>1, <1>2, <1>6, CalledOff
<1> QED
  BY <1>1, <1>2, <1>3, <1>4, <1>5, <1>6, <1>7

\* The steps of a fiber that leave the ring, the list and the runtime alone.
CallStep(w) ==
  \/ CallRecv(w) \/ SpinLock(w) \/ Return(w)
  \/ \E m \in Messages : CallSend(w, m)

LEMMA CallDoes ==
  ASSUME Inv, NEW w \in Workers, CallStep(w)
  PROVE  LET f == running[w]
         IN  /\ f \in Fibers /\ f \notin Parked /\ ~Holds(w)
             /\ pc[f] \in {"out", "sendlock", "recvlock", "sent", "got"}
             /\ \E to \in Labels \ {"waitsend", "waitrecv", "wakerecv", "wakesend"} :
                  pc' = [pc EXCEPT ![f] = to]
             /\ UNCHANGED <<runtime, ring, waiters, whom>>
<1>1. running[w] \in Fibers /\ running[w] \notin Parked /\ after[w] = None
  BY Placed DEF Inv, ChannelInv, CallStep, CallRecv, CallSend, SpinLock, Return, Goto, At
<1>2. pc[running[w]] \in {"out", "sendlock", "recvlock", "sent", "got"}
  BY DEF CallStep, CallRecv, CallSend, SpinLock, Return, Goto, At
<1>3. ~Holds(w)
  BY <1>1, <1>2 DEF Holds, At, RunsAwaiter
<1>4. \E to \in Labels \ {"waitsend", "waitrecv", "wakerecv", "wakesend"} :
        pc' = [pc EXCEPT ![running[w]] = to]
  BY DEF CallStep, CallRecv, CallSend, SpinLock, Return, Goto, Labels
<1> QED
  BY <1>1, <1>2, <1>3, <1>4 DEF CallStep, CallRecv, CallSend, SpinLock, Return, data

\* The steps that leave the channel alone.
RuntimeStep ==
  \/ \E f \in Fibers : Start(f)
  \/ \E w \in Workers : \/ Resume(w) /\ UNCHANGED channel
                        \/ Reap(w) /\ UNCHANGED channel
                        \/ RunYield(w) /\ UNCHANGED channel
                        \/ Yield(w) \/ Finish(w)
  \/ UNCHANGED vars

LEMMA Steps ==
  ASSUME [Next]_vars
  PROVE  \/ RuntimeStep
         \/ \E w \in Workers :
              \/ CallStep(w) \/ SendPushes(w) \/ SendPasses(w) \/ RecvPops(w) \/ RecvRefills(w)
              \/ SendSuspends(w) \/ RecvSuspends(w) \/ WakeReceiver(w) \/ WakeSender(w)
              \/ RunChannelAwaiter(w)
  BY DEF Next, OnWorker, OnFiber, InCall, RuntimeStep, CallStep
-----------------------------------------------------------------------------
\* Types.
LEMMA RuntimeStays ==
  ASSUME TypeOK, UNCHANGED runtime
  PROVE  RuntimeTypeOK' /\ awaiter' \in [Fibers -> {None, "yield", "channel"}]
  BY DEF TypeOK, RuntimeTypeOK, runtime

LEMMA TypeOfRing ==
  ASSUME Inv, NEW w \in Workers,
         SendPushes(w) \/ SendPasses(w) \/ RecvPops(w) \/ RecvRefills(w)
  PROVE  TypeOK'
<1> USE DEF Inv, ChannelInv
<1> DEFINE f == running[w]
           h == Head(waiters)
<1>0. /\ pc \in [Fibers -> Labels] /\ waiters \in Seq(Fibers)
      /\ whom \in [Fibers -> Fibers \union {None}] /\ RingOK(ring, Messages)
      /\ arg \in [Fibers -> Messages \union {NoItem}]
      /\ value \in [Fibers -> Messages \union {NoItem}] /\ sent \subseteq Messages
  BY Opened
<1>1. CASE SendPushes(w)
  <2>1. /\ f \in Fibers /\ Keeps(f) /\ ~IsFull(ring) /\ ring' = TryPush(ring, arg[f])
        /\ pc' = [pc EXCEPT ![f] = "sent"] /\ locked' = FALSE
        /\ UNCHANGED <<runtime, waiters, arg, value, whom, sent>>
    BY <1>1, PushDoes
  <2>2. RingOK(ring, Messages)'
    BY <2>1, RoomTaken
  <2>3. RuntimeTypeOK' /\ awaiter' \in [Fibers -> {None, "yield", "channel"}]
    BY <2>1, RuntimeStays
  <2> QED
    BY <1>0, <2>1, <2>2, <2>3 DEF TypeOK, Labels
<1>2. CASE SendPasses(w)
  <2>1. /\ f \in Fibers /\ h \in Fibers /\ arg[f] \in Messages
        /\ pc' = [pc EXCEPT ![f] = "wakerecv"] /\ locked' = FALSE /\ waiters' \in Seq(Fibers)
        /\ value' = [value EXCEPT ![h] = arg[f]] /\ whom' = [whom EXCEPT ![f] = h]
        /\ UNCHANGED <<runtime, ring, arg, sent>>
    BY <1>2, PassDoes
  <2>3. RuntimeTypeOK' /\ awaiter' \in [Fibers -> {None, "yield", "channel"}]
    BY <2>1, RuntimeStays
  <2> QED
    BY <1>0, <2>1, <2>3 DEF TypeOK, Labels
<1>3. CASE RecvPops(w)
  <2>1. /\ f \in Fibers /\ ~IsEmpty(ring) /\ ring' = TryPop(ring) /\ Oldest(ring) \in Messages
        /\ pc' = [pc EXCEPT ![f] = "got"] /\ locked' = FALSE
        /\ value' = [value EXCEPT ![f] = Oldest(ring)]
        /\ UNCHANGED <<runtime, waiters, arg, whom, sent>>
    BY <1>3, PopDoes
  <2>2. RingOK(ring, Messages)'
    BY <2>1, RoomMade
  <2>3. RuntimeTypeOK' /\ awaiter' \in [Fibers -> {None, "yield", "channel"}]
    BY <2>1, RuntimeStays
  <2> QED
    BY <1>0, <2>1, <2>2, <2>3 DEF TypeOK, Labels
<1>4. CASE RecvRefills(w)
  <2>1. /\ f \in Fibers /\ h \in Fibers /\ Keeps(h) /\ IsFull(ring)
        /\ ring' = TryPush(TryPop(ring), arg[h]) /\ Oldest(ring) \in Messages
        /\ pc' = [pc EXCEPT ![f] = "wakesend"] /\ locked' = FALSE /\ waiters' \in Seq(Fibers)
        /\ value' = [value EXCEPT ![f] = Oldest(ring)] /\ whom' = [whom EXCEPT ![f] = h]
        /\ UNCHANGED <<runtime, arg, sent>>
    BY <1>4, RefillDoes
  <2>2. RingOK(ring, Messages)'
    BY <2>1, Refilled
  <2>3. RuntimeTypeOK' /\ awaiter' \in [Fibers -> {None, "yield", "channel"}]
    BY <2>1, RuntimeStays
  <2> QED
    BY <1>0, <2>1, <2>2, <2>3 DEF TypeOK, Labels
<1> QED
  BY <1>1, <1>2, <1>3, <1>4

LEMMA TypeOfCall ==
  ASSUME Inv, NEW w \in Workers, CallStep(w)
  PROVE  TypeOK'
<1> USE DEF Inv
<1> DEFINE f == running[w]
<1>0. /\ pc \in [Fibers -> Labels] /\ waiters \in Seq(Fibers)
      /\ whom \in [Fibers -> Fibers \union {None}] /\ RingOK(ring, Messages)
      /\ arg \in [Fibers -> Messages \union {NoItem}]
      /\ value \in [Fibers -> Messages \union {NoItem}] /\ sent \subseteq Messages
      /\ locked \in BOOLEAN
  BY Opened
<1>1. /\ UNCHANGED <<runtime, ring, waiters, whom>> /\ f \in Fibers
      /\ \E to \in Labels : pc' = [pc EXCEPT ![f] = to]
  BY CallDoes
<1>2. RuntimeTypeOK' /\ awaiter' \in [Fibers -> {None, "yield", "channel"}]
  BY <1>1, RuntimeStays
<1>3. pc' \in [Fibers -> Labels]
  BY <1>0, <1>1
<1>4. locked' \in BOOLEAN
  BY <1>0 DEF CallStep, CallRecv, CallSend, SpinLock, Return
<1>5. /\ arg' = arg \/ \E m \in Messages \union {NoItem} : arg' = [arg EXCEPT ![f] = m]
      /\ value' = value \/ value' = [value EXCEPT ![f] = NoItem]
      /\ sent' = sent \/ \E m \in Messages : sent' = sent \union {m}
  BY DEF CallStep, CallRecv, CallSend, SpinLock, Return, data
<1>6. /\ arg' \in [Fibers -> Messages \union {NoItem}]
      /\ value' \in [Fibers -> Messages \union {NoItem}] /\ sent' \subseteq Messages
  BY <1>0, <1>1, <1>5
<1> QED
  BY <1>0, <1>1, <1>2, <1>3, <1>4, <1>6 DEF TypeOK

LEMMA TypeOfRest ==
  ASSUME Inv, NEW w \in Workers,
         \/ SendSuspends(w) \/ RecvSuspends(w) \/ WakeReceiver(w) \/ WakeSender(w)
         \/ RunChannelAwaiter(w)
  PROVE  TypeOK'
<1> USE DEF Inv
<1>0. /\ pc \in [Fibers -> Labels] /\ whom \in [Fibers -> Fibers \union {None}]
      /\ awaiter \in [Fibers -> {None, "yield", "channel"}]
  BY Opened
<1>1. CASE SendSuspends(w) \/ RecvSuspends(w)
  <2> DEFINE f == running[w]
  <2>1. /\ f \in Fibers /\ Suspend(w, "channel")
        /\ \/ pc' = [pc EXCEPT ![f] = "waitsend"]
           \/ pc' = [pc EXCEPT ![f] = "waitrecv"]
        /\ UNCHANGED <<locked, data>>
    BY <1>1, SuspendDoes
  <2>2. RuntimeTypeOK'
    BY <2>1, SuspendType DEF TypeOK
  <2>3. awaiter' \in [Fibers -> {None, "yield", "channel"}]
    BY <1>0, <2>1 DEF Suspend
  <2>4. pc' \in [Fibers -> Labels]
    BY <1>0, <2>1 DEF Labels
  <2> QED
    BY <2>1, <2>2, <2>3, <2>4 DEF TypeOK, data
<1>2. CASE WakeReceiver(w) \/ WakeSender(w)
  <2> DEFINE f == running[w]
             h == whom[f]
  <2>1. /\ f \in Fibers /\ h \in Fibers /\ Schedule(h) /\ whom' = [whom EXCEPT ![f] = None]
        /\ \/ pc' = [pc EXCEPT ![f] = "sent", ![h] = "got"]
           \/ pc' = [pc EXCEPT ![f] = "got", ![h] = "sent"]
        /\ UNCHANGED <<running, after, awaiter, coro, locked, ring, waiters, arg, value, sent>>
    BY <1>2, WakeDoes
  <2>2. RuntimeTypeOK'
    BY <2>1, ScheduleType DEF TypeOK, RuntimeTypeOK
  <2>3. pc' \in [Fibers -> Labels] /\ whom' \in [Fibers -> Fibers \union {None}]
    BY <1>0, <2>1 DEF Labels
  <2> QED
    BY <2>1, <2>2, <2>3 DEF TypeOK
<1>3. CASE RunChannelAwaiter(w)
  <2>1. /\ after[w] \in Fibers /\ TakeAwaiter(w) /\ waiters' \in Seq(Fibers) /\ locked' = FALSE
        /\ UNCHANGED <<runq, ring, arg, value, whom, sent, pc>>
    BY <1>3, AwaiterDoes
  <2>2. RuntimeTypeOK'
    BY <2>1, TakeAwaiterType DEF TypeOK, RuntimeTypeOK
  <2>3. awaiter' \in [Fibers -> {None, "yield", "channel"}]
    BY <1>0, <2>1 DEF TakeAwaiter
  <2> QED
    BY <2>1, <2>2, <2>3 DEF TypeOK
<1> QED
  BY <1>1, <1>2, <1>3

LEMMA TypeOfRuntime ==
  ASSUME Inv, RuntimeStep
  PROVE  TypeOK'
<1> USE DEF Inv
<1>1. UNCHANGED channel
  BY DEF RuntimeStep, Start, Yield, Finish, vars
<1>2. RuntimeTypeOK'
  BY GoType, ResumeType, ReapType, RunYieldType, SuspendType, CompleteType, RuntimeStays
     DEF TypeOK, RuntimeStep, Start, Yield, Finish, vars
<1>3. awaiter' \in [Fibers -> {None, "yield", "channel"}]
  BY Opened DEF RuntimeStep, Start, Go, Resume, Reap, RunYield, TakeAwaiter, Yield, Suspend,
       Finish, Complete, vars, runtime
<1> QED
  BY <1>1, <1>2, <1>3 DEF TypeOK, channel, data

\* All the steps together.
LEMMA TypeStep ==
  ASSUME Inv, [Next]_vars
  PROVE  TypeOK'
  BY Steps, TypeOfRing, TypeOfCall, TypeOfRest, TypeOfRuntime
-----------------------------------------------------------------------------
\* What a step does to the handles: a step of the protocol of fibers.
HandlesStep ==
  /\ ProtocolStep(Parked, Parked', ChannelAwaiters)
  /\ NoDuplicates(waiters)'
  /\ \A f \in Fibers : whom'[f] \notin Range(waiters')
  /\ \A f, g \in Fibers : whom'[f] = whom'[g] /\ whom'[f] # None => f = g

LEMMA HandlesRest ==
  ASSUME Inv, UNCHANGED <<waiters, whom>>,
         ProtocolStep(Parked, Parked, ChannelAwaiters)
  PROVE  HandlesStep
<1>1. Parked' = Parked /\ Range(waiters') = Range(waiters)
  BY DEF Parked
<1>2. NoDuplicates(waiters)'
  BY DEF NoDuplicates, Inv, ChannelInv, HandlesInPlace
<1> QED
  BY <1>1, <1>2 DEF HandlesStep, Inv, ChannelInv, HandlesInPlace

LEMMA HandlesOfRing ==
  ASSUME Inv, NEW w \in Workers,
         SendPushes(w) \/ SendPasses(w) \/ RecvPops(w) \/ RecvRefills(w)
  PROVE  HandlesStep
<1> USE DEF Inv, ChannelInv
<1>1. CASE SendPushes(w) \/ RecvPops(w)
  <2>1. UNCHANGED runtime /\ UNCHANGED <<waiters, whom>>
    BY <1>1, PushDoes, PopDoes
  <2> QED
    BY <2>1, HandlesRest DEF ProtocolStep
<1>2. CASE SendPasses(w) \/ RecvRefills(w)
  <2> DEFINE f == running[w]
             h == Head(waiters)
  <2>1. /\ UNCHANGED runtime /\ f \in Fibers /\ h \in Fibers /\ whom[f] = None
        /\ h \in Range(waiters) /\ h \notin Range(whom) /\ NoDuplicates(waiters')
        /\ Range(waiters') = Range(waiters) \ {h} /\ whom' = [whom EXCEPT ![f] = h]
        /\ Range(whom') \ {None} = (Range(whom) \ {None}) \union {h}
    BY <1>2, PassDoes, RefillDoes
  <2>2. Parked' = Parked
    BY <2>1 DEF Parked
  <2>3. \A g \in Fibers : whom[g] # h
    BY <2>1, Opened DEF Range
  <2>4. /\ \A g \in Fibers : whom'[g] \notin Range(waiters')
        /\ \A e, g \in Fibers : whom'[e] = whom'[g] /\ whom'[e] # None => e = g
    BY <2>1, <2>3, Opened DEF HandlesInPlace
  <2>5. NoDuplicates(waiters)'
    BY <2>1 DEF NoDuplicates
  <2> QED
    BY <2>1, <2>2, <2>4, <2>5 DEF HandlesStep, ProtocolStep
<1> QED
  BY <1>1, <1>2

LEMMA HandlesOfRest ==
  ASSUME Inv, NEW w \in Workers,
         \/ SendSuspends(w) \/ RecvSuspends(w) \/ WakeReceiver(w) \/ WakeSender(w)
         \/ RunChannelAwaiter(w)
  PROVE  HandlesStep
<1> USE DEF Inv, ChannelInv
<1>1. CASE SendSuspends(w) \/ RecvSuspends(w)
  BY <1>1, SuspendDoes, HandlesRest DEF ProtocolStep, ChannelAwaiters, data
<1>2. CASE WakeReceiver(w) \/ WakeSender(w)
  <2> DEFINE f == running[w]
             h == whom[f]
  <2>1. /\ f \in Fibers /\ h \in Fibers /\ h \in Parked /\ h \notin Range(waiters) /\ h # None
        /\ Schedule(h) /\ whom' = [whom EXCEPT ![f] = None] /\ UNCHANGED waiters
        /\ Range(whom') \ {None} = (Range(whom) \ {None}) \ {h}
        /\ UNCHANGED <<running, after, awaiter, coro>>
    BY <1>2, WakeDoes
  <2>2. Parked' = Parked \ {h}
    BY <2>1 DEF Parked
  <2>3. ProtocolStep(Parked, Parked', ChannelAwaiters)
    BY <2>1, <2>2 DEF ProtocolStep
  <2>4. /\ \A g \in Fibers : whom'[g] \notin Range(waiters')
        /\ \A e, g \in Fibers : whom'[e] = whom'[g] /\ whom'[e] # None => e = g
    <3>1. None \notin Range(waiters)
      BY Opened DEF Range
    <3> QED
      BY <2>1, <3>1, Opened DEF HandlesInPlace
  <2>5. NoDuplicates(waiters)'
    BY <2>1 DEF NoDuplicates, HandlesInPlace
  <2> QED
    BY <2>3, <2>4, <2>5 DEF HandlesStep
<1>3. CASE RunChannelAwaiter(w)
  <2> DEFINE f == after[w]
  <2>1. /\ f \in Fibers /\ f \notin Parked
        /\ RunsAwaiter(w, "channel") /\ TakeAwaiter(w) /\ UNCHANGED runq
        /\ NoDuplicates(waiters') /\ Range(waiters') = Range(waiters) \union {f}
        /\ whom' = whom
    BY <1>3, AwaiterDoes
  <2>2. Parked' = Parked \union {f}
    BY <2>1 DEF Parked
  <2>3. "channel" \in ChannelAwaiters \ {"yield"}
    BY DEF ChannelAwaiters
  <2>4. ProtocolStep(Parked, Parked', ChannelAwaiters)
    BY <2>1, <2>2, <2>3 DEF ProtocolStep
  <2>5. \A g \in Fibers : whom'[g] \notin Range(waiters')
    <3>1. \A g \in Fibers : whom[g] # f
      BY <2>1, Opened DEF Parked, Range
    <3> QED
      BY <2>1, <3>1 DEF HandlesInPlace
  <2>6. NoDuplicates(waiters)'
    BY <2>1 DEF NoDuplicates
  <2> QED
    BY <2>1, <2>4, <2>5, <2>6 DEF HandlesStep, HandlesInPlace
<1> QED
  BY <1>1, <1>2, <1>3

LEMMA HandlesSteps ==
  ASSUME Inv, [Next]_vars
  PROVE  HandlesStep
<1>1. ASSUME NEW w \in Workers, CallStep(w) PROVE HandlesStep
  BY <1>1, CallDoes, HandlesRest DEF ProtocolStep
<1>2. ASSUME RuntimeStep PROVE HandlesStep
  <2>1. UNCHANGED <<waiters, whom>>
    BY <1>2 DEF RuntimeStep, Start, Yield, Finish, vars, channel, data
  <2>2. ProtocolStep(Parked, Parked, ChannelAwaiters)
    BY <1>2 DEF RuntimeStep, ProtocolStep, Start, Yield, Finish, vars, ChannelAwaiters
  <2> QED
    BY <2>1, <2>2, HandlesRest
<1> QED
  BY <1>1, <1>2, Steps, HandlesOfRing, HandlesOfRest

LEMMA HandlesKept ==
  ASSUME Inv, [Next]_vars
  PROVE  HandlesInPlace'
<1>1. HandlesStep
  BY HandlesSteps
<1>2. Kinds(ChannelAwaiters) /\ "yield" \in ChannelAwaiters
  BY ChannelAssumption DEF Kinds, ChannelAwaiters
<1>3. InPlace(Parked, ChannelAwaiters)'
  BY <1>1, <1>2, InPlaceStep DEF HandlesStep, Inv, ChannelInv, HandlesInPlace
<1> QED
  BY <1>1, <1>3 DEF HandlesStep, HandlesInPlace
-----------------------------------------------------------------------------
\* Who is about to be scheduled is a fiber in Parked.
LEMMA CalledIsParked ==
  ASSUME TypeOK, NEW f \in Fibers
  PROVE  f \notin Parked => f \notin Range(whom)
  BY Opened DEF Parked

LEMMA LocalsRest ==
  ASSUME Inv, UNCHANGED <<arg, value, whom, sent, pc>>
  PROVE  Locals' /\ Errands'
  BY DEF Inv, ChannelInv, Locals, Errands, HasValue

LEMMA LocalsOfCall ==
  ASSUME Inv, NEW w \in Workers, CallStep(w)
  PROVE  Locals' /\ Errands'
<1> USE DEF Inv, ChannelInv
<1> DEFINE f == running[w]
<1>0. /\ pc \in [Fibers -> Labels] /\ arg \in [Fibers -> Messages \union {NoItem}]
      /\ value \in [Fibers -> Messages \union {NoItem}] /\ sent \subseteq Messages
      /\ NoItem \notin Messages /\ whom \in [Fibers -> Fibers \union {None}]
      /\ None \notin Fibers
  BY Opened
<1>1. f \in Fibers /\ f \notin Range(whom) /\ whom' = whom /\ Range(whom') = Range(whom)
  BY CallDoes, CalledIsParked
<1>2. ASSUME NEW m \in Messages, CallSend(w, m) PROVE Locals' /\ Errands'
  <2>1. /\ pc[f] = "out" /\ pc' = [pc EXCEPT ![f] = "sendlock"]
        /\ arg' = [arg EXCEPT ![f] = m] /\ sent' = sent \union {m} /\ value' = value
    BY <1>2 DEF CallSend, Goto, At
  <2>2. m \notin sent
    <3>1. m \in Int /\ sent = 1 .. m - 1
      BY <1>2 DEF CallSend, Messages
    <3> QED
      BY <3>1
  <2>3. \A g \in Fibers : arg[g] # m
    BY <1>0, <2>2 DEF Locals
  <2>4. \A g \in Fibers : /\ arg'[g] # NoItem <=> pc'[g] \in HasArg
                          /\ arg'[g] # NoItem => arg'[g] \in sent'
    BY <1>0, <1>1, <2>1 DEF Locals, HasArg
  <2>5. \A g \in Fibers : value'[g] # NoItem <=> HasValue(g)'
    BY <1>0, <1>1, <2>1 DEF Locals, HasValue
  <2>6. \A e, g \in Fibers : arg'[e] = arg'[g] /\ arg'[e] # NoItem => e = g
    BY <1>0, <1>1, <2>1, <2>3 DEF Locals
  <2>7. Errands'
    BY <1>0, <1>1, <2>1 DEF Errands
  <2> QED
    BY <2>4, <2>5, <2>6, <2>7 DEF Locals
<1>3. CASE CallRecv(w) \/ SpinLock(w)
  <2>1. /\ UNCHANGED <<arg, value, sent>>
        /\ \/ pc[f] = "out" /\ pc' = [pc EXCEPT ![f] = "recvlock"]
           \/ pc[f] = "sendlock" /\ pc' = [pc EXCEPT ![f] = "send"]
           \/ pc[f] = "recvlock" /\ pc' = [pc EXCEPT ![f] = "recv"]
    BY <1>3 DEF CallRecv, SpinLock, Goto, At, data
  <2>2. Errands'
    BY <1>0, <1>1, <2>1 DEF Errands
  <2>3. \A g \in Fibers : /\ arg'[g] # NoItem <=> pc'[g] \in HasArg
                          /\ value'[g] # NoItem <=> HasValue(g)'
    BY <1>0, <1>1, <2>1 DEF Locals, HasArg, HasValue
  <2> QED
    BY <2>1, <2>2, <2>3 DEF Locals
<1>4. CASE Return(w)
  <2>1. /\ pc[f] \in {"sent", "got"} /\ pc' = [pc EXCEPT ![f] = "out"] /\ sent' = sent
        /\ arg' = [arg EXCEPT ![f] = NoItem] /\ value' = [value EXCEPT ![f] = NoItem]
    BY <1>4 DEF Return, Goto, At
  <2>2. Errands'
    BY <1>0, <1>1, <2>1 DEF Errands
  <2>3. \A g \in Fibers : /\ arg'[g] # NoItem <=> pc'[g] \in HasArg
                          /\ arg'[g] # NoItem => arg'[g] \in sent'
                          /\ value'[g] # NoItem <=> HasValue(g)'
    BY <1>0, <1>1, <2>1 DEF Locals, HasArg, HasValue
  <2>4. \A e, g \in Fibers : arg'[e] = arg'[g] /\ arg'[e] # NoItem => e = g
    BY <1>0, <1>1, <2>1 DEF Locals
  <2> QED
    BY <2>2, <2>3, <2>4 DEF Locals
<1> QED
  BY <1>2, <1>3, <1>4 DEF CallStep

LEMMA LocalsOfRing ==
  ASSUME Inv, NEW w \in Workers,
         SendPushes(w) \/ SendPasses(w) \/ RecvPops(w) \/ RecvRefills(w)
  PROVE  Locals' /\ Errands'
<1> USE DEF Inv, ChannelInv
<1> DEFINE f == running[w]
           h == Head(waiters)
<1>0. /\ pc \in [Fibers -> Labels] /\ arg \in [Fibers -> Messages \union {NoItem}]
      /\ value \in [Fibers -> Messages \union {NoItem}] /\ sent \subseteq Messages
      /\ NoItem \notin Messages /\ whom \in [Fibers -> Fibers \union {None}]
      /\ None \notin Fibers
  BY Opened
<1>1. CASE SendPushes(w)
  <2>1. /\ f \in Fibers /\ pc[f] = "send" /\ pc' = [pc EXCEPT ![f] = "sent"]
        /\ UNCHANGED <<arg, value, whom, sent>> /\ f \notin Range(whom)
    BY <1>1, PushDoes, CalledIsParked
  <2>2. Errands'
    BY <1>0, <2>1 DEF Errands
  <2>3. \A g \in Fibers : /\ arg'[g] # NoItem <=> pc'[g] \in HasArg
                          /\ value'[g] # NoItem <=> HasValue(g)'
    BY <1>0, <2>1 DEF Locals, HasArg, HasValue
  <2> QED
    BY <2>1, <2>2, <2>3 DEF Locals
<1>2. CASE SendPasses(w)
  <2>1. /\ f \in Fibers /\ pc[f] = "send" /\ pc' = [pc EXCEPT ![f] = "wakerecv"]
        /\ h \in Fibers /\ pc[h] = "waitrecv" /\ arg[f] \in Messages /\ whom[f] = None
        /\ value' = [value EXCEPT ![h] = arg[f]] /\ whom' = [whom EXCEPT ![f] = h]
        /\ Range(whom') \ {None} = (Range(whom) \ {None}) \union {h}
        /\ UNCHANGED <<arg, sent>> /\ f \notin Range(whom) /\ h \notin Range(whom)
    BY <1>2, PassDoes, CalledIsParked
  <2>2. \A g \in Fibers : g \in Range(whom') <=> g \in Range(whom) \/ g = h
    BY <1>0, <2>1
  <2>3. Errands'
    BY <1>0, <2>1 DEF Errands
  <2>4. \A g \in Fibers : arg'[g] # NoItem <=> pc'[g] \in HasArg
    BY <1>0, <2>1 DEF Locals, HasArg
  <2>5. \A g \in Fibers : value'[g] # NoItem <=> HasValue(g)'
    BY <1>0, <2>1, <2>2 DEF Locals, HasValue
  <2> QED
    BY <2>1, <2>3, <2>4, <2>5 DEF Locals
<1>3. CASE RecvPops(w)
  <2>1. /\ f \in Fibers /\ pc[f] = "recv" /\ pc' = [pc EXCEPT ![f] = "got"]
        /\ value' = [value EXCEPT ![f] = Oldest(ring)] /\ Oldest(ring) \in Messages
        /\ UNCHANGED <<arg, whom, sent>>
    BY <1>3, PopDoes
  <2>2. Errands'
    BY <1>0, <2>1 DEF Errands
  <2>3. \A g \in Fibers : /\ arg'[g] # NoItem <=> pc'[g] \in HasArg
                          /\ value'[g] # NoItem <=> HasValue(g)'
    BY <1>0, <2>1 DEF Locals, HasArg, HasValue
  <2> QED
    BY <2>1, <2>2, <2>3 DEF Locals
<1>4. CASE RecvRefills(w)
  <2>1. /\ f \in Fibers /\ pc[f] = "recv" /\ pc' = [pc EXCEPT ![f] = "wakesend"]
        /\ h \in Fibers /\ pc[h] = "waitsend" /\ Oldest(ring) \in Messages /\ whom[f] = None
        /\ value' = [value EXCEPT ![f] = Oldest(ring)] /\ whom' = [whom EXCEPT ![f] = h]
        /\ Range(whom') \ {None} = (Range(whom) \ {None}) \union {h}
        /\ UNCHANGED <<arg, sent>> /\ f \notin Range(whom) /\ h \notin Range(whom)
    BY <1>4, RefillDoes, CalledIsParked
  <2>2. \A g \in Fibers : g \in Range(whom') <=> g \in Range(whom) \/ g = h
    BY <1>0, <2>1
  <2>3. Errands'
    BY <1>0, <2>1 DEF Errands
  <2>4. \A g \in Fibers : arg'[g] # NoItem <=> pc'[g] \in HasArg
    BY <1>0, <2>1 DEF Locals, HasArg
  <2>5. \A g \in Fibers : value'[g] # NoItem <=> HasValue(g)'
    BY <1>0, <2>1, <2>2 DEF Locals, HasValue
  <2> QED
    BY <2>1, <2>3, <2>4, <2>5 DEF Locals
<1> QED
  BY <1>1, <1>2, <1>3, <1>4

LEMMA LocalsOfRest ==
  ASSUME Inv, NEW w \in Workers,
         SendSuspends(w) \/ RecvSuspends(w) \/ WakeReceiver(w) \/ WakeSender(w)
  PROVE  Locals' /\ Errands'
<1> USE DEF Inv, ChannelInv
<1> DEFINE f == running[w]
           h == whom[f]
<1>0. /\ pc \in [Fibers -> Labels] /\ arg \in [Fibers -> Messages \union {NoItem}]
      /\ value \in [Fibers -> Messages \union {NoItem}] /\ sent \subseteq Messages
      /\ NoItem \notin Messages /\ whom \in [Fibers -> Fibers \union {None}]
      /\ None \notin Fibers
  BY Opened
<1>1. CASE SendSuspends(w) \/ RecvSuspends(w)
  <2>1. /\ f \in Fibers /\ f \notin Range(whom) /\ UNCHANGED <<arg, value, whom, sent>>
        /\ \/ pc[f] = "send" /\ pc' = [pc EXCEPT ![f] = "waitsend"]
           \/ pc[f] = "recv" /\ pc' = [pc EXCEPT ![f] = "waitrecv"]
    BY <1>1, SuspendDoes, CalledIsParked DEF data
  <2>2. Errands'
    BY <1>0, <2>1 DEF Errands
  <2>3. \A g \in Fibers : /\ arg'[g] # NoItem <=> pc'[g] \in HasArg
                          /\ value'[g] # NoItem <=> HasValue(g)'
    BY <1>0, <2>1 DEF Locals, HasArg, HasValue
  <2> QED
    BY <2>1, <2>2, <2>3 DEF Locals
<1>2. CASE WakeReceiver(w) \/ WakeSender(w)
  <2>1. /\ f \in Fibers /\ f \notin Range(whom) /\ h \in Fibers /\ h \in Range(whom) /\ h # f
        /\ \/ /\ pc[f] = "wakerecv" /\ pc[h] = "waitrecv"
              /\ pc' = [pc EXCEPT ![f] = "sent", ![h] = "got"]
           \/ /\ pc[f] = "wakesend" /\ pc[h] = "waitsend"
              /\ pc' = [pc EXCEPT ![f] = "got", ![h] = "sent"]
        /\ whom' = [whom EXCEPT ![f] = None]
        /\ Range(whom') \ {None} = (Range(whom) \ {None}) \ {h}
        /\ UNCHANGED <<arg, value, sent>>
    BY <1>2, WakeDoes, CalledIsParked
  <2>2. \A g \in Fibers : g \in Range(whom') <=> g \in Range(whom) /\ g # h
    BY <1>0, <2>1
  <2>3. Errands'
    <3>1. \A g \in Fibers : whom[g] # f
      BY <1>0, <2>1 DEF Range
    <3>2. \A g \in Fibers : g # f /\ whom[g] # None => whom[g] # h
      BY <1>0, <2>1 DEF HandlesInPlace
    <3> QED
      BY <1>0, <2>1, <3>1, <3>2 DEF Errands
  <2>4. \A g \in Fibers : arg'[g] # NoItem <=> pc'[g] \in HasArg
    BY <1>0, <2>1 DEF Locals, HasArg
  <2>5. \A g \in Fibers : value'[g] # NoItem <=> HasValue(g)'
    BY <1>0, <2>1, <2>2, ZenonT(30) DEF Locals, HasValue
  <2> QED
    BY <2>1, <2>3, <2>4, <2>5 DEF Locals
<1> QED
  BY <1>1, <1>2

LEMMA LocalsKept ==
  ASSUME Inv, [Next]_vars
  PROVE  Locals' /\ Errands'
<1>1. ASSUME NEW w \in Workers, RunChannelAwaiter(w) PROVE Locals' /\ Errands'
  BY <1>1, AwaiterDoes, LocalsRest
<1>2. ASSUME RuntimeStep PROVE Locals' /\ Errands'
  BY <1>2, LocalsRest DEF RuntimeStep, Start, Yield, Finish, vars, channel, data
<1> QED
  BY <1>1, <1>2, Steps, LocalsOfCall, LocalsOfRing, LocalsOfRest
-----------------------------------------------------------------------------
\* The kind of those that wait.
LEMMA WaitersKept ==
  ASSUME Inv, [Next]_vars
  PROVE  WaitersAreOfAKind'
<1> USE DEF Inv, ChannelInv
<1>0. /\ pc \in [Fibers -> Labels]
      /\ Range(waiters) \subseteq Parked /\ Range(waiters) \subseteq Fibers
  BY Opened DEF Parked, Range
<1>1. ASSUME NEW w \in Workers, CallStep(w) \/ SendSuspends(w) \/ RecvSuspends(w)
      PROVE  WaitersAreOfAKind'
  <2> DEFINE f == running[w]
  <2>1. /\ f \in Fibers /\ f \notin Range(waiters) /\ UNCHANGED <<ring, waiters>>
        /\ \E to \in Labels : pc' = [pc EXCEPT ![f] = to]
    BY <1>0, <1>1, CallDoes, SuspendDoes DEF data, Labels
  <2>2. \A g \in Range(waiters) : pc'[g] = pc[g]
    BY <1>0, <2>1
  <2> QED
    BY <2>1, <2>2 DEF WaitersAreOfAKind
<1>2. ASSUME NEW w \in Workers, SendPushes(w) \/ RecvPops(w) PROVE WaitersAreOfAKind'
  <2>1. waiters' = <<>>
    BY <1>2, PushDoes, PopDoes
  <2> QED
    BY <2>1 DEF WaitersAreOfAKind, Range
<1>3. ASSUME NEW w \in Workers, SendPasses(w) PROVE WaitersAreOfAKind'
  <2> DEFINE f == running[w]
  <2>1. /\ f \in Fibers /\ f \notin Range(waiters) /\ ring' = ring /\ IsEmpty(ring)
        /\ pc' = [pc EXCEPT ![f] = "wakerecv"] /\ Range(waiters') \subseteq Range(waiters)
        /\ \A g \in Range(waiters) : pc[g] = "waitrecv"
    BY <1>0, <1>3, PassDoes
  <2> QED
    BY <1>0, <2>1 DEF WaitersAreOfAKind
<1>4. ASSUME NEW w \in Workers, RecvRefills(w) PROVE WaitersAreOfAKind'
  <2> DEFINE f == running[w]
             h == Head(waiters)
  <2>1. /\ f \in Fibers /\ f \notin Range(waiters) /\ IsFull(ring) /\ h \in Fibers /\ Keeps(h)
        /\ ring' = TryPush(TryPop(ring), arg[h])
        /\ pc' = [pc EXCEPT ![f] = "wakesend"] /\ Range(waiters') \subseteq Range(waiters)
        /\ \A g \in Range(waiters) : pc[g] = "waitsend"
    BY <1>0, <1>4, RefillDoes
  <2>2. Size(ring') = Size(ring)
    BY <2>1, Refilled
  <2>3. IsFull(ring')
    BY <2>1, <2>2 DEF IsFull
  <2> QED
    BY <1>0, <2>1, <2>3 DEF WaitersAreOfAKind
<1>5. ASSUME NEW w \in Workers, WakeReceiver(w) \/ WakeSender(w) PROVE WaitersAreOfAKind'
  <2> DEFINE f == running[w]
             h == whom[f]
  <2>1. /\ f \in Fibers /\ f \notin Range(waiters) /\ h \in Fibers /\ h \notin Range(waiters)
        /\ UNCHANGED <<ring, waiters>>
        /\ \E x, y \in Labels : pc' = [pc EXCEPT ![f] = x, ![h] = y]
    BY <1>0, <1>5, WakeDoes DEF Labels
  <2>2. \A g \in Range(waiters) : pc'[g] = pc[g]
    BY <1>0, <2>1
  <2> QED
    BY <2>1, <2>2 DEF WaitersAreOfAKind
<1>6. ASSUME NEW w \in Workers, RunChannelAwaiter(w) PROVE WaitersAreOfAKind'
  <2> DEFINE f == after[w]
  <2>1. /\ \/ pc[f] = "waitsend" /\ IsFull(ring)
           \/ pc[f] = "waitrecv" /\ IsEmpty(ring)
        /\ Range(waiters') = Range(waiters) \union {f}
        /\ UNCHANGED <<ring, pc>>
    BY <1>6, AwaiterDoes
  <2> QED
    BY <2>1, WhoWaits DEF WaitersAreOfAKind
<1>7. ASSUME RuntimeStep PROVE WaitersAreOfAKind'
  <2>1. UNCHANGED <<ring, waiters, pc>>
    BY <1>7 DEF RuntimeStep, Start, Yield, Finish, vars, channel, data
  <2> QED
    BY <2>1 DEF WaitersAreOfAKind
<1> QED
  BY <1>1, <1>2, <1>3, <1>4, <1>5, <1>6, <1>7, Steps
-----------------------------------------------------------------------------
\* The lock.
\* Nobody else is behind lock() while one is.
LEMMA OneHolds ==
  ASSUME Inv, NEW w \in Workers, Holds(w)
  PROVE  locked /\ \A v \in Workers : Holds(v) => v = w
  BY DEF Inv, ChannelInv, LockKept

\* It is released, and only the one fiber leaves what it guards.
LEMMA LockReleased ==
  ASSUME Inv, NEW w \in Workers,
         SendPushes(w) \/ SendPasses(w) \/ RecvPops(w) \/ RecvRefills(w)
  PROVE  LockKept'
<1> USE DEF Inv, ChannelInv
<1> DEFINE f == running[w]
<1>1. /\ f \in Fibers /\ Holds(w) /\ UNCHANGED runtime /\ ~locked'
      /\ \E to \in Labels \ {"send", "recv"} : pc' = [pc EXCEPT ![f] = to]
  BY PushDoes, PassDoes, PopDoes, RefillDoes DEF Labels
<1>2. /\ f # None /\ after[w] = None /\ pc \in [Fibers -> Labels]
      /\ running \in [Workers -> Fibers \union {None}]
      /\ \A v \in Workers : running[v] = f => v = w
  BY <1>1, Opened, Placed
<1>3. \A v \in Workers : ~Holds(v)'
  <2> TAKE v \in Workers
  <2>1. ~RunsAwaiter(v, "channel")'
    BY <1>1, <1>2, OneHolds DEF Holds, RunsAwaiter, runtime
  <2>2. ~At(v, "send")' /\ ~At(v, "recv")'
    BY <1>1, <1>2, OneHolds DEF Holds, At, runtime
  <2> QED
    BY <2>1, <2>2 DEF Holds
<1>4. \A g \in Fibers : pc'[g] \in {"send", "recv"} => \E v \in Workers : running'[v] = g
  BY <1>1, <1>2 DEF LockKept, runtime
<1> QED
  BY <1>1, <1>3, <1>4 DEF LockKept, Holds

\* The steps that take the lock or pass through a call.
LEMMA LockOfCall ==
  ASSUME Inv, NEW w \in Workers, CallStep(w)
  PROVE  LockKept'
<1> USE DEF Inv, ChannelInv
<1> DEFINE f == running[w]
<1>1. /\ f \in Fibers /\ f \notin Parked /\ ~Holds(w) /\ UNCHANGED <<runtime, ring>>
      /\ pc[f] \in {"out", "sendlock", "recvlock", "sent", "got"}
      /\ \E to \in Labels : pc' = [pc EXCEPT ![f] = to]
  BY CallDoes
<1>2. /\ f # None /\ after[w] = None /\ pc \in [Fibers -> Labels]
      /\ running \in [Workers -> Fibers \union {None}]
      /\ \A v \in Workers : running[v] = f => v = w
      /\ \A v \in Workers : after[v] # f
  BY <1>1, Opened, Placed
<1>3. \A v \in Workers : RunsAwaiter(v, "channel")' <=> RunsAwaiter(v, "channel")
  BY <1>1 DEF RunsAwaiter, runtime
<1>4. \A v \in Workers : v # w => (Holds(v)' <=> Holds(v))
  <2> TAKE v \in Workers
  <2>1. v # w => (At(v, "send")' <=> At(v, "send")) /\ (At(v, "recv")' <=> At(v, "recv"))
    BY <1>1, <1>2 DEF At, runtime
  <2> QED
    BY <1>3, <2>1 DEF Holds
<1>5. \A g \in Fibers : pc'[g] \in {"send", "recv"} => \E v \in Workers : running'[v] = g
  BY <1>1, <1>2 DEF LockKept, runtime
<1>6. \A v \in Workers : RunsAwaiter(v, "channel")' =>
        \/ pc'[after'[v]] = "waitsend" /\ IsFull(ring')
        \/ pc'[after'[v]] = "waitrecv" /\ IsEmpty(ring')
  <2> SUFFICES ASSUME NEW v \in Workers, RunsAwaiter(v, "channel")'
               PROVE  \/ pc'[after'[v]] = "waitsend" /\ IsFull(ring')
                      \/ pc'[after'[v]] = "waitrecv" /\ IsEmpty(ring')
    OBVIOUS
  <2>1. /\ RunsAwaiter(v, "channel") /\ after[v] \in Fibers /\ after[v] # f
        /\ after' = after /\ ring' = ring
    BY <1>1, <1>2, <1>3, Placed DEF RunsAwaiter, runtime
  <2>2. pc'[after[v]] = pc[after[v]]
    BY <1>1, <1>2, <2>1
  <2> QED
    BY <2>1, <2>2 DEF LockKept
<1>7. CASE SpinLock(w)
  <2>1. ~locked /\ locked' /\ pc' \in {[pc EXCEPT ![f] = "send"], [pc EXCEPT ![f] = "recv"]}
    BY <1>7 DEF SpinLock, Goto
  <2>2. \A v \in Workers : ~Holds(v)
    BY <2>1 DEF LockKept
  <2>3. Holds(w)'
    BY <1>1, <1>2, <2>1 DEF Holds, At, runtime
  <2>4. \A v \in Workers : Holds(v)' <=> v = w
    BY <1>4, <2>2, <2>3
  <2> QED
    BY <1>5, <1>6, <2>1, <2>4 DEF LockKept
<1>8. CASE ~SpinLock(w)
  <2>1. locked' = locked /\ \E to \in Labels \ {"send", "recv"} : pc' = [pc EXCEPT ![f] = to]
    BY <1>8 DEF CallStep, CallRecv, CallSend, Return, Goto, Labels
  <2>2. ~At(w, "send")' /\ ~At(w, "recv")'
    BY <1>1, <1>2, <2>1 DEF At, runtime
  <2>3. ~Holds(w)'
    BY <1>1, <1>3, <2>2 DEF Holds
  <2>4. \A v \in Workers : Holds(v)' <=> Holds(v)
    BY <1>1, <1>4, <2>3
  <2> QED
    BY <1>5, <1>6, <2>1, <2>4 DEF LockKept
<1> QED
  BY <1>7, <1>8

\* Suspend with the channel awaiter: the lock goes from the fiber to its awaiter.
LEMMA LockOfSuspend ==
  ASSUME Inv, NEW w \in Workers, SendSuspends(w) \/ RecvSuspends(w)
  PROVE  LockKept'
<1> USE DEF Inv, ChannelInv
<1> DEFINE f == running[w]
<1>1. /\ f \in Fibers /\ Holds(w) /\ locked' = locked /\ ring' = ring
      /\ awaiter' = [awaiter EXCEPT ![f] = "channel"] /\ coro' = [coro EXCEPT ![f] = "saved"]
      /\ after' = [after EXCEPT ![w] = f] /\ running' = [running EXCEPT ![w] = None]
      /\ \/ pc' = [pc EXCEPT ![f] = "waitsend"] /\ IsFull(ring)
         \/ pc' = [pc EXCEPT ![f] = "waitrecv"] /\ IsEmpty(ring)
  BY SuspendDoes DEF Suspend, data
<1>2. /\ f # None /\ after[w] = None /\ pc \in [Fibers -> Labels]
      /\ running \in [Workers -> Fibers \union {None}]
      /\ after \in [Workers -> Fibers \union {None}]
      /\ awaiter \in [Fibers -> {None, "yield", "channel"}] /\ coro \in [Fibers -> CoroStates]
      /\ \A v \in Workers : running[v] = f => v = w
      /\ \A v \in Workers : after[v] # f
  BY <1>1, Opened, Placed
<1>3. after'[w] = f /\ Holds(w)' /\ locked
  BY <1>1, <1>2, OneHolds DEF Holds, RunsAwaiter
<1>4. \A v \in Workers : v # w => ~Holds(v)' /\ ~RunsAwaiter(v, "channel")'
  <2> TAKE v \in Workers
  <2>1. v # w => ~RunsAwaiter(v, "channel")'
    BY <1>1, <1>2, OneHolds DEF Holds, RunsAwaiter
  <2>2. v # w => ~At(v, "send")' /\ ~At(v, "recv")'
    BY <1>1, <1>2, OneHolds DEF Holds, At
  <2> QED
    BY <2>1, <2>2 DEF Holds
<1>5. \A g \in Fibers : pc'[g] \in {"send", "recv"} => \E v \in Workers : running'[v] = g
  <2> SUFFICES ASSUME NEW g \in Fibers, pc'[g] \in {"send", "recv"}
               PROVE  \E v \in Workers : running'[v] = g
    OBVIOUS
  <2>1. g # f /\ pc[g] \in {"send", "recv"}
    BY <1>1, <1>2
  <2>2. PICK v \in Workers : running[v] = g
    BY <2>1 DEF LockKept
  <2> QED
    BY <1>1, <1>2, <2>1, <2>2
<1>6. \/ pc'[f] = "waitsend" /\ IsFull(ring')
      \/ pc'[f] = "waitrecv" /\ IsEmpty(ring')
  BY <1>1, <1>2
<1> QED
  BY <1>1, <1>3, <1>4, <1>5, <1>6 DEF LockKept

\* Unlock happens when the fiber found has been scheduled.
LEMMA LockOfWake ==
  ASSUME Inv, NEW w \in Workers, WakeReceiver(w) \/ WakeSender(w)
  PROVE  LockKept'
<1> USE DEF Inv, ChannelInv
<1> DEFINE f == running[w]
           h == whom[f]
<1>1. /\ f \in Fibers /\ h \in Fibers /\ h \in Parked /\ h # f
      /\ pc[f] \notin {"send", "recv"} /\ pc[h] \notin {"send", "recv"}
      /\ \E x, y \in {"sent", "got"} : pc' = [pc EXCEPT ![f] = x, ![h] = y]
      /\ UNCHANGED <<running, after, awaiter, coro, locked, ring>>
  BY WakeDoes
<1>2. /\ f # None /\ pc \in [Fibers -> Labels] /\ running \in [Workers -> Fibers \union {None}]
      /\ \A v \in Workers : after[v] # f /\ after[v] # h
      /\ \A v \in Workers : after[v] # None => after[v] \in Fibers
  BY <1>1, Opened, Placed
<1>3. \A v \in Workers : RunsAwaiter(v, "channel")' <=> RunsAwaiter(v, "channel")
  BY <1>1 DEF RunsAwaiter
<1>4. \A g \in Fibers : pc'[g] \in {"send", "recv"} <=> pc[g] \in {"send", "recv"}
  BY <1>1, <1>2
<1>5. \A g \in Fibers : g # f /\ g # h => pc'[g] = pc[g]
  BY <1>1, <1>2
<1>6. \A v \in Workers : Holds(v)' <=> Holds(v)
  BY <1>1, <1>2, <1>3, <1>4 DEF Holds, At
<1> QED
  BY <1>1, <1>2, <1>3, <1>4, <1>5, <1>6 DEF LockKept, RunsAwaiter

\* The awaiter joins the list and releases the lock.
LEMMA LockOfAwaiter ==
  ASSUME Inv, NEW w \in Workers, RunChannelAwaiter(w)
  PROVE  LockKept'
<1> USE DEF Inv, ChannelInv
<1> DEFINE f == after[w]
<1>1. /\ f \in Fibers /\ Holds(w) /\ ~locked' /\ UNCHANGED <<pc, running, coro>>
      /\ awaiter' = [awaiter EXCEPT ![f] = None] /\ after' = [after EXCEPT ![w] = None]
  BY AwaiterDoes DEF TakeAwaiter
<1>2. /\ f # None /\ running[w] = None
      /\ after \in [Workers -> Fibers \union {None}]
      /\ awaiter \in [Fibers -> {None, "yield", "channel"}]
      /\ \A v \in Workers : after[v] = f => v = w
  BY <1>1, Opened, Placed
<1>3. \A v \in Workers : ~Holds(v)'
  <2> TAKE v \in Workers
  <2>1. ~At(v, "send")' /\ ~At(v, "recv")'
    BY <1>1, <1>2, OneHolds DEF Holds, At
  <2>2. ~RunsAwaiter(v, "channel")'
    BY <1>1, <1>2, OneHolds DEF Holds, RunsAwaiter
  <2> QED
    BY <2>1, <2>2 DEF Holds
<1> QED
  BY <1>1, <1>3 DEF LockKept, Holds

\* The runtime neither takes the lock nor releases it.
LEMMA LockOfRuntime ==
  ASSUME Inv, RuntimeStep
  PROVE  LockKept'
<1> USE DEF Inv, ChannelInv
<1>0. /\ pc \in [Fibers -> Labels] /\ running \in [Workers -> Fibers \union {None}]
      /\ after \in [Workers -> Fibers \union {None}]
      /\ awaiter \in [Fibers -> {None, "yield", "channel"}] /\ coro \in [Fibers -> CoroStates]
      /\ None \notin Fibers \union {"yield", "channel"}
  BY Opened
<1>1. UNCHANGED <<locked, ring, pc>>
  BY DEF RuntimeStep, Start, Yield, Finish, vars, channel, data
<1> DEFINE Same ==
             /\ \A v \in Workers : RunsAwaiter(v, "channel")' <=> RunsAwaiter(v, "channel")
             /\ \A v \in Workers : RunsAwaiter(v, "channel") => after'[v] = after[v]
             /\ \A v \in Workers : At(v, "send")' <=> At(v, "send")
             /\ \A v \in Workers : At(v, "recv")' <=> At(v, "recv")
             /\ \A g \in Fibers : pc[g] \in {"send", "recv"} =>
                  \E v \in Workers : running'[v] = g
<1>2. ASSUME NEW f \in Fibers, Start(f) PROVE Same
  <2>1. /\ coro[f] = "unborn" /\ coro' = [coro EXCEPT ![f] = "saved"]
        /\ UNCHANGED <<running, after, awaiter>>
    BY <1>2 DEF Start, Go
  <2>2. \A v \in Workers : after[v] # f
    BY <1>0, <2>1 DEF HandlesInPlace, InPlace, Shows
  <2> QED
    BY <1>0, <1>1, <2>1, <2>2 DEF RunsAwaiter, At, LockKept
<1>3. ASSUME NEW w \in Workers, Resume(w) PROVE Same
  <2> DEFINE g == Head(runq)
  <2>1. /\ running[w] = None /\ after[w] = None /\ running' = [running EXCEPT ![w] = g]
        /\ coro' = [coro EXCEPT ![g] = "active"] /\ UNCHANGED <<after, awaiter>>
    BY <1>3 DEF Resume
  <2>2. g \in Fibers /\ g \in Range(runq)
    <3>1. runq \in Seq(Fibers) /\ runq # <<>>
      BY <1>3, Opened DEF Resume
    <3>2. 1 \in DOMAIN runq /\ g = runq[1] /\ g \in Fibers
      BY <3>1
    <3> QED
      BY <3>2 DEF Range
  <2>3. \A v \in Workers : after[v] # g /\ running[v] # g
    BY <1>0, <2>2, Placed
  <2>4. pc[g] \notin {"send", "recv"}
    BY <2>2, <2>3 DEF LockKept
  <2>5. /\ \A v \in Workers : RunsAwaiter(v, "channel")' <=> RunsAwaiter(v, "channel")
        /\ \A v \in Workers : after'[v] = after[v]
    BY <1>0, <2>1, <2>2, <2>3 DEF RunsAwaiter
  <2>6. /\ \A v \in Workers : At(v, "send")' <=> At(v, "send")
        /\ \A v \in Workers : At(v, "recv")' <=> At(v, "recv")
    BY <1>0, <1>1, <2>1, <2>2, <2>4 DEF At
  <2>7. \A x \in Fibers : pc[x] \in {"send", "recv"} => \E v \in Workers : running'[v] = x
    BY <1>0, <2>1 DEF LockKept
  <2> QED
    BY <2>5, <2>6, <2>7
<1>4. ASSUME NEW w \in Workers, Reap(w) PROVE Same
  <2> DEFINE g == after[w]
  <2>1. /\ g # None /\ g \in Fibers /\ coro[g] = "complete" /\ running' = running
        /\ coro' = [coro EXCEPT ![g] = "deleted"] /\ after' = [after EXCEPT ![w] = None]
        /\ awaiter' = awaiter
    BY <1>4, <1>0 DEF Reap
  <2>2. \A v \in Workers : after[v] = g => v = w
    BY <2>1, Placed
  <2> QED
    BY <1>0, <1>1, <2>1, <2>2 DEF RunsAwaiter, At, LockKept
<1>5. ASSUME NEW w \in Workers, RunYield(w) PROVE Same
  <2> DEFINE g == after[w]
  <2>1. /\ g # None /\ g \in Fibers /\ awaiter[g] = "yield" /\ running' = running /\ coro' = coro
        /\ awaiter' = [awaiter EXCEPT ![g] = None] /\ after' = [after EXCEPT ![w] = None]
    BY <1>5, <1>0 DEF RunYield, RunsAwaiter, TakeAwaiter
  <2>2. \A v \in Workers : after[v] = g => v = w
    BY <2>1, Placed
  <2> QED
    BY <1>0, <1>1, <2>1, <2>2 DEF RunsAwaiter, At, LockKept
<1>6. ASSUME NEW w \in Workers, Yield(w) \/ Finish(w) PROVE Same
  <2> DEFINE f == running[w]
  <2>1. /\ f # None /\ f \in Fibers /\ pc[f] = "out" /\ running' = [running EXCEPT ![w] = None]
        /\ after' = [after EXCEPT ![w] = f]
        /\ \/ awaiter' = [awaiter EXCEPT ![f] = "yield"] /\ coro' = [coro EXCEPT ![f] = "saved"]
           \/ awaiter' = awaiter /\ coro' = [coro EXCEPT ![f] = "complete"]
    BY <1>6, <1>0 DEF Yield, Finish, Suspend, Complete, At
  <2>2. /\ after[w] = None /\ \A v \in Workers : after[v] # f
        /\ \A v \in Workers : running[v] = f => v = w
    BY <2>1, Placed
  <2>3. /\ \A v \in Workers : RunsAwaiter(v, "channel")' <=> RunsAwaiter(v, "channel")
        /\ \A v \in Workers : RunsAwaiter(v, "channel") => after'[v] = after[v]
    BY <1>0, <2>1, <2>2 DEF RunsAwaiter
  <2>4. /\ \A v \in Workers : At(v, "send")' <=> At(v, "send")
        /\ \A v \in Workers : At(v, "recv")' <=> At(v, "recv")
    BY <1>0, <1>1, <2>1 DEF At
  <2>5. \A x \in Fibers : pc[x] \in {"send", "recv"} => \E v \in Workers : running'[v] = x
    BY <1>0, <2>1 DEF LockKept
  <2> QED
    BY <2>3, <2>4, <2>5
<1>7. ASSUME UNCHANGED vars PROVE Same
  BY <1>7 DEF vars, runtime, channel, RunsAwaiter, At, LockKept
<1>8. Same
  BY <1>2, <1>3, <1>4, <1>5, <1>6, <1>7 DEF RuntimeStep
<1>9. \A v \in Workers : Holds(v)' <=> Holds(v)
  BY <1>8 DEF Holds
<1> QED
  BY <1>1, <1>8, <1>9 DEF LockKept

\* All the steps together.
LEMMA LockStep ==
  ASSUME Inv, [Next]_vars
  PROVE  LockKept'
  BY Steps, LockReleased, LockOfCall, LockOfSuspend, LockOfWake, LockOfAwaiter, LockOfRuntime
-----------------------------------------------------------------------------
\* The indices of the ring.
LEMMA RingRests ==
  ASSUME Inv, ring' = ring, Passed' = Passed
  PROVE  RingKept'
  BY DEF Inv, ChannelInv, RingKept

\* A message gets into the ring, or out of the hands of its sender.
LEMMA PassedGrows ==
  ASSUME Inv, NEW f \in Fibers, Keeps(f), UNCHANGED <<arg, sent>>,
         \A g \in Fibers : Keeps(g)' <=> Keeps(g) /\ g # f
  PROVE  /\ Passed' = Passed \union {arg[f]} /\ arg[f] \notin Passed
         /\ Cardinality(Passed') = Cardinality(Passed) + 1 /\ Cardinality(Passed) \in Nat
<1> USE DEF Inv, ChannelInv
<1>1. arg[f] \in sent /\ arg[f] # NoItem
  BY DEF Locals, HasArg, Keeps
<1>2. \A g \in Fibers : g # f => arg[g] # arg[f]
  BY <1>1 DEF Locals
<1>3. Passed' = Passed \union {arg[f]} /\ arg[f] \notin Passed
  BY <1>1, <1>2 DEF Passed
<1>4. IsFiniteSet(Passed)
  <2>1. MaxSent \in Nat /\ Messages = 1 .. MaxSent
    BY ChannelAssumption DEF Messages
  <2>2. IsFiniteSet(Messages)
    BY <2>1, FS_Interval
  <2>3. Passed \subseteq Messages
    BY Opened DEF Passed
  <2> QED
    BY <2>2, <2>3, FS_Subset
<1> QED
  BY <1>3, <1>4, FS_AddElement, FS_CardinalityType

LEMMA PassedStays ==
  ASSUME Inv, UNCHANGED <<arg, sent>>, \A g \in Fibers : Keeps(g)' <=> Keeps(g)
  PROVE  Passed' = Passed
  BY DEF Passed

\* The ring stays in order in every step.
LEMMA RingStep ==
  ASSUME Inv, [Next]_vars
  PROVE  RingKept'
<1> USE DEF Inv, ChannelInv
<1>0. /\ pc \in [Fibers -> Labels] /\ arg \in [Fibers -> Messages \union {NoItem}]
      /\ sent \subseteq Messages /\ NoItem \notin Messages
      /\ None \notin Fibers /\ RingOK(ring, Messages)
  BY Opened
<1>1. ASSUME NEW w \in Workers, CallStep(w) PROVE RingKept'
  <2> DEFINE f == running[w]
  <2>1. /\ f \in Fibers /\ f \notin Range(whom) /\ UNCHANGED <<ring, whom>>
        /\ Range(whom') = Range(whom) /\ running' = running
    BY <1>1, CallDoes, CalledIsParked DEF runtime
  <2>2. ASSUME NEW m \in Messages, CallSend(w, m) PROVE Passed' = Passed
    <3>1. /\ pc[f] = "out" /\ pc' = [pc EXCEPT ![f] = "sendlock"]
          /\ arg' = [arg EXCEPT ![f] = m] /\ sent' = sent \union {m}
      BY <2>2 DEF CallSend, Goto, At
    <3>2. m \notin sent
      <4>1. m \in Int /\ sent = 1 .. m - 1
        BY <2>2 DEF CallSend, Messages
      <4> QED
        BY <4>1
    <3>3. Keeps(f)' /\ ~Keeps(f) /\ arg'[f] = m
      <4>1. pc'[f] = "sendlock" /\ arg'[f] = m
        BY <1>0, <2>1, <3>1
      <4> QED
        BY <2>1, <3>1, <4>1 DEF Keeps
    <3>4. \A g \in Fibers : g # f => (Keeps(g)' <=> Keeps(g)) /\ arg'[g] = arg[g]
      BY <1>0, <2>1, <3>1 DEF Keeps
    <3>5. ASSUME NEW x \in sent, x # m
          PROVE  (\A g \in Fibers : Keeps(g) => arg[g] # x)
                 <=> \A g \in Fibers : Keeps(g)' => arg'[g] # x
      BY <3>3, <3>4, <3>5
    <3>6. ~\A g \in Fibers : Keeps(g)' => arg'[g] # m
      BY <2>1, <3>3
    <3>7. Passed' = {x \in sent' : \A g \in Fibers : Keeps(g)' => arg'[g] # x}
      BY DEF Passed
    <3> QED
      BY <3>1, <3>2, <3>5, <3>6, <3>7 DEF Passed
  <2>3. ASSUME CallRecv(w) \/ SpinLock(w) PROVE Passed' = Passed
    <3>1. /\ UNCHANGED <<arg, sent>>
          /\ \/ pc[f] = "out" /\ pc' = [pc EXCEPT ![f] = "recvlock"]
             \/ pc[f] = "sendlock" /\ pc' = [pc EXCEPT ![f] = "send"]
             \/ pc[f] = "recvlock" /\ pc' = [pc EXCEPT ![f] = "recv"]
      BY <2>3 DEF CallRecv, SpinLock, Goto, At, data
    <3>2. \A g \in Fibers : Keeps(g)' <=> Keeps(g)
      BY <1>0, <2>1, <3>1 DEF Keeps
    <3> QED
      BY <3>1, <3>2, PassedStays
  <2>4. ASSUME Return(w) PROVE Passed' = Passed
    <3>1. /\ pc[f] \in {"sent", "got"} /\ pc' = [pc EXCEPT ![f] = "out"] /\ sent' = sent
          /\ arg' = [arg EXCEPT ![f] = NoItem]
      BY <2>4 DEF Return, Goto, At
    <3>2. \A g \in Fibers : /\ Keeps(g)' <=> Keeps(g)
                            /\ Keeps(g) => arg'[g] = arg[g]
      BY <1>0, <2>1, <3>1 DEF Keeps
    <3> QED
      BY <3>1, <3>2 DEF Passed
  <2> QED
    BY <1>1, <2>1, <2>2, <2>3, <2>4, RingRests DEF CallStep
<1>2. ASSUME NEW w \in Workers, SendPushes(w) PROVE RingKept'
  <2> DEFINE f == running[w]
  <2>1. /\ f \in Fibers /\ Keeps(f) /\ ~IsFull(ring) /\ ring' = TryPush(ring, arg[f])
        /\ pc' = [pc EXCEPT ![f] = "sent"] /\ UNCHANGED <<arg, whom, sent>>
    BY <1>2, PushDoes
  <2>2. \A g \in Fibers : Keeps(g)' <=> Keeps(g) /\ g # f
    BY <1>0, <2>1 DEF Keeps
  <2>3. Cardinality(Passed') = Cardinality(Passed) + 1 /\ Cardinality(Passed) \in Nat
    BY <2>1, <2>2, PassedGrows
  <2>4. /\ Straight(ring') /\ SlotsMatchIndices(ring')
        /\ (WordSize % Capacity) = 0 \/ ring'.tail = ring.tail + 1
    BY <2>1, RoomTaken
  <2>5. ring.tail \in Nat
    BY <1>0, Indices, RingAssumption
  <2> QED
    BY <2>3, <2>4, <2>5 DEF RingKept
<1>3. ASSUME NEW w \in Workers, SendPasses(w) PROVE RingKept'
  <2> DEFINE f == running[w]
             h == Head(waiters)
  <2>1. /\ f \in Fibers /\ Keeps(f) /\ ring' = ring /\ h \in Fibers /\ pc[h] = "waitrecv"
        /\ pc' = [pc EXCEPT ![f] = "wakerecv"] /\ UNCHANGED <<arg, sent>>
        /\ Range(whom') \ {None} = (Range(whom) \ {None}) \union {h}
    BY <1>3, PassDoes
  <2>2. \A g \in Fibers : g \in Range(whom') <=> g \in Range(whom) \/ g = h
    BY <1>0, <2>1
  <2>3. \A g \in Fibers : Keeps(g)' <=> Keeps(g) /\ g # f
    BY <1>0, <2>1, <2>2 DEF Keeps
  <2>4. Cardinality(Passed') = Cardinality(Passed) + 1 /\ Cardinality(Passed) \in Nat
    BY <2>1, <2>3, PassedGrows
  <2>5. ring.tail \in Nat
    BY <1>0, Indices, RingAssumption
  <2> QED
    BY <2>1, <2>4, <2>5 DEF RingKept
<1>4. ASSUME NEW w \in Workers, RecvPops(w) PROVE RingKept'
  <2> DEFINE f == running[w]
  <2>1. /\ f \in Fibers /\ pc[f] = "recv" /\ ~IsEmpty(ring) /\ ring' = TryPop(ring)
        /\ pc' = [pc EXCEPT ![f] = "got"] /\ UNCHANGED <<arg, whom, sent>>
    BY <1>4, PopDoes
  <2>2. \A g \in Fibers : Keeps(g)' <=> Keeps(g)
    BY <1>0, <2>1 DEF Keeps
  <2>3. Passed' = Passed
    BY <2>1, <2>2, PassedStays
  <2>4. Straight(ring') /\ SlotsMatchIndices(ring') /\ ring'.tail = ring.tail
    BY <2>1, RoomMade
  <2> QED
    BY <2>3, <2>4 DEF RingKept
<1>5. ASSUME NEW w \in Workers, RecvRefills(w) PROVE RingKept'
  <2> DEFINE f == running[w]
             h == Head(waiters)
  <2>1. /\ f \in Fibers /\ pc[f] = "recv" /\ h \in Fibers /\ Keeps(h) /\ pc[h] = "waitsend"
        /\ IsFull(ring) /\ ring' = TryPush(TryPop(ring), arg[h])
        /\ pc' = [pc EXCEPT ![f] = "wakesend"] /\ UNCHANGED <<arg, sent>>
        /\ Range(whom') \ {None} = (Range(whom) \ {None}) \union {h}
    BY <1>5, RefillDoes
  <2>2. \A g \in Fibers : g \in Range(whom') <=> g \in Range(whom) \/ g = h
    BY <1>0, <2>1
  <2>3. \A g \in Fibers : Keeps(g)' <=> Keeps(g) /\ g # h
    BY <1>0, <2>1, <2>2 DEF Keeps
  <2>4. Cardinality(Passed') = Cardinality(Passed) + 1 /\ Cardinality(Passed) \in Nat
    BY <2>1, <2>3, PassedGrows
  <2>5. /\ Straight(ring') /\ SlotsMatchIndices(ring')
        /\ (WordSize % Capacity) = 0 \/ ring'.tail = ring.tail + 1
    BY <2>1, Refilled
  <2>6. ring.tail \in Nat
    BY <1>0, Indices, RingAssumption
  <2> QED
    BY <2>4, <2>5, <2>6 DEF RingKept
<1>6. ASSUME NEW w \in Workers, SendSuspends(w) \/ RecvSuspends(w) PROVE RingKept'
  <2> DEFINE f == running[w]
  <2>1. /\ f \in Fibers /\ f \notin Range(whom) /\ UNCHANGED <<ring, arg, whom, sent>>
        /\ \/ pc[f] = "send" /\ pc' = [pc EXCEPT ![f] = "waitsend"]
           \/ pc[f] = "recv" /\ pc' = [pc EXCEPT ![f] = "waitrecv"]
    BY <1>6, SuspendDoes, CalledIsParked DEF data
  <2>2. \A g \in Fibers : Keeps(g)' <=> Keeps(g)
    BY <1>0, <2>1 DEF Keeps
  <2> QED
    BY <2>1, <2>2, PassedStays, RingRests
<1>7. ASSUME NEW w \in Workers, WakeReceiver(w) \/ WakeSender(w) PROVE RingKept'
  <2> DEFINE f == running[w]
             h == whom[f]
  <2>1. /\ f \in Fibers /\ h \in Fibers /\ h \in Range(whom) /\ h # f
        /\ \/ /\ pc[f] = "wakerecv" /\ pc[h] = "waitrecv"
              /\ pc' = [pc EXCEPT ![f] = "sent", ![h] = "got"]
           \/ /\ pc[f] = "wakesend" /\ pc[h] = "waitsend"
              /\ pc' = [pc EXCEPT ![f] = "got", ![h] = "sent"]
        /\ Range(whom') \ {None} = (Range(whom) \ {None}) \ {h}
        /\ UNCHANGED <<ring, arg, sent>>
    BY <1>7, WakeDoes
  <2>2. \A g \in Fibers : g \in Range(whom') <=> g \in Range(whom) /\ g # h
    BY <1>0, <2>1
  <2>3. \A g \in Fibers : Keeps(g)' <=> Keeps(g)
    BY <1>0, <2>1, <2>2 DEF Keeps
  <2> QED
    BY <2>1, <2>3, PassedStays, RingRests
<1>8. ASSUME NEW w \in Workers, RunChannelAwaiter(w) PROVE RingKept'
  BY <1>8, AwaiterDoes, PassedStays, RingRests DEF Keeps
<1>9. ASSUME RuntimeStep PROVE RingKept'
  <2>1. UNCHANGED <<ring, arg, whom, sent, pc>>
    BY <1>9 DEF RuntimeStep, Start, Yield, Finish, vars, channel, data
  <2> QED
    BY <2>1, PassedStays, RingRests DEF Keeps
<1> QED
  BY <1>1, <1>2, <1>3, <1>4, <1>5, <1>6, <1>7, <1>8, <1>9, Steps
-----------------------------------------------------------------------------
\* A fiber yields outside of calls only.
LEMMA YieldersKept ==
  ASSUME Inv, [Next]_vars
  PROVE  Yielders'
<1> USE DEF Inv, ChannelInv, Yielders
<1>0. /\ pc \in [Fibers -> Labels] /\ awaiter \in [Fibers -> {None, "yield", "channel"}]
      /\ None \notin Fibers \union {"yield", "channel"}
      /\ runq \in Seq(Fibers) /\ after \in [Workers -> Fibers \union {None}]
      /\ running \in [Workers -> Fibers \union {None}]
  BY Opened
<1>1. ASSUME NEW w \in Workers,
             \/ CallStep(w) \/ SendPushes(w) \/ SendPasses(w) \/ RecvPops(w) \/ RecvRefills(w)
      PROVE  Yielders'
  <2> DEFINE f == running[w]
  <2>1. f \in Fibers /\ UNCHANGED runtime /\ \E to \in Labels : pc' = [pc EXCEPT ![f] = to]
    BY <1>1, CallDoes, PushDoes, PassDoes, PopDoes, RefillDoes DEF Labels
  <2>2. awaiter[f] = None /\ awaiter' = awaiter
    BY <1>0, <2>1, Placed DEF runtime
  <2> QED
    BY <1>0, <2>1, <2>2
<1>2. ASSUME NEW w \in Workers, SendSuspends(w) \/ RecvSuspends(w) PROVE Yielders'
  <2> DEFINE f == running[w]
  <2>1. /\ f \in Fibers /\ awaiter' = [awaiter EXCEPT ![f] = "channel"]
        /\ \E to \in Labels : pc' = [pc EXCEPT ![f] = to]
    BY <1>2, SuspendDoes DEF Labels, Suspend
  <2> QED
    BY <1>0, <2>1
<1>3. ASSUME NEW w \in Workers, WakeReceiver(w) \/ WakeSender(w) PROVE Yielders'
  <2> DEFINE f == running[w]
             h == whom[f]
  <2>1. /\ f \in Fibers /\ h \in Fibers /\ awaiter[h] = None /\ awaiter' = awaiter
        /\ \E x, y \in Labels : pc' = [pc EXCEPT ![f] = x, ![h] = y]
    BY <1>3, WakeDoes DEF Labels
  <2>2. awaiter[f] = None
    BY <1>0, <2>1, Placed
  <2> QED
    BY <1>0, <2>1, <2>2
<1>4. ASSUME NEW w \in Workers, RunChannelAwaiter(w) PROVE Yielders'
  <2>1. /\ after[w] \in Fibers /\ pc' = pc /\ awaiter' = [awaiter EXCEPT ![after[w]] = None]
    BY <1>4, AwaiterDoes DEF TakeAwaiter
  <2> QED
    BY <1>0, <2>1
<1>5. ASSUME RuntimeStep PROVE Yielders'
  <2>1. pc' = pc
    BY <1>5 DEF RuntimeStep, Start, Yield, Finish, vars, channel
  <2>2. \/ awaiter' = awaiter
        \/ \E w \in Workers : /\ after[w] \in Fibers
                              /\ awaiter' = [awaiter EXCEPT ![after[w]] = None]
        \/ \E w \in Workers : /\ running[w] \in Fibers /\ pc[running[w]] = "out"
                              /\ awaiter' = [awaiter EXCEPT ![running[w]] = "yield"]
    BY <1>0, <1>5 DEF RuntimeStep, Start, Go, Resume, Reap, RunYield, RunsAwaiter, TakeAwaiter,
         Yield, Suspend, Finish, Complete, At, vars, runtime
  <2> QED
    BY <1>0, <2>1, <2>2
<1> QED
  BY <1>1, <1>2, <1>3, <1>4, <1>5, Steps
-----------------------------------------------------------------------------
\* The types and ChannelInv are invariant: the inductive step, conjunct by conjunct.
LEMMA InvHolds == Spec => []Inv
<1>1. Init => Inv
  <2> SUFFICES ASSUME Init PROVE Inv
    OBVIOUS
  <2> USE ChannelAssumption, RingAssumption
  <2>1. /\ RingOK(ring, Messages) /\ SlotsMatchIndices(ring) /\ Straight(ring) /\ ring.tail = 1
    <3>1. ring = [buffer |-> [i \in Slots |-> NoItem], head |-> 0, tail |-> 1]
      BY DEF Init, NewRing
    <3>2. Size(ring) = 0
      BY <3>1, SizeIs
    <3>3. ring \in [buffer : [Slots -> Messages \union {NoItem}],
                    head : 0 .. WordSize - 1, tail : 0 .. WordSize - 1]
      BY <3>1
    <3>4. {i \in Slots : ring.buffer[i] # NoItem} = {}
      BY <3>1
    <3>5. RingOK(ring, Messages)
      BY <3>2, <3>3 DEF RingOK
    <3>6. SlotsMatchIndices(ring)
      BY <3>2, <3>4 DEF SlotsMatchIndices
    <3> QED
      BY <3>1, <3>5, <3>6 DEF Straight
  <2>2. Range(waiters) = {} /\ waiters = <<>> /\ \A f \in Fibers : whom[f] = None
    BY DEF Init, Range
  <2>3. Parked = {} /\ Range(whom) \subseteq {None}
    BY <2>2 DEF Parked, Init, Range
  <2>4. InPlace(Parked, ChannelAwaiters)
    BY <2>3, InPlaceInit DEF Init, Kinds, ChannelAwaiters
  <2>5. HandlesInPlace
    BY <2>2, <2>4 DEF HandlesInPlace, NoDuplicates
  <2>6. TypeOK
    <3>1. RuntimeTypeOK /\ awaiter \in [Fibers -> {None, "yield", "channel"}]
      BY DEF Init, RuntimeInit, RuntimeTypeOK, CoroStates
    <3>2. locked \in BOOLEAN /\ sent \subseteq Messages
      BY DEF Init
    <3>5. waiters \in Seq(Fibers)
      BY <2>2
    <3>4. whom \in [Fibers -> Fibers \union {None}]
      BY DEF Init
    <3>3. /\ arg \in [Fibers -> Messages \union {NoItem}]
          /\ value \in [Fibers -> Messages \union {NoItem}]
          /\ pc \in [Fibers -> Labels]
      BY DEF Init, Labels
    <3> QED
      BY <2>1, <3>1, <3>2, <3>3, <3>4, <3>5 DEF TypeOK
  <2>7. Locals /\ Errands
    BY <2>3 DEF Init, Locals, Errands, HasArg, HasValue
  <2>8. \A w \in Workers : ~Holds(w) /\ ~RunsAwaiter(w, "channel")
    BY DEF Init, RuntimeInit, Holds, At, RunsAwaiter
  <2>9. LockKept
    BY <2>8 DEF LockKept, Init
  <2>10. RingKept
    <3>1. Passed = {}
      BY DEF Passed, Init
    <3> QED
      BY <2>1, <3>1, FS_EmptySet DEF RingKept
  <2>12. Yielders
    BY DEF Yielders, Init, RuntimeInit
  <2>11. WaitersAreOfAKind
    BY <2>2 DEF WaitersAreOfAKind
  <2> QED
    BY <2>5, <2>6, <2>7, <2>9, <2>10, <2>11, <2>12 DEF Inv, ChannelInv
<1>2. Inv /\ [Next]_vars => Inv'
  <2> SUFFICES ASSUME Inv, [Next]_vars PROVE Inv'
    OBVIOUS
  <2> QED
    BY TypeStep, HandlesKept, LocalsKept, LockStep, RingStep, YieldersKept, WaitersKept
       DEF Inv, ChannelInv
<1> QED
  BY <1>1, <1>2, PTL DEF Spec

\* In every reachable state: the list holds senders only before a full ring and receivers
\* only before an empty one, so that no Send sleeps beside a free slot and no Recv beside a
\* message; the lock of a call is held by a fiber on a thread or by the awaiter it left behind;
\* and the slots of the ring are those of its indices (Send, Recv and their awaiters in
\* buffered_channel.hpp).
THEOREM WaitersInvHolds == Spec => []WaitersInv
<1>1. Inv => WaitersInv
  <2> SUFFICES ASSUME Inv PROVE WaitersInv
    OBVIOUS
  <2>1. HolderIsOnAThread
    <3> DEFINE holders ==
          {w \in Workers : At(w, "send") \/ At(w, "recv") \/ RunsAwaiter(w, "channel")}
    <3>1. holders = {w \in Workers : Holds(w)}
      BY DEF Holds
    <3>2. ASSUME locked PROVE \E w \in Workers : holders = {w}
      <4>1. PICK w \in Workers : Holds(w)
        BY <3>2 DEF Inv, ChannelInv, LockKept
      <4>2. \A v \in Workers : Holds(v) <=> v = w
        BY <4>1, OneHolds
      <4> QED
        BY <3>1, <4>2
    <3>3. ASSUME ~locked PROVE holders = {}
      BY <3>1, <3>3 DEF Inv, ChannelInv, LockKept
    <3> QED
      BY <3>2, <3>3 DEF HolderIsOnAThread
  <2> QED
    BY <2>1 DEF Inv, ChannelInv, RingKept, WaitersInv
<1> QED
  BY <1>1, InvHolds, PTL
-----------------------------------------------------------------------------
\* A step of the protocol is a step of Fibers, with the handles of the channel as those parked.
LEMMA ProtocolStepIsAllowed ==
  ASSUME TypeOK, ProtocolStep(Parked, Parked', ChannelAwaiters)
  PROVE  [Parking!Next]_(Parking!vars)
<1> USE DEF Parked, ChannelAwaiters
<1> DEFINE parking == Range(waiters) \union (Range(whom) \ {None})
<1>1. CASE parking' = parking /\ UNCHANGED runtime
  BY <1>1 DEF Parking!vars, Parking!runtime, runtime
<1>2. ASSUME NEW f \in Fibers, parking' = parking, Go(f) PROVE Parking!Next
  BY <1>2 DEF Go, Schedule, Parking!Next, Parking!Start, Parking!Go, Parking!Schedule
<1>3. ASSUME NEW w \in Workers, parking' = parking,
             \/ Resume(w) \/ Reap(w) \/ RunYield(w) \/ Complete(w)
             \/ \E a \in ChannelAwaiters : Suspend(w, a)
      PROVE  Parking!Next
  <2>1. CASE Resume(w) \/ Reap(w) \/ RunYield(w)
    BY <1>3, <2>1 DEF Parking!Next, Parking!OnWorker, Resume, Parking!Resume, Reap, Parking!Reap,
         RunYield, Parking!RunYield, RunsAwaiter, Parking!RunsAwaiter, TakeAwaiter,
         Parking!TakeAwaiter, Schedule, Parking!Schedule
  <2>2. CASE Complete(w) \/ \E a \in ChannelAwaiters : Suspend(w, a)
    BY <1>3, <2>2 DEF Parking!Next, Parking!OnFiber, Complete, Parking!Complete,
         Suspend, Parking!Suspend, Parking!SuspendIn
  <2> QED
    BY <1>3, <2>1, <2>2
<1>4. ASSUME NEW w \in Workers, NEW a \in ChannelAwaiters \ {"yield"},
             RunsAwaiter(w, a), TakeAwaiter(w),
             \/ parking' = parking \union {after[w]} /\ UNCHANGED runq
             \/ parking' = parking /\ Schedule(after[w])
      PROVE  Parking!Next
  BY <1>4 DEF Parking!Next, Parking!OnWorker, Parking!RunAwaiter, RunsAwaiter, Parking!RunsAwaiter,
       TakeAwaiter, Parking!TakeAwaiter, Schedule, Parking!Schedule
<1>5. ASSUME NEW f \in parking, parking' = parking \ {f}, Schedule(f),
             UNCHANGED <<running, after, awaiter, coro>>
      PROVE  Parking!Next
  <2>1. f \in Fibers
    BY Opened DEF Range
  <2> QED
    BY <1>5, <2>1 DEF Parking!Next, Parking!Wake, Schedule, Parking!Schedule
<1> QED
  BY <1>1, <1>2, <1>3, <1>4, <1>5 DEF ProtocolStep

\* Seen from the scheduler the channel keeps the protocol of fibers: Send and Recv park a
\* fiber only through its awaiter, after it has left its stack, and Schedule it once for
\* each time it parked.
THEOREM ChannelImplementsFibers == Spec => ImplementsFibers
<1>1. Init => Parking!Init
  BY DEF Init, RuntimeInit, Parking!Init, Parking!RuntimeInit, Range
<1>2. Inv /\ [Next]_vars => [Parking!Next]_(Parking!vars)
  BY HandlesSteps, ProtocolStepIsAllowed DEF HandlesStep, Inv
<1> QED
  BY <1>1, <1>2, InvHolds, PTL DEF Spec, ImplementsFibers, Parking!Spec
-----------------------------------------------------------------------------
\* Sequences.
\* The front of a concatenation is that of its first sequence.
LEMMA TakeAtFront ==
  ASSUME NEW S, NEW c \in Seq(S), NEW a \in Seq(S), c # <<>>
  PROVE  c \o a # <<>> /\ Head(c \o a) = Head(c) /\ Tail(c \o a) = Tail(c) \o a
<1>1. /\ c \o a \in Seq(S) /\ Len(c \o a) = Len(c) + Len(a) /\ Tail(c) \in Seq(S)
      /\ Len(Tail(c)) = Len(c) - 1 /\ Len(c) \in Nat \ {0} /\ Len(a) \in Nat
  OBVIOUS
<1>2. c \o a # <<>> /\ Head(c \o a) = Head(c)
  BY <1>1
<1>3. \A i \in 1 .. Len(c) + Len(a) - 1 : Tail(c \o a)[i] = (Tail(c) \o a)[i]
  BY <1>1
<1> QED
  BY <1>1, <1>2, <1>3

\* The first element of the second sequence may as well be the last of the first.
LEMMA MoveOver ==
  ASSUME NEW S, NEW c \in Seq(S), NEW a \in Seq(S), a # <<>>
  PROVE  c \o a = Append(c, Head(a)) \o Tail(a)
<1>1. /\ Head(a) \in S /\ Tail(a) \in Seq(S) /\ Len(Tail(a)) = Len(a) - 1
      /\ Append(c, Head(a)) \in Seq(S) /\ Len(Append(c, Head(a))) = Len(c) + 1
      /\ Len(c) \in Nat /\ Len(a) \in Nat \ {0}
  OBVIOUS
<1>2. \A i \in 1 .. Len(c) + Len(a) : (c \o a)[i] = (Append(c, Head(a)) \o Tail(a))[i]
  BY <1>1
<1> QED
  BY <1>1, <1>2

\* The messages of the fibers of a list.
Args(s) == [i \in DOMAIN s |-> arg[s[i]]]

LEMMA ArgsAre ==
  ASSUME NEW s \in Seq(Fibers), \A g \in Range(s) : arg[g] \in Messages
  PROVE  /\ Args(s) \in Seq(Messages) /\ Len(Args(s)) = Len(s) /\ DOMAIN s = 1 .. Len(s)
         /\ \A i \in 1 .. Len(s) : Args(s)[i] = arg[s[i]]
<1>1. DOMAIN s = 1 .. Len(s) /\ Len(s) \in Nat
  OBVIOUS
<1>2. \A i \in 1 .. Len(s) : arg[s[i]] \in Messages
  BY <1>1 DEF Range
<1>3. Args(s) = [i \in 1 .. Len(s) |-> arg[s[i]]]
  BY <1>1 DEF Args
<1> HIDE DEF Args
<1> QED
  BY <1>1, <1>2, <1>3

LEMMA ArgsAppend ==
  ASSUME NEW s \in Seq(Fibers), NEW f \in Fibers, arg[f] \in Messages,
         \A g \in Range(s) : arg[g] \in Messages
  PROVE  Args(Append(s, f)) = Append(Args(s), arg[f])
<1>1. /\ Args(s) \in Seq(Messages) /\ Len(Args(s)) = Len(s)
      /\ \A i \in 1 .. Len(s) : Args(s)[i] = arg[s[i]]
  BY ArgsAre
<1>2. Append(s, f) \in Seq(Fibers) /\ Len(Append(s, f)) = Len(s) + 1 /\ Len(s) \in Nat
  OBVIOUS
<1>3. \A g \in Range(Append(s, f)) : arg[g] \in Messages
  BY AppendRange
<1>4. /\ Args(Append(s, f)) \in Seq(Messages) /\ Len(Args(Append(s, f))) = Len(s) + 1
      /\ \A i \in 1 .. Len(s) + 1 : Args(Append(s, f))[i] = arg[Append(s, f)[i]]
  BY <1>2, <1>3, ArgsAre
<1>5. \A i \in 1 .. Len(s) + 1 : Append(Args(s), arg[f])[i] = arg[Append(s, f)[i]]
  BY <1>1, <1>2
<1>6. Append(Args(s), arg[f]) \in Seq(Messages) /\ Len(Append(Args(s), arg[f])) = Len(s) + 1
  BY <1>1
<1> QED
  BY <1>2, <1>4, <1>5, <1>6

LEMMA ArgsTail ==
  ASSUME NEW s \in Seq(Fibers), s # <<>>, \A g \in Range(s) : arg[g] \in Messages
  PROVE  /\ Args(s) \in Seq(Messages) /\ Args(s) # <<>>
         /\ Head(Args(s)) = arg[Head(s)] /\ Tail(Args(s)) = Args(Tail(s))
<1>1. /\ Args(s) \in Seq(Messages) /\ Len(Args(s)) = Len(s)
      /\ \A i \in 1 .. Len(s) : Args(s)[i] = arg[s[i]]
  BY ArgsAre
<1>2. /\ Tail(s) \in Seq(Fibers) /\ Len(Tail(s)) = Len(s) - 1 /\ Len(s) \in Nat \ {0}
      /\ Head(s) = s[1] /\ \A i \in 1 .. Len(s) - 1 : Tail(s)[i] = s[i + 1]
  OBVIOUS
<1>3. Range(Tail(s)) \subseteq Range(s)
  <2>1. DOMAIN s = 1 .. Len(s) /\ DOMAIN Tail(s) = 1 .. Len(s) - 1
    BY <1>2
  <2> QED
    BY <1>2, <2>1 DEF Range
<1>4. /\ Args(Tail(s)) \in Seq(Messages) /\ Len(Args(Tail(s))) = Len(s) - 1
      /\ \A i \in 1 .. Len(s) - 1 : Args(Tail(s))[i] = arg[Tail(s)[i]]
  BY <1>2, <1>3, ArgsAre
<1>5. Args(s) # <<>> /\ Head(Args(s)) = arg[Head(s)]
  BY <1>1, <1>2
<1>6. \A i \in 1 .. Len(s) - 1 : Tail(Args(s))[i] = arg[s[i + 1]]
  BY <1>1, <1>2
<1>7. Tail(Args(s)) \in Seq(Messages) /\ Len(Tail(Args(s))) = Len(s) - 1
  BY <1>1, <1>2
<1> QED
  BY <1>1, <1>2, <1>4, <1>5, <1>6, <1>7
-----------------------------------------------------------------------------
\* The mapping: whose Send counts and has not returned, and the messages whose
\* Send counts.
Owes(f) ==
  \/ pc[f] \in {"wakerecv", "sent"}
  \/ pc[f] = "waitsend" /\ awaiter[f] = None

Done == {m \in sent : \A f \in Fibers : arg[f] # m}

SentSoFar == Owed \union Done

SendersWait == \E f \in Range(waiters) : pc[f] = "waitsend"

\* Line in these words.
LEMMA Mapped ==
  /\ Owed = {arg[f] : f \in {g \in Fibers : Owes(g)}}
  /\ Line = IF SendersWait THEN Contents(ring) \o Args(waiters) ELSE Contents(ring)
  BY DEF Owed, Owes, Line, SendersWait, Args

\* The steps of Channel under the mapping.
ChannelStep ==
  \/ UNCHANGED <<Line, value, Owed, SentSoFar>>
  \/ \E m \in Messages :
       /\ m \notin SentSoFar /\ SentSoFar' = SentSoFar \union {m}
       /\ Owed' = Owed \union {m}
       /\ \/ Line' = Append(Line, m) /\ value' = value
          \/ \E c \in Fibers :
               /\ Line = <<>> /\ value[c] = NoItem /\ Line' = Line
               /\ value' = [value EXCEPT ![c] = m]
  \/ \E c \in Fibers :
       /\ Line # <<>> /\ value[c] = NoItem /\ Line' = Tail(Line)
       /\ value' = [value EXCEPT ![c] = Head(Line)]
       /\ UNCHANGED <<Owed, SentSoFar>>
  \/ \E m \in Messages :
       /\ m \in Owed /\ \A i \in DOMAIN Line : Line[i] = m => i <= Capacity
       /\ Owed' = Owed \ {m} /\ UNCHANGED <<Line, value, SentSoFar>>
  \/ \E c \in Fibers :
       /\ value[c] # NoItem /\ value' = [value EXCEPT ![c] = NoItem]
       /\ UNCHANGED <<Line, Owed, SentSoFar>>

\* Steps in these words are steps of Channel.
LEMMA ChannelStepIsAllowed ==
  ASSUME ChannelStep
  PROVE  [AbstractChannel!Next]_(AbstractChannel!vars)
<1> USE DEF SentSoFar, Done
<1>1. CASE UNCHANGED <<Line, value, Owed, SentSoFar>>
  BY <1>1 DEF AbstractChannel!vars
<1>2. ASSUME NEW m \in Messages,
             m \notin SentSoFar, SentSoFar' = SentSoFar \union {m}, Owed' = Owed \union {m},
             \/ Line' = Append(Line, m) /\ value' = value
             \/ \E c \in Fibers :
                  /\ Line = <<>> /\ value[c] = NoItem /\ Line' = Line
                  /\ value' = [value EXCEPT ![c] = m]
      PROVE  AbstractChannel!Next
  BY <1>2 DEF AbstractChannel!Next, AbstractChannel!Put, AbstractChannel!Pass, AbstractChannel!Send
<1>3. ASSUME NEW c \in Fibers,
             Line # <<>>, value[c] = NoItem, Line' = Tail(Line),
             value' = [value EXCEPT ![c] = Head(Line)], UNCHANGED <<Owed, SentSoFar>>
      PROVE  AbstractChannel!Next
  BY <1>3 DEF AbstractChannel!Next, AbstractChannel!Take
<1>4. ASSUME NEW m \in Messages,
             m \in Owed, \A i \in DOMAIN Line : Line[i] = m => i <= Capacity,
             Owed' = Owed \ {m}, UNCHANGED <<Line, value, SentSoFar>>
      PROVE  AbstractChannel!Next
  BY <1>4 DEF AbstractChannel!Next, AbstractChannel!SendReturns
<1>5. ASSUME NEW c \in Fibers,
             value[c] # NoItem, value' = [value EXCEPT ![c] = NoItem],
             UNCHANGED <<Line, Owed, SentSoFar>>
      PROVE  AbstractChannel!Next
  BY <1>5 DEF AbstractChannel!Next, AbstractChannel!RecvReturns
<1> QED
  BY <1>1, <1>2, <1>3, <1>4, <1>5 DEF ChannelStep

\* Who owes stays, or one more does.
LEMMA OwedStays ==
  ASSUME UNCHANGED <<arg, sent>>, \A g \in Fibers : Owes(g)' <=> Owes(g)
  PROVE  UNCHANGED <<Owed, SentSoFar>>
<1>1. Owed' = {arg'[f] : f \in {g \in Fibers : Owes(g)'}}
  BY DEF Owed, Owes
<1>2. Owed' = Owed
  BY <1>1, Mapped
<1>3. Done' = Done
  BY DEF Done
<1> QED
  BY <1>2, <1>3 DEF SentSoFar

LEMMA OwedGrows ==
  ASSUME Inv, UNCHANGED <<arg, sent>>, NEW f \in Fibers, arg[f] # NoItem, ~Owes(f),
         \A g \in Fibers : Owes(g)' <=> Owes(g) \/ g = f
  PROVE  /\ arg[f] \in Messages /\ arg[f] \notin SentSoFar
         /\ SentSoFar' = SentSoFar \union {arg[f]} /\ Owed' = Owed \union {arg[f]}
<1>1. Owed' = {arg[g] : g \in {e \in Fibers : Owes(e)'}}
  BY DEF Owed, Owes
<1>2. Owed' = Owed \union {arg[f]}
  BY <1>1, Mapped
<1>3. Done' = Done
  BY DEF Done
<1>4. arg[f] \notin Owed
  BY Mapped DEF Inv, ChannelInv, Locals
<1>5. arg[f] \notin Done
  BY DEF Done
<1>6. arg[f] \in Messages
  BY Opened DEF Inv
<1> QED
  BY <1>2, <1>3, <1>4, <1>5, <1>6 DEF SentSoFar

\* What waits stays as it is when the list and the ring do.
LEMMA LineStays ==
  ASSUME Inv, ring' = ring, waiters' = waiters,
         \A g \in Range(waiters) : pc'[g] = pc[g] /\ arg'[g] = arg[g]
  PROVE  Line' = Line
<1>1. SendersWait' <=> SendersWait
  BY DEF SendersWait
<1>2. Args(waiters)' = Args(waiters)
  <2>1. \A i \in DOMAIN waiters : arg'[waiters[i]] = arg[waiters[i]]
    BY DEF Range
  <2> QED
    BY <2>1 DEF Args
<1>3. Contents(ring)' = Contents(ring)
  OBVIOUS
<1>4. Line' = IF SendersWait' THEN Contents(ring)' \o Args(waiters)' ELSE Contents(ring)'
  BY DEF Line, SendersWait, Args
<1> QED
  BY <1>1, <1>2, <1>3, <1>4, Mapped

\* The arguments of senders that wait, and the line they stand in.
LEMMA LineIs ==
  ASSUME Inv
  PROVE  /\ Contents(ring) \in Seq(Messages) /\ Len(Contents(ring)) = Size(ring)
         /\ Size(ring) \in 0 .. Capacity
         /\ waiters = <<>> => Line = Contents(ring)
         /\ IsFull(ring) => /\ \A g \in Range(waiters) : arg[g] \in Messages
                            /\ Args(waiters) \in Seq(Messages)
                            /\ Line = Contents(ring) \o Args(waiters)
         /\ ~IsFull(ring) => Line = Contents(ring)
<1> USE DEF Inv, ChannelInv
<1>1. /\ Contents(ring) \in Seq(Messages) /\ Len(Contents(ring)) = Size(ring)
      /\ Size(ring) \in 0 .. Capacity
  BY Opened, ContentsAre, Indices DEF RingKept
<1>2. waiters = <<>> => ~SendersWait
  BY DEF SendersWait, Range
<1>3. ~IsFull(ring) => ~SendersWait
  BY WhoWaits DEF SendersWait
<1>4. ASSUME IsFull(ring)
      PROVE  /\ \A g \in Range(waiters) : arg[g] \in Messages
             /\ Args(waiters) \in Seq(Messages)
             /\ Line = Contents(ring) \o Args(waiters)
  <2>1. \A g \in Range(waiters) : g \in Fibers /\ pc[g] = "waitsend"
    BY <1>4, WhoWaits, Opened DEF Range
  <2>2. \A g \in Range(waiters) : arg[g] \in Messages
    BY <2>1, Opened DEF Locals, HasArg
  <2>3. Args(waiters) \in Seq(Messages) /\ Len(Args(waiters)) = Len(waiters)
    BY <2>2, Opened, ArgsAre
  <2>4. CASE waiters = <<>>
    <3>1. Args(waiters) = <<>>
      BY <2>3, <2>4
    <3> QED
      BY <1>1, <1>2, <2>2, <2>3, <2>4, <3>1, Mapped
  <2>5. CASE waiters # <<>>
    <3>1. SendersWait
      BY <2>1, <2>5, HeadWaits DEF SendersWait
    <3> QED
      BY <2>2, <2>3, <3>1, Mapped
  <2> QED
    BY <2>4, <2>5
<1> QED
  BY <1>1, <1>2, <1>3, <1>4, Mapped
-----------------------------------------------------------------------------
\* A Send is called with a message nobody has sent.
LEMMA CallSendMaps ==
  ASSUME Inv, NEW w \in Workers, NEW m \in Messages, CallSend(w, m)
  PROVE  ChannelStep
<1> USE DEF Inv, ChannelInv
<1> DEFINE f == running[w]
<1>0. /\ pc \in [Fibers -> Labels] /\ arg \in [Fibers -> Messages \union {NoItem}]
      /\ NoItem \notin Messages /\ Range(waiters) \subseteq Fibers
  BY Opened DEF Range
<1>1. f \in Fibers /\ f \notin Range(waiters) /\ UNCHANGED <<runtime, ring, waiters>>
  BY CallDoes DEF CallStep, Parked
<1>2. /\ pc[f] = "out" /\ pc' = [pc EXCEPT ![f] = "sendlock"]
      /\ arg' = [arg EXCEPT ![f] = m] /\ sent' = sent \union {m} /\ value' = value
  BY DEF CallSend, Goto, At
<1>3. m \notin sent
  <2>1. m \in Int /\ sent = 1 .. m - 1
    BY DEF CallSend, Messages
  <2> QED
    BY <2>1
<1>4. Line' = Line
  BY <1>0, <1>1, <1>2, LineStays
<1>5. arg[f] = NoItem /\ arg'[f] = m /\ \A g \in Fibers : g # f => arg'[g] = arg[g]
  BY <1>0, <1>1, <1>2 DEF Locals, HasArg
<1>6. \A g \in Fibers : (Owes(g)' <=> Owes(g)) /\ (Owes(g) => g # f)
  BY <1>0, <1>1, <1>2 DEF Owes, runtime
<1>7. Owed' = Owed
  <2>1. Owed' = {arg'[g] : g \in {e \in Fibers : Owes(e)'}}
    BY DEF Owed, Owes
  <2> QED
    BY <1>5, <1>6, <2>1, Mapped
<1>8. Done' = Done
  <2>1. ASSUME NEW x \in sent
        PROVE  (\A g \in Fibers : arg'[g] # x) <=> \A g \in Fibers : arg[g] # x
    <3>1. x # m /\ x # NoItem
      BY <1>0, <1>3, Opened
    <3> QED
      BY <1>5, <3>1
  <2>2. ~\A g \in Fibers : arg'[g] # m
    BY <1>1, <1>5
  <2> QED
    BY <1>2, <2>1, <2>2 DEF Done
<1> QED
  BY <1>2, <1>4, <1>7, <1>8 DEF ChannelStep, SentSoFar

\* A call returns.
LEMMA ReturnMaps ==
  ASSUME Inv, NEW w \in Workers, Return(w)
  PROVE  ChannelStep
<1> USE DEF Inv, ChannelInv
<1> DEFINE f == running[w]
<1>0. /\ pc \in [Fibers -> Labels] /\ arg \in [Fibers -> Messages \union {NoItem}]
      /\ value \in [Fibers -> Messages \union {NoItem}] /\ waiters \in Seq(Fibers)
      /\ NoItem \notin Messages /\ Range(waiters) \subseteq Fibers /\ sent \subseteq Messages
  BY Opened DEF Range
<1>1. f \in Fibers /\ f \notin Range(waiters) /\ UNCHANGED <<runtime, ring, waiters, sent>>
  BY CallDoes DEF CallStep, Parked, Return
<1>2. /\ pc[f] \in {"sent", "got"} /\ pc' = [pc EXCEPT ![f] = "out"]
      /\ arg' = [arg EXCEPT ![f] = NoItem] /\ value' = [value EXCEPT ![f] = NoItem]
  BY DEF Return, Goto, At
<1>3. Line' = Line
  BY <1>0, <1>1, <1>2, LineStays
<1>4. arg'[f] = NoItem /\ \A g \in Fibers : g # f => arg'[g] = arg[g]
  BY <1>0, <1>1, <1>2
<1>5. CASE pc[f] = "sent"
  <2> DEFINE m == arg[f]
  <2>1. m \in Messages /\ m \in sent /\ Owes(f) /\ value[f] = NoItem
    BY <1>0, <1>1, <1>5 DEF Locals, HasArg, HasValue, Owes
  <2>2. value' = value
    BY <1>0, <1>1, <1>2, <2>1
  <2>3. \A g \in Fibers : g # f => arg[g] # m
    BY <1>0, <1>1, <2>1 DEF Locals
  <2>4. \A g \in Fibers : Owes(g)' <=> Owes(g) /\ g # f
    BY <1>0, <1>1, <1>2 DEF Owes, runtime
  <2>5. Owed' = Owed \ {m} /\ m \in Owed
    <3>1. Owed' = {arg'[g] : g \in {e \in Fibers : Owes(e)'}}
      BY DEF Owed, Owes
    <3>2. Owed' = {arg[g] : g \in {e \in Fibers : Owes(e) /\ e # f}}
      BY <1>4, <2>4, <3>1
    <3> QED
      BY <1>1, <2>1, <2>3, <3>2, Mapped
  <2>6. Done' = Done \union {m}
    <3>1. ASSUME NEW x \in sent, x # m
          PROVE  (\A g \in Fibers : arg'[g] # x) <=> \A g \in Fibers : arg[g] # x
      <4>1. x # NoItem
        BY <1>0
      <4> QED
        BY <1>4, <3>1, <4>1
    <3>2. \A g \in Fibers : arg'[g] # m
      BY <1>0, <1>4, <2>1, <2>3
    <3> HIDE DEF m
    <3> QED
      BY <1>1, <2>1, <3>1, <3>2 DEF Done
  <2>7. SentSoFar' = SentSoFar
    BY <2>5, <2>6 DEF SentSoFar
  <2>8. \A i \in DOMAIN Line : Line[i] = m => i <= Capacity
    <3>1. /\ Contents(ring) \in Seq(Messages) /\ Len(Contents(ring)) \in 0 .. Capacity
          /\ Capacity \in Nat
      BY LineIs, RingAssumption
    <3>2. CASE ~IsFull(ring)
      BY <3>1, <3>2, LineIs
    <3>3. CASE IsFull(ring)
      <4>1. /\ Line = Contents(ring) \o Args(waiters) /\ Args(waiters) \in Seq(Messages)
            /\ \A g \in Range(waiters) : arg[g] \in Messages
        BY <3>3, LineIs
      <4>2. /\ Len(Args(waiters)) = Len(waiters) /\ DOMAIN waiters = 1 .. Len(waiters)
            /\ \A i \in 1 .. Len(waiters) : Args(waiters)[i] = arg[waiters[i]]
        BY <1>0, <4>1, ArgsAre
      <4>3. \A i \in 1 .. Len(Args(waiters)) : Args(waiters)[i] # m
        <5>1. \A i \in 1 .. Len(waiters) : waiters[i] \in Range(waiters)
          BY <4>2 DEF Range
        <5>2. \A i \in 1 .. Len(waiters) : waiters[i] \in Fibers /\ waiters[i] # f
          BY <1>0, <1>1, <5>1
        <5> QED
          BY <2>3, <4>2, <5>2
      <4> DEFINE c == Contents(ring)
                 a == Args(waiters)
      <4> HIDE DEF c, a, m
      <4>4. \A i \in DOMAIN (c \o a) :
              i > Len(c) => (c \o a)[i] = a[i - Len(c)] /\ i - Len(c) \in 1 .. Len(a)
        BY <3>1, <4>1 DEF c, a
      <4>5. DOMAIN (c \o a) \subseteq Nat
        BY <3>1, <4>1 DEF c, a
      <4> QED
        BY <3>1, <4>1, <4>3, <4>4, <4>5 DEF c, a
    <3> QED
      BY <3>2, <3>3
  <2> QED
    BY <1>3, <2>1, <2>2, <2>5, <2>7, <2>8 DEF ChannelStep
<1>6. CASE pc[f] = "got"
  <2>1. arg[f] = NoItem /\ value[f] # NoItem
    BY <1>1, <1>6 DEF Locals, HasArg, HasValue
  <2>2. arg' = arg
    BY <1>0, <1>1, <1>2, <2>1
  <2>3. \A g \in Fibers : Owes(g)' <=> Owes(g)
    BY <1>0, <1>1, <1>2, <1>6 DEF Owes, runtime
  <2>4. UNCHANGED <<Owed, SentSoFar>>
    BY <1>1, <2>2, <2>3, OwedStays
  <2> QED
    BY <1>1, <1>2, <1>3, <2>1, <2>4 DEF ChannelStep
<1> QED
  BY <1>2, <1>5, <1>6

\* The steps that Channel does not see.
LEMMA HiddenSteps ==
  ASSUME Inv, NEW w \in Workers,
         \/ CallRecv(w) \/ SpinLock(w) \/ SendSuspends(w) \/ RecvSuspends(w)
         \/ WakeReceiver(w) \/ WakeSender(w)
  PROVE  ChannelStep
<1> USE DEF Inv, ChannelInv
<1> DEFINE f == running[w]
           h == whom[f]
<1>0. pc \in [Fibers -> Labels] /\ Range(waiters) \subseteq Fibers
      /\ awaiter \in [Fibers -> {None, "yield", "channel"}]
      /\ None \notin Fibers \union {"yield", "channel"}
  BY Opened DEF Range
<1>1. CASE CallRecv(w) \/ SpinLock(w)
  <2>1. /\ f \in Fibers /\ f \notin Range(waiters) /\ UNCHANGED <<runtime, ring, waiters>>
        /\ UNCHANGED <<arg, value, sent>>
        /\ \/ pc[f] = "out" /\ pc' = [pc EXCEPT ![f] = "recvlock"]
           \/ pc[f] = "sendlock" /\ pc' = [pc EXCEPT ![f] = "send"]
           \/ pc[f] = "recvlock" /\ pc' = [pc EXCEPT ![f] = "recv"]
    <3>1. /\ f \in Fibers /\ f \notin Range(waiters) /\ UNCHANGED <<runtime, ring, waiters>>
      BY <1>1, CallDoes DEF CallStep, Parked
    <3> QED
      BY <1>1, <3>1 DEF CallRecv, SpinLock, Goto, At, data
  <2>2. Line' = Line
    BY <1>0, <2>1, LineStays
  <2>3. \A g \in Fibers : Owes(g)' <=> Owes(g)
    BY <1>0, <2>1 DEF Owes, runtime
  <2> QED
    BY <2>1, <2>2, <2>3, OwedStays DEF ChannelStep
<1>2. CASE SendSuspends(w) \/ RecvSuspends(w)
  <2>1. /\ f \in Fibers /\ f \notin Range(waiters)
        /\ UNCHANGED <<ring, waiters, arg, value, sent>>
        /\ awaiter' = [awaiter EXCEPT ![f] = "channel"]
        /\ \/ pc[f] = "send" /\ pc' = [pc EXCEPT ![f] = "waitsend"]
           \/ pc[f] = "recv" /\ pc' = [pc EXCEPT ![f] = "waitrecv"]
    BY <1>2, SuspendDoes DEF Parked, Suspend, data
  <2>2. Line' = Line
    BY <1>0, <2>1, LineStays
  <2>3. \A g \in Fibers : Owes(g)' <=> Owes(g)
    BY <1>0, <2>1 DEF Owes
  <2> QED
    BY <2>1, <2>2, <2>3, OwedStays DEF ChannelStep
<1>3. CASE WakeReceiver(w) \/ WakeSender(w)
  <2>1. /\ f \in Fibers /\ h \in Fibers /\ h # f /\ awaiter[h] = None
        /\ f \notin Range(waiters) /\ h \notin Range(waiters)
        /\ \/ /\ pc[f] = "wakerecv" /\ pc[h] = "waitrecv"
              /\ pc' = [pc EXCEPT ![f] = "sent", ![h] = "got"]
           \/ /\ pc[f] = "wakesend" /\ pc[h] = "waitsend"
              /\ pc' = [pc EXCEPT ![f] = "got", ![h] = "sent"]
        /\ UNCHANGED <<awaiter, ring, waiters, arg, value, sent>>
    BY <1>3, WakeDoes DEF Parked
  <2>2. Line' = Line
    <3>1. \A g \in Range(waiters) : pc'[g] = pc[g]
      BY <1>0, <2>1
    <3> QED
      BY <2>1, <3>1, LineStays
  <2>3. \A g \in Fibers : Owes(g)' <=> Owes(g)
    BY <1>0, <2>1 DEF Owes
  <2> QED
    BY <2>1, <2>2, <2>3, OwedStays DEF ChannelStep
<1> QED
  BY <1>1, <1>2, <1>3

LEMMA RuntimeStepsHidden ==
  ASSUME Inv, RuntimeStep
  PROVE  ChannelStep
<1> USE DEF Inv, ChannelInv
<1>0. /\ awaiter \in [Fibers -> {None, "yield", "channel"}]
      /\ after \in [Workers -> Fibers \union {None}]
      /\ running \in [Workers -> Fibers \union {None}]
      /\ None \notin Fibers \union {"yield", "channel"}
  BY Opened
<1>1. UNCHANGED <<ring, waiters, arg, value, sent, pc>>
  BY DEF RuntimeStep, Start, Yield, Finish, vars, channel, data
<1>2. \/ awaiter' = awaiter
      \/ \E w \in Workers : /\ after[w] \in Fibers /\ pc[after[w]] = "out"
                            /\ awaiter' = [awaiter EXCEPT ![after[w]] = None]
      \/ \E w \in Workers : /\ running[w] \in Fibers /\ pc[running[w]] = "out"
                            /\ awaiter' = [awaiter EXCEPT ![running[w]] = "yield"]
  BY <1>0 DEF RuntimeStep, Start, Go, Resume, Reap, RunYield, RunsAwaiter, TakeAwaiter,
       Yield, Suspend, Finish, Complete, At, vars, runtime, Yielders
<1>3. \A g \in Fibers : Owes(g)' <=> Owes(g)
  BY <1>0, <1>1, <1>2 DEF Owes
<1>4. Line' = Line
  BY <1>1, LineStays
<1> QED
  BY <1>1, <1>3, <1>4, OwedStays DEF ChannelStep
\* A Send that finds room takes effect: its message is the last in line.
LEMMA PushMaps ==
  ASSUME Inv, NEW w \in Workers, SendPushes(w)
  PROVE  ChannelStep
<1> USE DEF Inv, ChannelInv
<1> DEFINE f == running[w]
<1>0. pc \in [Fibers -> Labels]
  BY Opened
<1>1. /\ f \in Fibers /\ pc[f] = "send" /\ pc' = [pc EXCEPT ![f] = "sent"]
      /\ waiters = <<>> /\ waiters' = <<>> /\ Keeps(f)
      /\ ring' = TryPush(ring, arg[f]) /\ ~IsFull(ring)
      /\ UNCHANGED <<runtime, arg, value, sent>>
  BY PushDoes
<1>2. arg[f] # NoItem
  BY <1>1 DEF Locals, HasArg
<1>3. ~Owes(f) /\ \A g \in Fibers : Owes(g)' <=> Owes(g) \/ g = f
  BY <1>0, <1>1 DEF Owes, runtime
<1>4. /\ arg[f] \in Messages /\ arg[f] \notin SentSoFar
      /\ SentSoFar' = SentSoFar \union {arg[f]} /\ Owed' = Owed \union {arg[f]}
  BY <1>1, <1>2, <1>3, OwedGrows
<1>5. Line = Contents(ring) /\ Line' = Contents(ring')
  <2>1. ~SendersWait'
    BY <1>1 DEF SendersWait, Range
  <2>2. Line' = IF SendersWait' THEN Contents(ring') \o Args(waiters)' ELSE Contents(ring')
    BY DEF Line, SendersWait, Args
  <2> QED
    BY <1>1, <2>1, <2>2, LineIs
<1>6. Line' = Append(Line, arg[f])
  BY <1>1, <1>5, RoomTaken
<1> QED
  BY <1>1, <1>4, <1>6 DEF ChannelStep

\* A Send that finds a receiver waiting: its message is the one the receiver gets.
LEMMA PassMaps ==
  ASSUME Inv, NEW w \in Workers, SendPasses(w)
  PROVE  ChannelStep
<1> USE DEF Inv, ChannelInv
<1> DEFINE f == running[w]
           h == Head(waiters)
<1>0. pc \in [Fibers -> Labels] /\ Range(waiters) \subseteq Fibers
  BY Opened DEF Range
<1>1. /\ f \in Fibers /\ pc[f] = "send" /\ pc' = [pc EXCEPT ![f] = "wakerecv"]
      /\ h \in Fibers /\ pc[h] = "waitrecv" /\ h \notin Range(whom)
      /\ Range(waiters') \subseteq Range(waiters) /\ f \notin Range(waiters)
      /\ value' = [value EXCEPT ![h] = arg[f]] /\ IsEmpty(ring)
      /\ \A g \in Range(waiters) : pc[g] = "waitrecv"
      /\ UNCHANGED <<runtime, ring, arg, sent>>
  BY PassDoes DEF Parked
<1>2. arg[f] # NoItem /\ value[h] = NoItem
  BY <1>1 DEF Locals, HasArg, HasValue
<1>3. ~Owes(f) /\ \A g \in Fibers : Owes(g)' <=> Owes(g) \/ g = f
  BY <1>0, <1>1 DEF Owes, runtime
<1>4. /\ arg[f] \in Messages /\ arg[f] \notin SentSoFar
      /\ SentSoFar' = SentSoFar \union {arg[f]} /\ Owed' = Owed \union {arg[f]}
  BY <1>1, <1>2, <1>3, OwedGrows
<1>5. ~SendersWait /\ ~SendersWait'
  BY <1>0, <1>1 DEF SendersWait
<1>6. Line = Contents(ring) /\ Line' = Line
  <2>1. Line' = IF SendersWait' THEN Contents(ring') \o Args(waiters)' ELSE Contents(ring')
    BY DEF Line, SendersWait, Args
  <2> QED
    BY <1>1, <1>5, <2>1, Mapped
<1>7. Line = <<>>
  <2>1. Contents(ring) \in Seq(Messages) /\ Len(Contents(ring)) = 0
    BY <1>1, LineIs DEF IsEmpty
  <2> QED
    BY <1>6, <2>1
<1> QED
  BY <1>1, <1>2, <1>4, <1>6, <1>7 DEF ChannelStep

\* A Recv that takes from the ring takes the first in line.
LEMMA PopMaps ==
  ASSUME Inv, NEW w \in Workers, RecvPops(w)
  PROVE  ChannelStep
<1> USE DEF Inv, ChannelInv
<1> DEFINE f == running[w]
<1>0. pc \in [Fibers -> Labels]
  BY Opened
<1>1. /\ f \in Fibers /\ pc[f] = "recv" /\ pc' = [pc EXCEPT ![f] = "got"]
      /\ waiters = <<>> /\ waiters' = <<>>
      /\ value' = [value EXCEPT ![f] = Oldest(ring)]
      /\ ring' = TryPop(ring) /\ ~IsEmpty(ring)
      /\ UNCHANGED <<runtime, arg, sent>>
  BY PopDoes
<1>2. value[f] = NoItem
  BY <1>1 DEF Locals, HasValue
<1>3. \A g \in Fibers : Owes(g)' <=> Owes(g)
  BY <1>0, <1>1 DEF Owes, runtime
<1>4. UNCHANGED <<Owed, SentSoFar>>
  BY <1>1, <1>3, OwedStays
<1>5. Line = Contents(ring) /\ Line' = Contents(ring')
  <2>1. ~SendersWait'
    BY <1>1 DEF SendersWait, Range
  <2>2. Line' = IF SendersWait' THEN Contents(ring') \o Args(waiters)' ELSE Contents(ring')
    BY DEF Line, SendersWait, Args
  <2> QED
    BY <1>1, <2>1, <2>2, LineIs
<1>6. Line # <<>> /\ Line' = Tail(Line) /\ Oldest(ring) = Head(Line)
  BY <1>1, <1>5, RoomMade
<1> QED
  BY <1>1, <1>2, <1>4, <1>6 DEF ChannelStep

\* So does a Recv that lets a sender in, whose message has been in line since it waits.
LEMMA RefillMaps ==
  ASSUME Inv, NEW w \in Workers, RecvRefills(w)
  PROVE  ChannelStep
<1> USE DEF Inv, ChannelInv
<1> DEFINE f == running[w]
           h == Head(waiters)
           c == Contents(ring)
           a == Args(waiters)
<1>0. pc \in [Fibers -> Labels] /\ Range(waiters) \subseteq Fibers
  BY Opened DEF Range
<1>1. /\ f \in Fibers /\ pc[f] = "recv" /\ pc' = [pc EXCEPT ![f] = "wakesend"]
      /\ f \notin Range(waiters) /\ h \in Fibers /\ Keeps(h) /\ IsFull(ring)
      /\ waiters \in Seq(Fibers) /\ waiters # <<>>
      /\ waiters' = Tail(waiters) /\ waiters' \in Seq(Fibers)
      /\ Range(waiters') \subseteq Range(waiters)
      /\ value' = [value EXCEPT ![f] = Oldest(ring)]
      /\ ring' = TryPush(TryPop(ring), arg[h])
      /\ \A g \in Range(waiters) : pc[g] = "waitsend"
      /\ UNCHANGED <<runtime, arg, sent>>
  BY RefillDoes DEF Parked
<1>2. value[f] = NoItem
  BY <1>1 DEF Locals, HasValue
<1>3. \A g \in Fibers : Owes(g)' <=> Owes(g)
  BY <1>0, <1>1 DEF Owes, runtime
<1>4. UNCHANGED <<Owed, SentSoFar>>
  BY <1>1, <1>3, OwedStays
<1>5. /\ Line = c \o a /\ c \in Seq(Messages) /\ a \in Seq(Messages)
      /\ \A g \in Range(waiters) : arg[g] \in Messages
  BY <1>1, LineIs
<1>6. a # <<>> /\ Head(a) = arg[h] /\ Tail(a) = Args(Tail(waiters))
  BY <1>1, <1>5, ArgsTail
<1>7. c # <<>> /\ Oldest(ring) = Head(c)
  BY <1>1, WhoWaits, RoomMade
<1>8. Line # <<>> /\ Head(Line) = Oldest(ring) /\ Tail(Line) = Tail(c) \o a
  BY <1>5, <1>7, TakeAtFront
<1>9. Tail(c) \o a = Append(Tail(c), arg[h]) \o Tail(a)
  <2>1. Tail(c) \in Seq(Messages)
    BY <1>5, <1>7
  <2> HIDE DEF c, a
  <2> QED
    BY <1>5, <1>6, <2>1, MoveOver
<1>10. Line' = Append(Tail(c), arg[h]) \o Args(Tail(waiters))
  <2>1. Contents(ring') = Append(Tail(c), arg[h])
    BY <1>1, Refilled
  <2>2. Line' = IF SendersWait' THEN Contents(ring') \o Args(waiters)' ELSE Contents(ring')
    BY DEF Line, SendersWait, Args
  <2>3. Args(waiters)' = Args(Tail(waiters))
    BY <1>1 DEF Args
  <2>4. CASE waiters' = <<>>
    <3>1. Args(Tail(waiters)) = <<>>
      BY <1>1, <2>4 DEF Args
    <3>2. Append(Tail(c), arg[h]) \o <<>> = Append(Tail(c), arg[h])
      <4>1. Tail(c) \in Seq(Messages) /\ arg[h] \in Messages
        <5>1. Head(a) \in Messages
          BY <1>5, <1>6
        <5> QED
          BY <1>5, <1>6, <1>7, <5>1
      <4> QED
        BY <4>1
    <3>3. ~SendersWait'
      BY <2>4 DEF SendersWait, Range
    <3> QED
      BY <2>1, <2>2, <3>1, <3>2, <3>3
  <2>5. CASE waiters' # <<>>
    <3>1. \E g \in Range(waiters') : TRUE
      <4>1. 1 \in DOMAIN waiters'
        BY <1>1, <2>5
      <4> QED
        BY <4>1 DEF Range
    <3>2. SendersWait'
      BY <1>0, <1>1, <3>1 DEF SendersWait
    <3> QED
      BY <2>1, <2>2, <2>3, <3>2
  <2> QED
    BY <2>4, <2>5
<1>11. Line' = Tail(Line)
  BY <1>6, <1>8, <1>9, <1>10
<1> QED
  BY <1>1, <1>2, <1>4, <1>8, <1>11 DEF ChannelStep

\* The message of a sender gets in line when its awaiter pushes the sender into the list.
LEMMA AwaiterMaps ==
  ASSUME Inv, NEW w \in Workers, RunChannelAwaiter(w)
  PROVE  ChannelStep
<1> USE DEF Inv, ChannelInv
<1> DEFINE f == after[w]
<1>0. /\ pc \in [Fibers -> Labels] /\ waiters \in Seq(Fibers)
      /\ awaiter \in [Fibers -> {None, "yield", "channel"}]
      /\ None \notin Fibers \union {"yield", "channel"}
  BY Opened
<1>1. /\ f \in Fibers /\ awaiter[f] = "channel" /\ awaiter' = [awaiter EXCEPT ![f] = None]
      /\ \/ pc[f] = "waitsend" /\ IsFull(ring)
         \/ pc[f] = "waitrecv" /\ IsEmpty(ring)
      /\ waiters' = Append(waiters, f) /\ Range(waiters') = Range(waiters) \union {f}
      /\ UNCHANGED <<ring, arg, value, sent, pc>>
  BY AwaiterDoes DEF TakeAwaiter
<1>2. Line' = IF SendersWait' THEN Contents(ring) \o Args(Append(waiters, f)) ELSE Contents(ring)
  BY <1>1 DEF Line, SendersWait, Args
<1>3. CASE pc[f] = "waitsend" /\ IsFull(ring)
  <2>1. arg[f] # NoItem
    BY <1>1, <1>3 DEF Locals, HasArg
  <2>2. ~Owes(f) /\ \A g \in Fibers : Owes(g)' <=> Owes(g) \/ g = f
    BY <1>0, <1>1, <1>3 DEF Owes
  <2>3. /\ arg[f] \in Messages /\ arg[f] \notin SentSoFar
        /\ SentSoFar' = SentSoFar \union {arg[f]} /\ Owed' = Owed \union {arg[f]}
    BY <1>1, <2>1, <2>2, OwedGrows
  <2>4. SendersWait'
    BY <1>1, <1>3 DEF SendersWait
  <2>5. /\ Line = Contents(ring) \o Args(waiters) /\ Contents(ring) \in Seq(Messages)
        /\ Args(waiters) \in Seq(Messages) /\ \A g \in Range(waiters) : arg[g] \in Messages
    BY <1>3, LineIs
  <2>6. Args(Append(waiters, f)) = Append(Args(waiters), arg[f])
    BY <1>0, <1>1, <2>3, <2>5, ArgsAppend
  <2>7. Line' = Append(Line, arg[f])
    <3> DEFINE c == Contents(ring)
               a == Args(waiters)
               m == arg[f]
    <3>1. Append(c \o a, m) = c \o Append(a, m)
      <4>1. c \in Seq(Messages) /\ a \in Seq(Messages) /\ m \in Messages
        BY <2>3, <2>5
      <4> HIDE DEF c, a, m
      <4>2. /\ c \o a \in Seq(Messages) /\ Len(c \o a) = Len(c) + Len(a)
            /\ Append(a, m) \in Seq(Messages) /\ Len(Append(a, m)) = Len(a) + 1
            /\ Len(c) \in Nat /\ Len(a) \in Nat
        BY <4>1
      <4>3. \A i \in 1 .. Len(c) + Len(a) + 1 : Append(c \o a, m)[i] = (c \o Append(a, m))[i]
        BY <4>1, <4>2
      <4> QED
        BY <4>1, <4>2, <4>3
    <3> QED
      BY <1>2, <2>4, <2>5, <2>6, <3>1
  <2> QED
    BY <1>1, <2>3, <2>7 DEF ChannelStep
<1>4. CASE pc[f] = "waitrecv" /\ IsEmpty(ring)
  <2>1. ~IsFull(ring)
    BY <1>4, WhoWaits
  <2>2. ~SendersWait'
    BY <1>1, <1>4, <2>1, WhoWaits DEF SendersWait
  <2>3. Line' = Line
    BY <1>2, <2>1, <2>2, LineIs
  <2>4. \A g \in Fibers : Owes(g)' <=> Owes(g)
    BY <1>0, <1>1, <1>4 DEF Owes
  <2> QED
    BY <1>1, <2>3, <2>4, OwedStays DEF ChannelStep
<1> QED
  BY <1>1, <1>3, <1>4

\* Every step of the code is a step of Channel under the mapping, or invisible to it.
LEMMA ChannelSteps ==
  ASSUME Inv, [Next]_vars
  PROVE  ChannelStep
  BY Steps, CallSendMaps, ReturnMaps, HiddenSteps, RuntimeStepsHidden, PushMaps, PassMaps,
     PopMaps, RefillMaps, AwaiterMaps DEF CallStep

\* BufferedChannel implements the bounded FIFO channel of Channel: the messages come out of
\* Recv in the order in which their Sends took effect, each once, though they pass through
\* the ring, the list of waiting senders or straight into the slot of a waiting receiver.
THEOREM ChannelImplementsChannel == Spec => ImplementsChannel
<1>1. Init => AbstractChannel!Init
  <2> SUFFICES ASSUME Init PROVE AbstractChannel!Init
    OBVIOUS
  <2>1. Owed = {} /\ {m \in sent : \A f \in Fibers : arg[f] # m} = {}
    BY DEF Init, Owed
  <2>2. Line = <<>>
    <3>1. ~SendersWait
      BY DEF Init, SendersWait, Range
    <3>2. Size(ring) = 0
      <4>1. ring.head = 0 /\ ring.tail = 1
        BY DEF Init, NewRing
      <4> QED
        BY <4>1, RingAssumption, SizeIs
    <3>3. Contents(ring) = <<>>
      BY <3>2 DEF Contents
    <3> QED
      BY <3>1, <3>3, Mapped
  <2>3. value = [f \in Fibers |-> NoItem]
    BY DEF Init
  <2> QED
    BY <2>1, <2>2, <2>3 DEF AbstractChannel!Init
<1>2. Inv /\ [Next]_vars => [AbstractChannel!Next]_(AbstractChannel!vars)
  BY ChannelSteps, ChannelStepIsAllowed
<1> QED
  BY <1>1, <1>2, InvHolds, PTL DEF Spec, ImplementsChannel, AbstractChannel!Spec
=============================================================================
