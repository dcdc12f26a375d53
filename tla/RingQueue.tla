----------------------------- MODULE RingQueue -----------------------------
(***************************************************************************)
(* exe::infra::queues::RingQueue (exe/infra/queues/ring_queue.hpp) as a    *)
(* value: what each call returns and the ring it leaves behind.  It has no *)
(* locking of its own; BufferedChannel has one under its spin lock.  head_ *)
(* and tail_ are unsigned words that only grow; tail_ is one ahead.        *)
(***************************************************************************)
EXTENDS Integers, Sequences

CONSTANTS NoItem,    \* an empty optional
          Capacity,  \* capacity_
          WordSize   \* 2^64 in the code: the modulus of head_ and tail_

ASSUME RingAssumption ==
  /\ Capacity \in Nat \ {0}
  /\ WordSize \in Nat /\ WordSize > Capacity + 1

Slots == 0 .. Capacity - 1

Minus(a, b) == (a - b) % WordSize

Increment(a) == (a + 1) % WordSize

Size(r) == Minus(Minus(r.tail, r.head), 1)

\* What is in the ring, oldest first.
Contents(r) == [k \in 1 .. Size(r) |-> r.buffer[Minus(r.head + k, 1) % Capacity]]
-----------------------------------------------------------------------------
NewRing == [buffer |-> [i \in Slots |-> NoItem], head |-> 0, tail |-> 1]

IsEmpty(r) == Size(r) = 0

IsFull(r) == Size(r) = Capacity

\* The ring after TryPush(item); a full one refuses.
TryPush(r, item) ==
  IF Minus(r.tail, r.head) = Capacity + 1 THEN r
  ELSE [r EXCEPT !.buffer[Minus(r.tail, 1) % Capacity] = item, !.tail = Increment(@)]

\* What TryPop returns, and the ring after it.
Oldest(r) == IF Increment(r.head) = r.tail THEN NoItem ELSE r.buffer[r.head % Capacity]

TryPop(r) ==
  IF Increment(r.head) = r.tail THEN r
  ELSE [r EXCEPT !.buffer[r.head % Capacity] = NoItem, !.head = Increment(@)]
-----------------------------------------------------------------------------
RingOK(r, Items) ==
  /\ r \in [buffer : [Slots -> Items \union {NoItem}],
            head : 0 .. WordSize - 1, tail : 0 .. WordSize - 1]
  /\ Size(r) <= Capacity

\* The slots between the two indices hold items and all others are reset, also
\* behind a wrap: value() is never taken from an empty slot, and a popped item
\* leaves nothing behind in the ring.
SlotsMatchIndices(r) ==
  {i \in Slots : r.buffer[i] # NoItem} =
    {((r.head + k) % WordSize) % Capacity : k \in 0 .. Size(r) - 1}
=============================================================================
