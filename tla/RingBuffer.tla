----------------------------- MODULE RingBuffer -----------------------------
(***************************************************************************)
(* The buffer behind the message history of a chat room                    *)
(* (src/src/utils.rs).  A ring is a value; `buffer' is a Vec that grows    *)
(* with the first Capacity items, and only then is written in place.       *)
(* Sequences count from 1, the Vec from 0: Slot does the shift.            *)
(***************************************************************************)
EXTENDS Naturals, Sequences

CONSTANT Capacity   \* the code makes one buffer, of 20 messages

ASSUME CapacityAssumption == Capacity \in Nat \ {0}

NewRing == [buffer |-> <<>>, start |-> 0, size |-> 0]

\* Where item i of the ring is kept, counting from the oldest, item 0.
Slot(ring, i) == ((ring.start + i) % Capacity) + 1

Grown(ring, item) ==
  [buffer |-> Append(ring.buffer, item), start |-> ring.start, size |-> ring.size + 1]

\* Mutant: the oldest item is overwritten, but the ring starts where it did.
TurnedKeepStart(ring, item) ==
  [buffer |-> [ring.buffer EXCEPT ![Slot(ring, ring.size)] = item],
   start |-> ring.start, size |-> ring.size]

Turned(ring, item) ==
  [buffer |-> [ring.buffer EXCEPT ![Slot(ring, ring.size)] = item],
   start |-> (ring.start + 1) % Capacity, size |-> ring.size]

\* Mutant: the vector is allowed one item more than the ring can address.
PushOneMore(ring, item) ==
  IF ring.size <= Capacity THEN Grown(ring, item) ELSE Turned(ring, item)

Push(ring, item) ==
  IF ring.size < Capacity THEN Grown(ring, item) ELSE Turned(ring, item)

ToVec(ring) == [i \in 1..ring.size |-> ring.buffer[Slot(ring, i - 1)]]

\* The vector is as long as the ring says, and the ring turns only when it is
\* full.  Then every index push and to_vec compute is in bounds.
InBounds(ring, Item) ==
  /\ ring \in [buffer : Seq(Item), start : Nat, size : Nat]
  /\ ring.size = Len(ring.buffer)
  /\ ring.size <= Capacity
  /\ ring.start < Capacity
  /\ ring.size < Capacity => ring.start = 0

=============================================================================
