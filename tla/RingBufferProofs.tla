-------------------------- MODULE RingBufferProofs --------------------------
(***************************************************************************)
(* What push does to what to_vec returns, for a ring of any capacity over  *)
(* any items: the remainders src/src/utils.rs computes with are those of a *)
(* list that drops its oldest item when it is full.                        *)
(***************************************************************************)
EXTENDS RingBuffer, SequenceTheorems, TLAPS

\* A sum of two indices wraps at most once.
LEMMA WrapOnce ==
  ASSUME NEW n \in Nat, n < 2 * Capacity
  PROVE  n % Capacity = IF n < Capacity THEN n ELSE n - Capacity
  BY CapacityAssumption

LEMMA SlotIs ==
  ASSUME NEW Item, NEW ring, InBounds(ring, Item), NEW i \in Nat, i <= Capacity
  PROVE  Slot(ring, i) =
           IF ring.start + i < Capacity THEN ring.start + i + 1 ELSE ring.start + i - Capacity + 1
<1>1. ring.start \in Nat /\ ring.start + i \in Nat /\ ring.start + i < 2 * Capacity
  BY CapacityAssumption DEF InBounds
<1> QED
  BY <1>1, WrapOnce, CapacityAssumption DEF Slot

LEMMA SlotInBounds ==
  ASSUME NEW Item, NEW ring, InBounds(ring, Item), NEW i \in 0 .. ring.size - 1
  PROVE  Slot(ring, i) \in 1 .. Len(ring.buffer)
<1>1. /\ i \in Nat /\ i < ring.size /\ i <= Capacity
      /\ ring.size \in Nat /\ ring.size = Len(ring.buffer) /\ ring.size <= Capacity
      /\ ring.start \in Nat /\ ring.start < Capacity
      /\ ring.size < Capacity => ring.start = 0
  BY CapacityAssumption DEF InBounds
<1>2. Slot(ring, i) =
        IF ring.start + i < Capacity THEN ring.start + i + 1 ELSE ring.start + i - Capacity + 1
  BY <1>1, SlotIs
<1> QED
  BY <1>1, <1>2, CapacityAssumption, SMTT(30)

\* Two items of one ring are never in one slot.
LEMMA SlotsDiffer ==
  ASSUME NEW Item, NEW ring, InBounds(ring, Item),
         NEW i \in 0 .. Capacity - 1, NEW j \in 0 .. Capacity - 1, i # j
  PROVE  Slot(ring, i) # Slot(ring, j)
<1>1. ring.start \in Nat /\ Capacity \in Nat
  BY CapacityAssumption DEF InBounds
<1> QED
  BY <1>1, SlotIs

LEMMA NewRingShows ==
  ASSUME NEW Item
  PROVE  InBounds(NewRing, Item) /\ ToVec(NewRing) = <<>>
  BY CapacityAssumption DEF InBounds, NewRing, ToVec

LEMMA ToVecType ==
  ASSUME NEW Item, NEW ring, InBounds(ring, Item)
  PROVE  ToVec(ring) \in Seq(Item) /\ Len(ToVec(ring)) = ring.size
<1>1. \A i \in 1 .. ring.size : ring.buffer[Slot(ring, i - 1)] \in Item
  <2> SUFFICES ASSUME NEW i \in 1 .. ring.size
               PROVE  ring.buffer[Slot(ring, i - 1)] \in Item
    OBVIOUS
  <2>1. i - 1 \in 0 .. ring.size - 1
    BY DEF InBounds
  <2> QED
    BY <2>1, SlotInBounds DEF InBounds
<1> QED
  BY <1>1 DEF ToVec, InBounds

LEMMA PushInBounds ==
  ASSUME NEW Item, NEW ring, InBounds(ring, Item), NEW item \in Item
  PROVE  InBounds(Push(ring, item), Item)
<1> USE CapacityAssumption
<1>0. /\ ring \in [buffer : Seq(Item), start : Nat, size : Nat]
      /\ ring.size = Len(ring.buffer) /\ ring.size <= Capacity /\ ring.start < Capacity
      /\ ring.size < Capacity => ring.start = 0
  BY DEF InBounds
<1> DEFINE new == Push(ring, item)
<1>1. CASE ring.size < Capacity
  <2>1. /\ new \in [buffer : Seq(Item), start : Nat, size : Nat]
        /\ new.buffer = Append(ring.buffer, item) /\ new.size = ring.size + 1 /\ new.start = 0
    BY <1>0, <1>1 DEF Push, Grown, Turned
  <2> HIDE DEF new
  <2> QED
    BY <1>0, <1>1, <2>1 DEF InBounds, new
<1>2. CASE ring.size = Capacity
  <2>1. Slot(ring, Capacity) \in 1 .. Capacity
    BY <1>0, SlotIs
  <2>2. (ring.start + 1) % Capacity \in Nat /\ (ring.start + 1) % Capacity < Capacity
    BY <1>0
  <2> DEFINE written == [ring.buffer EXCEPT ![Slot(ring, Capacity)] = item]
             turned == (ring.start + 1) % Capacity
  <2>3. written \in Seq(Item) /\ Len(written) = Capacity
    <3>1. /\ ring.buffer \in Seq(Item) /\ Len(ring.buffer) = Capacity
          /\ Slot(ring, Capacity) \in 1 .. Len(ring.buffer)
      BY <1>0, <1>2, <2>1
    <3> DEFINE old == ring.buffer
               slot == Slot(ring, Capacity)
    <3> HIDE DEF old, slot
    <3>2. [old EXCEPT ![slot] = item] \in Seq(Item) /\ Len([old EXCEPT ![slot] = item]) = Len(old)
      <4>1. old \in Seq(Item) /\ slot \in 1 .. Len(old)
        BY <3>1 DEF old, slot
      <4> QED
        BY <4>1, ExceptSeq
    <3> QED
      BY <3>1, <3>2 DEF old, slot
  <2>4. new = [buffer |-> written, start |-> turned, size |-> Capacity]
    BY <1>0, <1>2 DEF Push, Turned
  <2> HIDE DEF new, written, turned
  <2>5. turned \in Nat /\ turned < Capacity
    BY <2>2 DEF turned
  <2> QED
    BY <2>3, <2>4, <2>5 DEF InBounds, new
<1> QED
  BY <1>0, <1>1, <1>2

LEMMA PushWhenRoom ==
  ASSUME NEW Item, NEW ring, InBounds(ring, Item), NEW item \in Item, ring.size < Capacity
  PROVE  ToVec(Push(ring, item)) = Append(ToVec(ring), item)
<1> DEFINE new == Push(ring, item)
<1>1. /\ new.size = ring.size + 1 /\ new.start = 0 /\ ring.start = 0
      /\ new.buffer = Append(ring.buffer, item)
      /\ ring.buffer \in Seq(Item) /\ ring.size = Len(ring.buffer) /\ ring.size \in Nat
  BY DEF Push, Grown, Turned, InBounds
<1>2. InBounds(new, Item)
  BY PushInBounds
<1> HIDE DEF new
<1>3. ASSUME NEW i \in 1 .. ring.size + 1
      PROVE  ToVec(new)[i] = Append(ToVec(ring), item)[i]
  <2>1. i - 1 \in Nat /\ i - 1 < Capacity /\ i - 1 <= Capacity
    BY <1>1, CapacityAssumption
  <2>2. Slot(new, i - 1) = i /\ Slot(ring, i - 1) = i
    BY <1>1, <1>2, <2>1, SlotIs, CapacityAssumption
  <2>3. ToVec(new)[i] = Append(ring.buffer, item)[i]
    BY <1>1, <2>2 DEF ToVec
  <2>4. ToVec(ring) \in Seq(Item) /\ Len(ToVec(ring)) = ring.size
    BY ToVecType
  <2>5. i # ring.size + 1 => ToVec(ring)[i] = ring.buffer[i]
    BY <1>1, <2>2 DEF ToVec
  <2> QED
    BY <1>1, <2>3, <2>4, <2>5
<1>4. /\ ToVec(new) \in Seq(Item) /\ Len(ToVec(new)) = ring.size + 1
      /\ ToVec(ring) \in Seq(Item) /\ Len(ToVec(ring)) = ring.size
  BY <1>1, <1>2, ToVecType
<1> DEFINE shown == ToVec(new)
           wanted == Append(ToVec(ring), item)
<1>5. shown \in Seq(Item) /\ Len(shown) = ring.size + 1
  BY <1>4
<1>6. wanted \in Seq(Item) /\ Len(wanted) = ring.size + 1
  BY <1>4, AppendProperties
<1>7. \A i \in 1 .. Len(shown) : shown[i] = wanted[i]
  BY <1>3, <1>5
<1> HIDE DEF shown, wanted
<1>8. shown = wanted
  BY <1>5, <1>6, <1>7, SeqEqual
<1> QED
  BY <1>8 DEF shown, wanted, new

LEMMA PushWhenFull ==
  ASSUME NEW Item, NEW ring, InBounds(ring, Item), NEW item \in Item, ring.size = Capacity
  PROVE  ToVec(Push(ring, item)) = Append(Tail(ToVec(ring)), item)
<1> USE CapacityAssumption
<1> DEFINE new == Push(ring, item)
           slot == Slot(ring, 0)
<1>0. /\ ring.buffer \in Seq(Item) /\ Len(ring.buffer) = Capacity
      /\ ring.start \in Nat /\ ring.start < Capacity
  BY DEF InBounds
<1>1. Slot(ring, Capacity) = slot /\ slot \in 1 .. Capacity
  BY <1>0, SlotIs
<1>2. /\ new.size = Capacity
      /\ new.start = IF ring.start + 1 < Capacity THEN ring.start + 1 ELSE 0
      /\ new.buffer = [ring.buffer EXCEPT ![slot] = item]
      /\ ring.buffer \in Seq(Item) /\ Len(ring.buffer) = Capacity
      /\ ring.start \in Nat /\ ring.start < Capacity
  <2>1. (ring.start + 1) % Capacity = IF ring.start + 1 < Capacity THEN ring.start + 1 ELSE 0
    BY WrapOnce DEF InBounds
  <2> QED
    BY <1>1, <2>1 DEF Push, Grown, Turned, InBounds
<1>3. InBounds(new, Item)
  BY PushInBounds
<1>4. /\ ToVec(new) \in Seq(Item) /\ Len(ToVec(new)) = Capacity
      /\ ToVec(ring) \in Seq(Item) /\ Len(ToVec(ring)) = Capacity
  BY <1>2, <1>3, ToVecType
<1> HIDE DEF new
\* Every item moves one place down, the oldest gives its slot to the new one.
<1>5. ASSUME NEW i \in 1 .. Capacity
      PROVE  ToVec(new)[i] = IF i = Capacity THEN item ELSE ToVec(ring)[i + 1]
  <2>1. i - 1 \in Nat /\ i - 1 <= Capacity /\ i \in Nat /\ i <= Capacity
    OBVIOUS
  <2>2. Slot(new, i - 1) = Slot(ring, i)
    <3>1. Slot(new, i - 1) = IF new.start + (i - 1) < Capacity
                             THEN new.start + (i - 1) + 1 ELSE new.start + (i - 1) - Capacity + 1
      BY <1>3, <2>1, SlotIs
    <3>2. Slot(ring, i) = IF ring.start + i < Capacity
                          THEN ring.start + i + 1 ELSE ring.start + i - Capacity + 1
      BY <2>1, SlotIs
    <3> QED
      BY <1>0, <1>2, <2>1, <3>1, <3>2
  <2>3. ToVec(new)[i] = new.buffer[Slot(ring, i)]
    BY <1>2, <2>2 DEF ToVec
  <2>4. CASE i = Capacity
    BY <1>1, <1>2, <2>3, <2>4
  <2>5. CASE i # Capacity
    <3>1. i \in 0 .. Capacity - 1 /\ 0 \in 0 .. Capacity - 1 /\ i # 0 /\ i \in 0 .. ring.size - 1
      BY <2>5
    <3>2. Slot(ring, i) # slot /\ Slot(ring, i) \in 1 .. Len(ring.buffer)
      BY <3>1, SlotsDiffer, SlotInBounds
    <3>3. ToVec(ring)[i + 1] = ring.buffer[Slot(ring, i)]
      BY <2>5 DEF ToVec
    <3> QED
      BY <1>2, <2>3, <2>5, <3>2, <3>3
  <2> QED
    BY <2>4, <2>5
<1>6. Append(Tail(ToVec(ring)), item) \in Seq(Item) /\ Len(Append(Tail(ToVec(ring)), item)) = Capacity
  BY <1>4
<1>7. ASSUME NEW i \in 1 .. Capacity
      PROVE  Append(Tail(ToVec(ring)), item)[i] = IF i = Capacity THEN item ELSE ToVec(ring)[i + 1]
  BY <1>4
<1> HIDE DEF slot
<1> DEFINE shown == ToVec(new)
           wanted == Append(Tail(ToVec(ring)), item)
<1>8. shown \in Seq(Item) /\ Len(shown) = Capacity
  BY <1>4
<1>9. \A i \in 1 .. Len(shown) : shown[i] = wanted[i]
  BY <1>4, <1>5, <1>7
<1>10. wanted \in Seq(Item) /\ Len(wanted) = Capacity
  BY <1>6
<1> HIDE DEF shown, wanted
<1>11. shown = wanted
  BY <1>8, <1>9, <1>10, SeqEqual
<1> QED
  BY <1>11 DEF shown, wanted, new
=============================================================================
