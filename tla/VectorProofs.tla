---------------------------- MODULE VectorProofs ----------------------------
(***************************************************************************)
(* Vector for any set of entries, any initial size and any growth factor:  *)
(* it implements Deque, owns what it holds and forgets nothing it owns but *)
(* when it is full.                                                        *)
(***************************************************************************)
EXTENDS Vector, SequenceTheorems, TLAPS

\* i taken around the end of an array of cap slots.
Wrap(cap, i) == IF i < cap THEN i ELSE i - cap

\* The entry at position k from start.
Entry(k) == elements[get_real_index(k)]

\* The array never shrinks below its first size, which vector_empty returns
\* to, and only a vector with start = end can be empty.
RingInv ==
    /\ TypeOK
    /\ capacity >= VECTOR_INIT_SIZE
    /\ isempty => start = end

\* The slots from start to end hold entries, no entry twice, all owned.
HeldInv ==
    /\ Items \in Seq(Entries)
    /\ HeldIsOwned
    /\ \A i, j \in 1..Len(Items) : Items[i] = Items[j] => i = j

IInv == RingInv /\ HeldInv

-----------------------------------------------------------------------------
(* Arithmetic of the ring *)

\* start, Size and capacity determine end; the two cases of start = end are
\* the two extreme sizes.
LEMMA SizeFacts ==
    RingInv => /\ Size \in 0..capacity
               /\ Size = 0 <=> isempty
               /\ Size = capacity <=> vector_isfull
               /\ end = Wrap(capacity, start + Size)
  BY DEF RingInv, TypeOK, Size, vector_isfull, Wrap

\* Positions below Size are slots of the array.
LEMMA RealIndex ==
    RingInv => \A k \in 0..(capacity - 1) :
                  /\ get_real_index(k) = Wrap(capacity, start + k)
                  /\ get_real_index(k) \in 0..(capacity - 1)
  BY DEF RingInv, TypeOK, get_real_index, Wrap

\* Two positions share no slot.
LEMMA SlotsDiffer ==
    ASSUME NEW cap \in Nat, NEW s \in Nat, NEW j \in Nat, NEW k \in Nat,
           s < cap, j < cap, k < cap
    PROVE  /\ Wrap(cap, s + j) \in 0..(cap - 1)
           /\ j # k => Wrap(cap, s + j) # Wrap(cap, s + k)
  BY DEF Wrap

\* Moving start back by a slot moves every position up by one.
LEMMA PrevSlot ==
    ASSUME NEW cap \in Nat, NEW s \in Nat, s < cap
    PROVE  LET p == get_prev_index(cap, s)
           IN  /\ p \in Nat /\ p < cap /\ Wrap(cap, p + 0) = p
               /\ \A k \in Nat : k < cap => Wrap(cap, p + (k + 1)) = Wrap(cap, s + k)
               /\ \A k \in Nat : k + 1 < cap => Wrap(cap, s + k) # p
  BY DEF Wrap, get_prev_index

\* Moving start on by a slot moves every position down by one.
LEMMA NextSlot ==
    ASSUME NEW cap \in Nat, NEW s \in Nat, s < cap
    PROVE  LET p == get_next_index(cap, s)
           IN  /\ p \in Nat /\ p < cap
               /\ \A k \in Nat : k < cap => Wrap(cap, p + k) = Wrap(cap, s + (k + 1))
               /\ \A k \in Nat : k < cap => (k = 0 <=> Wrap(cap, s + (k + 1)) = p)
  BY DEF Wrap, get_next_index

\* end is the slot after the last item's, which is start for a single item.
LEMMA LastSlot ==
    ASSUME NEW cap \in Nat, NEW s \in Nat, s < cap, NEW k \in Nat, k < cap
    PROVE  /\ get_next_index(cap, Wrap(cap, s + k)) = Wrap(cap, s + (k + 1))
           /\ get_prev_index(cap, Wrap(cap, s + (k + 1))) = Wrap(cap, s + k)
           /\ k = 0 <=> Wrap(cap, s + k) = s
  BY DEF Wrap, get_prev_index, get_next_index

\* The entry at a position after a step.
LEMMA EntryNext ==
    ASSUME NEW cap \in Nat, NEW s \in Nat, capacity' = cap, start' = s, NEW k \in Nat
    PROVE  (Entry(k))' = elements'[Wrap(cap, s + k)]
  <1>1. (get_real_index(k))' = Wrap(cap, s + k)
    BY DEF get_real_index, Wrap
  <1>2. QED
    BY <1>1 DEF Entry

\* The size after a step.
LEMMA SizeNext ==
    ASSUME NEW cap \in Nat, NEW s \in Nat, NEW n \in Nat, s < cap, n <= cap,
           capacity' = cap, start' = s, end' = Wrap(cap, s + n), isempty' <=> n = 0
    PROVE  Size' = n
  BY DEF Size, Wrap

\* Items has one item for each position below Size.
LEMMA ItemsFacts ==
    RingInv /\ ~destroyed /\ Items \in Seq(Entries)
      => /\ Len(Items) = Size
         /\ \A i \in 1..Size : Items[i] = Entry(i - 1)
  <1> SUFFICES ASSUME RingInv, ~destroyed PROVE Len(Items) = Size /\ \A i \in 1..Size : Items[i] = Entry(i - 1)
    OBVIOUS
  <1>1. Size \in Nat
    BY SizeFacts DEF RingInv, TypeOK
  <1>2. Items = [i \in 1..Size |-> elements[get_real_index(i - 1)]]
    BY DEF Items
  <1>3. QED
    BY <1>1, <1>2 DEF Entry

\* What vector_grow returns is larger than what was full.
LEMMA GrowsLarger ==
    ASSUME NEW c \in Nat \ {0}
    PROVE  c * VECTOR_GROW_FACTOR \in Nat /\ c * VECTOR_GROW_FACTOR > c
  BY SizeAssumption

\* After the growth, if there was any, there is room for one more and every
\* item is still at its position.
LEMMA RoomFacts ==
    RingInv => /\ Room.capacity \in Nat \ {0} /\ Room.capacity >= capacity
               /\ Room.start \in 0..(Room.capacity - 1)
               /\ Size < Room.capacity
               /\ Room.elements \in [0..(Room.capacity - 1) -> Entries \cup {Garbage}]
               /\ Room.end = Wrap(Room.capacity, Room.start + Size)
               /\ \A k \in 0..(Size - 1) :
                     Room.elements[Wrap(Room.capacity, Room.start + k)] = Entry(k)
  <1> SUFFICES ASSUME RingInv
               PROVE  /\ Room.capacity \in Nat \ {0} /\ Room.capacity >= capacity
                      /\ Room.start \in 0..(Room.capacity - 1)
                      /\ Size < Room.capacity
                      /\ Room.elements \in [0..(Room.capacity - 1) -> Entries \cup {Garbage}]
                      /\ Room.end = Wrap(Room.capacity, Room.start + Size)
                      /\ \A k \in 0..(Size - 1) :
                            Room.elements[Wrap(Room.capacity, Room.start + k)] = Entry(k)
    OBVIOUS
  <1>1. CASE vector_isfull
    <2> DEFINE new_capacity == capacity * VECTOR_GROW_FACTOR
    <2>1. new_capacity \in Nat /\ new_capacity > capacity
      BY GrowsLarger DEF RingInv, TypeOK
    <2> HIDE DEF new_capacity
    <2>2. /\ Room.capacity = new_capacity /\ Room.start = 0 /\ Room.end = capacity
          /\ Room.elements = [i \in 0..(new_capacity - 1) |->
                                IF i < capacity - start THEN elements[start + i]
                                ELSE IF i < capacity THEN elements[i - (capacity - start)]
                                ELSE Garbage]
      BY <1>1 DEF Room, Grown, new_capacity
    <2>3. Size = capacity
      BY <1>1, SizeFacts
    <2>4. Room.elements \in [0..(Room.capacity - 1) -> Entries \cup {Garbage}]
      BY <2>1, <2>2 DEF RingInv, TypeOK
    <2>5. ASSUME NEW k \in 0..(Size - 1)
          PROVE  Room.elements[Wrap(Room.capacity, Room.start + k)] = Entry(k)
      BY <2>1, <2>2, <2>3 DEF RingInv, TypeOK, Wrap, Entry, get_real_index
    <2>6. Room.end = Wrap(Room.capacity, Room.start + Size)
      BY <2>1, <2>2, <2>3 DEF RingInv, TypeOK, Wrap
    <2>7. /\ Room.capacity \in Nat \ {0} /\ Room.capacity >= capacity
          /\ Room.start \in 0..(Room.capacity - 1) /\ Size < Room.capacity
      BY <2>1, <2>2, <2>3 DEF RingInv, TypeOK
    <2>8. QED
      BY <2>4, <2>5, <2>6, <2>7
  <1>2. CASE ~vector_isfull
    <2>1. /\ Room.capacity = capacity /\ Room.start = start /\ Room.end = end
          /\ Room.elements = elements
      BY <1>2 DEF Room, Current
    <2>2. Size < capacity
      BY <1>2, SizeFacts DEF RingInv, TypeOK
    <2>3. ASSUME NEW k \in 0..(Size - 1)
          PROVE  elements[Wrap(capacity, start + k)] = Entry(k)
      <3>1. k \in 0..(capacity - 1)
        BY <2>2, SizeFacts DEF RingInv, TypeOK
      <3>2. QED
        BY <3>1, RealIndex DEF Entry
    <2>4. QED
      BY <2>1, <2>2, <2>3, SizeFacts DEF RingInv, TypeOK
  <1>3. QED
    BY <1>1, <1>2

-----------------------------------------------------------------------------
(* The ring after each operation *)

LEMMA RingPush ==
    ASSUME RingInv, NEW e \in Entries, vector_push_back(e) \/ vector_unshift(e)
    PROVE  RingInv'
  <1> USE RoomFacts DEF Give
  <1>1. /\ capacity' = Room.capacity /\ isempty' = FALSE /\ UNCHANGED destroyed
        /\ owner' = [owner EXCEPT ![e] = "vector"]
        /\ capacity' >= VECTOR_INIT_SIZE
    BY SizeAssumption DEF vector_push_back, vector_unshift, RingInv, TypeOK
  <1>2. /\ start' \in 0..(capacity' - 1) /\ end' \in 0..(capacity' - 1)
        /\ elements' \in [0..(capacity' - 1) -> Entries \cup {Garbage}]
    <2>0. Size \in Nat
      BY SizeFacts DEF RingInv, TypeOK
    <2>1. CASE vector_push_back(e)
      <3>1. Room.end \in 0..(Room.capacity - 1)
        BY <2>0 DEF Wrap
      <3>2. QED
        BY <2>0, <2>1, <3>1 DEF vector_push_back, get_next_index
    <2>2. CASE vector_unshift(e)
      <3>1. Room.end \in 0..(Room.capacity - 1)
        BY <2>0 DEF Wrap
      <3>2. QED
        BY <2>0, <2>2, <3>1 DEF vector_unshift, get_prev_index
    <2>3. QED
      BY <2>1, <2>2
  <1>3. QED
    BY <1>1, <1>2 DEF RingInv, TypeOK

LEMMA RingTake ==
    ASSUME RingInv, vector_pop \/ vector_shift
    PROVE  RingInv'
  <1>1. CASE isempty
    BY <1>1 DEF vector_pop, vector_shift, ring, RingInv, TypeOK
  <1>2. CASE ~isempty /\ vector_pop
    BY <1>2 DEF vector_pop, Take, get_prev_index, RingInv, TypeOK
  <1>3. CASE ~isempty /\ vector_shift
    BY <1>3 DEF vector_shift, Take, get_next_index, RingInv, TypeOK
  <1>4. QED
    BY <1>1, <1>2, <1>3

LEMMA RingEmpty ==
    ASSUME RingInv, vector_empty
    PROVE  RingInv'
  <1>1. owner' \in [Entries -> {"caller", "vector", "freed"}]
    BY DEF vector_empty, FreeLoop, RingInv, TypeOK
  <1>2. elements' \in [0..(VECTOR_INIT_SIZE - 1) -> Entries \cup {Garbage}]
    BY SizeAssumption DEF vector_empty, RingInv, TypeOK
  <1>3. QED
    BY <1>1, <1>2, SizeAssumption DEF vector_empty, RingInv, TypeOK

\* The operations that leave the ring as it is, vector_destroy included.
Quiet ==
    \/ vector_size \/ vector_isempty \/ vector_insert \/ vector_remove
    \/ \E i \in 0..MaxIndex : vector_get(i)

LEMMA RingStep == RingInv /\ [Next]_vars => RingInv'
  <1> SUFFICES ASSUME RingInv, [Next]_vars PROVE RingInv'
    OBVIOUS
  <1>1. ASSUME NEW e \in Entries, Realloc(e) PROVE RingInv'
    BY <1>1 DEF Realloc, ring, RingInv, TypeOK
  <1>2. ASSUME vector_destroy PROVE RingInv'
    <2>1. owner' \in [Entries -> {"caller", "vector", "freed"}]
      BY <1>2 DEF vector_destroy, FreeLoop, RingInv, TypeOK
    <2>2. QED
      BY <1>2, <2>1 DEF vector_destroy, ring, RingInv, TypeOK
  <1>3. ASSUME Quiet \/ UNCHANGED vars PROVE RingInv'
    BY <1>3 DEF Quiet, vector_size, vector_isempty, vector_insert, vector_remove,
                vector_get, vars, ring, RingInv, TypeOK
  <1>4. QED
    BY <1>1, <1>2, <1>3, RingPush, RingTake, RingEmpty DEF Next, Quiet

-----------------------------------------------------------------------------
(* The items after each operation *)

\* Items after a step, from the entries at its positions.
LEMMA ItemsNext ==
    ASSUME ~destroyed', NEW s \in Seq(Entries), Size' = Len(s),
           \A i \in 1..Len(s) : (Entry(i - 1))' = s[i]
    PROVE  Items' = s
  <1>1. Items' = [i \in 1..Len(s) |-> (Entry(i - 1))']
    BY DEF Items, Entry
  <1>2. s = [i \in 1..Len(s) |-> s[i]]
    OBVIOUS
  <1>3. QED
    BY <1>1, <1>2

LEMMA ItemsPushBack ==
    ASSUME IInv, NEW e \in Entries, vector_push_back(e)
    PROVE  Items' = Append(Items, e)
  <1> DEFINE s == Append(Items, e)
  <1>0. /\ ~destroyed /\ ~destroyed' /\ Items \in Seq(Entries) /\ RingInv
        /\ Size \in Nat
    BY SizeFacts DEF IInv, HeldInv, vector_push_back, Give, RingInv, TypeOK
  <1>1. /\ s \in Seq(Entries) /\ Len(s) = Size + 1 /\ s[Size + 1] = e
        /\ \A i \in 1..Size : s[i] = Entry(i - 1)
    BY <1>0, ItemsFacts, AppendProperties
  <1>2. Size' = Size + 1
    <2>1. PICK cap \in Nat, st \in Nat, k \in Nat :
             /\ cap = Room.capacity /\ st = Room.start /\ k = Size
             /\ st < cap /\ k < cap /\ Room.end = Wrap(cap, st + k)
      BY <1>0, RoomFacts
    <2>2. /\ end' = Wrap(cap, st + (k + 1)) /\ start' = st
          /\ (isempty' <=> k + 1 = 0) /\ capacity' = cap
      <3>1. st < cap /\ k < cap
        BY <2>1
      <3>2. get_next_index(cap, Wrap(cap, st + k)) = Wrap(cap, st + (k + 1))
        BY <3>1, LastSlot
      <3>3. QED
        BY <2>1, <3>2 DEF vector_push_back
    <2>3. k + 1 \in Nat /\ k + 1 <= cap
      BY <2>1
    <2>4. QED
      BY <2>1, <2>2, <2>3, SizeNext
  <1> HIDE DEF s
  <1>3. ASSUME NEW i \in 1..Len(s) PROVE (Entry(i - 1))' = s[i]
    <2>1. /\ elements' = [Room.elements EXCEPT ![Room.end] = e]
          /\ (Entry(i - 1))' = elements'[Wrap(Room.capacity, Room.start + (i - 1))]
          /\ Room.end = Wrap(Room.capacity, Room.start + Size)
      <3>1. i - 1 \in Nat /\ Room.capacity \in Nat /\ Room.start \in Nat
        BY <1>0, <1>1, RoomFacts
      <3>2. QED
        BY <1>0, <3>1, RoomFacts, EntryNext DEF vector_push_back
    <2>2. /\ i - 1 \in 0..(Room.capacity - 1) /\ Size \in 0..(Room.capacity - 1)
          /\ Room.capacity \in Nat \ {0} /\ Room.start \in 0..(Room.capacity - 1)
          /\ Room.elements \in [0..(Room.capacity - 1) -> Entries \cup {Garbage}]
      BY <1>0, <1>1, RoomFacts
    <2>3. /\ elements'[Wrap(Room.capacity, Room.start + Size)] = e
          /\ i - 1 # Size => elements'[Wrap(Room.capacity, Room.start + (i - 1))]
                                = Room.elements[Wrap(Room.capacity, Room.start + (i - 1))]
      <3>1. elements' = [Room.elements EXCEPT ![Wrap(Room.capacity, Room.start + Size)] = e]
        BY <2>1
      <3>2. PICK cap \in Nat \ {0}, st \in Nat, n \in Nat, j \in Nat :
               /\ cap = Room.capacity /\ st = Room.start /\ n = Size /\ j = i - 1
               /\ st < cap /\ n < cap /\ j < cap
        BY <2>2
      <3>3. DOMAIN Room.elements = 0..(cap - 1)
        BY <2>2, <3>2
      <3>4. /\ Wrap(cap, st + n) \in 0..(cap - 1) /\ Wrap(cap, st + j) \in 0..(cap - 1)
            /\ j # n => Wrap(cap, st + j) # Wrap(cap, st + n)
        BY <3>2, SlotsDiffer
      <3>5. QED
        BY <3>1, <3>2, <3>3, <3>4
    <2>4. CASE i = Size + 1
      BY <1>0, <1>1, <2>1, <2>3, <2>4
    <2>5. CASE i \in 1..Size
      <3>1. i - 1 \in 0..(Size - 1)
        BY <1>0, <2>5
      <3>2. QED
        BY <1>0, <1>1, <2>1, <2>3, <2>5, <3>1, RoomFacts
    <2>6. QED
      BY <1>0, <1>1, <2>4, <2>5
  <1>4. QED
    BY <1>0, <1>1, <1>2, <1>3, ItemsNext DEF s

LEMMA ItemsUnshift ==
    ASSUME IInv, NEW e \in Entries, vector_unshift(e)
    PROVE  Items' = <<e>> \o Items
  <1> DEFINE s == <<e>> \o Items
  <1>0. /\ ~destroyed /\ ~destroyed' /\ Items \in Seq(Entries) /\ RingInv
        /\ Size \in Nat
    BY SizeFacts DEF IInv, HeldInv, vector_unshift, Give, RingInv, TypeOK
  <1>1. /\ s \in Seq(Entries) /\ Len(s) = Size + 1 /\ s[1] = e
        /\ \A i \in 1..Size : s[i + 1] = Entry(i - 1)
    BY <1>0, ItemsFacts, ConcatProperties
  <1>2. PICK cap \in Nat \ {0}, st \in Nat :
           cap = Room.capacity /\ st = Room.start /\ st < cap /\ Size < cap
    BY <1>0, RoomFacts
  <1> DEFINE p == get_prev_index(cap, st)
  <1>3. /\ p \in Nat /\ p < cap /\ Wrap(cap, p + 0) = p
        /\ \A k \in Nat : k < cap => Wrap(cap, p + (k + 1)) = Wrap(cap, st + k)
        /\ \A k \in Nat : k + 1 < cap => Wrap(cap, st + k) # p
    BY <1>2, PrevSlot
  <1>4. /\ elements' = [Room.elements EXCEPT ![p] = e]
        /\ start' = p /\ capacity' = cap /\ end' = Wrap(cap, st + Size) /\ isempty' = FALSE
        /\ DOMAIN Room.elements = 0..(cap - 1)
    BY <1>0, <1>2, RoomFacts DEF vector_unshift
  <1> HIDE DEF s, p
  <1>5. Size' = Size + 1
    <2>1. end' = Wrap(cap, p + (Size + 1)) /\ Size + 1 \in Nat /\ Size + 1 <= cap
      BY <1>0, <1>2, <1>3, <1>4
    <2>2. isempty' <=> Size + 1 = 0
      BY <1>0, <1>4
    <2>3. QED
      BY <1>2, <1>3, <1>4, <2>1, <2>2, SizeNext
  <1>6. ASSUME NEW i \in 1..Len(s) PROVE (Entry(i - 1))' = s[i]
    <2>1. (Entry(i - 1))' = elements'[Wrap(cap, p + (i - 1))]
      <3>1. i - 1 \in Nat /\ p \in Nat /\ capacity' = cap /\ start' = p
        BY <1>0, <1>1, <1>3, <1>4
      <3>2. QED
        BY <3>1, EntryNext
    <2>2. CASE i = 1
      BY <1>1, <1>2, <1>3, <1>4, <2>1, <2>2
    <2>3. CASE i \in 2..(Size + 1)
      <3>1. PICK k \in Nat : k = i - 2 /\ k + 1 < cap /\ k < cap /\ k \in 0..(Size - 1)
        BY <1>0, <1>2, <2>3
      <3>2. /\ Wrap(cap, p + (k + 1)) = Wrap(cap, st + k)
            /\ Wrap(cap, st + k) # p
        BY <1>3, <3>1
      <3>3. Wrap(cap, st + k) \in 0..(cap - 1)
        BY <1>2, <3>1, SlotsDiffer
      <3>4. Room.elements[Wrap(cap, st + k)] = Entry(k)
        BY <1>0, <1>2, <3>1, RoomFacts
      <3>5. s[i] = Entry(k)
        <4>1. i - 1 \in 1..Size /\ (i - 1) + 1 = i /\ (i - 1) - 1 = k
          BY <1>0, <2>3, <3>1
        <4>2. QED
          BY <1>1, <4>1
      <3>6. (Entry(i - 1))' = elements'[Wrap(cap, p + (k + 1))]
        BY <2>1, <3>1
      <3>7. QED
        BY <1>4, <3>2, <3>3, <3>4, <3>5, <3>6
    <2>4. QED
      BY <1>0, <1>1, <2>2, <2>3
  <1>7. QED
    BY <1>0, <1>1, <1>5, <1>6, ItemsNext DEF s

\* Who gets the entry that vector_pop and vector_shift return.
Handed(x) == owner' = [e \in Entries |-> IF e = x THEN "caller" ELSE owner[e]]

LEMMA ItemsPop ==
    ASSUME IInv, vector_pop, ~isempty
    PROVE  /\ Items # <<>>
           /\ Items' = SubSeq(Items, 1, Len(Items) - 1)
           /\ Returns("pop", Null, Items[Len(Items)])
           /\ Handed(Items[Len(Items)])
  <1> DEFINE s == SubSeq(Items, 1, Len(Items) - 1)
  <1>0. /\ ~destroyed /\ ~destroyed' /\ Items \in Seq(Entries) /\ RingInv
        /\ Len(Items) = Size /\ \A i \in 1..Size : Items[i] = Entry(i - 1)
    BY ItemsFacts DEF IInv, HeldInv, vector_pop
  <1>1. PICK cap \in Nat, st \in Nat, k \in Nat :
           /\ cap = capacity /\ st = start /\ st < cap
           /\ Size = k + 1 /\ k < cap
           /\ end = Wrap(cap, st + (k + 1))
    <2>1. /\ capacity \in Nat /\ start \in Nat /\ start < capacity
          /\ Size - 1 \in Nat /\ Size = (Size - 1) + 1 /\ Size - 1 < capacity
          /\ end = Wrap(capacity, start + Size)
      BY <1>0, SizeFacts DEF RingInv, TypeOK
    <2>2. QED
      BY <2>1
  <1>2. /\ get_prev_index(capacity, end) = Wrap(cap, st + k)
        /\ k = 0 <=> Wrap(cap, st + k) = st
    <2>1. st < cap /\ k < cap /\ capacity = cap /\ end = Wrap(cap, st + (k + 1))
      BY <1>1
    <2>2. /\ get_prev_index(cap, Wrap(cap, st + (k + 1))) = Wrap(cap, st + k)
          /\ k = 0 <=> Wrap(cap, st + k) = st
      BY <2>1, LastSlot
    <2>3. QED
      BY <2>1, <2>2
  <1>3. /\ end' = Wrap(cap, st + k) /\ (isempty' <=> k = 0)
        /\ UNCHANGED <<elements, start, capacity>>
        /\ Take("pop", Wrap(cap, st + k))
    BY <1>1, <1>2 DEF vector_pop
  <1>4. Size' = k
    <2>1. /\ st < cap /\ k <= cap /\ capacity' = cap /\ start' = st
          /\ end' = Wrap(cap, st + k) /\ (isempty' <=> k = 0)
      BY <1>1, <1>3
    <2>2. QED
      BY <2>1, SizeNext
  <1>5. /\ s \in Seq(Entries) /\ Len(s) = k
        /\ \A i \in 1..k : s[i] = Items[i]
    BY <1>0, <1>1, SubSeqProperties
  <1> HIDE DEF s
  <1>6. ASSUME NEW i \in 1..Len(s) PROVE (Entry(i - 1))' = s[i]
    <2>1. (Entry(i - 1))' = Entry(i - 1)
      BY <1>3 DEF Entry, get_real_index
    <2>2. i \in 1..k /\ i \in 1..Size
      BY <1>1, <1>5
    <2>3. QED
      BY <1>0, <1>5, <2>1, <2>2
  <1>7. Items' = s
    BY <1>0, <1>4, <1>5, <1>6, ItemsNext
  <1>8. Items[Len(Items)] = elements[Wrap(cap, st + k)]
    <2>1. Items[Len(Items)] = Entry(k)
      BY <1>0, <1>1
    <2>2. get_real_index(k) = Wrap(cap, st + k)
      BY <1>0, <1>1, RealIndex
    <2>3. QED
      BY <2>1, <2>2 DEF Entry
  <1>9. Items # <<>>
    BY <1>0, <1>1
  <1>10. QED
    BY <1>3, <1>7, <1>8, <1>9 DEF Take, Handed, s

LEMMA ItemsShift ==
    ASSUME IInv, vector_shift, ~isempty
    PROVE  /\ Items # <<>>
           /\ Items' = Tail(Items)
           /\ Returns("shift", Null, Head(Items))
           /\ Handed(Items[1])
  <1> DEFINE s == Tail(Items)
  <1>0. /\ ~destroyed /\ ~destroyed' /\ Items \in Seq(Entries) /\ RingInv
        /\ Len(Items) = Size /\ \A i \in 1..Size : Items[i] = Entry(i - 1)
    BY ItemsFacts DEF IInv, HeldInv, vector_shift
  <1>1. PICK cap \in Nat, st \in Nat, k \in Nat :
           /\ cap = capacity /\ st = start /\ st < cap
           /\ Size = k + 1 /\ k < cap
           /\ end = Wrap(cap, st + (k + 1))
    <2>1. /\ capacity \in Nat /\ start \in Nat /\ start < capacity
          /\ Size - 1 \in Nat /\ Size = (Size - 1) + 1 /\ Size - 1 < capacity
          /\ end = Wrap(capacity, start + Size)
      BY <1>0, SizeFacts DEF RingInv, TypeOK
    <2>2. QED
      BY <2>1
  <1> DEFINE p == get_next_index(cap, st)
  <1>2. /\ p \in Nat /\ p < cap
        /\ \A j \in Nat : j < cap => Wrap(cap, p + j) = Wrap(cap, st + (j + 1))
        /\ k = 0 <=> Wrap(cap, st + (k + 1)) = p
    <2>1. st < cap /\ k < cap
      BY <1>1
    <2>2. QED
      BY <2>1, NextSlot
  <1>3. /\ start' = p /\ (isempty' <=> k = 0)
        /\ UNCHANGED <<elements, end, capacity>>
        /\ Take("shift", start)
    BY <1>1, <1>2 DEF vector_shift
  <1> HIDE DEF p
  <1>4. Size' = k
    <2>1. /\ p \in Nat /\ p < cap /\ k <= cap /\ capacity' = cap /\ start' = p
          /\ end' = Wrap(cap, p + k) /\ (isempty' <=> k = 0)
      BY <1>1, <1>2, <1>3
    <2>2. QED
      BY <2>1, SizeNext
  <1>5. Items # <<>>
    BY <1>0, <1>1
  <1>6. /\ s \in Seq(Entries) /\ Len(s) = k
        /\ \A i \in 1..k : s[i] = Items[i + 1]
    BY <1>0, <1>1, <1>5, HeadTailProperties
  <1> HIDE DEF s
  <1>7. ASSUME NEW i \in 1..Len(s) PROVE (Entry(i - 1))' = s[i]
    <2>1. i \in 1..k /\ i + 1 \in 1..Size /\ (i + 1) - 1 = i /\ i < cap
      BY <1>1, <1>6
    <2>2. s[i] = elements[Wrap(cap, st + i)]
      <3>1. s[i] = Entry(i)
        BY <1>0, <1>6, <2>1
      <3>2. get_real_index(i) = Wrap(cap, st + i)
        BY <1>0, <1>1, <2>1, RealIndex
      <3>3. QED
        BY <3>1, <3>2 DEF Entry
    <2>3. (Entry(i - 1))' = elements'[Wrap(cap, p + (i - 1))]
      <3>1. i - 1 \in Nat /\ p \in Nat /\ capacity' = cap /\ start' = p
        BY <1>1, <1>2, <1>3, <2>1
      <3>2. QED
        BY <3>1, EntryNext
    <2>4. Wrap(cap, p + (i - 1)) = Wrap(cap, st + i)
      <3>1. PICK j \in Nat : j = i - 1 /\ j + 1 = i /\ j < cap
        BY <2>1
      <3>2. QED
        BY <1>2, <3>1
    <2>5. QED
      BY <1>3, <2>2, <2>3, <2>4
  <1>8. Items' = s
    BY <1>0, <1>4, <1>6, <1>7, ItemsNext
  <1>9. Items[1] = elements[start] /\ Head(Items) = Items[1]
    <2>1. Items[1] = Entry(0)
      BY <1>0, <1>1
    <2>2. get_real_index(0) = start
      BY <1>1 DEF get_real_index
    <2>3. QED
      BY <1>0, <1>5, <2>1, <2>2 DEF Entry
  <1>10. QED
    BY <1>3, <1>5, <1>8, <1>9 DEF Take, Handed, s

\* isempty says whether there is an item.
LEMMA EmptyItems ==
    ASSUME IInv, ~destroyed
    PROVE  isempty <=> Items = <<>>
  <1>1. /\ Items \in Seq(Entries) /\ Len(Items) = Size /\ (Size = 0 <=> isempty)
    BY ItemsFacts, SizeFacts DEF IInv, HeldInv
  <1>2. QED
    BY <1>1

LEMMA ItemsEmptied ==
    ASSUME vector_empty \/ vector_destroy
    PROVE  Items' = <<>>
  <1>1. CASE vector_empty
    <2>1. Size' = 0 /\ ~destroyed'
      BY <1>1 DEF vector_empty, Size
    <2>2. QED
      BY <2>1 DEF Items
  <1>2. CASE vector_destroy
    BY <1>2 DEF vector_destroy, Items
  <1>3. QED
    BY <1>1, <1>2

\* Nothing changes the items but the six operations above.
LEMMA ItemsKept ==
    ASSUME UNCHANGED <<ring, destroyed>>
    PROVE  Items' = Items
  BY DEF ring, Items, Size, get_real_index

-----------------------------------------------------------------------------
LEMMA HeldStep == IInv /\ [Next]_vars => HeldInv'
  <1> SUFFICES ASSUME IInv, [Next]_vars PROVE HeldInv'
    OBVIOUS
  <1>0. /\ HeldInv /\ Items \in Seq(Entries)
        /\ owner \in [Entries -> {"caller", "vector", "freed"}]
        /\ \A i \in 1..Len(Items) : Items[i] \in Entries /\ owner[Items[i]] = "vector"
    BY ElementOfSeq DEF IInv, HeldInv, HeldIsOwned, RingInv, TypeOK
  <1>1. ASSUME NEW e \in Entries, vector_push_back(e) PROVE HeldInv'
    <2>1. Items' = Append(Items, e)
      BY <1>1, ItemsPushBack
    <2>2. owner[e] = "caller" /\ owner' = [owner EXCEPT ![e] = "vector"]
      BY <1>1 DEF vector_push_back, Give
    <2>3. QED
      BY <1>0, <2>1, <2>2 DEF HeldInv, HeldIsOwned
  <1>2. ASSUME NEW e \in Entries, vector_unshift(e) PROVE HeldInv'
    <2>1. Items' = <<e>> \o Items
      BY <1>2, ItemsUnshift
    <2>2. owner[e] = "caller" /\ owner' = [owner EXCEPT ![e] = "vector"]
      BY <1>2 DEF vector_unshift, Give
    <2>3. /\ Items' \in Seq(Entries) /\ Len(Items') = Len(Items) + 1
          /\ Items'[1] = e
          /\ \A i \in 2..(Len(Items) + 1) : i - 1 \in 1..Len(Items) /\ Items'[i] = Items[i - 1]
      BY <1>0, <2>1
    <2>4. \A i \in 1..Len(Items) : Items[i] # e
      BY <1>0, <2>2
    <2>5. HeldIsOwned'
      BY <1>0, <2>2, <2>3, <2>4 DEF HeldIsOwned
    <2>6. \A i, j \in 1..(Len(Items) + 1) : Items'[i] = Items'[j] => i = j
      BY <1>0, <2>3, <2>4 DEF HeldInv
    <2>7. QED
      BY <2>3, <2>5, <2>6 DEF HeldInv
  <1>3. ASSUME vector_pop, ~isempty PROVE HeldInv'
    <2>1. /\ Items # <<>> /\ Items' = SubSeq(Items, 1, Len(Items) - 1)
          /\ Handed(Items[Len(Items)])
      BY <1>3, ItemsPop
    <2>2. QED
      BY <1>0, <2>1 DEF HeldInv, HeldIsOwned, Handed
  <1>4. ASSUME vector_shift, ~isempty PROVE HeldInv'
    <2>1. Items # <<>> /\ Items' = Tail(Items) /\ Handed(Items[1])
      BY <1>4, ItemsShift
    <2>2. QED
      BY <1>0, <2>1 DEF HeldInv, HeldIsOwned, Handed
  <1>5. ASSUME vector_empty \/ vector_destroy PROVE HeldInv'
    <2>1. Items' = <<>>
      BY <1>5, ItemsEmptied
    <2>2. QED
      BY <2>1 DEF HeldInv, HeldIsOwned
  <1>6. ASSUME NEW e \in Entries, Realloc(e) PROVE HeldInv'
    <2>1. Items' = Items
      BY <1>6, ItemsKept DEF Realloc
    <2>2. QED
      BY <1>0, <1>6, <2>1 DEF Realloc, HeldInv, HeldIsOwned
  <1>7. ASSUME UNCHANGED <<ring, destroyed, owner>> PROVE HeldInv'
    BY <1>0, <1>7, ItemsKept DEF HeldInv, HeldIsOwned
  <1>8. ASSUME (vector_pop \/ vector_shift) /\ isempty PROVE HeldInv'
    BY <1>7, <1>8 DEF vector_pop, vector_shift
  <1>9. ASSUME Quiet \/ UNCHANGED vars PROVE HeldInv'
    BY <1>7, <1>9 DEF Quiet, vector_size, vector_isempty, vector_insert, vector_remove,
                      vector_get, vars
  <1>10. QED
    BY <1>1, <1>2, <1>3, <1>4, <1>5, <1>6, <1>8, <1>9 DEF Next, Quiet

LEMMA InitIInv == Init => IInv
  <1> SUFFICES ASSUME Init PROVE IInv
    OBVIOUS
  <1>1. RingInv
    <2>1. elements \in [0..(capacity - 1) -> Entries \cup {Garbage}]
      BY SizeAssumption DEF Init, Fresh
    <2>2. /\ capacity \in Nat \ {0} /\ capacity >= VECTOR_INIT_SIZE
          /\ start \in 0..(capacity - 1) /\ end \in 0..(capacity - 1) /\ start = end
      BY SizeAssumption DEF Init
    <2>3. owner \in [Entries -> {"caller", "vector", "freed"}]
      BY DEF Init
    <2>4. isempty \in BOOLEAN /\ destroyed \in BOOLEAN
      BY DEF Init
    <2>5. QED
      BY <2>1, <2>2, <2>3, <2>4 DEF RingInv, TypeOK
  <1>2. Items = <<>>
    BY DEF Init, Items, Size
  <1>3. QED
    BY <1>1, <1>2 DEF IInv, HeldInv, HeldIsOwned

LEMMA Invariance == Spec => []IInv
  <1>1. IInv /\ [Next]_vars => IInv'
    BY RingStep, HeldStep DEF IInv
  <1>2. QED
    BY <1>1, InitIInv, PTL DEF Spec

\* Every index stays inside the array, whatever is pushed, taken, grown or
\* emptied.
THEOREM TypeCorrect == Spec => []TypeOK
  BY Invariance, PTL DEF IInv, RingInv

\* For any entries and sizes, what the vector holds is what it owns: no entry
\* is handed out or freed while it is still inside.
THEOREM OwnsWhatItHolds == Spec => []HeldIsOwned
  BY Invariance, PTL DEF IInv, HeldInv

-----------------------------------------------------------------------------
(* The double-ended queue *)

\* What vector_get returns is the item, where there is one.
LEMMA GetItem ==
    ASSUME IInv, NEW i \in 0..MaxIndex, vector_get(i)
    PROVE  Promise!DGet(i)
  <1>1. /\ Items \in Seq(Entries) /\ Len(Items) = Size /\ ~destroyed
        /\ Size \in 0..capacity /\ capacity \in Nat
        /\ \A j \in 1..Size : Items[j] = Entry(j - 1)
    BY ItemsFacts, SizeFacts DEF IInv, HeldInv, vector_get, RingInv, TypeOK
  <1>2. Items' = Items
    BY ItemsKept DEF vector_get
  <1>3. /\ call' = <<"get", i>>
        /\ ret' = IF isempty \/ i >= capacity THEN Null ELSE Entry(i)
    BY DEF vector_get, Returns, Entry
  <1>4. Items = <<>> => ret' = Null
    BY <1>1, <1>3, EmptyItems
  <1>5. ASSUME i < Len(Items) PROVE ret' = Items[i + 1]
    <2>1. i + 1 \in 1..Size /\ (i + 1) - 1 = i /\ i < capacity /\ Items # <<>>
      BY <1>1, <1>5
    <2>2. ~isempty
      BY <1>1, <2>1, EmptyItems
    <2>3. QED
      BY <1>1, <1>3, <2>1, <2>2
  <1>6. QED
    BY <1>2, <1>3, <1>4, <1>5 DEF Promise!DGet

\* Every step of the vector is a step of the queue or none.
LEMMA DequeStep == IInv /\ [Next]_vars => [Promise!DNext]_<<Items, call, ret>>
  <1> SUFFICES ASSUME IInv, [Next]_vars PROVE [Promise!DNext]_<<Items, call, ret>>
    OBVIOUS
  <1> USE DEF Returns, Promise!Ret
  <1>1. ASSUME NEW e \in Entries, vector_push_back(e) PROVE Promise!DPushBack(e)
    BY <1>1, ItemsPushBack DEF vector_push_back, Promise!DPushBack
  <1>2. ASSUME NEW e \in Entries, vector_unshift(e) PROVE Promise!DUnshift(e)
    BY <1>2, ItemsUnshift DEF vector_unshift, Promise!DUnshift
  <1>3. ASSUME vector_pop PROVE Promise!DPop
    <2>1. CASE isempty
      <3>1. Items = <<>> /\ Items' = Items /\ Returns("pop", Null, Null)
        BY <1>3, <2>1, EmptyItems, ItemsKept DEF vector_pop
      <3>2. QED
        BY <3>1 DEF Promise!DPop
    <2>2. CASE ~isempty
      BY <1>3, <2>2, ItemsPop DEF Promise!DPop
    <2>3. QED
      BY <2>1, <2>2
  <1>4. ASSUME vector_shift PROVE Promise!DShift
    <2>1. CASE isempty
      <3>1. Items = <<>> /\ Items' = Items /\ Returns("shift", Null, Null)
        BY <1>4, <2>1, EmptyItems, ItemsKept DEF vector_shift
      <3>2. QED
        BY <3>1 DEF Promise!DShift
    <2>2. CASE ~isempty
      BY <1>4, <2>2, ItemsShift DEF Promise!DShift
    <2>3. QED
      BY <2>1, <2>2
  <1>5. ASSUME vector_size PROVE Promise!DSize
    <2>1. Len(Items) = Size
      BY <1>5, ItemsFacts DEF vector_size, IInv, HeldInv
    <2>2. QED
      BY <1>5, <2>1, ItemsKept DEF vector_size, Promise!DSize
  <1>6. ASSUME vector_isempty PROVE Promise!DIsEmpty
    <2>1. isempty = (Items = <<>>)
      <3>1. isempty \in BOOLEAN
        BY DEF IInv, RingInv, TypeOK
      <3>2. isempty <=> Items = <<>>
        BY <1>6, EmptyItems DEF vector_isempty
      <3>3. QED
        BY <3>1, <3>2
    <2>2. Items' = Items
      BY <1>6, ItemsKept DEF vector_isempty
    <2>3. QED
      BY <1>6, <2>1, <2>2 DEF vector_isempty, Promise!DIsEmpty
  <1>7. ASSUME vector_insert PROVE Promise!DInsert
    BY <1>7, ItemsKept DEF vector_insert, Promise!DInsert
  <1>8. ASSUME vector_remove PROVE Promise!DRemove
    BY <1>8, ItemsKept DEF vector_remove, Promise!DRemove
  <1>9. ASSUME vector_empty PROVE Promise!DEmpty
    BY <1>9, ItemsEmptied DEF vector_empty, Promise!DEmpty
  <1>10. ASSUME vector_destroy PROVE Promise!DDestroy
    BY <1>10, ItemsEmptied DEF vector_destroy, Promise!DDestroy
  <1>11. ASSUME UNCHANGED vars \/ \E e \in Entries : Realloc(e)
         PROVE  UNCHANGED <<Items, call, ret>>
    BY <1>11, ItemsKept DEF vars, Realloc
  <1>12. QED
    BY <1>1, <1>2, <1>3, <1>4, <1>5, <1>6, <1>7, <1>8, <1>9, <1>10, <1>11, GetItem
       DEF Next, Promise!DNext

\* The circular array, its growth and its two flags implement the queue that
\* vector.h promises, for any entries, first size and growth factor.
THEOREM ImplementsDeque == Spec => IsADeque
  <1>1. Init => Promise!DInit
    BY DEF Init, Promise!DInit, Items, Size
  <1>2. QED
    BY <1>1, DequeStep, Invariance, PTL DEF Spec, IsADeque, Promise!DSpec

-----------------------------------------------------------------------------
(* What the vector forgets *)

\* The loop of vector_empty and vector_destroy visits every position unless
\* the vector is full.
LEMMA LoopVisits ==
    ASSUME RingInv, ~vector_isfull, NEW k \in 0..(Size - 1)
    PROVE  get_real_index(k) \in LoopSlots
  BY DEF RingInv, TypeOK, vector_isfull, Size, get_real_index, LoopSlots

LEMMA LeakStep ==
    IInv /\ [Next]_vars =>
      [\A e \in Held : owner'[e] = "vector" /\ e \notin Held' => vector_isfull]_vars
  <1> SUFFICES ASSUME IInv, [Next]_vars,
                      NEW i \in 1..Len(Items), owner'[Items[i]] = "vector",
                      Items[i] \notin Held', ~vector_isfull
               PROVE  FALSE
    BY DEF Held
  <1>0. /\ Items \in Seq(Entries) /\ Items[i] \in Entries
        /\ owner \in [Entries -> {"caller", "vector", "freed"}]
    BY ElementOfSeq DEF IInv, HeldInv, RingInv, TypeOK
  <1>1. ASSUME NEW j \in 1..Len(Items'), Items'[j] = Items[i] PROVE FALSE
    BY <1>1 DEF Held
  <1>2. ASSUME NEW e \in Entries, vector_push_back(e) PROVE FALSE
    <2>1. Items' = Append(Items, e)
      BY <1>2, ItemsPushBack
    <2>2. i \in 1..Len(Items') /\ Items'[i] = Items[i]
      BY <1>0, <2>1
    <2>3. QED
      BY <1>1, <2>2
  <1>3. ASSUME NEW e \in Entries, vector_unshift(e) PROVE FALSE
    <2>1. Items' = <<e>> \o Items
      BY <1>3, ItemsUnshift
    <2>2. i + 1 \in 1..Len(Items') /\ Items'[i + 1] = Items[i]
      BY <1>0, <2>1
    <2>3. QED
      BY <1>1, <2>2
  <1>4. ASSUME vector_pop, ~isempty PROVE FALSE
    <2>1. /\ Items' = SubSeq(Items, 1, Len(Items) - 1)
          /\ Handed(Items[Len(Items)])
      BY <1>4, ItemsPop
    <2>2. i # Len(Items)
      BY <1>0, <2>1 DEF Handed
    <2>3. i \in 1..Len(Items') /\ Items'[i] = Items[i]
      BY <1>0, <2>1, <2>2
    <2>4. QED
      BY <1>1, <2>3
  <1>5. ASSUME vector_shift, ~isempty PROVE FALSE
    <2>1. Items # <<>> /\ Items' = Tail(Items) /\ Handed(Items[1])
      BY <1>5, ItemsShift
    <2>2. i # 1
      BY <1>0, <2>1 DEF Handed
    <2>3. i - 1 \in 1..Len(Items') /\ Items'[i - 1] = Items[i]
      BY <1>0, <2>1, <2>2
    <2>4. QED
      BY <1>1, <2>3
  <1>6. ASSUME vector_empty \/ vector_destroy PROVE FALSE
    <2>1. ~destroyed
      BY <1>6 DEF vector_empty, vector_destroy
    <2>2. ~isempty
      BY <1>0, <2>1, EmptyItems
    <2>3. FreeLoop
      BY <1>6, <2>2 DEF vector_empty, vector_destroy
    <2>4. i - 1 \in 0..(Size - 1) /\ Items[i] = elements[get_real_index(i - 1)]
      BY <1>0, <2>1, ItemsFacts, SizeFacts DEF IInv, HeldInv, Entry, RingInv, TypeOK
    <2>5. get_real_index(i - 1) \in LoopSlots
      BY <2>4, LoopVisits DEF IInv
    <2>6. QED
      BY <1>0, <2>3, <2>4, <2>5 DEF FreeLoop
  <1>7. ASSUME UNCHANGED <<ring, destroyed>> PROVE FALSE
    BY <1>1, <1>7, ItemsKept
  <1>8. ASSUME (vector_pop \/ vector_shift) /\ isempty PROVE FALSE
    BY <1>7, <1>8 DEF vector_pop, vector_shift
  <1>9. ASSUME Quiet \/ UNCHANGED vars \/ \E e \in Entries : Realloc(e) PROVE FALSE
    BY <1>7, <1>9 DEF Quiet, vector_size, vector_isempty, vector_insert, vector_remove,
                      vector_get, vars, Realloc
  <1>10. QED
    BY <1>2, <1>3, <1>4, <1>5, <1>6, <1>8, <1>9 DEF Next, Quiet

\* For any entries and sizes, an entry the vector owns leaves it unfreed only
\* when vector_empty or vector_destroy finds the vector exactly full.
THEOREM ForgetsOnlyWhenFull == Spec => LeaksOnlyWhenFull
  BY LeakStep, Invariance, PTL DEF Spec, LeaksOnlyWhenFull
=============================================================================
