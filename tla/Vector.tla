------------------------------- MODULE Vector -------------------------------
(***************************************************************************)
(* The circular vector of mylib/vector.c.  Every operation runs from its   *)
(* first to its last statement under the vector's rwlock, so one action is *)
(* one operation.  start = end means empty or full; isempty says which.    *)
(*                                                                         *)
(* Entries are pointers the callers allocated.  owner says who has to free *)
(* one: the caller, the vector, or nobody any more.                        *)
(***************************************************************************)
EXTENDS Naturals, Sequences

CONSTANTS
    Entries,
    Null,
    Garbage,            \* what a slot nobody wrote holds
    VECTOR_INIT_SIZE,
    VECTOR_GROW_FACTOR,
    MaxIndex            \* bound: the largest index vector_get is asked for

ASSUME EntriesAssumption == Null \notin Entries /\ Garbage \notin Entries
ASSUME SizeAssumption ==
    /\ VECTOR_INIT_SIZE \in Nat \ {0}
    /\ VECTOR_GROW_FACTOR \in Nat \ {0, 1}
    /\ MaxIndex \in Nat

VARIABLES
    elements,   \* [0..capacity-1 -> Entries \cup {Garbage}]
    start, end, capacity, isempty,
    destroyed,
    call,       \* the last call and its argument
    ret,        \* what it returned
    owner       \* [Entries -> "caller" | "vector" | "freed"]

ring == <<elements, start, end, capacity, isempty>>
vars == <<ring, destroyed, call, ret, owner>>

Fresh(n) == [i \in 0..(n - 1) |-> Garbage]

\* vector_alloc
Init ==
    /\ elements = Fresh(VECTOR_INIT_SIZE)
    /\ start = 0 /\ end = 0
    /\ capacity = VECTOR_INIT_SIZE
    /\ isempty = TRUE
    /\ destroyed = FALSE
    /\ call = <<"alloc", Null>> /\ ret = Null
    /\ owner = [e \in Entries |-> "caller"]

\* The call op(x) returns r.
Returns(op, x, r) == call' = <<op, x>> /\ ret' = r

\* Mutant: off by one at the end of the array.
get_next_index_late(cap, i) == IF i < cap THEN i + 1 ELSE 0

get_next_index(cap, i) == IF i < cap - 1 THEN i + 1 ELSE 0
get_prev_index(cap, i) == IF i = 0 THEN cap - 1 ELSE i - 1
get_real_index(i) == IF start + i < capacity THEN start + i ELSE start + i - capacity

vector_isfull == ~isempty /\ end = start

\* Mutant: the second memcpy of vector_grow is missing.
GrownHalf ==
    LET first_size == capacity - start
        new_capacity == capacity * VECTOR_GROW_FACTOR
    IN [elements |-> [i \in 0..(new_capacity - 1) |->
                        IF i < first_size THEN elements[start + i] ELSE Garbage],
        start |-> 0, end |-> capacity, capacity |-> new_capacity]

\* vector_grow: [start, capacity) and then [0, start) are copied to the front
\* of a larger array.
Grown ==
    LET first_size == capacity - start
        new_capacity == capacity * VECTOR_GROW_FACTOR
    IN [elements |-> [i \in 0..(new_capacity - 1) |->
                        IF i < first_size THEN elements[start + i]
                        ELSE IF i < capacity THEN elements[i - first_size]
                        ELSE Garbage],
        start |-> 0, end |-> capacity, capacity |-> new_capacity]

Current == [elements |-> elements, start |-> start, end |-> end, capacity |-> capacity]

\* The ring the two pushes work on.
Room == IF vector_isfull THEN Grown ELSE Current

\* A caller hands over an entry it owns.
Give(e) ==
    /\ ~destroyed
    /\ owner[e] = "caller"
    /\ owner' = [owner EXCEPT ![e] = "vector"]

vector_push_back(e) ==
    /\ Give(e)
    /\ elements' = [Room.elements EXCEPT ![Room.end] = e]
    /\ end' = get_next_index(Room.capacity, Room.end)
    /\ start' = Room.start
    /\ capacity' = Room.capacity
    /\ isempty' = FALSE
    /\ Returns("push_back", e, "RET_SUCCEED")
    /\ UNCHANGED destroyed

vector_unshift(e) ==
    /\ Give(e)
    /\ LET i == get_prev_index(Room.capacity, Room.start)
       IN elements' = [Room.elements EXCEPT ![i] = e] /\ start' = i
    /\ end' = Room.end
    /\ capacity' = Room.capacity
    /\ isempty' = FALSE
    /\ Returns("unshift", e, "RET_SUCCEED")
    /\ UNCHANGED destroyed

\* The entry a slot holds is returned to the caller, who owns it from now on.
Take(op, i) ==
    /\ Returns(op, Null, elements[i])
    /\ owner' = [e \in Entries |-> IF e = elements[i] THEN "caller" ELSE owner[e]]

vector_pop ==
    /\ ~destroyed
    /\ IF isempty
       THEN Returns("pop", Null, Null) /\ UNCHANGED <<ring, owner>>
       ELSE LET i == get_prev_index(capacity, end)
            IN /\ Take("pop", i)
               /\ end' = i
               /\ isempty' = (i = start)
               /\ UNCHANGED <<elements, start, capacity>>
    /\ UNCHANGED destroyed

vector_shift ==
    /\ ~destroyed
    /\ IF isempty
       THEN Returns("shift", Null, Null) /\ UNCHANGED <<ring, owner>>
       ELSE /\ Take("shift", start)
            /\ start' = get_next_index(capacity, start)
            /\ isempty' = (end = start')
            /\ UNCHANGED <<elements, end, capacity>>
    /\ UNCHANGED destroyed

vector_get(index) ==
    /\ ~destroyed
    /\ Returns("get", index, IF isempty \/ index >= capacity THEN Null
                             ELSE elements[get_real_index(index)])
    /\ UNCHANGED <<ring, destroyed, owner>>

Size ==
    IF isempty THEN 0
    ELSE IF start < end THEN end - start
    ELSE capacity - start + end

vector_size ==
    /\ ~destroyed
    /\ Returns("size", Null, Size)
    /\ UNCHANGED <<ring, destroyed, owner>>

vector_isempty ==
    /\ ~destroyed
    /\ Returns("isempty", Null, isempty)
    /\ UNCHANGED <<ring, destroyed, owner>>

\* Not implemented: an error is logged and a failure returned.
vector_insert ==
    /\ ~destroyed
    /\ Returns("insert", Null, "RET_FAILED")
    /\ UNCHANGED <<ring, destroyed, owner>>

vector_remove ==
    /\ ~destroyed
    /\ Returns("remove", Null, Null)
    /\ UNCHANGED <<ring, destroyed, owner>>

\* Mutant: for (i = start; i < end; i++)
LoopSlotsUnwrapped == {i \in DOMAIN elements : start <= i /\ i < end}

\* The slots of  for (i = start; i != end; i = get_next_index(i)).
LoopSlots ==
    IF start <= end THEN {i \in DOMAIN elements : start <= i /\ i < end}
    ELSE {i \in DOMAIN elements : start <= i \/ i < end}

\* entry_free_func is called on the entry of every slot of the loop.
FreeLoop ==
    owner' = [e \in Entries |->
                IF \E i \in LoopSlots : elements[i] = e THEN "freed" ELSE owner[e]]

\* Mutant: start and end are left where they were.
vector_empty_keeps_range ==
    /\ ~destroyed
    /\ IF isempty THEN UNCHANGED owner ELSE FreeLoop
    /\ UNCHANGED ring
    /\ Returns("empty", Null, "RET_SUCCEED")
    /\ UNCHANGED destroyed

\* The block is shrunk in place, so the first slots keep what they held.
vector_empty ==
    /\ ~destroyed
    /\ IF isempty THEN UNCHANGED owner ELSE FreeLoop
    /\ elements' = [i \in 0..(VECTOR_INIT_SIZE - 1) |-> elements[i]]
    /\ start' = 0 /\ end' = 0
    /\ isempty' = TRUE
    /\ capacity' = VECTOR_INIT_SIZE
    /\ Returns("empty", Null, "RET_SUCCEED")
    /\ UNCHANGED destroyed

vector_destroy ==
    /\ ~destroyed
    /\ FreeLoop
    /\ destroyed' = TRUE
    /\ Returns("destroy", Null, Null)
    /\ UNCHANGED ring

\* A freed block can be allocated again.
Realloc(e) ==
    /\ owner[e] = "freed"
    /\ owner' = [owner EXCEPT ![e] = "caller"]
    /\ UNCHANGED <<ring, destroyed, call, ret>>

Next ==
    \/ \E e \in Entries : vector_push_back(e) \/ vector_unshift(e) \/ Realloc(e)
    \/ vector_pop \/ vector_shift
    \/ vector_size \/ vector_isempty
    \/ vector_insert \/ vector_remove
    \/ vector_empty \/ vector_destroy
    \/ \E i \in 0..MaxIndex : vector_get(i)
    \/ destroyed /\ UNCHANGED vars

Spec == Init /\ [][Next]_vars

-----------------------------------------------------------------------------
\* Every variable holds a value of its type and every index is in its array.
TypeOK ==
    /\ capacity \in Nat \ {0}
    /\ start \in 0..(capacity - 1) /\ end \in 0..(capacity - 1)
    /\ isempty \in BOOLEAN
    /\ elements \in [0..(capacity - 1) -> Entries \cup {Garbage}]
    /\ destroyed \in BOOLEAN
    /\ owner \in [Entries -> {"caller", "vector", "freed"}]

\* The entries from start, Size of them, around the end of the array.
Items == IF destroyed THEN <<>>
         ELSE [i \in 1..Size |-> elements[get_real_index(i - 1)]]

Promise == INSTANCE Deque WITH items <- Items, out <- ret

\* Wrap-around, growth and the empty/full distinction are invisible: the
\* vector is a double-ended queue and returns what one would return.
IsADeque == Promise!DSpec

\* A pointer the vector can still hand out or free is one it owns: nothing is
\* freed twice and nothing returned to a caller stays inside.
HeldIsOwned == \A i \in 1..Len(Items) : owner[Items[i]] = "vector"

Held == {Items[i] : i \in 1..Len(Items)}

\* An entry the vector owns and holds is not forgotten: vector_empty and
\* vector_destroy free every one of them, wrapped around or not, unless the
\* vector is exactly full, when their loop does not run.
LeaksOnlyWhenFull ==
    [][\A e \in Held : owner'[e] = "vector" /\ e \notin Held' => vector_isfull]_vars
=============================================================================
