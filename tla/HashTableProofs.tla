-------------------------- MODULE HashTableProofs --------------------------
(***************************************************************************)
(* HashTable for any number of threads, keys and entries, any hash_func    *)
(* and any sizes: lock discipline, findability, counts, linearizability.   *)
(***************************************************************************)
EXTENDS HashTable, FiniteSetTheorems, SequenceTheorems, TLAPS

\* The places of a thread inside the critical section.
Inside == {"find", "found", "stored", "rehash", "refind", "scan", "unlock"}

\* The lock is held by the threads inside, exclusively by the ones that write.
LockInv ==
    /\ writer # NoThread => readers = {}
    /\ \A t \in Threads :
          /\ writer = t <=> pc[t] \in Inside /\ op[t].kind \in {"add", "remove"}
          /\ t \in readers <=> pc[t] \in Inside /\ op[t].kind \in {"get", "entries"}

\* Where a call of each kind can be, and its locals before it has the lock.
PlaceInv ==
    \A t \in Threads :
        /\ pc[t] = "idle" => op[t] = NoOp
        /\ pc[t] # "idle" => op[t] \in Ops
        /\ pc[t] \in {"idle", "lock", "find", "found", "scan"} => ret[t] = NoRet
        /\ pc[t] \in {"find", "found"} => op[t].kind # "entries"
        /\ pc[t] \in {"stored", "rehash", "refind"} => op[t].kind = "add"
        /\ pc[t] = "scan" => op[t].kind = "entries"
        /\ pc[t] \in {"idle", "lock"} => si[t] = 0 /\ array[t] = <<>>

\* There are two arrays exactly while a thread rehashes.
SizeInv ==
    /\ destroyed => \A t \in Threads : pc[t] = "idle"
    /\ ~destroyed => hash_size > 0
    /\ \A t \in Threads : pc[t] \in {"rehash", "refind"} => old_size > 0
    /\ old_size > 0 => \E t \in Threads : pc[t] \in {"rehash", "refind"}

\* A search has passed the levels before its own.
SearchInv ==
    \A t \in Threads :
        /\ pc[t] = "find" => Passed(OpKey(op[t]), level[t])
        /\ pc[t] = "found" =>
              /\ Passed(OpKey(op[t]), level[t]) /\ SearchEnds(OpKey(op[t]), level[t])
              /\ index[t] = Slot(OpKey(op[t]), level[t])
              /\ status[t] = elements[index[t]]
        /\ pc[t] = "refind" =>
              /\ ri < old_size /\ Occupied(old_elements[ri])
              /\ Passed(KeyOf[old_elements[ri]], level[t])

\* The new array holds what rehash has passed of the old one, whose keys are
\* distinct.
RehashInv ==
    old_size > 0 =>
        /\ \A i, j \in 0..(old_size - 1) :
              Occupied(old_elements[i]) /\ Occupied(old_elements[j])
              /\ KeyOf[old_elements[i]] = KeyOf[old_elements[j]] => i = j
        /\ \A i \in 0..(hash_size - 1) : Occupied(elements[i]) =>
              \E j \in 0..(ri - 1) : old_elements[j] = elements[i]
        /\ \A j \in 0..(ri - 1) : Occupied(old_elements[j]) =>
              \E i \in 0..(hash_size - 1) : elements[i] = old_elements[j]

\* The occupied ones of the first n elements of an array.
Occ(a, n) == {j \in 0..(n - 1) : Occupied(a[j])}

\* hash_entry_count counts the occupied elements.
CountInv ==
    /\ old_size = 0 => hash_entry_count = Cardinality(Occ(elements, hash_size))
    /\ old_size > 0 =>
          /\ hash_entry_count = Cardinality(Occ(old_elements, old_size))
          /\ Cardinality(Occ(elements, hash_size)) = Cardinality(Occ(old_elements, ri))

\* A scan has copied the occupied elements before its index.
ScanInv ==
    \A t \in Threads :
        pc[t] = "scan" =>
            /\ si[t] <= hash_size
            /\ Len(array[t]) = Cardinality(Occ(elements, si[t]))
            /\ {array[t][j] : j \in 1..Len(array[t])} = {elements[j] : j \in Occ(elements, si[t])}

IInv ==
    /\ TypeOK /\ LockInv /\ PlaceInv /\ SizeInv
    /\ SearchInv /\ Findable /\ RehashInv /\ CountInv /\ ScanInv

-----------------------------------------------------------------------------
(* Operators *)

LEMMA SlotType ==
    ASSUME NEW a \in Nat, NEW b \in Nat \ {0}
    PROVE  a % b \in 0..(b - 1)
  OBVIOUS

LEMMA NextLevelType ==
    ASSUME NEW l \in 0..MaxLevel
    PROVE  /\ NextLevel(l) \in 0..MaxLevel
           /\ NextLevel(l) = IF l = MaxLevel THEN 0 ELSE l + 1
  BY HashAssumption DEF NextLevel

LEMMA OpFields ==
    ASSUME NEW o \in Ops
    PROVE  /\ o.kind \in {"add", "get", "remove", "entries"}
           /\ o.kind = "add" => o.entry \in Entries
           /\ o.kind \in {"get", "remove"} => o.key \in Keys
           /\ o.kind # "entries" => OpKey(o) \in Keys
           /\ o # NoOp
  BY EntryAssumption DEF Ops, OpKey, NoOp

-----------------------------------------------------------------------------
(* What a step leaves alone *)

\* What one thread does.
Acts(t) == Call(t) \/ WrLock(t) \/ RdLock(t) \/ Step(t)

\* It leaves the locals of the others alone.
LEMMA OthersStay ==
    ASSUME TypeOK, NEW t \in Threads, Acts(t), NEW u \in Threads, u # t
    PROVE  /\ pc'[u] = pc[u] /\ op'[u] = op[u] /\ ret'[u] = ret[u]
           /\ level'[u] = level[u] /\ index'[u] = index[u] /\ status'[u] = status[u]
           /\ si'[u] = si[u] /\ array'[u] = array[u]
  <1> USE DEF TypeOK, Goto, SetRet, find, scan
  <1>1. CASE Call(t) \/ WrLock(t) \/ RdLock(t)
    BY <1>1 DEF Call, WrLock, RdLock
  <1>2. CASE Find(t)
    BY <1>2 DEF Find
  <1>3. CASE AddDuplicate(t) \/ AddStore(t) \/ NoRehash(t) \/ RehashStart(t)
    BY <1>3 DEF AddDuplicate, AddStore, NoRehash, RehashStart
  <1>4. CASE RehashNext(t)
    BY <1>4 DEF RehashNext
  <1>5. CASE RehashFind(t)
    BY <1>5 DEF RehashFind
  <1>6. CASE GetResult(t) \/ RemoveResult(t)
    BY <1>6 DEF GetResult, RemoveResult
  <1>7. CASE Scan(t)
    BY <1>7 DEF Scan
  <1>8. CASE RwUnlock(t) \/ Return(t)
    BY <1>8 DEF RwUnlock, Return
  <1>9. QED
    BY <1>1, <1>2, <1>3, <1>4, <1>5, <1>6, <1>7, <1>8 DEF Acts, Step

\* The elements change with the write lock only, or at the end.
LEMMA WhoWrites ==
    ASSUME TypeOK, NEW t \in Threads, Acts(t)
    PROVE  \/ AddStore(t) \/ RehashStart(t) \/ RehashFind(t) \/ RemoveResult(t)
           \/ UNCHANGED table
  BY DEF Acts, Step, Call, WrLock, RdLock, Find, AddDuplicate, NoRehash, RehashNext,
         GetResult, Scan, RwUnlock, Return

\* Who holds the write lock is alone inside.
LEMMA Exclusive ==
    ASSUME TypeOK, LockInv, PlaceInv, NEW t \in Threads, writer = t,
           NEW u \in Threads, u # t
    PROVE  pc[u] \notin Inside
  <1>1. pc[u] \in Inside => op[u].kind \in {"add", "get", "remove", "entries"}
    BY OpFields DEF PlaceInv, Inside
  <1>2. QED
    BY <1>1, ThreadAssumption DEF LockInv

LEMMA NextCases ==
    ASSUME [Next]_vars
    PROVE  (\E t \in Threads : Acts(t)) \/ Destroy \/ UNCHANGED vars
  BY DEF Next, Acts, Gone

-----------------------------------------------------------------------------
(* Types *)

LEMMA SlotIn ==
    ASSUME TypeOK, SizeInv, ~destroyed, NEW k \in Keys, NEW l \in 0..MaxLevel
    PROVE  /\ Slot(k, l) \in 0..(hash_size - 1) /\ Slot(k, l) \in Nat
           /\ elements[Slot(k, l)] \in Entries \cup {Empty, Removed}
  <1>1. HashFunc[k][l] \in Nat /\ hash_size \in Nat \ {0}
    <2>1. HashFunc[k][l] \in Nat
      BY HashAssumption
    <2>2. hash_size \in Nat
      BY DEF TypeOK
    <2>3. hash_size > 0
      BY DEF SizeInv
    <2>4. QED
      BY <2>1, <2>2, <2>3
  <1>2. Slot(k, l) \in 0..(hash_size - 1)
    BY <1>1, SlotType DEF Slot
  <1>3. QED
    BY <1>1, <1>2 DEF TypeOK

\* A thread in a call finds the table there, and its key and level are some.
LEMMA CallFacts ==
    ASSUME TypeOK, PlaceInv, SizeInv, NEW t \in Threads, pc[t] # "idle"
    PROVE  /\ ~destroyed /\ hash_size \in Nat \ {0} /\ op[t] \in Ops
           /\ level[t] \in 0..MaxLevel
           /\ op[t].kind \in {"add", "get", "remove", "entries"}
           /\ op[t].kind # "entries" => OpKey(op[t]) \in Keys
           /\ op[t].kind = "add" => op[t].entry \in Entries /\ OpKey(op[t]) = KeyOf[op[t].entry]
           /\ op[t].kind \in {"get", "remove"} => op[t].key \in Keys /\ OpKey(op[t]) = op[t].key
  <1>1. ~destroyed /\ hash_size \in Nat \ {0} /\ op[t] \in Ops /\ level[t] \in 0..MaxLevel
    BY DEF TypeOK, PlaceInv, SizeInv
  <1>2. QED
    BY <1>1, OpFields DEF OpKey

\* Where a search has ended.
LEMMA FoundFacts ==
    ASSUME TypeOK, PlaceInv, SizeInv, SearchInv, NEW t \in Threads, pc[t] = "found"
    PROVE  /\ index[t] \in 0..(hash_size - 1) /\ index[t] = Slot(OpKey(op[t]), level[t])
           /\ status[t] = elements[index[t]]
           /\ \/ status[t] = Empty
              \/ Occupied(status[t]) /\ KeyOf[status[t]] = OpKey(op[t])
  <1>1. op[t].kind # "entries"
    BY DEF PlaceInv
  <1>2. Slot(OpKey(op[t]), level[t]) \in 0..(hash_size - 1)
    BY <1>1, CallFacts, SlotIn
  <1>3. QED
    BY <1>2 DEF SearchInv, SearchEnds

\* While an array is searched there is a key to search for.
LEMMA RefindFacts ==
    ASSUME TypeOK, PlaceInv, SizeInv, SearchInv, NEW t \in Threads, pc[t] = "refind"
    PROVE  /\ ri \in 0..(old_size - 1) /\ old_elements[ri] \in Entries
           /\ KeyOf[old_elements[ri]] \in Keys
           /\ Slot(KeyOf[old_elements[ri]], level[t]) \in 0..(hash_size - 1)
  <1>1. /\ ri \in 0..(old_size - 1) /\ old_elements[ri] \in Entries
    BY DEF TypeOK, SearchInv, Occupied
  <1>2. KeyOf[old_elements[ri]] \in Keys
    BY <1>1, EntryAssumption
  <1>3. QED
    BY <1>1, <1>2, CallFacts, SlotIn

\* The counts of a set of elements.
LEMMA OccFinite ==
    ASSUME NEW a, NEW n \in Nat
    PROVE  IsFiniteSet(Occ(a, n)) /\ Cardinality(Occ(a, n)) \in Nat
  <1>1. IsFiniteSet(0..(n - 1))
    BY FS_Interval
  <1>2. Occ(a, n) \subseteq 0..(n - 1)
    BY DEF Occ
  <1>3. IsFiniteSet(Occ(a, n))
    BY <1>1, <1>2, FS_Subset
  <1>4. QED
    BY <1>3, FS_CardinalityType

LEMMA OccEmpty ==
    ASSUME NEW n \in Nat
    PROVE  Cardinality(Occ(NoElements(n), n)) = 0
  <1>1. Occ(NoElements(n), n) = {}
    BY EntryAssumption DEF Occ, NoElements, Occupied
  <1>2. QED
    BY <1>1, FS_EmptySet

LEMMA OccNone ==
    ASSUME NEW a
    PROVE  Occ(a, 0) = {} /\ Cardinality(Occ(a, 0)) = 0
  <1>1. Occ(a, 0) = {}
    BY DEF Occ
  <1>2. QED
    BY <1>1, FS_EmptySet

\* One element more.
LEMMA OccNext ==
    ASSUME NEW a, NEW n \in Nat
    PROVE  /\ Occupied(a[n]) => /\ Occ(a, n + 1) = Occ(a, n) \cup {n}
                                /\ Cardinality(Occ(a, n + 1)) = Cardinality(Occ(a, n)) + 1
           /\ ~Occupied(a[n]) => Occ(a, n + 1) = Occ(a, n)
  <1>1. ASSUME Occupied(a[n]) PROVE Occ(a, n + 1) = Occ(a, n) \cup {n} /\ n \notin Occ(a, n)
    BY <1>1 DEF Occ
  <1>2. ~Occupied(a[n]) => Occ(a, n + 1) = Occ(a, n)
    BY DEF Occ
  <1>3. ASSUME Occupied(a[n]) PROVE Cardinality(Occ(a, n) \cup {n}) = Cardinality(Occ(a, n)) + 1
    BY <1>1, <1>3, OccFinite, FS_AddElement
  <1>4. QED
    BY <1>1, <1>2, <1>3

\* An entry is stored in an element, or a tombstone.
LEMMA OccStore ==
    ASSUME NEW n \in Nat, NEW a \in [0..(n - 1) -> Entries \cup {Empty, Removed}],
           NEW s \in 0..(n - 1), NEW e \in Entries, ~Occupied(a[s])
    PROVE  Cardinality(Occ([a EXCEPT ![s] = e], n)) = Cardinality(Occ(a, n)) + 1
  <1>1. Occ([a EXCEPT ![s] = e], n) = Occ(a, n) \cup {s} /\ s \notin Occ(a, n)
    BY DEF Occ, Occupied
  <1>2. QED
    BY <1>1, OccFinite, FS_AddElement

LEMMA OccRemove ==
    ASSUME NEW n \in Nat, NEW a \in [0..(n - 1) -> Entries \cup {Empty, Removed}],
           NEW s \in 0..(n - 1), Occupied(a[s])
    PROVE  /\ Cardinality(Occ([a EXCEPT ![s] = Removed], n)) = Cardinality(Occ(a, n)) - 1
           /\ Cardinality(Occ(a, n)) - 1 \in Nat
  <1>1. Occ([a EXCEPT ![s] = Removed], n) = Occ(a, n) \ {s} /\ s \in Occ(a, n)
    BY EntryAssumption DEF Occ, Occupied
  <1>2. Cardinality(Occ(a, n) \ {s}) = Cardinality(Occ(a, n)) - 1
    BY <1>1, OccFinite, FS_RemoveElement
  <1>3. Cardinality(Occ([a EXCEPT ![s] = Removed], n)) \in Nat
    BY OccFinite
  <1>4. QED
    BY <1>1, <1>2, <1>3

\* A part of the array holds no more.
LEMMA OccPart ==
    ASSUME NEW a, NEW n \in Nat, NEW m \in 0..n
    PROVE  Cardinality(Occ(a, m)) <= Cardinality(Occ(a, n))
  <1>1. Occ(a, m) \subseteq Occ(a, n)
    BY DEF Occ
  <1>2. QED
    BY <1>1, OccFinite, FS_Subset

-----------------------------------------------------------------------------

LEMMA TypeThread ==
    ASSUME IInv, NEW t \in Threads, Acts(t)
    PROVE  TypeOK'
  <1>0. TypeOK /\ PlaceInv /\ SizeInv /\ SearchInv /\ CountInv
    BY DEF IInv
  <1> USE <1>0 DEF TypeOK, Goto, SetRet, table, rehashing, lock, find, scan
  <1>1. CASE Call(t)
    BY <1>1, BoundAssumption DEF Call
  <1>2. CASE WrLock(t) \/ RdLock(t)
    <2>1. level' \in [Threads -> 0..MaxLevel]
      BY <1>2, HashAssumption DEF WrLock, RdLock
    <2>2. pc' = [pc EXCEPT ![t] = "find"] \/ pc' = [pc EXCEPT ![t] = "scan"]
      BY <1>2 DEF WrLock, RdLock
    <2>3. readers' \subseteq Threads /\ writer' \in Threads \cup {NoThread}
      BY <1>2 DEF WrLock, RdLock
    <2>4. UNCHANGED <<table, rehashing, index, status, scan, op, ret, ncalls>>
      BY <1>2 DEF WrLock, RdLock
    <2>5. QED
      BY <2>1, <2>2, <2>3, <2>4
  <1>3. CASE Find(t)
    <2>1. /\ OpKey(op[t]) \in Keys /\ Slot(OpKey(op[t]), level[t]) \in Nat
          /\ NextLevel(level[t]) \in 0..MaxLevel
      BY <1>3, CallFacts, SlotIn, NextLevelType DEF Find, PlaceInv
    <2>2. CASE SearchEnds(OpKey(op[t]), level[t])
      <3>1. elements[Slot(OpKey(op[t]), level[t])] \in Entries \cup {Empty}
        BY <2>2 DEF SearchEnds, Occupied
      <3>2. QED
        BY <1>3, <2>1, <2>2, <3>1 DEF Find
    <2>3. CASE ~SearchEnds(OpKey(op[t]), level[t])
      BY <1>3, <2>1, <2>3 DEF Find
    <2>4. QED
      BY <2>2, <2>3
  <1>4. CASE AddDuplicate(t) \/ NoRehash(t)
    <2>1. [kind |-> "ret", ok |-> FALSE] \in Rets
      BY DEF Rets
    <2>2. CASE AddDuplicate(t)
      BY <2>1, <2>2 DEF AddDuplicate
    <2>3. CASE NoRehash(t)
      BY <2>3 DEF NoRehash
    <2>4. QED
      BY <1>4, <2>2, <2>3
  <1>5. CASE AddStore(t)
    <2>1. index[t] \in 0..(hash_size - 1) /\ op[t].entry \in Entries
      BY <1>5, FoundFacts, CallFacts DEF AddStore
    <2>2. elements' \in [0..(hash_size - 1) -> Entries \cup {Empty, Removed}]
      BY <1>5, <2>1 DEF AddStore
    <2>3. ret' \in [Threads -> Rets] /\ hash_entry_count' \in Nat
      BY <1>5 DEF AddStore, Rets
    <2>4. QED
      BY <1>5, <2>2, <2>3 DEF AddStore
  <1>6. CASE RehashStart(t)
    <2>1. PICK p \in Nat : hash_size' = p /\ elements' = NoElements(p)
      BY <1>6, SizeAssumption DEF RehashStart
    <2>2. elements' \in [0..(hash_size' - 1) -> Entries \cup {Empty, Removed}]
      BY <2>1 DEF NoElements
    <2>3. QED
      <3>1. /\ old_elements' \in [0..(old_size' - 1) -> Entries \cup {Empty, Removed}]
            /\ old_size' \in Nat /\ ri' = 0 /\ hash_entry_removed_count' = 0
            /\ pc' = [pc EXCEPT ![t] = "rehash"]
            /\ UNCHANGED <<hash_entry_count, destroyed, lock, find, scan, op, ret, ncalls>>
        BY <1>6 DEF RehashStart
      <3>2. ri' \in 0..old_size'
        BY <3>1
      <3>3. QED
        BY <2>1, <2>2, <3>1, <3>2
  <1>7. CASE RehashNext(t)
    <2>1. NoElements(0) \in [0..(0 - 1) -> Entries \cup {Empty, Removed}]
      BY DEF NoElements
    <2>2. CASE ri = old_size
      <3>1. /\ old_elements' = NoElements(0) /\ old_size' = 0 /\ ri' = 0
            /\ pc' = [pc EXCEPT ![t] = "unlock"]
            /\ UNCHANGED <<table, lock, find, scan, op, ret, ncalls>>
        BY <1>7, <2>2 DEF RehashNext
      <3>2. ri' \in 0..old_size' /\ old_size' \in Nat
        BY <3>1
      <3>3. QED
        BY <2>1, <3>1, <3>2
    <2>3. CASE ri # old_size
      <3>1. UNCHANGED <<table, lock, index, status, scan, op, ret, ncalls, old_elements, old_size>>
        BY <1>7, <2>3 DEF RehashNext
      <3>2. ri' \in 0..old_size
        BY <1>7, <2>3 DEF RehashNext
      <3>3. level' \in [Threads -> 0..MaxLevel]
        <4>1. level' = level \/ level' = [level EXCEPT ![t] = 0]
          BY <1>7, <2>3 DEF RehashNext
        <4>2. 0 \in 0..MaxLevel
          BY HashAssumption
        <4>3. QED
          BY <4>1, <4>2
      <3>4. pc' = pc \/ pc' = [pc EXCEPT ![t] = "refind"]
        BY <1>7, <2>3 DEF RehashNext
      <3>5. QED
        BY <3>1, <3>2, <3>3, <3>4
    <2>4. QED
      BY <2>2, <2>3
  <1>8. CASE RehashFind(t)
    <2>1. /\ ri \in 0..(old_size - 1) /\ old_elements[ri] \in Entries
          /\ Slot(KeyOf[old_elements[ri]], level[t]) \in 0..(hash_size - 1)
          /\ NextLevel(level[t]) \in 0..MaxLevel /\ [kind |-> "ret", ok |-> FALSE] \in Rets
      BY <1>8, RefindFacts, NextLevelType DEF RehashFind, Rets
    <2> DEFINE k == KeyOf[old_elements[ri]]
               s == Slot(k, level[t])
    <2>2. CASE ~SearchEnds(k, level[t])
      BY <1>8, <2>1, <2>2 DEF RehashFind
    <2>3. CASE SearchEnds(k, level[t]) /\ elements[s] = Empty
      <3>1. elements' = [elements EXCEPT ![s] = old_elements[ri]] /\ ri' = ri + 1
        BY <1>8, <2>3 DEF RehashFind
      <3>2. elements' \in [0..(hash_size - 1) -> Entries \cup {Empty, Removed}] /\ ri' \in 0..old_size
        BY <2>1, <3>1
      <3>3. QED
        BY <1>8, <2>3, <3>2 DEF RehashFind
    <2>4. CASE SearchEnds(k, level[t]) /\ elements[s] # Empty
      BY <1>8, <2>1, <2>4 DEF RehashFind
    <2>5. QED
      BY <2>2, <2>3, <2>4
  <1>9. CASE GetResult(t)
    <2>1. status[t] = Empty \/ elements[index[t]] \in Entries
      BY <1>9, FoundFacts DEF GetResult, Occupied
    <2>2. ret' \in [Threads -> Rets]
      BY <1>9, <2>1 DEF GetResult, Rets
    <2>3. QED
      BY <1>9, <2>2 DEF GetResult
  <1>10. CASE RemoveResult(t)
    <2>1. ret' \in [Threads -> Rets]
      BY <1>10 DEF RemoveResult, Rets
    <2>2. CASE status[t] = Empty
      BY <1>10, <2>1, <2>2 DEF RemoveResult
    <2>3. CASE status[t] # Empty
      <3>1. index[t] \in 0..(hash_size - 1) /\ Occupied(elements[index[t]])
        BY <1>10, <2>3, FoundFacts DEF RemoveResult
      <3>2. hash_entry_count - 1 \in Nat
        <4>1. old_size = 0 => hash_entry_count = Cardinality(Occ(elements, hash_size))
          BY DEF CountInv
        <4>2. old_size = 0
          <5>1. writer = t
            BY <1>10 DEF IInv, RemoveResult, LockInv, Inside
          <5>2. \A u \in Threads : pc[u] \notin {"rehash", "refind"}
            BY <1>10, <5>1, Exclusive DEF IInv, RemoveResult, Inside
          <5>3. QED
            BY <5>2 DEF SizeInv
        <4>3. QED
          BY <3>1, <4>1, <4>2, OccRemove
      <3>3. elements' \in [0..(hash_size - 1) -> Entries \cup {Empty, Removed}]
        BY <1>10, <2>3, <3>1 DEF RemoveResult
      <3>4. QED
        BY <1>10, <2>1, <2>3, <3>2, <3>3 DEF RemoveResult
    <2>4. QED
      BY <2>2, <2>3
  <1>11. CASE Scan(t)
    <2>1. CASE si[t] < hash_size
      <3>1. /\ si' = [si EXCEPT ![t] = si[t] + 1] /\ si[t] + 1 \in Nat
        BY <1>11, <2>1 DEF Scan
      <3>2. array' \in [Threads -> Seq(Entries)]
        <4>1. Occupied(elements[si[t]]) => Append(array[t], elements[si[t]]) \in Seq(Entries)
          BY DEF Occupied
        <4>2. array' = IF Occupied(elements[si[t]])
                       THEN [array EXCEPT ![t] = Append(array[t], elements[si[t]])]
                       ELSE array
          BY <1>11, <2>1 DEF Scan
        <4>3. QED
          BY <4>1, <4>2
      <3>3. QED
        <4>1. UNCHANGED <<table, rehashing, lock, find, op, ncalls, ret, pc>>
          BY <1>11, <2>1 DEF Scan
        <4>2. QED
          BY <3>1, <3>2, <4>1
    <2>2. CASE ~(si[t] < hash_size)
      <3>1. [kind |-> "array", array |-> array[t], number |-> hash_entry_count] \in Rets
        BY DEF Rets
      <3>2. QED
        BY <1>11, <2>2, <3>1 DEF Scan
    <2>3. QED
      BY <2>1, <2>2
  <1>12. CASE RwUnlock(t)
    BY <1>12 DEF RwUnlock
  <1>13. CASE Return(t)
    BY <1>13, HashAssumption DEF Return, NoOp, NoRet, Rets
  <1>14. QED
    BY <1>1, <1>2, <1>3, <1>4, <1>5, <1>6, <1>7, <1>8, <1>9, <1>10, <1>11, <1>12, <1>13
       DEF Acts, Step

LEMMA TypeStep == IInv /\ [Next]_vars => TypeOK'
  <1> SUFFICES ASSUME IInv, [Next]_vars PROVE TypeOK'
    OBVIOUS
  <1>1. CASE Destroy
    <2>1. NoElements(0) \in [0..(0 - 1) -> Entries \cup {Empty, Removed}]
      BY DEF NoElements
    <2>2. QED
      BY <1>1, <2>1 DEF Destroy, IInv, TypeOK, rehashing, lock, find, scan
  <1>2. CASE UNCHANGED vars
    BY <1>2 DEF IInv, TypeOK, vars, table, rehashing, lock, find, scan
  <1>3. QED
    BY <1>1, <1>2, TypeThread, NextCases

-----------------------------------------------------------------------------
(* Places and the lock *)

LEMMA PlaceStep == IInv /\ [Next]_vars => PlaceInv'
  <1> SUFFICES ASSUME IInv, [Next]_vars PROVE PlaceInv'
    OBVIOUS
  <1>0. TypeOK /\ PlaceInv
    BY DEF IInv
  <1>1. ASSUME UNCHANGED <<pc, op, ret, si, array>> PROVE PlaceInv'
    BY <1>0, <1>1 DEF PlaceInv
  <1>2. ASSUME NEW t \in Threads, Acts(t) PROVE PlaceInv'
    <2> DEFINE Goal == /\ pc'[t] = "idle" => op'[t] = NoOp
                       /\ pc'[t] # "idle" => op'[t] \in Ops
                       /\ pc'[t] \in {"idle", "lock", "find", "found", "scan"} => ret'[t] = NoRet
                       /\ pc'[t] \in {"find", "found"} => op'[t].kind # "entries"
                       /\ pc'[t] \in {"stored", "rehash", "refind"} => op'[t].kind = "add"
                       /\ pc'[t] = "scan" => op'[t].kind = "entries"
                       /\ pc'[t] \in {"idle", "lock"} => si'[t] = 0 /\ array'[t] = <<>>
    <2>0. SUFFICES Goal
      BY <1>0, <1>2, OthersStay DEF PlaceInv
    <2> USE <1>0 DEF TypeOK, PlaceInv, Goto, SetRet, scan
    <2>1. CASE Call(t)
      BY <2>1 DEF Call
    <2>2. CASE WrLock(t)
      BY <2>2 DEF WrLock
    <2>3. CASE RdLock(t)
      BY <2>3 DEF RdLock
    <2>4. CASE Find(t)
      BY <2>4 DEF Find
    <2>5. CASE AddDuplicate(t) \/ AddStore(t) \/ NoRehash(t) \/ RehashStart(t)
      BY <2>5 DEF AddDuplicate, AddStore, NoRehash, RehashStart
    <2>6. CASE RehashNext(t)
      BY <2>6 DEF RehashNext
    <2>7. CASE RehashFind(t)
      BY <2>7 DEF RehashFind
    <2>8. CASE GetResult(t) \/ RemoveResult(t)
      BY <2>8 DEF GetResult, RemoveResult
    <2>9. CASE Scan(t)
      BY <2>9 DEF Scan
    <2>10. CASE RwUnlock(t)
      BY <2>10 DEF RwUnlock
    <2>11. CASE Return(t)
      BY <2>11 DEF Return
    <2>12. QED
      BY <1>2, <2>1, <2>2, <2>3, <2>4, <2>5, <2>6, <2>7, <2>8, <2>9, <2>10, <2>11
         DEF Acts, Step
  <1>3. QED
    BY <1>1, <1>2, NextCases DEF Destroy, vars, scan

\* rehash meets no key twice, so that it never leaves hash_add on the way.
LEMMA NoDuplicate ==
    ASSUME IInv, NEW t \in Threads, RehashFind(t)
    PROVE  LET s == Slot(KeyOf[old_elements[ri]], level[t])
           IN SearchEnds(KeyOf[old_elements[ri]], level[t]) => elements[s] = Empty
  <1> DEFINE k == KeyOf[old_elements[ri]]
             s == Slot(k, level[t])
  <1>0. TypeOK /\ PlaceInv /\ SizeInv /\ SearchInv /\ RehashInv /\ pc[t] = "refind"
    BY DEF IInv, RehashFind
  <1>1. /\ ri \in 0..(old_size - 1) /\ Occupied(old_elements[ri]) /\ old_size > 0
        /\ s \in 0..(hash_size - 1)
    BY <1>0, RefindFacts DEF SizeInv, Occupied
  <1>2. ASSUME Occupied(elements[s]), KeyOf[elements[s]] = k PROVE FALSE
    <2>1. PICK j \in 0..(ri - 1) : old_elements[j] = elements[s]
      BY <1>0, <1>1, <1>2 DEF RehashInv
    <2>2. j \in 0..(old_size - 1) /\ j # ri
      BY <1>0, <1>1 DEF TypeOK
    <2>3. QED
      BY <1>0, <1>1, <1>2, <2>1, <2>2 DEF RehashInv
  <1>3. QED
    BY <1>2 DEF SearchEnds

LEMMA LockStep == IInv /\ [Next]_vars => LockInv'
  <1> SUFFICES ASSUME IInv, [Next]_vars PROVE LockInv'
    OBVIOUS
  <1>0. TypeOK /\ PlaceInv /\ LockInv
    BY DEF IInv
  <1>1. ASSUME UNCHANGED <<lock, pc, op>> PROVE LockInv'
    BY <1>0, <1>1 DEF LockInv, lock
  <1>2. ASSUME NEW t \in Threads, Acts(t), UNCHANGED <<lock, op>>,
               pc'[t] \in Inside <=> pc[t] \in Inside
        PROVE  LockInv'
    BY <1>0, <1>2, OthersStay DEF LockInv, lock
  <1>3. ASSUME NEW t \in Threads, Acts(t) PROVE LockInv'
    <2> USE <1>0 DEF Goto, Inside
    <2>1. CASE WrLock(t)
      <3>1. \A u \in Threads : u # t => pc[u] \notin Inside
        BY <2>1, OpFields, ThreadAssumption DEF WrLock, LockInv, PlaceInv
      <3>2. /\ writer' = t /\ readers' = {} /\ pc' = [pc EXCEPT ![t] = "find"]
            /\ UNCHANGED op /\ op[t].kind \in {"add", "remove"}
        BY <2>1 DEF WrLock
      <3>3. QED
        BY <3>1, <3>2, ThreadAssumption DEF LockInv, TypeOK
    <2>2. CASE RdLock(t)
      <3>1. \A u \in Threads : ~(pc[u] \in Inside /\ op[u].kind \in {"add", "remove"})
        BY <2>2, ThreadAssumption DEF RdLock, LockInv
      <3>2. /\ writer' = NoThread /\ readers' = readers \cup {t} /\ UNCHANGED op
            /\ op[t].kind \in {"get", "entries"}
            /\ pc' = [pc EXCEPT ![t] = pc'[t]] /\ pc'[t] \in {"find", "scan"}
        BY <2>2 DEF RdLock, TypeOK
      <3>3. QED
        BY <3>1, <3>2, ThreadAssumption DEF LockInv, TypeOK
    <2>3. CASE RwUnlock(t)
      <3>1. /\ pc[t] = "unlock" /\ pc' = [pc EXCEPT ![t] = "return"] /\ UNCHANGED op
            /\ readers' = readers \ {t} /\ writer' = IF writer = t THEN NoThread ELSE writer
        BY <2>3 DEF RwUnlock
      <3>2. QED
        BY <3>1, ThreadAssumption DEF LockInv, TypeOK
    <2>4. CASE Call(t)
      <3>1. /\ pc[t] = "idle" /\ pc' = [pc EXCEPT ![t] = "lock"] /\ UNCHANGED lock
            /\ \A u \in Threads : u # t => op'[u] = op[u]
        BY <2>4 DEF Call, TypeOK
      <3>2. QED
        BY <3>1 DEF LockInv, TypeOK, lock
    <2>5. CASE Return(t)
      <3>1. /\ pc[t] = "return" /\ pc' = [pc EXCEPT ![t] = "idle"] /\ UNCHANGED lock
            /\ \A u \in Threads : u # t => op'[u] = op[u]
        BY <2>5 DEF Return, TypeOK
      <3>2. QED
        BY <3>1 DEF LockInv, TypeOK, lock
    <2>6. CASE RehashFind(t)
      <3>1. pc'[t] \in {"refind", "rehash"}
        BY <2>6, NoDuplicate DEF RehashFind, TypeOK
      <3>2. QED
        BY <1>2, <1>3, <2>6, <3>1 DEF RehashFind
    <2>7. CASE Find(t) \/ Scan(t) \/ RehashNext(t)
      BY <1>2, <1>3, <2>7 DEF Find, Scan, RehashNext, TypeOK
    <2>8. CASE AddDuplicate(t) \/ AddStore(t) \/ NoRehash(t) \/ RehashStart(t)
               \/ GetResult(t) \/ RemoveResult(t)
      BY <1>2, <1>3, <2>8
         DEF AddDuplicate, AddStore, NoRehash, RehashStart, GetResult, RemoveResult, TypeOK
    <2>9. QED
      BY <1>3, <2>1, <2>2, <2>3, <2>4, <2>5, <2>6, <2>7, <2>8 DEF Acts, Step
  <1>4. QED
    BY <1>1, <1>3, NextCases DEF Destroy, vars

\* Who holds the write lock is alone, and during a rehash only its thread is
\* inside.
LEMMA WriterAlone ==
    ASSUME IInv, NEW t \in Threads,
           \/ pc[t] \in {"stored", "rehash", "refind"}
           \/ pc[t] = "found" /\ op[t].kind \in {"add", "remove"}
    PROVE  writer = t /\ \A u \in Threads : u # t => pc[u] \notin Inside
  <1>1. writer = t
    BY DEF IInv, LockInv, PlaceInv, Inside
  <1>2. QED
    BY <1>1, Exclusive DEF IInv

LEMMA OneArray ==
    ASSUME IInv, NEW t \in Threads, pc[t] \in {"find", "found", "stored", "scan", "unlock"}
    PROVE  old_size = 0
  <1>1. SUFFICES ASSUME old_size > 0 PROVE FALSE
    BY DEF IInv, TypeOK
  <1>2. PICK u \in Threads : pc[u] \in {"rehash", "refind"}
    BY <1>1 DEF IInv, SizeInv
  <1>3. QED
    BY <1>2, WriterAlone DEF Inside

LEMMA SizeStep == IInv /\ [Next]_vars => SizeInv'
  <1> SUFFICES ASSUME IInv, [Next]_vars PROVE SizeInv'
    OBVIOUS
  <1>0. TypeOK /\ PlaceInv /\ SizeInv
    BY DEF IInv
  <1>1. ASSUME NEW t \in Threads, Acts(t) PROVE SizeInv'
    <2>1. ~destroyed /\ UNCHANGED destroyed /\ hash_size \in Nat /\ hash_size > 0
      <3>1. ~destroyed
        BY <1>0, <1>1 DEF SizeInv, Acts, Step, Call, WrLock, RdLock, Find, AddDuplicate,
              AddStore, NoRehash, RehashStart, RehashNext, RehashFind, GetResult,
              RemoveResult, Scan, RwUnlock, Return
      <3>2. UNCHANGED destroyed
        BY <1>1 DEF Acts, Step, Call, WrLock, RdLock, Find, AddDuplicate,
              AddStore, NoRehash, RehashStart, RehashNext, RehashFind, GetResult,
              RemoveResult, Scan, RwUnlock, Return, table
      <3>3. QED
        BY <1>0, <3>1, <3>2 DEF SizeInv, TypeOK
    <2>2. ASSUME UNCHANGED <<hash_size, old_size>>,
                 pc'[t] \in {"rehash", "refind"} <=> pc[t] \in {"rehash", "refind"}
          PROVE  SizeInv'
      BY <1>0, <1>1, <2>1, <2>2, OthersStay DEF SizeInv
    <2> USE <1>0 DEF Goto, TypeOK, table, rehashing
    <2>3. CASE RehashStart(t)
      <3>1. /\ hash_size' \in Nat /\ hash_size' >= hash_size /\ old_size' = hash_size
            /\ pc'[t] = "rehash"
        BY <2>3, SizeAssumption DEF RehashStart
      <3>2. hash_size' > 0 /\ old_size' > 0
        BY <2>1, <3>1
      <3>3. QED
        BY <2>1, <3>1, <3>2 DEF SizeInv
    <2>4. CASE RehashNext(t)
      <3>1. CASE ri = old_size
        <4>1. old_size' = 0 /\ pc' = [pc EXCEPT ![t] = "unlock"] /\ UNCHANGED hash_size
          BY <2>4, <3>1 DEF RehashNext
        <4>2. \A u \in Threads : u # t => pc[u] \notin Inside
          BY <2>4, WriterAlone DEF RehashNext
        <4>3. \A u \in Threads : pc'[u] \notin {"rehash", "refind"}
          BY <4>1, <4>2 DEF Inside
        <4>4. QED
          BY <2>1, <4>1, <4>3 DEF SizeInv
      <3>2. CASE ri # old_size
        BY <2>2, <2>4, <3>2 DEF RehashNext
      <3>3. QED
        BY <3>1, <3>2
    <2>5. CASE RehashFind(t)
      <3>1. pc'[t] \in {"refind", "rehash"}
        BY <2>5, NoDuplicate DEF RehashFind
      <3>2. QED
        BY <2>2, <2>5, <3>1 DEF RehashFind
    <2>6. CASE Call(t) \/ WrLock(t) \/ RdLock(t) \/ RwUnlock(t) \/ Return(t)
      BY <2>2, <2>6 DEF Call, WrLock, RdLock, RwUnlock, Return
    <2>7. CASE Find(t) \/ Scan(t)
      BY <2>2, <2>7 DEF Find, Scan
    <2>8. CASE AddDuplicate(t) \/ AddStore(t) \/ NoRehash(t) \/ GetResult(t) \/ RemoveResult(t)
      BY <2>2, <2>8 DEF AddDuplicate, AddStore, NoRehash, GetResult, RemoveResult
    <2>9. QED
      BY <1>1, <2>3, <2>4, <2>5, <2>6, <2>7, <2>8 DEF Acts, Step
  <1>2. CASE Destroy
    BY <1>0, <1>2 DEF Destroy, SizeInv, rehashing
  <1>3. CASE UNCHANGED vars
    BY <1>0, <1>3 DEF SizeInv, vars, table, rehashing
  <1>4. QED
    BY <1>1, <1>2, <1>3, NextCases

-----------------------------------------------------------------------------
(* Searching *)

\* One round of hash_find that does not end it.
LEMMA PassedNext ==
    ASSUME NEW k, NEW l \in 0..MaxLevel, Passed(k, l), ~SearchEnds(k, l)
    PROVE  Passed(k, NextLevel(l))
  <1>1. CASE l = MaxLevel
    BY <1>1, NextLevelType DEF Passed
  <1>2. CASE l # MaxLevel
    <2>1. NextLevel(l) = l + 1
      BY <1>2, NextLevelType
    <2>2. \A m \in 0..((l + 1) - 1) : m \in 0..(l - 1) \/ m = l
      BY HashAssumption
    <2>3. QED
      BY <2>1, <2>2 DEF Passed
  <1>3. QED
    BY <1>1, <1>2

LEMMA PassedNone ==
    ASSUME NEW k
    PROVE  Passed(k, 0)
  BY DEF Passed

\* A search that has passed the levels before l and ends at l ends nowhere else.
LEMMA OneEnd ==
    ASSUME NEW k, NEW l \in 0..MaxLevel, NEW m \in 0..MaxLevel,
           Passed(k, l), Passed(k, m), SearchEnds(k, l), SearchEnds(k, m)
    PROVE  l = m
  <1>1. l < m => l \in 0..(m - 1)
    BY HashAssumption
  <1>2. m < l => m \in 0..(l - 1)
    BY HashAssumption
  <1>3. ~(l < m) /\ ~(m < l)
    BY <1>1, <1>2 DEF Passed
  <1>4. QED
    BY <1>3, HashAssumption

\* What a search finds: the entry with the key, or that there is none.
LEMMA SearchFinds ==
    ASSUME TypeOK, SizeInv, ~destroyed, Findable, NEW k \in Keys, NEW l \in 0..MaxLevel,
           Passed(k, l), SearchEnds(k, l),
           NEW i \in 0..(hash_size - 1), Occupied(elements[i]), KeyOf[elements[i]] = k
    PROVE  i = Slot(k, l)
  <1>1. PICK m \in 0..MaxLevel : Slot(k, m) = i /\ Passed(k, m)
    BY DEF Findable, TypeOK
  <1>2. SearchEnds(k, m)
    BY <1>1 DEF SearchEnds
  <1>3. QED
    BY <1>1, <1>2, OneEnd

\* Keys are distinct.
LEMMA DistinctKeys ==
    ASSUME TypeOK, SizeInv, ~destroyed, Findable,
           NEW i \in 0..(hash_size - 1), NEW j \in 0..(hash_size - 1),
           Occupied(elements[i]), Occupied(elements[j]),
           KeyOf[elements[i]] = KeyOf[elements[j]]
    PROVE  i = j
  <1> DEFINE k == KeyOf[elements[i]]
  <1>1. k \in Keys
    BY EntryAssumption DEF Occupied
  <1>2. PICK l \in 0..MaxLevel : Slot(k, l) = i /\ Passed(k, l)
    BY DEF Findable, TypeOK
  <1>3. SearchEnds(k, l)
    BY <1>2 DEF SearchEnds
  <1>4. QED
    BY <1>1, <1>2, <1>3, SearchFinds

\* An entry is stored where the search for its key has ended on Empty.
LEMMA StoreFindable ==
    ASSUME TypeOK, SizeInv, ~destroyed, Findable, NEW e \in Entries, NEW l \in 0..MaxLevel,
           Passed(KeyOf[e], l), elements[Slot(KeyOf[e], l)] = Empty,
           elements' = [elements EXCEPT ![Slot(KeyOf[e], l)] = e], UNCHANGED hash_size
    PROVE  Findable'
  <1> DEFINE s == Slot(KeyOf[e], l)
  <1>1. KeyOf[e] \in Keys /\ s \in 0..(hash_size - 1)
    BY SlotIn, EntryAssumption
  <1>2. \A k, m : Slot(k, m)' = Slot(k, m)
    BY DEF Slot
  <1> HIDE DEF s
  <1>3. /\ elements'[s] = e
        /\ \A j \in 0..(hash_size - 1) : j # s => elements'[j] = elements[j]
        /\ elements[s] = Empty /\ DOMAIN elements' = 0..(hash_size - 1)
    BY <1>1 DEF TypeOK, s
  <1>4. ASSUME NEW k \in Keys, NEW m \in 0..MaxLevel, Passed(k, m) PROVE Passed(k, m)'
    <2> SUFFICES ASSUME NEW x \in 0..(m - 1) PROVE ~SearchEnds(k, x)'
      BY DEF Passed
    <2>1. ~SearchEnds(k, x) /\ x \in 0..MaxLevel
      BY <1>4, HashAssumption DEF Passed
    <2>2. Slot(k, x) \in 0..(hash_size - 1) /\ Slot(k, x) # s
      BY <1>3, <2>1, SlotIn DEF SearchEnds
    <2>3. QED
      BY <1>2, <1>3, <2>1, <2>2 DEF SearchEnds
  <1>5. ASSUME NEW j \in 0..(hash_size - 1), NEW f \in Entries, elements'[j] = f
        PROVE  \E m \in 0..MaxLevel : Slot(KeyOf[f], m)' = j /\ Passed(KeyOf[f], m)'
    <2>1. CASE j = s
      BY <1>1, <1>2, <1>3, <1>4, <1>5, <2>1 DEF s
    <2>2. CASE j # s
      <3>1. elements[j] = f /\ KeyOf[f] \in Keys
        BY <1>3, <1>5, <2>2, EntryAssumption
      <3>2. PICK m \in 0..MaxLevel : Slot(KeyOf[f], m) = j /\ Passed(KeyOf[f], m)
        BY <3>1 DEF Findable, TypeOK, Occupied
      <3>3. Slot(KeyOf[f], m)' = j /\ Passed(KeyOf[f], m)'
        BY <1>2, <1>4, <3>1, <3>2
      <3>4. QED
        BY <3>3
    <2>3. QED
      BY <2>1, <2>2
  <1>6. QED
    BY <1>3, <1>5 DEF Findable, Occupied

\* A tombstone ends no search.
LEMMA RemoveFindable ==
    ASSUME TypeOK, SizeInv, ~destroyed, Findable, NEW s \in 0..(hash_size - 1),
           Occupied(elements[s]), elements' = [elements EXCEPT ![s] = Removed],
           UNCHANGED hash_size
    PROVE  Findable'
  <1>1. /\ elements'[s] = Removed /\ Removed \notin Entries /\ Removed # Empty
        /\ \A j \in 0..(hash_size - 1) : j # s => elements'[j] = elements[j]
        /\ DOMAIN elements' = 0..(hash_size - 1)
    BY EntryAssumption DEF TypeOK
  <1>2. \A k, m : Slot(k, m)' = Slot(k, m)
    BY DEF Slot
  <1>3. ASSUME NEW k \in Keys, NEW m \in 0..MaxLevel, Passed(k, m) PROVE Passed(k, m)'
    <2> SUFFICES ASSUME NEW x \in 0..(m - 1) PROVE ~SearchEnds(k, x)'
      BY DEF Passed
    <2>1. ~SearchEnds(k, x) /\ x \in 0..MaxLevel
      BY <1>3, HashAssumption DEF Passed
    <2>2. Slot(k, x) \in 0..(hash_size - 1)
      BY <2>1, SlotIn
    <2>3. QED
      BY <1>1, <1>2, <2>1, <2>2 DEF SearchEnds, Occupied
  <1>4. ASSUME NEW j \in 0..(hash_size - 1), NEW f \in Entries, elements'[j] = f
        PROVE  \E m \in 0..MaxLevel : Slot(KeyOf[f], m)' = j /\ Passed(KeyOf[f], m)'
    <2>1. elements[j] = f /\ KeyOf[f] \in Keys
      BY <1>1, <1>4, EntryAssumption
    <2>2. PICK m \in 0..MaxLevel : Slot(KeyOf[f], m) = j /\ Passed(KeyOf[f], m)
      BY <2>1 DEF Findable, TypeOK, Occupied
    <2>3. QED
      BY <1>2, <1>3, <2>1, <2>2
  <1>5. QED
    BY <1>1, <1>4 DEF Findable, Occupied

\* An empty array holds nothing to find.
LEMMA EmptyFindable ==
    ASSUME NEW p \in Nat, elements' = NoElements(p)
    PROVE  Findable'
  <1>1. \A j \in DOMAIN elements' : ~Occupied(elements'[j])
    BY EntryAssumption DEF NoElements, Occupied
  <1>2. QED
    BY <1>1 DEF Findable, Occupied

\* The writes of a thread inside, each with the place it changes.
LEMMA AddStoreEffect ==
    ASSUME IInv, NEW t \in Threads, AddStore(t)
    PROVE  /\ op[t].entry \in Entries /\ level[t] \in 0..MaxLevel /\ ~destroyed
           /\ index[t] = Slot(KeyOf[op[t].entry], level[t])
           /\ index[t] \in 0..(hash_size - 1) /\ elements[index[t]] = Empty
           /\ Passed(KeyOf[op[t].entry], level[t]) /\ SearchEnds(KeyOf[op[t].entry], level[t])
           /\ elements' = [elements EXCEPT ![index[t]] = op[t].entry]
           /\ UNCHANGED <<hash_size, rehashing>> /\ old_size = 0 /\ pc[t] = "found"
           /\ hash_entry_count' = hash_entry_count + 1 /\ pc'[t] = "stored"
  <1>0. TypeOK /\ PlaceInv /\ SizeInv /\ SearchInv /\ pc[t] = "found" /\ op[t].kind = "add"
    BY DEF IInv, AddStore
  <1>1. /\ op[t].entry \in Entries /\ level[t] \in 0..MaxLevel /\ ~destroyed
        /\ OpKey(op[t]) = KeyOf[op[t].entry]
    BY <1>0, CallFacts
  <1>2. /\ index[t] \in 0..(hash_size - 1) /\ index[t] = Slot(OpKey(op[t]), level[t])
        /\ status[t] = elements[index[t]]
    BY <1>0, FoundFacts
  <1>3. Passed(OpKey(op[t]), level[t]) /\ SearchEnds(OpKey(op[t]), level[t]) /\ old_size = 0
    BY <1>0, OneArray DEF SearchInv
  <1>4. QED
    BY <1>0, <1>1, <1>2, <1>3 DEF AddStore, Goto, TypeOK

LEMMA RemoveEffect ==
    ASSUME IInv, NEW t \in Threads, RemoveResult(t)
    PROVE  /\ ~destroyed /\ old_size = 0 /\ UNCHANGED <<hash_size, rehashing>>
           /\ pc[t] = "found" /\ pc'[t] = "unlock" /\ op[t].kind = "remove"
           /\ \/ UNCHANGED table /\ elements[index[t]] = Empty
              \/ /\ index[t] \in 0..(hash_size - 1) /\ Occupied(elements[index[t]])
                 /\ KeyOf[elements[index[t]]] = op[t].key
                 /\ elements' = [elements EXCEPT ![index[t]] = Removed]
                 /\ hash_entry_count' = hash_entry_count - 1
  <1>0. TypeOK /\ PlaceInv /\ SizeInv /\ SearchInv /\ pc[t] = "found" /\ op[t].kind = "remove"
    BY DEF IInv, RemoveResult
  <1>1. ~destroyed /\ old_size = 0 /\ OpKey(op[t]) = op[t].key
    BY <1>0, CallFacts, OneArray
  <1>2. /\ index[t] \in 0..(hash_size - 1) /\ status[t] = elements[index[t]]
        /\ status[t] = Empty \/ (Occupied(status[t]) /\ KeyOf[status[t]] = OpKey(op[t]))
    BY <1>0, FoundFacts
  <1>3. QED
    BY <1>0, <1>1, <1>2 DEF RemoveResult, Goto, TypeOK, table

\* rehash tries the next level, or moves the element.
LEMMA RehashFindEffect ==
    ASSUME IInv, NEW t \in Threads, RehashFind(t)
    PROVE  LET e == old_elements[ri]
               s == Slot(KeyOf[e], level[t])
           IN /\ e \in Entries /\ KeyOf[e] \in Keys /\ level[t] \in 0..MaxLevel /\ ~destroyed
              /\ pc[t] = "refind" /\ ri \in 0..(old_size - 1)
              /\ s \in 0..(hash_size - 1) /\ Passed(KeyOf[e], level[t])
              /\ UNCHANGED <<hash_size, hash_entry_count, old_elements, old_size, op, ret>>
              /\ \/ /\ ~SearchEnds(KeyOf[e], level[t]) /\ UNCHANGED <<elements, ri>>
                    /\ level' = [level EXCEPT ![t] = NextLevel(level[t])] /\ UNCHANGED pc
                 \/ /\ elements[s] = Empty /\ elements' = [elements EXCEPT ![s] = e]
                    /\ ri' = ri + 1 /\ pc'[t] = "rehash"
  <1>0. TypeOK /\ PlaceInv /\ SizeInv /\ SearchInv /\ pc[t] = "refind"
    BY DEF IInv, RehashFind
  <1> DEFINE e == old_elements[ri]
             s == Slot(KeyOf[e], level[t])
  <1>1. /\ e \in Entries /\ KeyOf[e] \in Keys /\ s \in 0..(hash_size - 1)
        /\ ri \in 0..(old_size - 1) /\ level[t] \in 0..MaxLevel /\ ~destroyed
        /\ Passed(KeyOf[e], level[t])
    BY <1>0, RefindFacts, CallFacts DEF SearchInv
  <1>2. CASE ~SearchEnds(KeyOf[e], level[t])
    BY <1>0, <1>1, <1>2 DEF RehashFind
  <1>3. CASE SearchEnds(KeyOf[e], level[t])
    <2>1. elements[s] = Empty
      BY <1>3, NoDuplicate
    <2>2. QED
      BY <1>0, <1>1, <1>3, <2>1 DEF RehashFind, Goto, TypeOK
  <1>4. QED
    BY <1>2, <1>3

LEMMA FindableStep == IInv /\ [Next]_vars => Findable'
  <1> SUFFICES ASSUME IInv, [Next]_vars PROVE Findable'
    OBVIOUS
  <1>0. TypeOK /\ SizeInv /\ Findable
    BY DEF IInv
  <1>1. ASSUME UNCHANGED <<elements, hash_size>> PROVE Findable'
    BY <1>0, <1>1 DEF Findable, Slot, Passed, SearchEnds
  <1>2. ASSUME NEW t \in Threads, Acts(t) PROVE Findable'
    <2>1. CASE AddStore(t)
      BY <1>0, <2>1, AddStoreEffect, StoreFindable
    <2>2. CASE RemoveResult(t)
      BY <1>0, <1>1, <2>2, RemoveEffect, RemoveFindable DEF table
    <2>3. CASE RehashFind(t)
      BY <1>0, <1>1, <2>3, RehashFindEffect, StoreFindable
    <2>4. CASE RehashStart(t)
      <3>1. PICK p \in Nat : elements' = NoElements(p)
        BY <1>0, <2>4, SizeAssumption DEF RehashStart, TypeOK
      <3>2. QED
        BY <3>1, EmptyFindable
    <2>5. QED
      BY <1>0, <1>1, <1>2, <2>1, <2>2, <2>3, <2>4, WhoWrites DEF table
  <1>3. CASE Destroy
    BY <1>3, EmptyFindable DEF Destroy
  <1>4. QED
    BY <1>1, <1>2, <1>3, NextCases DEF vars, table

\* The table and the arrays of a rehash stay while another thread is inside.
LEMMA StillForOthers ==
    ASSUME IInv, NEW t \in Threads, Acts(t), NEW u \in Threads, u # t, pc[u] \in Inside
    PROVE  UNCHANGED <<table, rehashing>>
  <1>1. ~(\/ pc[t] \in {"stored", "rehash", "refind"}
          \/ pc[t] = "found" /\ op[t].kind \in {"add", "remove"})
    BY WriterAlone
  <1>2. ~AddStore(t) /\ ~RemoveResult(t) /\ ~RehashStart(t) /\ ~RehashNext(t) /\ ~RehashFind(t)
    BY <1>1 DEF AddStore, RemoveResult, RehashStart, RehashNext, RehashFind
  <1>3. QED
    BY <1>2 DEF Acts, Step, Call, WrLock, RdLock, Find, AddDuplicate, NoRehash, GetResult,
                Scan, RwUnlock, Return

LEMMA RehashStartEffect ==
    ASSUME IInv, NEW t \in Threads, RehashStart(t)
    PROVE  /\ pc[t] = "stored" /\ ~destroyed /\ old_size = 0 /\ hash_size \in Nat \ {0}
           /\ \E p \in Nat : hash_size' = p /\ elements' = NoElements(p)
           /\ old_elements' = elements /\ old_size' = hash_size /\ ri' = 0
           /\ pc'[t] = "rehash" /\ UNCHANGED <<hash_entry_count, op, ret>>
  <1>0. TypeOK /\ PlaceInv /\ SizeInv /\ pc[t] = "stored"
    BY DEF IInv, RehashStart
  <1>1. ~destroyed /\ old_size = 0 /\ hash_size \in Nat \ {0}
    BY <1>0, CallFacts, OneArray
  <1>2. \E p \in Nat : hash_size' = p /\ elements' = NoElements(p)
    BY <1>0, SizeAssumption DEF RehashStart, TypeOK
  <1>3. QED
    BY <1>0, <1>1, <1>2 DEF RehashStart, Goto, TypeOK

LEMMA SearchStep == IInv /\ [Next]_vars => SearchInv'
  <1> SUFFICES ASSUME IInv, [Next]_vars PROVE SearchInv'
    OBVIOUS
  <1>0. TypeOK /\ PlaceInv /\ SizeInv /\ SearchInv
    BY DEF IInv
  <1> DEFINE Sound(u) ==
        /\ pc[u] = "find" => Passed(OpKey(op[u]), level[u])
        /\ pc[u] = "found" =>
              /\ Passed(OpKey(op[u]), level[u]) /\ SearchEnds(OpKey(op[u]), level[u])
              /\ index[u] = Slot(OpKey(op[u]), level[u])
              /\ status[u] = elements[index[u]]
        /\ pc[u] = "refind" =>
              /\ ri < old_size /\ Occupied(old_elements[ri])
              /\ Passed(KeyOf[old_elements[ri]], level[u])
  <1>1. ASSUME NEW u \in Threads, UNCHANGED <<table, rehashing>>,
               pc'[u] = pc[u], op'[u] = op[u], level'[u] = level[u], index'[u] = index[u],
               status'[u] = status[u]
        PROVE  Sound(u)'
    <2>1. UNCHANGED <<elements, hash_size, old_elements, old_size, ri>>
      BY <1>1 DEF table, rehashing
    <2>2. (pc'[u] = "find") => Passed(OpKey(op[u]), level[u])'
      <3>1. pc[u] = "find" => Passed(OpKey(op[u]), level[u])
        BY <1>0 DEF SearchInv
      <3>2. QED
        BY <1>1, <2>1, <3>1 DEF Passed, SearchEnds, Slot, OpKey
    <2>3. (pc'[u] = "found") =>
            /\ Passed(OpKey(op[u]), level[u])' /\ SearchEnds(OpKey(op[u]), level[u])'
            /\ index'[u] = Slot(OpKey(op[u]), level[u])'
            /\ status'[u] = elements'[index'[u]]
      <3>1. pc[u] = "found" =>
              /\ Passed(OpKey(op[u]), level[u]) /\ SearchEnds(OpKey(op[u]), level[u])
              /\ index[u] = Slot(OpKey(op[u]), level[u]) /\ status[u] = elements[index[u]]
        BY <1>0 DEF SearchInv
      <3>2. QED
        BY <1>1, <2>1, <3>1 DEF Passed, SearchEnds, Slot, OpKey
    <2>4. (pc'[u] = "refind") =>
            /\ ri' < old_size' /\ Occupied(old_elements[ri])'
            /\ Passed(KeyOf[old_elements[ri]], level[u])'
      <3>1. pc[u] = "refind" =>
              /\ ri < old_size /\ Occupied(old_elements[ri])
              /\ Passed(KeyOf[old_elements[ri]], level[u])
        BY <1>0 DEF SearchInv
      <3>2. QED
        BY <1>1, <2>1, <3>1 DEF Passed, SearchEnds, Slot
    <2>5. QED
      BY <2>2, <2>3, <2>4
  <1>2. ASSUME NEW t \in Threads, Acts(t), NEW u \in Threads, u # t PROVE Sound(u)'
    <2>1. CASE pc[u] \in Inside
      BY <1>0, <1>1, <1>2, <2>1, OthersStay, StillForOthers
    <2>2. CASE pc[u] \notin Inside
      <3>1. pc'[u] = pc[u]
        BY <1>0, <1>2, OthersStay
      <3>2. QED
        BY <2>2, <3>1 DEF Inside
    <2>3. QED
      BY <2>1, <2>2
  <1>3. ASSUME NEW t \in Threads, Acts(t) PROVE Sound(t)'
    <2> USE <1>0 DEF Goto
    <2>1. ASSUME pc'[t] \notin {"find", "found", "refind"} PROVE Sound(t)'
      BY <2>1
    <2>2. CASE WrLock(t) \/ RdLock(t)
      <3>1. pc'[t] \in {"find", "scan"} /\ level'[t] = 0
        BY <2>2 DEF WrLock, RdLock, TypeOK
      <3>2. QED
        BY <3>1 DEF Passed
    <2>3. CASE Find(t)
      <3> DEFINE k == OpKey(op[t])
                 l == level[t]
      <3>1. /\ pc[t] = "find" /\ Passed(k, l) /\ l \in 0..MaxLevel
            /\ UNCHANGED <<elements, hash_size, op>>
        BY <2>3 DEF Find, SearchInv, TypeOK, table
      <3>2. CASE SearchEnds(k, l)
        <4>1. /\ pc'[t] = "found" /\ index'[t] = Slot(k, l) /\ level'[t] = l
              /\ status'[t] = elements[Slot(k, l)]
          BY <2>3, <3>2 DEF Find, TypeOK
        <4>2. QED
          BY <3>1, <3>2, <4>1 DEF Passed, SearchEnds, Slot, OpKey
      <3>3. CASE ~SearchEnds(k, l)
        <4>1. pc'[t] = "find" /\ level'[t] = NextLevel(l)
          BY <2>3, <3>1, <3>3 DEF Find, TypeOK
        <4>2. Passed(k, NextLevel(l))
          BY <3>1, <3>3, PassedNext
        <4>3. QED
          BY <3>1, <4>1, <4>2 DEF Passed, SearchEnds, Slot, OpKey
      <3>4. QED
        BY <3>2, <3>3
    <2>4. CASE RehashNext(t)
      <3>1. CASE ri # old_size /\ Occupied(old_elements[ri])
        <4>1. /\ pc'[t] = "refind" /\ level'[t] = 0 /\ ri < old_size
              /\ UNCHANGED rehashing
          BY <2>4, <3>1 DEF RehashNext, TypeOK
        <4>2. QED
          BY <3>1, <4>1 DEF Passed, rehashing
      <3>2. CASE ~(ri # old_size /\ Occupied(old_elements[ri]))
        BY <2>1, <2>4, <3>2 DEF RehashNext, TypeOK
      <3>3. QED
        BY <3>1, <3>2
    <2>5. CASE RehashFind(t)
      <3>1. CASE pc'[t] = "rehash"
        BY <2>1, <3>1
      <3>2. CASE pc'[t] # "rehash"
        <4> DEFINE k == KeyOf[old_elements[ri]]
                   l == level[t]
        <4>1. /\ pc[t] = "refind" /\ UNCHANGED <<elements, hash_size, old_elements, old_size, ri, pc>>
              /\ l \in 0..MaxLevel /\ Passed(k, l) /\ ~SearchEnds(k, l)
              /\ level' = [level EXCEPT ![t] = NextLevel(l)]
          BY <2>5, <3>2, RehashFindEffect
        <4>2. Passed(k, NextLevel(l)) /\ level'[t] = NextLevel(l)
          BY <4>1, PassedNext DEF TypeOK
        <4>3. ri < old_size /\ Occupied(old_elements[ri])
          BY <4>1 DEF SearchInv
        <4>4. QED
          BY <4>1, <4>2, <4>3 DEF Passed, SearchEnds, Slot
      <3>3. QED
        BY <3>1, <3>2
    <2>6. CASE AddDuplicate(t) \/ AddStore(t) \/ NoRehash(t) \/ RehashStart(t)
               \/ GetResult(t) \/ RemoveResult(t)
      BY <2>1, <2>6 DEF AddDuplicate, AddStore, NoRehash, RehashStart, GetResult,
                        RemoveResult, TypeOK
    <2>7. CASE Call(t) \/ RwUnlock(t) \/ Return(t)
      BY <2>1, <2>7 DEF Call, RwUnlock, Return, TypeOK
    <2>8. CASE Scan(t)
      BY <2>1, <2>8 DEF Scan, TypeOK
    <2>9. QED
      BY <1>3, <2>2, <2>3, <2>4, <2>5, <2>6, <2>7, <2>8 DEF Acts, Step
  <1>4. ASSUME NEW t \in Threads, Acts(t) PROVE SearchInv'
    BY <1>2, <1>3, <1>4 DEF SearchInv
  <1>5. CASE Destroy
    BY <1>5 DEF Destroy, SearchInv
  <1>6. CASE UNCHANGED vars
    <2>1. \A u \in Threads : Sound(u)'
      BY <1>1, <1>6 DEF vars, find
    <2>2. QED
      BY <2>1 DEF SearchInv
  <1>7. QED
    BY <1>4, <1>5, <1>6, NextCases

-----------------------------------------------------------------------------
(* Rehashing and counting *)

\* The end of the rehash, or one element of the old array that holds no entry.
LEMMA RehashNextEffect ==
    ASSUME IInv, NEW t \in Threads, RehashNext(t)
    PROVE  /\ UNCHANGED <<table, op, ret>> /\ pc[t] = "rehash" /\ old_size > 0
           /\ \/ /\ ri = old_size /\ old_elements' = NoElements(0) /\ old_size' = 0
                 /\ pc' = [pc EXCEPT ![t] = "unlock"]
              \/ /\ ri \in 0..(old_size - 1) /\ UNCHANGED rehashing
                 /\ pc' = [pc EXCEPT ![t] = "refind"]
              \/ /\ ri \in 0..(old_size - 1) /\ ~Occupied(old_elements[ri]) /\ ri' = ri + 1
                 /\ UNCHANGED <<old_elements, old_size, pc>>
  <1>0. ri \in 0..old_size /\ old_size \in Nat /\ pc[t] = "rehash" /\ old_size > 0
    BY DEF IInv, TypeOK, SizeInv, RehashNext
  <1>1. CASE ri = old_size
    BY <1>0, <1>1 DEF RehashNext, Goto
  <1>2. CASE ri # old_size
    <2>1. ri \in 0..(old_size - 1)
      BY <1>0, <1>2
    <2>2. QED
      BY <1>0, <1>2, <2>1 DEF RehashNext, Goto
  <1>3. QED
    BY <1>1, <1>2

\* The two arrays change in four actions only.
LEMMA WhoChanges ==
    ASSUME TypeOK, NEW t \in Threads, Acts(t)
    PROVE  \/ AddStore(t) \/ RemoveResult(t) \/ RehashStart(t) \/ RehashNext(t) \/ RehashFind(t)
           \/ UNCHANGED <<table, rehashing>>
  BY DEF Acts, Step, Call, WrLock, RdLock, Find, AddDuplicate, NoRehash,
         GetResult, Scan, RwUnlock, Return

LEMMA RehashStep == IInv /\ [Next]_vars => RehashInv'
  <1> SUFFICES ASSUME IInv, [Next]_vars PROVE RehashInv'
    OBVIOUS
  <1>0. TypeOK /\ SizeInv /\ Findable /\ RehashInv
    BY DEF IInv
  <1>1. ASSUME UNCHANGED <<elements, hash_size, rehashing>> PROVE RehashInv'
    BY <1>0, <1>1 DEF RehashInv, rehashing
  <1>2. ASSUME old_size' = 0 PROVE RehashInv'
    BY <1>2 DEF RehashInv
  <1>3. ASSUME NEW t \in Threads, Acts(t) PROVE RehashInv'
    <2>1. CASE AddStore(t)
      BY <1>2, <2>1, AddStoreEffect DEF rehashing
    <2>2. CASE RemoveResult(t)
      BY <1>2, <2>2, RemoveEffect DEF rehashing
    <2>3. CASE RehashStart(t)
      <3>1. /\ ~destroyed /\ old_elements' = elements /\ old_size' = hash_size /\ ri' = 0
        BY <2>3, RehashStartEffect
      <3>2. PICK p \in Nat : hash_size' = p /\ elements' = NoElements(p)
        BY <2>3, RehashStartEffect
      <3>3. \A i, j \in 0..(old_size' - 1) :
              Occupied(old_elements'[i]) /\ Occupied(old_elements'[j])
              /\ KeyOf[old_elements'[i]] = KeyOf[old_elements'[j]] => i = j
        BY <1>0, <3>1, DistinctKeys
      <3>4. \A i \in 0..(hash_size' - 1) : ~Occupied(elements'[i])
        BY <3>2, EntryAssumption DEF NoElements, Occupied
      <3>5. 0..(ri' - 1) = {}
        BY <3>1
      <3>6. QED
        BY <3>3, <3>4, <3>5 DEF RehashInv, Occupied
    <2>4. CASE RehashNext(t)
      <3>1. CASE ri \in 0..(old_size - 1) /\ ~Occupied(old_elements[ri]) /\ ri' = ri + 1
                 /\ UNCHANGED <<old_elements, old_size, table>>
        <4>1. old_size > 0 /\ UNCHANGED <<elements, hash_size>> /\ ri \in Nat
          BY <2>4, <3>1, RehashNextEffect DEF table
        <4>2. \A j : j \in 0..(ri' - 1) <=> (j \in 0..(ri - 1) \/ j = ri)
          BY <3>1, <4>1
        <4>3. QED
          BY <1>0, <3>1, <4>1, <4>2 DEF RehashInv
      <3>2. QED
        BY <1>1, <1>2, <2>4, <3>1, RehashNextEffect DEF table
    <2>5. CASE RehashFind(t)
      <3> DEFINE e == old_elements[ri]
                 s == Slot(KeyOf[e], level[t])
      <3>1. CASE UNCHANGED <<elements, ri>>
        BY <1>1, <2>5, <3>1, RehashFindEffect DEF rehashing
      <3>2. CASE ~UNCHANGED <<elements, ri>>
        <4>1. /\ elements[s] = Empty /\ elements' = [elements EXCEPT ![s] = e] /\ ri' = ri + 1
              /\ UNCHANGED <<hash_size, old_elements, old_size>> /\ e \in Entries
              /\ s \in 0..(hash_size - 1) /\ ri \in 0..(old_size - 1)
          BY <2>5, <3>2, RehashFindEffect
        <4> HIDE DEF s
        <4>2. old_size > 0 /\ ri \in Nat /\ \A j : j \in 0..(ri' - 1) <=> (j \in 0..(ri - 1) \/ j = ri)
          BY <1>0, <4>1 DEF TypeOK
        <4>3. /\ elements'[s] = e
              /\ \A i \in 0..(hash_size - 1) : i # s => elements'[i] = elements[i]
          BY <1>0, <4>1 DEF TypeOK
        <4>4. \A i \in 0..(hash_size - 1) : Occupied(elements'[i]) =>
                \E j \in 0..(ri' - 1) : old_elements[j] = elements'[i]
          BY <1>0, <4>2, <4>3 DEF RehashInv
        <4>5. \A j \in 0..(ri' - 1) : Occupied(old_elements[j]) =>
                \E i \in 0..(hash_size - 1) : elements'[i] = old_elements[j]
          <5>1. ASSUME NEW j \in 0..(ri - 1), Occupied(old_elements[j])
                PROVE  \E i \in 0..(hash_size - 1) : elements'[i] = old_elements[j]
            <6>1. PICK i \in 0..(hash_size - 1) : elements[i] = old_elements[j]
              BY <1>0, <4>2, <5>1 DEF RehashInv
            <6>2. i # s
              BY <4>1, <5>1, <6>1, EntryAssumption DEF Occupied
            <6>3. QED
              BY <4>3, <6>1, <6>2
          <5>2. QED
            BY <4>1, <4>2, <4>3, <5>1
        <4>6. QED
          BY <1>0, <4>1, <4>2, <4>4, <4>5 DEF RehashInv, Occupied
      <3>3. QED
        BY <3>1, <3>2
    <2>6. QED
      BY <1>0, <1>1, <1>3, <2>1, <2>2, <2>3, <2>4, <2>5, WhoChanges DEF table
  <1>4. CASE Destroy
    <2>1. old_size' = old_size /\ \A t \in Threads : pc[t] = "idle"
      BY <1>4 DEF Destroy, rehashing
    <2>2. ~(old_size > 0)
      BY <1>0, <2>1 DEF SizeInv
    <2>3. QED
      BY <2>1, <2>2 DEF RehashInv
  <1>5. QED
    BY <1>1, <1>3, <1>4, NextCases DEF vars, table

LEMMA CountStep == IInv /\ [Next]_vars => CountInv'
  <1> SUFFICES ASSUME IInv, [Next]_vars PROVE CountInv'
    OBVIOUS
  <1>0. TypeOK /\ SizeInv /\ CountInv
    BY DEF IInv
  <1>1. ASSUME UNCHANGED <<table, rehashing>> PROVE CountInv'
    BY <1>0, <1>1 DEF CountInv, table, rehashing, Occ
  <1>2. ASSUME NEW t \in Threads, Acts(t) PROVE CountInv'
    <2>1. CASE AddStore(t)
      <3>1. /\ op[t].entry \in Entries /\ index[t] \in 0..(hash_size - 1)
            /\ ~Occupied(elements[index[t]])
            /\ elements' = [elements EXCEPT ![index[t]] = op[t].entry]
            /\ UNCHANGED <<hash_size, rehashing>> /\ old_size = 0
            /\ hash_entry_count' = hash_entry_count + 1
        BY <2>1, AddStoreEffect, EntryAssumption DEF Occupied
      <3>2. Cardinality(Occ([elements EXCEPT ![index[t]] = op[t].entry], hash_size))
              = Cardinality(Occ(elements, hash_size)) + 1
        BY <1>0, <3>1, OccStore DEF TypeOK
      <3>3. hash_entry_count' = Cardinality(Occ(elements', hash_size)) /\ old_size' = 0
        BY <1>0, <3>1, <3>2 DEF CountInv, rehashing
      <3>4. QED
        BY <3>1, <3>3 DEF CountInv, Occ
    <2>2. CASE RemoveResult(t)
      <3>1. old_size = 0 /\ UNCHANGED <<hash_size, rehashing>>
        BY <2>2, RemoveEffect
      <3>2. CASE UNCHANGED table
        BY <1>1, <3>1, <3>2
      <3>3. CASE ~UNCHANGED table
        <4>1. /\ index[t] \in 0..(hash_size - 1) /\ Occupied(elements[index[t]])
              /\ elements' = [elements EXCEPT ![index[t]] = Removed]
              /\ hash_entry_count' = hash_entry_count - 1
          BY <2>2, <3>3, RemoveEffect
        <4>2. Cardinality(Occ([elements EXCEPT ![index[t]] = Removed], hash_size))
                = Cardinality(Occ(elements, hash_size)) - 1
          BY <1>0, <4>1, OccRemove DEF TypeOK
        <4>3. hash_entry_count' = Cardinality(Occ(elements', hash_size)) /\ old_size' = 0
          BY <1>0, <3>1, <4>1, <4>2 DEF CountInv, rehashing
        <4>4. QED
          BY <3>1, <4>3 DEF CountInv, Occ
      <3>4. QED
        BY <3>2, <3>3
    <2>3. CASE RehashStart(t)
      <3>1. /\ old_elements' = elements /\ old_size' = hash_size /\ ri' = 0 /\ old_size = 0
            /\ UNCHANGED hash_entry_count /\ hash_size \in Nat \ {0}
        BY <2>3, RehashStartEffect
      <3>2. PICK p \in Nat : hash_size' = p /\ elements' = NoElements(p)
        BY <2>3, RehashStartEffect
      <3>3. Cardinality(Occ(NoElements(p), p)) = 0 /\ Cardinality(Occ(elements, 0)) = 0
        BY OccEmpty, OccNone
      <3>4. hash_entry_count = Cardinality(Occ(elements, hash_size))
        BY <1>0, <3>1 DEF CountInv
      <3>5. /\ hash_entry_count' = Cardinality(Occ(old_elements', old_size'))
            /\ Cardinality(Occ(elements', hash_size')) = Cardinality(Occ(old_elements', ri'))
            /\ old_size' # 0
        BY <3>1, <3>2, <3>3, <3>4
      <3>6. QED
        BY <3>5 DEF CountInv, Occ
    <2>4. CASE RehashNext(t)
      <3>1. old_size > 0 /\ UNCHANGED <<elements, hash_size, hash_entry_count>>
        BY <2>4, RehashNextEffect DEF table
      <3>2. CASE ri = old_size /\ old_size' = 0
        <4>1. hash_entry_count = Cardinality(Occ(elements, hash_size))
          BY <1>0, <3>1, <3>2 DEF CountInv
        <4>2. QED
          BY <3>1, <3>2, <4>1 DEF CountInv, Occ
      <3>3. CASE UNCHANGED rehashing
        BY <1>1, <2>4, <3>3, RehashNextEffect
      <3>4. CASE ri \in 0..(old_size - 1) /\ ~Occupied(old_elements[ri]) /\ ri' = ri + 1
                 /\ UNCHANGED <<old_elements, old_size>>
        <4>1. Occ(old_elements, ri + 1) = Occ(old_elements, ri)
          BY <3>4, OccNext
        <4>2. /\ Cardinality(Occ(elements, hash_size)) = Cardinality(Occ(old_elements, ri + 1))
              /\ hash_entry_count = Cardinality(Occ(old_elements, old_size))
          BY <1>0, <3>1, <4>1 DEF CountInv
        <4>3. QED
          BY <3>1, <3>4, <4>2 DEF CountInv, Occ
      <3>5. QED
        BY <2>4, <3>2, <3>3, <3>4, RehashNextEffect
    <2>5. CASE RehashFind(t)
      <3> DEFINE e == old_elements[ri]
                 s == Slot(KeyOf[e], level[t])
      <3>0. /\ e \in Entries /\ s \in 0..(hash_size - 1) /\ ri \in 0..(old_size - 1)
            /\ UNCHANGED <<hash_size, hash_entry_count, old_elements, old_size>>
        BY <2>5, RehashFindEffect
      <3>1. CASE UNCHANGED <<elements, ri>>
        BY <1>0, <3>0, <3>1 DEF CountInv, Occ
      <3>2. CASE ~UNCHANGED <<elements, ri>>
        <4>1. elements[s] = Empty /\ elements' = [elements EXCEPT ![s] = e] /\ ri' = ri + 1
          BY <2>5, <3>2, RehashFindEffect
        <4> HIDE DEF s
        <4>2. Cardinality(Occ([elements EXCEPT ![s] = e], hash_size))
                = Cardinality(Occ(elements, hash_size)) + 1
          BY <1>0, <3>0, <4>1, OccStore, EntryAssumption DEF TypeOK, Occupied
        <4>3. Cardinality(Occ(old_elements, ri + 1)) = Cardinality(Occ(old_elements, ri)) + 1
          BY <3>0, OccNext DEF Occupied
        <4>4. old_size > 0 /\ old_size \in Nat
          BY <1>0, <3>0 DEF TypeOK
        <4>5. /\ Cardinality(Occ(elements', hash_size')) = Cardinality(Occ(old_elements', ri'))
              /\ hash_entry_count' = Cardinality(Occ(old_elements', old_size'))
          BY <1>0, <3>0, <4>1, <4>2, <4>3, <4>4 DEF CountInv
        <4>6. old_size' > 0 /\ old_size' \in Nat
          BY <3>0, <4>4
        <4>7. QED
          BY <4>5, <4>6 DEF CountInv, Occ
      <3>3. QED
        BY <3>1, <3>2
    <2>6. QED
      BY <1>0, <1>1, <1>2, <2>1, <2>2, <2>3, <2>4, <2>5, WhoChanges
  <1>3. CASE Destroy
    <2>1. /\ elements' = NoElements(0) /\ hash_size' = 0 /\ hash_entry_count' = 0
          /\ old_size' = old_size /\ \A t \in Threads : pc[t] = "idle"
      BY <1>3 DEF Destroy, rehashing
    <2>2. ~(old_size' > 0)
      BY <1>0, <2>1 DEF SizeInv
    <2>3. Cardinality(Occ(elements', 0)) = 0
      BY OccNone
    <2>4. hash_entry_count' = Cardinality(Occ(elements', hash_size'))
      BY <2>1, <2>3
    <2>5. QED
      BY <2>2, <2>4 DEF CountInv, Occ
  <1>4. QED
    BY <1>1, <1>2, <1>3, NextCases DEF vars

-----------------------------------------------------------------------------
(* Scanning *)

\* One element more in the array of results.
LEMMA AppendRange ==
    ASSUME NEW s \in Seq(Entries), NEW e \in Entries
    PROVE  /\ Len(Append(s, e)) = Len(s) + 1
           /\ {Append(s, e)[j] : j \in 1..Len(Append(s, e))} = {s[j] : j \in 1..Len(s)} \cup {e}
  <1>1. Len(Append(s, e)) = Len(s) + 1 /\ Len(s) \in Nat
    OBVIOUS
  <1>2. \A j \in 1..Len(s) : Append(s, e)[j] = s[j]
    OBVIOUS
  <1>3. Append(s, e)[Len(s) + 1] = e
    OBVIOUS
  <1>4. 1..(Len(s) + 1) = (1..Len(s)) \cup {Len(s) + 1}
    BY <1>1
  <1>5. QED
    BY <1>1, <1>2, <1>3, <1>4, Zenon

LEMMA ScanStep == IInv /\ [Next]_vars => ScanInv'
  <1> SUFFICES ASSUME IInv, [Next]_vars PROVE ScanInv'
    OBVIOUS
  <1>0. TypeOK /\ PlaceInv /\ SizeInv /\ ScanInv
    BY DEF IInv
  <1> DEFINE Part(u) ==
        pc[u] = "scan" =>
            /\ si[u] <= hash_size
            /\ Len(array[u]) = Cardinality(Occ(elements, si[u]))
            /\ {array[u][j] : j \in 1..Len(array[u])} = {elements[j] : j \in Occ(elements, si[u])}
  <1>1. ASSUME NEW u \in Threads, UNCHANGED <<elements, hash_size>>,
               pc'[u] = pc[u], si'[u] = si[u], array'[u] = array[u]
        PROVE  Part(u)'
    <2> SUFFICES ASSUME pc'[u] = "scan"
                 PROVE  /\ si'[u] <= hash_size'
                        /\ Len(array'[u]) = Cardinality(Occ(elements, si[u])')
                        /\ {array'[u][j] : j \in 1..Len(array'[u])}
                             = {elements'[j] : j \in Occ(elements, si[u])'}
      OBVIOUS
    <2>1. /\ si[u] <= hash_size
          /\ Len(array[u]) = Cardinality(Occ(elements, si[u]))
          /\ {array[u][j] : j \in 1..Len(array[u])} = {elements[j] : j \in Occ(elements, si[u])}
      BY <1>0, <1>1 DEF ScanInv
    <2>2. Occ(elements, si[u])' = Occ(elements, si[u])
      BY <1>1 DEF Occ
    <2>3. QED
      BY <1>1, <2>1, <2>2
  <1>2. ASSUME NEW t \in Threads, Acts(t), NEW u \in Threads, u # t PROVE Part(u)'
    <2>1. /\ pc'[u] = pc[u] /\ si'[u] = si[u] /\ array'[u] = array[u]
      BY <1>0, <1>2, OthersStay
    <2>2. CASE pc[u] = "scan"
      BY <1>1, <1>2, <2>1, <2>2, StillForOthers DEF Inside, table
    <2>3. CASE pc[u] # "scan"
      BY <2>1, <2>3
    <2>4. QED
      BY <2>2, <2>3
  <1>3. ASSUME NEW t \in Threads, Acts(t) PROVE Part(t)'
    <2> USE <1>0 DEF Goto
    <2>1. ASSUME pc'[t] # "scan" PROVE Part(t)'
      BY <2>1
    <2>2. CASE RdLock(t)
      <3>1. si'[t] = 0 /\ array'[t] = <<>> /\ hash_size' \in Nat
        BY <2>2 DEF RdLock, PlaceInv, scan, table, TypeOK
      <3>2. Occ(elements', 0) = {} /\ Cardinality(Occ(elements', 0)) = 0
        BY OccNone
      <3>3. Len(array'[t]) = 0 /\ 1..Len(array'[t]) = {}
        BY <3>1
      <3>4. /\ Len(array'[t]) = Cardinality(Occ(elements', si'[t]))
            /\ {array'[t][j] : j \in 1..Len(array'[t])} = {elements'[j] : j \in Occ(elements', si'[t])}
        BY <3>1, <3>2, <3>3
      <3>5. si'[t] <= hash_size'
        BY <3>1
      <3>6. QED
        BY <3>4, <3>5 DEF Occ
    <2>3. CASE Scan(t)
      <3>0. UNCHANGED <<elements, hash_size>> /\ si[t] \in Nat /\ hash_size \in Nat
            /\ array[t] \in Seq(Entries) /\ pc[t] = "scan"
        BY <2>3 DEF Scan, table, TypeOK
      <3>1. CASE ~(si[t] < hash_size)
        BY <2>1, <2>3, <3>1 DEF Scan, TypeOK
      <3>2. CASE si[t] < hash_size
        <4> DEFINE e == elements[si[t]]
        <4>1. si'[t] = si[t] + 1 /\ si[t] + 1 <= hash_size
          BY <2>3, <3>0, <3>2 DEF Scan, TypeOK
        <4>2. /\ Len(array[t]) = Cardinality(Occ(elements, si[t]))
              /\ {array[t][j] : j \in 1..Len(array[t])} = {elements[j] : j \in Occ(elements, si[t])}
          BY <3>0 DEF ScanInv
        <4>3. /\ Len(array'[t]) = Cardinality(Occ(elements, si[t] + 1))
              /\ {array'[t][j] : j \in 1..Len(array'[t])} = {elements[j] : j \in Occ(elements, si[t] + 1)}
          <5>1. CASE Occupied(e)
            <6>1. array'[t] = Append(array[t], e) /\ e \in Entries
              BY <2>3, <3>2, <5>1 DEF Scan, TypeOK, Occupied
            <6>2. /\ Occ(elements, si[t] + 1) = Occ(elements, si[t]) \cup {si[t]}
                  /\ Cardinality(Occ(elements, si[t] + 1)) = Cardinality(Occ(elements, si[t])) + 1
              BY <3>0, <5>1, OccNext
            <6>3. /\ Len(array'[t]) = Len(array[t]) + 1
                  /\ {array'[t][j] : j \in 1..Len(array'[t])} = {array[t][j] : j \in 1..Len(array[t])} \cup {e}
              BY <3>0, <6>1, AppendRange
            <6>4. {elements[j] : j \in Occ(elements, si[t] + 1)}
                    = {elements[j] : j \in Occ(elements, si[t])} \cup {e}
              BY <6>2
            <6>5. QED
              BY <4>2, <6>2, <6>3, <6>4
          <5>2. CASE ~Occupied(e)
            <6>1. array'[t] = array[t]
              BY <2>3, <3>2, <5>2 DEF Scan
            <6>2. Occ(elements, si[t] + 1) = Occ(elements, si[t])
              BY <3>0, <5>2, OccNext
            <6>3. QED
              BY <4>2, <6>1, <6>2
          <5>3. QED
            BY <5>1, <5>2
        <4>4. QED
          BY <3>0, <4>1, <4>3 DEF Occ
      <3>3. QED
        BY <3>1, <3>2
    <2>4. CASE Call(t) \/ WrLock(t)
      BY <2>1, <2>4 DEF Call, WrLock, TypeOK
    <2>5. CASE Find(t)
      BY <2>1, <2>5 DEF Find, TypeOK
    <2>6. CASE AddDuplicate(t) \/ AddStore(t) \/ NoRehash(t) \/ RehashStart(t)
               \/ GetResult(t) \/ RemoveResult(t) \/ RwUnlock(t) \/ Return(t)
      BY <2>1, <2>6 DEF AddDuplicate, AddStore, NoRehash, RehashStart, GetResult,
                        RemoveResult, RwUnlock, Return, TypeOK
    <2>7. CASE RehashNext(t)
      BY <2>1, <2>7 DEF RehashNext, TypeOK
    <2>8. CASE RehashFind(t)
      BY <2>1, <2>8 DEF RehashFind, TypeOK
    <2>9. QED
      BY <1>3, <2>2, <2>3, <2>4, <2>5, <2>6, <2>7, <2>8 DEF Acts, Step
  <1>4. ASSUME NEW t \in Threads, Acts(t) PROVE ScanInv'
    BY <1>2, <1>3, <1>4 DEF ScanInv
  <1>5. CASE Destroy
    BY <1>5 DEF Destroy, ScanInv
  <1>6. CASE UNCHANGED vars
    <2>1. \A u \in Threads : Part(u)'
      BY <1>1, <1>6 DEF vars, table, scan
    <2>2. QED
      BY <2>1 DEF ScanInv
  <1>7. QED
    BY <1>4, <1>5, <1>6, NextCases

-----------------------------------------------------------------------------

LEMMA InitIInv == Init => IInv
  <1> SUFFICES ASSUME Init PROVE IInv
    OBVIOUS
  <1>1. PICK p \in (HASH_INIT_SIZE + 1)..(2 * HASH_INIT_SIZE) :
           hash_size = p /\ elements = NoElements(p)
    BY DEF Init
  <1>2. p \in Nat /\ p > 0 /\ hash_size \in Nat /\ hash_size > 0
    BY <1>1, SizeAssumption
  <1>3. /\ elements \in [0..(hash_size - 1) -> Entries \cup {Empty, Removed}]
        /\ NoElements(0) \in [0..(0 - 1) -> Entries \cup {Empty, Removed}]
        /\ \A i \in DOMAIN elements : ~Occupied(elements[i])
    BY <1>1, <1>2, EntryAssumption DEF NoElements, Occupied
  <1>4. TypeOK
    <2>1. ri \in 0..old_size /\ ncalls \in 0..MaxCalls /\ 0 \in 0..MaxLevel
      BY BoundAssumption, HashAssumption DEF Init
    <2>2. /\ array \in [Threads -> Seq(Entries)] /\ si \in [Threads -> Nat]
          /\ status \in [Threads -> Entries \cup {Empty}]
          /\ index \in [Threads -> Nat] /\ level \in [Threads -> 0..MaxLevel]
      BY <2>1 DEF Init
    <2>3. /\ pc \in [Threads -> {"idle", "lock", "find", "found", "stored", "rehash",
                                 "refind", "scan", "unlock", "return"}]
          /\ op \in [Threads -> Ops \cup {NoOp}] /\ ret \in [Threads -> Rets]
      BY DEF Init, Rets, NoRet
    <2>4. old_elements \in [0..(old_size - 1) -> Entries \cup {Empty, Removed}] /\ old_size \in Nat
      BY <1>3 DEF Init
    <2>5. /\ readers \subseteq Threads /\ writer \in Threads \cup {NoThread}
          /\ hash_entry_count \in Nat /\ hash_entry_removed_count \in Nat /\ destroyed \in BOOLEAN
      BY DEF Init
    <2>6. QED
      BY <1>2, <1>3, <2>1, <2>2, <2>3, <2>4, <2>5 DEF TypeOK
  <1>5. LockInv
    BY ThreadAssumption DEF Init, LockInv, Inside
  <1>6. PlaceInv /\ SizeInv /\ SearchInv /\ RehashInv /\ ScanInv
    BY <1>2 DEF Init, PlaceInv, SizeInv, SearchInv, RehashInv, ScanInv
  <1>7. Findable
    BY <1>3 DEF Findable
  <1>8. CountInv
    <2>1. Cardinality(Occ(elements, hash_size)) = 0
      BY <1>1, <1>2, OccEmpty
    <2>2. hash_entry_count = 0 /\ old_size = 0
      BY DEF Init
    <2>3. QED
      BY <2>1, <2>2 DEF CountInv
  <1>9. QED
    BY <1>4, <1>5, <1>6, <1>7, <1>8 DEF IInv

LEMMA Invariance == Spec => []IInv
  <1>1. IInv /\ [Next]_vars => IInv'
    <2> SUFFICES ASSUME IInv, [Next]_vars PROVE IInv'
      OBVIOUS
    <2>1. TypeOK' /\ LockInv' /\ PlaceInv' /\ SizeInv'
      BY TypeStep, LockStep, PlaceStep, SizeStep
    <2>2. SearchInv' /\ Findable' /\ RehashInv' /\ CountInv' /\ ScanInv'
      BY SearchStep, FindableStep, RehashStep, CountStep, ScanStep
    <2>3. QED
      BY <2>1, <2>2 DEF IInv
  <1>2. QED
    BY <1>1, InitIInv, PTL DEF Spec

\* The type invariant: every variable keeps its type, and every index that
\* hash_find, rehash and the scan use stays inside its array.
THEOREM TypeCorrect == Spec => []TypeOK
  <1>1. IInv => TypeOK
    BY DEF IInv
  <1>2. QED
    BY <1>1, Invariance, PTL

\* hash_add, hash_get, hash_remove and hash_get_entries never return with
\* hash_rwlock held: the early return of rehash's failure is never taken.
THEOREM LocksAreReleased == Spec => []NoLockLeak
  <1>1. IInv => NoLockLeak
    BY DEF IInv, LockInv, NoLockLeak, Inside
  <1>2. QED
    BY <1>1, Invariance, PTL

\* The search for the key of a stored entry ends at that entry, whatever
\* was removed, added or rehashed before.
THEOREM EntriesAreFindable == Spec => []Findable
  <1>1. IInv => Findable
    BY DEF IInv
  <1>2. QED
    BY <1>1, Invariance, PTL

\* hash_get_entries never writes past the hash_entry_count pointers it has
\* allocated.
THEOREM ScanStaysInItsArray == Spec => []ScanFits
  <1>1. IInv => ScanFits
    <2> SUFFICES ASSUME IInv, NEW t \in Threads, pc[t] = "scan"
                 PROVE  Len(array[t]) <= hash_entry_count
      BY DEF ScanFits
    <2>1. /\ si[t] \in 0..hash_size /\ hash_size \in Nat
          /\ Len(array[t]) = Cardinality(Occ(elements, si[t]))
      BY DEF IInv, ScanInv, TypeOK
    <2>2. hash_entry_count = Cardinality(Occ(elements, hash_size))
      BY OneArray DEF IInv, CountInv
    <2>3. QED
      BY <2>1, <2>2, OccPart
  <1>2. QED
    BY <1>1, Invariance, PTL

-----------------------------------------------------------------------------
(* The table is a keyed set *)

\* The members of the abstract set.
LEMMA HeldMember ==
    TypeOK =>
        /\ old_size = 0 => \A e : e \in Held <=>
              (e \in Entries /\ \E i \in 0..(hash_size - 1) : elements[i] = e)
        /\ old_size > 0 => \A e : e \in Held <=>
              (e \in Entries /\ \E i \in 0..(old_size - 1) : old_elements[i] = e)
  <1> SUFFICES ASSUME TypeOK
               PROVE  /\ old_size = 0 => \A e : e \in Held <=>
                            (e \in Entries /\ \E i \in 0..(hash_size - 1) : elements[i] = e)
                      /\ old_size > 0 => \A e : e \in Held <=>
                            (e \in Entries /\ \E i \in 0..(old_size - 1) : old_elements[i] = e)
    OBVIOUS
  <1>1. /\ DOMAIN elements = 0..(hash_size - 1) /\ DOMAIN old_elements = 0..(old_size - 1)
        /\ old_size > 0 => old_size # 0
    BY DEF TypeOK
  <1>2. QED
    BY <1>1 DEF Held, Source

LEMMA HeldKept ==
    ASSUME UNCHANGED <<elements, rehashing>>
    PROVE  Held' = Held
  BY DEF Held, Source, rehashing

\* What the search for a key has found, in terms of the set.
LEMMA FoundMeaning ==
    ASSUME IInv, NEW t \in Threads, pc[t] = "found"
    PROVE  /\ status[t] = Empty => \A e \in Held : KeyOf[e] # OpKey(op[t])
           /\ status[t] # Empty =>
                 /\ status[t] \in Held /\ KeyOf[status[t]] = OpKey(op[t])
                 /\ elements[index[t]] = status[t]
                 /\ \A e \in Held : KeyOf[e] = OpKey(op[t]) => e = status[t]
  <1>0. TypeOK /\ PlaceInv /\ SizeInv /\ SearchInv /\ Findable
    BY DEF IInv
  <1>1. /\ index[t] \in 0..(hash_size - 1) /\ index[t] = Slot(OpKey(op[t]), level[t])
        /\ status[t] = elements[index[t]]
        /\ status[t] = Empty \/ (Occupied(status[t]) /\ KeyOf[status[t]] = OpKey(op[t]))
    BY <1>0, FoundFacts
  <1>2. \A e : e \in Held <=> (e \in Entries /\ \E i \in 0..(hash_size - 1) : elements[i] = e)
    BY <1>0, OneArray, HeldMember
  <1>3. ASSUME NEW e \in Held, KeyOf[e] = OpKey(op[t]) PROVE e = status[t] /\ e # Empty
    <2>1. PICK i \in 0..(hash_size - 1) : elements[i] = e
      BY <1>2
    <2>2. Occupied(elements[i]) /\ e # Empty
      BY <1>2, <2>1, EntryAssumption DEF Occupied
    <2>3. /\ Passed(OpKey(op[t]), level[t]) /\ SearchEnds(OpKey(op[t]), level[t])
          /\ OpKey(op[t]) \in Keys /\ level[t] \in 0..MaxLevel /\ ~destroyed
      <3>1. op[t].kind # "entries"
        BY <1>0 DEF PlaceInv
      <3>2. QED
        BY <1>0, <3>1, CallFacts DEF SearchInv
    <2>4. i = Slot(OpKey(op[t]), level[t])
      BY <1>0, <1>3, <2>1, <2>2, <2>3, SearchFinds
    <2>5. QED
      BY <1>1, <2>1, <2>2, <2>4
  <1>4. QED
    BY <1>1, <1>2, <1>3 DEF Occupied

\* hash_add makes its entry a member.
LEMMA AddHeld ==
    ASSUME IInv, TypeOK', NEW t \in Threads, AddStore(t)
    PROVE  Held' = Held \cup {op[t].entry}
  <1>0. TypeOK
    BY DEF IInv
  <1>1. /\ op[t].entry \in Entries /\ index[t] \in 0..(hash_size - 1)
        /\ elements[index[t]] = Empty
        /\ elements' = [elements EXCEPT ![index[t]] = op[t].entry]
        /\ hash_size' = hash_size /\ old_size = 0 /\ old_size' = 0
    BY AddStoreEffect DEF rehashing
  <1>2. /\ elements'[index[t]] = op[t].entry
        /\ \A i \in 0..(hash_size - 1) : i # index[t] => elements'[i] = elements[i]
    BY <1>0, <1>1 DEF TypeOK
  <1>3. \A e : e \in Held <=> (e \in Entries /\ \E i \in 0..(hash_size - 1) : elements[i] = e)
    BY <1>0, <1>1, HeldMember
  <1>4. \A e : e \in Held' <=> (e \in Entries /\ \E i \in 0..(hash_size - 1) : elements'[i] = e)
    <2>1. (TypeOK => (old_size = 0 => \A e : e \in Held <=>
              (e \in Entries /\ \E i \in 0..(hash_size - 1) : elements[i] = e)))'
      BY HeldMember, PTL
    <2>2. QED
      BY <1>1, <2>1
  <1>5. Empty \notin Entries
    BY EntryAssumption
  <1>6. QED
    BY <1>1, <1>2, <1>3, <1>4, <1>5

\* hash_remove drops the entry with the key.
LEMMA RemoveHeld ==
    ASSUME IInv, TypeOK', NEW t \in Threads, RemoveResult(t)
    PROVE  Held' = Held \ {e \in Held : KeyOf[e] = op[t].key}
  <1>0. TypeOK /\ PlaceInv /\ SizeInv
    BY DEF IInv
  <1>1. /\ old_size = 0 /\ hash_size' = hash_size /\ UNCHANGED rehashing /\ old_size' = 0
        /\ pc[t] = "found" /\ op[t].kind = "remove"
    BY RemoveEffect DEF rehashing
  <1>2. OpKey(op[t]) = op[t].key
    BY <1>1 DEF OpKey
  <1>3. CASE status[t] = Empty
    <2>1. UNCHANGED elements
      BY <1>3 DEF RemoveResult
    <2>2. QED
      BY <1>1, <1>2, <1>3, <2>1, HeldKept, FoundMeaning
  <1>4. CASE status[t] # Empty
    <2> DEFINE s == index[t]
    <2>1. elements' = [elements EXCEPT ![s] = Removed]
      BY <1>4 DEF RemoveResult
    <2>2. /\ s \in 0..(hash_size - 1) /\ elements[s] = status[t] /\ Occupied(elements[s])
      BY <1>0, <1>1, <1>4, FoundFacts DEF IInv
    <2>3. /\ elements'[s] = Removed
          /\ \A i \in 0..(hash_size - 1) : i # s => elements'[i] = elements[i]
      BY <1>0, <2>1, <2>2 DEF TypeOK
    <2>4. \A e : e \in Held <=> (e \in Entries /\ \E i \in 0..(hash_size - 1) : elements[i] = e)
      BY <1>0, <1>1, HeldMember
    <2>5. \A e : e \in Held' <=> (e \in Entries /\ \E i \in 0..(hash_size - 1) : elements'[i] = e)
      <3>1. (TypeOK => (old_size = 0 => \A e : e \in Held <=>
                (e \in Entries /\ \E i \in 0..(hash_size - 1) : elements[i] = e)))'
        BY HeldMember, PTL
      <3>2. QED
        BY <1>1, <3>1
    <2>6. \A e \in Held : KeyOf[e] = op[t].key <=> e = status[t]
      BY <1>1, <1>2, <1>4, FoundMeaning
    <2>7. \A i \in 0..(hash_size - 1) : elements[i] = status[t] => i = s
      <3>1. ~destroyed /\ Findable
        BY <1>0, <1>1, CallFacts DEF IInv
      <3>2. QED
        BY <1>0, <2>2, <3>1, DistinctKeys
    <2>8. Removed \notin Entries
      BY EntryAssumption
    <2>9. ASSUME NEW e, e \in Held' PROVE e \in Held /\ e # status[t]
      BY <2>2, <2>3, <2>4, <2>5, <2>7, <2>8, <2>9
    <2>10. ASSUME NEW e \in Held, e # status[t] PROVE e \in Held'
      BY <2>2, <2>3, <2>4, <2>5, <2>10
    <2>11. QED
      BY <2>6, <2>9, <2>10
  <1>5. QED
    BY <1>3, <1>4

\* A rehash changes no member.
LEMMA RehashHeld ==
    ASSUME IInv, TypeOK', NEW t \in Threads, RehashStart(t) \/ RehashNext(t) \/ RehashFind(t)
    PROVE  Held' = Held
  <1>0. TypeOK /\ RehashInv
    BY DEF IInv
  <1>1. CASE RehashStart(t)
    BY <1>1, RehashStartEffect DEF Held, Source
  <1>2. CASE RehashFind(t)
    <2>1. /\ UNCHANGED <<old_elements, old_size>> /\ old_size # 0
      BY <1>0, <1>2, RehashFindEffect DEF TypeOK
    <2>2. QED
      BY <2>1 DEF Held, Source
  <1>3. CASE RehashNext(t)
    <2>1. /\ old_size > 0 /\ old_size # 0 /\ UNCHANGED <<elements, hash_size>>
      BY <1>0, <1>3, RehashNextEffect DEF table, TypeOK
    <2>2. CASE UNCHANGED <<old_elements, old_size>>
      BY <2>1, <2>2 DEF Held, Source
    <2>3. CASE ri = old_size /\ old_size' = 0
      <3>1. \A e : e \in Held <=> (e \in Entries /\ \E i \in 0..(old_size - 1) : old_elements[i] = e)
        BY <1>0, <2>1, HeldMember
      <3>2. \A e : e \in Held' <=> (e \in Entries /\ \E i \in 0..(hash_size - 1) : elements[i] = e)
        <4>1. (TypeOK => (old_size = 0 => \A e : e \in Held <=>
                  (e \in Entries /\ \E i \in 0..(hash_size - 1) : elements[i] = e)))'
          BY HeldMember, PTL
        <4>2. QED
          BY <2>1, <2>3, <4>1
      <3>3. QED
        BY <1>0, <2>1, <2>3, <3>1, <3>2 DEF RehashInv, Occupied
    <2>4. QED
      BY <1>3, <2>2, <2>3, RehashNextEffect DEF rehashing
  <1>4. QED
    BY <1>1, <1>2, <1>3

\* hash_entry_count is the number of members.
LEMMA HeldCount ==
    ASSUME IInv, ~destroyed, old_size = 0
    PROVE  /\ hash_entry_count = Cardinality(Held)
           /\ Held = {elements[j] : j \in Occ(elements, hash_size)}
  <1>0. TypeOK /\ SizeInv /\ Findable /\ hash_size \in Nat
    BY DEF IInv, TypeOK
  <1> DEFINE S == Occ(elements, hash_size)
             f == [j \in S |-> elements[j]]
  <1>1. \A e : e \in Held <=> (e \in Entries /\ \E i \in 0..(hash_size - 1) : elements[i] = e)
    BY <1>0, HeldMember
  <1>2. \A j \in S : j \in 0..(hash_size - 1) /\ Occupied(elements[j]) /\ elements[j] \in Held
    BY <1>1 DEF Occ, Occupied
  <1>3. \A e \in Held : \E j \in S : elements[j] = e
    BY <1>1 DEF Occ, Occupied
  <1>4. \A i, j \in S : elements[i] = elements[j] => i = j
    BY <1>0, <1>2, DistinctKeys
  <1>5. IsFiniteSet(S) /\ hash_entry_count = Cardinality(S)
    BY <1>0, OccFinite DEF IInv, CountInv
  <1> HIDE DEF S
  <1>6. f \in Bijection(S, Held)
    BY <1>2, <1>3, <1>4 DEF Bijection, Injection, Surjection, IsInjective
  <1>7. Cardinality(S) = Cardinality(Held)
    BY <1>5, <1>6, FS_Bijection DEF ExistsBijection
  <1>8. QED
    BY <1>2, <1>3, <1>5, <1>7 DEF S

\* The phase of a call at a place.
PhaseOf(p) ==
    IF p = "idle" THEN "idle"
    ELSE IF p \in {"lock", "find", "found", "scan"} THEN "called" ELSE "done"

LEMMA PhaseGoto ==
    ASSUME TypeOK, NEW t \in Threads, NEW p, pc' = [pc EXCEPT ![t] = p]
    PROVE  Phase' = [Phase EXCEPT ![t] = PhaseOf(p)] /\ Phase[t] = PhaseOf(pc[t])
  BY DEF TypeOK, Phase, PhaseOf

\* A step between two moments a caller can tell apart.
LEMMA Stutter ==
    ASSUME TypeOK, NEW t \in Threads, NEW p, pc' = [pc EXCEPT ![t] = p],
           PhaseOf(p) = PhaseOf(pc[t]), UNCHANGED <<op, ret>>, Held' = Held
    PROVE  UNCHANGED Abstract!avars
  <1>1. Phase' = Phase
    BY DEF TypeOK, Phase, PhaseOf
  <1>2. QED
    BY <1>1 DEF Abstract!avars

LEMMA SetStep == IInv /\ [Next]_vars => [Abstract!ANext]_(Abstract!avars)
  <1> SUFFICES ASSUME IInv, [Next]_vars PROVE [Abstract!ANext]_(Abstract!avars)
    OBVIOUS
  <1>0. TypeOK /\ TypeOK' /\ PlaceInv /\ SizeInv
    BY TypeStep DEF IInv
  <1>1. ASSUME UNCHANGED vars PROVE UNCHANGED Abstract!avars
    BY <1>1 DEF vars, table, rehashing, Abstract!avars, Held, Source, Phase
  <1>2. CASE Destroy
    <2>1. /\ UNCHANGED <<rehashing, pc, op, ret>> /\ elements' = NoElements(0)
          /\ \A t \in Threads : pc[t] = "idle"
      BY <1>2 DEF Destroy
    <2>2. old_size' = 0
      BY <1>0, <2>1 DEF SizeInv, TypeOK, rehashing
    <2>3. Held' = {}
      BY <2>1, <2>2 DEF Held, Source, NoElements
    <2>4. Phase' = Phase /\ \A t \in Threads : Phase[t] = "idle"
      BY <2>1 DEF Phase
    <2>5. Abstract!ADestroy
      BY <2>1, <2>3, <2>4 DEF Abstract!ADestroy
    <2>6. QED
      BY <2>5 DEF Abstract!ANext
  <1>3. ASSUME NEW t \in Threads, Acts(t) PROVE [Abstract!ANext]_(Abstract!avars)
    <2> DEFINE AStep == \/ Abstract!ACall(t) \/ Abstract!AAdd(t) \/ Abstract!AGet(t)
                        \/ Abstract!ARemove(t) \/ Abstract!AEntries(t) \/ Abstract!AReturn(t)
    <2>0. SUFFICES AStep \/ UNCHANGED Abstract!avars
      BY DEF Abstract!ANext
    <2> USE <1>0 DEF Goto
    <2>1. CASE Call(t)
      <3>1. /\ pc[t] = "idle" /\ pc' = [pc EXCEPT ![t] = "lock"] /\ UNCHANGED ret /\ Held' = Held
            /\ \E o \in Ops : op' = [op EXCEPT ![t] = o]
        BY <2>1, HeldKept DEF Call, table
      <3>2. Phase[t] = "idle" /\ Phase' = [Phase EXCEPT ![t] = "called"]
        BY <3>1, PhaseGoto DEF PhaseOf
      <3>3. QED
        BY <3>1, <3>2 DEF Abstract!ACall, Abstract!Calls, Ops
    <2>2. CASE WrLock(t) \/ RdLock(t)
      <3>1. /\ pc[t] = "lock" /\ UNCHANGED <<op, ret>> /\ Held' = Held
            /\ pc' = [pc EXCEPT ![t] = "find"] \/ pc' = [pc EXCEPT ![t] = "scan"]
        BY <2>2, HeldKept DEF WrLock, RdLock, table
      <3>2. QED
        BY <3>1, Stutter DEF PhaseOf
    <2>3. CASE Find(t)
      <3>1. /\ pc[t] = "find" /\ UNCHANGED <<op, ret>> /\ Held' = Held
            /\ pc' = [pc EXCEPT ![t] = "found"] \/ pc' = [pc EXCEPT ![t] = "find"]
        BY <2>3, HeldKept DEF Find, table, TypeOK
      <3>2. QED
        BY <3>1, Stutter DEF PhaseOf
    <2>4. CASE NoRehash(t) \/ RwUnlock(t)
      <3>1. /\ pc[t] \in {"stored", "unlock"} /\ UNCHANGED <<op, ret>> /\ Held' = Held
            /\ pc' = [pc EXCEPT ![t] = "unlock"] \/ pc' = [pc EXCEPT ![t] = "return"]
        BY <2>4, HeldKept DEF NoRehash, RwUnlock, table
      <3>2. QED
        BY <3>1, Stutter DEF PhaseOf
    <2>5. CASE RehashStart(t) \/ RehashNext(t)
      <3>1. Held' = Held
        BY <2>5, RehashHeld
      <3>2. /\ pc[t] \in {"stored", "rehash"} /\ UNCHANGED <<op, ret>>
            /\ \E p \in {"rehash", "refind", "unlock"} : pc' = [pc EXCEPT ![t] = p]
        <4>1. CASE RehashStart(t)
          BY <4>1 DEF RehashStart
        <4>2. CASE RehashNext(t)
          BY <4>2, RehashNextEffect DEF TypeOK
        <4>3. QED
          BY <2>5, <4>1, <4>2
      <3>3. QED
        BY <3>1, <3>2, Stutter DEF PhaseOf
    <2>6. CASE RehashFind(t)
      <3>1. Held' = Held
        BY <2>6, RehashHeld
      <3>2. /\ pc[t] = "refind" /\ UNCHANGED <<op, ret>>
        BY <2>6, RehashFindEffect
      <3>3. \E p \in {"rehash", "refind"} : pc' = [pc EXCEPT ![t] = p]
        <4>1. UNCHANGED pc \/ pc'[t] = "rehash"
          BY <2>6, RehashFindEffect
        <4>2. UNCHANGED pc \/ pc' = [pc EXCEPT ![t] = "rehash"] \/ pc' = [pc EXCEPT ![t] = "return"]
          BY <2>6 DEF RehashFind
        <4>3. QED
          BY <3>2, <4>1, <4>2 DEF TypeOK
      <3>4. QED
        BY <3>1, <3>2, <3>3, Stutter DEF PhaseOf
    <2>7. CASE Return(t)
      <3>1. /\ pc[t] = "return" /\ pc' = [pc EXCEPT ![t] = "idle"] /\ Held' = Held
            /\ op' = [op EXCEPT ![t] = NoOp] /\ ret' = [ret EXCEPT ![t] = NoRet]
        BY <2>7, HeldKept DEF Return, table
      <3>2. Phase[t] = "done" /\ Phase' = [Phase EXCEPT ![t] = "idle"]
        BY <3>1, PhaseGoto DEF PhaseOf
      <3>3. QED
        BY <3>1, <3>2 DEF Abstract!AReturn, Abstract!NoCall, Abstract!NoResult, NoOp, NoRet
    <2>8. ASSUME pc[t] \in {"found", "scan"}, NEW p \in {"unlock", "stored"},
                 pc' = [pc EXCEPT ![t] = p], UNCHANGED op,
                 NEW r, ret' = [ret EXCEPT ![t] = r]
          PROVE  Abstract!Effect(t, r)
      <3>1. Phase[t] = "called" /\ Phase' = [Phase EXCEPT ![t] = "done"]
        BY <2>8, PhaseGoto DEF PhaseOf
      <3>2. QED
        BY <2>8, <3>1 DEF Abstract!Effect
    <2>9. CASE AddDuplicate(t)
      <3>1. /\ pc[t] = "found" /\ op[t].kind = "add" /\ status[t] # Empty
            /\ pc' = [pc EXCEPT ![t] = "unlock"] /\ Held' = Held /\ UNCHANGED op
            /\ ret' = [ret EXCEPT ![t] = [kind |-> "ret", ok |-> FALSE]]
        BY <2>9, HeldKept DEF AddDuplicate, SetRet, table
      <3>2. status[t] \in Held /\ KeyOf[status[t]] = KeyOf[op[t].entry]
        BY <3>1, FoundMeaning DEF OpKey
      <3>3. Abstract!WithKey(KeyOf[op[t].entry]) # {}
        BY <3>2 DEF Abstract!WithKey
      <3>4. (Abstract!WithKey(KeyOf[op[t].entry]) = {}) = FALSE
        BY <3>3
      <3>5. Abstract!Effect(t, [kind |-> "ret", ok |-> FALSE])
        BY <2>8, <3>1
      <3>6. QED
        BY <3>1, <3>4, <3>5 DEF Abstract!AAdd
    <2>10. CASE AddStore(t)
      <3>1. /\ pc[t] = "found" /\ op[t].kind = "add" /\ status[t] = Empty
            /\ pc' = [pc EXCEPT ![t] = "stored"] /\ UNCHANGED op
            /\ ret' = [ret EXCEPT ![t] = [kind |-> "ret", ok |-> TRUE]]
        BY <2>10 DEF AddStore, SetRet
      <3>2. Held' = Held \cup {op[t].entry}
        BY <2>10, AddHeld
      <3>3. \A e \in Held : KeyOf[e] # KeyOf[op[t].entry]
        BY <3>1, FoundMeaning DEF OpKey
      <3>4. Abstract!WithKey(KeyOf[op[t].entry]) = {}
        BY <3>3 DEF Abstract!WithKey
      <3>5. (Abstract!WithKey(KeyOf[op[t].entry]) = {}) = TRUE
        BY <3>4
      <3>6. Abstract!Effect(t, [kind |-> "ret", ok |-> TRUE])
        BY <2>8, <3>1
      <3>7. QED
        BY <3>1, <3>2, <3>5, <3>6 DEF Abstract!AAdd
    <2>11. CASE GetResult(t)
      <3> DEFINE e == IF status[t] = Empty THEN NoEntry ELSE elements[index[t]]
      <3>1. /\ pc[t] = "found" /\ op[t].kind = "get"
            /\ pc' = [pc EXCEPT ![t] = "unlock"] /\ Held' = Held /\ UNCHANGED op
            /\ ret' = [ret EXCEPT ![t] = [kind |-> "entry", entry |-> e]]
        BY <2>11, HeldKept DEF GetResult, SetRet, table
      <3>2. OpKey(op[t]) = op[t].key
        BY <3>1 DEF OpKey
      <3>3. /\ e \in Entries \cup {NoEntry}
            /\ IF Abstract!WithKey(op[t].key) = {} THEN e = NoEntry
                                                   ELSE e \in Abstract!WithKey(op[t].key)
        BY <3>1, <3>2, FoundMeaning DEF Abstract!WithKey, Held
      <3>4. Abstract!Effect(t, [kind |-> "entry", entry |-> e])
        BY <2>8, <3>1
      <3> HIDE DEF e
      <3>5. QED
        BY <3>1, <3>3, <3>4 DEF Abstract!AGet
    <2>12. CASE RemoveResult(t)
      <3>1. /\ pc[t] = "found" /\ op[t].kind = "remove"
            /\ pc' = [pc EXCEPT ![t] = "unlock"] /\ UNCHANGED op
            /\ ret' = [ret EXCEPT ![t] = [kind |-> "ret", ok |-> TRUE]]
        BY <2>12 DEF RemoveResult, SetRet
      <3>2. Held' = Held \ {f \in Held : KeyOf[f] = op[t].key}
        BY <2>12, RemoveHeld
      <3>3. Abstract!Effect(t, [kind |-> "ret", ok |-> TRUE])
        BY <2>8, <3>1
      <3>4. QED
        BY <3>1, <3>2, <3>3 DEF Abstract!ARemove, Abstract!WithKey
    <2>13. CASE Scan(t)
      <3>0. pc[t] = "scan" /\ Held' = Held /\ UNCHANGED op
        BY <2>13, HeldKept DEF Scan, table
      <3>1. CASE si[t] < hash_size
        <4>1. UNCHANGED <<pc, ret>>
          BY <2>13, <3>1 DEF Scan
        <4>2. QED
          BY <3>0, <4>1 DEF Abstract!avars, Phase
      <3>2. CASE ~(si[t] < hash_size)
        <4> DEFINE r == [kind |-> "array", array |-> array[t], number |-> hash_entry_count]
        <4>1. pc' = [pc EXCEPT ![t] = "unlock"] /\ ret' = [ret EXCEPT ![t] = r]
          BY <2>13, <3>2 DEF Scan, SetRet
        <4>0. /\ r.kind = "array" /\ r.array = array[t] /\ r.number = hash_entry_count
          OBVIOUS
        <4> HIDE DEF r
        <4>2. Phase[t] = "called" /\ Phase' = [Phase EXCEPT ![t] = "done"]
          <5>1. /\ Phase' = [Phase EXCEPT ![t] = PhaseOf("unlock")]
                /\ Phase[t] = PhaseOf(pc[t])
            BY <4>1, PhaseGoto
          <5>2. PhaseOf("unlock") = "done" /\ PhaseOf("scan") = "called"
            BY DEF PhaseOf
          <5>3. QED
            BY <3>0, <5>1, <5>2
        <4>3. si[t] = hash_size
          <5>1. si[t] <= hash_size /\ si[t] \in Nat /\ hash_size \in Nat
            BY <3>0 DEF IInv, ScanInv, TypeOK
          <5>2. QED
            BY <3>2, <5>1
        <4>4. ~destroyed /\ old_size = 0 /\ op[t].kind = "entries"
          BY <3>0, CallFacts, OneArray DEF PlaceInv
        <4>5. /\ hash_entry_count = Cardinality(Held)
              /\ Held = {elements[j] : j \in Occ(elements, hash_size)}
          BY <4>4, HeldCount
        <4>6. /\ Len(array[t]) = Cardinality(Occ(elements, hash_size))
              /\ {array[t][j] : j \in 1..Len(array[t])} = Held
          BY <3>0, <4>3, <4>5 DEF IInv, ScanInv
        <4>7. Len(array[t]) = Cardinality(Held)
          BY <4>4, <4>5, <4>6 DEF IInv, CountInv
        <4>8. ret'[t] = r /\ ret' = [ret EXCEPT ![t] = ret'[t]]
          BY <4>1 DEF TypeOK
        <4>9. /\ ret'[t].kind = "array" /\ ret'[t].number = Cardinality(Held)
              /\ Len(ret'[t].array) = Cardinality(Held)
              /\ {ret'[t].array[i] : i \in 1..Len(ret'[t].array)} = Held
          <5>1. /\ ret'[t].kind = "array" /\ ret'[t].array = array[t]
                /\ ret'[t].number = hash_entry_count
            BY <4>0, <4>8
          <5>2. QED
            BY <4>5, <4>6, <4>7, <5>1, Zenon
        <4>10. Abstract!Cardinality(Held) = Cardinality(Held)
          BY DEF Abstract!Cardinality, Cardinality
        <4>11. QED
          BY <3>0, <4>2, <4>4, <4>8, <4>9, <4>10 DEF Abstract!AEntries
      <3>3. QED
        BY <3>1, <3>2
    <2>14. QED
      BY <1>3, <2>1, <2>2, <2>3, <2>4, <2>5, <2>6, <2>7, <2>9, <2>10, <2>11, <2>12, <2>13
         DEF Acts, Step
  <1>4. QED
    BY <1>1, <1>2, <1>3, NextCases

\* For any number of threads, keys, entries and any hash function, the table
\* implements the keyed set of hash.h: every call takes effect at one moment
\* between its start and its return, and a rehash loses and doubles nothing.
THEOREM ImplementsKeyedSet == Spec => Linearizable
  <1>1. Init => Abstract!AInit
    <2> SUFFICES ASSUME Init PROVE Abstract!AInit
      OBVIOUS
    <2>1. Held = {}
      BY EntryAssumption DEF Init, Held, Source, NoElements
    <2>2. QED
      BY <2>1 DEF Init, Abstract!AInit, Phase, NoOp, NoRet, Abstract!NoCall, Abstract!NoResult
  <1>2. QED
    BY <1>1, SetStep, Invariance, PTL DEF Spec, Linearizable, Abstract!ASpec
=============================================================================
