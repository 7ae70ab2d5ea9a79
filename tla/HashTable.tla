----------------------------- MODULE HashTable -----------------------------
(***************************************************************************)
(* The hash table of mylib/hash.c: open addressing with tombstones, one    *)
(* read-write lock, growth by rehashing.  Threads call hash_add, hash_get, *)
(* hash_remove and hash_get_entries (hash_get_keys is the same scan) at    *)
(* will; one action is one iteration of a loop of the code or the          *)
(* straight-line code between two loops.                                   *)
(*                                                                         *)
(* A slot holds Empty (HASH_EMPTY), Removed (HASH_REMOVED) or the entry of *)
(* an element whose status is HASH_OCCUPIED; the key and key_size stored   *)
(* beside it are those of the entry.                                       *)
(***************************************************************************)
EXTENDS Naturals, Sequences

CONSTANTS
    Threads, NoThread,
    Keys,
    Entries, NoEntry,   \* NoEntry is NULL
    KeyOf,              \* [Entries -> Keys], hash_entry_key_func
    Empty, Removed,
    HASH_INIT_SIZE,
    REHASH_RATE,
    MaxLevel,           \* the largest value of hash_find's level, a uint64_t
    MaxCalls,           \* bound: calls in a run
    HashFunc            \* [Keys -> [0..MaxLevel -> Nat]], hash_func

ASSUME ThreadAssumption == NoThread \notin Threads
ASSUME EntryAssumption ==
    /\ KeyOf \in [Entries -> Keys]
    /\ {Empty, Removed, NoEntry} \cap Entries = {}
    /\ Empty # Removed
ASSUME SizeAssumption ==
    /\ HASH_INIT_SIZE \in Nat \ {0}
    /\ REHASH_RATE \in Nat \ {0}
ASSUME BoundAssumption == MaxCalls \in Nat
ASSUME HashAssumption ==
    /\ MaxLevel \in Nat
    /\ HashFunc \in [Keys -> [0..MaxLevel -> Nat]]

VARIABLES
    readers, writer,    \* hash_rwlock
    elements,           \* hash->elements: [0..hash_size-1 -> slot]
    hash_size,
    hash_entry_count,
    hash_entry_removed_count,
    destroyed,
    old_elements,       \* rehash: the source array and the index in it
    old_size,
    ri,
    pc,                 \* per thread
    op,                 \* the call in progress
    level, index, status,   \* locals of hash_find and its caller
    si, array,          \* locals of hash_get_entries
    ret,                \* the result, once it is determined
    ncalls              \* calls so far, for the bound

table == <<elements, hash_size, hash_entry_count, hash_entry_removed_count,
           destroyed>>
rehashing == <<old_elements, old_size, ri>>
lock == <<readers, writer>>
find == <<level, index, status>>
scan == <<si, array>>
vars == <<table, rehashing, lock, find, scan, pc, op, ret, ncalls>>

NoOp == [kind |-> "none"]
NoRet == [kind |-> "none"]
Ops == [kind : {"add"}, entry : Entries] \cup [kind : {"get", "remove"}, key : Keys]
       \cup [kind : {"entries"}]

\* The key hash_find is called with on behalf of an operation.
OpKey(o) == IF o.kind = "add" THEN KeyOf[o.entry] ELSE o.key

\* The trial division of find_first_prime, up to (int)sqrt(n).
PassesTrialDivision(n) == \A i \in 2..n : i * i <= n => n % i # 0

\* find_first_prime(n) returns p.
FirstPrime(n, p) ==
    /\ PassesTrialDivision(p)
    /\ \A q \in (n + 1)..(p - 1) : ~PassesTrialDivision(q)

NoElements(n) == [i \in 0..(n - 1) |-> Empty]

\* hash_alloc
Init ==
    /\ \E p \in (HASH_INIT_SIZE + 1)..(2 * HASH_INIT_SIZE) :
          /\ FirstPrime(HASH_INIT_SIZE, p)
          /\ hash_size = p
          /\ elements = NoElements(p)
    /\ hash_entry_count = 0
    /\ hash_entry_removed_count = 0
    /\ destroyed = FALSE
    /\ old_elements = NoElements(0) /\ old_size = 0 /\ ri = 0
    /\ readers = {} /\ writer = NoThread
    /\ pc = [t \in Threads |-> "idle"]
    /\ op = [t \in Threads |-> NoOp]
    /\ level = [t \in Threads |-> 0]
    /\ index = [t \in Threads |-> 0]
    /\ status = [t \in Threads |-> Empty]
    /\ si = [t \in Threads |-> 0]
    /\ array = [t \in Threads |-> <<>>]
    /\ ret = [t \in Threads |-> NoRet]
    /\ ncalls = 0

Goto(t, to) == pc' = [pc EXCEPT ![t] = to]

Call(t) ==
    /\ pc[t] = "idle"
    /\ ~destroyed
    /\ ncalls < MaxCalls
    /\ ncalls' = ncalls + 1
    /\ \E o \in Ops : op' = [op EXCEPT ![t] = o]
    /\ Goto(t, "lock")
    /\ UNCHANGED <<table, rehashing, lock, find, scan, ret>>

\* my_wrlock of hash_add and hash_remove, and the start of hash_find.
WrLock(t) ==
    /\ pc[t] = "lock"
    /\ op[t].kind \in {"add", "remove"}
    /\ readers = {} /\ writer = NoThread
    /\ writer' = t
    /\ level' = [level EXCEPT ![t] = 0]
    /\ Goto(t, "find")
    /\ UNCHANGED <<table, rehashing, readers, index, status, scan, op, ret,
                   ncalls>>

\* my_rdlock of hash_get and of hash_get_entries, which allocates room for
\* hash_entry_count pointers and starts its scan.
RdLock(t) ==
    /\ pc[t] = "lock"
    /\ op[t].kind \in {"get", "entries"}
    /\ writer = NoThread
    /\ readers' = readers \cup {t}
    /\ level' = [level EXCEPT ![t] = 0]
    /\ Goto(t, IF op[t].kind = "get" THEN "find" ELSE "scan")
    /\ UNCHANGED <<table, rehashing, writer, index, status, scan, op, ret,
                   ncalls>>

\* The slot hash_find looks at for key k on level l.
Slot(k, l) == HashFunc[k][l] % hash_size

NextLevel(l) == (l + 1) % (MaxLevel + 1)

Occupied(e) == e \in Entries

\* One round of hash_find's loop for key k: the slot ends the search ...
SearchEnds(k, l) ==
    LET e == elements[Slot(k, l)]
    IN e = Empty \/ (Occupied(e) /\ KeyOf[e] = k)

\* ... or the next level is tried.
Find(t) ==
    /\ pc[t] = "find"
    /\ LET k == OpKey(op[t])
       IN IF SearchEnds(k, level[t])
          THEN /\ index' = [index EXCEPT ![t] = Slot(k, level[t])]
               /\ status' = [status EXCEPT ![t] = elements[Slot(k, level[t])]]
               /\ Goto(t, "found")
               /\ UNCHANGED level
          ELSE /\ level' = [level EXCEPT ![t] = NextLevel(@)]
               /\ UNCHANGED <<index, status, pc>>
    /\ UNCHANGED <<table, rehashing, lock, scan, op, ret, ncalls>>

SetRet(t, r) == ret' = [ret EXCEPT ![t] = r]

\* hash_add found the key: RET_FAILED.
AddDuplicate(t) ==
    /\ pc[t] = "found"
    /\ op[t].kind = "add"
    /\ status[t] # Empty
    /\ SetRet(t, [kind |-> "ret", ok |-> FALSE])
    /\ Goto(t, "unlock")
    /\ UNCHANGED <<table, rehashing, lock, find, scan, op, ncalls>>

\* Mutant: hash_entry_count ++ is missing.
AddStoreUncounted(t) ==
    /\ pc[t] = "found"
    /\ op[t].kind = "add"
    /\ status[t] = Empty
    /\ elements' = [elements EXCEPT ![index[t]] = op[t].entry]
    /\ SetRet(t, [kind |-> "ret", ok |-> TRUE])
    /\ Goto(t, "stored")
    /\ UNCHANGED <<hash_size, hash_entry_count, hash_entry_removed_count,
                   destroyed, rehashing, lock, find, scan, op, ncalls>>

\* hash_add stores the element and counts it.
AddStore(t) ==
    /\ pc[t] = "found"
    /\ op[t].kind = "add"
    /\ status[t] = Empty
    /\ elements' = [elements EXCEPT ![index[t]] = op[t].entry]
    /\ hash_entry_count' = hash_entry_count + 1
    /\ SetRet(t, [kind |-> "ret", ok |-> TRUE])
    /\ Goto(t, "stored")
    /\ UNCHANGED <<hash_size, hash_entry_removed_count, destroyed, rehashing,
                   lock, find, scan, op, ncalls>>

\* Mutant: tombstones are not part of the load.
OverloadedByEntries == hash_entry_count * REHASH_RATE > hash_size

\* (entries + tombstones) * REHASH_RATE > size
Overloaded ==
    (hash_entry_count + hash_entry_removed_count) * REHASH_RATE > hash_size

NoRehash(t) ==
    /\ pc[t] = "stored"
    /\ ~Overloaded
    /\ Goto(t, "unlock")
    /\ UNCHANGED <<table, rehashing, lock, find, scan, op, ret, ncalls>>

\* Mutant: rehash starts with the second element of the old array.
RehashStartLate(t) ==
    /\ pc[t] = "stored"
    /\ Overloaded
    /\ \E p \in hash_size..(2 * REHASH_RATE * hash_size) :
          /\ p > hash_size * REHASH_RATE /\ FirstPrime(hash_size * REHASH_RATE, p)
          /\ hash_size' = p
          /\ elements' = NoElements(p)
    /\ hash_entry_removed_count' = 0
    /\ old_elements' = elements /\ old_size' = hash_size /\ ri' = 1
    /\ Goto(t, "rehash")
    /\ UNCHANGED <<hash_entry_count, destroyed, lock, find, scan, op, ret,
                   ncalls>>

\* The new array is installed, empty: the same size when tombstones outnumber
\* entries, the next prime otherwise.
RehashStart(t) ==
    /\ pc[t] = "stored"
    /\ Overloaded
    /\ \E p \in hash_size..(2 * REHASH_RATE * hash_size) :
          /\ IF hash_entry_count < hash_entry_removed_count
             THEN p = hash_size
             ELSE p > hash_size * REHASH_RATE /\ FirstPrime(hash_size * REHASH_RATE, p)
          /\ hash_size' = p
          /\ elements' = NoElements(p)
    /\ hash_entry_removed_count' = 0
    /\ old_elements' = elements /\ old_size' = hash_size /\ ri' = 0
    /\ Goto(t, "rehash")
    /\ UNCHANGED <<hash_entry_count, destroyed, lock, find, scan, op, ret,
                   ncalls>>

\* rehash passes over an element that is not occupied, searches a place for
\* one that is, and at the end hash_add frees the old array.
RehashNext(t) ==
    /\ pc[t] = "rehash"
    /\ IF ri = old_size
       THEN /\ old_elements' = NoElements(0) /\ old_size' = 0 /\ ri' = 0
            /\ Goto(t, "unlock")
            /\ UNCHANGED level
       ELSE IF Occupied(old_elements[ri])
            THEN /\ level' = [level EXCEPT ![t] = 0]
                 /\ Goto(t, "refind")
                 /\ UNCHANGED rehashing
            ELSE /\ ri' = ri + 1
                 /\ UNCHANGED <<level, old_elements, old_size, pc>>
    /\ UNCHANGED <<table, lock, index, status, scan, op, ret, ncalls>>

\* hash_find on the new array.  A key that is there already makes hash_add
\* return RET_FAILED at once, with the lock still held.
RehashFind(t) ==
    /\ pc[t] = "refind"
    /\ LET k == KeyOf[old_elements[ri]]
           s == Slot(k, level[t])
       IN IF ~SearchEnds(k, level[t])
          THEN /\ level' = [level EXCEPT ![t] = NextLevel(@)]
               /\ UNCHANGED <<elements, ri, pc, ret>>
          ELSE IF elements[s] = Empty
               THEN /\ elements' = [elements EXCEPT ![s] = old_elements[ri]]
                    /\ ri' = ri + 1
                    /\ Goto(t, "rehash")
                    /\ UNCHANGED <<level, ret>>
               ELSE /\ SetRet(t, [kind |-> "ret", ok |-> FALSE])
                    /\ Goto(t, "return")
                    /\ UNCHANGED <<level, elements, ri>>
    /\ UNCHANGED <<hash_size, hash_entry_count, hash_entry_removed_count,
                   destroyed, old_elements, old_size, lock, index, status,
                   scan, op, ncalls>>

\* hash_get: the entry at the index, NULL if the search ended on an empty slot.
GetResult(t) ==
    /\ pc[t] = "found"
    /\ op[t].kind = "get"
    /\ SetRet(t, [kind |-> "entry",
                  entry |-> IF status[t] = Empty THEN NoEntry ELSE elements[index[t]]])
    /\ Goto(t, "unlock")
    /\ UNCHANGED <<table, rehashing, lock, find, scan, op, ncalls>>

\* Mutant: the slot becomes HASH_EMPTY instead of HASH_REMOVED.
RemoveResultEmpties(t) ==
    /\ pc[t] = "found"
    /\ op[t].kind = "remove"
    /\ IF status[t] = Empty
       THEN UNCHANGED <<elements, hash_entry_count, hash_entry_removed_count>>
       ELSE /\ elements' = [elements EXCEPT ![index[t]] = Empty]
            /\ hash_entry_count' = hash_entry_count - 1
            /\ hash_entry_removed_count' = hash_entry_removed_count + 1
    /\ SetRet(t, [kind |-> "ret", ok |-> TRUE])
    /\ Goto(t, "unlock")
    /\ UNCHANGED <<hash_size, destroyed, rehashing, lock, find, scan, op,
                   ncalls>>

\* Mutant: the status of the search is not tested.
RemoveResultUnchecked(t) ==
    /\ pc[t] = "found"
    /\ op[t].kind = "remove"
    /\ elements' = [elements EXCEPT ![index[t]] = Removed]
    /\ hash_entry_count' = hash_entry_count - 1
    /\ hash_entry_removed_count' = hash_entry_removed_count + 1
    /\ SetRet(t, [kind |-> "ret", ok |-> TRUE])
    /\ Goto(t, "unlock")
    /\ UNCHANGED <<hash_size, destroyed, rehashing, lock, find, scan, op,
                   ncalls>>

\* hash_remove: the element becomes a tombstone and its entry is freed.
RemoveResult(t) ==
    /\ pc[t] = "found"
    /\ op[t].kind = "remove"
    /\ IF status[t] = Empty
       THEN UNCHANGED <<elements, hash_entry_count, hash_entry_removed_count>>
       ELSE /\ elements' = [elements EXCEPT ![index[t]] = Removed]
            /\ hash_entry_count' = hash_entry_count - 1
            /\ hash_entry_removed_count' = hash_entry_removed_count + 1
    /\ SetRet(t, [kind |-> "ret", ok |-> TRUE])
    /\ Goto(t, "unlock")
    /\ UNCHANGED <<hash_size, destroyed, rehashing, lock, find, scan, op,
                   ncalls>>

\* hash_get_entries: one element of the scan, or *number and the end of it.
Scan(t) ==
    /\ pc[t] = "scan"
    /\ IF si[t] < hash_size
       THEN /\ si' = [si EXCEPT ![t] = @ + 1]
            /\ array' = IF Occupied(elements[si[t]])
                        THEN [array EXCEPT ![t] = Append(@, elements[si[t]])]
                        ELSE array
            /\ UNCHANGED <<ret, pc>>
       ELSE /\ SetRet(t, [kind |-> "array", array |-> array[t],
                          number |-> hash_entry_count])
            /\ Goto(t, "unlock")
            /\ UNCHANGED <<si, array>>
    /\ UNCHANGED <<table, rehashing, lock, find, op, ncalls>>

\* my_rwunlock
RwUnlock(t) ==
    /\ pc[t] = "unlock"
    /\ readers' = readers \ {t}
    /\ writer' = IF writer = t THEN NoThread ELSE writer
    /\ Goto(t, "return")
    /\ UNCHANGED <<table, rehashing, find, scan, op, ret, ncalls>>

\* The call returns; its locals die.
Return(t) ==
    /\ pc[t] = "return"
    /\ Goto(t, "idle")
    /\ op' = [op EXCEPT ![t] = NoOp]
    /\ ret' = [ret EXCEPT ![t] = NoRet]
    /\ level' = [level EXCEPT ![t] = 0]
    /\ index' = [index EXCEPT ![t] = 0]
    /\ status' = [status EXCEPT ![t] = Empty]
    /\ si' = [si EXCEPT ![t] = 0]
    /\ array' = [array EXCEPT ![t] = <<>>]
    /\ UNCHANGED <<table, rehashing, lock, ncalls>>

\* hash_destroy takes the lock and frees the entries and the array; its
\* callers (clean_env, eng_context_destroy) make no call during or after it.
Destroy ==
    /\ ~destroyed
    /\ \A t \in Threads : pc[t] = "idle"
    /\ readers = {} /\ writer = NoThread
    /\ destroyed' = TRUE
    /\ elements' = NoElements(0) /\ hash_size' = 0
    /\ hash_entry_count' = 0 /\ hash_entry_removed_count' = 0
    /\ UNCHANGED <<rehashing, lock, find, scan, pc, op, ret, ncalls>>

Gone == destroyed /\ UNCHANGED vars

\* The steps of a thread that holds the lock, up to its release.
Step(t) ==
    \/ Find(t)
    \/ AddDuplicate(t) \/ AddStore(t) \/ NoRehash(t)
    \/ RehashStart(t) \/ RehashNext(t) \/ RehashFind(t)
    \/ GetResult(t) \/ RemoveResult(t) \/ Scan(t)
    \/ RwUnlock(t) \/ Return(t)

Next ==
    \/ \E t \in Threads : Call(t) \/ WrLock(t) \/ RdLock(t) \/ Step(t)
    \/ Destroy
    \/ Gone

Spec == Init /\ [][Next]_vars

(***************************************************************************)
(* A thread inside a call keeps running.  Nothing is assumed of who gets   *)
(* the lock: a pthread_rwlock may starve a writer.                         *)
(***************************************************************************)
FairSpec == Spec /\ \A t \in Threads : WF_vars(Step(t))

-----------------------------------------------------------------------------
Rets == [kind : {"none"}] \cup [kind : {"ret"}, ok : BOOLEAN]
        \cup [kind : {"entry"}, entry : Entries \cup {NoEntry}]
        \cup [kind : {"array"}, array : Seq(Entries), number : Nat]

\* Every variable holds a value of its type; no counter is below zero.
TypeOK ==
    /\ readers \subseteq Threads /\ writer \in Threads \cup {NoThread}
    /\ hash_size \in Nat
    /\ elements \in [0..(hash_size - 1) -> Entries \cup {Empty, Removed}]
    /\ hash_entry_count \in Nat /\ hash_entry_removed_count \in Nat
    /\ destroyed \in BOOLEAN
    /\ old_size \in Nat
    /\ old_elements \in [0..(old_size - 1) -> Entries \cup {Empty, Removed}]
    /\ ri \in 0..old_size
    /\ pc \in [Threads -> {"idle", "lock", "find", "found", "stored", "rehash",
                           "refind", "scan", "unlock", "return"}]
    /\ op \in [Threads -> Ops \cup {NoOp}]
    /\ level \in [Threads -> 0..MaxLevel]
    /\ index \in [Threads -> Nat]
    /\ status \in [Threads -> Entries \cup {Empty}]
    /\ si \in [Threads -> Nat]
    /\ array \in [Threads -> Seq(Entries)]
    /\ ret \in [Threads -> Rets]
    /\ ncalls \in 0..MaxCalls

\* A call that returns has released hash_rwlock: rehash never meets a
\* duplicate, the one path on which hash_add returns with the lock held.
NoLockLeak ==
    \A t \in Threads : pc[t] \in {"idle", "return"} => t \notin readers /\ writer # t

\* No level before l ends the search for k.
Passed(k, l) == \A m \in 0..(l - 1) : ~SearchEnds(k, m)

\* Tombstones keep every entry findable: the search for its key ends at it.
Findable ==
    \A i \in DOMAIN elements :
        Occupied(elements[i]) =>
            \E l \in 0..MaxLevel :
                Slot(KeyOf[elements[i]], l) = i /\ Passed(KeyOf[elements[i]], l)

\* hash_get_entries writes no further than the hash_entry_count pointers it
\* allocated.
ScanFits == \A t \in Threads : pc[t] = "scan" => Len(array[t]) <= hash_entry_count

\* A thread that got the lock ends its search, its rehash or its scan and
\* leaves the call.
HolderReturns ==
    \A t \in Threads : pc[t] \in {"find", "scan"} ~> pc[t] = "idle"

-----------------------------------------------------------------------------
\* The entries of the table; while a rehash runs, those of the old array.
Source == IF old_size # 0 THEN old_elements ELSE elements
Held == {Source[i] : i \in DOMAIN Source} \cap Entries

Phase == [t \in Threads |->
    IF pc[t] = "idle" THEN "idle"
    ELSE IF pc[t] \in {"lock", "find", "found", "scan"} THEN "called" ELSE "done"]

Abstract == INSTANCE KeyedSet WITH
    held <- Held, phase <- Phase, call <- op, result <- ret

\* The table is a linearizable set of entries with distinct keys: no lookup
\* misses an entry, no rehash loses or duplicates one, whoever runs beside it.
Linearizable == Abstract!ASpec
=============================================================================
