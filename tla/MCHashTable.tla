---------------------------- MODULE MCHashTable ----------------------------
(***************************************************************************)
(* HashTable with entries that are (key, id) pairs and a hash function     *)
(* whose first levels collide and whose levels visit every slot.           *)
(***************************************************************************)
EXTENDS HashTable, FiniteSets

\* One entry per key, and a second one with key 1.
MCEntries == {<<k, 1>> : k \in Keys} \cup {<<1, 2>>}

MCKeyOf == [e \in MCEntries |-> e[1]]

\* Keys 1 and 2 start at slot 0, key 3 at slot 1; every level moves on by one.
MCHashFunc == [k \in Keys |-> [l \in 0..MaxLevel |-> l + (k \div 3)]]

\* What hash_find needs to end: the levels of a key reach every slot.
ASSUME HashCoversAssumption ==
    \A k \in Keys, n \in 3..(MaxLevel + 1) : \A i \in 0..(n - 1) :
        \E l \in 0..MaxLevel : HashFunc[k][l] % n = i
=============================================================================
