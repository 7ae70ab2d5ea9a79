---------------------------- MODULE StatsProofs ----------------------------
(***************************************************************************)
(* Stats for any finite set of engine threads and any number of commands:  *)
(* the shared counters and the totals stat_thread makes of them never      *)
(* overcount, no addition to total_request is lost, and the figure         *)
(* summary() prints is the number of commands that succeeded.              *)
(*                                                                         *)
(* The sums over the threads are those of Functions; the first part proves *)
(* what they satisfy, by choosing a smallest set where a claim would fail. *)
(***************************************************************************)
EXTENDS Stats, WellFoundedInduction, FiniteSetTheorems, TLAPS

-----------------------------------------------------------------------------
(* Sums over finite sets *)

LEMMA Least ==
    ASSUME NEW S \in SUBSET Nat, S # {}
    PROVE  \E c \in S : \A d \in S : c <= d
  <1>1. PICK c \in S : \A d \in S : ~(<<d, c>> \in OpToRel(<, Nat))
    BY NatLessThanWellFounded, WFMin
  <1>2. \A d \in S : ~(d < c)
    BY <1>1 DEF OpToRel
  <1>3. QED
    BY <1>2

\* A family of subsets of a finite set has a smallest member.
LEMMA Smallest ==
    ASSUME NEW S, IsFiniteSet(S), NEW B \in SUBSET (SUBSET S), B # {}
    PROVE  \E s \in B : \A u \in B : Cardinality(s) <= Cardinality(u)
  <1> DEFINE N == {Cardinality(s) : s \in B}
  <1>1. \A s \in B : Cardinality(s) \in Nat
    BY FS_Subset, FS_CardinalityType
  <1>2. N \in SUBSET Nat /\ N # {}
    BY <1>1
  <1> HIDE DEF N
  <1>3. PICK c \in N : \A d \in N : c <= d
    BY <1>2, Least
  <1>4. QED
    BY <1>3 DEF N

Pick(s) == CHOOSE x \in s : TRUE

LEMMA PickIn ==
    ASSUME NEW s, s # {}
    PROVE  Pick(s) \in s
  BY DEF Pick

\* The rest of a set without the element that was picked.
LEMMA RestOf ==
    ASSUME NEW s, IsFiniteSet(s), s # {}
    PROVE  /\ IsFiniteSet(s \ {Pick(s)}) /\ s \ {Pick(s)} # s
           /\ Cardinality(s \ {Pick(s)}) < Cardinality(s)
  <1>1. Pick(s) \in s
    BY PickIn
  <1>2. PICK n \in Nat : n = Cardinality(s)
    BY FS_CardinalityType
  <1>3. IsFiniteSet(s \ {Pick(s)}) /\ Cardinality(s \ {Pick(s)}) = n - 1
    BY <1>1, <1>2, FS_RemoveElement
  <1>4. QED
    BY <1>1, <1>2, <1>3

\* g gives the sums of f over the subsets of S.
IsSum(g, f, S) ==
    g = [s \in SUBSET S |-> IF s = {} THEN 0 ELSE f[Pick(s)] + g[s \ {Pick(s)}]]

SumBy(f, S) == CHOOSE g : IsSum(g, f, S)

LEMMA SumIs ==
    ASSUME NEW f, NEW S
    PROVE  SumFunctionOnSet(f, S) = SumBy(f, S)[S]
  BY DEF SumFunctionOnSet, FoldFunctionOnSet, MapThenFoldSet, SumBy, IsSum, Pick

LEMMA SumAt ==
    ASSUME NEW f, NEW S, NEW g, IsSum(g, f, S), NEW s \in SUBSET S
    PROVE  g[s] = IF s = {} THEN 0 ELSE f[Pick(s)] + g[s \ {Pick(s)}]
  BY DEF IsSum

\* Two such functions agree on the sets both are for.
LEMMA SumUnique ==
    ASSUME NEW f, NEW S, NEW T, IsFiniteSet(S), S \subseteq T,
           NEW g, IsSum(g, f, S), NEW h, IsSum(h, f, T)
    PROVE  \A s \in SUBSET S : g[s] = h[s]
  <1> DEFINE B == {s \in SUBSET S : g[s] # h[s]}
  <1>1. ASSUME B # {} PROVE FALSE
    <2>1. PICK s \in B : \A u \in B : Cardinality(s) <= Cardinality(u)
      BY <1>1, Smallest
    <2>2. /\ s \in SUBSET S /\ s \in SUBSET T /\ IsFiniteSet(s)
      BY <2>1, FS_Subset
    <2>3. /\ g[s] = IF s = {} THEN 0 ELSE f[Pick(s)] + g[s \ {Pick(s)}]
          /\ h[s] = IF s = {} THEN 0 ELSE f[Pick(s)] + h[s \ {Pick(s)}]
      BY <2>2, SumAt
    <2>4. s # {}
      BY <2>1, <2>3
    <2>5. /\ Cardinality(s \ {Pick(s)}) < Cardinality(s) /\ s \ {Pick(s)} \in SUBSET S
          /\ Cardinality(s \ {Pick(s)}) \in Nat /\ Cardinality(s) \in Nat
      BY <2>2, <2>4, RestOf, FS_CardinalityType
    <2>6. s \ {Pick(s)} \notin B
      BY <2>1, <2>5
    <2>7. QED
      BY <2>1, <2>3, <2>4, <2>5, <2>6
  <1>2. QED
    BY <1>1

\* There is one for every finite set.
LEMMA SumExists ==
    ASSUME NEW f, NEW S, IsFiniteSet(S)
    PROVE  \A s \in SUBSET S : IsSum(SumBy(f, s), f, s)
  <1> DEFINE Some(s) == \E g : IsSum(g, f, s)
             B == {s \in SUBSET S : ~Some(s)}
             V(u) == SumBy(f, u)[u]
  <1>0. ASSUME NEW s, Some(s) PROVE IsSum(SumBy(f, s), f, s)
    BY <1>0 DEF SumBy
  <1>1. ASSUME B # {} PROVE FALSE
    <2>1. PICK s \in B : \A u \in B : Cardinality(s) <= Cardinality(u)
      BY <1>1, Smallest
    <2>2. s \in SUBSET S /\ IsFiniteSet(s) /\ ~Some(s) /\ Cardinality(s) \in Nat
      BY <2>1, FS_Subset, FS_CardinalityType
    <2>3. ASSUME NEW u \in SUBSET s, u # s
          PROVE  IsSum(SumBy(f, u), f, u) /\ IsFiniteSet(u)
      <3>1. IsFiniteSet(u) /\ Cardinality(u) \in Nat /\ Cardinality(u) < Cardinality(s)
        BY <2>2, <2>3, FS_Subset, FS_CardinalityType
      <3>2. u \notin B
        BY <2>1, <2>2, <3>1
      <3>3. QED
        BY <1>0, <2>2, <3>1, <3>2
    <2>4. ASSUME NEW u \in SUBSET s, u # s, u # {}
          PROVE  V(u) = f[Pick(u)] + V(u \ {Pick(u)})
      <3> DEFINE w == u \ {Pick(u)}
      <3>1. w \in SUBSET s /\ w # s /\ w \in SUBSET u
        BY <2>4
      <3>2. IsSum(SumBy(f, u), f, u) /\ IsSum(SumBy(f, w), f, w) /\ IsFiniteSet(w)
        BY <2>3, <2>4, <3>1
      <3> HIDE DEF w
      <3>3. SumBy(f, w)[w] = SumBy(f, u)[w]
        BY <3>1, <3>2, SumUnique
      <3>4. SumBy(f, u)[u] = f[Pick(u)] + SumBy(f, u)[u \ {Pick(u)}]
        BY <2>4, <3>2, SumAt
      <3>5. QED
        BY <3>3, <3>4 DEF w
    <2>5. ASSUME s # {} PROVE V({}) = 0
      <3>1. IsSum(SumBy(f, {}), f, {})
        BY <2>3, <2>5
      <3>2. QED
        BY <3>1, SumAt
    <2> HIDE DEF V
    <2> DEFINE g == [u \in SUBSET s |->
                        IF u = {} THEN 0
                        ELSE IF u = s THEN f[Pick(s)] + V(s \ {Pick(s)}) ELSE V(u)]
    <2>6. ASSUME NEW u \in SUBSET s, u # {}
          PROVE  g[u] = f[Pick(u)] + g[u \ {Pick(u)}]
      <3> DEFINE w == u \ {Pick(u)}
      <3>1. w \in SUBSET s /\ w # s /\ s # {}
        BY <2>6, PickIn
      <3>2. g[w] = V(w)
        BY <2>5, <3>1
      <3>3. g[u] = f[Pick(u)] + V(w)
        BY <2>4, <2>6
      <3>4. QED
        BY <3>2, <3>3
    <2>7. g[{}] = 0 /\ g = [u \in SUBSET s |-> g[u]]
      OBVIOUS
    <2> HIDE DEF g
    <2>8. IsSum(g, f, s)
      <3> DEFINE h == [u \in SUBSET s |-> IF u = {} THEN 0 ELSE f[Pick(u)] + g[u \ {Pick(u)}]]
      <3>1. \A u \in SUBSET s : g[u] = h[u]
        BY <2>6, <2>7
      <3>2. g = h
        BY <2>7, <3>1
      <3>3. QED
        BY <3>2 DEF IsSum
    <2>9. QED
      BY <2>2, <2>8
  <1>2. QED
    BY <1>0, <1>1

\* The sum over a set is the picked element's value and the sum of the rest.
LEMMA SumStep ==
    ASSUME NEW f, NEW S, IsFiniteSet(S)
    PROVE  SumFunctionOnSet(f, S) =
               IF S = {} THEN 0 ELSE f[Pick(S)] + SumFunctionOnSet(f, S \ {Pick(S)})
  <1> DEFINE w == S \ {Pick(S)}
  <1>1. IsSum(SumBy(f, S), f, S) /\ IsSum(SumBy(f, w), f, w) /\ IsFiniteSet(w)
    BY SumExists, FS_Subset
  <1> HIDE DEF w
  <1>2. w \subseteq S
    BY DEF w
  <1>3. SumBy(f, w)[w] = SumBy(f, S)[w]
    BY <1>1, <1>2, SumUnique
  <1>4. SumBy(f, S)[S] = IF S = {} THEN 0 ELSE f[Pick(S)] + SumBy(f, S)[S \ {Pick(S)}]
    BY <1>1, SumAt
  <1>5. QED
    BY <1>3, <1>4, SumIs DEF w

\* A sum of natural numbers is one.
LEMMA SumType ==
    ASSUME NEW S, IsFiniteSet(S), NEW f, \A x \in S : f[x] \in Nat
    PROVE  \A s \in SUBSET S : SumFunctionOnSet(f, s) \in Nat
  <1> DEFINE B == {s \in SUBSET S : SumFunctionOnSet(f, s) \notin Nat}
  <1>1. ASSUME B # {} PROVE FALSE
    <2>1. PICK s \in B : \A u \in B : Cardinality(s) <= Cardinality(u)
      BY <1>1, Smallest
    <2>2. s \in SUBSET S /\ IsFiniteSet(s)
      BY <2>1, FS_Subset
    <2>3. SumFunctionOnSet(f, s) =
              IF s = {} THEN 0 ELSE f[Pick(s)] + SumFunctionOnSet(f, s \ {Pick(s)})
      BY <2>2, SumStep
    <2>4. s # {}
      BY <2>1, <2>3
    <2>5. /\ Cardinality(s \ {Pick(s)}) < Cardinality(s) /\ s \ {Pick(s)} \in SUBSET S
          /\ Cardinality(s \ {Pick(s)}) \in Nat /\ Cardinality(s) \in Nat
      BY <2>2, <2>4, RestOf, FS_CardinalityType
    <2>6. s \ {Pick(s)} \notin B /\ f[Pick(s)] \in Nat
      BY <2>1, <2>2, <2>4, <2>5, PickIn
    <2>7. SumFunctionOnSet(f, s \ {Pick(s)}) \in Nat
      BY <2>5, <2>6
    <2>8. QED
      BY <2>1, <2>3, <2>4, <2>6, <2>7
  <1>2. QED
    BY <1>1

\* When one value grows, the sum grows by as much.
LEMMA SumGrows ==
    ASSUME NEW S, IsFiniteSet(S), NEW f, \A y \in S : f[y] \in Nat, NEW g,
           NEW x \in S, NEW d \in Nat, g[x] = f[x] + d, \A y \in S \ {x} : g[y] = f[y]
    PROVE  SumFunctionOnSet(g, S) = SumFunctionOnSet(f, S) + d
  <1> DEFINE D(s) == IF x \in s THEN d ELSE 0
             B == {s \in SUBSET S : SumFunctionOnSet(g, s) # SumFunctionOnSet(f, s) + D(s)}
  <1>1. ASSUME B # {} PROVE FALSE
    <2>1. PICK s \in B : \A u \in B : Cardinality(s) <= Cardinality(u)
      BY <1>1, Smallest
    <2>2. s \in SUBSET S /\ IsFiniteSet(s)
      BY <2>1, FS_Subset
    <2>3. /\ SumFunctionOnSet(f, s) =
               IF s = {} THEN 0 ELSE f[Pick(s)] + SumFunctionOnSet(f, s \ {Pick(s)})
          /\ SumFunctionOnSet(g, s) =
               IF s = {} THEN 0 ELSE g[Pick(s)] + SumFunctionOnSet(g, s \ {Pick(s)})
      BY <2>2, SumStep
    <2>4. s # {}
      BY <2>1, <2>3
    <2>5. /\ Cardinality(s \ {Pick(s)}) < Cardinality(s) /\ s \ {Pick(s)} \in SUBSET S
          /\ Cardinality(s \ {Pick(s)}) \in Nat /\ Cardinality(s) \in Nat
          /\ Pick(s) \in s
      BY <2>2, <2>4, RestOf, PickIn, FS_CardinalityType
    <2>6. PICK p, rf, rg : /\ p = Pick(s) /\ rf = SumFunctionOnSet(f, s \ {p})
                           /\ rg = SumFunctionOnSet(g, s \ {p})
      OBVIOUS
    <2>7. s \ {p} \notin B /\ s \ {p} \in SUBSET S /\ p \in S
      BY <2>1, <2>2, <2>5, <2>6
    <2>8. rg = rf + D(s \ {p}) /\ rf \in Nat /\ f[p] \in Nat
      BY <2>6, <2>7, SumType
    <2>9. SumFunctionOnSet(f, s) = f[p] + rf /\ SumFunctionOnSet(g, s) = g[p] + rg
      BY <2>3, <2>4, <2>6
    <2>10. g[p] + rg = f[p] + rf + D(s)
      <3>1. CASE p = x
        BY <2>5, <2>6, <2>8, <3>1
      <3>2. CASE p # x
        BY <2>7, <2>8, <3>2
      <3>3. QED
        BY <3>1, <3>2
    <2>11. QED
      BY <2>1, <2>9, <2>10
  <1>2. SumFunctionOnSet(g, S) = SumFunctionOnSet(f, S) + D(S)
    BY <1>1
  <1>3. QED
    BY <1>2

-----------------------------------------------------------------------------

\* A thread that is between my_lock and my_unlock owns the lock.
LockInv ==
    \A t \in Threads : pc[t] \in {"load", "add", "unlock"} => total_request_lock = t

\* A thread that still has to add has a counter left to add.
AddendInv ==
    \A t \in Threads : pc[t] \notin {"unlock", "done"} => addend[t] \in 1..4

\* The value an atomic add returned, waiting to be stored, is no overcount.
RegInv ==
    \A t \in Threads :
        pc[t] = "store" => reg[t].value <= nsucc[reg[t].counter]

IInv ==
    /\ TypeOK
    /\ LockInv
    /\ AddendInv
    /\ NoLostAdd
    /\ RegInv
    /\ GStatNeverOvercounts

LEMMA CounterOrderType == \A i \in 1..4 : CounterOrder[i] \in Counters
  BY DEF CounterOrder, Counters

LEMMA InitIInv == Init => IInv
  <1> SUFFICES ASSUME Init PROVE IInv
    OBVIOUS
  <1> USE DEF Init
  <1>1. TypeOK
    BY DEF TypeOK, Pcs, Counters, StatDone
  <1>2. LockInv /\ AddendInv /\ NoLostAdd /\ RegInv
    BY DEF LockInv, AddendInv, NoLostAdd, RegInv
  <1>3. GStatNeverOvercounts
    BY DEF GStatNeverOvercounts, Counters
  <1>4. QED
    BY <1>1, <1>2, <1>3 DEF IInv

\* Each action keeps every variable in its type.
LEMMA TypeStep == IInv /\ [Next]_vars => TypeOK'
  <1> SUFFICES ASSUME IInv, [Next]_vars PROVE TypeOK'
    OBVIOUS
  <1> USE DEF IInv, TypeOK, Goto
  <1>1. ASSUME NEW t \in Threads, LoopTest(t) PROVE TypeOK'
    BY <1>1 DEF LoopTest, Pcs
  <1>2. ASSUME NEW t \in Threads, NEW c \in Counters, CountSuccess(t, c)
        PROVE TypeOK'
    <2>1. /\ g_stat[c] + 1 \in Nat
          /\ nsucc[c] + 1 \in Nat
          /\ stats[t][c] + 1 \in Nat
      OBVIOUS
    <2>2. [counter |-> c, value |-> g_stat[c] + 1] \in [counter : Counters, value : Nat]
      BY <2>1
    <2>3. stats' \in [Threads -> [Counters -> Nat]]
      <3>1. [stats[t] EXCEPT ![c] = stats[t][c] + 1] \in [Counters -> Nat]
        BY <2>1
      <3>2. QED
        BY <1>2, <3>1 DEF CountSuccess
    <2>4. QED
      BY <1>2, <2>1, <2>2, <2>3 DEF CountSuccess, Pcs
  <1>3. ASSUME NEW t \in Threads, StoreShared(t) PROVE TypeOK'
    BY <1>3 DEF StoreShared, Pcs
  <1>4. ASSUME NEW t \in Threads, EndOfList(t) PROVE TypeOK'
    BY <1>4 DEF EndOfList, Pcs
  <1>5. ASSUME NEW t \in Threads, Lock(t) PROVE TypeOK'
    BY <1>5 DEF Lock, Pcs
  <1>6. ASSUME NEW t \in Threads, AddLoad(t) PROVE TypeOK'
    BY <1>6 DEF AddLoad, Pcs
  <1>7. ASSUME NEW t \in Threads, AddStore(t) PROVE TypeOK'
    <2>1. addend[t] \in 1..4
      BY <1>7 DEF AddStore, AddendInv
    <2>2. loaded[t] + stats[t][CounterOrder[addend[t]]] \in Nat
      BY <2>1, CounterOrderType
    <2>3. addend[t] + 1 \in 1..5
      BY <2>1
    <2>4. QED
      BY <1>7, <2>2, <2>3 DEF AddStore, Pcs
  <1>8. ASSUME NEW t \in Threads, Unlock(t) PROVE TypeOK'
    BY <1>8 DEF Unlock, Pcs
  <1>9. ASSUME StatThread PROVE TypeOK'
    <2>1. CASE StatTest
      BY <2>1 DEF StatTest, StatDone
    <2>2. CASE StatRead
      <3>1. /\ CounterOrder[report.idx] \in Counters
            /\ report.idx + 1 \in 0..StatDone
        BY <2>2, CounterOrderType DEF StatRead, StatDone
      <3>2. report.sum + g_stat[CounterOrder[report.idx]] \in Nat
        BY <3>1
      <3>3. QED
        BY <2>2, <3>1, <3>2 DEF StatRead
    <2>3. CASE StatPrint
      BY <2>3 DEF StatPrint, StatDone
    <2>4. QED
      BY <1>9, <2>1, <2>2, <2>3 DEF StatThread
  <1>10. ASSUME StopRun PROVE TypeOK'
    BY <1>10 DEF StopRun
  <1>11. ASSUME Finished \/ UNCHANGED vars PROVE TypeOK'
    BY <1>11 DEF Finished, vars
  <1>12. QED
    BY <1>1, <1>2, <1>3, <1>4, <1>5, <1>6, <1>7, <1>8, <1>9, <1>10, <1>11
       DEF Next, Thread

\* Only the owner of the lock reads and writes total_request.
LEMMA LockStep == IInv /\ [Next]_vars => LockInv' /\ AddendInv' /\ NoLostAdd'
  <1> SUFFICES ASSUME IInv, [Next]_vars
               PROVE LockInv' /\ AddendInv' /\ NoLostAdd'
    OBVIOUS
  <1> DEFINE Goal == LockInv' /\ AddendInv' /\ NoLostAdd'
  <1> USE DEF IInv, TypeOK, Goto, LockInv, AddendInv, NoLostAdd
  <1>1. ASSUME NEW t \in Threads, LoopTest(t) PROVE Goal
    BY <1>1 DEF LoopTest
  <1>2. ASSUME NEW t \in Threads, NEW c \in Counters, CountSuccess(t, c)
        PROVE Goal
    BY <1>2 DEF CountSuccess
  <1>3. ASSUME NEW t \in Threads, StoreShared(t) PROVE Goal
    BY <1>3 DEF StoreShared
  <1>4. ASSUME NEW t \in Threads, EndOfList(t) PROVE Goal
    BY <1>4 DEF EndOfList
  <1>5. ASSUME NEW t \in Threads, Lock(t) PROVE Goal
    BY <1>5, ThreadsAssumption DEF Lock
  <1>6. ASSUME NEW t \in Threads, AddLoad(t) PROVE Goal
    BY <1>6 DEF AddLoad
  <1>7. ASSUME NEW t \in Threads, AddStore(t) PROVE Goal
    <2>1. LockInv'
      BY <1>7 DEF AddStore
    <2>2. AddendInv'
      BY <1>7 DEF AddStore
    <2>3. NoLostAdd'
      BY <1>7 DEF AddStore
    <2>4. QED
      BY <2>1, <2>2, <2>3
  <1>8. ASSUME NEW t \in Threads, Unlock(t) PROVE Goal
    BY <1>8 DEF Unlock
  <1>9. ASSUME StatThread PROVE Goal
    BY <1>9 DEF StatThread, StatTest, StatRead, StatPrint
  <1>10. ASSUME StopRun \/ Finished \/ UNCHANGED vars PROVE Goal
    BY <1>10 DEF StopRun, Finished, vars
  <1>11. QED
    BY <1>1, <1>2, <1>3, <1>4, <1>5, <1>6, <1>7, <1>8, <1>9, <1>10
       DEF Next, Thread

\* The two writes of a shared counter keep it below the successes.
LEMMA CountStep == IInv /\ [Next]_vars => RegInv' /\ GStatNeverOvercounts'
  <1> SUFFICES ASSUME IInv, [Next]_vars
               PROVE RegInv' /\ GStatNeverOvercounts'
    OBVIOUS
  <1> USE DEF IInv, TypeOK, Goto, RegInv, GStatNeverOvercounts
  <1>1. ASSUME NEW t \in Threads, NEW c \in Counters, CountSuccess(t, c)
        PROVE RegInv' /\ GStatNeverOvercounts'
    <2>1. /\ nsucc' = [nsucc EXCEPT ![c] = nsucc[c] + 1]
          /\ g_stat' = [g_stat EXCEPT ![c] = g_stat[c] + 1]
          /\ reg' = [reg EXCEPT ![t] = [counter |-> c, value |-> g_stat[c] + 1]]
          /\ pc' = [pc EXCEPT ![t] = "store"]
      BY <1>1 DEF CountSuccess
    <2>2. \A d \in Counters : nsucc[d] <= nsucc'[d]
      BY <2>1
    <2>3. GStatNeverOvercounts'
      BY <2>1
    <2>4. reg'[t].value <= nsucc'[reg'[t].counter]
      BY <2>1
    <2>5. ASSUME NEW u \in Threads, u # t, pc'[u] = "store"
          PROVE reg'[u].value <= nsucc'[reg'[u].counter]
      <3>1. /\ reg'[u] = reg[u]
            /\ reg[u].value <= nsucc[reg[u].counter]
        BY <2>1, <2>5
      <3>2. reg[u].counter \in Counters /\ reg[u].value \in Nat
        OBVIOUS
      <3>3. nsucc[reg[u].counter] <= nsucc'[reg[u].counter]
        BY <2>2, <3>2
      <3>4. /\ nsucc[reg[u].counter] \in Nat
            /\ nsucc'[reg[u].counter] \in Nat
        BY <2>1, <3>2
      <3>5. QED
        BY <3>1, <3>2, <3>3, <3>4
    <2>6. QED
      BY <2>3, <2>4, <2>5
  <1>2. ASSUME NEW t \in Threads, StoreShared(t)
        PROVE RegInv' /\ GStatNeverOvercounts'
    BY <1>2 DEF StoreShared
  <1>3. ASSUME NEW t \in Threads,
               \/ LoopTest(t) \/ EndOfList(t) \/ Lock(t) \/ AddLoad(t)
               \/ AddStore(t) \/ Unlock(t)
        PROVE RegInv' /\ GStatNeverOvercounts'
    BY <1>3 DEF LoopTest, EndOfList, Lock, AddLoad, AddStore, Unlock
  <1>4. ASSUME StatThread \/ StopRun \/ Finished \/ UNCHANGED vars
        PROVE RegInv' /\ GStatNeverOvercounts'
    BY <1>4 DEF StatThread, StatTest, StatRead, StatPrint, StopRun, Finished, vars
  <1>5. QED
    BY <1>1, <1>2, <1>3, <1>4 DEF Next, Thread

LEMMA Invariance == Spec => []IInv
  <1>1. IInv /\ [Next]_vars => IInv'
    BY TypeStep, LockStep, CountStep DEF IInv
  <1>2. QED
    BY InitIInv, <1>1, PTL DEF Spec

\* The variables of the accounting keep their types for every set of threads.
THEOREM TypeCorrect == Spec => []TypeOK
  <1>1. IInv => TypeOK
    BY DEF IInv
  <1>2. QED
    BY Invariance, <1>1, PTL

\* stat_thread's counters never exceed the commands that succeeded, for every
\* set of threads and every number of commands.
THEOREM NeverOvercounts == Spec => []GStatNeverOvercounts
  <1>1. IInv => GStatNeverOvercounts
    BY DEF IInv
  <1>2. QED
    BY Invariance, <1>1, PTL

\* total_request_lock makes every addition to total_request count.
THEOREM AddsAreAtomic == Spec => []NoLostAdd
  <1>1. IInv => NoLostAdd
    BY DEF IInv
  <1>2. QED
    BY Invariance, <1>1, PTL

-----------------------------------------------------------------------------
(* What is added and what is reported *)

\* A thread starts to add at the first counter, and leaves after the fourth.
PhaseInv ==
    \A t \in Threads :
        /\ pc[t] \in {"loop", "travel", "store", "lock"} => addend[t] = 1
        /\ pc[t] \in {"unlock", "done"} => addend[t] = 5

\* The first n - 1 counters of a row, summed.
Before(n, row) ==
    LET part(i) == IF i < n THEN row[CounterOrder[i]] ELSE 0
    IN part(1) + part(2) + part(3) + part(4)

\* stat_thread has at most what succeeded of the counters it has read.
ReportInv ==
    report.sum <= Before(IF report.idx \in 1..4 THEN report.idx ELSE 5, nsucc)

AddedBy == [t \in Threads |-> Before(addend[t], stats[t])]
CountedBy == [t \in Threads |-> Before(5, stats[t])]

\* total_request is what the threads have added.
TotalInv == total_request = SumFunctionOnSet(AddedBy, Threads)

\* The commands that succeeded are those the threads counted.
CountedInv == Before(5, nsucc) = SumFunctionOnSet(CountedBy, Threads)

SumsInv ==
    /\ IInv
    /\ PhaseInv
    /\ ReportInv
    /\ TotalInv
    /\ CountedInv

LEMMA BeforeIs ==
    ASSUME NEW row \in [Counters -> Nat]
    PROVE  /\ \A n \in 1..5 : Before(n, row) \in Nat /\ Before(n, row) <= Before(5, row)
           /\ Before(1, row) = 0
           /\ \A n \in 1..4 : Before(n + 1, row) = Before(n, row) + row[CounterOrder[n]]
  <1>1. \A n : Before(n, row) = (IF 1 < n THEN row["ninsert"] ELSE 0)
                   + (IF 2 < n THEN row["nupdate"] ELSE 0)
                   + (IF 3 < n THEN row["ndelete"] ELSE 0)
                   + (IF 4 < n THEN row["nselect"] ELSE 0)
    BY DEF Before, CounterOrder
  <1>2. /\ CounterOrder[1] = "ninsert" /\ CounterOrder[2] = "nupdate"
        /\ CounterOrder[3] = "ndelete" /\ CounterOrder[4] = "nselect"
    BY DEF CounterOrder
  <1>3. PICK a, b, c, d \in Nat : /\ a = row["ninsert"] /\ b = row["nupdate"]
                                  /\ c = row["ndelete"] /\ d = row["nselect"]
    BY DEF Counters
  <1>4. \A n : Before(n, row) = (IF 1 < n THEN a ELSE 0) + (IF 2 < n THEN b ELSE 0)
                                 + (IF 3 < n THEN c ELSE 0) + (IF 4 < n THEN d ELSE 0)
    BY <1>1, <1>3
  <1>5. \A n \in 1..5 : Before(n, row) \in Nat /\ Before(n, row) <= Before(5, row)
    BY <1>4
  <1>6. Before(1, row) = 0
    BY <1>4
  <1>7. \A n \in 1..4 : Before(n + 1, row) = Before(n, row) + row[CounterOrder[n]]
    <2>1. /\ Before(1, row) = 0 /\ Before(2, row) = a /\ Before(3, row) = a + b
          /\ Before(4, row) = a + b + c /\ Before(5, row) = a + b + c + d
      BY <1>4
    <2>2. ASSUME NEW n \in 1..4 PROVE n = 1 \/ n = 2 \/ n = 3 \/ n = 4
      OBVIOUS
    <2>3. QED
      BY <1>2, <1>3, <2>1, <2>2
  <1>8. QED
    BY <1>5, <1>6, <1>7

\* Counting one more command adds one to the sum of a row.
LEMMA BeforeGrows ==
    ASSUME NEW row \in [Counters -> Nat], NEW k \in Counters
    PROVE  /\ Before(5, [row EXCEPT ![k] = @ + 1]) = Before(5, row) + 1
           /\ \A n \in 1..5 : Before(n, row) <= Before(n, [row EXCEPT ![k] = @ + 1])
  <1> DEFINE new == [row EXCEPT ![k] = @ + 1]
  <1>1. \A n, r : Before(n, r) = (IF 1 < n THEN r["ninsert"] ELSE 0)
                   + (IF 2 < n THEN r["nupdate"] ELSE 0)
                   + (IF 3 < n THEN r["ndelete"] ELSE 0)
                   + (IF 4 < n THEN r["nselect"] ELSE 0)
    BY DEF Before, CounterOrder
  <1>2. PICK a, b, c, d \in Nat : /\ a = row["ninsert"] /\ b = row["nupdate"]
                                  /\ c = row["ndelete"] /\ d = row["nselect"]
    BY DEF Counters
  <1>3. PICK e, f, g, h \in Nat : /\ e = new["ninsert"] /\ f = new["nupdate"]
                                  /\ g = new["ndelete"] /\ h = new["nselect"]
    BY DEF Counters
  <1>4. \/ e = a + 1 /\ f = b /\ g = c /\ h = d
        \/ e = a /\ f = b + 1 /\ g = c /\ h = d
        \/ e = a /\ f = b /\ g = c + 1 /\ h = d
        \/ e = a /\ f = b /\ g = c /\ h = d + 1
    BY <1>2, <1>3 DEF Counters
  <1> HIDE DEF new
  <1>5. \A n : Before(n, row) = (IF 1 < n THEN a ELSE 0) + (IF 2 < n THEN b ELSE 0)
                                 + (IF 3 < n THEN c ELSE 0) + (IF 4 < n THEN d ELSE 0)
    BY <1>1, <1>2
  <1>6. \A n : Before(n, new) = (IF 1 < n THEN e ELSE 0) + (IF 2 < n THEN f ELSE 0)
                                 + (IF 3 < n THEN g ELSE 0) + (IF 4 < n THEN h ELSE 0)
    BY <1>1, <1>3
  <1>7. Before(5, new) = Before(5, row) + 1
    BY <1>4, <1>5, <1>6
  <1>8. \A n \in 1..5 : Before(n, row) <= Before(n, new)
    BY <1>4, <1>5, <1>6
  <1>9. QED
    BY <1>7, <1>8 DEF new

LEMMA InitSums == Init => PhaseInv /\ ReportInv /\ TotalInv /\ CountedInv
  <1> SUFFICES ASSUME Init PROVE PhaseInv /\ ReportInv /\ TotalInv /\ CountedInv
    OBVIOUS
  <1>1. TypeOK
    BY InitIInv DEF IInv
  <1>2. PhaseInv
    BY DEF Init, PhaseInv
  <1>3. ReportInv
    <2>1. report.sum = 0 /\ report.idx = 0
      BY DEF Init
    <2>2. Before(5, nsucc) \in Nat
      BY <1>1, BeforeIs DEF TypeOK
    <2>3. QED
      BY <2>1, <2>2 DEF ReportInv
  <1>4. ASSUME NEW r \in [Counters -> Nat], \A c \in Counters : r[c] = 0,
               NEW n \in 1..5
        PROVE  Before(n, r) = 0
    BY <1>4 DEF Before, CounterOrder, Counters
  <1>5. ASSUME NEW f, \A t \in Threads : f[t] = 0
        PROVE  SumFunctionOnSet(f, Threads) = 0
    <2> DEFINE B == {s \in SUBSET Threads : SumFunctionOnSet(f, s) # 0}
    <2>1. ASSUME B # {} PROVE FALSE
      <3>1. PICK s \in B : \A u \in B : Cardinality(s) <= Cardinality(u)
        BY <2>1, Smallest, ThreadsAssumption
      <3>2. s \in SUBSET Threads /\ IsFiniteSet(s)
        BY <3>1, FS_Subset, ThreadsAssumption
      <3>3. SumFunctionOnSet(f, s) =
              IF s = {} THEN 0 ELSE f[Pick(s)] + SumFunctionOnSet(f, s \ {Pick(s)})
        BY <3>2, SumStep
      <3>4. s # {}
        BY <3>1, <3>3
      <3>5. /\ Cardinality(s \ {Pick(s)}) < Cardinality(s)
            /\ s \ {Pick(s)} \in SUBSET Threads
            /\ Cardinality(s \ {Pick(s)}) \in Nat /\ Cardinality(s) \in Nat
        BY <3>2, <3>4, RestOf, FS_CardinalityType
      <3>6. SumFunctionOnSet(f, s \ {Pick(s)}) = 0
        BY <3>1, <3>5
      <3>7. f[Pick(s)] = 0
        BY <1>5, <3>2, <3>4, PickIn
      <3>8. QED
        BY <3>1, <3>3, <3>4, <3>6, <3>7
    <2>2. QED
      BY <2>1
  <1>6. \A t \in Threads : AddedBy[t] = 0 /\ CountedBy[t] = 0
    <2>1. ASSUME NEW t \in Threads
          PROVE  /\ stats[t] \in [Counters -> Nat] /\ addend[t] \in 1..5
                 /\ \A c \in Counters : stats[t][c] = 0
      BY DEF Init
    <2>2. QED
      BY <1>4, <2>1 DEF AddedBy, CountedBy
  <1>7. SumFunctionOnSet(AddedBy, Threads) = 0 /\ SumFunctionOnSet(CountedBy, Threads) = 0
    BY <1>5, <1>6
  <1>8. Before(5, nsucc) = 0
    <2>1. nsucc \in [Counters -> Nat] /\ \A c \in Counters : nsucc[c] = 0
      BY DEF Init
    <2>2. QED
      BY <1>4, <2>1
  <1>9. QED
    BY <1>2, <1>3, <1>7, <1>8 DEF TotalInv, CountedInv, Init

\* A thread moves to the first counter when it starts and past the last before
\* it unlocks.
LEMMA PhaseStep == SumsInv /\ [Next]_vars => PhaseInv'
  <1> SUFFICES ASSUME SumsInv, [Next]_vars PROVE PhaseInv'
    OBVIOUS
  <1> USE DEF SumsInv, IInv, TypeOK, Goto, PhaseInv
  <1>1. ASSUME NEW t \in Threads,
               \/ LoopTest(t) \/ EndOfList(t) \/ Lock(t) \/ AddLoad(t)
               \/ StoreShared(t) \/ Unlock(t)
        PROVE PhaseInv'
    BY <1>1 DEF LoopTest, EndOfList, Lock, AddLoad, StoreShared, Unlock
  <1>2. ASSUME NEW t \in Threads, NEW c \in Counters, CountSuccess(t, c)
        PROVE PhaseInv'
    BY <1>2 DEF CountSuccess
  <1>3. ASSUME NEW t \in Threads, AddStore(t) PROVE PhaseInv'
    BY <1>3 DEF AddStore, AddendInv
  <1>4. ASSUME StatThread \/ StopRun \/ Finished \/ UNCHANGED vars PROVE PhaseInv'
    BY <1>4 DEF StatThread, StatTest, StatRead, StatPrint, StopRun, Finished, vars
  <1>5. QED
    BY <1>1, <1>2, <1>3, <1>4 DEF Next, Thread

\* A command that succeeds raises the bound of the report; a read adds a shared
\* counter that is no overcount.
LEMMA ReportStep == SumsInv /\ [Next]_vars => ReportInv'
  <1> SUFFICES ASSUME SumsInv, [Next]_vars PROVE ReportInv'
    OBVIOUS
  <1>0. /\ TypeOK /\ TypeOK' /\ ReportInv /\ GStatNeverOvercounts
        /\ nsucc \in [Counters -> Nat] /\ report.sum \in Nat /\ report.idx \in 0..6
    BY TypeStep DEF SumsInv, IInv, TypeOK, StatDone
  <1> DEFINE At(i) == IF i \in 1..4 THEN i ELSE 5
  <1>1. \A i : At(i) \in 1..5
    OBVIOUS
  <1>2. ASSUME UNCHANGED <<report, nsucc>> PROVE ReportInv'
    BY <1>0, <1>2 DEF ReportInv
  <1>3. ASSUME NEW t \in Threads, NEW c \in Counters, CountSuccess(t, c)
        PROVE ReportInv'
    <2>1. report' = report /\ nsucc' = [nsucc EXCEPT ![c] = @ + 1]
      BY <1>3 DEF CountSuccess
    <2>2. PICK n \in 1..5 : n = At(report.idx)
      BY <1>1
    <2>3. PICK new \in [Counters -> Nat] : new = nsucc'
      BY <1>0 DEF TypeOK
    <2>4. Before(n, nsucc) <= Before(n, new) /\ Before(n, nsucc) \in Nat /\ Before(n, new) \in Nat
      BY <1>0, <2>1, <2>3, BeforeGrows, BeforeIs
    <2>5. report.sum <= Before(n, new)
      BY <1>0, <2>2, <2>4 DEF ReportInv
    <2>6. QED
      BY <2>1, <2>2, <2>3, <2>5 DEF ReportInv
  <1>4. ASSUME StatTest PROVE ReportInv'
    <2>1. nsucc' = nsucc /\ report.idx = 0
      BY <1>4 DEF StatTest
    <2>2. CASE is_thread_run
      <3>1. report' = [idx |-> 1, sum |-> 0]
        BY <1>4, <2>2 DEF StatTest
      <3>2. Before(1, nsucc) = 0
        BY <1>0, BeforeIs
      <3>3. QED
        BY <2>1, <3>1, <3>2 DEF ReportInv
    <2>3. CASE ~is_thread_run
      <3>1. report'.sum = report.sum /\ report'.idx = 6
        BY <1>0, <1>4, <2>3 DEF StatTest, StatDone, TypeOK
      <3>2. QED
        BY <1>0, <2>1, <3>1 DEF ReportInv
    <2>4. QED
      BY <2>2, <2>3
  <1>5. ASSUME StatRead PROVE ReportInv'
    <2>1. PICK i \in 1..4 : i = report.idx
      BY <1>5 DEF StatRead
    <2>2. PICK v, w \in Nat : v = g_stat[CounterOrder[i]] /\ w = nsucc[CounterOrder[i]]
      BY <1>0, CounterOrderType DEF TypeOK
    <2>3. v <= w
      BY <1>0, <2>2, CounterOrderType DEF GStatNeverOvercounts
    <2>4. report'.idx = i + 1 /\ report'.sum = report.sum + v /\ nsucc' = nsucc
      BY <1>5, <2>1, <2>2 DEF StatRead
    <2>5. /\ Before(i + 1, nsucc) = Before(i, nsucc) + w /\ Before(i, nsucc) \in Nat
      BY <1>0, <2>2, BeforeIs
    <2>6. report.sum <= Before(i, nsucc)
      BY <1>0, <2>1 DEF ReportInv
    <2>7. report.sum + v <= Before(i + 1, nsucc)
      BY <1>0, <2>3, <2>5, <2>6
    <2>8. At(i + 1) = i + 1
      OBVIOUS
    <2>9. QED
      BY <2>4, <2>7, <2>8 DEF ReportInv
  <1>6. ASSUME StatPrint PROVE ReportInv'
    <2>1. report'.sum = report.sum /\ report'.idx = 0 /\ nsucc' = nsucc /\ report.idx = 5
      BY <1>0, <1>6 DEF StatPrint, TypeOK
    <2>2. QED
      BY <1>0, <2>1 DEF ReportInv
  <1>7. QED
    BY <1>2, <1>3, <1>4, <1>5, <1>6
       DEF Next, Thread, LoopTest, StoreShared, EndOfList, Lock, AddLoad, AddStore,
           Unlock, StatThread, StopRun, Finished, vars

\* A command that succeeds is counted by one thread, which has added nothing
\* yet; an addition to total_request is one thread's.
LEMMA SumsStep == SumsInv /\ [Next]_vars => TotalInv' /\ CountedInv'
  <1> SUFFICES ASSUME SumsInv, [Next]_vars PROVE TotalInv' /\ CountedInv'
    OBVIOUS
  <1>0. /\ TypeOK /\ TypeOK' /\ PhaseInv /\ AddendInv /\ NoLostAdd /\ TotalInv /\ CountedInv
        /\ nsucc \in [Counters -> Nat]
    BY TypeStep DEF SumsInv, IInv, TypeOK
  <1>1. \A t \in Threads : stats[t] \in [Counters -> Nat] /\ addend[t] \in 1..5
    BY <1>0 DEF TypeOK
  <1>2. \A t \in Threads : AddedBy[t] \in Nat /\ CountedBy[t] \in Nat
    BY <1>1, BeforeIs DEF AddedBy, CountedBy
  <1>3. ASSUME UNCHANGED <<total_request, stats, addend, nsucc>>
        PROVE  TotalInv' /\ CountedInv'
    BY <1>0, <1>3 DEF TotalInv, CountedInv, AddedBy, CountedBy
  <1>4. ASSUME NEW t \in Threads, NEW c \in Counters, CountSuccess(t, c)
        PROVE  TotalInv' /\ CountedInv'
    <2>1. /\ pc[t] = "travel" /\ addend' = addend /\ total_request' = total_request
          /\ stats' = [stats EXCEPT ![t][c] = @ + 1]
          /\ nsucc' = [nsucc EXCEPT ![c] = @ + 1]
      BY <1>4 DEF CountSuccess
    <2>2. PICK ns, nf, na, nc : /\ ns = stats' /\ nf = nsucc' /\ na = AddedBy' /\ nc = CountedBy'
      OBVIOUS
    <2>3. /\ ns[t] = [stats[t] EXCEPT ![c] = @ + 1] /\ ns[t] \in [Counters -> Nat]
          /\ \A u \in Threads \ {t} : ns[u] = stats[u]
      <3>1. ns = [stats EXCEPT ![t][c] = @ + 1] /\ ns \in [Threads -> [Counters -> Nat]]
        BY <1>0, <2>1, <2>2 DEF TypeOK
      <3>2. stats \in [Threads -> [Counters -> Nat]]
        BY <1>0 DEF TypeOK
      <3>3. QED
        BY <3>1, <3>2
    <2>4. /\ na = [u \in Threads |-> Before(addend[u], ns[u])]
          /\ nc = [u \in Threads |-> Before(5, ns[u])]
      BY <2>1, <2>2 DEF AddedBy, CountedBy
    <2>5. addend[t] = 1
      BY <1>0, <2>1 DEF PhaseInv
    <2>6. na = AddedBy
      <3>1. na[t] = AddedBy[t]
        BY <1>1, <2>3, <2>4, <2>5, BeforeIs DEF AddedBy
      <3>2. \A u \in Threads : na[u] = AddedBy[u]
        BY <2>3, <2>4, <3>1 DEF AddedBy
      <3>3. QED
        BY <2>4, <3>2 DEF AddedBy
    <2>7. nc[t] = CountedBy[t] + 1 /\ \A u \in Threads \ {t} : nc[u] = CountedBy[u]
      <3>1. Before(5, ns[t]) = Before(5, stats[t]) + 1
        BY <1>1, <2>3, BeforeGrows
      <3>2. QED
        BY <2>3, <2>4, <3>1 DEF CountedBy
    <2>8. SumFunctionOnSet(nc, Threads) = SumFunctionOnSet(CountedBy, Threads) + 1
      BY <1>2, <2>7, SumGrows, ThreadsAssumption
    <2>9. Before(5, nf) = Before(5, nsucc) + 1
      BY <1>0, <2>1, <2>2, BeforeGrows
    <2>10. CountedInv'
      BY <1>0, <2>2, <2>8, <2>9 DEF CountedInv
    <2>11. TotalInv'
      BY <1>0, <2>1, <2>2, <2>6 DEF TotalInv
    <2>12. QED
      BY <2>10, <2>11
  <1>5. ASSUME NEW t \in Threads, AddStore(t) PROVE TotalInv' /\ CountedInv'
    <2>1. /\ pc[t] = "add" /\ stats' = stats /\ nsucc' = nsucc
          /\ total_request' = loaded[t] + stats[t][CounterOrder[addend[t]]]
          /\ addend' = [addend EXCEPT ![t] = @ + 1]
      BY <1>5 DEF AddStore
    <2>2. PICK i \in 1..4 : i = addend[t]
      BY <1>0, <2>1 DEF AddendInv
    <2>3. PICK v \in Nat : v = stats[t][CounterOrder[i]]
      BY <1>1, CounterOrderType
    <2>4. loaded[t] = total_request
      BY <1>0, <2>1 DEF NoLostAdd
    <2>5. PICK ad, na : ad = addend' /\ na = AddedBy'
      OBVIOUS
    <2>6. ad[t] = i + 1 /\ \A u \in Threads \ {t} : ad[u] = addend[u]
      BY <1>0, <2>1, <2>2, <2>5 DEF TypeOK
    <2>7. na = [u \in Threads |-> Before(ad[u], stats[u])]
      BY <2>1, <2>5 DEF AddedBy
    <2>8. na[t] = AddedBy[t] + v /\ \A u \in Threads \ {t} : na[u] = AddedBy[u]
      <3>1. Before(i + 1, stats[t]) = Before(i, stats[t]) + v
        BY <1>1, <2>3, BeforeIs
      <3>2. QED
        BY <2>2, <2>6, <2>7, <3>1 DEF AddedBy
    <2>9. SumFunctionOnSet(na, Threads) = SumFunctionOnSet(AddedBy, Threads) + v
      BY <1>2, <2>8, SumGrows, ThreadsAssumption
    <2>10. TotalInv'
      BY <1>0, <2>1, <2>2, <2>3, <2>4, <2>5, <2>9 DEF TotalInv
    <2>11. CountedInv'
      BY <1>0, <2>1 DEF CountedInv, CountedBy
    <2>12. QED
      BY <2>10, <2>11
  <1>6. QED
    BY <1>3, <1>4, <1>5
       DEF Next, Thread, LoopTest, StoreShared, EndOfList, Lock, AddLoad, Unlock,
           StatThread, StatTest, StatRead, StatPrint, StopRun, Finished, vars

LEMMA SumsInvariance == Spec => []SumsInv
  <1>1. Init => SumsInv
    BY InitIInv, InitSums DEF SumsInv
  <1>2. SumsInv /\ [Next]_vars => SumsInv'
    BY TypeStep, LockStep, CountStep, PhaseStep, ReportStep, SumsStep DEF SumsInv, IInv
  <1>3. QED
    BY <1>1, <1>2, PTL DEF Spec

LEMMA Succeeded == Before(5, nsucc) = NumSucceeded
  BY DEF Before, CounterOrder, NumSucceeded

\* total_request is at every moment the sum of what the threads have added,
\* and what summary() prints is the number of commands that succeeded, for
\* every finite set of threads and every number of commands.
THEOREM TotalIsTheSum == Spec => []TotalAccounted
  <1>1. SumsInv => TotalAccounted
    <2> SUFFICES ASSUME SumsInv PROVE TotalAccounted
      OBVIOUS
    <2>1. TypeOK /\ PhaseInv /\ TotalInv /\ CountedInv
      BY DEF SumsInv, IInv
    <2>2. [t \in Threads |-> Added(t)] = AddedBy
      BY DEF AddedBy, Added, Before
    <2>3. SumFunction([t \in Threads |-> Added(t)]) = SumFunctionOnSet(AddedBy, Threads)
      BY <2>2 DEF SumFunction, FoldFunction, SumFunctionOnSet, AddedBy
    <2>4. ASSUME AllDone PROVE total_request = NumSucceeded
      <3>1. AddedBy = CountedBy
        BY <2>1, <2>4 DEF AllDone, PhaseInv, AddedBy, CountedBy
      <3>2. QED
        BY <2>1, <3>1, Succeeded DEF TotalInv, CountedInv
    <2>5. QED
      BY <2>1, <2>3, <2>4 DEF TotalInv, TotalAccounted
  <1>2. QED
    BY SumsInvariance, <1>1, PTL

\* A total of stat_thread, although its four counters are read at four moments
\* while the engine threads go on counting, never exceeds what succeeded.
THEOREM ReportsNeverOvercount == Spec => []ReportNeverOvercounts
  <1>1. SumsInv => ReportNeverOvercounts
    <2> SUFFICES ASSUME SumsInv PROVE ReportNeverOvercounts
      OBVIOUS
    <2>1. /\ ReportInv /\ report.sum \in Nat /\ nsucc \in [Counters -> Nat]
      BY DEF SumsInv, IInv, TypeOK
    <2>2. PICK n \in 1..5 : n = IF report.idx \in 1..4 THEN report.idx ELSE 5
      OBVIOUS
    <2>3. /\ Before(n, nsucc) <= Before(5, nsucc) /\ Before(n, nsucc) \in Nat
          /\ Before(5, nsucc) \in Nat
      BY <2>1, BeforeIs
    <2>4. report.sum <= Before(n, nsucc)
      BY <2>1, <2>2 DEF ReportInv
    <2>5. report.sum <= Before(5, nsucc)
      BY <2>1, <2>3, <2>4
    <2>6. QED
      BY <2>5, Succeeded DEF ReportNeverOvercounts
  <1>2. QED
    BY SumsInvariance, <1>1, PTL
=============================================================================
