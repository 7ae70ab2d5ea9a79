--------------------------- MODULE CondVarProofs ---------------------------
(***************************************************************************)
(* CondVar for any set of threads, any number of calls and any resolution  *)
(* of the clock: a signal serves one wait, and is not lost while a thread  *)
(* is asleep.                                                              *)
(***************************************************************************)
EXTENDS CondVar, TLAPS

\* The two properties need the types, in which the owner of the mutex is the
\* one thread between lock and unlock; NoLostWakeup is inductive with them.
IInv == TypeOK /\ EachWaitHasItsSignal /\ NoLostWakeup

LEMMA InitIInv == Init => IInv
  <1> SUFFICES ASSUME Init PROVE IInv
    OBVIOUS
  <1>1. TypeOK
    BY ThreadAssumption DEF Init, TypeOK, Places, Ops
  <1>2. EachWaitHasItsSignal /\ NoLostWakeup
    BY DEF Init, EachWaitHasItsSignal, NoLostWakeup
  <1>3. QED
    BY <1>1, <1>2 DEF IInv

\* The deadline's fraction is a natural number.
LEMMA WaitNsecType ==
    ASSUME NEW now \in 0..(NSEC - 1), NEW rest \in 0..(NSEC - 1)
    PROVE  wait_nsec(now, rest) \in Nat
  BY NumberAssumption DEF wait_nsec

\* Each action keeps every variable in its type, and the mutex its one owner.
LEMMA TypeStep == IInv /\ [Next]_vars => TypeOK'
  <1> SUFFICES ASSUME IInv, [Next]_vars PROVE TypeOK'
    OBVIOUS
  <1> USE ThreadAssumption DEF IInv, TypeOK, Places, Ops, At, Goto
  <1>1. ASSUME NEW t \in Threads, NEW o \in Ops,
               NEW now \in 0..(NSEC - 1), NEW rest \in 0..(NSEC - 1),
               Call(t, o, now, rest)
        PROVE TypeOK'
    <2>1. wait_nsec(now, rest) \in Nat
      BY WaitNsecType
    <2>2. QED
      BY <1>1, <2>1 DEF Call
  <1>2. ASSUME NEW t \in Threads, Lock(t) PROVE TypeOK'
    BY <1>2 DEF Lock
  <1>3. ASSUME NEW t \in Threads, Unlock(t) PROVE TypeOK'
    BY <1>3 DEF Unlock
  <1>4. ASSUME NEW t \in Threads, my_cond_wait(t) PROVE TypeOK'
    BY <1>4 DEF my_cond_wait, Block, Consume
  <1>5. ASSUME NEW t \in Threads, WaitWoken(t) PROVE TypeOK'
    BY <1>5 DEF WaitWoken
  <1>6. ASSUME NEW t \in Threads, my_cond_timedwait(t) PROVE TypeOK'
    BY <1>6 DEF my_cond_timedwait, Block, TimedFails
  <1>7. ASSUME NEW t \in Threads, TimedWoken(t) PROVE TypeOK'
    BY <1>7 DEF TimedWoken
  <1>8. ASSUME NEW t \in Threads, TimedExpired(t) PROVE TypeOK'
    BY <1>8 DEF TimedExpired
  <1>9. ASSUME NEW t \in Threads, my_cond_signal(t) PROVE TypeOK'
    <2>1. PICK W \in SUBSET blocked :
             /\ blocked' = blocked \ W
             /\ pc' = [u \in Threads |-> IF u = t THEN "unlock"
                                         ELSE IF u \in W THEN "woken" ELSE pc[u]]
      BY <1>9 DEF my_cond_signal
    <2>2. pc[t] = "locked" /\ t \notin W
      BY <1>9 DEF my_cond_signal
    <2>3. pc' \in [Threads -> Places]
      BY <2>1
    <2>4. blocked' = {u \in Threads : pc'[u] = "blocked"}
      BY <2>1, <2>2
    <2>5. \A u \in Threads : mutex' = u <=> pc'[u] \in {"locked", "unlock"}
      BY <1>9, <2>1, <2>2 DEF my_cond_signal
    <2>6. QED
      BY <1>9, <2>3, <2>4, <2>5 DEF my_cond_signal
  <1>10. ASSUME NEW t \in Threads, SpuriousWake(t) PROVE TypeOK'
    BY <1>10 DEF SpuriousWake
  <1>11. ASSUME NEW t \in Threads, Expire(t) PROVE TypeOK'
    BY <1>11 DEF Expire
  <1>12. ASSUME Quiet \/ UNCHANGED vars PROVE TypeOK'
    BY <1>12 DEF Quiet, vars
  <1>13. QED
    BY <1>1, <1>2, <1>3, <1>4, <1>5, <1>6, <1>7, <1>8, <1>9, <1>10, <1>11, <1>12
       DEF Next, Step

\* A wait is served only by a set flag, which it clears.
LEMMA SignalStep == IInv /\ [Next]_vars => EachWaitHasItsSignal'
  <1> SUFFICES ASSUME IInv, [Next]_vars PROVE EachWaitHasItsSignal'
    OBVIOUS
  <1> USE DEF IInv, EachWaitHasItsSignal
  <1>0. flag \in {0, 1} /\ nwait \in Nat /\ nsignal \in Nat
    BY DEF TypeOK
  <1>1. ASSUME NEW t \in Threads, my_cond_wait(t) PROVE EachWaitHasItsSignal'
    BY <1>0, <1>1 DEF my_cond_wait, Block, Consume
  <1>2. ASSUME NEW t \in Threads, TimedWoken(t) PROVE EachWaitHasItsSignal'
    BY <1>0, <1>2 DEF TimedWoken
  <1>3. ASSUME NEW t \in Threads, my_cond_signal(t) PROVE EachWaitHasItsSignal'
    BY <1>0, <1>3 DEF my_cond_signal
  <1>4. ASSUME UNCHANGED <<flag, nwait, nsignal>> PROVE EachWaitHasItsSignal'
    BY <1>4
  <1>5. ASSUME NEW t \in Threads, my_cond_timedwait(t) PROVE EachWaitHasItsSignal'
    BY <1>4, <1>5 DEF my_cond_timedwait, Block, TimedFails
  <1>6. ASSUME NEW t \in Threads,
               \/ Lock(t) \/ Unlock(t) \/ WaitWoken(t) \/ TimedExpired(t)
               \/ SpuriousWake(t) \/ Expire(t)
        PROVE EachWaitHasItsSignal'
    BY <1>4, <1>6 DEF Lock, Unlock, WaitWoken, TimedExpired, SpuriousWake, Expire
  <1>7. ASSUME NEW t \in Threads, NEW o \in Ops,
               NEW now \in 0..(NSEC - 1), NEW rest \in 0..(NSEC - 1),
               Call(t, o, now, rest)
        PROVE EachWaitHasItsSignal'
    BY <1>4, <1>7 DEF Call
  <1>8. ASSUME Quiet \/ UNCHANGED vars PROVE EachWaitHasItsSignal'
    BY <1>4, <1>8 DEF Quiet, vars
  <1>9. QED
    BY <1>1, <1>2, <1>3, <1>5, <1>6, <1>7, <1>8 DEF Next, Step

\* The thread that will take a pending signal stays on its way to it.
LEMMA WakeupStep == IInv /\ [Next]_vars => NoLostWakeup'
  <1> SUFFICES ASSUME IInv, [Next]_vars, flag' = 1, blocked' # {}
               PROVE \E t \in Threads : pc'[t] = "woken"
                                          \/ (pc'[t] = "locked" /\ op'[t] = "wait")
    BY DEF NoLostWakeup
  <1> DEFINE Taker(t) == pc[t] = "woken" \/ (pc[t] = "locked" /\ op[t] = "wait")
             Goal == \E t \in Threads : pc'[t] = "woken"
                                          \/ (pc'[t] = "locked" /\ op'[t] = "wait")
  <1> USE DEF At, Goto
  <1>0. /\ pc \in [Threads -> Places] /\ op \in [Threads -> Ops]
        /\ blocked = {t \in Threads : pc[t] = "blocked"}
        /\ \A t \in Threads : mutex = t <=> pc[t] \in {"locked", "unlock"}
        /\ flag = 1 /\ blocked # {} => \E t \in Threads : Taker(t)
    BY DEF IInv, TypeOK, NoLostWakeup
  <1>1. ASSUME NEW t \in Threads, NEW o \in Ops,
               NEW now \in 0..(NSEC - 1), NEW rest \in 0..(NSEC - 1),
               Call(t, o, now, rest)
        PROVE Goal
    BY <1>0, <1>1 DEF Call
  <1>2. ASSUME NEW t \in Threads, Lock(t) \/ Unlock(t) \/ WaitWoken(t) PROVE Goal
    BY <1>0, <1>2 DEF Lock, Unlock, WaitWoken
  <1>3. ASSUME NEW t \in Threads, my_cond_wait(t) PROVE Goal
    BY <1>0, <1>3 DEF my_cond_wait, Block, Consume
  <1>4. ASSUME NEW t \in Threads, my_cond_timedwait(t) PROVE Goal
    BY <1>0, <1>4 DEF my_cond_timedwait, Block, TimedFails
  <1>5. ASSUME NEW t \in Threads, TimedWoken(t) \/ TimedExpired(t) PROVE Goal
    BY <1>0, <1>5 DEF TimedWoken, TimedExpired
  <1>6. ASSUME NEW t \in Threads, my_cond_signal(t) PROVE Goal
    <2>1. PICK W \in SUBSET blocked :
             /\ blocked # {} => W # {}
             /\ blocked' = blocked \ W
             /\ pc' = [u \in Threads |-> IF u = t THEN "unlock"
                                         ELSE IF u \in W THEN "woken" ELSE pc[u]]
      BY <1>6 DEF my_cond_signal
    <2>2. PICK u \in W : u \in Threads /\ u # t
      BY <1>0, <1>6, <2>1 DEF my_cond_signal
    <2>3. pc'[u] = "woken"
      BY <2>1, <2>2
    <2>4. QED
      BY <2>2, <2>3
  <1>7. ASSUME NEW t \in Threads, SpuriousWake(t) \/ Expire(t) PROVE Goal
    BY <1>0, <1>7 DEF SpuriousWake, Expire
  <1>8. ASSUME Quiet \/ UNCHANGED vars PROVE Goal
    BY <1>0, <1>8 DEF Quiet, vars
  <1>9. QED
    BY <1>1, <1>2, <1>3, <1>4, <1>5, <1>6, <1>7, <1>8 DEF Next, Step

LEMMA Invariance == Spec => []IInv
  <1>1. IInv /\ [Next]_vars => IInv'
    BY TypeStep, SignalStep, WakeupStep DEF IInv
  <1>2. QED
    BY <1>1, InitIInv, PTL DEF Spec

\* Every variable keeps its type, and the mutex has one owner at most.
THEOREM TypeCorrect == Spec => []TypeOK
  BY Invariance, PTL DEF IInv

\* For any number of threads, no more my_cond_wait calls return than
\* my_cond_signal was called, whatever wakes them.
THEOREM OneWaitPerSignal == Spec => []EachWaitHasItsSignal
  BY Invariance, PTL DEF IInv

\* For any number of threads, a pending signal and a sleeping thread mean
\* that another thread is on its way to take the signal.
THEOREM WakeupsAreKept == Spec => []NoLostWakeup
  BY Invariance, PTL DEF IInv
=============================================================================
