------------------------------ MODULE CondVar ------------------------------
(***************************************************************************)
(* The condition variable of mylib/my_mutex.c: a flag, a mutex and a       *)
(* pthread condition variable.  Threads call my_cond_wait,                 *)
(* my_cond_timedwait and my_cond_signal at will.  Of the macros of         *)
(* my_mutex.h, my_cond_wait_execute and my_cond_signal_execute are the     *)
(* same code with a statement inside the mutex.  my_cond_timedwait_execute *)
(* is not: it waits without a deadline and ignores its status.  Nothing    *)
(* uses it, and it is not modelled.                                        *)
(*                                                                         *)
(* pthread is external: a signal wakes at least one of the threads that    *)
(* are blocked, a blocked thread may also wake without one, and a woken    *)
(* thread first gets the mutex back.  Times count in fractions of a second,*)
(* NSEC of them to the second (10^9 in the code).                          *)
(***************************************************************************)
EXTENDS Naturals

CONSTANTS
    Threads, NoThread,
    NSEC,
    MaxCalls            \* bound: calls in a run

ASSUME ThreadAssumption == NoThread \notin Threads
ASSUME NumberAssumption == NSEC \in Nat \ {0} /\ MaxCalls \in Nat

VARIABLES
    flag, mutex,        \* cond->flag, and the owner of cond->mutex
    blocked,            \* the threads pthread_cond_(timed)wait has put to sleep
    pc, op,             \* per thread: its place, and the call in progress
    nsec,               \* wait_time.tv_nsec of a timed wait
    ncalls,
    nsignal, nwait      \* history: signals sent, and my_cond_wait calls served

vars == <<flag, mutex, blocked, pc, op, nsec, ncalls, nsignal, nwait>>

Ops == {"wait", "timedwait", "signal"}

Init ==
    /\ flag = 0 /\ mutex = NoThread
    /\ blocked = {}
    /\ pc = [t \in Threads |-> "idle"]
    /\ op = [t \in Threads |-> "signal"]
    /\ nsec = [t \in Threads |-> 0]
    /\ ncalls = 0 /\ nsignal = 0 /\ nwait = 0

At(t, place) == pc[t] = place
Goto(t, to) == pc' = [pc EXCEPT ![t] = to]

\* The fraction of the deadline: only what is above a second is carried over.
wait_nsec(now, rest) == IF now + rest > NSEC THEN now + rest - NSEC ELSE now + rest

\* A call; my_cond_timedwait computes its deadline from the clock and from
\* the fraction it was asked to wait, before it takes the mutex.
Call(t, o, now, rest) ==
    /\ At(t, "idle")
    /\ ncalls < MaxCalls
    /\ ncalls' = ncalls + 1
    /\ op' = [op EXCEPT ![t] = o]
    /\ nsec' = [nsec EXCEPT ![t] = wait_nsec(now, rest)]
    /\ Goto(t, "lock")
    /\ UNCHANGED <<flag, mutex, blocked, nsignal, nwait>>

\* pthread_mutex_lock.
Lock(t) ==
    /\ At(t, "lock")
    /\ mutex = NoThread
    /\ mutex' = t
    /\ Goto(t, "locked")
    /\ UNCHANGED <<flag, blocked, op, nsec, ncalls, nsignal, nwait>>

\* Mutant: the call returns without pthread_mutex_unlock.
UnlockMissing(t) ==
    /\ At(t, "unlock")
    /\ Goto(t, "idle")
    /\ UNCHANGED <<flag, mutex, blocked, op, nsec, ncalls, nsignal, nwait>>

\* pthread_mutex_unlock, and the call returns.
Unlock(t) ==
    /\ At(t, "unlock")
    /\ mutex' = NoThread
    /\ Goto(t, "idle")
    /\ UNCHANGED <<flag, blocked, op, nsec, ncalls, nsignal, nwait>>

\* The thread goes to sleep and gives the mutex up.
Block(t) ==
    /\ mutex' = NoThread
    /\ blocked' = blocked \cup {t}
    /\ Goto(t, "blocked")
    /\ UNCHANGED <<flag, op, nsec, ncalls, nsignal, nwait>>

-----------------------------------------------------------------------------
(* my_cond_wait *)

\* The flag is consumed.
Consume(t) ==
    /\ flag' = 0
    /\ nwait' = nwait + 1
    /\ Goto(t, "unlock")
    /\ UNCHANGED <<mutex, blocked, op, nsec, ncalls, nsignal>>

\* while (cond->flag == 0) pthread_cond_wait(...)
my_cond_wait(t) ==
    /\ At(t, "locked") /\ op[t] = "wait"
    /\ IF flag = 0 THEN Block(t) ELSE Consume(t)

\* Mutant: "if" in place of "while": a thread that woke goes on.
WaitWokenOnce(t) ==
    /\ At(t, "woken") /\ op[t] = "wait"
    /\ mutex = NoThread
    /\ mutex' = t
    /\ flag' = 0
    /\ nwait' = nwait + 1
    /\ Goto(t, "unlock")
    /\ UNCHANGED <<blocked, op, nsec, ncalls, nsignal>>

\* pthread_cond_wait returns with the mutex, and the loop tests the flag again.
WaitWoken(t) ==
    /\ At(t, "woken") /\ op[t] = "wait"
    /\ mutex = NoThread
    /\ mutex' = t
    /\ Goto(t, "locked")
    /\ UNCHANGED <<flag, blocked, op, nsec, ncalls, nsignal, nwait>>

-----------------------------------------------------------------------------
(* my_cond_timedwait *)

\* pthread_cond_timedwait refuses a fraction of a second or more (EINVAL).
ValidTime(t) == nsec[t] < NSEC

\* RET_FAILED at once, when the flag is set already or the time is refused.
TimedFails(t) ==
    /\ Goto(t, "unlock")
    /\ UNCHANGED <<flag, mutex, blocked, op, nsec, ncalls, nsignal, nwait>>

my_cond_timedwait(t) ==
    /\ At(t, "locked") /\ op[t] = "timedwait"
    /\ IF flag = 0 /\ ValidTime(t) THEN Block(t) ELSE TimedFails(t)

\* pthread_cond_timedwait returns 0: the flag is cleared, whatever it was.
TimedWoken(t) ==
    /\ At(t, "woken") /\ op[t] = "timedwait"
    /\ mutex = NoThread
    /\ mutex' = t
    /\ flag' = 0
    /\ Goto(t, "unlock")
    /\ UNCHANGED <<blocked, op, nsec, ncalls, nsignal, nwait>>

\* It returns ETIMEDOUT: RET_FAILED, and the flag is left alone.
TimedExpired(t) ==
    /\ At(t, "expired")
    /\ mutex = NoThread
    /\ mutex' = t
    /\ Goto(t, "unlock")
    /\ UNCHANGED <<flag, blocked, op, nsec, ncalls, nsignal, nwait>>

-----------------------------------------------------------------------------
(* my_cond_signal *)

\* Mutant: the flag is set and nobody is woken.
my_cond_signal_quiet(t) ==
    /\ At(t, "locked") /\ op[t] = "signal"
    /\ flag' = 1
    /\ nsignal' = nsignal + 1
    /\ Goto(t, "unlock")
    /\ UNCHANGED <<mutex, blocked, op, nsec, ncalls, nwait>>

\* flag = 1, then pthread_cond_signal wakes at least one blocked thread.
my_cond_signal(t) ==
    /\ At(t, "locked") /\ op[t] = "signal"
    /\ flag' = 1
    /\ nsignal' = nsignal + 1
    /\ \E W \in SUBSET blocked :
          /\ blocked # {} => W # {}
          /\ blocked' = blocked \ W
          /\ pc' = [u \in Threads |-> IF u = t THEN "unlock"
                                      ELSE IF u \in W THEN "woken" ELSE pc[u]]
    /\ UNCHANGED <<mutex, op, nsec, ncalls, nwait>>

\* A blocked thread wakes although nobody signalled.
SpuriousWake(t) ==
    /\ t \in blocked
    /\ blocked' = blocked \ {t}
    /\ Goto(t, "woken")
    /\ UNCHANGED <<flag, mutex, op, nsec, ncalls, nsignal, nwait>>

\* The deadline of a timed wait passes.
Expire(t) ==
    /\ t \in blocked /\ op[t] = "timedwait"
    /\ blocked' = blocked \ {t}
    /\ Goto(t, "expired")
    /\ UNCHANGED <<flag, mutex, op, nsec, ncalls, nsignal, nwait>>

-----------------------------------------------------------------------------
\* What a thread does once it has called.
Step(t) ==
    \/ Lock(t) \/ Unlock(t)
    \/ my_cond_wait(t) \/ WaitWoken(t)
    \/ my_cond_timedwait(t) \/ TimedWoken(t) \/ TimedExpired(t)
    \/ my_cond_signal(t)

\* Nobody calls any more, and who is blocked waits for a signal.
Quiet ==
    /\ \A t \in Threads : pc[t] \in {"idle", "blocked"}
    /\ UNCHANGED vars

Next ==
    \/ \E t \in Threads, o \in Ops, now, rest \in 0..(NSEC - 1) : Call(t, o, now, rest)
    \/ \E t \in Threads : Step(t)
    \/ \E t \in Threads : SpuriousWake(t) \/ Expire(t)
    \/ Quiet

Spec == Init /\ [][Next]_vars

(***************************************************************************)
(* A thread that has called is scheduled, and a mutex that is released     *)
(* again and again is got in the end.  No call, no spurious wake-up and no *)
(* deadline is promised.                                                   *)
(***************************************************************************)
FairSpec == Spec /\ \A t \in Threads : SF_vars(Step(t))

-----------------------------------------------------------------------------
Places == {"idle", "lock", "locked", "blocked", "woken", "expired", "unlock"}

\* Every variable holds a value of its type; the blocked threads are those
\* at that place, and the owner of the mutex is the one thread past the lock.
TypeOK ==
    /\ flag \in {0, 1} /\ mutex \in Threads \cup {NoThread}
    /\ pc \in [Threads -> Places] /\ op \in [Threads -> Ops]
    /\ blocked = {t \in Threads : pc[t] = "blocked"}
    /\ \A t \in Threads : mutex = t <=> pc[t] \in {"locked", "unlock"}
    /\ nsec \in [Threads -> Nat]
    /\ ncalls \in Nat /\ nsignal \in Nat /\ nwait \in Nat

\* A signal serves at most one my_cond_wait: no wait returns for a spurious
\* wake-up, nor two of them for one signal, with timed waits in between.
EachWaitHasItsSignal == nwait + flag <= nsignal

\* While a signal is pending and a thread is asleep, another one is awake
\* that will take the signal: a wake-up is not lost to a thread that does
\* not use it.
NoLostWakeup ==
    flag = 1 /\ blocked # {} => \E t \in Threads : pc[t] = "woken"
                                  \/ (pc[t] = "locked" /\ op[t] = "wait")

\* A pending signal that finds a thread asleep is taken in the end.
SignalIsTaken == (flag = 1 /\ blocked # {}) ~> (flag = 0)
=============================================================================
