------------------------------- MODULE Stats -------------------------------
(***************************************************************************)
(* Request accounting of checkQ (engine/cq_engine.c, cq_mysql_cmd.c).      *)
(*                                                                         *)
(* Every engine thread counts the commands that succeeded twice: in its    *)
(* private eng_ctx->stats, and in the shared g_stat with                   *)
(*     g_stat.ninsert = __sync_add_and_fetch(&g_stat.ninsert, 1);          *)
(* that is an atomic add followed by an ordinary store of the value the    *)
(* add returned.  The private counters are added to total_request under    *)
(* total_request_lock when the thread leaves its loop.  stat_thread prints *)
(* g_stat while the run lasts, summary() prints total_request at its end.  *)
(*                                                                         *)
(* The private increment and the atomic add are one step: nobody else      *)
(* reads eng_ctx->stats.  The store is a step of its own, and so are the   *)
(* load and the store of each  total_request += ... .                      *)
(***************************************************************************)
EXTENDS Integers, Sequences, FiniteSets, Functions

CONSTANTS
    Threads,    \* the engine threads
    NoThread,   \* owner of total_request_lock when it is free
    MaxOps      \* bound: commands that succeed in a run

ASSUME ThreadsAssumption == IsFiniteSet(Threads) /\ NoThread \notin Threads
ASSUME MaxOpsAssumption == MaxOps \in Nat

\* The four counters, in the order engine_thread adds them to total_request.
CounterOrder == <<"ninsert", "nupdate", "ndelete", "nselect">>
Counters == {"ninsert", "nupdate", "ndelete", "nselect"}

VARIABLES
    pc,                 \* where each engine thread is
    stats,              \* eng_ctx->stats of each thread
    g_stat,             \* the shared counters
    reg,                \* [thread -> <<counter, value>>] the add returned, not yet stored
    is_thread_run,      \* cleared by time_thread
    total_request_lock, \* its owner
    total_request,
    addend,             \* [thread -> next index of CounterOrder to add]
    loaded,             \* [thread -> total_request as loaded by the +=]
    report,             \* stat_thread: [idx, sum] of the total it is computing
    nsucc               \* history: commands that succeeded, per counter

vars == <<pc, stats, g_stat, reg, is_thread_run, total_request_lock,
          total_request, addend, loaded, report, nsucc>>

Pcs == {"loop", "travel", "store", "lock", "load", "add", "unlock", "done"}

\* report.idx: 0 at the loop test, 1..4 before reading that counter, 5 before
\* the print, StatDone when stat_thread has returned.
StatDone == 6

\* Every variable holds a value of its type.
TypeOK ==
    /\ pc \in [Threads -> Pcs]
    /\ stats \in [Threads -> [Counters -> Nat]]
    /\ g_stat \in [Counters -> Nat]
    /\ reg \in [Threads -> [counter : Counters, value : Nat]]
    /\ is_thread_run \in BOOLEAN
    /\ total_request_lock \in Threads \cup {NoThread}
    /\ total_request \in Nat
    /\ addend \in [Threads -> 1..5]
    /\ loaded \in [Threads -> Nat]
    /\ report \in [idx : 0..StatDone, sum : Nat]
    /\ nsucc \in [Counters -> Nat]

\* init_env and eng_context_init zero every counter.
Init ==
    /\ pc = [t \in Threads |-> "loop"]
    /\ stats = [t \in Threads |-> [c \in Counters |-> 0]]
    /\ g_stat = [c \in Counters |-> 0]
    /\ reg = [t \in Threads |-> [counter |-> "ninsert", value |-> 0]]
    /\ is_thread_run = TRUE
    /\ total_request_lock = NoThread
    /\ total_request = 0
    /\ addend = [t \in Threads |-> 1]
    /\ loaded = [t \in Threads |-> 0]
    /\ report = [idx |-> 0, sum |-> 0]
    /\ nsucc = [c \in Counters |-> 0]

NumSucceeded ==
    nsucc["ninsert"] + nsucc["nupdate"] + nsucc["ndelete"] + nsucc["nselect"]

Goto(t, to) == pc' = [pc EXCEPT ![t] = to]

\* while (is_thread_run): start another traversal of a command list, or leave.
LoopTest(t) ==
    /\ pc[t] = "loop"
    /\ Goto(t, IF is_thread_run THEN "travel" ELSE "lock")
    /\ UNCHANGED <<stats, g_stat, reg, is_thread_run, total_request_lock,
                   total_request, addend, loaded, report, nsucc>>

\* Mutant: __sync_sub_and_fetch for __sync_add_and_fetch.
CountSuccessSub(t, c) ==
    /\ pc[t] = "travel"
    /\ NumSucceeded < MaxOps
    /\ stats' = [stats EXCEPT ![t][c] = @ + 1]
    /\ g_stat' = [g_stat EXCEPT ![c] = @ - 1]
    /\ reg' = [reg EXCEPT ![t] = [counter |-> c, value |-> g_stat[c] - 1]]
    /\ nsucc' = [nsucc EXCEPT ![c] = @ + 1]
    /\ Goto(t, "store")
    /\ UNCHANGED <<is_thread_run, total_request_lock, total_request, addend,
                   loaded, report>>

\* A query of the list succeeded: the private counter and the atomic add.
CountSuccess(t, c) ==
    /\ pc[t] = "travel"
    /\ NumSucceeded < MaxOps
    /\ stats' = [stats EXCEPT ![t][c] = @ + 1]
    /\ g_stat' = [g_stat EXCEPT ![c] = @ + 1]
    /\ reg' = [reg EXCEPT ![t] = [counter |-> c, value |-> g_stat[c] + 1]]
    /\ nsucc' = [nsucc EXCEPT ![c] = @ + 1]
    /\ Goto(t, "store")
    /\ UNCHANGED <<is_thread_run, total_request_lock, total_request, addend,
                   loaded, report>>

\* Mutant: the value is added a second time instead of stored.
StoreSharedTwice(t) ==
    /\ pc[t] = "store"
    /\ g_stat' = [g_stat EXCEPT ![reg[t].counter] = @ + 1]
    /\ Goto(t, "travel")
    /\ UNCHANGED <<stats, reg, is_thread_run, total_request_lock,
                   total_request, addend, loaded, report, nsucc>>

\* g_stat.n = <the value the add returned>.
StoreShared(t) ==
    /\ pc[t] = "store"
    /\ g_stat' = [g_stat EXCEPT ![reg[t].counter] = reg[t].value]
    /\ Goto(t, "travel")
    /\ UNCHANGED <<stats, reg, is_thread_run, total_request_lock,
                   total_request, addend, loaded, report, nsucc>>

\* The rest of the list had no (more) successful command.
EndOfList(t) ==
    /\ pc[t] = "travel"
    /\ Goto(t, "loop")
    /\ UNCHANGED <<stats, g_stat, reg, is_thread_run, total_request_lock,
                   total_request, addend, loaded, report, nsucc>>

\* Mutant: total_request is updated without taking the lock.
LockIgnored(t) ==
    /\ pc[t] = "lock"
    /\ Goto(t, "load")
    /\ UNCHANGED <<stats, g_stat, reg, is_thread_run, total_request_lock,
                   total_request, addend, loaded, report, nsucc>>

\* my_lock(&total_request_lock)
Lock(t) ==
    /\ pc[t] = "lock"
    /\ total_request_lock = NoThread
    /\ total_request_lock' = t
    /\ Goto(t, "load")
    /\ UNCHANGED <<stats, g_stat, reg, is_thread_run, total_request, addend,
                   loaded, report, nsucc>>

\* total_request += eng_ctx->stats.n: the load ...
AddLoad(t) ==
    /\ pc[t] = "load"
    /\ loaded' = [loaded EXCEPT ![t] = total_request]
    /\ Goto(t, "add")
    /\ UNCHANGED <<stats, g_stat, reg, is_thread_run, total_request_lock,
                   total_request, addend, report, nsucc>>

\* Mutant: nselect, the fourth counter, is forgotten.
AddStoreThree(t) ==
    /\ pc[t] = "add"
    /\ total_request' = loaded[t] + (IF addend[t] = 4 THEN 0
                                     ELSE stats[t][CounterOrder[addend[t]]])
    /\ addend' = [addend EXCEPT ![t] = @ + 1]
    /\ Goto(t, IF addend[t] = 4 THEN "unlock" ELSE "load")
    /\ UNCHANGED <<stats, g_stat, reg, is_thread_run, total_request_lock,
                   loaded, report, nsucc>>

\* ... and the store of the sum; after the fourth counter, unlock.
AddStore(t) ==
    /\ pc[t] = "add"
    /\ total_request' = loaded[t] + stats[t][CounterOrder[addend[t]]]
    /\ addend' = [addend EXCEPT ![t] = @ + 1]
    /\ Goto(t, IF addend[t] = 4 THEN "unlock" ELSE "load")
    /\ UNCHANGED <<stats, g_stat, reg, is_thread_run, total_request_lock,
                   loaded, report, nsucc>>

\* Mutant: the lock is never released.
UnlockMissing(t) ==
    /\ pc[t] = "unlock"
    /\ Goto(t, "done")
    /\ UNCHANGED <<stats, g_stat, reg, is_thread_run, total_request_lock,
                   total_request, addend, loaded, report, nsucc>>

\* my_unlock(&total_request_lock)
Unlock(t) ==
    /\ pc[t] = "unlock"
    /\ total_request_lock' = NoThread
    /\ Goto(t, "done")
    /\ UNCHANGED <<stats, g_stat, reg, is_thread_run, total_request, addend,
                   loaded, report, nsucc>>

\* Mutant: the total of the last report is carried over.
StatTestKeepsSum ==
    /\ report.idx = 0
    /\ report' = [report EXCEPT !.idx = IF is_thread_run THEN 1 ELSE StatDone]
    /\ UNCHANGED <<pc, stats, g_stat, reg, is_thread_run, total_request_lock,
                   total_request, addend, loaded, nsucc>>

\* stat_thread: while (is_thread_run), another report, starting from zero.
StatTest ==
    /\ report.idx = 0
    /\ report' = IF is_thread_run THEN [idx |-> 1, sum |-> 0]
                                  ELSE [report EXCEPT !.idx = StatDone]
    /\ UNCHANGED <<pc, stats, g_stat, reg, is_thread_run, total_request_lock,
                   total_request, addend, loaded, nsucc>>

\* total_reqs = the sum of the four shared counters, read one after the other.
StatRead ==
    /\ report.idx \in 1..4
    /\ report' = [idx |-> report.idx + 1,
                  sum |-> report.sum + g_stat[CounterOrder[report.idx]]]
    /\ UNCHANGED <<pc, stats, g_stat, reg, is_thread_run, total_request_lock,
                   total_request, addend, loaded, nsucc>>

\* The report is printed; sleep(g_stat_interval), then the loop test.
StatPrint ==
    /\ report.idx = 5
    /\ report' = [report EXCEPT !.idx = 0]
    /\ UNCHANGED <<pc, stats, g_stat, reg, is_thread_run, total_request_lock,
                   total_request, addend, loaded, nsucc>>

\* time_thread ends the run.
StopRun ==
    /\ is_thread_run
    /\ is_thread_run' = FALSE
    /\ UNCHANGED <<pc, stats, g_stat, reg, total_request_lock, total_request,
                   addend, loaded, report, nsucc>>

AllDone == \A t \in Threads : pc[t] = "done"

\* All threads joined: summary() has its figures and the program returns.
Finished ==
    /\ AllDone
    /\ report.idx = StatDone
    /\ UNCHANGED vars

Thread(t) ==
    \/ LoopTest(t)
    \/ \E c \in Counters : CountSuccess(t, c)
    \/ StoreShared(t)
    \/ EndOfList(t)
    \/ Lock(t)
    \/ AddLoad(t)
    \/ AddStore(t)
    \/ Unlock(t)

StatThread == StatTest \/ StatRead \/ StatPrint

Next ==
    \/ \E t \in Threads : Thread(t)
    \/ StatThread
    \/ StopRun
    \/ Finished

Spec == Init /\ [][Next]_vars

(***************************************************************************)
(* Every thread is scheduled; a command list is finite (MaxOps bounds what *)
(* is left to count), so a traversal ends; the run time is finite.         *)
(***************************************************************************)
Fairness ==
    /\ \A t \in Threads : WF_vars(Thread(t))
    /\ WF_vars(StatThread)
    /\ WF_vars(StopRun)

FairSpec == Spec /\ Fairness

-----------------------------------------------------------------------------
\* A shared counter never shows more commands than succeeded, whatever stale
\* value the non-atomic store after __sync_add_and_fetch writes back.
GStatNeverOvercounts == \A c \in Counters : g_stat[c] <= nsucc[c]

\* The lock makes each  total_request += ...  atomic: no thread stores a sum
\* based on a total_request that has changed since it was loaded.
NoLostAdd == \A t \in Threads : pc[t] = "add" => loaded[t] = total_request

\* What a thread has added to total_request so far.
Added(t) ==
    LET part(i) == IF i < addend[t] THEN stats[t][CounterOrder[i]] ELSE 0
    IN part(1) + part(2) + part(3) + part(4)

\* total_request is at every moment what the threads have added so far, and
\* "Total request" in summary() is the number of commands that succeeded.
TotalAccounted ==
    /\ total_request = SumFunction([t \in Threads |-> Added(t)])
    /\ AllDone => total_request = NumSucceeded

\* A "Total" line of stat_thread never exceeds the commands that succeeded,
\* although its four counters are read at four different moments.
ReportNeverOvercounts == report.sum <= NumSucceeded

\* Every engine thread gets through total_request_lock after the run ends, so
\* start_engine's joins return and summary() is reached.
SummaryReached == ~is_thread_run ~> AllDone

\* The counters stat_thread prints as "Ops" are, once every engine thread has
\* ended, the commands that succeeded.
OpsExactAtEnd == AllDone => \A c \in Counters : g_stat[c] = nsucc[c]
=============================================================================
