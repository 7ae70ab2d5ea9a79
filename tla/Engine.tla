------------------------------- MODULE Engine -------------------------------
(***************************************************************************)
(* The life of a checkQ process (engine/cq_engine.c, engine/checkQ.c):     *)
(* start_engine creates the table, alter, time, engine and stat threads,   *)
(* the time thread ends the run after g_end_time seconds, start_engine     *)
(* joins the others, then summary() and clean_env() run.                   *)
(*                                                                         *)
(* The flags and times are plain shared variables, read and written        *)
(* without a lock; every read or write of one is a step.  The clock has    *)
(* Ticks ticks to the second and may advance between any two steps:        *)
(* left[t] is what remains of a sleep and elapsed the time time_thread has *)
(* run, while time() gives whole seconds, cut.  Nobody sets the clock.     *)
(***************************************************************************)
EXTENDS Integers, Sequences

CONSTANTS
    EngineSeq,          \* the engine threads asked for with -t, in order
    MAX_THREAD_NUM,
    TableNames,         \* what "test%d" can be
    EndTimes,           \* the values of -e
    g_stat_interval, g_alter_interval,
    TABLE_THREAD_SLEEP,
    UIntMod,            \* 2^32: the argument of sleep is an unsigned int
    Ticks,              \* ticks of the clock in a second
    Lateness            \* bound: ticks elapsed counts beyond g_end_time

ASSUME EngineAssumption ==
    /\ EngineSeq \in Seq(STRING)
    /\ \A i, j \in 1..Len(EngineSeq) : EngineSeq[i] = EngineSeq[j] => i = j
    /\ \A i \in 1..Len(EngineSeq) :
          EngineSeq[i] \notin {"table", "alter", "time", "stat"}
    /\ MAX_THREAD_NUM \in Nat
ASSUME TimeAssumption ==
    /\ EndTimes \subseteq Nat
    /\ {g_stat_interval, g_alter_interval, TABLE_THREAD_SLEEP, Lateness} \subseteq Nat
    /\ UIntMod \in Nat \ {0} /\ Ticks \in Nat \ {0}

\* engine_thread_num: at most MAX_THREAD_NUM of them.
Started == SubSeq(EngineSeq, 1, IF Len(EngineSeq) > MAX_THREAD_NUM
                                THEN MAX_THREAD_NUM ELSE Len(EngineSeq))
Engines == {Started[i] : i \in 1..Len(Started)}
Threads == {"table", "alter", "time", "stat"} \cup Engines

\* The order of the pthread_create and of the pthread_join calls.
CreateOrder == <<"table", "alter", "time">> \o Started \o <<"stat">>
JoinOrder == <<"alter", "table", "stat">> \o Started

VARIABLES
    g_end_time,
    proc,           \* "running", or how the process ended
    mpc, mi,        \* main: its place and its index in the two orders
    pc,             \* [thread -> its place]
    left,           \* [thread -> ticks left of its sleep]
    end_seen,       \* [thread -> end_time as it read it in this turn of its loop]
    elapsed,        \* ticks since time_thread started, until it ends
    start_frac,     \* ticks of its second that were over when it started
    duration, end_time, is_thread_run, has_first_table,
    new_table,      \* table_thread: the table just created in the database
    table_set       \* names in cq_table_set

clock == <<left, elapsed, start_frac>>
flags == <<duration, end_time, is_thread_run, has_first_table>>
tables == <<new_table, table_set>>
main == <<mpc, mi>>
vars == <<g_end_time, proc, main, pc, clock, end_seen, flags, tables>>

NoTable == "none"

Init ==
    /\ g_end_time \in EndTimes
    /\ proc = "running"
    /\ mpc = "create" /\ mi = 1
    /\ pc = [t \in Threads |-> "none"]
    /\ left = [t \in Threads |-> 0]
    /\ end_seen = [t \in Threads |-> 0]
    /\ elapsed = 0 /\ start_frac = 0
    /\ duration = 0 /\ end_time = 0
    /\ is_thread_run = TRUE /\ has_first_table = FALSE
    /\ new_table = NoTable /\ table_set = {}

Running == proc = "running"

\* Where a thread, or main, of the running process is, and where it goes.
At(t, place) == Running /\ pc[t] = place
MainAt(place) == Running /\ mpc = place
Goto(t, to) == pc' = [pc EXCEPT ![t] = to]

-----------------------------------------------------------------------------
(* main *)

\* Where a new thread begins.
FirstStep(t) ==
    IF t = "stat" THEN "test" ELSE IF t \in {"table", "time"} THEN "start" ELSE "spin"

\* pthread_create succeeds ...
CreateThread ==
    /\ MainAt("create")
    /\ mi <= Len(CreateOrder)
    /\ Goto(CreateOrder[mi], FirstStep(CreateOrder[mi]))
    /\ mi' = mi + 1
    /\ UNCHANGED <<g_end_time, proc, mpc, clock, end_seen, flags, tables>>

\* ... or fails, and the process exits.
CreateFails ==
    /\ MainAt("create")
    /\ mi <= Len(CreateOrder)
    /\ proc' = "failed"
    /\ UNCHANGED <<g_end_time, main, pc, clock, end_seen, flags, tables>>

StartJoining ==
    /\ MainAt("create")
    /\ mi > Len(CreateOrder)
    /\ mpc' = "join" /\ mi' = 1
    /\ UNCHANGED <<g_end_time, proc, pc, clock, end_seen, flags, tables>>

\* Mutant: the thread is not waited for.
JoinThreadNoWait ==
    /\ MainAt("join")
    /\ mi <= Len(JoinOrder)
    /\ mi' = mi + 1
    /\ UNCHANGED <<g_end_time, proc, mpc, pc, clock, end_seen, flags, tables>>

JoinThread ==
    /\ MainAt("join")
    /\ mi <= Len(JoinOrder)
    /\ pc[JoinOrder[mi]] = "done"
    /\ mi' = mi + 1
    /\ UNCHANGED <<g_end_time, proc, mpc, pc, clock, end_seen, flags, tables>>

\* summary() divides total_request by g_end_time.
Summary ==
    /\ MainAt("join")
    /\ mi > Len(JoinOrder)
    /\ IF g_end_time = 0 THEN proc' = "faulted" /\ UNCHANGED mpc
                         ELSE mpc' = "clean" /\ UNCHANGED proc
    /\ UNCHANGED <<g_end_time, mi, pc, clock, end_seen, flags, tables>>

CleanEnv ==
    /\ MainAt("clean")
    /\ table_set' = {}
    /\ mpc' = "return"
    /\ UNCHANGED <<g_end_time, proc, mi, pc, clock, end_seen, flags, new_table>>

MainReturns ==
    /\ MainAt("return")
    /\ proc' = "exited"
    /\ UNCHANGED <<g_end_time, main, pc, clock, end_seen, flags, tables>>

Main ==
    \/ CreateThread \/ CreateFails \/ StartJoining
    \/ JoinThread \/ Summary \/ CleanEnv \/ MainReturns

-----------------------------------------------------------------------------
(* What several threads do *)

\* while (!has_first_table) {}
SpinEnds(t) ==
    /\ At(t, "spin")
    /\ has_first_table
    /\ Goto(t, "start")
    /\ UNCHANGED <<g_end_time, proc, main, clock, end_seen, flags, tables>>

\* eng_context_init connects to every server of the cluster ...
ContextInit(t) ==
    /\ At(t, "start") /\ t # "time"
    /\ Goto(t, "test")
    /\ UNCHANGED <<g_end_time, proc, main, clock, end_seen, flags, tables>>

\* ... and aborts the process when it cannot.
ContextAborts(t) ==
    /\ At(t, "start") /\ t # "time"
    /\ proc' = "aborted"
    /\ UNCHANGED <<g_end_time, main, pc, clock, end_seen, flags, tables>>

\* while (is_thread_run): eng_context_config and the work, or the way out,
\* which for an engine thread leads over total_request_lock (module Stats).
LoopTest(t) ==
    /\ At(t, "test") /\ t # "time"
    /\ Goto(t, IF is_thread_run THEN "work" ELSE "done")
    /\ UNCHANGED <<g_end_time, proc, main, clock, end_seen, flags, tables>>

\* time_t remaining_time = end_time - duration: the first operand ...
ReadEndTime(t) ==
    /\ At(t, "remaining")
    /\ end_seen' = [end_seen EXCEPT ![t] = end_time]
    /\ Goto(t, "decide")
    /\ UNCHANGED <<g_end_time, proc, main, clock, flags, tables>>

Interval(t) == IF t = "table" THEN TABLE_THREAD_SLEEP ELSE g_alter_interval

\* Mutant: the sleep takes a signed number of seconds.
SleepRemainingSigned(t) ==
    /\ At(t, "decide")
    /\ LET remaining_time == end_seen[t] - duration
       IN left' = [left EXCEPT ![t] = Ticks * (IF remaining_time < Interval(t)
                                               THEN remaining_time ELSE Interval(t))]
    /\ Goto(t, "sleep")
    /\ UNCHANGED <<g_end_time, proc, main, elapsed, start_frac, end_seen, flags, tables>>

\* ... and the second: sleep(remaining_time) or sleep(interval), with the
\* conversion of a time_t to the unsigned int that sleep takes.
SleepRemaining(t) ==
    /\ At(t, "decide")
    /\ LET remaining_time == end_seen[t] - duration
           seconds == IF remaining_time < Interval(t) THEN remaining_time
                                                      ELSE Interval(t)
       IN left' = [left EXCEPT ![t] = (seconds % UIntMod) * Ticks]
    /\ Goto(t, "sleep")
    /\ UNCHANGED <<g_end_time, proc, main, elapsed, start_frac, end_seen, flags, tables>>

\* The turn of the loop is over, and remaining_time with it.
Wake(t) ==
    /\ At(t, "sleep") /\ t # "time"
    /\ left[t] = 0
    /\ end_seen' = [end_seen EXCEPT ![t] = 0]
    /\ Goto(t, "test")
    /\ UNCHANGED <<g_end_time, proc, main, clock, flags, tables>>

-----------------------------------------------------------------------------
(* table_thread *)

\* mysql_create_table succeeds for the random name n ...
TableCreated(n) ==
    /\ At("table", "work")
    /\ new_table' = n
    /\ Goto("table", "add")
    /\ UNCHANGED <<g_end_time, proc, main, clock, end_seen, flags, table_set>>

\* ... or not.
TableRefused ==
    /\ At("table", "work")
    /\ Goto("table", "remaining")
    /\ UNCHANGED <<g_end_time, proc, main, clock, end_seen, flags, tables>>

\* Mutant: the flag is raised before the table is in the set.
TableAddAnnounced ==
    /\ At("table", "add")
    /\ has_first_table' = TRUE
    /\ Goto("table", "announce")
    /\ UNCHANGED <<g_end_time, proc, main, clock, end_seen, duration, end_time,
                   is_thread_run, tables>>

\* table_set_add; a name that is there already changes nothing.
TableAdd ==
    /\ At("table", "add")
    /\ table_set' = table_set \cup {new_table}
    /\ Goto("table", "announce")
    /\ UNCHANGED <<g_end_time, proc, main, clock, end_seen, flags, new_table>>

\* has_first_table = true
TableAnnounce ==
    /\ At("table", "announce")
    /\ has_first_table' = TRUE
    /\ new_table' = NoTable
    /\ Goto("table", "remaining")
    /\ UNCHANGED <<g_end_time, proc, main, clock, end_seen, duration, end_time,
                   is_thread_run, table_set>>

-----------------------------------------------------------------------------
(* alter_thread, engine threads, stat_thread *)

\* One ALTER TABLE on a random table of the set, whatever comes of it.
AlterWork ==
    /\ At("alter", "work")
    /\ Goto("alter", "remaining")
    /\ UNCHANGED <<g_end_time, proc, main, clock, end_seen, flags, tables>>

\* travel_command_list on a random table of the set ...
EngineWork(t) ==
    /\ t \in Engines /\ At(t, "work")
    /\ Goto(t, "test")
    /\ UNCHANGED <<g_end_time, proc, main, clock, end_seen, flags, tables>>

\* ... during which mysql_select finds an inconsistency and aborts.
EngineAborts(t) ==
    /\ t \in Engines /\ At(t, "work")
    /\ proc' = "aborted"
    /\ UNCHANGED <<g_end_time, main, pc, clock, end_seen, flags, tables>>

\* A report (module Stats), then sleep(g_stat_interval).
StatWork ==
    /\ At("stat", "work")
    /\ left' = [left EXCEPT !["stat"] = g_stat_interval * Ticks]
    /\ Goto("stat", "sleep")
    /\ UNCHANGED <<g_end_time, proc, main, elapsed, start_frac, end_seen, flags, tables>>

-----------------------------------------------------------------------------
(* time_thread *)

\* start_time = time(NULL), somewhere in a second, and end_time = g_end_time.
TimeStart ==
    /\ At("time", "start")
    /\ start_frac' \in 0..(Ticks - 1)
    /\ end_time' = g_end_time
    /\ Goto("time", "test")
    /\ UNCHANGED <<g_end_time, proc, main, left, elapsed, end_seen, duration,
                   is_thread_run, has_first_table, tables>>

\* Mutant: the run ends one second early.
TimeTestEarly ==
    /\ At("time", "test")
    /\ IF duration + 1 < end_time
       THEN Goto("time", "sleep") /\ left' = [left EXCEPT !["time"] = Ticks]
       ELSE Goto("time", "stop") /\ UNCHANGED left
    /\ UNCHANGED <<g_end_time, proc, main, elapsed, start_frac, end_seen, flags, tables>>

\* while (duration < end_time) sleep(1)
TimeTest ==
    /\ At("time", "test")
    /\ IF duration < end_time
       THEN Goto("time", "sleep") /\ left' = [left EXCEPT !["time"] = Ticks]
       ELSE Goto("time", "stop") /\ UNCHANGED left
    /\ UNCHANGED <<g_end_time, proc, main, elapsed, start_frac, end_seen, flags, tables>>

\* duration = time(NULL) - start_time, both cut to whole seconds: the number
\* of second boundaries since the start.
TimeWake ==
    /\ At("time", "sleep")
    /\ left["time"] = 0
    /\ duration' = (start_frac + elapsed) \div Ticks
    /\ Goto("time", "test")
    /\ UNCHANGED <<g_end_time, proc, main, clock, end_seen, end_time,
                   is_thread_run, has_first_table, tables>>

\* Mutant: the time thread ends without clearing the flag.
TimeStopSilent ==
    /\ At("time", "stop")
    /\ Goto("time", "done")
    /\ UNCHANGED <<g_end_time, proc, main, clock, end_seen, flags, tables>>

TimeStop ==
    /\ At("time", "stop")
    /\ is_thread_run' = FALSE
    /\ Goto("time", "done")
    /\ UNCHANGED <<g_end_time, proc, main, clock, end_seen, duration, end_time,
                   has_first_table, tables>>

-----------------------------------------------------------------------------
\* A tick of the clock.
Tick ==
    /\ Running
    /\ elapsed' = IF /\ pc["time"] \notin {"none", "start", "done"}
                     /\ elapsed < g_end_time * Ticks + Lateness
                  THEN elapsed + 1 ELSE elapsed
    /\ left' = [t \in Threads |-> IF left[t] > 0 THEN left[t] - 1 ELSE 0]
    /\ UNCHANGED <<g_end_time, proc, main, pc, start_frac, end_seen, flags, tables>>

TableThread ==
    (\E n \in TableNames : TableCreated(n)) \/ TableRefused \/ TableAdd \/ TableAnnounce

TimeThread == TimeStart \/ TimeTest \/ TimeWake \/ TimeStop

ThreadStep(t) ==
    \/ SpinEnds(t) \/ ContextInit(t) \/ ContextAborts(t) \/ LoopTest(t)
    \/ ReadEndTime(t) \/ SleepRemaining(t) \/ Wake(t)
    \/ t = "table" /\ TableThread
    \/ t = "alter" /\ AlterWork
    \/ t = "stat" /\ StatWork
    \/ t = "time" /\ TimeThread
    \/ EngineWork(t) \/ EngineAborts(t)

Next ==
    \/ Main
    \/ \E t \in Threads : ThreadStep(t)
    \/ Tick
    \/ ~Running /\ UNCHANGED vars

Spec == Init /\ [][Next]_vars

(***************************************************************************)
(* The scheduler runs every thread and time passes.  Nothing is assumed of *)
(* the database: CREATE TABLE may be refused for ever.                     *)
(***************************************************************************)
FairSpec ==
    /\ Spec
    /\ WF_vars(Main)
    /\ \A t \in Threads : WF_vars(ThreadStep(t))
    /\ WF_vars(Tick)

-----------------------------------------------------------------------------
Places == {"none", "spin", "start", "test", "work", "add", "announce",
           "remaining", "decide", "sleep", "stop", "done"}

\* Every variable holds a value of its type; a sleep lasts a non-negative
\* time.
TypeOK ==
    /\ g_end_time \in EndTimes
    /\ proc \in {"running", "exited", "failed", "aborted", "faulted"}
    /\ mpc \in {"create", "join", "clean", "return"}
    /\ mi \in 1..(Len(EngineSeq) + 5)
    /\ pc \in [Threads -> Places]
    /\ left \in [Threads -> Nat]
    /\ end_seen \in [Threads -> Nat]
    /\ elapsed \in Nat /\ start_frac \in 0..(Ticks - 1)
    /\ duration \in Nat /\ end_time \in Nat
    /\ is_thread_run \in BOOLEAN /\ has_first_table \in BOOLEAN
    /\ new_table \in TableNames \cup {NoTable}
    /\ table_set \subseteq TableNames

\* A thread that waited for has_first_table finds a table: neither
\* table_set_get_random nor sql_gen meets a NULL table.
WorkersHaveATable ==
    \A t \in Engines \cup {"alter"} : pc[t] = "work" => table_set # {}

\* summary() and clean_env() run after every thread that uses the counters
\* and the sets they read and free has returned.
JoinedBeforeSummary ==
    mpc \in {"clean", "return"} => \A t \in Threads \ {"time"} : pc[t] = "done"

\* The threads are told to stop less than a second before the run time asked
\* for is over: time_thread counts second boundaries, so a sleep(1) that is
\* late can end a run early, but by no full second however late it is.
NeverASecondShort == ~is_thread_run => elapsed > (g_end_time - 1) * Ticks

\* Once it knows the run time, neither table_thread nor alter_thread sleeps
\* for longer than that.
NoOversleep ==
    \A t \in {"table", "alter"} : end_seen[t] = g_end_time => left[t] <= g_end_time * Ticks

\* Once the first table exists the process ends.
EndsOnceTableExists == <>has_first_table => <>~Running
=============================================================================
