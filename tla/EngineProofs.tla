---------------------------- MODULE EngineProofs ----------------------------
(***************************************************************************)
(* Engine for any number of engine threads, any run time and any           *)
(* intervals: no thread works without a table, nothing is summed up or     *)
(* freed before the joins, and no run is a full second short.              *)
(***************************************************************************)
EXTENDS Engine, TLAPS

\* A table that was created has one of the names.
NewTableInv == pc["table"] = "add" => new_table \in TableNames

Workers == Engines \cup {"alter"}

\* Who got past the spin loop saw has_first_table, and it stays set.
SpinInv == \A t \in Workers : pc[t] \notin {"none", "spin"} => has_first_table

\* The flag is raised after the table is in the set, which stays filled
\* until clean_env.
TableInv ==
    has_first_table \/ pc["table"] = "announce" => table_set # {} \/ mpc = "return"

\* The threads that main has joined have returned.
JoinedInv ==
    mpc = "join" => /\ mi <= Len(JoinOrder) + 1
                    /\ \A i \in 1..(mi - 1) : pc[JoinOrder[i]] = "done"

\* time_thread has set end_time, and duration is ahead of the clock by no
\* more than what was over of the second in which it started.
ClockInv ==
    /\ duration * Ticks <= elapsed + start_frac
    /\ pc["time"] \in {"none", "start", "test", "sleep", "stop", "done"}
    /\ mpc = "create" /\ mi <= 3 => pc["time"] = "none"
    /\ pc["time"] \in {"none", "start"} => duration = 0
    /\ pc["time"] \in {"test", "sleep", "stop"} => end_time = g_end_time
    /\ pc["time"] = "stop" => duration >= end_time

IInv ==
    /\ TypeOK
    /\ NewTableInv
    /\ SpinInv /\ TableInv
    /\ JoinedInv /\ JoinedBeforeSummary
    /\ ClockInv /\ NeverASecondShort

-----------------------------------------------------------------------------
LEMMA StartedType ==
    /\ Started \in Seq(STRING)
    /\ Len(Started) <= Len(EngineSeq)
    /\ \A i \in 1..Len(Started) : Started[i] = EngineSeq[i]
  BY EngineAssumption DEF Started

\* The engine threads have names of their own.
LEMMA EngineNames ==
    Engines \cap {"table", "alter", "time", "stat"} = {}
  BY StartedType, EngineAssumption DEF Engines

LEMMA CreateOrderLen ==
    Len(CreateOrder) \in Nat /\ Len(CreateOrder) <= Len(EngineSeq) + 4
  BY StartedType, EngineAssumption DEF CreateOrder

LEMMA CreateOrderType ==
    \A i \in 1..Len(CreateOrder) : CreateOrder[i] \in Threads
  BY StartedType DEF CreateOrder, Threads, Engines

\* time_thread is the third thread, and is created once.
LEMMA TimeIsThird ==
    \A i \in 1..Len(CreateOrder) : CreateOrder[i] = "time" <=> i = 3
  <1> SUFFICES ASSUME NEW i \in 1..Len(CreateOrder)
               PROVE  CreateOrder[i] = "time" <=> i = 3
    OBVIOUS
  <1>1. /\ CreateOrder[1] = "table" /\ CreateOrder[2] = "alter" /\ CreateOrder[3] = "time"
        /\ \A k \in 1..Len(Started) : CreateOrder[k + 3] = Started[k]
        /\ CreateOrder[Len(Started) + 4] = "stat"
        /\ Len(CreateOrder) = Len(Started) + 4
    BY StartedType DEF CreateOrder
  <1>2. \A k \in 1..Len(Started) : Started[k] # "time"
    BY EngineNames DEF Engines
  <1>3. CASE i \in 4..(Len(Started) + 3)
    <2>1. i - 3 \in 1..Len(Started) /\ i = (i - 3) + 3
      BY <1>3, StartedType
    <2>2. QED
      BY <1>1, <1>2, <2>1
  <1>4. CASE i \in {1, 2, 3, Len(Started) + 4}
    BY <1>1, <1>4, StartedType
  <1>5. QED
    BY <1>1, <1>3, <1>4, StartedType

LEMMA JoinOrderLen ==
    /\ Len(JoinOrder) = Len(Started) + 3
    /\ Len(JoinOrder) \in Nat /\ Len(JoinOrder) <= Len(EngineSeq) + 3
  BY StartedType, EngineAssumption DEF JoinOrder

\* Every thread but time_thread is joined, and nobody else.
LEMMA JoinOrderAll ==
    /\ \A i \in 1..Len(JoinOrder) : JoinOrder[i] \in Threads
    /\ \A t \in Threads \ {"time"} : \E i \in 1..Len(JoinOrder) : JoinOrder[i] = t
  <1>1. /\ JoinOrder[1] = "alter" /\ JoinOrder[2] = "table" /\ JoinOrder[3] = "stat"
        /\ \A i \in 1..Len(Started) : JoinOrder[i + 3] = Started[i]
        /\ Len(JoinOrder) = Len(Started) + 3
    BY StartedType DEF JoinOrder
  <1>2. ASSUME NEW t \in Engines
        PROVE  \E i \in 1..Len(JoinOrder) : JoinOrder[i] = t
    <2>1. PICK k \in 1..Len(Started) : Started[k] = t
      BY DEF Engines
    <2>2. k + 3 \in 1..Len(JoinOrder) /\ JoinOrder[k + 3] = t
      BY <1>1, <2>1, StartedType
    <2>3. QED
      BY <2>2
  <1>3. ASSUME NEW i \in 1..Len(JoinOrder) PROVE JoinOrder[i] \in Threads
    BY <1>1, StartedType DEF JoinOrder, Threads, Engines
  <1>4. \A t \in {"alter", "table", "stat"} : \E i \in 1..Len(JoinOrder) : JoinOrder[i] = t
    BY <1>1, JoinOrderLen, StartedType
  <1>5. QED
    BY <1>2, <1>3, <1>4 DEF Threads

-----------------------------------------------------------------------------
LEMMA InitIInv == Init => IInv
  <1> SUFFICES ASSUME Init PROVE IInv
    OBVIOUS
  <1>1. TypeOK
    <2>1. /\ g_end_time \in EndTimes /\ mi \in 1..(Len(EngineSeq) + 5)
          /\ elapsed \in Nat /\ duration \in Nat /\ end_time \in Nat
          /\ start_frac \in 0..(Ticks - 1)
      BY EngineAssumption, TimeAssumption DEF Init
    <2>2. /\ pc \in [Threads -> Places]
          /\ left \in [Threads -> Nat] /\ end_seen \in [Threads -> Nat]
      BY DEF Init, Places
    <2>3. QED
      BY <2>1, <2>2 DEF Init, TypeOK
  <1>2. NewTableInv /\ SpinInv /\ TableInv /\ JoinedInv /\ JoinedBeforeSummary
    BY DEF Init, NewTableInv, SpinInv, TableInv, JoinedInv, JoinedBeforeSummary,
           Threads, Workers
  <1>3. ClockInv /\ NeverASecondShort
    BY TimeAssumption DEF Init, ClockInv, NeverASecondShort, Threads
  <1>4. QED
    BY <1>1, <1>2, <1>3 DEF IInv

\* The conversion to unsigned int gives a natural number of seconds.
LEMMA ModType == \A a \in Int, b \in Nat \ {0} : a % b \in Nat
  OBVIOUS

LEMMA ProductType == \A a, b \in Nat : a * b \in Nat
  OBVIOUS

\* Whole seconds are never more than the ticks they are cut from.
LEMMA DivType ==
    \A a \in Nat, b \in Nat \ {0} : a \div b \in Nat /\ (a \div b) * b <= a
  OBVIOUS

\* Ticks that cover e seconds and less than one more are more than e - 1.
LEMMA LessThanASecond ==
    ASSUME NEW d \in Nat, NEW e \in Nat, NEW k \in Nat \ {0}, NEW x \in Nat,
           NEW f \in 0..(k - 1), e <= d, d * k <= x + f
    PROVE  x > (e - 1) * k
  <1>1. e * k <= d * k
    <2>1. PICK c \in Nat : d = e + c
      BY d - e \in Nat
    <2>2. d * k = e * k + c * k /\ c * k \in Nat /\ e * k \in Nat
      BY <2>1
    <2>3. QED
      BY <2>2
  <1>2. (e - 1) * k = e * k - k
    OBVIOUS
  <1>3. e * k \in Nat /\ d * k \in Nat
    OBVIOUS
  <1>4. QED
    BY <1>1, <1>2, <1>3

\* A thread that takes a step is one that runs, moves alone, and leaves
\* main, the clock and the run time as they are; only table_thread touches
\* the tables and their flag, only time_thread the times and theirs.
LEMMA StepOfThread ==
    ASSUME TypeOK, NEW t \in Threads, ThreadStep(t)
    PROVE  /\ UNCHANGED <<g_end_time, main, elapsed>>
           /\ pc[t] \notin {"none", "done"}
           /\ \A u \in Threads \ {t} : pc'[u] = pc[u]
           /\ pc[t] = "spin" => has_first_table
           /\ \/ t = "table" /\ TableThread
              \/ /\ UNCHANGED <<tables, has_first_table>>
                 /\ pc'[t] \notin {"add", "announce"}
           /\ \/ t = "time" /\ TimeThread
              \/ /\ UNCHANGED <<start_frac, duration, end_time, is_thread_run>>
                 /\ t = "time" => pc[t] \in {"spin", "remaining", "decide"}
  <1> USE EngineNames DEF At, Goto, clock, flags
  <1>0. pc \in [Threads -> Places]
    BY DEF TypeOK
  <1>1. CASE SpinEnds(t) \/ ContextInit(t) \/ ContextAborts(t) \/ LoopTest(t)
    BY <1>0, <1>1 DEF SpinEnds, ContextInit, ContextAborts, LoopTest
  <1>2. CASE ReadEndTime(t) \/ SleepRemaining(t) \/ Wake(t)
    BY <1>0, <1>2 DEF ReadEndTime, SleepRemaining, Wake
  <1>3. CASE t = "table" /\ TableThread
    BY <1>0, <1>3 DEF TableThread, TableCreated, TableRefused, TableAdd, TableAnnounce
  <1>4. CASE (t = "alter" /\ AlterWork) \/ (t = "stat" /\ StatWork)
    BY <1>0, <1>4 DEF AlterWork, StatWork
  <1>5. CASE t = "time" /\ TimeThread
    BY <1>0, <1>5 DEF TimeThread, TimeStart, TimeTest, TimeWake, TimeStop
  <1>6. CASE EngineWork(t) \/ EngineAborts(t)
    BY <1>0, <1>6 DEF EngineWork, EngineAborts
  <1>7. QED
    BY <1>1, <1>2, <1>3, <1>4, <1>5, <1>6 DEF ThreadStep

\* Each action keeps every variable in its type.
LEMMA TypeStep == IInv /\ [Next]_vars => TypeOK'
  <1> SUFFICES ASSUME IInv, [Next]_vars PROVE TypeOK'
    OBVIOUS
  <1>0. TypeOK /\ NewTableInv
    BY DEF IInv
  <1> USE <1>0, TimeAssumption DEF At, Goto, MainAt, TypeOK, Places, clock, flags, tables, main
  <1>1. ASSUME CreateThread PROVE TypeOK'
    <2>1. FirstStep(CreateOrder[mi]) \in Places
      BY DEF FirstStep
    <2>2. mi + 1 \in 1..(Len(EngineSeq) + 5)
      BY <1>1, CreateOrderLen, EngineAssumption DEF CreateThread
    <2>3. QED
      BY <1>1, <2>1, <2>2 DEF CreateThread
  <1>2. ASSUME CreateFails PROVE TypeOK'
    BY <1>2 DEF CreateFails
  <1>3. ASSUME StartJoining PROVE TypeOK'
    BY <1>3, EngineAssumption DEF StartJoining
  <1>4. ASSUME JoinThread PROVE TypeOK'
    <2>1. mi + 1 \in 1..(Len(EngineSeq) + 5)
      BY <1>4, JoinOrderLen, EngineAssumption DEF JoinThread
    <2>2. QED
      BY <1>4, <2>1 DEF JoinThread
  <1>5. ASSUME Summary PROVE TypeOK'
    BY <1>5 DEF Summary
  <1>6. ASSUME CleanEnv PROVE TypeOK'
    BY <1>6 DEF CleanEnv
  <1>7. ASSUME MainReturns PROVE TypeOK'
    BY <1>7 DEF MainReturns
  <1>8. ASSUME NEW t \in Threads,
               \/ SpinEnds(t) \/ ContextInit(t) \/ LoopTest(t) \/ Wake(t)
               \/ ContextAborts(t) \/ EngineAborts(t) \/ EngineWork(t)
        PROVE TypeOK'
    BY <1>8 DEF SpinEnds, ContextInit, LoopTest, Wake, ContextAborts, EngineAborts,
                EngineWork
  <1>9. ASSUME NEW t \in Threads, ReadEndTime(t) PROVE TypeOK'
    BY <1>9 DEF ReadEndTime
  <1>10. ASSUME NEW t \in Threads, SleepRemaining(t) PROVE TypeOK'
    <2> DEFINE remaining_time == end_seen[t] - duration
               seconds == IF remaining_time < Interval(t) THEN remaining_time
                                                          ELSE Interval(t)
    <2>1. (seconds % UIntMod) * Ticks \in Nat
      <3>1. seconds \in Int
        BY DEF Interval
      <3>2. seconds % UIntMod \in Nat
        BY <3>1, ModType
      <3>3. QED
        BY <3>2, ProductType
    <2>2. left' = [left EXCEPT ![t] = (seconds % UIntMod) * Ticks]
      BY <1>10 DEF SleepRemaining
    <2> HIDE DEF seconds
    <2>3. QED
      BY <1>10, <2>1, <2>2 DEF SleepRemaining
  <1>11. ASSUME TableThread PROVE TypeOK'
    <2>1. CASE \E n \in TableNames : TableCreated(n)
      BY <2>1 DEF TableCreated
    <2>2. CASE TableRefused
      BY <2>2 DEF TableRefused
    <2>3. CASE TableAdd
      BY <2>3 DEF TableAdd, NewTableInv
    <2>4. CASE TableAnnounce
      BY <2>4 DEF TableAnnounce
    <2>5. QED
      BY <1>11, <2>1, <2>2, <2>3, <2>4 DEF TableThread
  <1>12. ASSUME AlterWork PROVE TypeOK'
    BY <1>12 DEF AlterWork
  <1>13. ASSUME StatWork PROVE TypeOK'
    <2>1. g_stat_interval * Ticks \in Nat
      BY ProductType
    <2>2. QED
      BY <1>13, <2>1 DEF StatWork
  <1>14. ASSUME TimeThread PROVE TypeOK'
    <2>1. CASE TimeStart
      BY <2>1 DEF TimeStart
    <2>2. CASE TimeTest
      <3>1. pc' \in [Threads -> Places] /\ left' \in [Threads -> Nat]
        <4>1. CASE duration < end_time
          BY <2>2, <4>1 DEF TimeTest
        <4>2. CASE ~(duration < end_time)
          BY <2>2, <4>2 DEF TimeTest
        <4>3. QED
          BY <4>1, <4>2
      <3>2. QED
        BY <2>2, <3>1 DEF TimeTest
    <2>3. CASE TimeWake
      <3>1. (start_frac + elapsed) \div Ticks \in Nat
        BY DivType
      <3>2. QED
        BY <2>3, <3>1 DEF TimeWake
    <2>4. CASE TimeStop
      BY <2>4 DEF TimeStop
    <2>5. QED
      BY <1>14, <2>1, <2>2, <2>3, <2>4 DEF TimeThread
  <1>15. ASSUME Tick PROVE TypeOK'
    BY <1>15 DEF Tick
  <1>16. ASSUME UNCHANGED vars PROVE TypeOK'
    BY <1>16 DEF vars
  <1>17. QED
    BY <1>1, <1>2, <1>3, <1>4, <1>5, <1>6, <1>7, <1>8, <1>9, <1>10, <1>11, <1>12,
       <1>13, <1>14, <1>15, <1>16 DEF Next, Main, ThreadStep

\* What main does to itself and to the threads: it creates them, one at a
\* time, before it joins any.
LEMMA StepOfMain ==
    ASSUME TypeOK, Main
    PROVE  /\ UNCHANGED <<g_end_time, clock, flags, end_seen, new_table>>
           /\ UNCHANGED pc \/ CreateThread
  BY DEF Main, CreateThread, CreateFails, StartJoining, JoinThread, Summary, CleanEnv,
         MainReturns, tables

\* Main goes from one join to the next only past threads that have returned,
\* and these take no step any more.
LEMMA JoinStep == IInv /\ [Next]_vars => JoinedInv' /\ JoinedBeforeSummary'
  <1> SUFFICES ASSUME IInv, [Next]_vars PROVE JoinedInv' /\ JoinedBeforeSummary'
    OBVIOUS
  <1>0. TypeOK /\ JoinedInv /\ JoinedBeforeSummary
    BY DEF IInv
  <1> USE <1>0 DEF JoinedInv, JoinedBeforeSummary
  <1>1. ASSUME CreateThread \/ CreateFails \/ MainReturns
        PROVE  JoinedInv' /\ JoinedBeforeSummary'
    BY <1>1 DEF CreateThread, CreateFails, MainReturns, MainAt, main
  <1>2. ASSUME StartJoining PROVE JoinedInv' /\ JoinedBeforeSummary'
    BY <1>2, JoinOrderLen DEF StartJoining, MainAt
  <1>3. ASSUME JoinThread PROVE JoinedInv' /\ JoinedBeforeSummary'
    <2>1. \A i \in 1..mi : pc[JoinOrder[i]] = "done"
      BY <1>3 DEF JoinThread, MainAt, TypeOK
    <2>2. QED
      BY <1>3, <2>1, JoinOrderLen DEF JoinThread, MainAt, TypeOK
  <1>4. ASSUME Summary PROVE JoinedInv' /\ JoinedBeforeSummary'
    <2>1. \A t \in Threads \ {"time"} : pc[t] = "done"
      <3>1. 1..Len(JoinOrder) \subseteq 1..(mi - 1)
        BY <1>4, JoinOrderLen DEF Summary, TypeOK
      <3>2. QED
        BY <1>4, <3>1, JoinOrderAll DEF Summary, MainAt
    <2>2. QED
      BY <1>4, <2>1 DEF Summary, MainAt
  <1>5. ASSUME CleanEnv PROVE JoinedInv' /\ JoinedBeforeSummary'
    BY <1>5 DEF CleanEnv, MainAt
  <1>6. ASSUME NEW t \in Threads, ThreadStep(t) PROVE JoinedInv' /\ JoinedBeforeSummary'
    <2>1. /\ UNCHANGED <<mpc, mi>>
          /\ \A u \in Threads : pc[u] = "done" => pc'[u] = "done"
      BY <1>6, StepOfThread DEF main
    <2>2. mpc = "join" => 1..(mi - 1) \subseteq 1..Len(JoinOrder)
      BY JoinOrderLen DEF TypeOK
    <2>3. QED
      BY <2>1, <2>2, JoinOrderAll
  <1>7. ASSUME Tick \/ UNCHANGED vars PROVE JoinedInv' /\ JoinedBeforeSummary'
    BY <1>7 DEF Tick, vars, main
  <1>8. QED
    BY <1>1, <1>2, <1>3, <1>4, <1>5, <1>6, <1>7 DEF Next, Main

\* Nobody gets past the spin loop without the flag, and the flag stays.
LEMMA SpinStep == IInv /\ [Next]_vars => SpinInv'
  <1> SUFFICES ASSUME IInv, [Next]_vars PROVE SpinInv'
    OBVIOUS
  <1>0. /\ SpinInv /\ TypeOK
        /\ Workers \subseteq Threads
        /\ Workers \cap {"table", "time", "stat"} = {}
    BY EngineNames DEF IInv, Workers, Threads
  <1>1. ASSUME Main PROVE SpinInv'
    <2>1. CASE CreateThread
      <3>1. ASSUME NEW t \in Workers, CreateOrder[mi] = t PROVE pc'[t] = "spin"
        BY <1>0, <2>1, <3>1 DEF CreateThread, Goto, FirstStep, TypeOK
      <3>2. ASSUME NEW t \in Workers, CreateOrder[mi] # t PROVE pc'[t] = pc[t]
        BY <1>0, <2>1, <3>2 DEF CreateThread, Goto, TypeOK
      <3>3. QED
        BY <1>0, <1>1, <3>1, <3>2, StepOfMain DEF SpinInv, flags
    <2>2. CASE UNCHANGED pc
      BY <1>0, <1>1, <2>2, StepOfMain DEF SpinInv, flags
    <2>3. QED
      BY <1>0, <1>1, <2>1, <2>2, StepOfMain
  <1>2. ASSUME NEW t \in Threads, ThreadStep(t) PROVE SpinInv'
    <2>1. has_first_table => has_first_table'
      BY <1>0, <1>2, StepOfThread
         DEF TableThread, TableCreated, TableRefused, TableAdd, TableAnnounce, flags
    <2>2. t \in Workers => has_first_table
      BY <1>0, <1>2, StepOfThread DEF SpinInv
    <2>3. \A u \in Threads \ {t} : pc'[u] = pc[u]
      BY <1>0, <1>2, StepOfThread
    <2>4. QED
      BY <1>0, <2>1, <2>2, <2>3 DEF SpinInv
  <1>3. ASSUME Tick \/ UNCHANGED vars PROVE SpinInv'
    BY <1>0, <1>3 DEF Tick, vars, flags, SpinInv
  <1>4. QED
    BY <1>1, <1>2, <1>3 DEF Next

\* The table is in the set before the flag says so; clean_env, which empties
\* the set, finds table_thread gone.
LEMMA TableStep == IInv /\ [Next]_vars => NewTableInv' /\ TableInv'
  <1> SUFFICES ASSUME IInv, [Next]_vars PROVE NewTableInv' /\ TableInv'
    OBVIOUS
  <1>0. /\ TypeOK /\ NewTableInv /\ TableInv /\ "table" \in Threads
        /\ mpc = "return" => pc["table"] = "done"
    BY DEF IInv, JoinedBeforeSummary, Threads
  <1> USE <1>0 DEF NewTableInv, TableInv
  <1>1. ASSUME Main PROVE NewTableInv' /\ TableInv'
    <2>1. CASE CreateThread
      BY <2>1 DEF CreateThread, MainAt, Goto, FirstStep, flags, tables, TypeOK
    <2>2. CASE CleanEnv
      BY <2>2 DEF CleanEnv, MainAt
    <2>3. CASE CreateFails \/ StartJoining \/ JoinThread \/ Summary \/ MainReturns
      BY <2>3 DEF CreateFails, StartJoining, JoinThread, Summary, MainReturns, MainAt,
                  flags, tables, main
    <2>4. QED
      BY <1>1, <2>1, <2>2, <2>3 DEF Main
  <1>2. ASSUME NEW t \in Threads, ThreadStep(t) PROVE NewTableInv' /\ TableInv'
    <2>1. UNCHANGED mpc
      BY <1>2, StepOfThread DEF main
    <2>2. CASE t = "table" /\ TableThread
      <3> USE DEF At, Goto, flags, tables
      <3>0. pc \in [Threads -> Places]
        BY DEF TypeOK
      <3>1. CASE \E n \in TableNames : TableCreated(n)
        BY <2>1, <3>0, <3>1 DEF TableCreated
      <3>2. CASE TableRefused
        BY <2>1, <3>0, <3>2 DEF TableRefused
      <3>3. CASE TableAdd
        BY <2>1, <3>0, <3>3 DEF TableAdd
      <3>4. CASE TableAnnounce
        BY <2>1, <3>0, <3>4 DEF TableAnnounce
      <3>5. QED
        BY <2>2, <3>1, <3>2, <3>3, <3>4 DEF TableThread
    <2>3. CASE t # "table"
      BY <1>2, <2>1, <2>3, StepOfThread DEF tables
    <2>4. CASE UNCHANGED <<tables, has_first_table>> /\ pc'["table"] \notin {"add", "announce"}
      BY <2>1, <2>4 DEF tables
    <2>5. QED
      BY <1>2, <2>2, <2>3, <2>4, StepOfThread
  <1>3. ASSUME Tick \/ UNCHANGED vars PROVE NewTableInv' /\ TableInv'
    BY <1>3 DEF Tick, vars, flags, tables, main
  <1>4. QED
    BY <1>1, <1>2, <1>3 DEF Next

\* time_thread clears the flag only after it has seen g_end_time second
\* boundaries go by.
LEMMA ClockStep == IInv /\ [Next]_vars => ClockInv' /\ NeverASecondShort'
  <1> SUFFICES ASSUME IInv, [Next]_vars PROVE ClockInv' /\ NeverASecondShort'
    OBVIOUS
  <1>0. /\ TypeOK /\ ClockInv /\ NeverASecondShort /\ "time" \in Threads
        /\ g_end_time \in Nat /\ Ticks \in Nat \ {0}
    BY TimeAssumption DEF IInv, Threads, TypeOK
  <1>a. ASSUME UNCHANGED <<g_end_time, elapsed, start_frac, duration, end_time, is_thread_run>>,
               \/ pc'["time"] = pc["time"]
               \/ pc["time"] = "none" /\ pc'["time"] = "start",
               mpc' = "create" /\ mi' <= 3 => pc'["time"] = "none"
        PROVE  ClockInv' /\ NeverASecondShort'
    BY <1>0, <1>a DEF ClockInv, NeverASecondShort
  <1>1. ASSUME Main PROVE ClockInv' /\ NeverASecondShort'
    <2>1. /\ UNCHANGED <<g_end_time, elapsed, start_frac, duration, end_time, is_thread_run>>
      BY <1>0, <1>1, StepOfMain DEF clock, flags
    <2>2. CASE CreateThread
      <3>1. mi \in 1..Len(CreateOrder) /\ mi' = mi + 1 /\ mpc = "create" /\ UNCHANGED mpc
        BY <1>0, <2>2 DEF CreateThread, MainAt, TypeOK
      <3>2. CASE mi = 3
        <4>1. CreateOrder[mi] = "time" /\ pc["time"] = "none"
          BY <1>0, <3>1, <3>2, TimeIsThird DEF ClockInv
        <4>2. pc'["time"] = "start"
          BY <1>0, <2>2, <4>1 DEF CreateThread, Goto, FirstStep, TypeOK
        <4>3. ~(mi' <= 3)
          BY <3>1, <3>2
        <4>4. QED
          BY <1>a, <2>1, <4>1, <4>2, <4>3
      <3>3. CASE mi # 3
        <4>1. pc'["time"] = pc["time"]
          BY <1>0, <2>2, <3>1, <3>3, TimeIsThird DEF CreateThread, Goto, TypeOK
        <4>2. mi' <= 3 => mi <= 3
          BY <3>1
        <4>3. mi' <= 3 => pc'["time"] = "none"
          BY <1>0, <3>1, <4>1, <4>2 DEF ClockInv
        <4>4. QED
          BY <1>a, <2>1, <4>1, <4>3
      <3>4. QED
        BY <3>2, <3>3
    <2>3. CASE ~CreateThread
      <3>1. UNCHANGED pc
        BY <1>0, <1>1, <2>3, StepOfMain
      <3>2. mpc' = "create" => mpc = "create" /\ mi' = mi
        BY <1>1, <2>3 DEF Main, CreateFails, StartJoining, JoinThread, Summary, CleanEnv,
                          MainReturns, MainAt, main
      <3>3. mpc' = "create" /\ mi' <= 3 => pc'["time"] = "none"
        BY <1>0, <3>1, <3>2 DEF ClockInv
      <3>4. QED
        BY <1>a, <2>1, <3>1, <3>3
    <2>4. QED
      BY <2>2, <2>3
  <1>2. ASSUME NEW t \in Threads, ThreadStep(t) PROVE ClockInv' /\ NeverASecondShort'
    <2>1. UNCHANGED <<g_end_time, elapsed, mpc, mi>>
      BY <1>0, <1>2, StepOfThread DEF main
    <2>2. CASE t = "time" /\ TimeThread
      <3>0. ~(mpc' = "create" /\ mi' <= 3)
        BY <1>0, <1>2, <2>1, <2>2, StepOfThread DEF ClockInv
      <3> USE <1>0, <2>1, <3>0 DEF At, Goto, clock, flags, TypeOK
      <3>1. CASE TimeStart
        <4>1. duration' * Ticks <= elapsed' + start_frac'
          <5>1. duration' = 0
            BY <3>1 DEF TimeStart, ClockInv
          <5>2. elapsed' \in Nat /\ start_frac' \in Nat
            BY <3>1 DEF TimeStart
          <5>3. duration' * Ticks = 0
            BY <5>1
          <5>4. QED
            BY <5>2, <5>3
        <4>2. QED
          BY <3>1, <4>1 DEF TimeStart, ClockInv, NeverASecondShort
      <3>2. CASE TimeTest
        <4>1. UNCHANGED <<start_frac, duration, end_time, is_thread_run>>
          BY <3>2 DEF TimeTest
        <4>2. pc'["time"] = "sleep" \/ (pc'["time"] = "stop" /\ duration >= end_time)
          BY <3>2 DEF TimeTest
        <4>3. pc["time"] = "test"
          BY <3>2 DEF TimeTest
        <4>4. QED
          BY <4>1, <4>2, <4>3 DEF ClockInv, NeverASecondShort
      <3>3. CASE TimeWake
        <4>1. start_frac + elapsed \in Nat
          OBVIOUS
        <4>2. ((start_frac + elapsed) \div Ticks) * Ticks <= start_frac + elapsed
          BY <4>1, DivType
        <4>3. /\ duration' = (start_frac + elapsed) \div Ticks
              /\ UNCHANGED <<start_frac, end_time, is_thread_run>>
              /\ pc["time"] = "sleep" /\ pc'["time"] = "test"
          BY <3>3 DEF TimeWake
        <4>4. duration' * Ticks <= elapsed' + start_frac'
          BY <4>2, <4>3
        <4>5. QED
          BY <4>3, <4>4 DEF ClockInv, NeverASecondShort
      <3>4. CASE TimeStop
        <4>1. /\ UNCHANGED <<start_frac, duration, end_time>>
              /\ pc["time"] = "stop" /\ pc'["time"] = "done"
          BY <3>4 DEF TimeStop
        <4>2. elapsed > (g_end_time - 1) * Ticks
          <5>1. g_end_time <= duration /\ duration * Ticks <= elapsed + start_frac
            BY <4>1 DEF ClockInv
          <5>2. QED
            BY <5>1, LessThanASecond
        <4>3. QED
          BY <4>1, <4>2 DEF ClockInv, NeverASecondShort
      <3>5. QED
        BY <2>2, <3>1, <3>2, <3>3, <3>4 DEF TimeThread
    <2>3. CASE UNCHANGED <<start_frac, duration, end_time, is_thread_run>> /\ t # "time"
      <3>1. pc'["time"] = pc["time"]
        BY <1>0, <1>2, <2>3, StepOfThread
      <3>2. mpc' = "create" /\ mi' <= 3 => pc'["time"] = "none"
        BY <1>0, <2>1, <3>1 DEF ClockInv
      <3>3. QED
        BY <1>a, <2>1, <2>3, <3>1, <3>2
    <2>4. QED
      BY <1>0, <1>2, <2>2, <2>3, StepOfThread DEF ClockInv
  <1>3. ASSUME Tick PROVE ClockInv' /\ NeverASecondShort'
    <2>1. /\ UNCHANGED <<g_end_time, start_frac, duration, end_time, is_thread_run, pc, mpc, mi>>
          /\ elapsed' \in Nat /\ elapsed <= elapsed' /\ elapsed \in Nat
      BY <1>0, <1>3 DEF Tick, flags, main, TypeOK
    <2>2. duration * Ticks <= elapsed' + start_frac
      <3>1. duration * Ticks \in Nat /\ start_frac \in Nat
        BY <1>0, ProductType DEF TypeOK
      <3>2. QED
        BY <1>0, <2>1, <3>1 DEF ClockInv
    <2>3. ~is_thread_run => elapsed' > (g_end_time - 1) * Ticks
      <3>1. (g_end_time - 1) * Ticks \in Int
        BY <1>0
      <3>2. QED
        BY <1>0, <2>1, <3>1 DEF NeverASecondShort
    <2>4. QED
      BY <1>0, <2>1, <2>2, <2>3 DEF ClockInv, NeverASecondShort
  <1>4. ASSUME UNCHANGED vars PROVE ClockInv' /\ NeverASecondShort'
    <2>1. UNCHANGED <<g_end_time, elapsed, start_frac, duration, end_time, is_thread_run,
                      pc, mpc, mi>>
      BY <1>4 DEF vars, clock, flags, main
    <2>2. mpc' = "create" /\ mi' <= 3 => pc'["time"] = "none"
      BY <1>0, <2>1 DEF ClockInv
    <2>3. QED
      BY <1>a, <2>1, <2>2
  <1>5. QED
    BY <1>1, <1>2, <1>3, <1>4 DEF Next

-----------------------------------------------------------------------------
LEMMA Invariance == Spec => []IInv
  <1>1. IInv /\ [Next]_vars => IInv'
    BY TypeStep, JoinStep, SpinStep, TableStep, ClockStep DEF IInv
  <1>2. QED
    BY <1>1, InitIInv, PTL DEF Spec

\* A worker at work is past its spin loop, and not joined.
LEMMA TableForWork == IInv => WorkersHaveATable
  <1> SUFFICES ASSUME IInv, NEW t \in Engines \cup {"alter"}, pc[t] = "work"
               PROVE  table_set # {}
    BY DEF WorkersHaveATable
  <1>1. has_first_table
    BY DEF IInv, SpinInv, Workers
  <1>2. mpc # "return"
    <2>1. t \in Threads \ {"time"}
      BY EngineNames DEF Threads
    <2>2. QED
      BY <2>1 DEF IInv, JoinedBeforeSummary
  <1>3. QED
    BY <1>1, <1>2 DEF IInv, TableInv

\* Every variable keeps its type for any engine threads, run time and
\* intervals; in particular the converted sleep times are natural numbers.
THEOREM TypeCorrect == Spec => []TypeOK
  BY Invariance, PTL DEF IInv

\* No engine thread and no ALTER ever asks an empty set for a table: whoever
\* passed while (!has_first_table) finds one until clean_env, which comes
\* after it has returned.
THEOREM TableBeforeWork == Spec => []WorkersHaveATable
  BY Invariance, TableForWork, PTL

\* For any number of engine threads, summary() and clean_env() start only
\* when every thread but time_thread has returned.
THEOREM SummaryAfterJoin == Spec => []JoinedBeforeSummary
  BY Invariance, PTL DEF IInv

\* For every -e, however the clock ticks and the threads run, is_thread_run is
\* cleared less than a second before that many seconds have passed since
\* time_thread started, or later.
THEOREM LessThanASecondShort == Spec => []NeverASecondShort
  BY Invariance, PTL DEF IInv
=============================================================================
