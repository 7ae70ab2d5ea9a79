# checkQ: a TLA+ model of the data consistency checker

checkQ drives a replicated MySQL database with random statements from many
threads and aborts as soon as a read server answers something else than the
write server. This directory models the program (`src/src/`), checks the models
with TLC and proves theorems about them with TLAPS. `lib/` (libmysql and
the whole of libxml2, nearly all lines of the repository) is third-party code and
external to every module.

## 1. Inventory

| part | state | operations | what is hard |
|---|---|---|---|
| process and threads (`engine/checkQ.c`, `engine/cq_engine.c`) | `has_first_table`, `is_thread_run`, `end_time`, `duration`, thread handles | `init_env`, `start_engine`, five thread functions, `summary`, `clean_env` | unlocked flags, a spin wait, sleeps computed from two shared times, joins before freeing |
| accounting (`cq_engine.c`, `cq_mysql_cmd.c`, `cq_stats.h`) | `eng_ctx->stats`, `g_stat`, `total_request` and its lock | one count per successful statement, the final additions, the periodic report | a non-atomic store after an atomic add; four reads at four moments |
| statements and check (`cq_mysql_cmd.c`, `cq_sql_gen.c`) | seed of the traversal, statement text, rows of two servers | `mysql_insert`, `_delete`, `_update`, `_select`, `_alter_add_table`, `_alter_drop_table` | other threads' writes and ALTERs between two queries of one SELECT; failed queries; schema and database out of step |
| hash table (`mylib/hash.c`) | elements with a status, counters, rwlock | add, get, remove, get_entries, get_keys, destroy | tombstones, unbounded probing, rehash, an early return with the lock held |
| vector (`mylib/vector.c`) | circular array, `isempty`, rwlock | push_back, pop, unshift, shift, get, size, empty, destroy, two stubs | wrap-around, growth, full and empty look alike, ownership of entries |
| tables and schemas (`table/cq_table.c`) | table set (hash), schema set (vector), columns of a schema | add and drop a column, random table, random schema | one schema object shared by tables and by threads without a lock |
| cluster (`server/cq_server.c`) | two hash tables of connections per thread | connect, add, random server | connection failure aborts the process |
| command lists (`command/cq_command.c`) | lists of commands in a vector | build, random list, traverse | four links per insertion; read only after start-up |
| parser (`parser/`) | none of its own; fills cluster, schema set, table set, bucket | read XML or text, `parser_gen_cmd_bucket` | error exits that free twice, uninitialised locals, rounding of rates, boundaries of the array |
| condition variable (`mylib/my_mutex.c`) | flag, mutex, condition variable | wait, timed wait, signal | spurious wake-ups, signals lost to a timed wait |
| support (`mylib/`) | none | options, log, frandom, signal handlers | |

The threads share the table set, the schemas, the flags and the counters; they
talk to the servers over connections of their own. `PROJECT.json` lists the
components with what is modelled of each, and every hazard at its line.

What makes each part correct: a run ends, lasts as long as asked to within a second, and frees
nothing a thread still uses; the totals are the statements that succeeded; an
alarm means a divergence and a passed check means agreement; the hash table is a
set, the vector a queue, and both neither lose nor keep what they should not; a
statement names the columns its table has, and no column is read after it was
freed; the program runs with what its configuration says; a signal serves one
waiter and reaches one.

## 2. Modules

| module | models | extends / instance of |
|---|---|---|
| `Stats` | accounting | |
| `StatsProofs` | theorems about `Stats` | `Stats`, TLAPS |
| `KeyedSet` | what `hash.h` promises: a linearizable set of entries with distinct keys | |
| `HashTable`, `MCHashTable` | `hash.c` | instance of `KeyedSet` |
| `HashTableProofs` | theorems about `HashTable` | `HashTable`, TLAPS |
| `Deque` | what `vector.h` promises: a double-ended queue | |
| `Vector`, `MCVector` | `vector.c` | instance of `Deque` |
| `VectorProofs` | theorems about `Vector` | `Vector`, TLAPS |
| `Engine`, `MCEngine` | life of the process and its threads | |
| `EngineProofs` | theorems about `Engine` | `Engine`, TLAPS |
| `Checker`, `MCChecker` | statements, comparison, ALTER, external database | |
| `CheckerProofs` | theorems about `Checker` | `Checker`, TLAPS |
| `Schema`, `MCSchema` | a schema shared by tables and threads, column by column | |
| `SchemaProofs` | theorems about `Schema` | `Schema`, TLAPS |
| `CmdList` | the doubly linked command lists, as operators | |
| `CmdGen` | `parser_gen_cmd_bucket` | `CmdList` |
| `Parser`, `MCParser` | the XML and the text reader | `CmdGen` |
| `ParserProofs` | theorems about `Parser`, `CmdGen` and `CmdList` | `Parser`, TLAPS |
| `CondVar` | `my_cond_*` | |
| `CondVarProofs` | theorems about `CondVar` | `CondVar`, TLAPS |

Definitions whose comment begins with "Mutant:" are not part of the model: each is
a plausible bug, used to see that a property would notice it.

### Stats
`stats[t]` is a thread's `eng_ctx->stats`, `reg[t]` the register that holds the
value `__sync_add_and_fetch` returned until it is stored. A successful command
is `CountSuccess` (private increment and atomic add, which nobody can separate)
and then `StoreShared`. `total_request += n` is `AddLoad` and `AddStore`, under
`Lock` and `Unlock`. The report of `stat_thread` reads four counters in four
steps. `nsucc` is a history variable: what really succeeded.

### HashTable
One action per loop iteration: `Find` (a round of `hash_find`), `RehashNext` and
`RehashFind` (a round of `rehash` and of the search inside it), `Scan`
(`hash_get_entries`; `hash_get_keys` is the same loop). `hash_func` is a constant
`HashFunc`; `find_first_prime` is the relation `FirstPrime`, since a function would
have to be recursive. The refinement mapping takes the elements of the old array as
the set while a rehash runs; a call takes effect when its outcome is stored
under the lock. `hash_find`'s `level` is a `uint64_t`: `MaxLevel` is its maximum.
Callers of `hash_destroy` (`clean_env`, `eng_context_destroy`) do not overlap it
with other calls: `JoinedBeforeSummary` of `Engine` is the reason.

### Vector
Every operation holds the rwlock throughout, so it is one action. `owner` says
who frees an entry. `Deque` records the last call and its result; the vector's
items are read from `start` around the end of the array.

### Engine
The clock ticks `Ticks` times a second; `left[t]` is what remains of a sleep,
`elapsed` the time since `time_thread` started and `start_frac` how much of its second
was over then. `time()` is cut to whole seconds, so `duration` is
`(start_frac + elapsed) \div Ticks` and can be almost a second ahead. `Tick` may come
between any two steps, so a thread can be arbitrarily late. The wall clock is taken
not to be set while a run lasts. `remaining_time = end_time - duration` is two steps, one per shared read,
and the conversion to `sleep`'s `unsigned int` is `% UIntMod`. The build uses no
optimisation, so the spin loop reads `has_first_table` in every round. What a
thread does in one round is a single step here (`EngineWork`, `AlterWork`,
`StatWork`): it touches none of this module's variables, except that it can abort
the process.

### Checker
The database is external: a write that succeeded is visible on every server,
which is what a comparison without a delay needs; `Diverge` is a replication
fault. A statement is the command and the columns it names (`sql`); a query on
columns the table does not have, or an INSERT with the wrong number of values,
fails. A SELECT is one step per server. `key_of`, chosen at the start from
`KeyFuncs`, maps the seed of a traversal to its key; with a short varchar key two
seeds can share one. `Compare` is `strncmp` with the write server's length, with what it does
to NULL. The schema (`nschema`) and the table in the database (`dbcols`) change in
separate steps, in the order of the code, and stay out of step after a failed
ALTER ADD. Configured columns are taken not to be named `col...`, the prefix that
`mysql_alter_drop_table` goes by; `Schema` has both.

### Schema
The step of `Checker` that generates a statement is a loop here: a reader takes
`nschema` (`GenStart`), then for each column the pointer (`GenLoad`) and what it
points to (`GenUse`). A pointer is a block of a small heap, so that a block that was
freed can be given out again. `schema_add` is two steps, the slot and the count, and
so is `drop_table_data`, the free and the count. Reading a block that is gone is
undefined: the process dies or the statement has a column `Garbage`. All tables
share one schema. What a reader may meet depends on what ran beside it, which
`alteredSince` and `dropMet` record: a column was freed since the reader took
`nschema`, or it took it between the free and the count of a DROP. `schema_add` tests
the capacity a second time, after `is_table_schema_full`, and `add_table_data` ignores
its result.

### CmdList, CmdGen, Parser
The configuration file is external: the model chooses, node by node or line by line,
what the reader meets next, and keeps what it was told (`file`) to compare it with what
the program then has. `result` is how the parser ended: `parsed`, `exit` (an error
return, on which `parser_read_file` exits), `aborted`, `faulted` (a null pointer or a
division by zero) or `undefined`. A rate is a number of `Unit`-ths (hundredths in the
runs); the sum of two or more doubles may come out above the exact sum, which is the
parameter `up` of `Fill`, and the product `rate * cols` below a whole number, so that
`(int)` cuts one off: the parameter `low`. Windows are any integers; `verify_window`
refuses the negative ones.
A command is the set of the bits of its number, so that the three `^=` of
`parser_shuffle_cmds` are symmetric differences; one `Swap` is one of its
`shuffle_time` turns, with the guard `a == b` and the division by zero, and the places
are any that `rand()` can draw. `filled` remembers the array before the first shuffle.

An address is an ip and the text of a port, digit by digit with one mark for other
characters: `atoi` stops there, makes 0 of no digit and the same number of `38` and
`038`; the text reader stops at a 9 as well. A line of a text file is a sequence of
addresses, of which the code takes the first. A CREATE TABLE of a text file is a name
and the types of its columns, the primary key first; `Values` is what the two regular
expressions of `parser_read_txt_table_schema` and the offsets computed from them make of
that: `(a bigint primary key, b bigint, c bigint)` has the values b, a, a.

### CondVar
pthread is external: a signal wakes one blocked thread or more, a thread may wake
without one, and a woken thread first has to get the mutex. `nsignal` and `nwait` are
history variables. The deadline is the fraction of the second alone, which is where
`my_cond_timedwait` can go wrong; a deadline may pass at any moment. The macros
`my_cond_wait_execute` and `my_cond_signal_execute` are the same code with a statement
inside. `my_cond_timedwait_execute` is not (section 5); it is used nowhere and not
modelled.

## 3. Runs

| run | shows | bounds, and why they are enough |
|---|---|---|
| `stats` | the total is at every moment what was added, and exact in the end; shared counters and reports never too high, every thread gets through the lock | 2 threads, 2 commands: a stale store needs two commands of two threads on one counter |
| `stats_ops` (violation) | the "Ops" column can lose counts | the same |
| `hash` | linearizable, no lock kept, entries findable, the scan's buffer large enough, every search ends | 2 threads, 2 colliding keys, a second entry for one key, 2 slots at first, 6 calls: tombstones, rehashes to a larger size, probing over most slots. A rehash to the same size needs more calls: the theorems cover it, the run does not, so that its termination (`HolderReturns`) is not checked |
| `vector` | a double-ended queue that owns what it holds; emptying leaks entries only when it is full | 4 entries, capacity 2: wrapped growth, twice full; the entries are interchangeable (symmetry) |
| `engine` | a table before work, joins before freeing, less than a second missing from the run time, the end once a table exists | 1 engine thread of 2 asked for (cut by `MAX_THREAD_NUM`), run times 0 and 2, 2 ticks a second and a start at either, clock up to a tick late, `UIntMod` 3; any number of threads is a theorem |
| `engine_oversleep` (violation) | a negative remaining time becomes a huge sleep | the same |
| `checker` | no false alarm but for equal keys, no crash without a cause, passed means agreed | 2 engines, 1 write server that is also read, 1 more read server, 2 traversals, 2 ALTERs (an ADD and its DROP), 1 fault, two strings one of which begins the other, distinct and shared keys; engines are symmetric |
| `checker_prefix` (violation) | a longer value on a read server passes | no ALTER, one fault |
| `schema` | only a DROP makes a reader meet a block that is gone; one table and its schema agree; nothing leaked or freed twice; configured columns stay | 1 engine and the table thread, 2 tables, 4 blocks, room for 3 columns, 4 ALTERs (two ADDs and their DROPs, or a block freed and reused), 2 statements each; a configured column that ALTER leaves alone, one named as the ALTERs name theirs, or both; blocks and tables are symmetric |
| `parser` | what the program has of what the file says; lists follow the rates, stay in their array and keep their commands when shuffled | 6 nodes or 4 sections; ports with a 9, a leading zero, a letter and too large a number, lines of one and of two servers; text tables with a key alone, a varchar key, a varchar passed over or not; 2 swaps of any two places for each row (one of a place with itself, and one that undoes or follows another); rates of the example file, below 1, without SELECT, 1.01 and refused; 0, 1, 2 and 4 columns, and a negative number of rows |
| `parser_last` (violation) | a generated list need not end with a SELECT | the same |
| `condvar` | one wait per signal, no wake-up lost, a pending signal taken | 3 threads, 4 calls: two waiters of either kind, a signal and a late caller; `NSEC` 2 |

Deadlock is checked in all of them; the end of a run, of a table or of a vector
is a stuttering step that is enabled only then.

### Fairness
`Stats`: every thread is scheduled (weak fairness of its steps) and the run time is
finite; `MaxOps` makes a traversal finite, as command lists are. `HashTable`:
only a thread that holds the lock is taken to keep running; who gets the lock
next is left open, because a pthread rwlock may starve a writer. `Engine`: every
thread and the clock go on; nothing is assumed of the database, so CREATE TABLE
may fail for ever. `EndsOnceTableExists` says nothing of when: the sleep of
`engine_oversleep` ends too, after 2^32 seconds.
`CondVar`: strong fairness of a thread's steps, because a
mutex that is released again and again is got in the end; no call, no spurious
wake-up and no deadline is promised, so that `SignalIsTaken` rests on signals alone.

`HolderReturns` also rests on `HashCoversAssumption` of `MCHashTable`: the levels of
a key reach every slot. For the real `hash_func`, a mixing function over 2^64
levels, that is a plausible assumption and not something checked here.

## 4. Theorems

`StatsProofs` proves, for every finite set of threads (`MAX_THREAD_NUM` bounds them)
and every number of commands:

* `TypeCorrect`: `Spec => []TypeOK`;
* `NeverOvercounts`: `Spec => []GStatNeverOvercounts`;
* `AddsAreAtomic`: `Spec => []NoLostAdd`;
* `TotalIsTheSum`: `Spec => []TotalAccounted`;
* `ReportsNeverOvercount`: `Spec => []ReportNeverOvercounts`.

`GStatNeverOvercounts` is not inductive: a store writes back `reg[t].value`, so the
invariant adds `RegInv` (a value that waits to be stored is at most the number of
successes). `NoLostAdd` needs `LockInv` (a thread between `Lock` and `Unlock` owns
the lock, so at most one loads or adds) and `AddendInv` (it is at one of the four
counters then). `IInv` is the conjunction. The proof has one lemma per group of
conjuncts and one step per action. The assumptions are the two ASSUMEs of `Stats`.

For the totals, `SumsInv` adds four parts. `PhaseInv`: a thread that still counts has
added nothing, and one that unlocks has added all four counters. `TotalInv`:
`total_request` is the sum of what the threads have added; `CountedInv`: the commands
that succeeded are the sum of what they have counted; when all are done the two sums
are of the same function. `ReportInv` bounds a report by the successes of the counters it
has read. The sum is `SumFunction` of the community modules, a recursion over subsets
that TLAPS does not unfold by itself. The lemmas first show that the recursive function
exists on every finite set and is unique (`SumExists`, `SumUnique`), then its recursion
(`SumStep`) and that the sum grows as much as the one value that grew (`SumGrows`); the
induction is done by a set of least cardinality on which a claim would fail, which the
library's well-foundedness of the naturals provides.

`CondVarProofs` proves, for every set of threads, every number of calls and every
resolution of the clock:

* `TypeCorrect`: `Spec => []TypeOK`, with the mutex owned by the one thread between
  lock and unlock;
* `OneWaitPerSignal`: `Spec => []EachWaitHasItsSignal`;
* `WakeupsAreKept`: `Spec => []NoLostWakeup`.

The inductive invariant is the conjunction of the three. `EachWaitHasItsSignal`
counts the flag as a signal not yet used; `NoLostWakeup` names the thread that will
take it, and each step of that thread either keeps it on its way or clears the flag.
Which thread a signal wakes is a choice the proof takes with PICK. The assumptions
are the two ASSUMEs of `CondVar`. That the signal is then taken (`SignalIsTaken`) is
liveness and stays with TLC.

`EngineProofs` proves, for every sequence of engine threads, every cap on them, every
set of table names and of run times, all intervals and every width of an unsigned int:

* `TypeCorrect`: `Spec => []TypeOK`;
* `TableBeforeWork`: `Spec => []WorkersHaveATable`;
* `SummaryAfterJoin`: `Spec => []JoinedBeforeSummary`;
* `LessThanASecondShort`: `Spec => []NeverASecondShort`.

A thread works because it saw `has_first_table` (`SpinInv`), and the flag is set after
the table was added (`TableInv`, with `NewTableInv` for the table in hand); the main
thread joins in order, and `JoinedInv` says that those it has joined have returned;
`ClockInv` says that `duration`, in ticks, is at most `start_frac + elapsed`, that is less
than a second ahead, and that `time_thread` stops only when it has reached `end_time`.

`VectorProofs` proves, for every set of entries, every initial size and every growth
factor above 1:

* `TypeCorrect`: `Spec => []TypeOK`;
* `OwnsWhatItHolds`: `Spec => []HeldIsOwned`;
* `ImplementsDeque`: `Spec => IsADeque`, the refinement;
* `ForgetsOnlyWhenFull`: `Spec => LeaksOnlyWhenFull`, an action property.

The invariant is `RingInv` (the array is no smaller than at first, and only a vector
with `start = end` can be empty) and
`HeldInv` (the items in order are entries, distinct and owned). Each operation has a
lemma that says what it makes of the sequence of items: `Append`, `Tail`, the same
items after a growth. From those lemmas every step is a step of `Deque` or a stutter.

`SchemaProofs` proves, for any number of readers, tables and columns:

* `TypeCorrect`: `Spec => []TypeOK`;
* `CrashOnlyAfterDrop`: `Spec => []CrashNeedsDrop`;
* `HeapMatchesSchema`: `Spec => []NoLeakNoDangling`;
* `StatementsMatch`: `Spec => []StatementsFit`;
* `ConfiguredColumnsStay`: `Spec => ConfiguredStay`, an action property.

`SlotsInv` says, for each place of the ALTER thread, which slots point to which
allocated blocks; `CrashInv` that a reader no DROP has overtaken counted no more
columns than the schema still has, and one that counted in the middle of a DROP only the
column under it more; `CopyInv` that a statement no ALTER ran beside is
a copy of the schema so far, and `FitInv` that the schema and a single table agree up to
the column an ALTER is at; `ConfigInv` that a DROP under way is of a column after the
configured ones that stay. The proof of
`ConfiguredStay` failed at first and for a reason: a table *can* lose a column that is
configured as `col2` before another one, because the column that ALTER adds third has
the same name. The property now says so, and `MCConfigs` has that configuration.

`CheckerProofs` proves, for any number of engines, servers, keys, columns and strings:

* `TypeCorrect`: `Spec => []TypeOK`;
* `AlarmsAreReal`: `Spec => []NoFalseAlarm`;
* `FaultsAreExplained`: `Spec => []FaultNeedsDisturbance`;
* `PassIsAgreement`: `Spec => []PassedMeansAgreed`.

The heart is `SyncInv`: all servers hold the same row for every key that no fault has
touched. `PlaceInv` says that every traversal has a seed of its own; `OwnRowInv` that,
while a row whose key no other seed has is compared, every server has it with the
values the write server gave, but for columns that ALTERs renewed; `UndisturbedInv` that
every server has just that row as long as nothing disturbs the SELECT; `AnsweredInv`
that the servers compared so far agree; `AlterInv` that an ALTER under way is of an added
column. Which field `Compare` stops at is a minimum over naturals, taken from the
library's well-foundedness theorems.

`HashTableProofs` proves, for any number of threads, keys and entries, every hash
function, every number of levels and all sizes:

* `TypeCorrect`: `Spec => []TypeOK`;
* `LocksAreReleased`: `Spec => []NoLockLeak`;
* `EntriesAreFindable`: `Spec => []Findable`;
* `ScanStaysInItsArray`: `Spec => []ScanFits`;
* `ImplementsKeyedSet`: `Spec => Linearizable`, the refinement.

`LockInv` makes a writer the only thread inside. `SearchInv` says that a search has
passed all levels before its own; with `Findable` it follows that a search ends at the
entry with the key if there is one (`SearchFinds`), so keys are distinct. `Findable` is
kept because an entry is stored where its own search ended and a tombstone ends no
search. `RehashInv` says that the new array holds what was passed of the old one,
whose keys are distinct: the duplicate on which `rehash` would return with the lock
held cannot occur. `CountInv` ties `hash_entry_count` to the number of occupied
elements and `ScanInv` the copied entries to those before the index. For the
refinement each action is shown to be the abstract call at its moment or a stutter;
the number a scan reports is the cardinality of the set by a bijection between
occupied elements and entries. Nothing is assumed of `HashFunc` here: that levels
reach every slot matters for termination only.

`ParserProofs` proves, for all addresses, table names, rates, windows, capacities and
bounds on the file:

* `Inductive`: `Spec => []IInv`, from which the others follow;
* `TypeCorrect`: `Spec => []TypeOK`;
* `SharesAreProportional`: `Spec => []Proportional`;
* `OverrunsNeedExcess`: `Spec => []OverrunNeedsExcess`;
* `RowsAreTheArray`: `Spec => []RowsHoldTheArray`;
* `XmlIsAsWritten`: `Spec => []XmlAsWritten`;
* `TxtIsAsRead`: `Spec => []TxtAsRead`.

A list is `Linked(s)`, the closed form of its links, for the sequence `s` of its
commands: `cmd_list_init` is `Linked(<<>>)` and `cmd_list_add` appends to `s`. What a
traversal meets, forward and backward, is then `s`, and no induction over the list is left
to the invariant. `CountInv` holds the two bounds of `Proportional` and, as long as no
sum was rounded up, the strict one: an overrun needs a whole command too many, so
`OverrunNeedsExcess` is not inductive without it. That `Fill` finds the end of its loop in
the range it searches, and the minimum there, is a lemma of its own. `LocalsInv` says that
negative numbers are refused before they are used. `RowsInv` says that the array and
every row are reorderings (`Reorders`: the same `ToBag`, the same last command) of the
array before the first shuffle; it is kept because `XorSwap` at two different places
exchanges them (`XorTwice`, `SwappedIs`). At one place it would leave the empty set: the
guard `a == b` is what the lemma needs. `XmlInv` says what the XML reader has after each
node, with the list and the table it is in the middle of, and `XmlServers` that there is
one server for each node. `TxtInv` says the same of lines (`OnePerLine`) and of CREATE
TABLEs (`TxtTables`); `PortIs` shows that a port without a 9 is read as it is written, and
`TablesAre` what the columns of a text table come to.
`PlaceInv`, `FileInv`, `SchemaInv` and `ArrayInv` are types and places. The proof attempt
changed the model in one place: with doubles `(int) (rate * cols)` can be one less than
the exact product, which `Fill` did not have (`low`); `Proportional` holds all the same.

All theorems rest on the ASSUMEs of their modules and on nothing else; TLC evaluates
these in every run. They say that the markers for "nothing" (`NoThread`, `Null`,
`Empty`, ...) are no threads, values or entries, that sizes and bounds are naturals, and
what the configuration can be. Every inductive invariant was checked with TLC on the
instance of the module's run before it was proved.

Only model-checked: the liveness properties (`SummaryReached`, `HolderReturns`,
`EndsOnceTableExists`, `SignalIsTaken`), because the prover has no rules for fairness
here, and that `Decimal` is the number its digits say, an induction over a sequence that
the theorems do not use. Every other property of a passing run is a theorem. The four properties of the
runs that expect a violation are refuted, not proved.

## 5. Findings

`PROJECT.json` lists those a run shows, with the lines: lost counts in "Ops"; the
unsigned sleep; a comparison that stops at the write server's length; generated
lists that do not end with a SELECT. The models show more, which a property of a
passing run states with its exception, or an action models:

* `vector_empty` and `vector_destroy` free nothing when the vector is exactly full
  (`vector.c:254`, `LeaksOnlyWhenFull`);
* the engine and alter threads wait for the first table without looking at
  `is_thread_run`, so a process that can create no table outlives `-e`
  (`cq_engine.c:202`, the premise of `EndsOnceTableExists`);
* `-e` counts whole seconds of `time()`: a run started late in a second ends up to almost
  a second early (`cq_engine.c:75`, `NeverASecondShort`);
* two seeds can give the same short varchar key, and another engine's update between
  the queries of a SELECT then raises a false alarm (`cq_sql_gen.c:40`,
  `NoFalseAlarm`);
* a generator can read a column that a DROP has just freed (`cq_table.c:91`,
  `CrashNeedsDrop`), and with two tables of one schema an ALTER of one breaks the
  statements of the other (`cq_table.c:204`, `StatementsFit`);
* of a line of servers in a text configuration only the first is read, where lines 2 and
  3 of `config.txt.example` list two and three; a port is cut off at a 9, and long
  addresses are copied past the end of two buffers (`parser.c:415`, `:420`, `:416`).
  `TxtAsRead` states what the reader keeps, which is not what the example means;
* a text configuration leaves the schema set empty, so the table thread dereferences
  NULL (`parser.c:655`, `TxtAsRead`); without a rate or a window section
  uninitialised variables are used (`:849`); the offsets of a table's columns are
  taken from the wrong start, so that the values of its table are the key over and
  over, and a varchar is read through `match[2]` of an array of two (`:604`, `:543`);
* XML ports go through `atoi`: `33x6` is port 33, `abc` port 0 (`parser.c:166`,
  `XmlAsWritten`);
* a comment among the servers of an XML file frees two strings twice
  (`parser.c:191`); among the columns of a table it is a null pointer (`:205`);
* rates that add up to 1.01 overrun the array of commands (`parser.c:816`,
  `OverrunNeedsExcess`), a window of one column divides by zero (`:786`);
* with no command list at all (`rows = 0`) `travel_command_list` gets NULL
  (`cq_command.c:141`), and a varchar of length 0 divides by zero (`cq_sql_gen.c:43`);
* `my_cond_timedwait_execute` never times out (`my_mutex.h:36`);
* `vector.h:54` describes `vector_shift` as `vector_pop`; a row the write server does
  not have is not looked for elsewhere (`cq_mysql_cmd.c:246`), so a lost DELETE passes.

## 6. Not modelled

Text (of statements, logs, reports, configuration files), option parsing, `frandom`'s
bits, memory exhaustion (`my_malloc` exits), `int` overflow of counters and seeds, CREATE
TABLEs of a text file whose primary key is not the first column, more than one schema at a time, key schemas (they never
change), the reconnects of the MySQL library, the signal handlers (one prints a stack
trace and exits, the others are never installed), `cmd_list_add_head` (only a test
calls it). `lib/` is vendored: what the program calls of it is external and modelled
by its use. The reasons are in `PROJECT.json` under "components".

## 7. Plan

Modelled: `Stats`, `HashTable`, `Vector`, `Engine`, `Checker`, `Schema`, `CmdList`,
`CmdGen`, `Parser`, `CondVar`. Proved: every safety property that a passing run checks,
with both refinements. What could come next:

1. Liveness by hand-made well-founded arguments, once the prover supports them.
2. CREATE TABLEs of a text file with the primary key elsewhere: which column the code
   then takes depends on the lengths of the names.
3. More than one schema at a time in `Schema`.
