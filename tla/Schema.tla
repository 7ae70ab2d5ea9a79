------------------------------- MODULE Schema -------------------------------
(***************************************************************************)
(* The value schema of table/cq_table.c, which every table made from it    *)
(* shares.  The alter thread adds and drops its last column (cq_mysql_cmd, *)
(* mysql_alter_*_table) while the engine threads and the table thread make *)
(* statements from it column by column (cq_sql_gen.c), with no lock.       *)
(*                                                                         *)
(* A column is a block of the heap (table_data_t): a pointer to one is a   *)
(* member of Data, and a block that was freed may be given out again.      *)
(* Reading a freed block or a slot that was never written is undefined:    *)
(* the process crashes, or the statement has a column named Garbage.       *)
(*                                                                         *)
(* A name is <<prefix, number>>; add_table_data makes <<"col", nschema>>.  *)
(* The database is external: it keeps the columns of each table in order.  *)
(***************************************************************************)
EXTENDS Naturals, Sequences, SequencesExt

CONSTANTS
    Engines, Creator,       \* the threads that make statements; Creator: table_thread
    Tables,                 \* the names test<n>
    Data, Free,
    Uninit,                 \* what a slot holds before it is written
    Garbage,
    NoThread, NoTable,
    Configs,                \* the configurations: sequences of column names
    Capacity,               \* 100 in schema_init
    MaxAlters, MaxStatements    \* bounds: ALTERs, and statements of a thread

Readers == Engines \cup {Creator}

ASSUME NameAssumption ==
    /\ NoThread \notin Readers /\ NoTable \notin Tables
    /\ Free \notin Data /\ Uninit \notin Data

\* The names of columns, and what a statement can have for one.
Names == {<<"col", k>> : k \in 0..(Capacity - 1)} \cup UNION {ToSet(c) : c \in Configs}
Columns == Names \cup {Garbage}

ASSUME ConfigAssumption ==
    /\ Configs \subseteq Seq(Names) /\ \A c \in Configs : Len(c) <= Capacity
    /\ Garbage \notin Names /\ Free \notin Names
ASSUME SchemaBounds == {Capacity, MaxAlters, MaxStatements} \subseteq Nat

VARIABLES
    proc, culprit,          \* "running", "faulted" by culprit, "exited"
    config,                 \* the value columns of the configuration
    slots, nschema,         \* val_schema->schemas and ->nschema
    heap,                   \* [Data -> name], Free when not allocated
    tables,                 \* the table set
    dbcols,                 \* external: the columns of each table, in order
    pc, sql, n, i, pdata,   \* per reader: place, columns so far, ndata, i, table_datas[i]
    target,                 \* per reader: the table of the statement
    nstmt,
    apc, atable, adata,     \* alter thread: place, its table, the new column
    nalter,
    alteredSince,           \* history, per reader: an ALTER ran since it read nschema
    dropMet,                \* history, per reader: "since" when a column was freed since it
                            \* read nschema, "mid" when it read nschema between the free
                            \* and the count of a drop_table_data, otherwise "none"
    addFailed               \* history: an ALTER ADD was refused after the schema grew

schema == <<config, slots, nschema, heap>>
reader == <<pc, sql, n, i, pdata, target, nstmt>>
alter == <<apc, atable, adata, nalter>>
history == <<alteredSince, dropMet, addFailed>>
vars == <<proc, culprit, schema, tables, dbcols, reader, alter, history>>

\* schema_init and schema_add, once for each column of the configuration.
Init ==
    /\ proc = "running" /\ culprit = NoThread
    /\ config \in Configs
    /\ nschema = Len(config)
    /\ \E place \in [0..(Len(config) - 1) -> Data] :
          /\ \A j, k \in DOMAIN place : place[j] = place[k] => j = k
          /\ slots = [k \in 0..(Capacity - 1) |->
                        IF k \in DOMAIN place THEN place[k] ELSE Uninit]
          /\ heap = [d \in Data |->
                        IF \E k \in DOMAIN place : place[k] = d
                        THEN config[1 + CHOOSE k \in DOMAIN place : place[k] = d]
                        ELSE Free]
    /\ tables = {}
    /\ dbcols = [t \in Tables |-> <<>>]
    /\ pc = [r \in Readers |-> "idle"]
    /\ sql = [r \in Readers |-> <<>>]
    /\ n = [r \in Readers |-> 0] /\ i = [r \in Readers |-> 0]
    /\ pdata = [r \in Readers |-> Uninit]
    /\ target = [r \in Readers |-> NoTable]
    /\ nstmt = [r \in Readers |-> 0]
    /\ apc = "idle" /\ atable = NoTable /\ adata = Uninit /\ nalter = 0
    /\ alteredSince = [r \in Readers |-> FALSE]
    /\ dropMet = [r \in Readers |-> "none"]
    /\ addFailed = FALSE

At(r, place) == proc = "running" /\ pc[r] = place
AlterAt(place) == proc = "running" /\ apc = place

-----------------------------------------------------------------------------
(* The generators: insert_gen, update_gen, select_gen and create_gen. *)

\* The table of an engine's statement is one of the set
\* (table_set_get_random); a CREATE makes up a name.
Targets(r) == IF r = Creator THEN Tables ELSE tables

\* get_table_val_types or get_schema_val_types: the array and its length.
GenStart(r, t) ==
    /\ At(r, "idle")
    /\ nstmt[r] < MaxStatements
    /\ nstmt' = [nstmt EXCEPT ![r] = @ + 1]
    /\ target' = [target EXCEPT ![r] = t]
    /\ n' = [n EXCEPT ![r] = nschema]
    /\ i' = [i EXCEPT ![r] = 0]
    /\ sql' = [sql EXCEPT ![r] = <<>>]
    /\ pc' = [pc EXCEPT ![r] = "load"]
    /\ alteredSince' = [alteredSince EXCEPT ![r] = apc # "idle"]
    /\ dropMet' = [dropMet EXCEPT ![r] = IF apc = "freed" THEN "mid" ELSE "none"]
    /\ UNCHANGED <<proc, culprit, schema, tables, dbcols, pdata, alter, addFailed>>

\* table_datas[i]
GenLoad(r) ==
    /\ At(r, "load")
    /\ i[r] < n[r]
    /\ pdata' = [pdata EXCEPT ![r] = slots[i[r]]]
    /\ pc' = [pc EXCEPT ![r] = "use"]
    /\ UNCHANGED <<proc, culprit, schema, tables, dbcols, sql, n, i, target, nstmt,
                   alter, history>>

Valid(d) == d \in Data /\ heap[d] # Free

AddColumn(r, name) ==
    /\ sql' = [sql EXCEPT ![r] = Append(@, name)]
    /\ i' = [i EXCEPT ![r] = @ + 1]
    /\ pdata' = [pdata EXCEPT ![r] = Uninit]
    /\ pc' = [pc EXCEPT ![r] = "load"]
    /\ UNCHANGED <<proc, culprit, schema, tables, dbcols, n, target, nstmt, alter,
                   history>>

\* get_table_data_name, _type and _len of the block, as long as it is one.
GenUse(r) ==
    /\ At(r, "use")
    /\ Valid(pdata[r])
    /\ AddColumn(r, heap[pdata[r]])

\* The block is gone: what is there is printed ...
GenUseGarbage(r) ==
    /\ At(r, "use")
    /\ ~Valid(pdata[r])
    /\ AddColumn(r, Garbage)

\* ... or the process is killed.
GenUseFaults(r) ==
    /\ At(r, "use")
    /\ ~Valid(pdata[r])
    /\ proc' = "faulted" /\ culprit' = r
    /\ UNCHANGED <<schema, tables, dbcols, reader, alter, history>>

GenEnd(r) ==
    /\ At(r, "load")
    /\ i[r] = n[r]
    /\ pc' = [pc EXCEPT ![r] = "query"]
    /\ UNCHANGED <<proc, culprit, schema, tables, dbcols, sql, n, i, pdata, target,
                   nstmt, alter, history>>

\* The statement is over, and its text is not used again.
Over(r) ==
    /\ pc' = [pc EXCEPT ![r] = "idle"]
    /\ sql' = [sql EXCEPT ![r] = <<>>]
    /\ n' = [n EXCEPT ![r] = 0] /\ i' = [i EXCEPT ![r] = 0]
    /\ target' = [target EXCEPT ![r] = NoTable]
    /\ alteredSince' = [alteredSince EXCEPT ![r] = FALSE]
    /\ dropMet' = [dropMet EXCEPT ![r] = "none"]
    /\ UNCHANGED <<proc, culprit, schema, pdata, nstmt, alter, addFailed>>

\* An engine's statement changes no column, and a CREATE may fail.
QueryOver(r) ==
    /\ At(r, "query")
    /\ Over(r)
    /\ UNCHANGED <<tables, dbcols>>

\* mysql_create_table succeeds (a new name, no column twice), and
\* table_thread adds the table, with the shared schema, to the set.
CreateTable ==
    /\ At(Creator, "query")
    /\ target[Creator] \notin tables
    /\ IsInjective(sql[Creator])
    /\ dbcols' = [dbcols EXCEPT ![target[Creator]] = sql[Creator]]
    /\ tables' = tables \cup {target[Creator]}
    /\ Over(Creator)

-----------------------------------------------------------------------------
(* alter_thread *)

\* An ALTER begins, on a table of the set (table_set_get_random): who is
\* making a statement runs beside it.
StartAlter(t) ==
    /\ AlterAt("idle")
    /\ t \in tables
    /\ nalter < MaxAlters
    /\ nalter' = nalter + 1
    /\ atable' = t
    /\ alteredSince' = [r \in Readers |-> pc[r] # "idle"]

AlterRest == UNCHANGED <<proc, culprit, config, tables, reader>>

\* Back in alter_thread.
EndAlter ==
    /\ apc' = "idle"
    /\ atable' = NoTable
    /\ adata' = Uninit

is_table_schema_full == nschema >= Capacity

\* Mutant: the columns are numbered from 1.
add_table_data_from_one(t) ==
    /\ StartAlter(t)
    /\ ~is_table_schema_full
    /\ \E d \in Data :
          /\ heap[d] = Free
          /\ heap' = [heap EXCEPT ![d] = <<"col", nschema + 1>>]
          /\ adata' = d
    /\ apc' = "store"
    /\ UNCHANGED <<slots, nschema, dbcols, dropMet, addFailed>> /\ AlterRest

\* add_table_data, first the block.
add_table_data(t) ==
    /\ StartAlter(t)
    /\ ~is_table_schema_full
    /\ \E d \in Data :
          /\ heap[d] = Free
          /\ heap' = [heap EXCEPT ![d] = <<"col", nschema>>]
          /\ adata' = d
    /\ apc' = "store"
    /\ UNCHANGED <<slots, nschema, dbcols, dropMet, addFailed>> /\ AlterRest

StoreSlot(k, to) ==
    /\ slots' = [slots EXCEPT ![k] = adata]
    /\ apc' = to
    /\ UNCHANGED <<nschema, heap, dbcols, atable, adata, nalter, history>> /\ AlterRest

CountSlot(to) ==
    /\ nschema' = nschema + 1
    /\ apc' = to
    /\ UNCHANGED <<slots, heap, dbcols, atable, adata, nalter, history>> /\ AlterRest

\* The array is full: add_table_data ignores it, the block is lost and the
\* ALTER goes on with the last column there is.
AddRefused ==
    /\ apc' = "add"
    /\ UNCHANGED <<slots, nschema, heap, dbcols, atable, adata, nalter, history>> /\ AlterRest

\* Mutant: the count is raised before the slot is written.
schema_add_swapped ==
    \/ AlterAt("store") /\ CountSlot("count")
    \/ AlterAt("count") /\ StoreSlot(nschema - 1, "add")

\* schema_add: refused when nschema == capacity, otherwise the slot, then the
\* count.
schema_add ==
    \/ AlterAt("store") /\ IF nschema = Capacity THEN AddRefused
                                                 ELSE StoreSlot(nschema, "count")
    \/ AlterAt("count") /\ CountSlot("add")

\* alter_add_gen and alter_drop_gen name the last column of the schema.
LastColumn == heap[slots[nschema - 1]]

\* The ALTER TABLE ... ADD succeeds ...
AlterAddQuery ==
    /\ AlterAt("add")
    /\ LastColumn \notin ToSet(dbcols[atable])
    /\ dbcols' = [dbcols EXCEPT ![atable] = Append(@, LastColumn)]
    /\ EndAlter
    /\ UNCHANGED <<slots, nschema, heap, nalter, history>> /\ AlterRest

\* ... or fails, and the schema keeps the column.
AlterAddFails ==
    /\ AlterAt("add")
    /\ addFailed' = TRUE
    /\ EndAlter
    /\ UNCHANGED <<slots, nschema, heap, dbcols, nalter, alteredSince, dropMet>>
    /\ AlterRest

\* Mutant: the name of the column is not looked at.
MayDropAny == nschema > 0

\* ndata > 0, and strncmp(data_name, "col", 3) = 0
MayDrop == nschema > 0 /\ LastColumn[1] = "col"

\* ALTER TABLE ... DROP COLUMN succeeds ...
AlterDropQuery(t) ==
    /\ StartAlter(t)
    /\ MayDrop
    /\ \E k \in DOMAIN dbcols[t] :
          /\ dbcols[t][k] = LastColumn
          /\ dbcols' = [dbcols EXCEPT ![t] = RemoveAt(@, k)]
    /\ apc' = "drop"
    /\ UNCHANGED <<slots, nschema, heap, adata, dropMet, addFailed>> /\ AlterRest

\* Mutant: the column leaves the schema although the query failed.
AlterDropFailsDrops(t) ==
    /\ StartAlter(t)
    /\ MayDrop
    /\ apc' = "drop"
    /\ UNCHANGED <<slots, nschema, heap, dbcols, adata, dropMet, addFailed>> /\ AlterRest

\* ... or fails, and nothing changes.
AlterDropFails(t) ==
    /\ StartAlter(t)
    /\ MayDrop
    /\ apc' = "idle"
    /\ UNCHANGED <<slots, nschema, heap, dbcols, adata, dropMet, addFailed>>
    /\ AlterRest

\* drop_table_data: table_data_destroy of the last column ...
drop_table_data_free ==
    /\ AlterAt("drop")
    /\ heap' = [heap EXCEPT ![slots[nschema - 1]] = Free]
    /\ dropMet' = [r \in Readers |-> IF pc[r] = "idle" THEN "none" ELSE "since"]
    /\ apc' = "freed"
    /\ UNCHANGED <<slots, nschema, dbcols, atable, adata, nalter, alteredSince,
                   addFailed>>
    /\ AlterRest

\* Mutant: the column is freed and stays in the schema.
drop_table_data_uncounted ==
    /\ AlterAt("freed")
    /\ EndAlter
    /\ UNCHANGED <<slots, nschema, heap, dbcols, nalter, history>> /\ AlterRest

\* ... then the count.
drop_table_data_count ==
    /\ AlterAt("freed")
    /\ nschema' = nschema - 1
    /\ EndAlter
    /\ UNCHANGED <<slots, heap, dbcols, nalter, history>> /\ AlterRest

Alter ==
    \/ \E t \in tables : add_table_data(t) \/ AlterDropQuery(t) \/ AlterDropFails(t)
    \/ schema_add \/ AlterAddQuery \/ AlterAddFails
    \/ drop_table_data_free \/ drop_table_data_count

-----------------------------------------------------------------------------
\* The blocks schema_destroy frees.
InSchema == {slots[k] : k \in 0..(nschema - 1)}

\* clean_env, after the joins: schema_set_destroy frees the columns of the
\* schema, table_set_destroy the tables.
clean_env ==
    /\ AlterAt("idle")
    /\ \A r \in Readers : pc[r] = "idle"
    /\ proc' = "exited"
    /\ heap' = [d \in Data |-> IF d \in InSchema THEN Free ELSE heap[d]]
    /\ tables' = {}
    /\ UNCHANGED <<culprit, config, slots, nschema, dbcols, reader, alter, history>>

Generate(r) ==
    \/ \E t \in Targets(r) : GenStart(r, t)
    \/ GenLoad(r) \/ GenUse(r) \/ GenUseGarbage(r) \/ GenUseFaults(r) \/ GenEnd(r)
    \/ QueryOver(r)

Ended == proc # "running" /\ UNCHANGED vars

Next ==
    \/ \E r \in Readers : Generate(r)
    \/ CreateTable
    \/ Alter
    \/ clean_env
    \/ Ended

Spec == Init /\ [][Next]_vars

-----------------------------------------------------------------------------
\* Every variable holds a value of its type: the columns that ALTERs add are
\* col0 to col(Capacity - 1), which data_name[10] has room for.
TypeOK ==
    /\ proc \in {"running", "faulted", "exited"} /\ culprit \in Readers \cup {NoThread}
    /\ config \in Configs
    /\ slots \in [0..(Capacity - 1) -> Data \cup {Uninit}]
    /\ nschema \in 0..Capacity
    /\ heap \in [Data -> Names \cup {Free}]
    /\ tables \subseteq Tables
    /\ dbcols \in [Tables -> Seq(Columns)]
    /\ pc \in [Readers -> {"idle", "load", "use", "query"}]
    /\ sql \in [Readers -> Seq(Columns)]
    /\ n \in [Readers -> 0..Capacity] /\ i \in [Readers -> 0..Capacity]
    /\ pdata \in [Readers -> Data \cup {Uninit}]
    /\ target \in [Readers -> Tables \cup {NoTable}]
    /\ nstmt \in [Readers -> 0..MaxStatements]
    /\ apc \in {"idle", "store", "count", "add", "drop", "freed"}
    /\ atable \in Tables \cup {NoTable} /\ adata \in Data \cup {Uninit}
    /\ nalter \in 0..MaxAlters
    /\ alteredSince \in [Readers -> BOOLEAN]
    /\ dropMet \in [Readers -> {"none", "mid", "since"}]
    /\ addFailed \in BOOLEAN

\* A thread that makes a statement reads a block that is not there only when
\* a column was freed after it had read the number of columns, or, at the last
\* column it counted, when it read that number after drop_table_data had freed
\* the column and before it counted it off.  It never meets a slot before its
\* block, however the ADDs come.
CrashNeedsDrop ==
    \A r \in Readers :
        /\ proc = "faulted" /\ culprit = r =>
              dropMet[r] = "since" \/ (dropMet[r] = "mid" /\ i[r] + 1 = n[r])
        /\ \A k \in 1..Len(sql[r]) : sql[r][k] = Garbage =>
              dropMet[r] = "since" \/ (dropMet[r] = "mid" /\ k = n[r])

\* The names of the schema's columns.
SchemaNames == [k \in 1..nschema |-> heap[slots[k - 1]]]

\* While one table uses the schema and the database refused no ADD, a
\* statement made with no ALTER beside it has the columns the table has, in
\* its order.  (With two tables it need not: both change when one is altered.)
StatementsFit ==
    \A r \in Engines :
        pc[r] = "query" /\ tables = {target[r]} /\ ~alteredSince[r] /\ ~addFailed
            => sql[r] = dbcols[target[r]]

\* Between two ALTERs the schema holds every allocated block, each once, and
\* no block that was freed: what schema_destroy frees is what is there.
NoLeakNoDangling ==
    /\ AlterAt("idle") =>
          /\ InSchema = {d \in Data : heap[d] # Free}
          /\ \A j, k \in 0..(nschema - 1) : slots[j] = slots[k] => j = k
    /\ proc = "exited" => \A d \in Data : heap[d] = Free

\* A configured column that is not named "col..." is dropped by no ALTER,
\* not from the schema and not from a table that has it; the schema keeps
\* what is configured before it too.  (A table need not: a column configured
\* as "col2" before a third one shares its name with the column ALTER adds
\* third, and goes from the table when that one is dropped.)
ConfiguredStay ==
    [][\A k \in 1..Len(config) :
          (\E j \in k..Len(config) : config[j][1] # "col") /\ proc' = "running"
              => /\ k <= nschema' /\ heap'[slots'[k - 1]] = config[k]
                 /\ config[k][1] # "col" =>
                        \A t \in Tables : config[k] \in ToSet(dbcols[t])
                                              => config[k] \in ToSet(dbcols'[t])]_vars
=============================================================================
