------------------------------ MODULE Checker ------------------------------
(***************************************************************************)
(* The consistency check itself (cq_mysql/cq_mysql_cmd.c, cq_sql_gen.c and *)
(* travel_command_list): engine threads insert, update and delete rows     *)
(* through a write server and compare what the write server and the read   *)
(* servers answer, while the alter thread adds and drops a column.         *)
(*                                                                         *)
(* The database is external.  The code compares at once and without a      *)
(* retry, so it is modelled as the code needs it: a write that succeeds is *)
(* visible on every server.  Diverge is the fault the tool exists to find. *)
(*                                                                         *)
(* One table is modelled.  The key of its rows is a function of the seed   *)
(* of the traversal: 63 random bits for a bigint key, for a varchar key a  *)
(* string of random length, which two seeds may share.  A column is the    *)
(* index the client's schema gives it ("col<index>" for an added one).  A  *)
(* value is a non-empty string of characters, or Null.                     *)
(***************************************************************************)
EXTENDS Naturals, Sequences, FiniteSets

CONSTANTS
    Engines,
    WriteServers, ReadSeq,  \* ReadSeq: the read servers in hash order
    Strings, Null,          \* the values a column can have
    NoRow, NoThread,
    Keys, KeyFuncs,         \* the keys frandom may make of the seeds
    ConfigCols,             \* value columns of the configuration
    Capacity,               \* columns a schema has room for
    MaxSeed, MaxAlters, MaxDiverge   \* bounds: traversals, ALTERs, faults

ReadServers == {ReadSeq[i] : i \in 1..Len(ReadSeq)}
Servers == WriteServers \cup ReadServers
Seeds == 1..MaxSeed

\* The columns of a schema of n, and the rows of a table.
Columns(n) == 0..(n - 1)
Rows(cols) == [cols -> Strings \cup {Null}]

ASSUME ServerAssumption == ReadSeq \in Seq(ReadServers)
ASSUME ValueAssumption ==
    /\ Null \notin Strings /\ \A s \in Strings : s \in Seq(Nat) /\ s # <<>>
    /\ \A cols \in SUBSET Columns(Capacity) : NoRow \notin Rows(cols)
ASSUME KeyAssumption == KeyFuncs \subseteq [Seeds -> Keys]
ASSUME SchemaAssumption ==
    /\ ConfigCols \in Nat /\ Capacity \in Nat
    /\ ConfigCols <= Capacity
ASSUME CheckerBounds == {MaxSeed, MaxAlters, MaxDiverge} \subseteq Nat

VARIABLES
    proc,                   \* "running", "aborted" (abort()) or "faulted" (SIGSEGV)
    culprit,                \* the thread that ended it
    engine_frandom_seed,
    pc,
    key_of,                 \* the key of a seed's row
    seed_base, write_server,    \* of the traversal
    sql,                    \* [cmd, n]: the statement and its columns 0..n-1
    wrow, i,                \* mysql_select: the write server's row, the loop index
    answered,               \* history: read servers that answered this select
    disturbed,              \* history: fault, ALTER or another engine's write to the
                            \* row since the write server answered
    nschema,                \* val_schema->nschema
    apc, nalter,            \* alter thread, and ALTERs so far
    db,                     \* external: [server -> [key -> row or NoRow]]
    dbcols,                 \* external: the columns of the table
    diverged                \* history: keys of rows a fault has touched

traversal == <<key_of, seed_base, write_server>>
select == <<wrow, i, answered>>
alter == <<nschema, apc, nalter>>
external == <<db, dbcols, diverged>>
vars == <<proc, culprit, engine_frandom_seed, pc, traversal, sql, select,
          disturbed, alter, external>>

Cmds == {"INSERT", "DELETE", "UPDATE", "SELECT"}
NoSql == [cmd |-> "SELECT", n |-> 0]

\* The key of the traversal's row.
Key(t) == key_of[seed_base[t]]

Init ==
    /\ proc = "running" /\ culprit = NoThread
    /\ engine_frandom_seed = 0
    /\ pc = [t \in Engines |-> "idle"]
    /\ key_of \in KeyFuncs
    /\ seed_base = [t \in Engines |-> 0]
    /\ write_server \in [Engines -> WriteServers]
    /\ sql = [t \in Engines |-> NoSql]
    /\ wrow = [t \in Engines |-> NoRow]
    /\ i = [t \in Engines |-> 1]
    /\ answered = [t \in Engines |-> {}]
    /\ disturbed = [t \in Engines |-> FALSE]
    /\ nschema = ConfigCols /\ apc = "idle" /\ nalter = 0
    /\ db = [s \in Servers |-> [k \in Keys |-> NoRow]]
    /\ dbcols = Columns(ConfigCols)
    /\ diverged = {}

Running == proc = "running"

\* Where a thread of the running process is, and where it goes.
At(t, place) == Running /\ pc[t] = place
AlterAt(place) == Running /\ apc = place
Goto(t, to) == pc' = [pc EXCEPT ![t] = to]

-----------------------------------------------------------------------------
(* travel_command_list *)

\* Mutant: the seed is read without being advanced.
StartTraversalSameSeed(t) ==
    /\ At(t, "idle")
    /\ engine_frandom_seed < MaxSeed
    /\ seed_base' = [seed_base EXCEPT ![t] = 1]
    /\ \E s \in WriteServers : write_server' = [write_server EXCEPT ![t] = s]
    /\ Goto(t, "list")
    /\ UNCHANGED <<proc, culprit, engine_frandom_seed, key_of, sql, select,
                   disturbed, alter, external>>

\* eng_context_config picks a write server, set_seed a new seed.
StartTraversal(t) ==
    /\ At(t, "idle")
    /\ engine_frandom_seed < MaxSeed
    /\ engine_frandom_seed' = engine_frandom_seed + 1
    /\ seed_base' = [seed_base EXCEPT ![t] = engine_frandom_seed + 1]
    /\ \E s \in WriteServers : write_server' = [write_server EXCEPT ![t] = s]
    /\ Goto(t, "list")
    /\ UNCHANGED <<proc, culprit, key_of, sql, select, disturbed, alter, external>>

EndTraversal(t) ==
    /\ At(t, "list")
    /\ Goto(t, "idle")
    /\ UNCHANGED <<proc, culprit, engine_frandom_seed, traversal, sql, select,
                   disturbed, alter, external>>

\* The statements, with the value columns of the schema as it is now: values
\* for all of them, none, assignments to all of them, their names.
insert_gen == [cmd |-> "INSERT", n |-> nschema]
delete_gen == [cmd |-> "DELETE", n |-> 0]
update_gen == [cmd |-> "UPDATE", n |-> nschema]
select_gen == [cmd |-> "SELECT", n |-> nschema]

sql_gen(cmd) ==
    [INSERT |-> insert_gen, DELETE |-> delete_gen,
     UPDATE |-> update_gen, SELECT |-> select_gen][cmd]

\* The next command of the list.
Gen(t, cmd) ==
    /\ At(t, "list")
    /\ sql' = [sql EXCEPT ![t] = sql_gen(cmd)]
    /\ Goto(t, "query")
    /\ UNCHANGED <<proc, culprit, engine_frandom_seed, traversal, select,
                   disturbed, alter, external>>

\* The handler returns; nobody looks at eng_ctx->sql again.
StatementOver(t) ==
    /\ Goto(t, "list")
    /\ sql' = [sql EXCEPT ![t] = NoSql]

\* mysql_select_db or mysql_real_query fails on the write server.
QueryFails(t) ==
    /\ At(t, "query")
    /\ StatementOver(t)
    /\ UNCHANGED <<proc, culprit, engine_frandom_seed, traversal, select,
                   disturbed, alter, external>>

\* A write that succeeded reaches every server.
Replicate(k, row) == db' = [s \in Servers |-> [db[s] EXCEPT ![k] = row[s]]]

Querying(t, cmd) == At(t, "query") /\ sql[t].cmd = cmd

\* Between the queries of a SELECT.
Selecting(t) == pc[t] \in {"absent", "verify", "verified"}

AfterWrite(t) ==
    /\ StatementOver(t)
    /\ disturbed' = [u \in Engines |->
           disturbed[u] \/ (u # t /\ Selecting(u) /\ Key(u) = Key(t))]
    /\ UNCHANGED <<proc, culprit, engine_frandom_seed, traversal, select, alter,
                   dbcols, diverged>>

\* insert into t values(...): as many values as columns, and a new key.
mysql_insert(t) ==
    /\ Querying(t, "INSERT")
    /\ Cardinality(dbcols) = sql[t].n
    /\ db[write_server[t]][Key(t)] = NoRow
    /\ \E row \in [dbcols -> Strings] :
          Replicate(Key(t), [s \in Servers |-> row])
    /\ AfterWrite(t)

mysql_delete(t) ==
    /\ Querying(t, "DELETE")
    /\ Replicate(Key(t), [s \in Servers |-> NoRow])
    /\ AfterWrite(t)

\* update t set <the columns of the statement>: known columns only; a missing
\* row is no error.
mysql_update(t) ==
    /\ Querying(t, "UPDATE")
    /\ Columns(sql[t].n) \subseteq dbcols
    /\ \E new \in [Columns(sql[t].n) -> Strings] :
          Replicate(Key(t), [s \in Servers |->
              LET row == db[s][Key(t)]
              IN IF row = NoRow THEN NoRow
                 ELSE [c \in dbcols |-> IF c \in DOMAIN new THEN new[c] ELSE row[c]]])
    /\ AfterWrite(t)

-----------------------------------------------------------------------------
(* mysql_select *)

Answer(s, t) ==
    LET row == db[s][Key(t)]
    IN IF row = NoRow THEN NoRow ELSE [c \in Columns(sql[t].n) |-> row[c]]

\* The write server answers.  No row: return 1, "this obj do not exist".
SelectWrite(t) ==
    /\ Querying(t, "SELECT")
    /\ Columns(sql[t].n) \subseteq dbcols
    /\ wrow' = [wrow EXCEPT ![t] = Answer(write_server[t], t)]
    /\ i' = [i EXCEPT ![t] = 1]
    /\ answered' = [answered EXCEPT ![t] = {}]
    /\ disturbed' = [disturbed EXCEPT ![t] = FALSE]
    /\ Goto(t, IF Answer(write_server[t], t) = NoRow THEN "absent" ELSE "verify")
    /\ UNCHANGED <<proc, culprit, engine_frandom_seed, traversal, sql, alter,
                   external>>

\* A read server cannot be asked: continue.
VerifySkip(t) ==
    /\ At(t, "verify")
    /\ i[t] <= Len(ReadSeq)
    /\ i' = [i EXCEPT ![t] = @ + 1]
    /\ UNCHANGED <<proc, culprit, engine_frandom_seed, pc, traversal, sql, wrow,
                   answered, disturbed, alter, external>>

\* strncmp(w, r, strlen(w)) = 0 for two strings.
SamePrefix(w, r) == Len(w) <= Len(r) /\ SubSeq(r, 1, Len(w)) = w

\* Mutant: strcmp, which dereferences both pointers.
CompareStrcmp(w, r) ==
    IF w = Null \/ r = Null THEN "fault" ELSE IF w = r THEN "equal" ELSE "abort"

\* strncmp(wrow[j], rrow[j], wlengths[j]); the length of Null is 0, and with
\* a length a Null pointer is dereferenced.
Compare(w, r) ==
    IF w = Null THEN "equal"
    ELSE IF r = Null THEN "fault"
    ELSE IF SamePrefix(w, r) THEN "equal" ELSE "abort"

\* Mutant: only the first field is compared.
CompareRowsFirst(w, r) ==
    IF r = NoRow THEN "abort"
    ELSE IF DOMAIN w = {} THEN "equal" ELSE Compare(w[0], r[0])

\* The first field that is not equal decides.
CompareRows(w, r) ==
    IF r = NoRow THEN "abort"
    ELSE LET differs == {c \in DOMAIN w : Compare(w[c], r[c]) # "equal"}
         IN IF differs = {} THEN "equal"
            ELSE LET first == CHOOSE c \in differs : \A d \in differs : c <= d
                 IN Compare(w[first], r[first])

\* A read server answers and its row is compared.
VerifyCompare(t) ==
    /\ At(t, "verify")
    /\ i[t] <= Len(ReadSeq)
    /\ Columns(sql[t].n) \subseteq dbcols
    /\ LET s == ReadSeq[i[t]]
           outcome == CompareRows(wrow[t], Answer(s, t))
       IN IF outcome = "equal"
          THEN /\ i' = [i EXCEPT ![t] = @ + 1]
               /\ answered' = [answered EXCEPT ![t] = @ \cup {s}]
               /\ UNCHANGED <<proc, culprit>>
          ELSE /\ proc' = IF outcome = "abort" THEN "aborted" ELSE "faulted"
               /\ culprit' = t
               /\ UNCHANGED <<i, answered>>
    /\ UNCHANGED <<engine_frandom_seed, pc, traversal, sql, wrow, disturbed,
                   alter, external>>

VerifyEnd(t) ==
    /\ At(t, "verify")
    /\ i[t] > Len(ReadSeq)
    /\ Goto(t, "verified")
    /\ UNCHANGED <<proc, culprit, engine_frandom_seed, traversal, sql, select,
                   disturbed, alter, external>>

\* mysql_select returns and the results are freed.
SelectReturns(t) ==
    /\ At(t, "absent") \/ At(t, "verified")
    /\ wrow' = [wrow EXCEPT ![t] = NoRow]
    /\ i' = [i EXCEPT ![t] = 1]
    /\ answered' = [answered EXCEPT ![t] = {}]
    /\ disturbed' = [disturbed EXCEPT ![t] = FALSE]
    /\ StatementOver(t)
    /\ UNCHANGED <<proc, culprit, engine_frandom_seed, traversal, alter,
                   external>>

-----------------------------------------------------------------------------
(* alter_thread *)

\* A SELECT in progress may see the servers before and after the change.
Disturb == disturbed' = [t \in Engines |-> Selecting(t)]

NotAltering ==
    UNCHANGED <<proc, culprit, engine_frandom_seed, pc, traversal, sql, select,
                diverged>>

\* Every row gains the column, with Null in it, or loses it.
WithColumns(cols) ==
    [s \in Servers |-> [k \in Keys |->
        IF db[s][k] = NoRow THEN NoRow
        ELSE [c \in cols |-> IF c \in dbcols THEN db[s][k][c] ELSE Null]]]

\* Mutant: is_table_schema_full is not asked.
AlterAddSchemaUnbounded ==
    /\ AlterAt("idle")
    /\ nalter < MaxAlters
    /\ nschema' = nschema + 1
    /\ nalter' = nalter + 1
    /\ apc' = "add"
    /\ UNCHANGED <<disturbed, db, dbcols>> /\ NotAltering

\* The column an ALTER names: the last of the client's schema.
alter_add_gen == nschema - 1
alter_drop_gen == nschema - 1

\* mysql_alter_add_table: add_table_data comes first ...
AlterAddSchema ==
    /\ AlterAt("idle")
    /\ nalter < MaxAlters
    /\ nschema < Capacity
    /\ nschema' = nschema + 1
    /\ nalter' = nalter + 1
    /\ apc' = "add"
    /\ UNCHANGED <<disturbed, db, dbcols>> /\ NotAltering

\* ... then the query ...
AlterAddQuery ==
    /\ AlterAt("add")
    /\ alter_add_gen \notin dbcols
    /\ dbcols' = dbcols \cup {alter_add_gen}
    /\ db' = WithColumns(dbcols \cup {alter_add_gen})
    /\ Disturb
    /\ apc' = "idle"
    /\ UNCHANGED <<nschema, nalter>> /\ NotAltering

\* ... whose failure leaves the column in the client's schema.
AlterAddFails ==
    /\ AlterAt("add")
    /\ apc' = "idle"
    /\ UNCHANGED <<nschema, nalter, disturbed, db, dbcols>> /\ NotAltering

\* mysql_alter_drop_table drops the last column if it was added ("col...") ...
AlterDropQuery ==
    /\ AlterAt("idle")
    /\ nalter < MaxAlters
    /\ nschema > ConfigCols
    /\ alter_drop_gen \in dbcols
    /\ dbcols' = dbcols \ {alter_drop_gen}
    /\ db' = WithColumns(dbcols \ {alter_drop_gen})
    /\ Disturb
    /\ nalter' = nalter + 1
    /\ apc' = "drop"
    /\ UNCHANGED nschema /\ NotAltering

\* ... and after the query removes it from the schema.
AlterDropSchema ==
    /\ AlterAt("drop")
    /\ nschema' = nschema - 1
    /\ apc' = "idle"
    /\ UNCHANGED <<nalter, disturbed, db, dbcols>> /\ NotAltering

-----------------------------------------------------------------------------
\* The fault: a server loses a row, keeps one, or holds other values.
Diverge(s, k) ==
    /\ Running
    /\ Cardinality(diverged) < MaxDiverge
    /\ \E row \in {NoRow} \cup [dbcols -> Strings] :
          /\ row # db[s][k]
          /\ db' = [db EXCEPT ![s][k] = row]
    /\ diverged' = diverged \cup {k}
    /\ Disturb
    /\ UNCHANGED <<proc, culprit, engine_frandom_seed, pc, traversal, sql,
                   select, alter, dbcols>>

Engine(t) ==
    \/ StartTraversal(t) \/ EndTraversal(t)
    \/ \E cmd \in Cmds : Gen(t, cmd)
    \/ QueryFails(t)
    \/ mysql_insert(t) \/ mysql_delete(t) \/ mysql_update(t)
    \/ SelectWrite(t) \/ VerifySkip(t) \/ VerifyCompare(t) \/ VerifyEnd(t)
    \/ SelectReturns(t)

Alter == AlterAddSchema \/ AlterAddQuery \/ AlterAddFails
         \/ AlterDropQuery \/ AlterDropSchema

\* The process has ended, or every traversal of the bound is over.
Over ==
    /\ ~Running \/ (engine_frandom_seed = MaxSeed /\ \A t \in Engines : pc[t] = "idle")
    /\ UNCHANGED vars

Next ==
    \/ \E t \in Engines : Engine(t)
    \/ Alter
    \/ \E s \in Servers, k \in Keys : Diverge(s, k)
    \/ Over

Spec == Init /\ [][Next]_vars

-----------------------------------------------------------------------------
\* Every variable holds a value of its type; the rows of the database have
\* the columns of the table.
TypeOK ==
    /\ proc \in {"running", "aborted", "faulted"}
    /\ culprit \in Engines \cup {NoThread}
    /\ engine_frandom_seed \in 0..MaxSeed
    /\ pc \in [Engines -> {"idle", "list", "query", "absent", "verify", "verified"}]
    /\ key_of \in KeyFuncs
    /\ seed_base \in [Engines -> 0..MaxSeed]
    /\ write_server \in [Engines -> WriteServers]
    /\ sql \in [Engines -> [cmd : Cmds, n : 0..Capacity]]
    /\ DOMAIN wrow = Engines
    /\ \A t \in Engines : wrow[t] \in {NoRow} \cup Rows(Columns(sql[t].n))
    /\ i \in [Engines -> 1..(Len(ReadSeq) + 1)]
    /\ answered \in [Engines -> SUBSET ReadServers]
    /\ disturbed \in [Engines -> BOOLEAN]
    /\ nschema \in ConfigCols..Capacity
    /\ apc \in {"idle", "add", "drop"} /\ nalter \in 0..MaxAlters
    /\ dbcols \subseteq Columns(Capacity)
    /\ db \in [Servers -> [Keys -> {NoRow} \cup Rows(dbcols)]]
    /\ diverged \subseteq Keys

\* checkQ aborts only over a row that a fault has touched, or over one whose
\* key another seed has as well: neither another engine's writes to its own
\* rows nor an ALTER between the queries of one SELECT raise a false alarm.
NoFalseAlarm ==
    proc = "aborted" =>
        \/ Key(culprit) \in diverged
        \/ \E s \in 1..engine_frandom_seed :
              s # seed_base[culprit] /\ key_of[s] = Key(culprit)

\* It crashes on a Null only when a fault, an ALTER or another engine's write
\* to the row came between the queries of one SELECT, or a fault had touched
\* the row.
FaultNeedsDisturbance ==
    proc = "faulted" => disturbed[culprit] \/ Key(culprit) \in diverged

Agrees(w, row) ==
    /\ row # NoRow
    /\ \A c \in DOMAIN w : w[c] = Null \/ (row[c] # Null /\ SamePrefix(w[c], row[c]))

\* When a SELECT has passed undisturbed, every read server that answered
\* still holds the row, each value beginning with the write server's.
PassedMeansAgreed ==
    \A t \in Engines :
        pc[t] = "verified" /\ ~disturbed[t]
            => \A s \in answered[t] : Agrees(wrow[t], db[s][Key(t)])

\* When a SELECT has passed undisturbed, every read server that answered
\* holds the values of the write server.
PassedMeansConsistent ==
    \A t \in Engines :
        pc[t] = "verified" /\ ~disturbed[t]
            => \A s \in answered[t] : Answer(s, t) = wrow[t]
=============================================================================
