---------------------------- MODULE SchemaProofs ----------------------------
(***************************************************************************)
(* Schema for any number of engine threads, tables, blocks, columns and    *)
(* statements: whatever the interleaving, only a DROP makes a reader meet  *)
(* a block that is gone, the heap and the schema agree between two ALTERs, *)
(* a single table keeps its schema's columns, and configured ones stay.    *)
(***************************************************************************)
EXTENDS Schema, SequenceTheorems, TLAPS

\* Not after clean_env.
Live == proc # "exited"

\* A statement has a table and stays within the columns it counted.
ReaderInv ==
    \A r \in Readers :
        /\ i[r] <= n[r]
        /\ pc[r] = "use" => i[r] < n[r]
        /\ pc[r] # "idle" => target[r] \in Tables
        /\ pc[r] = "idle" => sql[r] = <<>>
        /\ Len(sql[r]) = i[r]

\* Before the count of a new column its block is in no slot of the schema;
\* after the DROP has freed one, the last slot dangles until it is counted
\* off.  Otherwise slots and allocated blocks correspond.
SlotsInv ==
    /\ apc # "idle" => atable \in tables
    /\ apc \in {"store", "count"} =>
          /\ nschema < Capacity /\ Valid(adata)
          /\ \A k \in 0..(nschema - 1) : slots[k] # adata
    /\ apc = "count" => slots[nschema] = adata
    /\ apc \in {"add", "drop", "freed"} => nschema > 0
    /\ \A j, k \in 0..(nschema - 1) : slots[j] = slots[k] => j = k
    /\ \A k \in 0..(nschema - 1) :
          /\ slots[k] \in Data
          /\ heap[slots[k]] = Free <=> apc = "freed" /\ k = nschema - 1
    /\ \A d \in Data : heap[d] # Free =>
          \/ \E k \in 0..(nschema - 1) : slots[k] = d
          \/ apc \in {"store", "count"} /\ d = adata

\* The columns a reader has counted, without the one that was being dropped
\* when it counted them; and those of the schema that are whole.
Sure(r) == IF dropMet[r] = "mid" THEN n[r] - 1 ELSE n[r]
Whole == IF apc = "freed" THEN nschema - 1 ELSE nschema

\* A reader that no DROP has overtaken has only slots of the schema before it,
\* but for the one column it should not have counted.
CrashInv ==
    \A r \in Readers :
        pc[r] # "idle" /\ dropMet[r] # "since" =>
            /\ Sure(r) <= Whole
            /\ \A k \in 1..Len(sql[r]) : sql[r][k] = Garbage => k > Sure(r)
            /\ pc[r] = "use" /\ i[r] < Sure(r) => pdata[r] = slots[i[r]]

\* Nothing is altered before there is a table; the database keeps the columns
\* of a table apart.
TablesInv ==
    /\ tables = {} => apc = "idle" /\ \A r \in Readers : ~alteredSince[r]
    /\ \A t \in Tables : IsInjective(dbcols[t])
    /\ \A t \in Tables \ tables : dbcols[t] = <<>>

\* A statement that no ALTER runs beside copies the names of the schema.
CopyInv ==
    \A r \in Readers :
        pc[r] # "idle" /\ ~alteredSince[r] =>
            /\ apc = "idle" /\ n[r] = nschema
            /\ pc[r] = "use" => pdata[r] = slots[i[r]]
            /\ pc[r] = "query" => i[r] = n[r]
            /\ Len(sql[r]) = i[r]
            /\ \A k \in 1..i[r] : sql[r][k] = heap[slots[k - 1]]

\* The columns that the schema and the database agree on while one changes
\* after the other.
Agreed == IF apc \in {"add", "drop", "freed"} THEN nschema - 1 ELSE nschema

\* A table that is the only one has these columns.
FitInv ==
    \A t \in Tables :
        tables = {t} /\ ~addFailed =>
            /\ Len(dbcols[t]) = Agreed
            /\ \A k \in 1..Agreed : dbcols[t][k] = heap[slots[k - 1]]

\* A DROP in progress is of a column after the protected ones.
ConfigInv ==
    \A j \in 1..Len(config) :
        config[j][1] # "col" =>
            /\ j <= (IF apc \in {"drop", "freed"} THEN nschema - 1 ELSE nschema)
            /\ \A k \in 1..j : heap[slots[k - 1]] = config[k]

\* The thread that crashed had been overtaken by a DROP, or was at the column
\* it should not have counted.
FaultInv ==
    \A r \in Readers :
        proc = "faulted" /\ culprit = r =>
            pc[r] = "use" /\ (dropMet[r] = "since" \/ i[r] >= Sure(r))

IInv ==
    /\ TypeOK /\ ReaderInv /\ FaultInv
    /\ Live => SlotsInv /\ CrashInv /\ TablesInv /\ CopyInv /\ FitInv /\ ConfigInv
    /\ proc = "exited" => /\ tables = {}
                          /\ \A r \in Readers : pc[r] = "idle"
                          /\ \A d \in Data : heap[d] = Free

-----------------------------------------------------------------------------
(* What a step leaves alone *)

\* A reader changes nothing of the schema, nor another reader.
LEMMA StepOfReader ==
    ASSUME TypeOK, NEW r \in Readers, Generate(r) \/ (r = Creator /\ CreateTable)
    PROVE  /\ proc = "running" /\ proc' \in {"running", "faulted"}
           /\ UNCHANGED <<schema, alter, addFailed>> /\ tables \subseteq tables'
           /\ \A u \in Readers \ {r} :
                 /\ pc'[u] = pc[u] /\ sql'[u] = sql[u] /\ n'[u] = n[u] /\ i'[u] = i[u]
                 /\ pdata'[u] = pdata[u] /\ target'[u] = target[u]
                 /\ alteredSince'[u] = alteredSince[u] /\ dropMet'[u] = dropMet[u]
  <1> USE DEF TypeOK, At, history, reader
  <1>1. CASE \E t \in Targets(r) : GenStart(r, t)
    BY <1>1 DEF GenStart
  <1>2. CASE GenLoad(r) \/ GenEnd(r)
    BY <1>2 DEF GenLoad, GenEnd
  <1>3. CASE GenUse(r) \/ GenUseGarbage(r)
    BY <1>3 DEF GenUse, GenUseGarbage, AddColumn
  <1>4. CASE GenUseFaults(r)
    BY <1>4 DEF GenUseFaults
  <1>5. CASE QueryOver(r)
    BY <1>5 DEF QueryOver, Over
  <1>6. CASE r = Creator /\ CreateTable
    BY <1>6 DEF CreateTable, Over
  <1>7. QED
    BY <1>1, <1>2, <1>3, <1>4, <1>5, <1>6 DEF Generate

\* The alter thread changes no reader's state but its history.
LEMMA StepOfAlter ==
    ASSUME Alter
    PROVE  /\ proc = "running" /\ UNCHANGED <<proc, culprit, config, tables, reader>>
  BY DEF Alter, add_table_data, AlterDropQuery, AlterDropFails, StartAlter, schema_add,
         AddRefused, StoreSlot, CountSlot, AlterAddQuery, AlterAddFails,
         drop_table_data_free, drop_table_data_count, AlterAt, AlterRest

\* add_table_data asked is_table_schema_full, and nobody else adds columns:
\* schema_add is not refused.
LEMMA SchemaAddCases ==
    ASSUME SlotsInv, TypeOK, schema_add
    PROVE  \/ AlterAt("store") /\ StoreSlot(nschema, "count")
           \/ AlterAt("count") /\ CountSlot("add")
  <1>1. apc = "store" => nschema # Capacity
    BY SchemaBounds DEF SlotsInv, TypeOK
  <1>2. QED
    BY <1>1 DEF schema_add, AlterAt

\* A step is one of these.
LEMMA NextCases ==
    ASSUME Next
    PROVE  \/ \E r \in Readers : Generate(r) \/ (r = Creator /\ CreateTable)
           \/ Alter \/ clean_env \/ UNCHANGED vars
  <1>1. Creator \in Readers
    BY DEF Readers
  <1>2. QED
    BY <1>1 DEF Next, Ended

-----------------------------------------------------------------------------
(* Types *)

LEMMA BoundsType == Capacity \in Nat /\ MaxAlters \in Nat /\ MaxStatements \in Nat
  BY SchemaBounds

\* A column taken from the heap has a name.
LEMMA ValidName ==
    ASSUME TypeOK, NEW d, Valid(d)
    PROVE  d \in Data /\ heap[d] \in Names
  BY DEF TypeOK, Valid

LEMMA LastColumnName ==
    ASSUME TypeOK, SlotsInv, nschema > 0, apc # "freed"
    PROVE  /\ slots[nschema - 1] \in Data /\ heap[slots[nschema - 1]] # Free
           /\ LastColumn \in Names
  <1>1. nschema - 1 \in 0..(nschema - 1)
    BY BoundsType DEF TypeOK
  <1>2. slots[nschema - 1] \in Data /\ heap[slots[nschema - 1]] # Free
    BY <1>1 DEF SlotsInv
  <1>3. QED
    BY <1>2 DEF TypeOK, LastColumn

LEMMA RemoveAtType ==
    ASSUME NEW S, NEW s \in Seq(S), NEW k \in 1..Len(s)
    PROVE  /\ RemoveAt(s, k) \in Seq(S)
           /\ Len(RemoveAt(s, k)) = Len(s) - 1
           /\ \A j \in 1..(Len(s) - 1) :
                 RemoveAt(s, k)[j] = IF j < k THEN s[j] ELSE s[j + 1]
  <1> DEFINE a == SubSeq(s, 1, k - 1)
             b == SubSeq(s, k + 1, Len(s))
  <1>1. /\ a \in Seq(S) /\ Len(a) = k - 1
        /\ \A j \in 1..(k - 1) : a[j] = s[j]
    BY SubSeqProperties
  <1>2. /\ b \in Seq(S) /\ Len(b) = Len(s) - k
        /\ \A j \in 1..(Len(s) - k) : b[j] = s[k + j]
    BY SubSeqProperties
  <1> HIDE DEF a, b
  <1>3. a \o b \in Seq(S) /\ Len(a \o b) = Len(s) - 1
    <2>1. a \o b \in Seq(S) /\ Len(a \o b) = Len(a) + Len(b)
      BY <1>1, <1>2, ConcatProperties
    <2>2. QED
      BY <1>1, <1>2, <2>1
  <1>4. ASSUME NEW j \in 1..(Len(s) - 1)
        PROVE  (a \o b)[j] = IF j < k THEN s[j] ELSE s[j + 1]
    <2>1. CASE j < k
      BY <1>1, <1>2, <2>1
    <2>2. CASE ~(j < k)
      <3>1. /\ j - (k - 1) \in 1..(Len(s) - k) /\ k + (j - (k - 1)) = j + 1
            /\ ~(j <= k - 1)
        BY <2>2
      <3>2. (a \o b)[j] = b[j - (k - 1)]
        BY <1>1, <1>2, <2>2, <3>1
      <3>3. b[j - (k - 1)] = s[j + 1]
        BY <1>2, <3>1
      <3>4. QED
        BY <2>2, <3>2, <3>3
    <2>3. QED
      BY <2>1, <2>2
  <1>5. QED
    BY <1>3, <1>4 DEF RemoveAt, a, b

LEMMA TypeReader ==
    ASSUME IInv, NEW r \in Readers, Generate(r) \/ (r = Creator /\ CreateTable)
    PROVE  TypeOK'
  <1>0. TypeOK /\ ReaderInv
    BY DEF IInv
  <1> USE <1>0, BoundsType DEF TypeOK, ReaderInv, At, schema, reader, alter, history
  <1>1. CASE \E t \in Targets(r) : GenStart(r, t)
    <2>1. PICK t \in Targets(r) : GenStart(r, t)
      BY <1>1
    <2>2. t \in Tables
      BY DEF Targets
    <2>3. nstmt[r] + 1 \in 0..MaxStatements
      BY <2>1 DEF GenStart
    <2>4. /\ nstmt' \in [Readers -> 0..MaxStatements]
          /\ target' \in [Readers -> Tables \cup {NoTable}]
          /\ n' \in [Readers -> 0..Capacity] /\ i' \in [Readers -> 0..Capacity]
      BY <2>1, <2>2, <2>3 DEF GenStart
    <2>5. /\ sql' \in [Readers -> Seq(Columns)]
          /\ pc' \in [Readers -> {"idle", "load", "use", "query"}]
      BY <2>1 DEF GenStart
    <2>6. alteredSince' \in [Readers -> BOOLEAN] /\ dropMet' \in [Readers -> {"none", "mid", "since"}]
      BY <2>1 DEF GenStart
    <2>7. QED
      BY <2>1, <2>4, <2>5, <2>6 DEF GenStart
  <1>2. CASE GenLoad(r)
    BY <1>2 DEF GenLoad
  <1>3. ASSUME NEW c \in Columns, AddColumn(r, c), pc[r] = "use" PROVE TypeOK'
    <2>1. i[r] + 1 \in 0..Capacity
      BY <1>3
    <2>2. Append(sql[r], c) \in Seq(Columns)
      OBVIOUS
    <2>3. QED
      BY <1>3, <2>1, <2>2 DEF AddColumn
  <1>4. CASE GenUse(r)
    BY <1>3, <1>4, ValidName DEF GenUse, Columns
  <1>5. CASE GenUseGarbage(r)
    BY <1>3, <1>5 DEF GenUseGarbage, Columns
  <1>6. CASE GenUseFaults(r)
    BY <1>6 DEF GenUseFaults
  <1>7. CASE GenEnd(r)
    BY <1>7 DEF GenEnd
  <1>8. ASSUME Over(r), tables' \subseteq Tables, dbcols' \in [Tables -> Seq(Columns)]
        PROVE  TypeOK'
    <2>1. /\ pc' \in [Readers -> {"idle", "load", "use", "query"}]
          /\ sql' \in [Readers -> Seq(Columns)]
          /\ n' \in [Readers -> 0..Capacity] /\ i' \in [Readers -> 0..Capacity]
      BY <1>8 DEF Over
    <2>2. /\ target' \in [Readers -> Tables \cup {NoTable}]
          /\ alteredSince' \in [Readers -> BOOLEAN] /\ dropMet' \in [Readers -> {"none", "mid", "since"}]
      BY <1>8 DEF Over
    <2>3. QED
      BY <1>8, <2>1, <2>2 DEF Over
  <1>9. CASE QueryOver(r)
    BY <1>8, <1>9 DEF QueryOver
  <1>10. CASE r = Creator /\ CreateTable
    <2>1. target[Creator] \in Tables
      BY <1>10 DEF CreateTable
    <2>2. dbcols' \in [Tables -> Seq(Columns)] /\ tables' \subseteq Tables
      BY <1>10, <2>1 DEF CreateTable
    <2>3. QED
      BY <1>8, <1>10, <2>2 DEF CreateTable
  <1>11. QED
    BY <1>1, <1>2, <1>4, <1>5, <1>6, <1>7, <1>9, <1>10 DEF Generate

LEMMA TypeAlter ==
    ASSUME IInv, Alter
    PROVE  TypeOK'
  <1>0. TypeOK /\ SlotsInv
    BY StepOfAlter DEF IInv, Live
  <1> USE <1>0, BoundsType DEF TypeOK, AlterAt, AlterRest, history, alter
  <1>1. ASSUME NEW t \in tables, StartAlter(t)
        PROVE  /\ nalter' \in 0..MaxAlters /\ atable' \in Tables
               /\ alteredSince' \in [Readers -> BOOLEAN]
    BY <1>1 DEF StartAlter
  <1>2. ASSUME NEW t \in tables, add_table_data(t) PROVE TypeOK'
    <2>1. <<"col", nschema>> \in Names
      BY <1>2 DEF add_table_data, is_table_schema_full, Names
    <2>2. heap' \in [Data -> Names \cup {Free}] /\ adata' \in Data
      BY <1>2, <2>1 DEF add_table_data
    <2>3. QED
      BY <1>1, <1>2, <2>2 DEF add_table_data, reader
  <1>3. ASSUME schema_add PROVE TypeOK'
    <2>1. CASE AlterAt("store") /\ StoreSlot(nschema, "count")
      BY <2>1 DEF StoreSlot, SlotsInv, Valid, reader
    <2>2. CASE AlterAt("count") /\ CountSlot("add")
      BY <2>2 DEF CountSlot, SlotsInv, reader
    <2>3. QED
      BY <1>3, <2>1, <2>2, SchemaAddCases
  <1>4. ASSUME AlterAddQuery PROVE TypeOK'
    <2>1. LastColumn \in Columns
      BY <1>4, LastColumnName DEF AlterAddQuery, SlotsInv, Columns
    <2>2. Append(dbcols[atable], LastColumn) \in Seq(Columns)
      BY <1>4, <2>1 DEF AlterAddQuery, SlotsInv
    <2>3. dbcols' \in [Tables -> Seq(Columns)]
      BY <1>4, <2>2 DEF AlterAddQuery
    <2>4. QED
      BY <1>4, <2>3 DEF AlterAddQuery, EndAlter, reader
  <1>5. ASSUME AlterAddFails PROVE TypeOK'
    BY <1>5 DEF AlterAddFails, EndAlter, reader
  <1>6. ASSUME NEW t \in tables, AlterDropQuery(t) PROVE TypeOK'
    <2>1. PICK k \in DOMAIN dbcols[t] : dbcols' = [dbcols EXCEPT ![t] = RemoveAt(@, k)]
      BY <1>6 DEF AlterDropQuery
    <2>2. RemoveAt(dbcols[t], k) \in Seq(Columns)
      <3>1. dbcols[t] \in Seq(Columns) /\ k \in 1..Len(dbcols[t])
        BY <2>1
      <3>2. QED
        BY <3>1, RemoveAtType
    <2>3. dbcols' \in [Tables -> Seq(Columns)]
      BY <2>1, <2>2
    <2>4. QED
      BY <1>1, <1>6, <2>3 DEF AlterDropQuery, reader
  <1>7. ASSUME NEW t \in tables, AlterDropFails(t) PROVE TypeOK'
    BY <1>1, <1>7 DEF AlterDropFails, reader
  <1>8. ASSUME drop_table_data_free PROVE TypeOK'
    <2>1. dropMet' \in [Readers -> {"none", "mid", "since"}]
      BY <1>8 DEF drop_table_data_free
    <2>2. heap' \in [Data -> Names \cup {Free}]
      BY <1>8 DEF drop_table_data_free
    <2>3. QED
      BY <1>8, <2>1, <2>2 DEF drop_table_data_free, reader
  <1>9. ASSUME drop_table_data_count PROVE TypeOK'
    BY <1>9 DEF drop_table_data_count, EndAlter, SlotsInv, reader
  <1>10. QED
    BY <1>2, <1>3, <1>4, <1>5, <1>6, <1>7, <1>8, <1>9 DEF Alter

\* Each action keeps every variable in its type.
LEMMA TypeStep == IInv /\ [Next]_vars => TypeOK'
  <1> SUFFICES ASSUME IInv, [Next]_vars PROVE TypeOK'
    OBVIOUS
  <1>1. ASSUME clean_env PROVE TypeOK'
    <2>1. heap' \in [Data -> Names \cup {Free}]
      BY <1>1 DEF clean_env, IInv, TypeOK
    <2>2. QED
      BY <1>1, <2>1 DEF clean_env, IInv, TypeOK, reader, alter, history
  <1>2. ASSUME UNCHANGED vars PROVE TypeOK'
    BY <1>2 DEF vars, IInv, TypeOK, schema, reader, alter, history
  <1>3. QED
    BY <1>1, <1>2, TypeReader, TypeAlter, NextCases

-----------------------------------------------------------------------------
(* Readers *)

LEMMA ReaderStep == IInv /\ [Next]_vars => ReaderInv'
  <1> SUFFICES ASSUME IInv, [Next]_vars PROVE ReaderInv'
    OBVIOUS
  <1>0. TypeOK /\ ReaderInv
    BY DEF IInv
  <1> USE <1>0 DEF ReaderInv
  <1>1. ASSUME NEW r \in Readers, Generate(r) \/ (r = Creator /\ CreateTable)
        PROVE  ReaderInv'
    <2> SUFFICES /\ i'[r] <= n'[r]
                 /\ pc'[r] = "use" => i'[r] < n'[r]
                 /\ pc'[r] # "idle" => target'[r] \in Tables
                 /\ pc'[r] = "idle" => sql'[r] = <<>>
                 /\ Len(sql'[r]) = i'[r]
      BY <1>1, StepOfReader
    <2> USE BoundsType DEF TypeOK, At, reader
    <2>1. CASE \E t \in Targets(r) : GenStart(r, t)
      BY <2>1 DEF GenStart, Targets
    <2>2. CASE GenLoad(r) \/ GenEnd(r)
      BY <2>2 DEF GenLoad, GenEnd
    <2>3. CASE GenUse(r) \/ GenUseGarbage(r)
      BY <2>3 DEF GenUse, GenUseGarbage, AddColumn
    <2>4. CASE GenUseFaults(r)
      BY <2>4 DEF GenUseFaults
    <2>5. CASE QueryOver(r) \/ (r = Creator /\ CreateTable)
      BY <2>5 DEF QueryOver, CreateTable, Over
    <2>6. QED
      BY <1>1, <2>1, <2>2, <2>3, <2>4, <2>5 DEF Generate
  <1>2. ASSUME UNCHANGED reader PROVE ReaderInv'
    BY <1>2 DEF reader
  <1>3. QED
    BY <1>1, <1>2, StepOfAlter, NextCases DEF clean_env, vars

-----------------------------------------------------------------------------
(* The schema and the heap *)

LEMMA SlotsAlter ==
    ASSUME IInv, Alter
    PROVE  SlotsInv'
  <1>0. TypeOK /\ SlotsInv /\ nschema \in Nat /\ UNCHANGED tables
    BY StepOfAlter, BoundsType DEF IInv, Live, TypeOK
  <1> USE <1>0, BoundsType DEF AlterAt, AlterRest, Valid
  <1>1. ASSUME NEW t \in tables, add_table_data(t) PROVE SlotsInv'
    <2>1. PICK d \in Data :
             /\ heap[d] = Free /\ adata' = d
             /\ heap' = [heap EXCEPT ![d] = <<"col", nschema>>]
      BY <1>1 DEF add_table_data
    <2>2. /\ apc = "idle" /\ apc' = "store" /\ nschema < Capacity
          /\ UNCHANGED <<slots, nschema>> /\ atable' \in tables'
      BY <1>1 DEF add_table_data, StartAlter, is_table_schema_full
    <2>3. \A k \in 0..(nschema - 1) : slots[k] \in Data /\ slots[k] # d
      BY <2>1, <2>2 DEF SlotsInv
    <2>4. heap'[d] # Free /\ \A e \in Data \ {d} : heap'[e] = heap[e]
      BY <2>1, <2>2, ConfigAssumption DEF TypeOK, Names
    <2>5. QED
      BY <2>1, <2>2, <2>3, <2>4 DEF SlotsInv
  <1>2. ASSUME AlterAt("store"), StoreSlot(nschema, "count") PROVE SlotsInv'
    BY <1>2 DEF StoreSlot, SlotsInv, TypeOK
  <1>3. ASSUME AlterAt("count"), CountSlot("add") PROVE SlotsInv'
    <2>1. /\ apc = "count" /\ apc' = "add" /\ nschema' = nschema + 1
          /\ UNCHANGED <<slots, heap, atable, adata>>
      BY <1>3 DEF CountSlot
    <2>2. /\ slots[nschema] = adata /\ Valid(adata)
          /\ \A k \in 0..(nschema - 1) : slots[k] # adata /\ Valid(slots[k])
      BY <2>1 DEF SlotsInv
    <2>3. \A j, k \in 0..nschema : slots[j] = slots[k] => j = k
      BY <2>2 DEF SlotsInv
    <2>4. \A k \in 0..nschema : Valid(slots[k])
      BY <2>2
    <2>5. \A d \in Data : heap[d] # Free => \E k \in 0..nschema : slots[k] = d
      BY <2>1, <2>2 DEF SlotsInv
    <2>6. QED
      BY <2>1, <2>3, <2>4, <2>5 DEF SlotsInv
  <1>4. ASSUME AlterAddQuery \/ AlterAddFails PROVE SlotsInv'
    BY <1>4 DEF AlterAddQuery, AlterAddFails, EndAlter, SlotsInv
  <1>5. ASSUME NEW t \in tables, AlterDropQuery(t) PROVE SlotsInv'
    BY <1>5 DEF AlterDropQuery, StartAlter, MayDrop, SlotsInv
  <1>6. ASSUME NEW t \in tables, AlterDropFails(t) PROVE SlotsInv'
    BY <1>6 DEF AlterDropFails, StartAlter, SlotsInv
  <1>7. ASSUME drop_table_data_free PROVE SlotsInv'
    <2>1. /\ apc = "drop" /\ apc' = "freed" /\ nschema > 0
          /\ UNCHANGED <<slots, nschema, atable, adata>>
          /\ heap' = [heap EXCEPT ![slots[nschema - 1]] = Free]
          /\ nschema - 1 \in 0..(nschema - 1)
      BY <1>7 DEF drop_table_data_free, SlotsInv
    <2>2. \A k \in 0..(nschema - 1) :
             /\ slots[k] \in Data
             /\ heap'[slots[k]] = Free <=> k = nschema - 1
      BY <2>1 DEF SlotsInv, TypeOK
    <2>3. \A d \in Data : heap'[d] # Free => heap[d] # Free
      BY <2>1 DEF TypeOK
    <2>4. QED
      BY <2>1, <2>2, <2>3 DEF SlotsInv
  <1>8. ASSUME drop_table_data_count PROVE SlotsInv'
    BY <1>8 DEF drop_table_data_count, EndAlter, SlotsInv
  <1>9. QED
    BY <1>1, <1>2, <1>3, <1>4, <1>5, <1>6, <1>7, <1>8, SchemaAddCases DEF Alter

LEMMA SlotsStep == IInv /\ [Next]_vars /\ Live' => SlotsInv'
  <1> SUFFICES ASSUME IInv, [Next]_vars, Live' PROVE SlotsInv'
    OBVIOUS
  <1>1. ASSUME NEW r \in Readers, Generate(r) \/ (r = Creator /\ CreateTable)
        PROVE  SlotsInv'
    <2>1. /\ SlotsInv /\ UNCHANGED <<schema, alter>> /\ tables \subseteq tables'
      BY <1>1, StepOfReader DEF IInv, Live
    <2>2. QED
      BY <2>1 DEF SlotsInv, Valid, schema, alter
  <1>2. ASSUME UNCHANGED vars PROVE SlotsInv'
    BY <1>2 DEF IInv, Live, SlotsInv, Valid, vars, schema, alter
  <1>3. QED
    BY <1>1, <1>2, SlotsAlter, NextCases DEF clean_env, Live

\* A reader meets a block that is gone only after a DROP, or at the column it
\* should not have counted.
LEMMA ReadsValid ==
    ASSUME IInv, NEW r \in Readers, At(r, "use"), dropMet[r] # "since", i[r] < Sure(r)
    PROVE  Valid(pdata[r])
  <1>1. /\ TypeOK /\ SlotsInv /\ CrashInv /\ pc[r] = "use"
        /\ nschema \in Nat /\ i[r] \in Nat /\ n[r] \in Nat
    BY BoundsType DEF IInv, Live, At, TypeOK
  <1>2. pdata[r] = slots[i[r]] /\ Sure(r) <= Whole
    BY <1>1 DEF CrashInv
  <1>3. i[r] \in 0..(nschema - 1) /\ ~(apc = "freed" /\ i[r] = nschema - 1)
    BY <1>1, <1>2 DEF Sure, Whole
  <1>4. QED
    BY <1>1, <1>2, <1>3 DEF SlotsInv, Valid

LEMMA CrashReader ==
    ASSUME IInv, NEW r \in Readers, Generate(r) \/ (r = Creator /\ CreateTable)
    PROVE  CrashInv' /\ FaultInv'
  <1>0. /\ TypeOK /\ ReaderInv /\ CrashInv /\ FaultInv /\ SlotsInv
        /\ proc = "running" /\ UNCHANGED <<schema, alter>>
    BY StepOfReader DEF IInv, Live
  <1> DEFINE Sound == /\ Sure(r)' <= Whole'
                      /\ \A k \in 1..Len(sql'[r]) : sql'[r][k] = Garbage => k > Sure(r)'
                      /\ pc'[r] = "use" /\ i'[r] < Sure(r)' => pdata'[r] = slots'[i'[r]]
             Goal == /\ pc'[r] # "idle" /\ dropMet'[r] # "since" => Sound
                     /\ proc' = "faulted" =>
                           /\ culprit' = r /\ pc'[r] = "use"
                           /\ dropMet'[r] = "since" \/ i'[r] >= Sure(r)'
  <1>1. SUFFICES Goal
    <2>1. ASSUME Goal PROVE CrashInv'
      BY <1>0, <2>1, StepOfReader DEF CrashInv, Sure, Whole, schema, alter
    <2>2. ASSUME Goal PROVE FaultInv'
      <3>1. ASSUME NEW u \in Readers, proc' = "faulted", culprit' = u
            PROVE  pc'[u] = "use" /\ (dropMet'[u] = "since" \/ i'[u] >= Sure(u)')
        <4>1. u = r /\ pc'[r] = "use" /\ (dropMet'[r] = "since" \/ i'[r] >= Sure(r)')
          BY <2>2, <3>1
        <4>2. QED
          BY <4>1 DEF Sure
      <3>2. QED
        BY <3>1 DEF FaultInv
    <2>3. QED
      BY <2>1, <2>2
  <1>2. /\ n[r] \in Nat /\ i[r] \in Nat /\ nschema \in Nat /\ sql[r] \in Seq(Columns)
        /\ pc \in [Readers -> {"idle", "load", "use", "query"}]
        /\ sql \in [Readers -> Seq(Columns)]
    BY <1>0, BoundsType DEF TypeOK
  <1>a. Whole' = Whole
    BY <1>0 DEF Whole, schema, alter
  <1> USE <1>0, <1>2 DEF At, schema, reader, alter, history
  <1>3. CASE \E t \in Targets(r) : GenStart(r, t)
    <2>1. PICK t \in Targets(r) : GenStart(r, t)
      BY <1>3
    <2>2. /\ proc' = "running" /\ pc'[r] = "load" /\ n'[r] = nschema /\ sql'[r] = <<>>
          /\ UNCHANGED <<nschema, apc>>
          /\ dropMet'[r] = IF apc = "freed" THEN "mid" ELSE "none"
      BY <2>1 DEF GenStart, TypeOK
    <2>3. Sure(r)' <= Whole'
      BY <2>2 DEF Sure, Whole
    <2>4. QED
      BY <2>2, <2>3
  <1>4. CASE GenLoad(r) \/ GenEnd(r)
    <2>1. /\ UNCHANGED <<proc, culprit, sql, n, i, dropMet, slots>> /\ pc[r] # "idle"
          /\ pc'[r] = "use" => pdata'[r] = slots[i[r]]
      BY <1>4 DEF GenLoad, GenEnd, TypeOK
    <2>2. Sure(r)' = Sure(r)
      BY <2>1 DEF Sure
    <2>3. QED
      BY <1>a, <2>1, <2>2 DEF CrashInv
  <1>5. ASSUME NEW c \in Columns, AddColumn(r, c), pc[r] = "use",
               c = Garbage /\ dropMet[r] # "since" => i[r] >= Sure(r)
        PROVE  Goal
    <2>1. /\ UNCHANGED <<proc, n, dropMet, slots>> /\ pc'[r] = "load"
          /\ sql'[r] = Append(sql[r], c)
      BY <1>5 DEF AddColumn
    <2>2. Sure(r)' = Sure(r) /\ Sure(r) \in Int
      BY <2>1 DEF Sure
    <2>3. ASSUME dropMet[r] # "since", NEW k \in 1..Len(sql'[r]), sql'[r][k] = Garbage
          PROVE  k > Sure(r)
      <3>1. Len(sql[r]) = i[r] /\ Len(sql'[r]) = i[r] + 1
        BY <2>1 DEF ReaderInv
      <3>2. CASE k \in 1..Len(sql[r])
        BY <1>5, <2>1, <2>3, <3>2 DEF CrashInv
      <3>3. CASE k = i[r] + 1
        <4>1. c = Garbage
          BY <2>1, <2>3, <3>1, <3>3
        <4>2. QED
          BY <1>5, <2>2, <2>3, <3>3, <4>1
      <3>4. QED
        BY <3>1, <3>2, <3>3
    <2>4. dropMet[r] # "since" => Sure(r)' <= Whole'
      BY <1>a, <1>5, <2>2 DEF CrashInv
    <2>5. QED
      BY <2>1, <2>2, <2>3, <2>4
  <1>6. CASE GenUse(r)
    <2>1. heap[pdata[r]] # Garbage /\ heap[pdata[r]] \in Columns
      BY <1>6, ValidName, ConfigAssumption DEF GenUse, Columns
    <2>2. QED
      BY <1>5, <1>6, <2>1 DEF GenUse
  <1>7. ASSUME At(r, "use"), ~Valid(pdata[r]), dropMet[r] # "since"
        PROVE  i[r] >= Sure(r)
    <2>1. Sure(r) \in Int
      BY DEF Sure
    <2>2. ~(i[r] < Sure(r))
      BY <1>7, ReadsValid
    <2>3. QED
      BY <2>1, <2>2
  <1>8. CASE GenUseGarbage(r)
    BY <1>5, <1>7, <1>8 DEF GenUseGarbage, Columns
  <1>9. CASE GenUseFaults(r)
    <2>1. /\ UNCHANGED <<pc, sql, n, i, pdata, dropMet, slots>> /\ proc' = "faulted"
          /\ culprit' = r /\ pc[r] = "use"
      BY <1>9 DEF GenUseFaults
    <2>2. Sure(r)' = Sure(r)
      BY <2>1 DEF Sure
    <2>3. dropMet[r] # "since" => i[r] >= Sure(r)
      BY <1>7, <1>9 DEF GenUseFaults
    <2>4. QED
      BY <1>a, <2>1, <2>2, <2>3 DEF CrashInv
  <1>10. CASE QueryOver(r) \/ (r = Creator /\ CreateTable)
    BY <1>10 DEF QueryOver, CreateTable, Over
  <1>11. QED
    BY <1>3, <1>4, <1>6, <1>8, <1>9, <1>10 DEF Generate

LEMMA CrashAlter ==
    ASSUME IInv, Alter
    PROVE  CrashInv' /\ FaultInv'
  <1>0. /\ TypeOK /\ ReaderInv /\ SlotsInv /\ CrashInv
        /\ UNCHANGED <<proc, culprit, reader>> /\ proc = "running"
    BY StepOfAlter DEF IInv, Live
  <1>1. FaultInv'
    BY <1>0 DEF FaultInv
  <1> SUFFICES ASSUME NEW r \in Readers, pc[r] # "idle", dropMet'[r] # "since"
               PROVE  /\ dropMet'[r] = dropMet[r]
                      /\ Sure(r) <= Whole'
                      /\ i[r] < Sure(r) => slots'[i[r]] = slots[i[r]]
    BY <1>0, <1>1 DEF CrashInv, Sure, reader
  <1>2. /\ n[r] \in Nat /\ i[r] \in Nat /\ nschema \in Nat
        /\ Sure(r) \in Int
    BY <1>0, BoundsType DEF TypeOK, Sure
  <1>3. ~drop_table_data_free
    BY DEF drop_table_data_free
  <1>4. UNCHANGED dropMet
    BY <1>3 DEF Alter, add_table_data, AlterDropQuery, AlterDropFails, schema_add,
                AddRefused, StoreSlot, CountSlot, AlterAddQuery, AlterAddFails,
                drop_table_data_count, history
  <1>5. Sure(r) <= Whole
    BY <1>0, <1>4 DEF CrashInv
  <1> USE DEF AlterAt
  <1>6. CASE drop_table_data_count
    BY <1>2, <1>4, <1>5, <1>6 DEF drop_table_data_count, EndAlter, Whole
  <1>7. CASE AlterAt("store") /\ StoreSlot(nschema, "count")
    BY <1>0, <1>2, <1>4, <1>5, <1>7 DEF StoreSlot, TypeOK, Whole
  <1>8. CASE AlterAt("count") /\ CountSlot("add")
    BY <1>2, <1>4, <1>5, <1>8 DEF CountSlot, Whole
  <1>9. CASE AlterAddQuery \/ AlterAddFails
    BY <1>2, <1>4, <1>5, <1>9 DEF AlterAddQuery, AlterAddFails, EndAlter, Whole
  <1>10. CASE \E t \in tables : add_table_data(t) \/ AlterDropQuery(t) \/ AlterDropFails(t)
    BY <1>2, <1>4, <1>5, <1>10
       DEF add_table_data, AlterDropQuery, AlterDropFails, StartAlter, Whole
  <1>11. QED
    BY <1>0, <1>3, <1>6, <1>7, <1>8, <1>9, <1>10, SchemaAddCases DEF Alter

LEMMA CrashStep == IInv /\ [Next]_vars => FaultInv' /\ (Live' => CrashInv')
  <1> SUFFICES ASSUME IInv, [Next]_vars PROVE FaultInv' /\ (Live' => CrashInv')
    OBVIOUS
  <1>1. ASSUME clean_env PROVE FaultInv' /\ ~Live'
    BY <1>1 DEF clean_env, FaultInv, Live
  <1>2. ASSUME UNCHANGED vars PROVE FaultInv' /\ (Live' => CrashInv')
    BY <1>2 DEF IInv, Live, FaultInv, CrashInv, Sure, Whole, vars, schema, reader, alter,
                history
  <1>3. QED
    BY <1>1, <1>2, CrashReader, CrashAlter, NextCases

-----------------------------------------------------------------------------
(* Tables and the database *)

\* Leaving out a member of a sequence, or adding a new one, keeps the members
\* apart.
LEMMA InjectiveSteps ==
    ASSUME NEW S, NEW s \in Seq(S), IsInjective(s)
    PROVE  /\ \A k \in 1..Len(s) : IsInjective(RemoveAt(s, k))
           /\ \A e \in S : e \notin ToSet(s) => IsInjective(Append(s, e))
  <1>1. ASSUME NEW k \in 1..Len(s) PROVE IsInjective(RemoveAt(s, k))
    <2> DEFINE t == RemoveAt(s, k)
    <2>1. /\ t \in Seq(S) /\ Len(t) = Len(s) - 1
          /\ \A j \in 1..(Len(s) - 1) : t[j] = IF j < k THEN s[j] ELSE s[j + 1]
      BY RemoveAtType
    <2> HIDE DEF t
    <2>2. ASSUME NEW a \in 1..(Len(s) - 1), NEW b \in 1..(Len(s) - 1), t[a] = t[b]
          PROVE  a = b
      <3>1. \A x, y \in 1..Len(s) : s[x] = s[y] => x = y
        BY DEF IsInjective
      <3>2. /\ Len(s) \in Nat /\ k \in Nat /\ a \in Nat /\ b \in Nat
            /\ a \in 1..Len(s) /\ a + 1 \in 1..Len(s)
            /\ b \in 1..Len(s) /\ b + 1 \in 1..Len(s)
        OBVIOUS
      <3>3. /\ a < k => t[a] = s[a]
            /\ ~(a < k) => t[a] = s[a + 1]
        BY <2>1
      <3>4. /\ b < k => t[b] = s[b]
            /\ ~(b < k) => t[b] = s[b + 1]
        BY <2>1
      <3>5. CASE a < k /\ b < k
        BY <2>2, <3>1, <3>2, <3>3, <3>4, <3>5
      <3>6. CASE a < k /\ ~(b < k)
        <4>1. s[a] = s[b + 1]
          BY <2>2, <3>3, <3>4, <3>6
        <4>2. a = b + 1
          BY <3>1, <3>2, <4>1
        <4>3. QED
          BY <3>2, <3>6, <4>2
      <3>7. CASE ~(a < k) /\ b < k
        <4>1. s[b] = s[a + 1]
          BY <2>2, <3>3, <3>4, <3>7
        <4>2. b = a + 1
          BY <3>1, <3>2, <4>1
        <4>3. QED
          BY <3>2, <3>7, <4>2
      <3>8. CASE ~(a < k) /\ ~(b < k)
        <4>1. s[a + 1] = s[b + 1]
          BY <2>2, <3>3, <3>4, <3>8
        <4>2. a + 1 = b + 1
          BY <3>1, <3>2, <4>1
        <4>3. QED
          BY <3>2, <4>2
      <3>9. QED
        BY <3>5, <3>6, <3>7, <3>8
    <2>3. QED
      BY <2>1, <2>2 DEF IsInjective, t
  <1>2. ASSUME NEW e \in S, e \notin ToSet(s) PROVE IsInjective(Append(s, e))
    BY <1>2 DEF IsInjective, ToSet
  <1>3. QED
    BY <1>1, <1>2

LEMMA TablesReader ==
    ASSUME IInv, NEW r \in Readers, Generate(r) \/ (r = Creator /\ CreateTable)
    PROVE  TablesInv'
  <1>0. /\ TypeOK /\ ReaderInv /\ TablesInv /\ UNCHANGED apc
        /\ \A u \in Readers \ {r} : alteredSince'[u] = alteredSince[u]
    BY StepOfReader DEF IInv, Live, alter
  <1> USE <1>0 DEF At, history, reader
  <1>1. UNCHANGED <<tables, dbcols>> \/ CreateTable
    BY DEF Generate, GenStart, GenLoad, GenUse, GenUseGarbage, AddColumn, GenUseFaults,
           GenEnd, QueryOver
  <1>2. tables = {} => ~alteredSince'[r]
    <2>1. CASE \E t \in Targets(r) : GenStart(r, t)
      BY <2>1 DEF GenStart, TablesInv, TypeOK
    <2>2. CASE GenLoad(r) \/ GenEnd(r) \/ GenUse(r) \/ GenUseGarbage(r) \/ GenUseFaults(r)
      BY <2>2 DEF GenLoad, GenEnd, GenUse, GenUseGarbage, AddColumn, GenUseFaults, TablesInv
    <2>3. CASE QueryOver(r) \/ (r = Creator /\ CreateTable)
      BY <2>3 DEF QueryOver, CreateTable, Over, TypeOK
    <2>4. QED
      BY <2>1, <2>2, <2>3 DEF Generate
  <1>3. CASE UNCHANGED <<tables, dbcols>>
    BY <1>2, <1>3 DEF TablesInv
  <1>4. CASE CreateTable
    <2>1. Creator \in Readers
      BY DEF Readers
    <2>2. /\ target[Creator] \in Tables /\ tables' = tables \cup {target[Creator]}
          /\ IsInjective(sql[Creator])
          /\ dbcols' = [dbcols EXCEPT ![target[Creator]] = sql[Creator]]
      BY <1>4, <2>1 DEF CreateTable, ReaderInv
    <2>3. QED
      BY <2>2 DEF TablesInv, TypeOK
  <1>5. QED
    BY <1>1, <1>3, <1>4

LEMMA TablesAlter ==
    ASSUME IInv, Alter
    PROVE  TablesInv'
  <1>0. /\ TypeOK /\ TablesInv /\ SlotsInv /\ UNCHANGED tables
    BY StepOfAlter DEF IInv, Live
  <1>1. tables # {}
    BY <1>0 DEF Alter, schema_add, AlterAddQuery, AlterAddFails, drop_table_data_free,
                drop_table_data_count, AlterAt, SlotsInv
  <1>2. ASSUME AlterAddQuery PROVE TablesInv'
    <2>1. /\ atable \in Tables /\ atable \in tables /\ LastColumn \in Columns
          /\ dbcols[atable] \in Seq(Columns) /\ IsInjective(dbcols[atable])
      BY <1>0, <1>2, LastColumnName
         DEF AlterAddQuery, AlterAt, SlotsInv, Columns, TypeOK, TablesInv
    <2>2. IsInjective(Append(dbcols[atable], LastColumn))
      BY <1>2, <2>1, InjectiveSteps DEF AlterAddQuery
    <2>3. dbcols' = [dbcols EXCEPT ![atable] = Append(dbcols[atable], LastColumn)]
      BY <1>2 DEF AlterAddQuery
    <2>4. QED
      BY <1>0, <1>1, <2>1, <2>2, <2>3 DEF TablesInv, TypeOK
  <1>3. ASSUME NEW t \in tables, AlterDropQuery(t) PROVE TablesInv'
    <2>1. PICK k \in DOMAIN dbcols[t] : dbcols' = [dbcols EXCEPT ![t] = RemoveAt(dbcols[t], k)]
      BY <1>3 DEF AlterDropQuery
    <2>2. /\ t \in Tables /\ dbcols[t] \in Seq(Columns) /\ IsInjective(dbcols[t])
          /\ k \in 1..Len(dbcols[t])
      BY <1>0, <2>1 DEF TypeOK, TablesInv
    <2>3. IsInjective(RemoveAt(dbcols[t], k))
      BY <2>2, InjectiveSteps
    <2>4. QED
      BY <1>0, <1>1, <2>1, <2>2, <2>3 DEF TablesInv, TypeOK
  <1>4. ASSUME UNCHANGED dbcols PROVE TablesInv'
    BY <1>0, <1>1, <1>4 DEF TablesInv
  <1>5. QED
    BY <1>2, <1>3, <1>4
       DEF Alter, add_table_data, AlterDropFails, schema_add, AddRefused, StoreSlot, CountSlot,
           AlterAddFails, drop_table_data_free, drop_table_data_count

LEMMA TablesStep == IInv /\ [Next]_vars /\ Live' => TablesInv'
  <1> SUFFICES ASSUME IInv, [Next]_vars, Live' PROVE TablesInv'
    OBVIOUS
  <1>1. ASSUME UNCHANGED vars PROVE TablesInv'
    BY <1>1 DEF IInv, Live, TablesInv, vars, alter, history
  <1>2. QED
    BY <1>1, TablesReader, TablesAlter, NextCases DEF clean_env, Live

-----------------------------------------------------------------------------
(* Statements and the columns of a table *)

LEMMA CopyReader ==
    ASSUME IInv, NEW r \in Readers, Generate(r) \/ (r = Creator /\ CreateTable)
    PROVE  CopyInv'
  <1>0. /\ TypeOK /\ ReaderInv /\ SlotsInv /\ CopyInv
        /\ proc = "running" /\ UNCHANGED <<schema, alter>>
    BY StepOfReader DEF IInv, Live
  <1> DEFINE Copies == /\ apc = "idle" /\ n'[r] = nschema
                       /\ pc'[r] = "use" => pdata'[r] = slots[i'[r]]
                       /\ pc'[r] = "query" => i'[r] = n'[r]
                       /\ Len(sql'[r]) = i'[r]
                       /\ \A k \in 1..i'[r] : sql'[r][k] = heap[slots[k - 1]]
  <1>1. SUFFICES ASSUME pc'[r] # "idle", ~alteredSince'[r] PROVE Copies
    BY <1>0, StepOfReader DEF CopyInv, schema, alter
  <1>2. /\ n[r] \in Nat /\ i[r] \in Nat /\ nschema \in Nat /\ sql[r] \in Seq(Columns)
        /\ pc \in [Readers -> {"idle", "load", "use", "query"}]
        /\ sql \in [Readers -> Seq(Columns)]
        /\ n \in [Readers -> 0..Capacity] /\ i \in [Readers -> 0..Capacity]
        /\ pdata \in [Readers -> Data \cup {Uninit}]
        /\ alteredSince \in [Readers -> BOOLEAN]
    BY <1>0, BoundsType DEF TypeOK
  <1> USE <1>0, <1>1, <1>2 DEF At, schema, reader, alter, history
  <1>3. CASE \E t \in Targets(r) : GenStart(r, t)
    <2>1. PICK t \in Targets(r) : GenStart(r, t)
      BY <1>3
    <2>2. /\ pc'[r] = "load" /\ n'[r] = nschema /\ i'[r] = 0 /\ sql'[r] = <<>>
      BY <2>1 DEF GenStart
    <2>3. apc = "idle"
      BY <2>1 DEF GenStart
    <2>4. QED
      BY <2>2, <2>3
  <1>4. CASE GenLoad(r) \/ GenEnd(r)
    BY <1>4 DEF GenLoad, GenEnd, CopyInv
  <1>5. ASSUME pc[r] = "use", ~alteredSince[r]
        PROVE  /\ apc = "idle" /\ n[r] = nschema /\ Len(sql[r]) = i[r]
               /\ pdata[r] = slots[i[r]] /\ Valid(pdata[r])
               /\ \A k \in 1..i[r] : sql[r][k] = heap[slots[k - 1]]
    <2>1. /\ apc = "idle" /\ n[r] = nschema /\ Len(sql[r]) = i[r]
          /\ pdata[r] = slots[i[r]] /\ i[r] < n[r]
          /\ \A k \in 1..i[r] : sql[r][k] = heap[slots[k - 1]]
      BY <1>5 DEF CopyInv, ReaderInv
    <2>2. i[r] \in 0..(nschema - 1)
      BY <2>1
    <2>3. QED
      BY <2>1, <2>2 DEF SlotsInv, Valid
  <1>6. CASE GenUse(r)
    <2>1. /\ pc[r] = "use" /\ ~alteredSince[r]
          /\ sql'[r] = Append(sql[r], heap[pdata[r]]) /\ i'[r] = i[r] + 1
          /\ pc'[r] = "load" /\ n'[r] = n[r]
      BY <1>6 DEF GenUse, AddColumn
    <2>2. heap[pdata[r]] \in Columns
      BY <1>6, ValidName DEF GenUse, Columns
    <2>3. /\ Len(sql'[r]) = i[r] + 1
          /\ \A k \in 1..(i[r] + 1) : sql'[r][k] = heap[slots[k - 1]]
      BY <1>5, <2>1, <2>2
    <2>4. QED
      BY <1>5, <2>1, <2>3
  <1>7. CASE GenUseGarbage(r) \/ GenUseFaults(r)
    BY <1>5, <1>7 DEF GenUseGarbage, AddColumn, GenUseFaults
  <1>8. CASE QueryOver(r) \/ (r = Creator /\ CreateTable)
    BY <1>8 DEF QueryOver, CreateTable, Over
  <1>9. QED
    BY <1>3, <1>4, <1>6, <1>7, <1>8 DEF Generate

\* An ALTER runs beside every statement under way.
LEMMA CopyAlter ==
    ASSUME IInv, Alter
    PROVE  CopyInv'
  <1>0. TypeOK /\ CopyInv /\ UNCHANGED reader
    BY StepOfAlter DEF IInv, Live
  <1>1. ASSUME NEW t \in tables, StartAlter(t) PROVE CopyInv'
    BY <1>0, <1>1 DEF StartAlter, CopyInv, reader
  <1>2. ASSUME apc # "idle", UNCHANGED alteredSince PROVE CopyInv'
    BY <1>0, <1>2 DEF CopyInv, reader
  <1>3. QED
    BY <1>1, <1>2
       DEF Alter, add_table_data, AlterDropQuery, AlterDropFails, schema_add, AddRefused, StoreSlot,
           CountSlot, AlterAddQuery, AlterAddFails, drop_table_data_free,
           drop_table_data_count, AlterAt, history

LEMMA CopyStep == IInv /\ [Next]_vars /\ Live' => CopyInv'
  <1> SUFFICES ASSUME IInv, [Next]_vars, Live' PROVE CopyInv'
    OBVIOUS
  <1>1. ASSUME UNCHANGED vars PROVE CopyInv'
    BY <1>1 DEF IInv, Live, CopyInv, vars, schema, reader, alter, history
  <1>2. QED
    BY <1>1, CopyReader, CopyAlter, NextCases DEF clean_env, Live

\* The first table gets the columns of the schema, as no ALTER ran before it.
LEMMA FitReader ==
    ASSUME IInv, NEW r \in Readers, Generate(r) \/ (r = Creator /\ CreateTable)
    PROVE  FitInv'
  <1>0. /\ TypeOK /\ ReaderInv /\ TablesInv /\ CopyInv /\ FitInv
        /\ UNCHANGED <<slots, nschema, heap, apc, addFailed>> /\ Creator \in Readers
    BY StepOfReader DEF IInv, Live, schema, alter, Readers
  <1>1. UNCHANGED <<tables, dbcols>> \/ CreateTable
    BY DEF Generate, GenStart, GenLoad, GenUse, GenUseGarbage, AddColumn, GenUseFaults,
           GenEnd, QueryOver
  <1>2. CASE UNCHANGED <<tables, dbcols>>
    BY <1>0, <1>2 DEF FitInv, Agreed
  <1>3. CASE CreateTable
    <2> DEFINE c == Creator
    <2>1. /\ target[c] \in Tables /\ tables' = tables \cup {target[c]}
          /\ target[c] \notin tables /\ pc[c] = "query"
          /\ dbcols' = [dbcols EXCEPT ![target[c]] = sql[c]]
      BY <1>0, <1>3 DEF CreateTable, At, ReaderInv
    <2> SUFFICES ASSUME NEW t \in Tables, tables' = {t}
                 PROVE  /\ Len(dbcols'[t]) = Agreed
                        /\ \A k \in 1..Agreed : dbcols'[t][k] = heap[slots[k - 1]]
      BY <1>0 DEF FitInv, Agreed
    <2>2. tables = {} /\ t = target[c]
      BY <2>1
    <2>3. apc = "idle" /\ ~alteredSince[c]
      BY <1>0, <2>2 DEF TablesInv
    <2>4. /\ i[c] = nschema /\ Len(sql[c]) = i[c]
          /\ \A k \in 1..i[c] : sql[c][k] = heap[slots[k - 1]]
      BY <1>0, <2>1, <2>3 DEF CopyInv
    <2>5. Agreed = nschema
      BY <2>3 DEF Agreed
    <2>6. dbcols'[t] = sql[c]
      BY <1>0, <2>1, <2>2 DEF TypeOK
    <2>7. QED
      BY <2>4, <2>5, <2>6
  <1>4. QED
    BY <1>1, <1>2, <1>3

\* The column an ALTER adds is the last of both; what the DROP takes from the
\* table is the last there too, as no other has its name.
LEMMA FitAlter ==
    ASSUME IInv, Alter
    PROVE  FitInv'
  <1>0. /\ TypeOK /\ SlotsInv /\ TablesInv /\ FitInv /\ UNCHANGED tables
        /\ nschema \in Nat
    BY StepOfAlter, BoundsType DEF IInv, Live, TypeOK
  <1> USE <1>0 DEF AlterAt, history
  <1>1. SUFFICES ASSUME NEW t \in Tables, tables = {t}, ~addFailed'
                 PROVE  /\ Len(dbcols'[t]) = Agreed'
                        /\ \A k \in 1..Agreed' : dbcols'[t][k] = heap'[slots'[k - 1]]
    BY DEF FitInv
  <1> DEFINE Fits == /\ Len(dbcols[t]) = Agreed
                     /\ \A k \in 1..Agreed : dbcols[t][k] = heap[slots[k - 1]]
             Goal == /\ Len(dbcols'[t]) = Agreed'
                     /\ \A k \in 1..Agreed' : dbcols'[t][k] = heap'[slots'[k - 1]]
  <1>2. ~addFailed => Fits
    BY <1>1 DEF FitInv
  <1> HIDE DEF Fits
  <1>3. ASSUME NEW u \in tables, add_table_data(u) \/ AlterDropFails(u)
        PROVE  Goal
    <2>1. /\ UNCHANGED <<slots, nschema, dbcols, addFailed>> /\ apc = "idle"
          /\ Agreed' = nschema /\ Agreed = nschema
      BY <1>3 DEF add_table_data, AlterDropFails, StartAlter, Agreed
    <2>2. \A k \in 1..nschema : heap'[slots[k - 1]] = heap[slots[k - 1]]
      <3>1. CASE AlterDropFails(u)
        BY <3>1 DEF AlterDropFails
      <3>2. CASE add_table_data(u)
        <4>1. PICK d \in Data : heap[d] = Free /\ heap' = [heap EXCEPT ![d] = <<"col", nschema>>]
          BY <3>2 DEF add_table_data
        <4>2. ASSUME NEW k \in 1..nschema PROVE slots[k - 1] \in Data /\ heap[slots[k - 1]] # Free
          <5>1. k - 1 \in 0..(nschema - 1)
            OBVIOUS
          <5>2. QED
            BY <2>1, <5>1 DEF SlotsInv
        <4>3. QED
          BY <4>1, <4>2 DEF TypeOK
      <3>3. QED
        BY <1>3, <3>1, <3>2
    <2>3. QED
      BY <1>1, <1>2, <2>1, <2>2 DEF Fits
  <1>4. ASSUME AlterAt("store"), StoreSlot(nschema, "count")
        PROVE  Goal
    <2>1. /\ UNCHANGED <<heap, nschema, dbcols, addFailed>>
          /\ Agreed' = nschema /\ Agreed = nschema
          /\ slots' = [slots EXCEPT ![nschema] = adata]
      BY <1>4 DEF StoreSlot, Agreed
    <2>2. \A k \in 1..nschema : slots'[k - 1] = slots[k - 1]
      BY <2>1, BoundsType DEF TypeOK
    <2>3. QED
      BY <1>1, <1>2, <2>1, <2>2 DEF Fits
  <1>5. ASSUME AlterAt("count"), CountSlot("add")
        PROVE  Goal
    <2>1. /\ UNCHANGED <<heap, slots, dbcols, addFailed>>
          /\ Agreed' = nschema /\ Agreed = nschema
      BY <1>5 DEF CountSlot, Agreed
    <2>2. QED
      BY <1>1, <1>2, <2>1 DEF Fits
  <1>6. ASSUME AlterAddQuery
        PROVE  Goal
    <2>1. /\ UNCHANGED <<heap, slots, nschema, addFailed>> /\ apc = "add" /\ atable = t
          /\ Agreed' = nschema /\ Agreed = nschema - 1 /\ nschema > 0
          /\ dbcols' = [dbcols EXCEPT ![atable] = Append(dbcols[atable], LastColumn)]
      BY <1>1, <1>6 DEF AlterAddQuery, EndAlter, Agreed, SlotsInv
    <2>2. /\ dbcols'[t] = Append(dbcols[t], heap[slots[nschema - 1]])
          /\ dbcols[t] \in Seq(Columns) /\ heap[slots[nschema - 1]] \in Columns
      BY <2>1, LastColumnName DEF TypeOK, LastColumn, Columns
    <2>3. /\ Len(dbcols[t]) = nschema - 1
          /\ \A k \in 1..(nschema - 1) : dbcols[t][k] = heap[slots[k - 1]]
      BY <1>1, <1>2, <2>1 DEF Fits
    <2>4. /\ Len(dbcols'[t]) = nschema
          /\ \A k \in 1..nschema : dbcols'[t][k] = heap[slots[k - 1]]
      BY <2>1, <2>2, <2>3
    <2>5. QED
      BY <2>1, <2>4
  <1>7. ASSUME NEW u \in tables, AlterDropQuery(u)
        PROVE  Goal
    <2>1. /\ UNCHANGED <<heap, slots, nschema, addFailed>> /\ apc = "idle" /\ u = t
          /\ Agreed' = nschema - 1 /\ Agreed = nschema /\ nschema > 0
      BY <1>1, <1>7 DEF AlterDropQuery, StartAlter, MayDrop, Agreed
    <2>2. PICK p \in DOMAIN dbcols[t] :
             /\ dbcols[t][p] = heap[slots[nschema - 1]]
             /\ dbcols' = [dbcols EXCEPT ![t] = RemoveAt(dbcols[t], p)]
      BY <1>7, <2>1 DEF AlterDropQuery, LastColumn
    <2>3. /\ dbcols[t] \in Seq(Columns) /\ IsInjective(dbcols[t])
          /\ p \in 1..Len(dbcols[t])
      BY <2>2 DEF TypeOK, TablesInv
    <2>4. /\ Len(dbcols[t]) = nschema
          /\ \A k \in 1..nschema : dbcols[t][k] = heap[slots[k - 1]]
      BY <1>1, <1>2, <2>1 DEF Fits
    <2>5. p = nschema
      <3>1. nschema \in 1..Len(dbcols[t]) /\ dbcols[t][p] = dbcols[t][nschema]
        BY <2>1, <2>2, <2>4
      <3>2. QED
        BY <2>3, <3>1 DEF IsInjective
    <2>6. /\ Len(RemoveAt(dbcols[t], p)) = nschema - 1
          /\ \A j \in 1..(nschema - 1) :
                RemoveAt(dbcols[t], p)[j] = IF j < p THEN dbcols[t][j] ELSE dbcols[t][j + 1]
      BY <2>3, <2>4, RemoveAtType
    <2>7. dbcols'[t] = RemoveAt(dbcols[t], p)
      BY <2>2 DEF TypeOK
    <2>8. \A j \in 1..(nschema - 1) : RemoveAt(dbcols[t], p)[j] = heap[slots[j - 1]]
      BY <2>4, <2>5, <2>6
    <2>9. QED
      BY <2>1, <2>6, <2>7, <2>8
  <1>8. ASSUME drop_table_data_free
        PROVE  Goal
    <2>1. /\ UNCHANGED <<slots, nschema, dbcols, addFailed>> /\ nschema > 0
          /\ Agreed' = nschema - 1 /\ Agreed = nschema - 1
          /\ heap' = [heap EXCEPT ![slots[nschema - 1]] = Free]
      BY <1>8 DEF drop_table_data_free, Agreed, SlotsInv
    <2>2. ASSUME NEW k \in 1..(nschema - 1) PROVE heap'[slots[k - 1]] = heap[slots[k - 1]]
      <3>1. k - 1 \in 0..(nschema - 1) /\ nschema - 1 \in 0..(nschema - 1) /\ k - 1 # nschema - 1
        BY <2>1
      <3>2. slots[k - 1] # slots[nschema - 1] /\ slots[k - 1] \in Data
        BY <3>1 DEF SlotsInv
      <3>3. QED
        BY <2>1, <3>2 DEF TypeOK
    <2>3. QED
      BY <1>1, <1>2, <2>1, <2>2 DEF Fits
  <1>9. ASSUME drop_table_data_count
        PROVE  Goal
    <2>1. /\ UNCHANGED <<slots, heap, dbcols, addFailed>>
          /\ Agreed' = nschema - 1 /\ Agreed = nschema - 1
      BY <1>9 DEF drop_table_data_count, EndAlter, Agreed
    <2>2. QED
      BY <1>1, <1>2, <2>1 DEF Fits
  <1>10. ~AlterAddFails
    BY <1>1 DEF AlterAddFails
  <1>11. QED
    BY <1>3, <1>4, <1>5, <1>6, <1>7, <1>8, <1>9, <1>10, SchemaAddCases DEF Alter

LEMMA FitStep == IInv /\ [Next]_vars /\ Live' => FitInv'
  <1> SUFFICES ASSUME IInv, [Next]_vars, Live' PROVE FitInv'
    OBVIOUS
  <1>1. ASSUME UNCHANGED vars PROVE FitInv'
    BY <1>1 DEF IInv, Live, FitInv, Agreed, vars, schema, alter, history
  <1>2. QED
    BY <1>1, FitReader, FitAlter, NextCases DEF clean_env, Live

-----------------------------------------------------------------------------
(* The configured columns, and the end *)

\* No DROP begins with the last protected column: its name is looked at.
LEMMA ConfigAlter ==
    ASSUME IInv, Alter
    PROVE  ConfigInv'
  <1>0. TypeOK /\ SlotsInv /\ ConfigInv /\ UNCHANGED config /\ nschema \in Nat
    BY StepOfAlter, BoundsType DEF IInv, Live, TypeOK
  <1>1. SUFFICES ASSUME NEW j \in 1..Len(config), config[j][1] # "col"
                 PROVE  /\ j <= (IF apc' \in {"drop", "freed"} THEN nschema' - 1 ELSE nschema')
                        /\ \A k \in 1..j : heap'[slots'[k - 1]] = heap[slots[k - 1]]
    BY <1>0 DEF ConfigInv
  <1>2. /\ j \in Nat /\ j <= nschema /\ (apc \in {"drop", "freed"} => j <= nschema - 1)
        /\ \A k \in 1..j : heap[slots[k - 1]] = config[k]
    <2>1. config \in Seq(Names)
      BY <1>0, ConfigAssumption DEF TypeOK
    <2>2. QED
      BY <1>0, <1>1, <2>1 DEF ConfigInv
  <1>3. \A k \in 1..j : /\ k - 1 \in 0..(nschema - 1) /\ slots[k - 1] \in Data
                        /\ k - 1 # nschema
    <2>1. \A k \in 1..j : k - 1 \in 0..(nschema - 1) /\ k - 1 # nschema
      BY <1>0, <1>2
    <2>2. QED
      BY <1>0, <2>1 DEF SlotsInv
  <1> DEFINE Goal == /\ j <= (IF apc' \in {"drop", "freed"} THEN nschema' - 1 ELSE nschema')
                     /\ \A k \in 1..j : heap'[slots'[k - 1]] = heap[slots[k - 1]]
  <1> USE <1>0 DEF AlterAt
  <1>4. ASSUME NEW t \in tables, add_table_data(t) PROVE Goal
    <2>1. /\ UNCHANGED <<slots, nschema>> /\ apc' = "store" /\ apc = "idle"
      BY <1>4 DEF add_table_data, StartAlter
    <2>2. PICK d \in Data : heap[d] = Free /\ heap' = [heap EXCEPT ![d] = <<"col", nschema>>]
      BY <1>4 DEF add_table_data
    <2>3. \A k \in 1..j : heap[slots[k - 1]] # Free
      BY <1>3, <2>1 DEF SlotsInv
    <2>4. QED
      BY <1>2, <1>3, <2>1, <2>2, <2>3 DEF TypeOK
  <1>5. ASSUME AlterAt("store"), StoreSlot(nschema, "count") PROVE Goal
    <2>1. /\ UNCHANGED <<heap, nschema>> /\ apc' = "count"
          /\ slots' = [slots EXCEPT ![nschema] = adata]
      BY <1>5 DEF StoreSlot
    <2>2. \A k \in 1..j : slots'[k - 1] = slots[k - 1]
      BY <1>3, <2>1, BoundsType DEF TypeOK
    <2>3. QED
      BY <1>2, <2>1, <2>2
  <1>6. ASSUME AlterAt("count"), CountSlot("add") PROVE Goal
    BY <1>2, <1>6 DEF CountSlot
  <1>7. ASSUME AlterAddQuery \/ AlterAddFails PROVE Goal
    BY <1>2, <1>7 DEF AlterAddQuery, AlterAddFails, EndAlter
  <1>8. ASSUME NEW t \in tables, AlterDropQuery(t) PROVE Goal
    <2>1. /\ UNCHANGED <<heap, slots, nschema>> /\ LastColumn[1] = "col"
      BY <1>8 DEF AlterDropQuery, MayDrop
    <2>2. heap[slots[j - 1]] = config[j]
      BY <1>2
    <2>3. j # nschema
      BY <1>1, <2>1, <2>2 DEF LastColumn
    <2>4. QED
      BY <1>2, <2>1, <2>3
  <1>9. ASSUME NEW t \in tables, AlterDropFails(t) PROVE Goal
    BY <1>2, <1>9 DEF AlterDropFails, StartAlter
  <1>10. ASSUME drop_table_data_free PROVE Goal
    <2>1. /\ UNCHANGED <<slots, nschema>> /\ apc = "drop" /\ j <= nschema - 1
          /\ heap' = [heap EXCEPT ![slots[nschema - 1]] = Free]
          /\ nschema - 1 \in 0..(nschema - 1)
      BY <1>2, <1>10 DEF drop_table_data_free, SlotsInv
    <2>2. \A k \in 1..j : k - 1 # nschema - 1
      BY <1>2, <2>1
    <2>3. \A k \in 1..j : slots[k - 1] # slots[nschema - 1]
      BY <1>3, <2>1, <2>2 DEF SlotsInv
    <2>4. \A k \in 1..j : heap'[slots[k - 1]] = heap[slots[k - 1]]
      BY <1>3, <2>1, <2>3 DEF TypeOK
    <2>5. QED
      BY <2>1, <2>4
  <1>11. ASSUME drop_table_data_count PROVE Goal
    BY <1>2, <1>11 DEF drop_table_data_count, EndAlter
  <1>12. QED
    BY <1>4, <1>5, <1>6, <1>7, <1>8, <1>9, <1>10, <1>11, SchemaAddCases DEF Alter

LEMMA ConfigStep == IInv /\ [Next]_vars /\ Live' => ConfigInv'
  <1> SUFFICES ASSUME IInv, [Next]_vars, Live' PROVE ConfigInv'
    OBVIOUS
  <1>1. ASSUME Live, UNCHANGED <<schema, apc>> PROVE ConfigInv'
    BY <1>1 DEF IInv, ConfigInv, schema
  <1>2. ASSUME NEW r \in Readers, Generate(r) \/ (r = Creator /\ CreateTable)
        PROVE  Live /\ UNCHANGED <<schema, apc>>
    BY <1>2, StepOfReader DEF IInv, Live, alter
  <1>3. ASSUME UNCHANGED vars PROVE Live /\ UNCHANGED <<schema, apc>>
    BY <1>3 DEF Live, vars, alter
  <1>4. QED
    BY <1>1, <1>2, <1>3, ConfigAlter, NextCases DEF clean_env, Live

\* clean_env frees every block there is, since no ALTER is under way.
LEMMA ExitStep ==
    ASSUME IInv, [Next]_vars, proc' = "exited"
    PROVE  /\ tables' = {} /\ \A r \in Readers : pc'[r] = "idle"
           /\ \A d \in Data : heap'[d] = Free
  <1>1. CASE clean_env
    <2>1. TypeOK /\ SlotsInv /\ apc = "idle"
      BY <1>1 DEF IInv, Live, clean_env, AlterAt
    <2>2. \A d \in Data : heap[d] # Free => d \in InSchema
      BY <2>1 DEF SlotsInv, InSchema
    <2>3. QED
      BY <1>1, <2>2 DEF clean_env, reader
  <1>2. CASE UNCHANGED vars
    BY <1>2 DEF IInv, vars, schema, reader
  <1>3. ASSUME NEW r \in Readers, Generate(r) \/ (r = Creator /\ CreateTable)
        PROVE  FALSE
    BY <1>3, StepOfReader DEF IInv
  <1>4. QED
    BY <1>1, <1>2, <1>3, StepOfAlter, NextCases

-----------------------------------------------------------------------------
(* The invariant *)

\* schema_init and schema_add: a block of its own for each column.
LEMMA InitHeap ==
    ASSUME Init
    PROVE  /\ config \in Seq(Names) /\ nschema = Len(config)
           /\ slots \in [0..(Capacity - 1) -> Data \cup {Uninit}]
           /\ heap \in [Data -> Names \cup {Free}]
           /\ \A k \in 0..(nschema - 1) :
                 slots[k] \in Data /\ heap[slots[k]] = config[k + 1]
           /\ \A j, k \in 0..(nschema - 1) : slots[j] = slots[k] => j = k
           /\ \A d \in Data : heap[d] # Free => \E k \in 0..(nschema - 1) : slots[k] = d
  <1>1. /\ config \in Seq(Names) /\ nschema = Len(config) /\ nschema \in Nat
        /\ nschema <= Capacity /\ Capacity \in Nat
    BY ConfigAssumption, BoundsType DEF Init
  <1>2. PICK place \in [0..(nschema - 1) -> Data] :
           /\ \A j, k \in DOMAIN place : place[j] = place[k] => j = k
           /\ slots = [k \in 0..(Capacity - 1) |->
                         IF k \in DOMAIN place THEN place[k] ELSE Uninit]
           /\ heap = [d \in Data |->
                         IF \E k \in DOMAIN place : place[k] = d
                         THEN config[1 + CHOOSE k \in DOMAIN place : place[k] = d]
                         ELSE Free]
    BY <1>1 DEF Init
  <1>3. \A k \in 0..(nschema - 1) : k \in 0..(Capacity - 1) /\ slots[k] = place[k]
    BY <1>1, <1>2
  <1>4. ASSUME NEW d \in Data, NEW k \in 0..(nschema - 1), place[k] = d
        PROVE  heap[d] = config[k + 1] /\ heap[d] \in Names
    <2> DEFINE c == CHOOSE x \in DOMAIN place : place[x] = d
    <2>1. c \in DOMAIN place /\ place[c] = d
      BY <1>4
    <2>2. heap[d] = config[1 + c]
      BY <1>2, <1>4
    <2> HIDE DEF c
    <2>3. c = k
      BY <1>2, <1>4, <2>1
    <2>4. k + 1 \in 1..Len(config) /\ 1 + k = k + 1
      BY <1>1
    <2>5. heap[d] = config[k + 1]
      BY <2>2, <2>3, <2>4
    <2>6. config[k + 1] \in Names
      BY <1>1, <2>4
    <2>7. QED
      BY <2>5, <2>6
  <1>5. ASSUME NEW d \in Data, ~\E k \in 0..(nschema - 1) : place[k] = d
        PROVE  heap[d] = Free
    BY <1>2, <1>5
  <1>6. heap \in [Data -> Names \cup {Free}]
    <2>1. \A d \in Data : heap[d] \in Names \cup {Free}
      BY <1>4, <1>5
    <2>2. QED
      BY <1>2, <2>1
  <1>7. slots \in [0..(Capacity - 1) -> Data \cup {Uninit}]
    BY <1>2
  <1>8. /\ \A k \in 0..(nschema - 1) : slots[k] \in Data /\ heap[slots[k]] = config[k + 1]
        /\ \A j, k \in 0..(nschema - 1) : slots[j] = slots[k] => j = k
        /\ \A d \in Data : heap[d] # Free => \E k \in 0..(nschema - 1) : slots[k] = d
    BY <1>2, <1>3, <1>4, <1>5
  <1>9. QED
    BY <1>1, <1>6, <1>7, <1>8

LEMMA InitIInv == Init => IInv
  <1> SUFFICES ASSUME Init PROVE IInv
    OBVIOUS
  <1>1. /\ Len(config) \in Nat /\ nschema \in 0..Capacity
    BY InitHeap, ConfigAssumption, BoundsType DEF Init
  <1>2. TypeOK
    <2>1. <<>> \in Seq(Columns) /\ 0 \in 0..Capacity /\ 0 \in 0..MaxStatements /\ 0 \in 0..MaxAlters
      BY BoundsType
    <2>2. QED
      BY <1>1, <2>1, InitHeap DEF Init, TypeOK
  <1>3. ReaderInv /\ FaultInv /\ CrashInv /\ CopyInv /\ FitInv
    <2>1. ReaderInv /\ FaultInv /\ CrashInv /\ CopyInv
      BY DEF Init, ReaderInv, FaultInv, CrashInv, CopyInv
    <2>2. FitInv
      BY DEF Init, FitInv
    <2>3. QED
      BY <2>1, <2>2
  <1>4. SlotsInv
    <2>1. \A k \in 0..(nschema - 1) : heap[slots[k]] # Free
      <3>1. \A k \in 0..(nschema - 1) : k + 1 \in 1..Len(config)
        BY <1>1, InitHeap
      <3>2. \A k \in 0..(nschema - 1) : config[k + 1] \in Names
        BY <3>1, InitHeap
      <3>3. QED
        BY <3>2, InitHeap, ConfigAssumption
    <2>2. QED
      BY <2>1, InitHeap DEF Init, SlotsInv
  <1>5. TablesInv
    BY DEF Init, TablesInv, IsInjective
  <1>6. ConfigInv
    <2>1. ASSUME NEW j \in 1..Len(config)
          PROVE  j <= nschema /\ \A k \in 1..j : heap[slots[k - 1]] = config[k]
      <3>1. j <= nschema /\ \A k \in 1..j : k - 1 \in 0..(nschema - 1) /\ (k - 1) + 1 = k
        BY <1>1, InitHeap
      <3>2. QED
        BY <3>1, InitHeap
    <2>2. QED
      BY <2>1 DEF Init, ConfigInv
  <1>7. QED
    BY <1>2, <1>3, <1>4, <1>5, <1>6 DEF Init, IInv

LEMMA Invariance == Spec => []IInv
  <1>1. IInv /\ [Next]_vars => IInv'
    <2> SUFFICES ASSUME IInv, [Next]_vars PROVE IInv'
      OBVIOUS
    <2>1. TypeOK' /\ ReaderInv' /\ FaultInv'
      BY TypeStep, ReaderStep, CrashStep
    <2>2. Live' => SlotsInv' /\ CrashInv' /\ TablesInv' /\ CopyInv' /\ FitInv' /\ ConfigInv'
      BY SlotsStep, CrashStep, TablesStep, CopyStep, FitStep, ConfigStep
    <2>3. QED
      BY <2>1, <2>2, ExitStep DEF IInv
  <1>2. QED
    BY InitIInv, <1>1, PTL DEF Spec

-----------------------------------------------------------------------------
(* The results *)

\* Every variable keeps its type; in particular the count of columns stays
\* within the array that schema_init allocated, and so does every index of a
\* generator, and the names ALTERs make are col0 to col(Capacity - 1).
THEOREM TypeCorrect == Spec => []TypeOK
  BY Invariance, PTL DEF IInv

\* A generator of cq_sql_gen.c reads a column that is not there, or crashes on
\* it, only after drop_table_data has freed one since the generator read the
\* number of columns, or at the last column of a number it read between the
\* free and the count of drop_table_data: an ADD beside it never does harm.
THEOREM CrashOnlyAfterDrop == Spec => []CrashNeedsDrop
  <1>1. ASSUME IInv PROVE CrashNeedsDrop
    <2> SUFFICES ASSUME NEW r \in Readers, dropMet[r] # "since"
                 PROVE  /\ proc = "faulted" /\ culprit = r =>
                              dropMet[r] = "mid" /\ i[r] + 1 = n[r]
                        /\ \A k \in 1..Len(sql[r]) : sql[r][k] = Garbage =>
                              dropMet[r] = "mid" /\ k = n[r]
      BY DEF CrashNeedsDrop
    <2>0. /\ n[r] \in Nat /\ i[r] \in Nat /\ i[r] <= n[r] /\ Len(sql[r]) = i[r]
          /\ pc[r] = "use" => i[r] < n[r]
          /\ pc[r] = "idle" => sql[r] = <<>>
          /\ proc = "exited" => pc[r] = "idle"
      BY <1>1, BoundsType DEF IInv, TypeOK, ReaderInv
    <2>1. ASSUME proc = "faulted", culprit = r
          PROVE  dropMet[r] = "mid" /\ i[r] + 1 = n[r]
      BY <1>1, <2>0, <2>1 DEF IInv, FaultInv, Sure
    <2>2. ASSUME NEW k \in 1..Len(sql[r]), sql[r][k] = Garbage
          PROVE  dropMet[r] = "mid" /\ k = n[r]
      <3>1. pc[r] # "idle" /\ Live
        BY <2>0, <2>2 DEF Live
      <3>2. k > Sure(r)
        BY <1>1, <2>2, <3>1 DEF IInv, CrashInv
      <3>3. QED
        BY <2>0, <2>2, <3>2 DEF Sure
    <2>3. QED
      BY <2>1, <2>2
  <1>2. QED
    BY <1>1, Invariance, PTL

\* Between two ALTERs the schema points at every allocated column, each once,
\* and at none that was freed, so that schema_destroy of clean_env leaves
\* nothing behind and frees nothing twice.
THEOREM HeapMatchesSchema == Spec => []NoLeakNoDangling
  <1>1. ASSUME IInv PROVE NoLeakNoDangling
    <2>1. ASSUME AlterAt("idle")
          PROVE  /\ InSchema = {d \in Data : heap[d] # Free}
                 /\ \A j, k \in 0..(nschema - 1) : slots[j] = slots[k] => j = k
      <3>1. SlotsInv /\ apc = "idle"
        BY <1>1, <2>1 DEF IInv, Live, AlterAt
      <3>2. QED
        BY <3>1 DEF SlotsInv, InSchema
    <2>2. QED
      BY <1>1, <2>1 DEF IInv, NoLeakNoDangling
  <1>2. QED
    BY <1>1, Invariance, PTL

\* While one table uses the schema and no ADD was refused, a statement that no
\* ALTER ran beside names exactly the columns of the table, in its order.
THEOREM StatementsMatch == Spec => []StatementsFit
  <1>1. ASSUME IInv PROVE StatementsFit
    <2> SUFFICES ASSUME NEW r \in Engines, pc[r] = "query", tables = {target[r]},
                        ~alteredSince[r], ~addFailed
                 PROVE  sql[r] = dbcols[target[r]]
      BY DEF StatementsFit
    <2>1. r \in Readers /\ TypeOK /\ Live
      BY <1>1 DEF Readers, IInv, Live
    <2>2. target[r] \in Tables
      BY <1>1, <2>1 DEF IInv, ReaderInv
    <2>3. /\ apc = "idle" /\ Len(sql[r]) = nschema
          /\ \A k \in 1..nschema : sql[r][k] = heap[slots[k - 1]]
      BY <1>1, <2>1 DEF IInv, CopyInv
    <2>4. /\ Len(dbcols[target[r]]) = nschema
          /\ \A k \in 1..nschema : dbcols[target[r]][k] = heap[slots[k - 1]]
      BY <1>1, <2>1, <2>2, <2>3 DEF IInv, FitInv, Agreed
    <2>5. sql[r] \in Seq(Columns) /\ dbcols[target[r]] \in Seq(Columns)
      BY <2>1, <2>2 DEF TypeOK
    <2>6. QED
      BY <2>3, <2>4, <2>5, SeqEqual
  <1>2. QED
    BY <1>1, Invariance, PTL

\* What a step leaves in a table: only AlterDropQuery takes a column away, and
\* that one is named "col...".
LEMMA TableKeeps ==
    ASSUME IInv, [Next]_vars, NEW c \in Names, c[1] # "col", NEW t \in Tables,
           c \in ToSet(dbcols[t])
    PROVE  c \in ToSet(dbcols'[t])
  <1>1. CASE UNCHANGED dbcols
    BY <1>1
  <1>2. CASE CreateTable
    <2>1. TypeOK /\ TablesInv /\ target[Creator] \notin tables
      BY <1>2 DEF CreateTable, At, IInv, Live
    <2>2. dbcols[t] # <<>>
      BY DEF ToSet
    <2>3. t # target[Creator]
      BY <2>1, <2>2 DEF TablesInv
    <2>4. QED
      BY <1>2, <2>1, <2>3 DEF CreateTable, TypeOK
  <1>3. CASE AlterAddQuery
    <2>1. TypeOK /\ SlotsInv /\ apc = "add"
      BY <1>3 DEF AlterAddQuery, AlterAt, IInv, Live
    <2>2. LastColumn \in Columns /\ atable \in Tables
      BY <2>1, LastColumnName DEF SlotsInv, Columns, TypeOK
    <2>3. dbcols[t] \in Seq(Columns)
      BY <2>1 DEF TypeOK
    <2>4. c \in ToSet(Append(dbcols[t], LastColumn))
      BY <2>2, <2>3 DEF ToSet
    <2>5. QED
      BY <1>3, <2>1, <2>2, <2>4 DEF AlterAddQuery, TypeOK
  <1>4. ASSUME NEW u \in tables, AlterDropQuery(u) PROVE c \in ToSet(dbcols'[t])
    <2>1. TypeOK
      BY DEF IInv
    <2>2. PICK p \in DOMAIN dbcols[u] :
             /\ dbcols[u][p][1] = "col"
             /\ dbcols' = [dbcols EXCEPT ![u] = RemoveAt(dbcols[u], p)]
      BY <1>4 DEF AlterDropQuery, MayDrop
    <2>3. dbcols[t] \in Seq(Columns)
      BY <2>1 DEF TypeOK
    <2>4. CASE u # t
      BY <2>1, <2>2, <2>4 DEF TypeOK
    <2>5. CASE u = t
      <3>1. PICK x \in DOMAIN dbcols[t] : dbcols[t][x] = c
        BY DEF ToSet
      <3>2. x # p /\ x \in 1..Len(dbcols[t]) /\ p \in 1..Len(dbcols[t])
        BY <2>2, <2>3, <2>5, <3>1
      <3>3. /\ RemoveAt(dbcols[t], p) \in Seq(Columns)
            /\ Len(RemoveAt(dbcols[t], p)) = Len(dbcols[t]) - 1
            /\ \A j \in 1..(Len(dbcols[t]) - 1) :
                  RemoveAt(dbcols[t], p)[j] = IF j < p THEN dbcols[t][j] ELSE dbcols[t][j + 1]
        BY <2>3, <3>2, RemoveAtType
      <3>4. \E j \in 1..(Len(dbcols[t]) - 1) : RemoveAt(dbcols[t], p)[j] = c
        <4>1. CASE x < p
          BY <2>3, <3>1, <3>2, <3>3, <4>1
        <4>2. CASE p < x
          <5>1. x - 1 \in 1..(Len(dbcols[t]) - 1) /\ ~(x - 1 < p) /\ (x - 1) + 1 = x
            BY <2>3, <3>2, <4>2
          <5>2. QED
            BY <3>1, <3>3, <5>1
        <4>3. QED
          BY <3>2, <4>1, <4>2
      <3>5. c \in ToSet(RemoveAt(dbcols[t], p))
        BY <3>3, <3>4 DEF ToSet
      <3>6. QED
        BY <2>1, <2>2, <2>5, <3>5 DEF TypeOK
    <2>6. QED
      BY <2>4, <2>5
  <1>5. QED
    BY <1>1, <1>2, <1>3, <1>4
       DEF Next, Generate, GenStart, GenLoad, GenUse, GenUseGarbage, AddColumn,
           GenUseFaults, GenEnd, QueryOver, Alter, add_table_data, AlterDropFails,
           schema_add, AddRefused, StoreSlot, CountSlot, AlterAddFails,
           drop_table_data_free, drop_table_data_count, clean_env, Ended, vars

\* No ALTER takes a configured column that is not named "col..." away, from
\* the schema or from a table, nor one configured before it from the schema.
THEOREM ConfiguredColumnsStay == Spec => ConfiguredStay
  <1> DEFINE Stays ==
          \A k \in 1..Len(config) :
              (\E j \in k..Len(config) : config[j][1] # "col") /\ proc' = "running"
                  => /\ k <= nschema' /\ heap'[slots'[k - 1]] = config[k]
                     /\ config[k][1] # "col" =>
                            \A t \in Tables : config[k] \in ToSet(dbcols[t])
                                                  => config[k] \in ToSet(dbcols'[t])
  <1>1. ASSUME IInv, IInv', [Next]_vars PROVE Stays
    <2> SUFFICES ASSUME NEW k \in 1..Len(config), proc' = "running",
                        NEW j \in k..Len(config), config[j][1] # "col"
                 PROVE  /\ k <= nschema' /\ heap'[slots'[k - 1]] = config[k]
                        /\ config[k][1] # "col" =>
                               \A t \in Tables : config[k] \in ToSet(dbcols[t])
                                                     => config[k] \in ToSet(dbcols'[t])
      OBVIOUS
    <2>1. config \in Seq(Names) /\ config' = config
      <3>1. config' = config
        BY <1>1, NextCases, StepOfReader, StepOfAlter
           DEF IInv, clean_env, vars, schema
      <3>2. QED
        BY <1>1, <3>1, ConfigAssumption DEF IInv, TypeOK
    <2>2. ConfigInv' /\ nschema' \in 0..Capacity
      BY <1>1 DEF IInv, Live, TypeOK
    <2>3. PICK m \in 0..Capacity : nschema' = m
      BY <2>2
    <2>4. /\ m \in Nat /\ k \in Nat /\ j \in Nat /\ k <= j
          /\ j \in 1..Len(config) /\ k \in 1..j
      BY <2>1, BoundsType
    <2>5. j <= m /\ heap'[slots'[k - 1]] = config[k]
      BY <2>1, <2>2, <2>3, <2>4 DEF ConfigInv
    <2>6. k <= nschema'
      BY <2>3, <2>4, <2>5
    <2>7. config[k] \in Names
      BY <2>1
    <2>8. QED
      BY <1>1, <2>5, <2>6, <2>7, TableKeeps
  <1>2. IInv /\ IInv' /\ [Next]_vars => [Stays]_vars
    BY <1>1
  <1>3. QED
    BY <1>2, Invariance, PTL DEF Spec, ConfiguredStay
=============================================================================
