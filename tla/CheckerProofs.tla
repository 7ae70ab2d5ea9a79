--------------------------- MODULE CheckerProofs ---------------------------
(***************************************************************************)
(* Checker for any number of engines, servers, keys, columns and faults:   *)
(* what an abort, a crash and a passed SELECT of mysql_select show.        *)
(***************************************************************************)
EXTENDS Checker, WellFoundedInduction, SequenceTheorems, TLAPS

\* A traversal has a seed of its own, and the row of the write server while
\* it is compared.
PlaceInv ==
    \A t \in Engines :
        /\ pc[t] # "idle" => seed_base[t] \in 1..engine_frandom_seed
        /\ seed_base[t] <= engine_frandom_seed
        /\ \A u \in Engines : seed_base[t] = seed_base[u] => t = u \/ seed_base[t] = 0
        /\ pc[t] \in {"verify", "verified"} <=> wrow[t] # NoRow

\* An ALTER under way is of an added column.
AlterInv == apc # "idle" => nschema > ConfigCols

\* The servers agree on the rows that no fault has touched.
SyncInv == \A k \in Keys \ diverged : \A r, s \in Servers : db[r][k] = db[s][k]

\* Another seed that was given out has the key of the traversal's row.
Shared(t) == \E s \in 1..engine_frandom_seed : s # seed_base[t] /\ key_of[s] = Key(t)

\* While a row that is the engine's own is compared, every server has it with
\* the values the write server gave, but for columns that ALTERs renewed.
OwnRowInv ==
    \A t \in Engines :
        pc[t] = "verify" /\ Key(t) \notin diverged /\ ~Shared(t) =>
            \A s \in Servers :
                /\ db[s][Key(t)] # NoRow
                /\ \A c \in Columns(sql[t].n) \cap dbcols :
                      wrow[t][c] = Null \/ db[s][Key(t)][c] \in {Null, wrow[t][c]}

\* While nothing disturbs the SELECT, every server has just that row.
UndisturbedInv ==
    \A t \in Engines :
        pc[t] = "verify" /\ ~disturbed[t] /\ Key(t) \notin diverged =>
            \A s \in Servers :
                /\ db[s][Key(t)] # NoRow
                /\ \A c \in Columns(sql[t].n) : db[s][Key(t)][c] = wrow[t][c]

\* The servers compared so far agree as long as nothing disturbs the SELECT.
AnsweredInv ==
    \A t \in Engines :
        pc[t] \in {"verify", "verified"} /\ ~disturbed[t] =>
            \A s \in answered[t] : Agrees(wrow[t], db[s][Key(t)])

IInv ==
    /\ TypeOK /\ PlaceInv /\ AlterInv /\ SyncInv
    /\ OwnRowInv /\ UndisturbedInv /\ AnsweredInv
    /\ NoFalseAlarm /\ FaultNeedsDisturbance

-----------------------------------------------------------------------------
(* Comparing rows *)

\* The CHOOSE of CompareRows finds a field.
LEMMA LeastField ==
    ASSUME NEW S \in SUBSET Nat, S # {}
    PROVE  \E c \in S : \A d \in S : c <= d
  <1>1. PICK c \in S : \A d \in S : ~(<<d, c>> \in OpToRel(<, Nat))
    BY NatLessThanWellFounded, WFMin
  <1>2. \A d \in S : ~(d < c)
    BY <1>1 DEF OpToRel
  <1>3. QED
    BY <1>2

\* A string begins with itself.
LEMMA PrefixOfItself ==
    ASSUME NEW w \in Strings
    PROVE  SamePrefix(w, w)
  <1>1. w \in Seq(Nat)
    BY ValueAssumption
  <1>2. QED
    BY <1>1, SubSeqFull DEF SamePrefix

\* What the outcome of a comparison says of the rows: "equal" of all fields,
\* otherwise of one.
LEMMA CompareOutcome ==
    ASSUME NEW cols \in SUBSET Nat, NEW w \in Rows(cols), NEW r
    PROVE  /\ CompareRows(w, r) = "equal" => Agrees(w, r)
           /\ CompareRows(w, r) = "abort" =>
                 \/ r = NoRow
                 \/ \E c \in cols : w[c] # Null /\ r[c] # Null /\ ~SamePrefix(w[c], r[c])
           /\ CompareRows(w, r) \notin {"equal", "abort"} =>
                 r # NoRow /\ \E c \in cols : w[c] # Null /\ r[c] = Null
  <1>1. CASE r = NoRow
    BY <1>1 DEF CompareRows
  <1>2. CASE r # NoRow
    <2> DEFINE differs == {c \in DOMAIN w : Compare(w[c], r[c]) # "equal"}
               first == CHOOSE c \in differs : \A d \in differs : c <= d
    <2>1. DOMAIN w = cols
      BY DEF Rows
    <2>2. CASE differs = {}
      <3>1. CompareRows(w, r) = "equal"
        BY <1>2, <2>2 DEF CompareRows
      <3>2. \A c \in cols : Compare(w[c], r[c]) = "equal"
        BY <2>1, <2>2
      <3>3. \A c \in cols : w[c] = Null \/ (r[c] # Null /\ SamePrefix(w[c], r[c]))
        BY <3>2 DEF Compare
      <3>4. Agrees(w, r)
        BY <1>2, <2>1, <3>3 DEF Agrees
      <3>5. QED
        BY <3>1, <3>4
    <2>3. CASE differs # {}
      <3>1. first \in differs
        <4>1. \E c \in differs : \A d \in differs : c <= d
          BY <2>1, <2>3, LeastField
        <4>2. QED
          BY <4>1
      <3>2. CompareRows(w, r) = Compare(w[first], r[first])
        BY <1>2, <2>3 DEF CompareRows
      <3> HIDE DEF first
      <3>3. first \in cols /\ Compare(w[first], r[first]) # "equal"
        BY <2>1, <3>1
      <3>4. QED
        BY <1>2, <3>2, <3>3 DEF Compare
    <2>4. QED
      BY <2>2, <2>3
  <1>3. QED
    BY <1>1, <1>2

-----------------------------------------------------------------------------
(* What a step leaves alone *)

LEMMA BoundsType ==
    /\ MaxSeed \in Nat /\ MaxAlters \in Nat /\ MaxDiverge \in Nat
    /\ ConfigCols \in Nat /\ Capacity \in Nat /\ ConfigCols <= Capacity
    /\ Len(ReadSeq) \in Nat
  BY CheckerBounds, SchemaAssumption, ServerAssumption

LEMMA ServersType ==
    /\ WriteServers \subseteq Servers /\ ReadServers \subseteq Servers
    /\ \A j \in 1..Len(ReadSeq) : ReadSeq[j] \in ReadServers
  BY DEF Servers, ReadServers

\* A write to the database, of engine t.
Writes(t) == mysql_insert(t) \/ mysql_delete(t) \/ mysql_update(t)

\* An engine changes no other engine's state, and no column; a write leaves
\* the other keys alone and the marks of the SELECTs that it disturbs.
LEMMA StepOfEngine ==
    ASSUME TypeOK, NEW t \in Engines, Engine(t)
    PROVE  /\ proc = "running" /\ UNCHANGED <<key_of, alter, dbcols, diverged>>
           /\ engine_frandom_seed' \in {engine_frandom_seed, engine_frandom_seed + 1}
           /\ \A u \in Engines \ {t} :
                 /\ pc'[u] = pc[u] /\ sql'[u] = sql[u] /\ seed_base'[u] = seed_base[u]
                 /\ wrow'[u] = wrow[u] /\ answered'[u] = answered[u]
                 /\ write_server'[u] = write_server[u] /\ i'[u] = i[u]
                 /\ disturbed'[u] <=>
                       disturbed[u] \/ (Writes(t) /\ Selecting(u) /\ Key(u) = Key(t))
           /\ Writes(t) \/ UNCHANGED db
           /\ Writes(t) => pc[t] = "query" /\ UNCHANGED <<proc, culprit, traversal, engine_frandom_seed>>
  <1> USE DEF TypeOK, At, Goto, Running, StatementOver, traversal, select, alter, external
  <1>1. CASE StartTraversal(t) \/ EndTraversal(t)
    BY <1>1 DEF StartTraversal, EndTraversal, Writes, mysql_insert, mysql_delete,
                mysql_update, Querying
  <1>2. CASE \E cmd \in Cmds : Gen(t, cmd)
    BY <1>2 DEF Gen, Writes, mysql_insert, mysql_delete, mysql_update, Querying
  <1>3. CASE Writes(t)
    BY <1>3 DEF Writes, mysql_insert, mysql_delete, mysql_update, Querying, AfterWrite
  <1>4. CASE ~Writes(t) /\ (QueryFails(t) \/ SelectWrite(t) \/ SelectReturns(t))
    <2>1. CASE QueryFails(t)
      BY <1>4, <2>1 DEF QueryFails
    <2>2. CASE SelectWrite(t)
      BY <1>4, <2>2 DEF SelectWrite, Querying
    <2>3. CASE SelectReturns(t)
      BY <1>4, <2>3 DEF SelectReturns
    <2>4. QED
      BY <1>4, <2>1, <2>2, <2>3
  <1>5. CASE ~Writes(t) /\ (VerifySkip(t) \/ VerifyCompare(t) \/ VerifyEnd(t))
    BY <1>5 DEF VerifySkip, VerifyCompare, VerifyEnd
  <1>6. QED
    BY <1>1, <1>2, <1>3, <1>4, <1>5 DEF Engine, Writes

\* The row of a traversal has a key.
LEMMA KeyType ==
    ASSUME TypeOK, PlaceInv, NEW t \in Engines, pc[t] # "idle"
    PROVE  Key(t) \in Keys
  BY BoundsType, KeyAssumption DEF TypeOK, PlaceInv, Key, Seeds

\* A write changes the row of its key only, and on all servers alike.
LEMMA WriteEffect ==
    ASSUME TypeOK, PlaceInv, NEW t \in Engines, Writes(t)
    PROVE  /\ db' \in [Servers -> [Keys -> {NoRow} \cup Rows(dbcols)]]
           /\ \A s \in Servers, k \in Keys : k # Key(t) => db'[s][k] = db[s][k]
           /\ \A r, s \in Servers : db[r][Key(t)] = db[s][Key(t)] => db'[r][Key(t)] = db'[s][Key(t)]
  <1> DEFINE K == Key(t)
             Effect(row) == /\ db' = [s \in Servers |-> [db[s] EXCEPT ![K] = row[s]]]
                            /\ \A s \in Servers : row[s] \in {NoRow} \cup Rows(dbcols)
                            /\ \A r, s \in Servers : db[r][K] = db[s][K] => row[r] = row[s]
  <1>1. K \in Keys /\ db \in [Servers -> [Keys -> {NoRow} \cup Rows(dbcols)]]
    <2>1. pc[t] # "idle"
      BY DEF Writes, mysql_insert, mysql_delete, mysql_update, Querying, At
    <2>2. QED
      BY <2>1, KeyType DEF TypeOK
  <1> HIDE DEF K
  <1>2. SUFFICES \E row : Effect(row)
    <2>1. ASSUME NEW row, Effect(row)
          PROVE  /\ db' \in [Servers -> [Keys -> {NoRow} \cup Rows(dbcols)]]
                 /\ \A s \in Servers, k \in Keys : k # K => db'[s][k] = db[s][k]
                 /\ \A r, s \in Servers : db[r][K] = db[s][K] => db'[r][K] = db'[s][K]
      BY <1>1, <2>1
    <2>2. QED
      BY <2>1 DEF K
  <1>3. CASE mysql_insert(t)
    <2>1. PICK row \in [dbcols -> Strings] :
             db' = [s \in Servers |-> [db[s] EXCEPT ![K] = [r \in Servers |-> row][s]]]
      BY <1>3 DEF mysql_insert, Replicate, K
    <2>2. row \in Rows(dbcols)
      BY DEF Rows
    <2>3. Effect([r \in Servers |-> row])
      BY <2>1, <2>2
    <2>4. QED
      BY <2>3
  <1>4. CASE mysql_delete(t)
    <2>1. Effect([s \in Servers |-> NoRow])
      BY <1>4 DEF mysql_delete, Replicate, K
    <2>2. QED
      BY <2>1
  <1>5. CASE mysql_update(t)
    <2> DEFINE Updated(new, s) ==
                  IF db[s][K] = NoRow THEN NoRow
                  ELSE [c \in dbcols |-> IF c \in DOMAIN new THEN new[c] ELSE db[s][K][c]]
    <2>1. PICK new \in [Columns(sql[t].n) -> Strings] :
             db' = [s \in Servers |-> [db[s] EXCEPT ![K] = [r \in Servers |-> Updated(new, r)][s]]]
      BY <1>5 DEF mysql_update, Replicate, K
    <2>2. ASSUME NEW s \in Servers PROVE Updated(new, s) \in {NoRow} \cup Rows(dbcols)
      BY <1>1 DEF Rows
    <2>3. Effect([r \in Servers |-> Updated(new, r)])
      BY <2>1, <2>2
    <2>4. QED
      BY <2>3
  <1>6. QED
    BY <1>3, <1>4, <1>5 DEF Writes

\* An ALTER or a fault is marked at every SELECT it could disturb.
LEMMA StepOfRest ==
    ASSUME Alter \/ \E s \in Servers, k \in Keys : Diverge(s, k)
    PROVE  /\ proc = "running" /\ diverged \subseteq diverged'
           /\ UNCHANGED <<proc, culprit, engine_frandom_seed, pc, traversal, sql, select>>
           /\ \/ UNCHANGED <<disturbed, external>>
              \/ disturbed' = [t \in Engines |-> Selecting(t)]
  BY DEF Alter, AlterAddSchema, AlterAddQuery, AlterAddFails, AlterDropQuery,
         AlterDropSchema, AlterAt, NotAltering, Diverge, Running, Disturb, external

\* Every row keeps the values of the columns that stay.
LEMMA WithColumnsType ==
    ASSUME TypeOK, NEW cols
    PROVE  /\ WithColumns(cols) \in [Servers -> [Keys -> {NoRow} \cup Rows(cols)]]
           /\ \A s \in Servers, k \in Keys :
                 WithColumns(cols)[s][k] =
                     IF db[s][k] = NoRow THEN NoRow
                     ELSE [c \in cols |-> IF c \in dbcols THEN db[s][k][c] ELSE Null]
  <1>1. ASSUME NEW s \in Servers, NEW k \in Keys, db[s][k] # NoRow
        PROVE  [c \in cols |-> IF c \in dbcols THEN db[s][k][c] ELSE Null] \in Rows(cols)
    BY <1>1 DEF TypeOK, Rows
  <1>2. QED
    BY <1>1 DEF WithColumns

-----------------------------------------------------------------------------
(* Types *)

LEMMA StatementType ==
    ASSUME TypeOK, NEW cmd \in Cmds
    PROVE  /\ sql_gen(cmd) \in [cmd : Cmds, n : 0..Capacity]
           /\ NoSql \in [cmd : Cmds, n : 0..Capacity]
  <1>1. nschema \in 0..Capacity /\ 0 \in 0..Capacity
    BY BoundsType DEF TypeOK
  <1>2. QED
    BY <1>1 DEF sql_gen, insert_gen, delete_gen, update_gen, select_gen, Cmds, NoSql

\* What the write server and the read servers answer is a row, or none.
LEMMA AnswerType ==
    ASSUME TypeOK, PlaceInv, NEW t \in Engines, pc[t] # "idle", NEW s \in Servers,
           Columns(sql[t].n) \subseteq dbcols
    PROVE  /\ Answer(s, t) \in {NoRow} \cup Rows(Columns(sql[t].n))
           /\ Answer(s, t) = NoRow <=> db[s][Key(t)] = NoRow
           /\ db[s][Key(t)] # NoRow =>
                 \A c \in Columns(sql[t].n) : Answer(s, t)[c] = db[s][Key(t)][c]
  <1> DEFINE C == Columns(sql[t].n)
             row == db[s][Key(t)]
  <1>1. row \in {NoRow} \cup Rows(dbcols)
    BY KeyType DEF TypeOK
  <1>2. CASE row = NoRow
    BY <1>2 DEF Answer
  <1>3. CASE row # NoRow
    <2>1. Answer(s, t) = [c \in C |-> row[c]]
      BY <1>3 DEF Answer
    <2>2. [c \in C |-> row[c]] \in Rows(C)
      BY <1>1, <1>3 DEF Rows
    <2>3. C \in SUBSET Columns(Capacity)
      BY DEF TypeOK
    <2>4. NoRow \notin Rows(C)
      BY <2>3, ValueAssumption
    <2>5. Answer(s, t) \in Rows(C) /\ Answer(s, t) # NoRow
      BY <2>1, <2>2, <2>4
    <2>6. QED
      BY <1>3, <2>1, <2>5
  <1>4. QED
    BY <1>2, <1>3

LEMMA TypeEngine ==
    ASSUME IInv, NEW t \in Engines, Engine(t)
    PROVE  TypeOK'
  <1>0. TypeOK /\ PlaceInv
    BY DEF IInv
  <1> USE <1>0, BoundsType DEF TypeOK, At, Running, Goto, traversal, select, alter, external
  <1>1. CASE StartTraversal(t)
    <2>1. engine_frandom_seed + 1 \in 0..MaxSeed
      BY <1>1 DEF StartTraversal
    <2>2. QED
      BY <1>1, <2>1 DEF StartTraversal
  <1>2. CASE EndTraversal(t)
    BY <1>2 DEF EndTraversal
  <1>3. ASSUME StatementOver(t), UNCHANGED <<wrow, nschema>>, wrow[t] = NoRow
        PROVE  /\ pc' \in [Engines -> {"idle", "list", "query", "absent", "verify", "verified"}]
               /\ sql' \in [Engines -> [cmd : Cmds, n : 0..Capacity]]
               /\ \A u \in Engines : wrow'[u] \in {NoRow} \cup Rows(Columns(sql'[u].n))
    BY <1>3, StatementType DEF StatementOver, Cmds
  <1>4. CASE \E cmd \in Cmds : Gen(t, cmd)
    <2>1. PICK cmd \in Cmds : Gen(t, cmd)
      BY <1>4
    <2>2. sql' \in [Engines -> [cmd : Cmds, n : 0..Capacity]]
      BY <2>1, StatementType DEF Gen
    <2>3. wrow[t] = NoRow
      BY <2>1 DEF Gen, PlaceInv
    <2>4. \A u \in Engines : wrow'[u] \in {NoRow} \cup Rows(Columns(sql'[u].n))
      BY <2>1, <2>3 DEF Gen
    <2>5. QED
      BY <2>1, <2>2, <2>4 DEF Gen
  <1>5. CASE QueryFails(t)
    BY <1>3, <1>5 DEF QueryFails, PlaceInv
  <1>6. CASE Writes(t)
    <2>1. db' \in [Servers -> [Keys -> {NoRow} \cup Rows(dbcols)]]
      BY <1>6, WriteEffect
    <2>2. pc[t] = "query" /\ AfterWrite(t)
      BY <1>6 DEF Writes, mysql_insert, mysql_delete, mysql_update, Querying
    <2>3. disturbed' \in [Engines -> BOOLEAN]
      BY <2>2 DEF AfterWrite
    <2>4. QED
      BY <1>3, <2>1, <2>2, <2>3 DEF AfterWrite, PlaceInv
  <1>7. CASE SelectWrite(t)
    <2> DEFINE a == Answer(write_server[t], t)
    <2>1. a \in {NoRow} \cup Rows(Columns(sql[t].n))
      BY <1>7, AnswerType, ServersType DEF SelectWrite, Querying
    <2> HIDE DEF a
    <2>2. /\ wrow' = [wrow EXCEPT ![t] = a] /\ UNCHANGED sql
      BY <1>7 DEF SelectWrite, a
    <2>3. /\ DOMAIN wrow' = Engines
          /\ \A u \in Engines : wrow'[u] \in {NoRow} \cup Rows(Columns(sql'[u].n))
      BY <2>1, <2>2
    <2>4. pc' \in [Engines -> {"idle", "list", "query", "absent", "verify", "verified"}]
      BY <1>7 DEF SelectWrite
    <2>5. /\ i' \in [Engines -> 1..(Len(ReadSeq) + 1)]
          /\ answered' \in [Engines -> SUBSET ReadServers]
          /\ disturbed' \in [Engines -> BOOLEAN]
      BY <1>7 DEF SelectWrite
    <2>6. QED
      BY <1>7, <2>3, <2>4, <2>5 DEF SelectWrite
  <1>8. CASE VerifySkip(t)
    BY <1>8 DEF VerifySkip
  <1>9. CASE VerifyCompare(t)
    <2>1. i[t] \in 1..Len(ReadSeq) /\ i[t] + 1 \in 1..(Len(ReadSeq) + 1)
      BY <1>9 DEF VerifyCompare
    <2>2. answered[t] \cup {ReadSeq[i[t]]} \in SUBSET ReadServers
      BY <2>1, ServersType
    <2>3. CASE CompareRows(wrow[t], Answer(ReadSeq[i[t]], t)) = "equal"
      <3>1. /\ i' = [i EXCEPT ![t] = i[t] + 1]
            /\ answered' = [answered EXCEPT ![t] = answered[t] \cup {ReadSeq[i[t]]}]
            /\ UNCHANGED <<proc, culprit>>
        BY <1>9, <2>3 DEF VerifyCompare
      <3>2. /\ i' \in [Engines -> 1..(Len(ReadSeq) + 1)]
            /\ answered' \in [Engines -> SUBSET ReadServers]
        BY <2>1, <2>2, <3>1
      <3>3. QED
        BY <1>9, <3>1, <3>2 DEF VerifyCompare
    <2>4. CASE CompareRows(wrow[t], Answer(ReadSeq[i[t]], t)) # "equal"
      BY <1>9, <2>4 DEF VerifyCompare
    <2>5. QED
      BY <2>3, <2>4
  <1>10. CASE VerifyEnd(t)
    BY <1>10 DEF VerifyEnd
  <1>11. CASE SelectReturns(t)
    <2>1. /\ sql' \in [Engines -> [cmd : Cmds, n : 0..Capacity]]
          /\ \A u \in Engines : wrow'[u] \in {NoRow} \cup Rows(Columns(sql'[u].n))
      BY <1>11, StatementType DEF SelectReturns, StatementOver, Cmds
    <2>2. QED
      BY <1>11, <2>1 DEF SelectReturns, StatementOver
  <1>12. QED
    BY <1>1, <1>2, <1>4, <1>5, <1>6, <1>7, <1>8, <1>9, <1>10, <1>11 DEF Engine, Writes

LEMMA TypeRest ==
    ASSUME IInv, Alter \/ \E s \in Servers, k \in Keys : Diverge(s, k)
    PROVE  TypeOK' /\ AlterInv'
  <1>0. TypeOK /\ AlterInv
    BY DEF IInv
  <1> USE <1>0, BoundsType DEF TypeOK, AlterInv, AlterAt, NotAltering, traversal, select
  <1>1. ASSUME Disturb PROVE disturbed' \in [Engines -> BOOLEAN]
    BY <1>1 DEF Disturb, Selecting
  <1>2. CASE AlterAddSchema
    BY <1>2 DEF AlterAddSchema
  <1>3. CASE AlterAddQuery
    <2>1. alter_add_gen \in Columns(Capacity)
      BY <1>3 DEF AlterAddQuery, alter_add_gen, Columns
    <2>2. dbcols' \subseteq Columns(Capacity)
      BY <1>3, <2>1 DEF AlterAddQuery
    <2>3. db' \in [Servers -> [Keys -> {NoRow} \cup Rows(dbcols')]]
      BY <1>3, WithColumnsType DEF AlterAddQuery
    <2>4. QED
      BY <1>1, <1>3, <2>2, <2>3 DEF AlterAddQuery
  <1>4. CASE AlterAddFails
    BY <1>4 DEF AlterAddFails
  <1>5. CASE AlterDropQuery
    <2>1. dbcols' \subseteq Columns(Capacity)
      BY <1>5 DEF AlterDropQuery
    <2>2. db' \in [Servers -> [Keys -> {NoRow} \cup Rows(dbcols')]]
      BY <1>5, WithColumnsType DEF AlterDropQuery
    <2>3. nalter' \in 0..MaxAlters
      BY <1>5 DEF AlterDropQuery
    <2>4. QED
      BY <1>1, <1>5, <2>1, <2>2, <2>3 DEF AlterDropQuery
  <1>6. CASE AlterDropSchema
    BY <1>6 DEF AlterDropSchema
  <1>7. ASSUME NEW s \in Servers, NEW k \in Keys, Diverge(s, k)
        PROVE  TypeOK' /\ AlterInv'
    <2>1. PICK row \in {NoRow} \cup [dbcols -> Strings] : db' = [db EXCEPT ![s][k] = row]
      BY <1>7 DEF Diverge
    <2>2. row \in {NoRow} \cup Rows(dbcols)
      BY DEF Rows
    <2>3. db' \in [Servers -> [Keys -> {NoRow} \cup Rows(dbcols)]]
      BY <2>1, <2>2
    <2>4. diverged' \subseteq Keys
      BY <1>7 DEF Diverge
    <2>5. QED
      BY <1>1, <1>7, <2>3, <2>4 DEF Diverge, alter
  <1>8. QED
    BY <1>2, <1>3, <1>4, <1>5, <1>6, <1>7 DEF Alter

\* A step is one of these.
LEMMA NextCases ==
    ASSUME [Next]_vars
    PROVE  \/ \E t \in Engines : Engine(t)
           \/ Alter \/ \E s \in Servers, k \in Keys : Diverge(s, k)
           \/ UNCHANGED vars
  BY DEF Next, Over

LEMMA TypeStep == IInv /\ [Next]_vars => TypeOK' /\ AlterInv'
  <1> SUFFICES ASSUME IInv, [Next]_vars PROVE TypeOK' /\ AlterInv'
    OBVIOUS
  <1>1. ASSUME NEW t \in Engines, Engine(t) PROVE TypeOK' /\ AlterInv'
    <2>1. TypeOK'
      BY <1>1, TypeEngine
    <2>2. AlterInv'
      BY <1>1, StepOfEngine DEF IInv, AlterInv, alter
    <2>3. QED
      BY <2>1, <2>2
  <1>2. ASSUME UNCHANGED vars PROVE TypeOK' /\ AlterInv'
    BY <1>2 DEF IInv, TypeOK, AlterInv, vars, traversal, select, alter, external
  <1>3. QED
    BY <1>1, <1>2, TypeRest, NextCases

-----------------------------------------------------------------------------
(* Seeds, rows and servers *)

LEMMA PlaceStep == IInv /\ [Next]_vars => PlaceInv'
  <1> SUFFICES ASSUME IInv, [Next]_vars PROVE PlaceInv'
    OBVIOUS
  <1>0. TypeOK /\ PlaceInv
    BY DEF IInv
  <1>1. ASSUME UNCHANGED <<pc, seed_base, engine_frandom_seed, wrow>> PROVE PlaceInv'
    BY <1>0, <1>1 DEF PlaceInv
  <1>2. ASSUME NEW t \in Engines, UNCHANGED <<seed_base, engine_frandom_seed>>,
               pc[t] # "idle", pc' = [pc EXCEPT ![t] = pc'[t]],
               wrow' = [wrow EXCEPT ![t] = wrow'[t]],
               pc'[t] \in {"verify", "verified"} <=> wrow'[t] # NoRow
        PROVE  PlaceInv'
    BY <1>0, <1>2 DEF PlaceInv, TypeOK
  <1>3. ASSUME NEW t \in Engines, Engine(t) PROVE PlaceInv'
    <2> USE <1>0 DEF At, Goto, traversal, select, StatementOver
    <2>1. CASE StartTraversal(t)
      <3> DEFINE f == engine_frandom_seed
      <3>1. /\ f \in Nat /\ f + 1 \in Nat /\ f + 1 # 0 /\ f + 1 \in 1..(f + 1)
            /\ \A u \in Engines : seed_base[u] \in Nat /\ seed_base[u] <= f
        BY BoundsType DEF TypeOK, PlaceInv
      <3>2. /\ engine_frandom_seed' = f + 1 /\ seed_base' = [seed_base EXCEPT ![t] = f + 1]
            /\ pc' = [pc EXCEPT ![t] = "list"] /\ UNCHANGED wrow /\ wrow[t] = NoRow
        BY <2>1 DEF StartTraversal, PlaceInv
      <3> HIDE DEF f
      <3>3. \A u \in Engines : /\ seed_base'[u] = IF u = t THEN f + 1 ELSE seed_base[u]
                               /\ pc'[u] = IF u = t THEN "list" ELSE pc[u]
        BY <3>2 DEF TypeOK
      <3>4. ASSUME NEW u \in Engines
            PROVE  /\ pc'[u] # "idle" => seed_base'[u] \in 1..(f + 1)
                   /\ seed_base'[u] <= f + 1
                   /\ \A v \in Engines : seed_base'[u] = seed_base'[v] => u = v \/ seed_base'[u] = 0
        <4>1. seed_base[u] < f + 1 /\ \A v \in Engines : seed_base[v] < f + 1
          BY <3>1
        <4>2. pc[u] # "idle" => seed_base[u] \in 1..(f + 1)
          BY <3>1 DEF PlaceInv
        <4>3. \A v \in Engines : seed_base[u] = seed_base[v] => u = v \/ seed_base[u] = 0
          BY DEF PlaceInv
        <4>4. QED
          BY <3>1, <3>3, <4>1, <4>2, <4>3
      <3>5. \A u \in Engines : pc'[u] \in {"verify", "verified"} <=> wrow'[u] # NoRow
        BY <3>2, <3>3 DEF PlaceInv
      <3>6. QED
        BY <3>2, <3>4, <3>5 DEF PlaceInv
    <2>2. CASE EndTraversal(t)
      BY <1>2, <2>2 DEF EndTraversal, PlaceInv, TypeOK
    <2>3. CASE \E cmd \in Cmds : Gen(t, cmd)
      BY <1>2, <2>3 DEF Gen, PlaceInv, TypeOK
    <2>4. CASE QueryFails(t)
      BY <1>2, <2>4 DEF QueryFails, PlaceInv, TypeOK
    <2>5. CASE Writes(t)
      <3>1. pc[t] = "query" /\ AfterWrite(t)
        BY <2>5 DEF Writes, mysql_insert, mysql_delete, mysql_update, Querying
      <3>2. QED
        BY <1>2, <3>1 DEF AfterWrite, PlaceInv, TypeOK
    <2>6. CASE SelectWrite(t)
      BY <1>2, <2>6 DEF SelectWrite, Querying, TypeOK
    <2>7. CASE VerifySkip(t) \/ VerifyCompare(t)
      BY <1>1, <2>7 DEF VerifySkip, VerifyCompare
    <2>8. CASE VerifyEnd(t)
      BY <1>2, <2>8 DEF VerifyEnd, PlaceInv, TypeOK
    <2>9. CASE SelectReturns(t)
      BY <1>2, <2>9 DEF SelectReturns, TypeOK
    <2>10. QED
      BY <1>3, <2>1, <2>2, <2>3, <2>4, <2>5, <2>6, <2>7, <2>8, <2>9 DEF Engine, Writes
  <1>4. QED
    BY <1>1, <1>3, StepOfRest, NextCases DEF traversal, select, vars

LEMMA SyncStep == IInv /\ [Next]_vars => SyncInv'
  <1> SUFFICES ASSUME IInv, [Next]_vars PROVE SyncInv'
    OBVIOUS
  <1>0. TypeOK /\ PlaceInv /\ SyncInv
    BY DEF IInv
  <1>1. ASSUME UNCHANGED <<db, diverged>> PROVE SyncInv'
    BY <1>0, <1>1 DEF SyncInv
  <1>2. ASSUME NEW t \in Engines, Engine(t) PROVE SyncInv'
    BY <1>0, <1>1, <1>2, StepOfEngine, WriteEffect DEF SyncInv
  <1>3. ASSUME NEW cols, db' = WithColumns(cols), UNCHANGED diverged PROVE SyncInv'
    <2> SUFFICES ASSUME NEW k \in Keys \ diverged, NEW r \in Servers, NEW s \in Servers
                 PROVE  db'[r][k] = db'[s][k]
      BY <1>3 DEF SyncInv
    <2> DEFINE Row(q) == IF db[q][k] = NoRow THEN NoRow
                         ELSE [c \in cols |-> IF c \in dbcols THEN db[q][k][c] ELSE Null]
    <2>1. WithColumns(cols)[r][k] = Row(r) /\ WithColumns(cols)[s][k] = Row(s)
      BY <1>0, WithColumnsType
    <2>2. db[r][k] = db[s][k]
      BY <1>0 DEF SyncInv
    <2>3. QED
      BY <1>3, <2>1, <2>2
  <1>4. ASSUME Alter PROVE SyncInv'
    BY <1>1, <1>3, <1>4
       DEF Alter, AlterAddSchema, AlterAddQuery, AlterAddFails, AlterDropQuery,
           AlterDropSchema, NotAltering
  <1>5. ASSUME NEW s \in Servers, NEW k \in Keys, Diverge(s, k) PROVE SyncInv'
    <2>1. \A r \in Servers, m \in Keys : m # k => db'[r][m] = db[r][m]
      BY <1>0, <1>5 DEF Diverge, TypeOK
    <2>2. QED
      BY <1>0, <1>5, <2>1 DEF Diverge, SyncInv
  <1>6. QED
    BY <1>1, <1>2, <1>4, <1>5, NextCases DEF vars, external

\* The row of a SELECT beside another engine's step: it changes only with a
\* mark, and only for a key that two seeds share.
LEMMA RowBesideEngine ==
    ASSUME IInv, NEW t \in Engines, Engine(t), NEW u \in Engines \ {t}, Selecting(u)
    PROVE  /\ Key(u)' = Key(u) /\ Key(u) \in Keys
           /\ Shared(u) => Shared(u)'
           /\ ~disturbed'[u] => ~disturbed[u]
           /\ ~disturbed'[u] \/ ~Shared(u)' => \A s \in Servers : db'[s][Key(u)] = db[s][Key(u)]
  <1>0. TypeOK /\ PlaceInv
    BY DEF IInv
  <1>1. Key(u)' = Key(u) /\ Key(u) \in Keys
    BY <1>0, StepOfEngine, KeyType DEF Key, Selecting
  <1>2. Shared(u) => Shared(u)'
    <2>1. /\ engine_frandom_seed \in Nat
          /\ engine_frandom_seed' \in {engine_frandom_seed, engine_frandom_seed + 1}
      BY <1>0, StepOfEngine, BoundsType DEF TypeOK
    <2>2. \A s \in 1..engine_frandom_seed : s \in 1..engine_frandom_seed'
      BY <2>1
    <2>3. UNCHANGED key_of /\ seed_base'[u] = seed_base[u]
      BY <1>0, StepOfEngine
    <2>4. QED
      BY <1>1, <2>2, <2>3 DEF Shared
  <1>3. CASE ~Writes(t)
    BY <1>0, <1>1, <1>2, <1>3, StepOfEngine
  <1>4. CASE Writes(t)
    <2>1. /\ disturbed'[u] <=> disturbed[u] \/ Key(u) = Key(t)
          /\ pc[t] = "query" /\ UNCHANGED <<traversal, engine_frandom_seed>>
      BY <1>0, <1>4, StepOfEngine
    <2>2. Key(u) = Key(t) => Shared(u)'
      <3>1. /\ seed_base[t] \in 1..engine_frandom_seed /\ seed_base[t] # 0
            /\ seed_base[t] # seed_base[u]
        BY <1>0, <2>1 DEF PlaceInv, TypeOK
      <3>2. QED
        BY <2>1, <3>1 DEF Shared, Key, traversal
    <2>3. Key(u) # Key(t) => \A s \in Servers : db'[s][Key(u)] = db[s][Key(u)]
      BY <1>0, <1>1, <1>4, WriteEffect
    <2>4. QED
      BY <1>1, <1>2, <2>1, <2>2, <2>3
  <1>5. QED
    BY <1>3, <1>4

\* ... and beside an ALTER or a fault.
LEMMA RowBesideRest ==
    ASSUME IInv, Alter \/ \E s \in Servers, k \in Keys : Diverge(s, k),
           NEW u \in Engines, Selecting(u)
    PROVE  /\ Key(u)' = Key(u) /\ (Shared(u)' <=> Shared(u)) /\ diverged \subseteq diverged'
           /\ ~disturbed'[u] => ~disturbed[u] /\ UNCHANGED external
  BY StepOfRest DEF Key, Shared, traversal

-----------------------------------------------------------------------------
(* The SELECT *)

\* A SELECT begins with the servers that agree, or with a row a fault touched.
LEMMA SelectBegins ==
    ASSUME IInv, NEW t \in Engines, SelectWrite(t), pc'[t] = "verify"
    PROVE  /\ wrow'[t] \in Rows(Columns(sql[t].n)) /\ Columns(sql[t].n) \subseteq dbcols
           /\ Key(t)' = Key(t) /\ UNCHANGED <<sql, external>> /\ answered'[t] = {}
           /\ Key(t) \notin diverged => \A s \in Servers :
                 /\ db[s][Key(t)] # NoRow
                 /\ \A c \in Columns(sql[t].n) : db[s][Key(t)][c] = wrow'[t][c]
  <1> DEFINE w == write_server[t]
             a == Answer(w, t)
  <1>0. TypeOK /\ PlaceInv /\ SyncInv
    BY DEF IInv
  <1>1. /\ w \in Servers /\ pc[t] # "idle" /\ Columns(sql[t].n) \subseteq dbcols
        /\ wrow'[t] = a /\ answered'[t] = {} /\ Key(t)' = Key(t) /\ UNCHANGED <<sql, external>>
    BY <1>0, ServersType DEF SelectWrite, Querying, At, TypeOK, Key, traversal
  <1>2. a # NoRow
    BY <1>0 DEF SelectWrite, Goto, TypeOK
  <1> HIDE DEF w
  <1>3. /\ a \in Rows(Columns(sql[t].n)) /\ db[w][Key(t)] # NoRow
        /\ \A c \in Columns(sql[t].n) : a[c] = db[w][Key(t)][c]
    BY <1>0, <1>1, <1>2, AnswerType
  <1>4. Key(t) \notin diverged => \A s \in Servers : db[s][Key(t)] = db[w][Key(t)]
    BY <1>0, <1>1, KeyType DEF SyncInv
  <1> HIDE DEF a
  <1>5. QED
    BY <1>1, <1>3, <1>4

\* What an engine's own step does to its SELECT.
LEMMA OwnStep ==
    ASSUME IInv, NEW t \in Engines, Engine(t), pc'[t] \in {"verify", "verified"}
    PROVE  \/ SelectWrite(t) /\ pc'[t] = "verify"
           \/ /\ pc[t] = "verify" /\ Key(t)' = Key(t) /\ disturbed'[t] = disturbed[t]
              /\ UNCHANGED <<sql, wrow, traversal, engine_frandom_seed, external>>
              /\ \/ VerifyCompare(t) /\ pc'[t] = "verify"
                 \/ answered'[t] = answered[t] /\ UNCHANGED proc
  <1>0. TypeOK /\ PlaceInv
    BY DEF IInv
  <1> USE <1>0 DEF TypeOK, At, Goto, Key, traversal, StatementOver, select
  <1>1. CASE SelectWrite(t)
    BY <1>1 DEF SelectWrite
  <1>2. CASE VerifySkip(t) \/ VerifyCompare(t) \/ VerifyEnd(t)
    BY <1>2 DEF VerifySkip, VerifyCompare, VerifyEnd
  <1>3. CASE StartTraversal(t) \/ EndTraversal(t) \/ (\E cmd \in Cmds : Gen(t, cmd)) \/ QueryFails(t)
    BY <1>3 DEF StartTraversal, EndTraversal, Gen, QueryFails
  <1>4. CASE Writes(t) \/ SelectReturns(t)
    BY <1>4 DEF Writes, mysql_insert, mysql_delete, mysql_update, AfterWrite, SelectReturns
  <1>5. QED
    BY <1>1, <1>2, <1>3, <1>4 DEF Engine, Writes

LEMMA OwnRowStep == IInv /\ [Next]_vars => OwnRowInv'
  <1> SUFFICES ASSUME IInv, [Next]_vars, NEW u \in Engines, pc'[u] = "verify",
                      Key(u)' \notin diverged', ~Shared(u)', NEW s \in Servers
               PROVE  /\ db'[s][Key(u)'] # NoRow
                      /\ \A c \in Columns(sql'[u].n) \cap dbcols' :
                            wrow'[u][c] = Null \/ db'[s][Key(u)'][c] \in {Null, wrow'[u][c]}
    BY DEF OwnRowInv
  <1>0. TypeOK /\ PlaceInv /\ OwnRowInv
    BY DEF IInv
  <1> DEFINE Kept == /\ db[s][Key(u)] # NoRow
                     /\ \A c \in Columns(sql[u].n) \cap dbcols :
                           wrow[u][c] = Null \/ db[s][Key(u)][c] \in {Null, wrow[u][c]}
  <1>1. pc[u] = "verify" /\ Key(u) \notin diverged /\ ~Shared(u) => Kept
    BY <1>0 DEF OwnRowInv
  <1>2. CASE Engine(u)
    <2>1. CASE SelectWrite(u)
      BY <2>1, SelectBegins DEF external
    <2>2. CASE ~SelectWrite(u)
      <3>1. /\ pc[u] = "verify" /\ Key(u)' = Key(u)
            /\ UNCHANGED <<sql, wrow, traversal, engine_frandom_seed, external>>
        BY <1>2, <2>2, OwnStep
      <3>2. Kept
        BY <1>1, <3>1 DEF Shared, traversal, external
      <3>3. QED
        BY <3>1, <3>2 DEF external
    <2>3. QED
      BY <2>1, <2>2
  <1>3. ASSUME NEW t \in Engines \ {u}, Engine(t)
        PROVE  /\ db'[s][Key(u)'] # NoRow
               /\ \A c \in Columns(sql'[u].n) \cap dbcols' :
                     wrow'[u][c] = Null \/ db'[s][Key(u)'][c] \in {Null, wrow'[u][c]}
    <2>1. /\ pc[u] = "verify" /\ sql'[u] = sql[u] /\ wrow'[u] = wrow[u]
          /\ UNCHANGED <<dbcols, diverged>>
      BY <1>0, <1>3, StepOfEngine
    <2>2. Key(u)' = Key(u) /\ ~Shared(u) /\ db'[s][Key(u)] = db[s][Key(u)]
      BY <1>3, <2>1, RowBesideEngine DEF Selecting
    <2>3. Kept
      BY <1>1, <2>1, <2>2
    <2>4. QED
      BY <2>1, <2>2, <2>3
  <1>4. CASE Alter \/ \E r \in Servers, k \in Keys : Diverge(r, k)
    <2>1. /\ pc[u] = "verify" /\ UNCHANGED <<sql, wrow>>
          /\ Key(u)' = Key(u) /\ ~Shared(u) /\ Key(u) \notin diverged
      BY <1>4, StepOfRest, RowBesideRest DEF Selecting, select
    <2>2. Kept /\ Key(u) \in Keys
      BY <1>0, <1>1, <2>1, KeyType
    <2>3. CASE UNCHANGED <<db, dbcols>>
      BY <2>1, <2>2, <2>3
    <2>4. ASSUME NEW cols, db' = WithColumns(cols), dbcols' = cols
          PROVE  /\ db'[s][Key(u)] # NoRow
                 /\ \A c \in Columns(sql[u].n) \cap cols :
                       wrow[u][c] = Null \/ db'[s][Key(u)][c] \in {Null, wrow[u][c]}
      <3>1. db'[s][Key(u)] = [c \in cols |-> IF c \in dbcols THEN db[s][Key(u)][c] ELSE Null]
        BY <1>0, <2>2, <2>4, WithColumnsType
      <3>2. db' \in [Servers -> [Keys -> {NoRow} \cup Rows(cols)]] /\ cols \in SUBSET Columns(Capacity)
        BY <2>4, TypeStep DEF TypeOK
      <3>3. [c \in cols |-> IF c \in dbcols THEN db[s][Key(u)][c] ELSE Null] \in Rows(cols)
        BY <1>0, <2>2 DEF TypeOK, Rows
      <3>4. db'[s][Key(u)] # NoRow
        BY <3>1, <3>2, <3>3, ValueAssumption
      <3>5. QED
        BY <2>2, <3>1, <3>4
    <2>5. ASSUME NEW r \in Servers, NEW k \in Keys, Diverge(r, k)
          PROVE  db'[s][Key(u)] = db[s][Key(u)] /\ UNCHANGED dbcols
      BY <1>0, <2>1, <2>2, <2>5 DEF Diverge, TypeOK
    <2>6. QED
      BY <1>4, <2>1, <2>2, <2>3, <2>4, <2>5
         DEF Alter, AlterAddSchema, AlterAddQuery, AlterAddFails, AlterDropQuery,
             AlterDropSchema
  <1>5. CASE UNCHANGED vars
    BY <1>1, <1>5 DEF vars, traversal, select, external, Key, Shared
  <1>6. QED
    BY <1>2, <1>3, <1>4, <1>5, NextCases

LEMMA UndisturbedStep == IInv /\ [Next]_vars => UndisturbedInv'
  <1> SUFFICES ASSUME IInv, [Next]_vars, NEW u \in Engines, pc'[u] = "verify",
                      ~disturbed'[u], Key(u)' \notin diverged', NEW s \in Servers
               PROVE  /\ db'[s][Key(u)'] # NoRow
                      /\ \A c \in Columns(sql'[u].n) : db'[s][Key(u)'][c] = wrow'[u][c]
    BY DEF UndisturbedInv
  <1>0. TypeOK /\ UndisturbedInv
    BY DEF IInv
  <1>1. ASSUME pc[u] = "verify", ~disturbed[u], Key(u)' = Key(u), UNCHANGED diverged,
               db'[s][Key(u)] = db[s][Key(u)], sql'[u] = sql[u], wrow'[u] = wrow[u]
        PROVE  /\ db'[s][Key(u)'] # NoRow
               /\ \A c \in Columns(sql'[u].n) : db'[s][Key(u)'][c] = wrow'[u][c]
    BY <1>0, <1>1 DEF UndisturbedInv
  <1>2. CASE Engine(u)
    <2>1. CASE SelectWrite(u)
      BY <2>1, SelectBegins DEF external
    <2>2. CASE ~SelectWrite(u)
      BY <1>1, <1>2, <2>2, OwnStep DEF external
    <2>3. QED
      BY <2>1, <2>2
  <1>3. ASSUME NEW t \in Engines \ {u}, Engine(t)
        PROVE  /\ db'[s][Key(u)'] # NoRow
               /\ \A c \in Columns(sql'[u].n) : db'[s][Key(u)'][c] = wrow'[u][c]
    <2>1. /\ pc[u] = "verify" /\ sql'[u] = sql[u] /\ wrow'[u] = wrow[u] /\ UNCHANGED diverged
      BY <1>0, <1>3, StepOfEngine
    <2>2. QED
      BY <1>1, <1>3, <2>1, RowBesideEngine DEF Selecting
  <1>4. CASE Alter \/ \E r \in Servers, k \in Keys : Diverge(r, k)
    <2>1. pc[u] = "verify" /\ UNCHANGED <<sql, wrow>>
      BY <1>4, StepOfRest DEF select
    <2>2. QED
      BY <1>1, <1>4, <2>1, RowBesideRest DEF Selecting, external
  <1>5. CASE UNCHANGED vars
    BY <1>1, <1>5 DEF vars, traversal, select, external, Key
  <1>6. QED
    BY <1>2, <1>3, <1>4, <1>5, NextCases

LEMMA AnsweredStep == IInv /\ [Next]_vars => AnsweredInv'
  <1> SUFFICES ASSUME IInv, [Next]_vars, NEW u \in Engines,
                      pc'[u] \in {"verify", "verified"}, ~disturbed'[u],
                      NEW s \in answered'[u]
               PROVE  Agrees(wrow'[u], db'[s][Key(u)'])
    BY DEF AnsweredInv, Agrees
  <1>0. TypeOK /\ PlaceInv /\ AnsweredInv /\ s \in Servers
    BY TypeStep, ServersType DEF IInv, TypeOK
  <1>1. ASSUME pc[u] \in {"verify", "verified"}, ~disturbed[u], Key(u)' = Key(u),
               db'[s][Key(u)] = db[s][Key(u)], wrow'[u] = wrow[u], s \in answered[u]
        PROVE  Agrees(wrow'[u], db'[s][Key(u)'])
    BY <1>0, <1>1 DEF AnsweredInv
  <1>2. CASE Engine(u)
    <2>1. ~SelectWrite(u)
      BY <1>0 DEF SelectWrite, TypeOK
    <2>2. /\ pc[u] = "verify" /\ Key(u)' = Key(u) /\ disturbed'[u] = disturbed[u]
          /\ UNCHANGED <<sql, wrow, external>>
      BY <1>2, <2>1, OwnStep
    <2>3. CASE s \in answered[u]
      BY <1>1, <2>2, <2>3 DEF external
    <2>4. CASE s \notin answered[u]
      <3>1. VerifyCompare(u)
        BY <1>2, <2>1, <2>4, OwnStep
      <3>2. /\ s = ReadSeq[i[u]] /\ CompareRows(wrow[u], Answer(s, u)) = "equal"
            /\ Columns(sql[u].n) \subseteq dbcols
        BY <1>0, <2>4, <3>1 DEF VerifyCompare, TypeOK
      <3>3. wrow[u] \in Rows(Columns(sql[u].n)) /\ Columns(sql[u].n) \in SUBSET Nat
        BY <1>0, <2>2 DEF TypeOK, PlaceInv, Columns
      <3>4. Agrees(wrow[u], Answer(s, u)) /\ DOMAIN wrow[u] = Columns(sql[u].n)
        BY <3>2, <3>3, CompareOutcome DEF Rows
      <3>5. /\ db[s][Key(u)] # NoRow
            /\ \A c \in Columns(sql[u].n) : Answer(s, u)[c] = db[s][Key(u)][c]
        BY <1>0, <2>2, <3>2, <3>4, AnswerType DEF Agrees
      <3>6. Agrees(wrow[u], db[s][Key(u)])
        BY <3>4, <3>5 DEF Agrees
      <3>7. QED
        BY <2>2, <3>6 DEF external
    <2>5. QED
      BY <2>3, <2>4
  <1>3. ASSUME NEW t \in Engines \ {u}, Engine(t) PROVE Agrees(wrow'[u], db'[s][Key(u)'])
    <2>1. /\ pc'[u] = pc[u] /\ wrow'[u] = wrow[u] /\ answered'[u] = answered[u]
      BY <1>0, <1>3, StepOfEngine
    <2>2. QED
      BY <1>0, <1>1, <1>3, <2>1, RowBesideEngine DEF Selecting
  <1>4. CASE Alter \/ \E r \in Servers, k \in Keys : Diverge(r, k)
    <2>1. UNCHANGED <<pc, wrow, answered>>
      BY <1>4, StepOfRest DEF select
    <2>2. QED
      BY <1>1, <1>4, <2>1, RowBesideRest DEF Selecting, external
  <1>5. CASE UNCHANGED vars
    BY <1>1, <1>5 DEF vars, traversal, select, external, Key
  <1>6. QED
    BY <1>2, <1>3, <1>4, <1>5, NextCases

\* The comparison that ends the process.
LEMMA AlarmStep == IInv /\ [Next]_vars => NoFalseAlarm' /\ FaultNeedsDisturbance'
  <1> SUFFICES ASSUME IInv, [Next]_vars PROVE NoFalseAlarm' /\ FaultNeedsDisturbance'
    OBVIOUS
  <1>0. TypeOK /\ PlaceInv /\ OwnRowInv /\ UndisturbedInv
    BY DEF IInv
  <1>1. ASSUME proc' = "running" PROVE NoFalseAlarm' /\ FaultNeedsDisturbance'
    BY <1>1 DEF NoFalseAlarm, FaultNeedsDisturbance
  <1>2. CASE UNCHANGED vars
    BY <1>2 DEF IInv, NoFalseAlarm, FaultNeedsDisturbance, Key, vars, traversal, external
  <1>3. CASE Alter \/ \E s \in Servers, k \in Keys : Diverge(s, k)
    BY <1>1, <1>3, StepOfRest
  <1>4. ASSUME NEW t \in Engines, Engine(t), proc' # "running"
        PROVE  NoFalseAlarm' /\ FaultNeedsDisturbance'
    <2>1. VerifyCompare(t)
      BY <1>4 DEF Engine, At, Running, StartTraversal, EndTraversal, Gen, QueryFails,
                  mysql_insert, mysql_delete, mysql_update, Querying, AfterWrite,
                  SelectWrite, VerifySkip, VerifyEnd, SelectReturns
    <2> DEFINE s == ReadSeq[i[t]]
               r == Answer(s, t)
               C == Columns(sql[t].n)
    <2>2. /\ culprit' = t /\ pc[t] = "verify" /\ C \subseteq dbcols
          /\ CompareRows(wrow[t], r) # "equal"
          /\ proc' = IF CompareRows(wrow[t], r) = "abort" THEN "aborted" ELSE "faulted"
          /\ UNCHANGED <<traversal, engine_frandom_seed, disturbed, diverged>>
      BY <1>4, <2>1 DEF VerifyCompare, At, Running, external
    <2>3. s \in Servers
      BY <1>0, <2>1, ServersType, BoundsType DEF VerifyCompare, TypeOK
    <2>4. wrow[t] \in Rows(C) /\ C \in SUBSET Nat
      BY <1>0, <2>2 DEF TypeOK, PlaceInv, Columns
    <2>5. /\ r = NoRow <=> db[s][Key(t)] = NoRow
          /\ db[s][Key(t)] # NoRow => \A c \in C : r[c] = db[s][Key(t)][c]
      BY <1>0, <2>2, <2>3, AnswerType
    <2> HIDE DEF s, r, C
    <2>6. CASE CompareRows(wrow[t], r) = "abort"
      <3>1. \/ r = NoRow
            \/ \E c \in C : wrow[t][c] # Null /\ r[c] # Null /\ ~SamePrefix(wrow[t][c], r[c])
        BY <2>4, <2>6, CompareOutcome
      <3>2. ASSUME Key(t) \notin diverged, ~Shared(t) PROVE FALSE
        <4>1. /\ db[s][Key(t)] # NoRow
              /\ \A c \in C : wrow[t][c] = Null \/ db[s][Key(t)][c] \in {Null, wrow[t][c]}
          BY <1>0, <2>2, <2>3, <3>2 DEF OwnRowInv, C
        <4>2. PICK c \in C : wrow[t][c] # Null /\ r[c] # Null /\ ~SamePrefix(wrow[t][c], r[c])
          BY <2>5, <3>1, <4>1
        <4>3. r[c] = wrow[t][c] /\ wrow[t][c] \in Strings
          BY <2>4, <2>5, <4>1, <4>2 DEF Rows
        <4>4. QED
          BY <4>2, <4>3, PrefixOfItself
      <3>3. Key(t) \in diverged \/ Shared(t)
        BY <3>2
      <3>4. QED
        BY <2>2, <2>6, <3>3 DEF NoFalseAlarm, FaultNeedsDisturbance, Shared, Key, traversal
    <2>7. CASE CompareRows(wrow[t], r) # "abort"
      <3>1. r # NoRow /\ \E c \in C : wrow[t][c] # Null /\ r[c] = Null
        BY <2>2, <2>4, <2>7, CompareOutcome
      <3>2. ASSUME ~disturbed[t], Key(t) \notin diverged PROVE FALSE
        <4>1. \A c \in C : db[s][Key(t)][c] = wrow[t][c]
          BY <1>0, <2>2, <2>3, <3>2 DEF UndisturbedInv, C
        <4>2. QED
          BY <2>5, <3>1, <4>1
      <3>3. disturbed[t] \/ Key(t) \in diverged
        BY <3>2
      <3>4. QED
        BY <2>2, <2>7, <3>3 DEF NoFalseAlarm, FaultNeedsDisturbance, Key, traversal
    <2>8. QED
      BY <2>6, <2>7
  <1>5. QED
    BY <1>1, <1>2, <1>3, <1>4, NextCases

-----------------------------------------------------------------------------
(* The invariant *)

LEMMA InitIInv == Init => IInv
  <1> SUFFICES ASSUME Init PROVE IInv
    OBVIOUS
  <1>1. TypeOK
    <2>1. /\ sql \in [Engines -> [cmd : Cmds, n : 0..Capacity]]
          /\ \A t \in Engines : wrow[t] \in {NoRow} \cup Rows(Columns(sql[t].n))
          /\ DOMAIN wrow = Engines
      BY BoundsType DEF Init, NoSql, Cmds
    <2>2. /\ i \in [Engines -> 1..(Len(ReadSeq) + 1)]
          /\ nschema \in ConfigCols..Capacity /\ nalter \in 0..MaxAlters
          /\ engine_frandom_seed \in 0..MaxSeed /\ seed_base \in [Engines -> 0..MaxSeed]
          /\ dbcols \subseteq Columns(Capacity)
      BY BoundsType DEF Init, Columns
    <2>3. db \in [Servers -> [Keys -> {NoRow} \cup Rows(dbcols)]]
      BY DEF Init
    <2>4. QED
      BY <2>1, <2>2, <2>3 DEF Init, TypeOK
  <1>2. PlaceInv /\ AlterInv /\ SyncInv
    BY DEF Init, PlaceInv, AlterInv, SyncInv
  <1>3. OwnRowInv /\ UndisturbedInv /\ AnsweredInv /\ NoFalseAlarm /\ FaultNeedsDisturbance
    BY DEF Init, OwnRowInv, UndisturbedInv, AnsweredInv, NoFalseAlarm, FaultNeedsDisturbance
  <1>4. QED
    BY <1>1, <1>2, <1>3 DEF IInv

LEMMA Invariance == Spec => []IInv
  <1>1. IInv /\ [Next]_vars => IInv'
    BY TypeStep, PlaceStep, SyncStep, OwnRowStep, UndisturbedStep, AnsweredStep, AlarmStep
       DEF IInv
  <1>2. QED
    BY InitIInv, <1>1, PTL DEF Spec

-----------------------------------------------------------------------------
(* The results *)

\* Every variable keeps its type: the rows of every server have the columns
\* of the table, and the schema its configured columns, whatever ALTERs fail.
THEOREM TypeCorrect == Spec => []TypeOK
  BY Invariance, PTL DEF IInv

\* mysql_select aborts only over a row that a fault has touched or whose key
\* two seeds share: neither the other engines' writes nor an ALTER between its
\* queries make it report a difference that is none.
THEOREM AlarmsAreReal == Spec => []NoFalseAlarm
  BY Invariance, PTL DEF IInv

\* Its strncmp dereferences a Null only when a fault or an ALTER came between
\* the queries, another engine wrote the row, or a fault had touched it.
THEOREM FaultsAreExplained == Spec => []FaultNeedsDisturbance
  BY Invariance, PTL DEF IInv

\* When it has passed and nothing came between its queries, every read server
\* that answered still has the row, each value beginning with the write
\* server's.
THEOREM PassIsAgreement == Spec => []PassedMeansAgreed
  <1>1. IInv => PassedMeansAgreed
    BY DEF IInv, AnsweredInv, PassedMeansAgreed
  <1>2. QED
    BY <1>1, Invariance, PTL
=============================================================================
