---------------------------- MODULE ParserProofs ----------------------------
(***************************************************************************)
(* Parser for any rates, windows, addresses and bounds: what both readers  *)
(* leave is what they read, and parser_gen_cmd_bucket keeps to the rates.  *)
(*                                                                         *)
(* A list is only ever made by cmd_list_init and cmd_list_add, so it is    *)
(* Linked(s) for the sequence s of its commands; from that closed form it  *)
(* follows what a traversal meets.  The counts of parser_gen_cmd_bucket    *)
(* are inequalities over the integers, of which Fill takes a minimum.      *)
(***************************************************************************)
EXTENDS Parser, WellFoundedInduction, FiniteSetTheorems, SequenceTheorems, TLAPS

-----------------------------------------------------------------------------
(* Command lists *)

\* The list that holds the commands s, each node linked to its neighbours.
Linked(s) ==
    [next |-> [x \in 0..(Len(s) + 1) |->
                  IF x = TAIL THEN NULL ELSE IF x = HEAD
                  THEN (IF Len(s) = 0 THEN TAIL ELSE 2)
                  ELSE IF x = Len(s) + 1 THEN TAIL ELSE x + 1],
     prev |-> [x \in 0..(Len(s) + 1) |->
                  IF x = HEAD THEN NULL ELSE IF x = TAIL
                  THEN (IF Len(s) = 0 THEN HEAD ELSE Len(s) + 1)
                  ELSE IF x = 2 THEN HEAD ELSE x - 1],
     type |-> s, ncmd |-> Len(s)]

\* cmd_list_init makes the list of no commands.
LEMMA LinkedEmpty == cmd_list_init = Linked(<<>>)
  <1>1. Len(<<>>) = 0 /\ 0..1 = {0, 1}
    OBVIOUS
  <1>2. QED
    BY <1>1 DEF cmd_list_init, Linked, HEAD, TAIL, NULL

\* cmd_list_add appends a command to the list.
LEMMA LinkedAdd ==
    ASSUME NEW T, NEW s \in Seq(T), NEW c \in T
    PROVE  cmd_list_add(Linked(s), c) = Linked(Append(s, c))
  <1> DEFINE n == Len(s)
             t == Append(s, c)
             l == Linked(s)
             m == cmd_list_add(l, c)
  <1>1. n \in Nat /\ t \in Seq(T) /\ Len(t) = n + 1
    OBVIOUS
  <1>2. /\ l.ncmd = n /\ l.type = s
        /\ DOMAIN l.next = 0..(n + 1) /\ DOMAIN l.prev = 0..(n + 1)
    BY DEF Linked
  <1>3. l.prev[TAIL] = IF n = 0 THEN HEAD ELSE n + 1
    BY <1>1 DEF Linked, HEAD, TAIL
  <1>4. 0..(n + 1) \cup {n + 2} = 0..(n + 2)
    BY <1>1
  <1>5. m.next = Linked(t).next
    BY <1>1, <1>2, <1>3, <1>4 DEF Linked, cmd_list_add, HEAD, TAIL, NULL
  <1>6. m.prev = Linked(t).prev
    BY <1>1, <1>2, <1>3, <1>4 DEF Linked, cmd_list_add, HEAD, TAIL, NULL
  <1>7. m.type = t /\ m.ncmd = n + 1
    BY <1>2 DEF cmd_list_add
  <1>8. m = [next |-> m.next, prev |-> m.prev, type |-> m.type, ncmd |-> m.ncmd]
    BY DEF cmd_list_add
  <1>9. Linked(t) = [next |-> Linked(t).next, prev |-> Linked(t).prev, type |-> t, ncmd |-> n + 1]
    BY <1>1 DEF Linked
  <1>10. QED
    BY <1>5, <1>6, <1>7, <1>8, <1>9

\* A nonempty set of natural numbers has a least element.
LEMMA Least ==
    ASSUME NEW S \in SUBSET Nat, S # {}
    PROVE  \E c \in S : \A d \in S : c <= d
  <1>1. PICK c \in S : \A d \in S : ~(<<d, c>> \in OpToRel(<, Nat))
    BY NatLessThanWellFounded, WFMin
  <1>2. \A d \in S : ~(d < c)
    BY <1>1 DEF OpToRel
  <1>3. QED
    BY <1>2

\* Walk meets what satisfies its equation.
LEMMA WalkIs ==
    ASSUME NEW from, NEW link, NEW n \in Nat, NEW g,
           g = [k \in 0..n |-> g[k]], g[0] = from,
           \A k \in 1..n : g[k] = IF g[k - 1] \in DOMAIN link THEN link[g[k - 1]] ELSE NULL
    PROVE  Walk(from, link, n) = g
  <1> DEFINE Step(x) == IF x \in DOMAIN link THEN link[x] ELSE NULL
             f == CHOOSE f : f = [k \in 0..n |-> IF k = 0 THEN from ELSE Step(f[k - 1])]
             D == {k \in 0..n : f[k] # g[k]}
  <1>a. Walk(from, link, n) = f
    BY DEF Walk
  <1>3. \A k \in 1..n : g[k] = Step(g[k - 1])
    OBVIOUS
  <1> HIDE DEF Step
  <1>b. g = [k \in 0..n |-> IF k = 0 THEN from ELSE Step(g[k - 1])]
    <2> DEFINE h == [k \in 0..n |-> IF k = 0 THEN from ELSE Step(g[k - 1])]
    <2>0. \A k \in 0..n : k = 0 \/ k \in 1..n
      OBVIOUS
    <2>1. \A k \in 0..n : g[k] = h[k]
      BY <1>3, <2>0, Zenon
    <2>2. DOMAIN g = DOMAIN h
      OBVIOUS
    <2>3. QED
      BY <2>1, <2>2
  <1>1. f = [k \in 0..n |-> IF k = 0 THEN from ELSE Step(f[k - 1])]
    BY <1>b
  <1> HIDE DEF f
  <1>2. /\ f = [k \in 0..n |-> f[k]] /\ f[0] = from
        /\ \A k \in 1..n : f[k] = Step(f[k - 1])
    BY <1>1
  <1>4. ASSUME D # {} PROVE FALSE
    <2>1. D \in SUBSET Nat
      OBVIOUS
    <2>2. PICK k \in D : \A d \in D : k <= d
      BY <1>4, <2>1, Least
    <2>3. k \in 1..n /\ k - 1 \in 0..n /\ k - 1 \notin D
      BY <1>2, <1>3, <2>2
    <2>4. f[k - 1] = g[k - 1]
      BY <2>3
    <2>5. f[k] = Step(f[k - 1]) /\ g[k] = Step(g[k - 1])
      BY <1>2, <1>3, <2>3
    <2>6. QED
      BY <2>2, <2>4, <2>5
  <1>5. \A k \in 0..n : f[k] = g[k]
    BY <1>4
  <1>6. f = g
    BY <1>2, <1>5
  <1>7. QED
    BY <1>6, <1>a

\* A list that is linked can be travelled from both ends.
LEMMA LinkedHolds ==
    ASSUME NEW T, NEW s \in Seq(T)
    PROVE  Holds(Linked(s), s)
  <1> DEFINE n == Len(s)
             l == Linked(s)
             there == [k \in 0..n |-> IF k = n THEN TAIL ELSE k + 2]
             back == [k \in 0..n |-> IF k = n THEN HEAD ELSE n + 1 - k]
  <1>1. n \in Nat
    OBVIOUS
  <1>2. /\ l.ncmd = n /\ l.type = s
        /\ l.next = [x \in 0..(n + 1) |->
                  IF x = TAIL THEN NULL ELSE IF x = HEAD
                  THEN (IF n = 0 THEN TAIL ELSE 2)
                  ELSE IF x = n + 1 THEN TAIL ELSE x + 1]
        /\ l.prev = [x \in 0..(n + 1) |->
                  IF x = HEAD THEN NULL ELSE IF x = TAIL
                  THEN (IF n = 0 THEN HEAD ELSE n + 1)
                  ELSE IF x = 2 THEN HEAD ELSE x - 1]
    BY DEF Linked
  <1> HIDE DEF l
  <1>3. get_first_cmd(l) = IF n = 0 THEN TAIL ELSE 2
    BY <1>1, <1>2 DEF get_first_cmd, HEAD, TAIL
  <1>4. l.prev[TAIL] = IF n = 0 THEN HEAD ELSE n + 1
    BY <1>1, <1>2 DEF HEAD, TAIL
  <1>5. Walk(get_first_cmd(l), l.next, n) = there
    <2>1. there = [k \in 0..n |-> there[k]] /\ there[0] = get_first_cmd(l)
      BY <1>1, <1>3
    <2>2. ASSUME NEW k \in 1..n PROVE there[k - 1] = k + 1 /\ k + 1 \in DOMAIN l.next
      BY <1>1, <1>2
    <2>3. ASSUME NEW k \in 1..n PROVE there[k] = l.next[k + 1]
      BY <1>1, <1>2 DEF HEAD, TAIL
    <2> HIDE DEF there
    <2>4. \A k \in 1..n : there[k] = IF there[k - 1] \in DOMAIN l.next
                                     THEN l.next[there[k - 1]] ELSE NULL
      BY <2>2, <2>3
    <2>5. QED
      BY <1>1, <2>1, <2>4, WalkIs
  <1>6. Walk(l.prev[TAIL], l.prev, n) = back
    <2>1. back = [k \in 0..n |-> back[k]] /\ back[0] = l.prev[TAIL]
      BY <1>1, <1>4
    <2>2. ASSUME NEW k \in 1..n PROVE back[k - 1] = n + 2 - k /\ n + 2 - k \in DOMAIN l.prev
      BY <1>1, <1>2
    <2>3. ASSUME NEW k \in 1..n PROVE back[k] = l.prev[n + 2 - k]
      BY <1>1, <1>2 DEF HEAD, TAIL
    <2> HIDE DEF back
    <2>4. \A k \in 1..n : back[k] = IF back[k - 1] \in DOMAIN l.prev
                                    THEN l.prev[back[k - 1]] ELSE NULL
      BY <2>2, <2>3
    <2>5. QED
      BY <1>1, <2>1, <2>4, WalkIs
  <1>7. there[n] = TAIL /\ back[n] = HEAD
    BY <1>1
  <1>8. ASSUME NEW k \in 1..n
        PROVE  /\ there[k - 1] = k + 1 /\ back[k - 1] = n + 2 - k
               /\ there[n - k] = n + 2 - k
    BY <1>1
  <1> HIDE DEF there, back
  <1>9. \A k \in 1..n : there[k - 1] - 1 \in 1..n /\ back[k - 1] - 1 \in 1..n
    BY <1>1, <1>8
  <1>10. \A k \in 1..n : l.type[there[k - 1] - 1] = s[k] /\ back[k - 1] = there[n - k]
    BY <1>1, <1>2, <1>8
  <1>11. Holds(l, s)
    BY <1>2, <1>5, <1>6, <1>7, <1>9, <1>10 DEF Holds
  <1>12. QED
    BY <1>11 DEF l

\* The loop over the columns makes the list of the array.
LEMMA ListOfIs ==
    ASSUME NEW T, NEW a \in Seq(T)
    PROVE  ListOf(a) = Linked(a)
  <1> DEFINE n == Len(a)
             g == [k \in 0..n |-> Linked(SubSeq(a, 1, k))]
  <1>1. n \in Nat
    OBVIOUS
  <1>2. SubSeq(a, 1, 0) = <<>> /\ SubSeq(a, 1, n) = a
    OBVIOUS
  <1>3. ASSUME NEW k \in 1..n
        PROVE  /\ SubSeq(a, 1, k - 1) \in Seq(T)
               /\ SubSeq(a, 1, k) = Append(SubSeq(a, 1, k - 1), a[k])
    OBVIOUS
  <1>4. ASSUME NEW k \in 1..n PROVE g[k] = cmd_list_add(g[k - 1], a[k])
    <2>1. a[k] \in T /\ k - 1 \in 0..n
      OBVIOUS
    <2>2. cmd_list_add(Linked(SubSeq(a, 1, k - 1)), a[k]) = Linked(SubSeq(a, 1, k))
      BY <1>3, <2>1, LinkedAdd
    <2>3. QED
      BY <2>1, <2>2
  <1>5. g[0] = cmd_list_init
    <2>1. g[0] = Linked(SubSeq(a, 1, 0))
      BY <1>1
    <2>2. QED
      BY <1>2, <2>1, LinkedEmpty
  <1>6. g[n] = Linked(a)
    <2>1. g[n] = Linked(SubSeq(a, 1, n))
      BY <1>1
    <2>2. QED
      BY <1>2, <2>1
  <1>g. g = [k \in 0..n |-> g[k]]
    OBVIOUS
  <1> HIDE DEF g
  <1>7. g = [k \in 0..n |-> IF k = 0 THEN cmd_list_init ELSE cmd_list_add(g[k - 1], a[k])]
    <2> DEFINE h == [k \in 0..n |-> IF k = 0 THEN cmd_list_init ELSE cmd_list_add(g[k - 1], a[k])]
    <2>1. \A k \in 0..n : g[k] = h[k]
      BY <1>4, <1>5
    <2>2. DOMAIN g = DOMAIN h
      BY <1>g
    <2>3. QED
      BY <1>g, <2>1, <2>2
  <1> DEFINE f == CHOOSE f : f = [k \in 0..n |-> IF k = 0 THEN cmd_list_init
                                               ELSE cmd_list_add(f[k - 1], a[k])]
             D == {k \in 0..n : f[k] # g[k]}
  <1>8. ListOf(a) = f[n]
    BY DEF ListOf
  <1>9. f = [k \in 0..n |-> IF k = 0 THEN cmd_list_init ELSE cmd_list_add(f[k - 1], a[k])]
    BY <1>7
  <1> HIDE DEF f
  <1>10. f[0] = cmd_list_init /\ \A k \in 1..n : f[k] = cmd_list_add(f[k - 1], a[k])
    BY <1>1, <1>9
  <1>11. ASSUME D # {} PROVE FALSE
    <2>1. D \in SUBSET Nat
      OBVIOUS
    <2>2. PICK k \in D : \A d \in D : k <= d
      BY <1>11, <2>1, Least
    <2>3. k \in 1..n /\ k - 1 \in 0..n /\ k - 1 \notin D
      BY <1>5, <1>10, <2>2
    <2>4. f[k - 1] = g[k - 1]
      BY <2>3
    <2>5. f[k] = cmd_list_add(f[k - 1], a[k]) /\ g[k] = cmd_list_add(g[k - 1], a[k])
      BY <1>4, <1>10, <2>3
    <2>6. QED
      BY <2>2, <2>4, <2>5
  <1>12. f[n] = g[n]
    BY <1>1, <1>11
  <1>13. QED
    BY <1>6, <1>8, <1>12

-----------------------------------------------------------------------------
(* The inductive invariants *)

XmlPlaces == {"xml", "servers", "cmds", "list", "tables", "table"}
TxtPlaces == {"txt", "server", "txt_table", "rate", "window", "gen", "fill"}

\* Each reader keeps to its places.
PlaceInv ==
    /\ config_type \in {"XML", "TXT", "ERROR"}
    /\ config_type = "ERROR" => pc = "type"
    /\ config_type = "XML" => pc \in XmlPlaces
    /\ config_type = "TXT" => pc \in TxtPlaces
    /\ pc = "type" => config_type = "ERROR"

Columns == [key : Seq(TypesOfColumns), val : Seq(TypesOfColumns)]
Schemas == {s \in Columns : Len(s.key) <= Capacity /\ Len(s.val) <= Capacity}

SchemaInv == my_schema \in Schemas /\ schemas \in Seq(Schemas)

ListsOfAddresses == Seq(Addresses) \ {<<>>}

\* The tables that a text file can give.
TextTables == {TextTable(c) : c \in {d \in Creates : ~Overruns(d[2])}}

\* What is noted of the file, and the small variables.
FileInv ==
    /\ file \in [write : Seq(ListsOfAddresses), read : Seq(ListsOfAddresses),
                 lists : Seq(Seq(Cmds)), tables : Seq(Columns), creates : Seq(Creates)]
    /\ result \in Results /\ ip \in {"null", "freed"}
    /\ line \in {0, 1} /\ nitem \in Nat
    /\ tables \subseteq TextTables

\* Numbers below 0 are refused, and parser_gen_cmd_bucket runs only with
\* locals that were set.
LocalsInv ==
    /\ rate \in [1..4 -> Maybe(Int)] /\ rows \in Maybe(Int) /\ cols \in Maybe(Int)
    /\ result = "running" => /\ rate \in [1..4 -> Maybe(Nat)]
                             /\ rows \in Maybe(Nat) /\ cols \in Maybe(Nat)
    /\ pc = "fill" => rate \in [1..4 -> Nat] /\ rows \in Nat /\ cols \in Nat

\* The commands so far are their share of the columns, rounded up, and one
\* more only after a sum came out too large.
CountInv ==
    /\ cur_cmd_num \in Nat /\ cur_rate \in Nat /\ ntype \in 1..5 /\ roundedUp \in BOOLEAN
    /\ pc # "fill" => cur_cmd_num = 0 /\ cur_rate = 0 /\ ntype = 1 /\ ~roundedUp
    /\ Proportional
    /\ pc = "fill" /\ ~roundedUp => cur_cmd_num * Unit < cur_rate * cols + Unit

\* The array has its length, and no list is made before it is full.
ArrayInv ==
    /\ cmd_array \in Seq(Stored)
    /\ pc = "fill" => Len(cmd_array) = cols
    /\ row \in Nat /\ nswap \in Nat /\ nswap <= shuffle_time
    /\ pc # "fill" \/ ntype <= 4 => row = 0
    /\ pc = "fill" => row <= rows /\ Len(bucket) = row
    /\ pc = "fill" /\ result = "parsed" => row = rows

\* a has the commands of f, each as often, and the same one at its end.
Reorders(a, f) == ToBag(a) = ToBag(f) /\ (f # <<>> => a # <<>> /\ Last(a) = Last(f))

\* The bucket is a sequence, empty until parser_gen_cmd_bucket if the file is
\* a text file; its lists are linked and, as the array that they are made of,
\* reorderings of what the rates gave.
RowsInv ==
    /\ bucket \in Seq({Linked(s) : s \in Seq(Stored)})
    /\ config_type # "XML" /\ pc # "fill" => bucket = <<>>
    /\ pc = "fill" => Reorders(cmd_array, filled)
    /\ pc = "fill" => \A k \in 1..Len(bucket) : \E a \in Seq(Stored) :
            bucket[k] = Linked(a) /\ Reorders(a, filled)

\* The XML reader has at every moment what it read of the file: the lists,
XmlLists ==
    /\ \A k \in 1..Len(bucket) : bucket[k] = Linked(file.lists[k])
    /\ pc # "list" => Len(file.lists) = Len(bucket)
    /\ pc = "list" => /\ Len(file.lists) = Len(bucket) + 1
                      /\ cmd_list = Linked(file.lists[Len(file.lists)])

\* the tables, but for a column that was refused,
XmlTables ==
    result \in {"running", "parsed"} =>
        file.tables = IF pc = "table" THEN Append(schemas, my_schema) ELSE schemas

\* and the servers.
XmlServers ==
    /\ IsFiniteSet(write_servers) /\ OnePerNode(write_servers, file.write)
    /\ IsFiniteSet(read_servers) /\ OnePerNode(read_servers, file.read)

XmlInv ==
    config_type # "TXT" =>
        /\ XmlServers
        /\ XmlLists /\ XmlTables
        /\ result = "parsed" => pc = "tables"

\* The sections of a text file leave their tables, but for one that was
\* refused,
TxtTables ==
    /\ IsFiniteSet(tables)
    /\ result \in {"running", "parsed"} => Cardinality(tables) = Len(file.creates)
    /\ \A x \in tables : \E k \in 1..Len(file.creates) :
          x = TextTable(file.creates[k]) /\ ~Overruns(file.creates[k][2])

\* and a server for each line.
OnePerLine(servers, told) ==
    /\ Cardinality(servers) = Len(told)
    /\ servers = {TxtServerOf(told[k]) : k \in 1..Len(told)}

TxtServers ==
    /\ IsFiniteSet(write_servers) /\ OnePerLine(write_servers, file.write)
    /\ IsFiniteSet(read_servers) /\ OnePerLine(read_servers, file.read)

TxtInv ==
    config_type # "XML" =>
        /\ schemas = <<>>
        /\ TxtTables /\ TxtServers
        /\ result = "parsed" => pc = "fill"

-----------------------------------------------------------------------------
(* The steps *)

\* A step on which the parser fails, with nothing else changed.
Stops ==
    /\ result = "running" /\ result' \in {"exit", "aborted", "faulted", "undefined"}
    /\ UNCHANGED <<pc, config_type, xml, sets, txt, file, gen>>

\* Every other step is one of these.
Works ==
    \/ \E t \in {"XML", "TXT", "ERROR"} : CheckType(t)
    \/ XmlSection
    \/ \E type \in {"write", "read"}, a \in Addresses : XmlServer(type, a)
    \/ XmlCmd \/ (\E c \in Cmds : XmlCommand(c)) \/ XmlListEnd
    \/ XmlTable
    \/ \E part \in {"key", "val"}, type \in TypesOfColumns : XmlColumn(part, type)
    \/ XmlTableEnd \/ XmlEnd
    \/ \E s \in {"server", "txt_table", "rate", "window"} : TxtSection(s)
    \/ \E type \in {"write", "read"}, ads \in Lines : TxtServer(type, ads)
    \/ TxtServerSkipped
    \/ (\E c \in Creates : TxtTable(c)) \/ TxtNoTable
    \/ \E r \in Rates, given \in SUBSET (1..4) : TxtRate(r, given)
    \/ \E w \in Windows, given \in SUBSET (1..2) : TxtWindow(w, given)
    \/ TxtEnd
    \/ GenCmdBucket

LEMMA StepCases ==
    ASSUME [Next]_vars
    PROVE  Stops \/ Works \/ UNCHANGED vars
  <1>1. CASE XmlUnreadable \/ XmlEmpty \/ XmlNoSection \/ BadFile
    BY <1>1 DEF XmlUnreadable, XmlEmpty, XmlNoSection, BadFile, Stops, Ends, At
  <1>2. ASSUME NEW type, NEW a, XmlServerTwice(type, a) PROVE Stops
    BY <1>2 DEF XmlServerTwice, Stops, Ends, At
  <1>3. CASE XmlServerRefused \/ XmlServerStray \/ ConnectFails \/ ServerNameTooLong
    BY <1>3 DEF XmlServerRefused, XmlServerStray, ConnectFails, ServerNameTooLong, Stops,
                Ends, At
  <1>4. CASE XmlCommandStray \/ XmlColumnBadType \/ XmlColumnNoAttribute
    BY <1>4 DEF XmlCommandStray, XmlColumnBadType, XmlColumnNoAttribute, Stops, Ends, At
  <1>5. CASE TxtUnopened \/ TxtCutOff \/ TxtServerRefused \/ TxtServerNoKeyword
             \/ TxtServerOverrun
    BY <1>5 DEF TxtUnopened, TxtCutOff, TxtServerRefused, TxtServerNoKeyword,
                TxtServerOverrun, Stops, Ends, At
  <1>5a. ASSUME NEW type, NEW ads, TxtServerTwice(type, ads) PROVE Stops
    BY <1>5a DEF TxtServerTwice, Stops, Ends, At
  <1>6. CASE TxtBadKey
    BY <1>6 DEF TxtBadKey, Stops, Ends, At
  <1>7. CASE Xml
    BY <1>7, <1>1, <1>2, <1>3, <1>4 DEF Xml, Works
  <1>8. CASE Txt
    BY <1>8, <1>5, <1>5a, <1>6 DEF Txt, Works
  <1>9. CASE UNCHANGED vars
    BY <1>9
  <1>10. QED
    BY <1>1, <1>3, <1>7, <1>8, <1>9 DEF Next, Works, Ended

LEMMA InitPlace == Init => PlaceInv
  BY DEF Init, PlaceInv

LEMMA StepPlace ==
    ASSUME PlaceInv, [Next]_vars
    PROVE  PlaceInv'
  <1> USE DEF PlaceInv, XmlPlaces, TxtPlaces, At, Goto, Ends
  <1>1. CASE Stops
    BY <1>1 DEF Stops
  <1>2. CASE UNCHANGED vars
    BY <1>2 DEF vars
  <1>3. ASSUME NEW t \in {"XML", "TXT", "ERROR"}, CheckType(t) PROVE PlaceInv'
    BY <1>3 DEF CheckType
  <1>4. CASE XmlSection
    BY <1>4 DEF XmlSection, Section
  <1>5. ASSUME NEW type, NEW a, XmlServer(type, a) PROVE PlaceInv'
    BY <1>5 DEF XmlServer
  <1>6. CASE XmlCmd \/ XmlListEnd \/ XmlTable \/ XmlTableEnd \/ XmlEnd
    BY <1>6 DEF XmlCmd, XmlListEnd, XmlTable, XmlTableEnd, XmlEnd
  <1>7. ASSUME NEW c, XmlCommand(c) PROVE PlaceInv'
    BY <1>7 DEF XmlCommand
  <1>8. ASSUME NEW part, NEW type, XmlColumn(part, type) PROVE PlaceInv'
    BY <1>8 DEF XmlColumn
  <1>9. ASSUME NEW s \in {"server", "txt_table", "rate", "window"}, TxtSection(s) PROVE PlaceInv'
    BY <1>9 DEF TxtSection
  <1>10. ASSUME NEW type, NEW ads, TxtServer(type, ads) PROVE PlaceInv'
    BY <1>10 DEF TxtServer, NextLine
  <1>11. CASE TxtServerSkipped \/ TxtNoTable \/ TxtEnd
    BY <1>11 DEF TxtServerSkipped, NextLine, TxtNoTable, TxtEnd
  <1>12. ASSUME NEW t, TxtTable(t) PROVE PlaceInv'
    BY <1>12 DEF TxtTable
  <1>13. ASSUME NEW r, NEW given, TxtRate(r, given) PROVE PlaceInv'
    BY <1>13 DEF TxtRate
  <1>14. ASSUME NEW w, NEW given, TxtWindow(w, given) PROVE PlaceInv'
    BY <1>14 DEF TxtWindow
  <1>15. CASE GenCmdBucket
    BY <1>15 DEF GenCmdBucket, GenNext, StartGen, Fill, Swap, GenRow, GenEnd
  <1> HIDE DEF PlaceInv
  <1>16. QED
    BY <1>1, <1>2, <1>3, <1>4, <1>5, <1>6, <1>7, <1>8, <1>9, <1>10, <1>11, <1>12, <1>13,
       <1>14, <1>15, StepCases DEF Works

-----------------------------------------------------------------------------
(* parser_gen_cmd_bucket and its arguments *)

\* A step that does not concern the lists.
Quiet ==
    /\ UNCHANGED gen
    /\ pc = "fill" <=> pc' = "fill"
    /\ result' = "running" => result = "running"
    /\ pc = "fill" /\ result' = "parsed" => result = "parsed"
    /\ config_type = "XML" => config_type' = "XML"

LEMMA GenCases ==
    ASSUME PlaceInv, [Next]_vars
    PROVE  \/ Quiet
           \/ \E r \in Rates, given \in SUBSET (1..4) : TxtRate(r, given)
           \/ \E w \in Windows, given \in SUBSET (1..2) : TxtWindow(w, given)
           \/ XmlListEnd \/ GenCmdBucket
  <1> USE DEF Quiet, At, Goto, Ends
  <1>1. CASE Stops
    BY <1>1 DEF Stops
  <1>2. CASE UNCHANGED vars
    BY <1>2 DEF vars
  <1>3. ASSUME NEW t \in {"XML", "TXT", "ERROR"}, CheckType(t) PROVE Quiet
    BY <1>3 DEF CheckType, PlaceInv
  <1>4. CASE XmlSection
    BY <1>4 DEF XmlSection, Section
  <1>5. ASSUME NEW type, NEW a, XmlServer(type, a) PROVE Quiet
    BY <1>5 DEF XmlServer
  <1>6. CASE XmlCmd \/ XmlTable \/ XmlTableEnd \/ XmlEnd
    BY <1>6 DEF XmlCmd, XmlTable, XmlTableEnd, XmlEnd
  <1>7. ASSUME NEW c, XmlCommand(c) PROVE Quiet
    BY <1>7 DEF XmlCommand
  <1>8. ASSUME NEW part, NEW type, XmlColumn(part, type) PROVE Quiet
    BY <1>8 DEF XmlColumn
  <1>9. ASSUME NEW s \in {"server", "txt_table", "rate", "window"}, TxtSection(s) PROVE Quiet
    BY <1>9 DEF TxtSection
  <1>10. ASSUME NEW type, NEW ads, TxtServer(type, ads) PROVE Quiet
    BY <1>10 DEF TxtServer, NextLine
  <1>11. CASE TxtServerSkipped \/ TxtNoTable \/ TxtEnd
    BY <1>11 DEF TxtServerSkipped, NextLine, TxtNoTable, TxtEnd
  <1>12. ASSUME NEW t, TxtTable(t) PROVE Quiet
    BY <1>12 DEF TxtTable
  <1> HIDE DEF Quiet
  <1>16. QED
    BY <1>1, <1>2, <1>3, <1>4, <1>5, <1>6, <1>7, <1>8, <1>9, <1>10, <1>11, <1>12,
       StepCases DEF Works

LEMMA InitLocals == Init => LocalsInv
  BY DEF Init, GenInit, LocalsInv, Maybe

LEMMA StepLocals ==
    ASSUME PlaceInv, LocalsInv, [Next]_vars
    PROVE  LocalsInv'
  <1>1. CASE Quiet
    BY <1>1 DEF Quiet, LocalsInv, gen
  <1>2. ASSUME NEW r \in Rates, NEW given \in SUBSET (1..4), TxtRate(r, given)
        PROVE  LocalsInv'
    <2> DEFINE new == [k \in 1..4 |-> IF k \in given THEN r[k] ELSE rate[k]]
    <2>1. r \in [1..4 -> Int]
      BY SectionAssumption
    <2>2. /\ rate' = new /\ UNCHANGED <<rows, cols>> /\ result = "running" /\ pc = "rate"
          /\ IF \E k \in 1..4 : new[k] = Uninit THEN Ends("undefined")
             ELSE IF verify_rate(new) THEN Goto("txt") ELSE Ends("exit")
      BY <1>2 DEF TxtRate, At
    <2>3. new \in [1..4 -> Maybe(Int)]
      BY <2>1 DEF LocalsInv, Maybe
    <2>4. pc' # "fill"
      BY <2>2 DEF Ends, Goto
    <2>5. result' = "running" => new \in [1..4 -> Nat]
      <3> SUFFICES ASSUME result' = "running" PROVE \A k \in 1..4 : new[k] \in Nat
        OBVIOUS
      <3>1. verify_rate(new) /\ \A k \in 1..4 : new[k] # Uninit
        BY <2>2 DEF Ends
      <3>2. \A k \in 1..4 : new[k] \in Int /\ new[k] >= 0
        BY <2>3, <3>1 DEF verify_rate, Maybe
      <3>3. QED
        BY <3>2
    <2> HIDE DEF new
    <2>6. QED
      BY <2>2, <2>3, <2>4, <2>5 DEF LocalsInv, Maybe
  <1>3. ASSUME NEW w \in Windows, NEW given \in SUBSET (1..2), TxtWindow(w, given)
        PROVE  LocalsInv'
    <2> DEFINE r == IF 1 \in given THEN w[1] ELSE rows
               c == IF 2 \in given THEN w[2] ELSE cols
    <2>1. w[1] \in Int /\ w[2] \in Int
      BY SectionAssumption
    <2>2. /\ rows' = r /\ cols' = c /\ UNCHANGED rate /\ result = "running" /\ pc = "window"
          /\ IF Uninit \in {r, c} THEN Ends("undefined")
             ELSE IF verify_window(r, c) THEN Goto("txt") ELSE Ends("exit")
      BY <1>3 DEF TxtWindow, At
    <2>3. r \in Maybe(Int) /\ c \in Maybe(Int)
      BY <2>1 DEF LocalsInv, Maybe
    <2>4. pc' # "fill"
      BY <2>2 DEF Ends, Goto
    <2> HIDE DEF r, c
    <2>5. result' = "running" => r \in Nat /\ c \in Nat
      BY <2>2, <2>3 DEF Ends, Goto, verify_window, Maybe
    <2>6. QED
      BY <2>2, <2>3, <2>4, <2>5 DEF LocalsInv, Maybe
  <1>4. CASE XmlListEnd
    BY <1>4 DEF XmlListEnd, LocalsInv, At, Goto
  <1>5. CASE GenCmdBucket
    <2>1. UNCHANGED <<rate, rows, cols>> /\ result = "running"
      BY <1>5 DEF GenCmdBucket, GenNext, StartGen, Fill, Swap, GenRow, GenEnd, gen
    <2>2. CASE StartGen
      <3>1. pc' = "fill" => Uninit \notin {rows, cols} \cup {rate[k] : k \in 1..4}
        BY <2>2 DEF StartGen
      <3>2. pc' = "fill" => rows \in Nat /\ cols \in Nat /\ rate \in [1..4 -> Nat]
        BY <2>1, <3>1 DEF LocalsInv, Maybe
      <3>3. QED
        BY <2>1, <3>2 DEF LocalsInv
    <2>3. CASE ~StartGen
      <3>1. UNCHANGED pc
        BY <1>5, <2>3 DEF GenCmdBucket, GenNext, Fill, Swap, GenRow, GenEnd, gen
      <3>2. QED
        BY <2>1, <3>1 DEF LocalsInv
    <2>4. QED
      BY <2>2, <2>3
  <1>6. QED
    BY <1>1, <1>2, <1>3, <1>4, <1>5, GenCases

LEMMA MinIsLeast ==
    ASSUME NEW S \in SUBSET Nat, S # {}
    PROVE  Min(S) \in S /\ \A d \in S : Min(S) <= d
  BY Least DEF Min

LEMMA Distribute ==
    ASSUME NEW a \in Int, NEW b \in Int, NEW c \in Int
    PROVE  (a + b) * c = a * c + b * c /\ a * c \in Int
  OBVIOUS

LEMMA Divide ==
    ASSUME NEW a \in Nat, NEW u \in Nat \ {0}
    PROVE  /\ a \div u \in Nat
           /\ (a \div u) * u <= a
           /\ a < (a \div u) * u + u
  OBVIOUS

LEMMA ProductOfNats ==
    ASSUME NEW a \in Nat, NEW b \in Nat
    PROVE  a * b \in Nat
  OBVIOUS

LEMMA ProductMonotone ==
    ASSUME NEW a \in Nat, NEW b \in Nat, NEW c \in Nat, a <= b
    PROVE  a * c <= b * c
  OBVIOUS

\* The count after a turn of the loop.
Turned(num, s, r, up, low) ==
    LET from == num + Share(r) - (IF low THEN 1 ELSE 0)
    IN Min({m \in from..(from + 2 * cols + 3) : ~BelowRate(m, s + r, up)})

\* One turn of the loop, from a count that is in proportion: the inner loops
\* end with a count that is in proportion to the new sum.
LEMMA FillStops ==
    ASSUME NEW c \in Nat, c = cols,
           NEW num \in Nat, NEW s \in Nat, NEW r \in Nat,
           NEW up, NEW low, low => MayCut(r),
           s * c <= num * Unit, num * Unit <= s * c + Unit,
           NEW n, n = Turned(num, s, r, up, low)
    PROVE  /\ n \in Nat /\ n >= num
           /\ (s + r) * c <= n * Unit /\ n * Unit <= (s + r) * c + Unit
           /\ num * Unit < s * c + Unit /\ ~(up /\ (n - 1) * Unit = (s + r) * c)
                => n * Unit < (s + r) * c + Unit
  <1> DEFINE from == num + Share(r) - (IF low THEN 1 ELSE 0)
             B == {m \in from..(from + 2 * cols + 3) : ~BelowRate(m, s + r, up)}
             sh == Share(r)
             cut == IF low THEN 1 ELSE 0
             X == s * c
             Z == r * c
             T == (s + r) * c
  <1>1. Unit \in Nat \ {0}
    BY UnitAssumption
  <1>2. X \in Nat /\ Z \in Nat /\ T \in Nat /\ T = X + Z
    BY ProductOfNats, Distribute
  <1>3. sh \in Nat /\ sh * Unit <= Z /\ Z < sh * Unit + Unit
    BY <1>1, <1>2, Divide DEF Share
  <1>4. low => Z > 0 /\ Z = sh * Unit /\ sh >= 1
    <2>1. low => Z > 0 /\ Z = Unit * sh
      BY DEF MayCut
    <2>2. sh = 0 => Unit * sh = 0
      BY <1>1
    <2>3. Unit * sh = sh * Unit
      BY <1>1, <1>3
    <2>4. QED
      BY <1>2, <1>3, <2>1, <2>2, <2>3
  <1>5. from \in Nat /\ from >= num /\ from = num + sh - cut /\ cut \in {0, 1}
    BY <1>3, <1>4
  <1> HIDE DEF sh, from
  <1>6. from * Unit = num * Unit + sh * Unit - cut * Unit
    BY <1>1, <1>3, <1>5
  <1>7. cut * Unit = cut * 1 * Unit /\ (low => cut * Unit = Unit) /\ (~low => cut * Unit = 0)
    BY <1>1
  <1>8. (from + 2) * Unit > T
    <2>1. (from + 2) * Unit = from * Unit + Unit + Unit
      BY <1>1, <1>5
    <2>2. num * Unit \in Nat /\ sh * Unit \in Nat
      BY <1>1, <1>3, ProductOfNats
    <2> HIDE DEF X, Z, T, cut
    <2>3. QED
      BY <1>1, <1>2, <1>3, <1>4, <1>6, <1>7, <2>1, <2>2 DEF X
  <1>9. from + 2 \in B
    BY <1>1, <1>5, <1>8 DEF BelowRate
  <1>10. n \in B /\ \A d \in B : n <= d
    <2>1. B \in SUBSET Nat
      BY <1>5
    <2>2. n = Min(B)
      BY DEF Turned, from
    <2>3. B # {}
      BY <1>9
    <2> HIDE DEF B
    <2>4. Min(B) \in B /\ \A d \in B : Min(B) <= d
      BY <2>1, <2>3, MinIsLeast
    <2>5. QED
      BY <2>2, <2>4
  <1>11. n \in Nat /\ n >= from /\ n <= from + 2 /\ ~BelowRate(n, s + r, up)
    BY <1>5, <1>9, <1>10
  <1>12. n * Unit \in Nat /\ T <= n * Unit
    BY <1>1, <1>2, <1>11, ProductOfNats DEF BelowRate
  <1>13. CASE n = from
    <2>1. num * Unit \in Nat /\ sh * Unit \in Nat
      BY <1>1, <1>3, ProductOfNats
    <2>2. n * Unit <= num * Unit + Z
      <3> HIDE DEF Z, cut
      <3>1. QED
        BY <1>1, <1>2, <1>3, <1>5, <1>6, <1>7, <1>13, <2>1
    <2> HIDE DEF Z, T, X
    <2>3. QED
      BY <1>1, <1>2, <1>5, <1>11, <1>12, <1>13, <2>1, <2>2 DEF T, X
  <1>14. CASE n # from
    <2>1. n - 1 \in from..(from + 2 * cols + 3) /\ n - 1 \notin B
      BY <1>5, <1>10, <1>11, <1>14
    <2>2. BelowRate(n - 1, s + r, up)
      BY <2>1
    <2>3. n * Unit = (n - 1) * Unit + Unit /\ (n - 1) * Unit \in Nat
      BY <1>1, <1>5, <1>11, <1>14
    <2>4. (n - 1) * Unit < T \/ (up /\ (n - 1) * Unit = T)
      BY <2>2 DEF BelowRate
    <2> HIDE DEF T
    <2>5. QED
      BY <1>1, <1>2, <1>5, <1>11, <1>12, <2>3, <2>4 DEF T
  <1>15. QED
    BY <1>13, <1>14

LEMMA InitCount == Init => CountInv
  <1> SUFFICES ASSUME Init PROVE CountInv
    OBVIOUS
  <1>1. cur_cmd_num = 0 /\ cur_rate = 0 /\ ntype = 1 /\ pc # "fill"
    BY DEF Init, GenInit
  <1>2. roundedUp = FALSE
    BY DEF Init, GenInit
  <1>3. roundedUp \in BOOLEAN /\ ~roundedUp
    BY <1>2
  <1>4. QED
    BY <1>1, <1>3 DEF CountInv, Proportional

\* A turn of the loop keeps the count in proportion.
LEMMA FillCount ==
    ASSUME LocalsInv, CountInv, NEW up \in BOOLEAN, NEW low \in BOOLEAN, Fill(up, low)
    PROVE  CountInv' /\ cur_cmd_num' >= cur_cmd_num
  <1>1. /\ pc = "fill" /\ pc' = "fill" /\ ntype \in 1..4 /\ ntype' = ntype + 1
        /\ UNCHANGED cols
        /\ low => MayCut(rate[ntype])
    BY DEF Fill, CountInv
  <1>2. cols \in Nat /\ rate[ntype] \in Nat
    BY <1>1 DEF LocalsInv
  <1>3. PICK n : n = Turned(cur_cmd_num, cur_rate, rate[ntype], up, low)
    OBVIOUS
  <1>4. /\ cur_rate' = cur_rate + rate[ntype] /\ cur_cmd_num' = n
        /\ roundedUp' = (roundedUp \/ (up /\ (n - 1) * Unit = (cur_rate + rate[ntype]) * cols))
    BY <1>3 DEF Fill, Turned
  <1>5. PICK c, num, s, r : c = cols /\ num = cur_cmd_num /\ s = cur_rate /\ r = rate[ntype]
    OBVIOUS
  <1>6. /\ c \in Nat /\ num \in Nat /\ s \in Nat /\ r \in Nat
        /\ s * c <= num * Unit /\ num * Unit <= s * c + Unit
        /\ ~roundedUp => num * Unit < s * c + Unit
    BY <1>1, <1>2, <1>5 DEF CountInv, Proportional
  <1>7. /\ n \in Nat /\ n >= num
        /\ (s + r) * c <= n * Unit /\ n * Unit <= (s + r) * c + Unit
        /\ num * Unit < s * c + Unit /\ ~(up /\ (n - 1) * Unit = (s + r) * c)
             => n * Unit < (s + r) * c + Unit
    <2>1. n = Turned(num, s, r, up, low)
      BY <1>3, <1>5
    <2>2. low => MayCut(r)
      BY <1>1, <1>5
    <2>3. QED
      BY <1>5, <1>6, <2>1, <2>2, FillStops
  <1>8. cur_rate' = s + r /\ cols' = c /\ cur_cmd_num' = n
    BY <1>1, <1>4, <1>5
  <1>9. roundedUp' = (roundedUp \/ (up /\ (n - 1) * Unit = (s + r) * c))
    BY <1>4, <1>5
  <1>10. /\ cur_cmd_num' \in Nat /\ cur_rate' \in Nat /\ ntype' \in 1..5
         /\ cur_cmd_num' >= cur_cmd_num
    BY <1>1, <1>5, <1>6, <1>7, <1>8
  <1>11. roundedUp' \in BOOLEAN
    BY <1>9 DEF CountInv
  <1>12. Proportional'
    BY <1>7, <1>8 DEF Proportional
  <1>13. ~roundedUp' => cur_cmd_num' * Unit < cur_rate' * cols' + Unit
    BY <1>6, <1>7, <1>8, <1>9 DEF CountInv
  <1>14. QED
    BY <1>1, <1>10, <1>11, <1>12, <1>13 DEF CountInv

LEMMA StepCount ==
    ASSUME PlaceInv, LocalsInv, CountInv, [Next]_vars
    PROVE  CountInv'
  <1>1. CASE Quiet
    BY <1>1 DEF Quiet, CountInv, Proportional, gen
  <1>2. ASSUME NEW r \in Rates, NEW given \in SUBSET (1..4), TxtRate(r, given)
        PROVE  CountInv'
    <2>1. /\ pc # "fill" /\ pc' # "fill"
          /\ UNCHANGED <<cur_cmd_num, cur_rate, ntype, roundedUp>>
      BY <1>2 DEF TxtRate, At, Goto, Ends
    <2>2. QED
      BY <2>1 DEF CountInv, Proportional
  <1>3. ASSUME NEW w \in Windows, NEW given \in SUBSET (1..2), TxtWindow(w, given)
        PROVE  CountInv'
    <2>1. /\ pc # "fill" /\ pc' # "fill"
          /\ UNCHANGED <<cur_cmd_num, cur_rate, ntype, roundedUp>>
      BY <1>3 DEF TxtWindow, At, Goto, Ends
    <2>2. QED
      BY <2>1 DEF CountInv, Proportional
  <1>4. CASE XmlListEnd
    BY <1>4 DEF XmlListEnd, CountInv, Proportional, At, Goto
  <1>5. CASE StartGen
    <2>1. UNCHANGED <<cur_cmd_num, cur_rate, ntype, roundedUp, cols>>
      BY <1>5 DEF StartGen
    <2>2. cur_cmd_num = 0 /\ cur_rate = 0 /\ ntype = 1 /\ ~roundedUp
      BY <1>5 DEF StartGen, CountInv
    <2>3. pc' = "fill" => cols \in Nat
      BY <1>5 DEF StartGen, LocalsInv, Maybe
    <2>4. pc' = "fill" => 0 * cols = 0 /\ 0 * Unit = 0
      BY <2>3, UnitAssumption
    <2>5. QED
      BY <2>1, <2>2, <2>3, <2>4, UnitAssumption DEF CountInv, Proportional
  <1>6. ASSUME NEW up \in BOOLEAN, NEW low \in BOOLEAN, Fill(up, low) PROVE CountInv'
    BY <1>6, FillCount
  <1>7. CASE GenRow \/ GenEnd
    BY <1>7 DEF GenRow, GenEnd, gen, CountInv, Proportional
  <1>8. ASSUME NEW a, NEW b, Swap(a, b) PROVE CountInv'
    BY <1>8 DEF Swap, CountInv, Proportional
  <1>9. QED
    BY <1>1, <1>2, <1>3, <1>4, <1>5, <1>6, <1>7, <1>8, GenCases DEF GenCmdBucket, GenNext

LEMMA InitArray == Init => ArrayInv
  BY ShuffleAssumption DEF Init, GenInit, ArrayInv

\* The three assignments with "^=" exchange two values, whatever they are.
LEMMA XorTwice ==
    ASSUME NEW x, NEW y
    PROVE  SymDiff(y, SymDiff(x, y)) = x /\ SymDiff(SymDiff(x, y), x) = y
  BY DEF SymDiff

\* Where the value of place k was before the swap of a and b.
Place(a, b, k) == IF k = a THEN b ELSE IF k = b THEN a ELSE k

\* A turn of parser_shuffle_cmds exchanges the values of two places.
LEMMA SwappedIs ==
    ASSUME NEW T, NEW arr \in Seq(T), NEW a, NEW b,
           a = b \/ (a \in 1..Len(arr) /\ b \in 1..Len(arr))
    PROVE  Swapped(arr, a, b) = [k \in 1..Len(arr) |-> arr[Place(a, b, k)]]
  <1>1. Len(arr) \in Nat /\ arr = [k \in 1..Len(arr) |-> arr[k]] /\ DOMAIN arr = 1..Len(arr)
    OBVIOUS
  <1>2. CASE a = b
    BY <1>1, <1>2 DEF Swapped, Place
  <1>3. CASE a # b
    <2> DEFINE n == Len(arr)
               x == arr[a]
               y == arr[b]
               one == [arr EXCEPT ![a] = SymDiff(@, arr[b])]
               two == [one EXCEPT ![b] = SymDiff(@, one[a])]
               end == [two EXCEPT ![a] = SymDiff(@, two[b])]
    <2>1. /\ DOMAIN one = 1..n /\ one[a] = SymDiff(x, y) /\ one[b] = y
          /\ \A k \in 1..n : k # a => one[k] = arr[k]
      BY <1>1, <1>3
    <2> HIDE DEF one
    <2>2. /\ DOMAIN two = 1..n /\ two[b] = x /\ two[a] = SymDiff(x, y)
          /\ \A k \in 1..n : k # a /\ k # b => two[k] = arr[k]
      BY <1>1, <1>3, <2>1, XorTwice
    <2> HIDE DEF two
    <2>3. /\ DOMAIN end = 1..n /\ end[a] = y /\ end[b] = x
          /\ \A k \in 1..n : k # a /\ k # b => end[k] = arr[k]
      BY <1>1, <1>3, <2>2, XorTwice
    <2>4. end = [k \in 1..n |-> end[k]]
      BY <2>3
    <2>5. Swapped(arr, a, b) = end
      BY <1>3 DEF Swapped, XorSwap, end, two, one
    <2> HIDE DEF end
    <2>6. \A k \in 1..n : end[k] = arr[Place(a, b, k)]
      BY <2>3 DEF Place
    <2>7. QED
      BY <2>4, <2>5, <2>6
  <1>4. QED
    BY <1>2, <1>3

\* It leaves the array its length and type.
LEMMA SwappedType ==
    ASSUME NEW T, NEW arr \in Seq(T), NEW a, NEW b,
           a = b \/ (a \in 1..Len(arr) /\ b \in 1..Len(arr))
    PROVE  Swapped(arr, a, b) \in Seq(T) /\ Len(Swapped(arr, a, b)) = Len(arr)
  <1> DEFINE new == [k \in 1..Len(arr) |-> arr[Place(a, b, k)]]
  <1>1. \A k \in 1..Len(arr) : Place(a, b, k) \in 1..Len(arr)
    BY DEF Place
  <1>2. Len(arr) \in Nat /\ \A k \in 1..Len(arr) : arr[k] \in T
    OBVIOUS
  <1>3. new \in Seq(T) /\ Len(new) = Len(arr)
    BY <1>1, <1>2
  <1>4. QED
    BY <1>3, SwappedIs

\* The places that are drawn are inside the array and not its last, or they
\* are one place.
LEMMA DrawsAre ==
    ASSUME LocalsInv, ArrayInv, NEW a \in Draws, NEW b \in Draws, Swap(a, b)
    PROVE  \/ a = b
           \/ a \in 1..(Len(cmd_array) - 1) /\ b \in 1..(Len(cmd_array) - 1)
  BY DEF LocalsInv, ArrayInv, Draws, Swap

LEMMA CmdsArePatterns == \A k \in 1..4 : cmd_pattern[k] \in Cmds
  BY DEF Cmds, cmd_pattern, ToSet

LEMMA StepArray ==
    ASSUME PlaceInv, LocalsInv, CountInv, ArrayInv, RowsInv, [Next]_vars
    PROVE  ArrayInv'
  <1>1. CASE Quiet
    BY <1>1 DEF Quiet, ArrayInv, gen
  <1>2. ASSUME NEW r \in Rates, NEW given \in SUBSET (1..4), TxtRate(r, given)
        PROVE  ArrayInv'
    <2>1. /\ pc # "fill" /\ pc' # "fill" /\ UNCHANGED <<cmd_array, row, nswap>>
      BY <1>2 DEF TxtRate, At, Goto, Ends
    <2>2. QED
      BY <2>1 DEF ArrayInv
  <1>3. ASSUME NEW w \in Windows, NEW given \in SUBSET (1..2), TxtWindow(w, given)
        PROVE  ArrayInv'
    <2>1. /\ pc # "fill" /\ pc' # "fill" /\ UNCHANGED <<cmd_array, row, nswap>>
      BY <1>3 DEF TxtWindow, At, Goto, Ends
    <2>2. QED
      BY <2>1 DEF ArrayInv
  <1>4. CASE XmlListEnd
    BY <1>4 DEF XmlListEnd, ArrayInv, At, Goto
  <1>5. CASE StartGen /\ pc' # "fill"
    BY <1>5 DEF StartGen, ArrayInv
  <1>6. CASE StartGen /\ pc' = "fill"
    <2>1. /\ cmd_array' = [k \in 1..cols |-> Garbage] /\ result' = "running"
          /\ UNCHANGED <<row, nswap, bucket, rows, cols>> /\ pc # "fill"
      BY <1>6 DEF StartGen
    <2>2. rows \in Nat /\ cols \in Nat
      BY <1>6 DEF StartGen, LocalsInv, Maybe
    <2>3. cmd_array' \in Seq(Stored) /\ Len(cmd_array') = cols
      BY <2>1, <2>2 DEF Stored
    <2>4. bucket = <<>> /\ row = 0
      BY <1>6 DEF StartGen, PlaceInv, XmlPlaces, RowsInv, ArrayInv
    <2>5. Len(bucket') = 0 /\ row' = 0 /\ rows' \in Nat /\ cols' = cols /\ row' <= rows'
      BY <2>1, <2>2, <2>4
    <2>6. QED
      BY <2>1, <2>3, <2>5 DEF ArrayInv
  <1>7. ASSUME NEW up \in BOOLEAN, NEW low \in BOOLEAN, Fill(up, low) PROVE ArrayInv'
    <2>1. /\ pc = "fill" /\ pc' = "fill" /\ ntype \in 1..4 /\ ntype' = ntype + 1
          /\ UNCHANGED <<row, nswap, rows, cols, bucket>> /\ result' # "parsed"
      BY <1>7 DEF Fill, CountInv
    <2>2. PICK n : cmd_array' = [k \in 1..cols |->
                        IF k \in (cur_cmd_num + 1)..n THEN cmd_pattern[ntype] ELSE cmd_array[k]]
      BY <1>7 DEF Fill
    <2>3. cols \in Nat /\ rows \in Nat
      BY <2>1 DEF LocalsInv
    <2>4. cmd_pattern[ntype] \in Stored /\ \A k \in 1..cols : cmd_array[k] \in Stored
      BY <2>1, CmdsArePatterns DEF ArrayInv, Stored
    <2>5. cmd_array' \in [1..cols -> Stored]
      BY <2>2, <2>4
    <2>6. cmd_array' \in Seq(Stored) /\ Len(cmd_array') = cols
      BY <2>3, <2>5
    <2>7. row = 0
      BY <2>1 DEF ArrayInv
    <2>8. QED
      BY <2>1, <2>3, <2>6, <2>7 DEF ArrayInv
  <1>8. ASSUME NEW a \in Draws, NEW b \in Draws, Swap(a, b) PROVE ArrayInv'
    <2>1. /\ pc = "fill" /\ pc' = "fill" /\ UNCHANGED <<rows, cols, ntype, row, bucket>>
          /\ result' # "parsed" /\ nswap < shuffle_time
      BY <1>8 DEF Swap
    <2>2. cmd_array' = cmd_array \/ cmd_array' = Swapped(cmd_array, a, b)
      BY <1>8 DEF Swap
    <2>3. nswap' \in Nat /\ nswap' <= shuffle_time
      <3>1. nswap' = nswap \/ nswap' = nswap + 1
        BY <1>8 DEF Swap
      <3>2. QED
        BY <2>1, <3>1, ShuffleAssumption DEF ArrayInv
    <2>4. cmd_array \in Seq(Stored) /\ Len(cmd_array) = cols
      BY <2>1 DEF ArrayInv
    <2>5. a = b \/ (a \in 1..Len(cmd_array) /\ b \in 1..Len(cmd_array))
      BY <1>8, <2>4, DrawsAre
    <2>6. cmd_array' \in Seq(Stored) /\ Len(cmd_array') = cols
      BY <2>2, <2>4, <2>5, SwappedType
    <2>7. QED
      BY <2>1, <2>3, <2>6 DEF ArrayInv
  <1>9. CASE GenRow
    <2>1. /\ pc = "fill" /\ pc' = "fill" /\ UNCHANGED <<rows, cols, ntype, cmd_array>>
          /\ row < rows /\ result' # "parsed" /\ row' = row + 1 /\ nswap' = 0
          /\ bucket' = Append(bucket, ListOf(cmd_array)) /\ ntype > 4
      BY <1>9 DEF GenRow
    <2>2. rows \in Nat /\ row \in Nat /\ Len(bucket) = row /\ ntype \in 1..5
      BY <2>1 DEF LocalsInv, ArrayInv, CountInv
    <2>3. Len(bucket') = row + 1
      BY <2>1, <2>2 DEF RowsInv
    <2>4. row' \in Nat /\ row' <= rows' /\ nswap' \in Nat /\ nswap' <= shuffle_time
      BY <2>1, <2>2, ShuffleAssumption
    <2>5. QED
      BY <2>1, <2>2, <2>3, <2>4 DEF ArrayInv
  <1>10. CASE GenEnd
    BY <1>10 DEF GenEnd, gen, ArrayInv
  <1>11. QED
    BY <1>1, <1>2, <1>3, <1>4, <1>5, <1>6, <1>7, <1>8, <1>9, <1>10, GenCases
       DEF GenCmdBucket, GenNext

-----------------------------------------------------------------------------
(* The lists that parser_gen_cmd_bucket makes *)

\* A reordering has each command as often.
LEMMA ReorderingKeeps ==
    ASSUME NEW T, NEW a \in Seq(T), NEW b \in Seq(T), NEW n \in Nat, Len(a) = n, Len(b) = n,
           \E h \in [1..n -> 1..n] :
                /\ \A i, j \in 1..n : h[i] = h[j] => i = j
                /\ \A j \in 1..n : \E i \in 1..n : h[i] = j
                /\ \A k \in 1..n : b[k] = a[h[k]]
    PROVE  ToBag(b) = ToBag(a)
  <1> DEFINE Of(s, x) == {i \in DOMAIN s : s[i] = x}
  <1>1. DOMAIN a = 1..n /\ DOMAIN b = 1..n
    OBVIOUS
  <1>2. PICK h \in [1..n -> 1..n] :
                /\ \A i, j \in 1..n : h[i] = h[j] => i = j
                /\ \A j \in 1..n : \E i \in 1..n : h[i] = j
                /\ \A k \in 1..n : b[k] = a[h[k]]
    OBVIOUS
  <1>5. /\ \A i \in 1..n : h[i] \in 1..n
        /\ \A i, j \in 1..n : h[i] = h[j] => i = j
        /\ \A j \in 1..n : \E i \in 1..n : h[i] = j
    BY <1>2
  <1>6. \A k \in 1..n : b[k] = a[h[k]]
    BY <1>2
  <1>7. Range(b) = Range(a)
    <2>1. ASSUME NEW j \in 1..n PROVE \E i \in 1..n : b[i] = a[j]
      BY <1>5, <1>6
    <2>2. ASSUME NEW i \in 1..n PROVE \E j \in 1..n : a[j] = b[i]
      BY <1>5, <1>6
    <2>3. Range(b) = {b[i] : i \in 1..n} /\ Range(a) = {a[i] : i \in 1..n}
      BY <1>1 DEF Range
    <2>4. QED
      BY <2>1, <2>2, <2>3
  <1>8. ASSUME NEW x PROVE Cardinality(Of(b, x)) = Cardinality(Of(a, x))
    <2> DEFINE g == [i \in Of(b, x) |-> h[i]]
    <2>1. g \in [Of(b, x) -> Of(a, x)]
      BY <1>1, <1>5, <1>6
    <2>2. \A i, j \in Of(b, x) : g[i] = g[j] => i = j
      BY <1>1, <1>5
    <2>3. \A j \in Of(a, x) : \E i \in Of(b, x) : g[i] = j
      BY <1>1, <1>5, <1>6
    <2>4. IsFiniteSet(Of(b, x))
      <3>0. 1 \in Int /\ n \in Int
        OBVIOUS
      <3>1. IsFiniteSet(1..n)
        BY <3>0, FS_Interval, Zenon
      <3>2. Of(b, x) \subseteq 1..n
        BY <1>1
      <3>3. QED
        BY <3>1, <3>2, FS_Subset
    <2>5. g \in Bijection(Of(b, x), Of(a, x))
      BY <2>1, <2>2, <2>3 DEF Bijection, Injection, Surjection, IsInjective
    <2>6. QED
      BY <2>4, <2>5, FS_Bijection DEF ExistsBijection
  <1>9. /\ ToBag(b) = [x \in Range(b) |-> Cardinality(Of(b, x))]
        /\ ToBag(a) = [x \in Range(a) |-> Cardinality(Of(a, x))]
    BY DEF ToBag
  <1> HIDE DEF Of
  <1>10. [x \in Range(a) |-> Cardinality(Of(b, x))] = [x \in Range(a) |-> Cardinality(Of(a, x))]
    BY <1>8
  <1>11. QED
    BY <1>7, <1>9, <1>10

\* A swap leaves each command as often as it was, and the last one in its
\* place.
LEMMA SwapKeeps ==
    ASSUME NEW T, NEW arr \in Seq(T), NEW a, NEW b, NEW f, Reorders(arr, f),
           a = b \/ (a \in 1..(Len(arr) - 1) /\ b \in 1..(Len(arr) - 1))
    PROVE  Reorders(Swapped(arr, a, b), f)
  <1>1. PICK n \in Nat : n = Len(arr)
    OBVIOUS
  <1> DEFINE new == Swapped(arr, a, b)
             h == [k \in 1..n |-> Place(a, b, k)]
  <1>2. a = b \/ (a \in 1..n /\ b \in 1..n)
    BY <1>1
  <1>3. new \in Seq(T) /\ Len(new) = n
    BY <1>1, <1>2, SwappedType
  <1>4. new = [k \in 1..n |-> arr[Place(a, b, k)]]
    BY <1>1, <1>2, SwappedIs
  <1> HIDE DEF new
  <1>5. /\ h \in [1..n -> 1..n]
        /\ \A i, j \in 1..n : h[i] = h[j] => i = j
        /\ \A j \in 1..n : \E i \in 1..n : h[i] = j
    <2>1. h \in [1..n -> 1..n]
      BY <1>2 DEF Place
    <2>2. \A i, j \in 1..n : h[i] = h[j] => i = j
      BY <1>2 DEF Place
    <2>3. ASSUME NEW j \in 1..n PROVE \E i \in 1..n : h[i] = j
      <3>1. Place(a, b, j) \in 1..n /\ Place(a, b, Place(a, b, j)) = j
        BY <1>2 DEF Place
      <3>2. h[Place(a, b, j)] = j
        BY <3>1
      <3>3. QED
        BY <3>1, <3>2
    <2>4. QED
      BY <2>1, <2>2, <2>3
  <1>6. \A k \in 1..n : new[k] = arr[h[k]]
    BY <1>4
  <1> HIDE DEF h
  <1>7. ToBag(new) = ToBag(arr)
    <2>1. \E g \in [1..n -> 1..n] :
              /\ \A i, j \in 1..n : g[i] = g[j] => i = j
              /\ \A j \in 1..n : \E i \in 1..n : g[i] = j
              /\ \A k \in 1..n : new[k] = arr[g[k]]
      BY <1>5, <1>6, Zenon
    <2>2. QED
      BY <1>1, <1>3, <2>1, ReorderingKeeps
  <1>8. arr # <<>> => new # <<>> /\ Last(new) = Last(arr)
    <2>1. arr # <<>> => n \in 1..n /\ Place(a, b, n) = n
      BY <1>1 DEF Place
    <2>2. arr # <<>> => new[n] = arr[n]
      BY <1>4, <2>1
    <2>3. arr # <<>> => new # <<>>
      BY <1>1, <1>3, <2>1
    <2>4. QED
      BY <1>1, <1>3, <2>2, <2>3 DEF Last
  <1>9. QED
    BY <1>7, <1>8 DEF Reorders, new

LEMMA InitRows == Init => RowsInv
  BY DEF Init, GenInit, RowsInv

LEMMA StepRows ==
    ASSUME PlaceInv, LocalsInv, CountInv, ArrayInv, XmlInv, FileInv, RowsInv, [Next]_vars
    PROVE  RowsInv'
  <1> DEFINE Ls == {Linked(s) : s \in Seq(Stored)}
             Row(l, f) == \E a \in Seq(Stored) : l = Linked(a) /\ Reorders(a, f)
  <1>1. CASE Quiet
    <2>1. UNCHANGED <<bucket, cmd_array, filled>> /\ (pc = "fill" <=> pc' = "fill")
      BY <1>1 DEF Quiet, gen
    <2>2. config_type' # "XML" => config_type # "XML"
      BY <1>1 DEF Quiet
    <2>3. QED
      BY <2>1, <2>2 DEF RowsInv
  <1>2. ASSUME NEW r \in Rates, NEW given \in SUBSET (1..4), TxtRate(r, given)
        PROVE  RowsInv'
    <2>1. /\ pc # "fill" /\ pc' # "fill" /\ UNCHANGED <<bucket, config_type>>
      BY <1>2 DEF TxtRate, At, Goto, Ends
    <2>2. QED
      BY <2>1 DEF RowsInv
  <1>3. ASSUME NEW w \in Windows, NEW given \in SUBSET (1..2), TxtWindow(w, given)
        PROVE  RowsInv'
    <2>1. /\ pc # "fill" /\ pc' # "fill" /\ UNCHANGED <<bucket, config_type>>
      BY <1>3 DEF TxtWindow, At, Goto, Ends
    <2>2. QED
      BY <2>1 DEF RowsInv
  <1>4. CASE XmlListEnd
    <2>1. /\ pc = "list" /\ pc' = "cmds" /\ bucket' = Append(bucket, cmd_list)
          /\ UNCHANGED config_type
      BY <1>4 DEF XmlListEnd, At, Goto
    <2>2. config_type = "XML"
      BY <2>1, <1>4 DEF PlaceInv, TxtPlaces, XmlListEnd
    <2>3. cmd_list = Linked(file.lists[Len(file.lists)]) /\ Len(file.lists) = Len(bucket) + 1
      BY <2>1, <2>2 DEF XmlInv, XmlLists
    <2>4. file.lists[Len(file.lists)] \in Seq(Cmds)
      BY <2>3 DEF FileInv, RowsInv
    <2>5. file.lists[Len(file.lists)] \in Seq(Stored)
      BY <2>4 DEF Stored
    <2>6. bucket' \in Seq(Ls)
      BY <2>1, <2>3, <2>5 DEF RowsInv
    <2>7. QED
      BY <2>1, <2>2, <2>6 DEF RowsInv
  <1>5. CASE StartGen /\ pc' # "fill" /\ UNCHANGED config_type
    BY <1>5 DEF StartGen, RowsInv
  <1>6. CASE StartGen /\ pc' = "fill"
    <2>1. UNCHANGED bucket /\ filled' = cmd_array'
      BY <1>6 DEF StartGen
    <2>2. bucket = <<>>
      BY <1>6 DEF StartGen, PlaceInv, XmlPlaces, RowsInv
    <2>3. QED
      BY <1>6, <2>1, <2>2 DEF RowsInv, Reorders
  <1>7. ASSUME NEW up \in BOOLEAN, NEW low \in BOOLEAN, Fill(up, low) PROVE RowsInv'
    <2>1. /\ pc = "fill" /\ pc' = "fill" /\ ntype <= 4 /\ UNCHANGED bucket
          /\ filled' = cmd_array'
      BY <1>7 DEF Fill
    <2>2. Len(bucket) = 0
      BY <2>1 DEF ArrayInv
    <2>3. QED
      BY <2>1, <2>2 DEF RowsInv, Reorders
  <1>8. ASSUME NEW a \in Draws, NEW b \in Draws, Swap(a, b) PROVE RowsInv'
    <2>1. /\ pc = "fill" /\ pc' = "fill" /\ UNCHANGED <<bucket, filled>>
          /\ cmd_array' = cmd_array \/ cmd_array' = Swapped(cmd_array, a, b)
      BY <1>8 DEF Swap
    <2>2. cmd_array \in Seq(Stored) /\ Reorders(cmd_array, filled)
      BY <2>1 DEF ArrayInv, RowsInv
    <2>3. \/ a = b
          \/ a \in 1..(Len(cmd_array) - 1) /\ b \in 1..(Len(cmd_array) - 1)
      BY <1>8, DrawsAre
    <2>4. Reorders(Swapped(cmd_array, a, b), filled)
      BY <2>2, <2>3, SwapKeeps
    <2>5. Reorders(cmd_array', filled')
      BY <2>1, <2>2, <2>4
    <2>6. QED
      BY <2>1, <2>5 DEF RowsInv
  <1>9. CASE GenRow
    <2>1. /\ pc = "fill" /\ pc' = "fill" /\ UNCHANGED <<cmd_array, filled>>
          /\ bucket' = Append(bucket, ListOf(cmd_array))
      BY <1>9 DEF GenRow
    <2>2. cmd_array \in Seq(Stored) /\ Reorders(cmd_array, filled)
      BY <2>1 DEF ArrayInv, RowsInv
    <2>3. ListOf(cmd_array) = Linked(cmd_array)
      BY <2>2, ListOfIs
    <2>4. bucket' \in Seq(Ls) /\ Len(bucket') = Len(bucket) + 1
      BY <2>1, <2>2, <2>3 DEF RowsInv
    <2>5. ASSUME NEW k \in 1..Len(bucket') PROVE Row(bucket'[k], filled)
      <3>1. CASE k = Len(bucket) + 1
        <4>1. bucket'[k] = Linked(cmd_array)
          BY <2>1, <2>3, <3>1 DEF RowsInv
        <4>2. QED
          BY <2>2, <4>1
      <3>2. CASE k # Len(bucket) + 1
        <4>1. k \in 1..Len(bucket) /\ bucket'[k] = bucket[k]
          BY <2>1, <2>4, <3>2 DEF RowsInv
        <4>2. QED
          BY <2>1, <4>1 DEF RowsInv
      <3>3. QED
        BY <3>1, <3>2
    <2>6. QED
      BY <2>1, <2>2, <2>4, <2>5 DEF RowsInv
  <1>10. CASE GenEnd /\ UNCHANGED config_type
    BY <1>10 DEF GenEnd, gen, RowsInv
  <1>11. QED
    BY <1>1, <1>2, <1>3, <1>4, <1>5, <1>6, <1>7, <1>8, <1>9, <1>10, GenCases
       DEF GenCmdBucket, GenNext

-----------------------------------------------------------------------------
(* What is read of the file *)

FileType ==
    [write : Seq(ListsOfAddresses), read : Seq(ListsOfAddresses),
     lists : Seq(Seq(Cmds)), tables : Seq(Columns), creates : Seq(Creates)]

\* What Told notes.
ToldNow(type, ads) ==
    /\ file'.lists = file.lists /\ file'.tables = file.tables /\ file'.creates = file.creates
    /\ file'.write = IF type = "write" THEN Append(file.write, ads) ELSE file.write
    /\ file'.read = IF type = "write" THEN file.read ELSE Append(file.read, ads)

LEMMA Appended ==
    ASSUME NEW T, NEW q \in Seq(T), NEW x \in T
    PROVE  /\ Append(q, x) \in Seq(T)
           /\ Len(q) \in Nat /\ Len(Append(q, x)) = Len(q) + 1
           /\ Append(q, x)[Len(q) + 1] = x
           /\ \A k \in 1..Len(q) : Append(q, x)[k] = q[k]
  OBVIOUS

LEMMA FirstOf ==
    ASSUME NEW T, NEW q \in Seq(T), q # <<>>
    PROVE  q[1] \in T
  <1>1. Len(q) \in Nat /\ Len(q) # 0
    BY EmptySeq
  <1>2. 1 \in 1..Len(q)
    BY <1>1
  <1>3. QED
    BY <1>2, ElementOfSeq

LEMMA ToldType ==
    ASSUME file \in FileType, NEW type, NEW ads \in ListsOfAddresses, Told(type, ads)
    PROVE  file' \in FileType /\ ToldNow(type, ads)
  <1>1. /\ Append(file.write, ads) \in Seq(ListsOfAddresses)
        /\ Append(file.read, ads) \in Seq(ListsOfAddresses)
    <2>1. file.write \in Seq(ListsOfAddresses) /\ file.read \in Seq(ListsOfAddresses)
      BY DEF FileType
    <2>2. QED
      BY <2>1, Appended
  <1>2. CASE type = "write"
    BY <1>1, <1>2 DEF Told, FileType, ToldNow
  <1>3. CASE type # "write"
    BY <1>1, <1>3 DEF Told, FileType, ToldNow
  <1>4. QED
    BY <1>2, <1>3

LEMMA NodeIs ==
    ASSUME NEW a \in Addresses
    PROVE  <<a>> \in ListsOfAddresses
  BY DEF ListsOfAddresses

LEMMA LineIs ==
    ASSUME NEW ads \in Lines
    PROVE  ads \in ListsOfAddresses
  BY LineAssumption DEF ListsOfAddresses

\* The history variable's sequences change one at a time.
ListsNow(l) == /\ file'.lists = l /\ file'.tables = file.tables
             /\ file'.write = file.write /\ file'.read = file.read
TablesNow(t) == /\ file'.tables = t /\ file'.lists = file.lists
              /\ file'.write = file.write /\ file'.read = file.read

LEMMA NoteLists ==
    ASSUME file \in FileType, NEW l \in Seq(Seq(Cmds)), file' = [file EXCEPT !.lists = l]
    PROVE  file' \in FileType /\ ListsNow(l)
  BY DEF FileType, ListsNow

LEMMA NoteTables ==
    ASSUME file \in FileType, NEW t \in Seq(Columns), file' = [file EXCEPT !.tables = t]
    PROVE  file' \in FileType /\ TablesNow(t)
  BY DEF FileType, TablesNow

LEMMA NoteCmd ==
    ASSUME file \in FileType, XmlCmd
    PROVE  file' \in FileType /\ ListsNow(Append(file.lists, <<>>))
  <1>1. Append(file.lists, <<>>) \in Seq(Seq(Cmds))
    BY DEF FileType
  <1>2. file' = [file EXCEPT !.lists = Append(file.lists, <<>>)]
    BY DEF XmlCmd
  <1>3. QED
    BY <1>1, <1>2, NoteLists

LEMMA ExceptOne ==
    ASSUME NEW T, NEW q \in Seq(T), NEW i, NEW x, i \in 1..Len(q) => x \in T
    PROVE  [q EXCEPT ![i] = x] \in Seq(T) /\ Len([q EXCEPT ![i] = x]) = Len(q)
  <1>1. Len(q) \in Nat /\ q \in [1..Len(q) -> T]
    OBVIOUS
  <1>2. [q EXCEPT ![i] = x] \in [1..Len(q) -> T]
    BY <1>1
  <1>3. QED
    BY <1>1, <1>2

LEMMA NoteCommand ==
    ASSUME file \in FileType, NEW c \in Cmds, XmlCommand(c)
    PROVE  /\ file' \in FileType
           /\ ListsNow([file.lists EXCEPT ![Len(file.lists)] = Append(@, c)])
  <1>1. file.lists \in Seq(Seq(Cmds))
    BY DEF FileType
  <1>2. [file.lists EXCEPT ![Len(file.lists)] = Append(@, c)] \in Seq(Seq(Cmds))
    <2>1. Len(file.lists) \in 1..Len(file.lists) =>
              Append(file.lists[Len(file.lists)], c) \in Seq(Cmds)
      BY <1>1
    <2>2. QED
      BY <1>1, <2>1, ExceptOne
  <1>3. file' = [file EXCEPT !.lists = [file.lists EXCEPT ![Len(file.lists)] = Append(@, c)]]
    BY DEF XmlCommand
  <1>4. QED
    BY <1>2, <1>3, NoteLists

LEMMA NoteTable ==
    ASSUME file \in FileType, XmlTable
    PROVE  file' \in FileType /\ TablesNow(Append(file.tables, EmptySchema))
  <1>1. EmptySchema \in Columns
    BY DEF EmptySchema, Columns
  <1>2. Append(file.tables, EmptySchema) \in Seq(Columns)
    BY <1>1 DEF FileType
  <1>3. file' = [file EXCEPT !.tables = Append(file.tables, EmptySchema)]
    BY DEF XmlTable
  <1>4. QED
    BY <1>2, <1>3, NoteTables

LEMMA NoteCreate ==
    ASSUME file \in FileType, NEW c \in Creates, TxtTable(c)
    PROVE  /\ file' \in FileType /\ file'.creates = Append(file.creates, c)
           /\ file'.write = file.write /\ file'.read = file.read
  <1>1. Append(file.creates, c) \in Seq(Creates)
    BY DEF FileType
  <1>2. file' = [file EXCEPT !.creates = Append(file.creates, c)]
    BY DEF TxtTable
  <1>3. QED
    BY <1>1, <1>2 DEF FileType

LEMMA NoteColumn ==
    ASSUME file \in FileType, NEW part \in {"key", "val"}, NEW type \in TypesOfColumns,
           XmlColumn(part, type)
    PROVE  LET n == Len(file.tables)
           IN /\ file' \in FileType
              /\ TablesNow([file.tables EXCEPT ![n] =
                               [file.tables[n] EXCEPT ![part] = Append(@, type)]])
  <1> DEFINE n == Len(file.tables)
             x == [file.tables[n] EXCEPT ![part] = Append(@, type)]
             t == [file.tables EXCEPT ![n] = x]
  <1>1. file.tables \in Seq(Columns)
    BY DEF FileType
  <1>2. ASSUME NEW s \in Columns PROVE [s EXCEPT ![part] = Append(@, type)] \in Columns
    <2>1. s.key \in Seq(TypesOfColumns) /\ s.val \in Seq(TypesOfColumns)
      BY DEF Columns
    <2>2. CASE part = "key"
      BY <2>1, <2>2 DEF Columns
    <2>3. CASE part = "val"
      BY <2>1, <2>3 DEF Columns
    <2>4. QED
      BY <2>2, <2>3
  <1>3. t \in Seq(Columns)
    <2>1. n \in 1..Len(file.tables) => x \in Columns
      BY <1>1, <1>2
    <2> HIDE DEF n, x
    <2>2. QED
      BY <1>1, <2>1, ExceptOne
  <1>4. file' = [file EXCEPT !.tables = t]
    BY DEF XmlColumn
  <1> HIDE DEF t
  <1>5. file' \in FileType /\ TablesNow(t)
    BY <1>3, <1>4, NoteTables
  <1>6. QED
    BY <1>5 DEF t

LEMMA InitFile == Init => FileInv
  <1> SUFFICES ASSUME Init PROVE FileInv
    OBVIOUS
  <1>1. file \in FileType
    BY DEF Init, FileType
  <1>2. QED
    BY <1>1 DEF Init, FileInv, FileType, Results

LEMMA StepFile ==
    ASSUME FileInv, [Next]_vars
    PROVE  FileInv'
  <1> DEFINE Small == /\ result \in Results /\ ip \in {"null", "freed"}
                      /\ line \in {0, 1} /\ nitem \in Nat
                      /\ tables \subseteq TextTables
  <1>0. file \in FileType /\ Small
    BY DEF FileInv, FileType
  <1>q. SUFFICES file' \in FileType /\ Small'
    BY DEF FileInv, FileType
  <1> USE DEF At, Goto, Ends, Results, xml, sets, txt
  <1>1. CASE Stops
    BY <1>0, <1>1 DEF Stops
  <1>2. CASE UNCHANGED vars
    BY <1>0, <1>2 DEF vars
  <1>3. ASSUME NEW t \in {"XML", "TXT", "ERROR"}, CheckType(t) PROVE file' \in FileType /\ Small'
    BY <1>0, <1>3 DEF CheckType
  <1>4. CASE XmlSection
    BY <1>0, <1>4 DEF XmlSection, Section
  <1>5. ASSUME NEW type, NEW a \in Addresses, XmlServer(type, a) PROVE file' \in FileType /\ Small'
    <2>1. Small'
      BY <1>0, <1>5 DEF XmlServer, CountNode, AddServer
    <2>2. <<a>> \in ListsOfAddresses /\ Told(type, <<a>>)
      BY <1>5, NodeIs DEF XmlServer
    <2>3. QED
      BY <1>0, <2>1, <2>2, ToldType
  <1>6. CASE XmlListEnd \/ XmlTableEnd \/ XmlEnd
    BY <1>0, <1>6 DEF XmlListEnd, XmlTableEnd, XmlEnd
  <1>7. CASE XmlCmd \/ XmlTable
    <2>1. Small'
      BY <1>0, <1>7 DEF XmlCmd, XmlTable, CountNode
    <2>2. QED
      BY <1>0, <1>7, <2>1, NoteCmd, NoteTable
  <1>8. ASSUME NEW c \in Cmds, XmlCommand(c) PROVE file' \in FileType /\ Small'
    <2>1. Small'
      BY <1>0, <1>8 DEF XmlCommand, CountNode
    <2>2. QED
      BY <1>0, <1>8, <2>1, NoteCommand
  <1>9. ASSUME NEW part \in {"key", "val"}, NEW type \in TypesOfColumns, XmlColumn(part, type)
        PROVE  file' \in FileType /\ Small'
    <2>1. Small'
      BY <1>0, <1>9 DEF XmlColumn, CountNode
    <2>2. QED
      BY <1>0, <1>9, <2>1, NoteColumn
  <1>10. ASSUME NEW s \in {"server", "txt_table", "rate", "window"}, TxtSection(s)
         PROVE  file' \in FileType /\ Small'
    BY <1>0, <1>10 DEF TxtSection
  <1>11. ASSUME NEW type, NEW ads \in Lines, TxtServer(type, ads)
         PROVE  file' \in FileType /\ Small'
    <2>1. Small'
      BY <1>0, <1>11 DEF TxtServer, NextLine, AddServer
    <2>2. ads \in ListsOfAddresses /\ Told(type, ads)
      BY <1>11, LineIs DEF TxtServer
    <2>3. QED
      BY <1>0, <2>1, <2>2, ToldType
  <1>12. CASE TxtServerSkipped \/ TxtNoTable \/ TxtEnd
    BY <1>0, <1>12 DEF TxtServerSkipped, NextLine, TxtNoTable, TxtEnd
  <1>13. ASSUME NEW c \in Creates, TxtTable(c) PROVE file' \in FileType /\ Small'
    <2>1. ~Overruns(c[2]) => TextTable(c) \in TextTables
      BY DEF TextTables
    <2>2. Small'
      BY <1>0, <1>13, <2>1 DEF TxtTable
    <2>3. QED
      BY <1>0, <1>13, <2>2, NoteCreate
  <1>14. ASSUME NEW r, NEW given, TxtRate(r, given) PROVE file' \in FileType /\ Small'
    BY <1>0, <1>14 DEF TxtRate
  <1>15. ASSUME NEW w, NEW given, TxtWindow(w, given) PROVE file' \in FileType /\ Small'
    BY <1>0, <1>15 DEF TxtWindow
  <1>16. CASE GenCmdBucket
    BY <1>0, <1>16 DEF GenCmdBucket, GenNext, StartGen, Fill, Swap, GenRow, GenEnd
  <1>17. QED
    BY <1>1, <1>2, <1>3, <1>4, <1>5, <1>6, <1>7, <1>8, <1>9, <1>10, <1>11, <1>12, <1>13,
       <1>14, <1>15, <1>16, StepCases DEF Works

\* The steps of the text reader and of parser_gen_cmd_bucket.
TxtWorks ==
    \/ \E s \in {"server", "txt_table", "rate", "window"} : TxtSection(s)
    \/ \E type \in {"write", "read"}, ads \in Lines : TxtServer(type, ads)
    \/ TxtServerSkipped
    \/ (\E c \in Creates : TxtTable(c)) \/ TxtNoTable
    \/ \E r \in Rates, given \in SUBSET (1..4) : TxtRate(r, given)
    \/ \E w \in Windows, given \in SUBSET (1..2) : TxtWindow(w, given)
    \/ TxtEnd
    \/ GenCmdBucket

LEMMA TxtIsTxt ==
    ASSUME PlaceInv, TxtWorks
    PROVE  /\ config_type = "TXT" /\ config_type' = "TXT"
           /\ UNCHANGED <<my_schema, schemas, cmd_list>>
  <1> DEFINE G == config_type' = config_type /\ pc \in TxtPlaces
                  /\ UNCHANGED <<my_schema, schemas, cmd_list>>
  <1> USE DEF At, TxtPlaces, xml, sets
  <1>1. ASSUME NEW s \in {"server", "txt_table", "rate", "window"}, TxtSection(s) PROVE G
    BY <1>1 DEF TxtSection
  <1>2. ASSUME NEW type, NEW ads, TxtServer(type, ads) PROVE G
    BY <1>2 DEF TxtServer, AddServer
  <1>3. ASSUME TxtServerSkipped \/ TxtNoTable \/ TxtEnd PROVE G
    BY <1>3 DEF TxtServerSkipped, TxtNoTable, TxtEnd
  <1>4. ASSUME NEW t, TxtTable(t) PROVE G
    BY <1>4 DEF TxtTable
  <1>5. ASSUME NEW r, NEW given, TxtRate(r, given) PROVE G
    BY <1>5 DEF TxtRate
  <1>6. ASSUME NEW w, NEW given, TxtWindow(w, given) PROVE G
    BY <1>6 DEF TxtWindow
  <1>7. ASSUME GenCmdBucket PROVE G
    BY <1>7 DEF GenCmdBucket, GenNext, StartGen, Fill, Swap, GenRow, GenEnd
  <1>8. G
    BY <1>1, <1>2, <1>3, <1>4, <1>5, <1>6, <1>7 DEF TxtWorks
  <1>9. QED
    BY <1>8 DEF PlaceInv, XmlPlaces

LEMMA InitSchema == Init => SchemaInv
  <1> SUFFICES ASSUME Init PROVE SchemaInv
    OBVIOUS
  <1>1. EmptySchema \in Schemas
    BY CapacityAssumption DEF EmptySchema, Schemas, Columns
  <1>2. QED
    BY <1>1 DEF Init, SchemaInv

\* A column is added to a part of a schema that has room.
LEMMA AddColumn ==
    ASSUME NEW s \in Schemas, NEW part \in {"key", "val"}, NEW type \in TypesOfColumns,
           Len(s[part]) # Capacity
    PROVE  [s EXCEPT ![part] = Append(@, type)] \in Schemas
  <1>1. /\ s \in Columns /\ s.key \in Seq(TypesOfColumns) /\ s.val \in Seq(TypesOfColumns)
        /\ Len(s.key) <= Capacity /\ Len(s.val) <= Capacity
    BY DEF Schemas, Columns
  <1>2. CASE part = "key"
    <2>1. /\ Append(s.key, type) \in Seq(TypesOfColumns)
          /\ Len(Append(s.key, type)) <= Capacity
      BY <1>1, <1>2, CapacityAssumption
    <2>2. QED
      BY <1>1, <1>2, <2>1 DEF Schemas, Columns
  <1>3. CASE part = "val"
    <2>1. /\ Append(s.val, type) \in Seq(TypesOfColumns)
          /\ Len(Append(s.val, type)) <= Capacity
      BY <1>1, <1>3, CapacityAssumption
    <2>2. QED
      BY <1>1, <1>3, <2>1 DEF Schemas, Columns
  <1>4. QED
    BY <1>2, <1>3

LEMMA StepSchema ==
    ASSUME PlaceInv, SchemaInv, [Next]_vars
    PROVE  SchemaInv'
  <1> USE DEF xml, sets
  <1>1. CASE Stops
    BY <1>1 DEF Stops, SchemaInv
  <1>2. CASE UNCHANGED vars
    BY <1>2 DEF vars, SchemaInv
  <1>3. ASSUME NEW t \in {"XML", "TXT", "ERROR"}, CheckType(t) PROVE SchemaInv'
    BY <1>3 DEF CheckType, SchemaInv
  <1>4. CASE XmlSection \/ XmlCmd \/ XmlListEnd \/ XmlEnd
    BY <1>4 DEF XmlSection, XmlCmd, XmlListEnd, XmlEnd, SchemaInv
  <1>5. ASSUME NEW type, NEW a, XmlServer(type, a) PROVE SchemaInv'
    BY <1>5 DEF XmlServer, AddServer, SchemaInv
  <1>6. ASSUME NEW c, XmlCommand(c) PROVE SchemaInv'
    BY <1>6 DEF XmlCommand, SchemaInv
  <1>7. CASE XmlTable
    <2>1. EmptySchema \in Schemas
      BY CapacityAssumption DEF EmptySchema, Schemas, Columns
    <2>2. QED
      BY <1>7, <2>1 DEF XmlTable, SchemaInv
  <1>8. ASSUME NEW part \in {"key", "val"}, NEW type \in TypesOfColumns, XmlColumn(part, type)
        PROVE  SchemaInv'
    <2>1. UNCHANGED schemas
      BY <1>8 DEF XmlColumn
    <2>2. CASE SchemaFull(part)
      BY <1>8, <2>1, <2>2 DEF XmlColumn, SchemaInv
    <2>3. CASE ~SchemaFull(part)
      <3>1. my_schema' = [my_schema EXCEPT ![part] = Append(@, type)]
        BY <1>8, <2>3 DEF XmlColumn
      <3>2. my_schema' \in Schemas
        BY <2>3, <3>1, AddColumn DEF SchemaInv, SchemaFull
      <3>3. QED
        BY <2>1, <3>2 DEF SchemaInv
    <2>4. QED
      BY <2>2, <2>3
  <1>9. CASE XmlTableEnd
    BY <1>9 DEF XmlTableEnd, SchemaInv
  <1>10. CASE TxtWorks
    BY <1>10, TxtIsTxt DEF SchemaInv
  <1>11. QED
    BY <1>1, <1>2, <1>3, <1>4, <1>5, <1>6, <1>7, <1>8, <1>9, <1>10, StepCases
       DEF Works, TxtWorks

-----------------------------------------------------------------------------
(* The XML reader *)

LEMMA InitXml == Init => XmlInv
  <1> SUFFICES ASSUME Init PROVE XmlInv
    OBVIOUS
  <1>1. XmlLists
    BY DEF Init, GenInit, XmlLists
  <1>2. XmlServers
    BY FS_EmptySet DEF Init, XmlServers, OnePerNode
  <1>3. QED
    BY <1>1, <1>2 DEF Init, XmlInv, XmlTables

LEMMA AddSize ==
    ASSUME NEW S, NEW x, IsFiniteSet(S), x \notin S
    PROVE  IsFiniteSet(S \cup {x}) /\ Cardinality(S \cup {x}) = Cardinality(S) + 1
  BY FS_AddElement

\* A node gives one more server.
LEMMA AddNode ==
    ASSUME NEW S, NEW told \in Seq(ListsOfAddresses), NEW a \in Addresses,
           IsFiniteSet(S), OnePerNode(S, told), Server(a) \notin S
    PROVE  IsFiniteSet(S \cup {Server(a)}) /\ OnePerNode(S \cup {Server(a)}, Append(told, <<a>>))
  <1> DEFINE t == Append(told, <<a>>)
             n == Len(told)
  <1>1. /\ Len(t) = n + 1 /\ n \in Nat /\ t[n + 1] = <<a>>
        /\ \A k \in 1..n : t[k] = told[k]
    BY NodeIs
  <1>2. t[n + 1][1] = a
    BY <1>1
  <1>3. /\ IsFiniteSet(S \cup {Server(a)})
        /\ Cardinality(S \cup {Server(a)}) = Cardinality(S) + 1
    BY AddSize
  <1>4. Cardinality(S) = n /\ S = {Server(told[k][1]) : k \in 1..n}
    BY DEF OnePerNode
  <1> HIDE DEF t, n
  <1>5. S \cup {Server(a)} = {Server(t[k][1]) : k \in 1..(n + 1)}
    <2>1. 1..(n + 1) = 1..n \cup {n + 1}
      BY <1>1
    <2>2. S = {Server(t[k][1]) : k \in 1..n}
      BY <1>1, <1>4
    <2>3. QED
      BY <1>2, <2>1, <2>2
  <1>6. QED
    BY <1>1, <1>3, <1>4, <1>5 DEF OnePerNode, t

\* The servers, lists and tables of a step that does not concern them.
LEMMA XmlServersSame ==
    ASSUME XmlServers, UNCHANGED <<write_servers, read_servers>>,
           file'.write = file.write, file'.read = file.read
    PROVE  XmlServers'
  BY DEF XmlServers

LEMMA XmlListsSame ==
    ASSUME XmlLists, UNCHANGED <<bucket, cmd_list>>, file'.lists = file.lists,
           pc = "list" <=> pc' = "list"
    PROVE  XmlLists'
  BY DEF XmlLists

LEMMA XmlTablesSame ==
    ASSUME XmlTables, UNCHANGED <<schemas, my_schema>>, file'.tables = file.tables,
           pc = "table" <=> pc' = "table",
           result' \in {"running", "parsed"} => result \in {"running", "parsed"}
    PROVE  XmlTables'
  BY DEF XmlTables

\* cmd_list_add: the list being read is still the last one of the file.
LEMMA XmlCommandLists ==
    ASSUME FileInv, RowsInv, XmlLists, NEW c \in Cmds, XmlCommand(c)
    PROVE  XmlLists'
  <1> DEFINE n == Len(file.lists)
             l == [file.lists EXCEPT ![n] = Append(@, c)]
  <1>1. file \in FileType
    BY DEF FileInv, FileType
  <1>2. /\ pc = "list" /\ pc' = "list" /\ UNCHANGED bucket
        /\ cmd_list' = cmd_list_add(cmd_list, c)
    BY DEF XmlCommand, At, Goto, gen
  <1>3. file'.lists = l
    BY <1>1, NoteCommand DEF ListsNow
  <1>4. /\ file.lists \in Seq(Seq(Cmds)) /\ n = Len(bucket) + 1 /\ Len(bucket) \in Nat
        /\ cmd_list = Linked(file.lists[n])
    BY <1>1, <1>2 DEF FileType, XmlLists, RowsInv
  <1>5. file.lists[n] \in Seq(Cmds)
    BY <1>4
  <1>6. l[n] = Append(file.lists[n], c) /\ Len(l) = n /\ \A k \in 1..Len(bucket) : l[k] = file.lists[k]
    BY <1>4
  <1>7. cmd_list' = Linked(l[n])
    BY <1>2, <1>4, <1>5, <1>6, LinkedAdd
  <1> HIDE DEF l
  <1>8. QED
    BY <1>2, <1>3, <1>4, <1>6, <1>7 DEF XmlLists

LEMMA AppendExcept ==
    ASSUME NEW T, NEW q \in Seq(T), NEW x \in T, NEW y
    PROVE  [Append(q, x) EXCEPT ![Len(q) + 1] = y] = Append(q, y)
  <1> DEFINE n == Len(q) + 1
             a == Append(q, x)
             e == [a EXCEPT ![n] = y]
             b == Append(q, y)
             U == T \cup {y}
  <1>1. q \in Seq(U) /\ x \in U /\ y \in U
    OBVIOUS
  <1>2. a \in Seq(U) /\ Len(a) = n /\ b \in Seq(U) /\ Len(b) = n
    BY <1>1
  <1>3. e \in Seq(U) /\ Len(e) = n
    BY <1>1, <1>2, ExceptOne
  <1>4. ASSUME NEW k \in 1..n PROVE e[k] = b[k]
    <2>1. k \in DOMAIN a
      BY <1>2
    <2>2. e[k] = IF k = n THEN y ELSE a[k]
      BY <2>1
    <2>3. k # n => k \in 1..Len(q)
      OBVIOUS
    <2>4. k # n => a[k] = q[k] /\ b[k] = q[k]
      BY <2>3
    <2>5. b[n] = y
      OBVIOUS
    <2>6. QED
      BY <2>2, <2>4, <2>5
  <1> HIDE DEF e, b, U
  <1>5. e = b
    BY <1>2, <1>3, <1>4, SeqEqual
  <1>6. QED
    BY <1>5 DEF e, b

\* schema_add: the schema being read is still the last one of the file.
LEMMA XmlColumnTables ==
    ASSUME FileInv, SchemaInv, XmlTables,
           NEW part \in {"key", "val"}, NEW type \in TypesOfColumns, XmlColumn(part, type)
    PROVE  XmlTables'
  <1>1. file \in FileType
    BY DEF FileInv, FileType
  <1>2. CASE SchemaFull(part)
    BY <1>2 DEF XmlColumn, Ends, XmlTables
  <1>3. CASE ~SchemaFull(part)
    <2> DEFINE x == [my_schema EXCEPT ![part] = Append(@, type)]
               n == Len(schemas) + 1
    <2>1. /\ my_schema' = x /\ UNCHANGED schemas /\ pc = "table" /\ pc' = "table"
          /\ result = "running"
      BY <1>3 DEF XmlColumn, At, Goto, sets
    <2>2. file.tables = Append(schemas, my_schema)
      BY <2>1 DEF XmlTables
    <2>3. /\ schemas \in Seq(Schemas) /\ my_schema \in Schemas
          /\ Len(file.tables) = n /\ file.tables[n] = my_schema
      BY <2>2 DEF SchemaInv
    <2>4. file'.tables = [file.tables EXCEPT ![n] = x]
      BY <1>1, <2>3, NoteColumn DEF TablesNow
    <2> HIDE DEF x
    <2>5. file'.tables = Append(schemas, x)
      BY <2>2, <2>3, <2>4, AppendExcept
    <2>6. QED
      BY <2>1, <2>5 DEF XmlTables
  <1>4. QED
    BY <1>2, <1>3

LEMMA StepXml ==
    ASSUME PlaceInv, FileInv, SchemaInv, RowsInv, XmlInv, [Next]_vars
    PROVE  XmlInv'
  <1> USE DEF xml, sets, At, Goto, Ends
  <1>0. file \in FileType
    BY DEF FileInv, FileType
  <1>1. CASE Stops
    <2>1. /\ UNCHANGED <<pc, config_type, write_servers, read_servers, file, bucket, cmd_list>>
          /\ result' \notin {"running", "parsed"}
      BY <1>1 DEF Stops, gen
    <2>2. XmlLists => XmlLists'
      BY <2>1, XmlListsSame
    <2>3. QED
      BY <2>1, <2>2 DEF XmlInv, XmlServers, XmlTables
  <1>2. CASE UNCHANGED vars
    BY <1>2 DEF vars, gen, XmlInv, XmlServers, XmlLists, XmlTables
  <1>3. ASSUME NEW t \in {"XML", "TXT", "ERROR"}, CheckType(t) PROVE XmlInv'
    <2>1. /\ UNCHANGED <<write_servers, read_servers, file, bucket, cmd_list, schemas, my_schema>>
          /\ pc = "type" /\ pc' \notin {"list", "table"}
          /\ result = "running" /\ result' # "parsed" /\ config_type # "TXT"
      BY <1>3 DEF CheckType, gen, PlaceInv
    <2>2. XmlLists' /\ XmlTables'
      BY <2>1, XmlListsSame, XmlTablesSame DEF XmlInv, XmlServers
    <2>3. QED
      BY <2>1, <2>2 DEF XmlInv, XmlServers
  <1>4. CASE XmlSection
    <2>1. /\ UNCHANGED <<write_servers, read_servers, file, bucket, cmd_list, schemas, my_schema>>
          /\ pc \notin {"list", "table"} /\ pc' \notin {"list", "table"}
          /\ result = "running" /\ UNCHANGED <<result, config_type>>
      BY <1>4 DEF XmlSection, Section, gen
    <2>2. (XmlLists => XmlLists') /\ (XmlTables => XmlTables')
      BY <2>1, XmlListsSame, XmlTablesSame
    <2>3. QED
      BY <2>1, <2>2 DEF XmlInv, XmlServers
  <1>5. ASSUME NEW type \in {"write", "read"}, NEW a \in Addresses, XmlServer(type, a)
        PROVE XmlInv'
    <2>1. /\ UNCHANGED <<bucket, cmd_list, schemas, my_schema>>
          /\ pc = "servers" /\ pc' = "servers"
          /\ result = "running" /\ UNCHANGED <<result, config_type>>
      BY <1>5 DEF XmlServer, AddServer, gen
    <2>2. ToldNow(type, <<a>>)
      BY <1>0, <1>5, NodeIs, ToldType DEF XmlServer
    <2>3. AddServer(type, Server(a)) /\ file.write \in Seq(ListsOfAddresses)
          /\ file.read \in Seq(ListsOfAddresses)
      BY <1>0, <1>5 DEF XmlServer, FileType
    <2>4. (XmlLists => XmlLists') /\ (XmlTables => XmlTables')
      BY <2>1, <2>2, XmlListsSame, XmlTablesSame DEF ToldNow
    <2>5. ASSUME XmlServers PROVE XmlServers'
      <3>1. CASE type = "write"
        BY <2>2, <2>3, <2>5, <3>1, AddNode DEF AddServer, ToldNow, XmlServers
      <3>2. CASE type # "write"
        BY <2>2, <2>3, <2>5, <3>2, AddNode DEF AddServer, ToldNow, XmlServers
      <3>3. QED
        BY <3>1, <3>2
    <2>6. QED
      BY <2>1, <2>4, <2>5 DEF XmlInv
  <1>6. CASE XmlCmd
    <2>1. /\ UNCHANGED <<bucket, write_servers, read_servers, schemas, my_schema>>
          /\ cmd_list' = cmd_list_init /\ pc = "cmds" /\ pc' = "list"
          /\ result = "running" /\ UNCHANGED <<result, config_type>>
      BY <1>6 DEF XmlCmd, gen
    <2>2. ListsNow(Append(file.lists, <<>>)) /\ file.lists \in Seq(Seq(Cmds))
      BY <1>0, <1>6, NoteCmd DEF FileType
    <2>3. XmlTables => XmlTables'
      BY <2>1, <2>2, XmlTablesSame DEF ListsNow
    <2>4. XmlLists => XmlLists'
      BY <2>1, <2>2, LinkedEmpty DEF ListsNow, XmlLists, RowsInv
    <2>5. QED
      BY <2>1, <2>2, <2>3, <2>4 DEF XmlInv, XmlServers, ListsNow
  <1>7. ASSUME NEW c \in Cmds, XmlCommand(c) PROVE XmlInv'
    <2>1. /\ UNCHANGED <<write_servers, read_servers, schemas, my_schema>>
          /\ pc = "list" /\ pc' = "list"
          /\ result = "running" /\ UNCHANGED <<result, config_type>>
      BY <1>7 DEF XmlCommand
    <2>2. \E l : ListsNow(l)
      BY <1>0, <1>7, NoteCommand
    <2>3. XmlTables => XmlTables'
      BY <2>1, <2>2, XmlTablesSame DEF ListsNow
    <2>4. XmlLists => XmlLists'
      BY <1>7, XmlCommandLists
    <2>5. QED
      BY <2>1, <2>2, <2>3, <2>4 DEF XmlInv, XmlServers, ListsNow
  <1>8. CASE XmlListEnd
    <2>1. /\ UNCHANGED <<write_servers, read_servers, schemas, my_schema, file, cmd_list>>
          /\ bucket' = Append(bucket, cmd_list) /\ pc = "list" /\ pc' = "cmds"
          /\ result = "running" /\ UNCHANGED <<result, config_type>>
      BY <1>8 DEF XmlListEnd
    <2>2. XmlTables => XmlTables'
      BY <2>1, XmlTablesSame
    <2>3. ASSUME XmlLists PROVE XmlLists'
      <3>1. /\ Len(file.lists) = Len(bucket) + 1 /\ Len(bucket) \in Nat
            /\ cmd_list = Linked(file.lists[Len(bucket) + 1])
        BY <2>1, <2>3 DEF XmlLists, RowsInv
      <3>2. /\ Len(bucket') = Len(bucket) + 1 /\ bucket'[Len(bucket) + 1] = cmd_list
            /\ \A k \in 1..Len(bucket) : bucket'[k] = bucket[k]
        BY <2>1 DEF RowsInv
      <3>3. \A k \in 1..Len(bucket') : k \in 1..Len(bucket) \/ k = Len(bucket) + 1
        BY <3>1, <3>2
      <3>4. \A k \in 1..Len(bucket') : bucket'[k] = Linked(file.lists[k])
        BY <2>3, <3>1, <3>2, <3>3 DEF XmlLists
      <3>5. QED
        BY <2>1, <3>1, <3>2, <3>4 DEF XmlLists
    <2>4. QED
      BY <2>1, <2>2, <2>3 DEF XmlInv, XmlServers
  <1>9. CASE XmlTable
    <2>1. /\ UNCHANGED <<bucket, write_servers, read_servers, schemas, cmd_list>>
          /\ my_schema' = EmptySchema /\ pc = "tables" /\ pc' = "table"
          /\ result = "running" /\ UNCHANGED <<result, config_type>>
      BY <1>9 DEF XmlTable, gen
    <2>2. TablesNow(Append(file.tables, EmptySchema))
      BY <1>0, <1>9, NoteTable
    <2>3. XmlLists => XmlLists'
      BY <2>1, <2>2, XmlListsSame DEF TablesNow
    <2>4. XmlTables => XmlTables'
      BY <2>1, <2>2 DEF TablesNow, XmlTables
    <2>5. QED
      BY <2>1, <2>2, <2>3, <2>4 DEF XmlInv, XmlServers, TablesNow
  <1>10. ASSUME NEW part \in {"key", "val"}, NEW type \in TypesOfColumns, XmlColumn(part, type)
         PROVE XmlInv'
    <2>1. /\ UNCHANGED <<bucket, write_servers, read_servers, cmd_list, config_type>>
          /\ pc = "table" /\ pc' = "table" /\ result' # "parsed"
      BY <1>10 DEF XmlColumn, gen
    <2>2. \E t : TablesNow(t)
      BY <1>0, <1>10, NoteColumn
    <2>3. XmlLists => XmlLists'
      BY <2>1, <2>2, XmlListsSame DEF TablesNow
    <2>4. XmlTables => XmlTables'
      BY <1>10, XmlColumnTables
    <2>5. QED
      BY <2>1, <2>2, <2>3, <2>4 DEF XmlInv, XmlServers, TablesNow
  <1>11. CASE XmlTableEnd
    <2>1. /\ UNCHANGED <<write_servers, read_servers, bucket, file, cmd_list>>
          /\ schemas' = Append(schemas, my_schema) /\ pc = "table" /\ pc' = "tables"
          /\ result = "running" /\ UNCHANGED <<result, config_type>>
      BY <1>11 DEF XmlTableEnd, gen
    <2>2. XmlLists => XmlLists'
      BY <2>1, XmlListsSame
    <2>3. XmlTables => XmlTables'
      BY <2>1 DEF XmlTables
    <2>4. QED
      BY <2>1, <2>2, <2>3 DEF XmlInv, XmlServers
  <1>12. CASE XmlEnd
    <2>1. /\ UNCHANGED <<write_servers, read_servers, bucket, file, cmd_list, schemas,
                         my_schema, pc, config_type>>
          /\ pc = "tables" /\ result = "running"
      BY <1>12 DEF XmlEnd, gen
    <2>2. (XmlLists => XmlLists') /\ (XmlTables => XmlTables')
      BY <2>1, XmlListsSame, XmlTablesSame
    <2>3. QED
      BY <2>1, <2>2 DEF XmlInv, XmlServers
  <1>13. CASE TxtWorks
    BY <1>13, TxtIsTxt DEF XmlInv
  <1>14. QED
    BY <1>1, <1>2, <1>3, <1>4, <1>5, <1>6, <1>7, <1>8, <1>9, <1>10, <1>11, <1>12, <1>13,
       StepCases DEF Works, TxtWorks

-----------------------------------------------------------------------------
(* The text reader *)

\* The steps of the XML reader.
XmlWorks ==
    \/ XmlSection
    \/ \E type \in {"write", "read"}, a \in Addresses : XmlServer(type, a)
    \/ XmlCmd \/ (\E c \in Cmds : XmlCommand(c)) \/ XmlListEnd
    \/ XmlTable
    \/ \E part \in {"key", "val"}, type \in TypesOfColumns : XmlColumn(part, type)
    \/ XmlTableEnd \/ XmlEnd

LEMMA XmlIsXml ==
    ASSUME PlaceInv, XmlWorks
    PROVE  config_type' = "XML"
  <1> DEFINE G == config_type' = config_type /\ pc \in XmlPlaces
  <1> USE DEF At, XmlPlaces
  <1>1. ASSUME XmlSection PROVE G
    BY <1>1 DEF XmlSection, Section
  <1>2. ASSUME NEW type, NEW a, XmlServer(type, a) PROVE G
    BY <1>2 DEF XmlServer
  <1>3. ASSUME XmlCmd \/ XmlListEnd \/ XmlTable \/ XmlTableEnd \/ XmlEnd PROVE G
    BY <1>3 DEF XmlCmd, XmlListEnd, XmlTable, XmlTableEnd, XmlEnd
  <1>4. ASSUME NEW c, XmlCommand(c) PROVE G
    BY <1>4 DEF XmlCommand
  <1>5. ASSUME NEW part, NEW type, XmlColumn(part, type) PROVE G
    BY <1>5 DEF XmlColumn
  <1>6. G
    BY <1>1, <1>2, <1>3, <1>4, <1>5 DEF XmlWorks
  <1>7. QED
    BY <1>6 DEF PlaceInv, TxtPlaces

LEMMA InitTxt == Init => TxtInv
  <1> SUFFICES ASSUME Init PROVE TxtInv
    OBVIOUS
  <1>1. /\ tables = {} /\ write_servers = {} /\ read_servers = {} /\ schemas = <<>>
        /\ result = "running" /\ file.creates = <<>> /\ file.write = <<>> /\ file.read = <<>>
    BY DEF Init
  <1>2. IsFiniteSet({}) /\ Cardinality({}) = 0
    BY FS_EmptySet
  <1>3. TxtTables /\ TxtServers
    BY <1>1, <1>2 DEF TxtTables, TxtServers, OnePerLine
  <1>4. QED
    BY <1>1, <1>3 DEF TxtInv

\* The parts of the invariant in a step that does not concern them.
LEMMA TxtTablesSame ==
    ASSUME TxtTables, UNCHANGED tables, file'.creates = file.creates,
           result' \in {"running", "parsed"} => result \in {"running", "parsed"}
    PROVE  TxtTables'
  BY DEF TxtTables

LEMMA TxtServersSame ==
    ASSUME TxtServers, UNCHANGED <<write_servers, read_servers>>,
           file'.write = file.write, file'.read = file.read
    PROVE  TxtServers'
  BY DEF TxtServers

\* A line gives one more server.
LEMMA AddLine ==
    ASSUME NEW S, NEW told \in Seq(ListsOfAddresses), NEW ads \in ListsOfAddresses,
           IsFiniteSet(S), OnePerLine(S, told), TxtServerOf(ads) \notin S
    PROVE  /\ IsFiniteSet(S \cup {TxtServerOf(ads)})
           /\ OnePerLine(S \cup {TxtServerOf(ads)}, Append(told, ads))
  <1> DEFINE t == Append(told, ads)
             n == Len(told)
  <1>1. /\ Len(t) = n + 1 /\ n \in Nat /\ t[n + 1] = ads
        /\ \A k \in 1..n : t[k] = told[k]
    BY Appended
  <1>2. /\ IsFiniteSet(S \cup {TxtServerOf(ads)})
        /\ Cardinality(S \cup {TxtServerOf(ads)}) = Cardinality(S) + 1
    BY AddSize
  <1>3. Cardinality(S) = n /\ S = {TxtServerOf(told[k]) : k \in 1..n}
    BY DEF OnePerLine
  <1> HIDE DEF t, n
  <1>4. S \cup {TxtServerOf(ads)} = {TxtServerOf(t[k]) : k \in 1..(n + 1)}
    <2>1. 1..(n + 1) = 1..n \cup {n + 1}
      BY <1>1
    <2>2. S = {TxtServerOf(t[k]) : k \in 1..n}
      BY <1>1, <1>3
    <2>3. QED
      BY <1>1, <2>1, <2>2
  <1>5. QED
    BY <1>1, <1>2, <1>3, <1>4 DEF OnePerLine, t

\* parser_read_txt_server reads an address.
LEMMA ServerTxt ==
    ASSUME FileInv, TxtServers,
           NEW type \in {"write", "read"}, NEW ads \in Lines, TxtServer(type, ads)
    PROVE  TxtServers' /\ ToldNow(type, ads)
  <1>1. file \in FileType /\ ads \in ListsOfAddresses /\ Told(type, ads)
    BY LineIs DEF FileInv, FileType, TxtServer
  <1>2. ToldNow(type, ads)
    BY <1>1, ToldType
  <1>3. /\ AddServer(type, TxtServerOf(ads))
        /\ file.write \in Seq(ListsOfAddresses) /\ file.read \in Seq(ListsOfAddresses)
    BY <1>1 DEF TxtServer, FileType
  <1>4. CASE type = "write"
    BY <1>1, <1>2, <1>3, <1>4, AddLine DEF AddServer, ToldNow, TxtServers
  <1>5. CASE type # "write"
    BY <1>1, <1>2, <1>3, <1>5, AddLine DEF AddServer, ToldNow, TxtServers
  <1>6. QED
    BY <1>2, <1>4, <1>5

\* A port without a 9 is read as it is written.
LEMMA PortIs ==
    ASSUME NEW ads \in ListsOfAddresses, ~Has9(ads[1])
    PROVE  TxtServerOf(ads) = Server(ads[1])
  <1>1. PICK d : d = ads[1][2]
    OBVIOUS
  <1>2. d \in Seq(-1..9) /\ \A k \in 1..Len(d) : d[k] # 9
    <2>1. ads[1] \in Addresses
      BY FirstOf DEF ListsOfAddresses
    <2>2. d \in Seq(-1..9)
      BY <1>1, <2>1, AddressAssumption
    <2>3. 9 \notin ToSet(d)
      BY <1>1 DEF Has9
    <2>4. QED
      BY <2>2, <2>3 DEF ToSet
  <1> DEFINE cut == {k \in 1..Len(d) : d[k] \in {-1}}
             e == Before(d, {-1})
  <1>3. PortStr(d) = e
    <2>1. {k \in 1..Len(d) : d[k] \in {-1, 9}} = cut
      BY <1>2
    <2>2. QED
      BY <2>1 DEF PortStr, Before
  <1>4. Before(e, {-1}) = e
    <2>1. CASE cut = {}
      BY <2>1 DEF Before
    <2>2. CASE cut # {}
      <3>1. cut \in SUBSET Nat
        OBVIOUS
      <3>2. Min(cut) \in cut /\ \A k \in cut : Min(cut) <= k
        <4> HIDE DEF cut
        <4>1. QED
          BY <2>2, <3>1, MinIsLeast
      <3>3. PICK m : m = Min(cut)
        OBVIOUS
      <3>4. m \in 1..Len(d) /\ e = SubSeq(d, 1, m - 1)
        BY <2>2, <3>2, <3>3 DEF Before
      <3>5. Len(e) = m - 1 /\ \A k \in 1..(m - 1) : e[k] = d[k]
        BY <1>2, <3>4
      <3>6. \A k \in 1..(m - 1) : d[k] # -1
        BY <3>2, <3>3, <3>4
      <3> HIDE DEF e
      <3>7. {k \in 1..Len(e) : e[k] \in {-1}} = {}
        BY <3>5, <3>6
      <3>8. QED
        BY <3>7 DEF Before
    <2>3. QED
      BY <2>1, <2>2
  <1>5. atoi(PortStr(d)) = atoi(d)
    BY <1>3, <1>4 DEF atoi
  <1>6. QED
    BY <1>1, <1>5 DEF TxtServerOf, Server

\* table_set_add: a table goes to the table set once.
LEMMA TableTxt ==
    ASSUME FileInv, TxtTables, NEW c \in Creates, TxtTable(c)
    PROVE  TxtTables'
  <1> DEFINE From(x, q) == \E k \in 1..Len(q) : x = TextTable(q[k]) /\ ~Overruns(q[k][2])
  <1>1. file \in FileType /\ result = "running"
    BY DEF FileInv, FileType, TxtTable, At
  <1>2. PICK q : q = file.creates
    OBVIOUS
  <1>3. file'.creates = Append(q, c) /\ q \in Seq(Creates)
    BY <1>1, <1>2, NoteCreate DEF FileType
  <1>4. /\ Len(q) \in Nat /\ Len(Append(q, c)) = Len(q) + 1 /\ Append(q, c)[Len(q) + 1] = c
        /\ \A k \in 1..Len(q) : Append(q, c)[k] = q[k]
    BY <1>3, Appended
  <1>5. IsFiniteSet(tables) /\ Cardinality(tables) = Len(q) /\ \A x \in tables : From(x, q)
    BY <1>1, <1>2 DEF TxtTables
  <1>6. \A x \in tables : From(x, Append(q, c))
    <2> SUFFICES ASSUME NEW x \in tables PROVE From(x, Append(q, c))
      OBVIOUS
    <2>1. PICK k \in 1..Len(q) : x = TextTable(q[k]) /\ ~Overruns(q[k][2])
      BY <1>5
    <2>2. k \in 1..Len(Append(q, c)) /\ Append(q, c)[k] = q[k]
      BY <1>4
    <2>3. QED
      BY <2>1, <2>2
  <1>7. CASE UNCHANGED tables /\ result' \notin {"running", "parsed"}
    BY <1>3, <1>5, <1>6, <1>7 DEF TxtTables
  <1>8. CASE /\ ~Overruns(c[2]) /\ ~\E x \in tables : x.name = c[1]
             /\ tables' = tables \cup {TextTable(c)}
    <2>1. TextTable(c) \notin tables
      BY <1>8 DEF TextTable
    <2>2. IsFiniteSet(tables') /\ Cardinality(tables') = Len(q) + 1
      BY <1>5, <1>8, <2>1, AddSize
    <2>3. From(TextTable(c), Append(q, c))
      <3>1. Len(q) + 1 \in 1..Len(Append(q, c))
        BY <1>4
      <3>2. QED
        BY <1>4, <1>8, <3>1
    <2>4. \A x \in tables' : From(x, Append(q, c))
      BY <1>6, <1>8, <2>3
    <2>5. QED
      BY <1>3, <1>4, <2>2, <2>4 DEF TxtTables
  <1>9. QED
    BY <1>7, <1>8 DEF TxtTable, Ends

\* The bigint columns of a CREATE TABLE that is read without an overrun.
LEMMA ReadDataIs ==
    ASSUME NEW cs \in Seq(TypesOfColumns), NEW k \in {1, 2}, Bigints(cs, k) # {}
    PROVE  /\ ReadData(cs, k) \in Nat
           /\ k = 1 /\ cs[1] = "BIGINT" => ReadData(cs, k) = 1
  <1>1. Bigints(cs, k) \in SUBSET Nat
    BY DEF Bigints
  <1>2. ReadData(cs, k) \in Bigints(cs, k) /\ \A j \in Bigints(cs, k) : ReadData(cs, k) <= j
    BY <1>1, MinIsLeast DEF ReadData
  <1>3. \A j \in Bigints(cs, 1) : j \in 1..Len(cs)
    BY DEF Bigints
  <1>4. k = 1 /\ cs[1] = "BIGINT" => 1 \in Bigints(cs, 1)
    <2>1. Len(cs) \in Nat
      OBVIOUS
    <2>2. k = 1 => Len(cs) # 0
      BY <2>1 DEF Bigints
    <2>3. QED
      BY <2>1, <2>2 DEF Bigints
  <1> HIDE DEF Bigints
  <1>5. QED
    BY <1>1, <1>2, <1>3, <1>4

LEMMA RoomIs ==
    ASSUME NEW s \in Seq(Nat)
    PROVE  /\ Room(s) \in Seq(Nat) /\ Len(Room(s)) <= Capacity
           /\ Len(Room(s)) = Len(s) \/ Len(Room(s)) = Capacity
           /\ Len(Room(s)) <= Len(s)
           /\ \A j \in 1..Len(Room(s)) : Room(s)[j] = s[j]
  BY CapacityAssumption DEF Room

\* What parser_read_txt_table_schema makes of it.
LEMMA ValuesAre ==
    ASSUME NEW cs \in Seq(TypesOfColumns) \ {<<>>}, ~Overruns(cs)
    PROVE  /\ Bigints(cs, 1) # {}
           /\ Values(cs) \in Seq(Nat)
           /\ Len(cs) > 1 => Len(Values(cs)) >= Len(cs)
           /\ \A j \in 2..Len(Values(cs)) : Values(cs)[j] = ReadData(cs, 1)
  <1>1. Len(cs) \in Nat /\ Len(cs) # 0
    BY EmptySeq
  <1>2. Bigints(cs, 1) # {} /\ (Len(cs) > 1 => Bigints(cs, 2) # {})
    BY <1>1 DEF Overruns
  <1>3. ReadData(cs, 1) \in Nat /\ (Len(cs) > 1 => ReadData(cs, 2) \in Nat)
    BY <1>2, ReadDataIs
  <1>4. PICK n, a, b : n = Len(cs) /\ a = ReadData(cs, 1) /\ b = ReadData(cs, 2)
    OBVIOUS
  <1>5. CASE cs[1] = "VARCHAR"
    <2>1. Values(cs) = [j \in 1..(n + 1) |-> a]
      BY <1>4, <1>5 DEF Values
    <2>2. QED
      BY <1>1, <1>2, <1>3, <1>4, <2>1
  <1>6. CASE cs[1] # "VARCHAR" /\ n = 1
    <2>1. Values(cs) = <<>>
      BY <1>4, <1>6 DEF Values
    <2>2. QED
      BY <1>1, <1>2, <1>3, <1>4, <1>6, <2>1
  <1>7. CASE cs[1] # "VARCHAR" /\ n # 1
    <2>1. Values(cs) = [j \in 1..n |-> IF j = 1 THEN b ELSE a]
      BY <1>4, <1>7 DEF Values
    <2>2. b \in Nat /\ n \in Nat /\ a \in Nat
      BY <1>1, <1>3, <1>4, <1>7
    <2>3. QED
      BY <1>2, <1>4, <2>1, <2>2
  <1>8. QED
    BY <1>5, <1>6, <1>7

LEMMA TablesAre ==
    ASSUME NEW c \in Creates, ~Overruns(c[2])
    PROVE  LET x == TextTable(c)
           IN /\ x.key \in Seq(Nat) /\ Len(x.key) = 1
              /\ x.val \in Seq(Nat) /\ Len(x.val) <= Capacity
              /\ Misread(x, c)
  <1>1. PICK cs : cs = c[2]
    OBVIOUS
  <1>2. cs \in Seq(TypesOfColumns) \ {<<>>} /\ ~Overruns(cs)
    BY <1>1, CreateAssumption
  <1>3. PICK v, a : v = Values(cs) /\ a = ReadData(cs, 1)
    OBVIOUS
  <1>4. /\ Bigints(cs, 1) # {} /\ v \in Seq(Nat)
        /\ Len(cs) > 1 => Len(v) >= Len(cs)
        /\ \A j \in 2..Len(v) : v[j] = a
    BY <1>2, <1>3, ValuesAre
  <1>5. a \in Nat /\ (cs[1] = "BIGINT" => a = 1)
    BY <1>2, <1>3, <1>4, ReadDataIs
  <1>6. PICK r : r = Room(v)
    OBVIOUS
  <1>7. /\ r \in Seq(Nat) /\ Len(r) <= Capacity
        /\ Len(r) = Len(v) \/ Len(r) = Capacity
        /\ Len(r) <= Len(v) /\ \A j \in 1..Len(r) : r[j] = v[j]
    BY <1>4, <1>6, RoomIs
  <1>8. TextTable(c) = [name |-> c[1], key |-> <<a>>, val |-> r]
    BY <1>1, <1>3, <1>6 DEF TextTable
  <1>9. \A j \in 2..Len(r) : r[j] = a
    BY <1>4, <1>7
  <1>10. Misread([name |-> c[1], key |-> <<a>>, val |-> r], c)
    BY <1>1, <1>2, <1>4, <1>5, <1>7, <1>9, CapacityAssumption DEF Misread
  <1>11. QED
    BY <1>5, <1>7, <1>8, <1>10

LEMMA StepTxt ==
    ASSUME PlaceInv, FileInv, TxtInv, [Next]_vars
    PROVE  TxtInv'
  <1> DEFINE Parts == /\ UNCHANGED <<schemas, config_type>>
                      /\ result' = "parsed" => pc' = "fill"
                      /\ TxtTables => TxtTables'
                      /\ TxtServers => TxtServers'
  <1> USE DEF At, Goto, Ends, xml, sets, txt
  <1>p. Parts => TxtInv'
    BY DEF TxtInv
  <1>1. CASE Stops
    <2>1. /\ UNCHANGED <<write_servers, read_servers, schemas, tables, line, nitem, file, pc,
                         config_type>>
          /\ result' \notin {"running", "parsed"}
      BY <1>1 DEF Stops
    <2>2. Parts
      BY <2>1, TxtTablesSame, TxtServersSame
    <2>3. QED
      BY <1>p, <2>2
  <1>2. CASE UNCHANGED vars
    BY <1>2 DEF vars, TxtInv, TxtTables, TxtServers
  <1>3. ASSUME NEW t \in {"XML", "TXT", "ERROR"}, CheckType(t) PROVE TxtInv'
    <2>1. /\ UNCHANGED <<write_servers, read_servers, schemas, tables, line, nitem, file>>
          /\ pc' # "server" /\ result' # "parsed" /\ result = "running" /\ config_type # "XML"
      BY <1>3 DEF CheckType, PlaceInv
    <2>2. TxtTables' /\ TxtServers' /\ schemas' = <<>>
      BY <2>1, TxtTablesSame, TxtServersSame DEF TxtInv
    <2>3. QED
      BY <2>1, <2>2 DEF TxtInv
  <1>4. CASE XmlWorks
    BY <1>4, XmlIsXml DEF TxtInv
  <1>5. ASSUME NEW s \in {"server", "txt_table", "rate", "window"}, TxtSection(s) PROVE TxtInv'
    <2>1. /\ UNCHANGED <<write_servers, read_servers, schemas, tables, file, config_type>>
          /\ result = "running" /\ result' = "running"
      BY <1>5 DEF TxtSection
    <2>2. Parts
      BY <2>1, TxtServersSame, TxtTablesSame
    <2>3. QED
      BY <1>p, <2>2
  <1>6. ASSUME NEW type \in {"write", "read"}, NEW ads \in Lines, TxtServer(type, ads)
        PROVE  TxtInv'
    <2>1. /\ UNCHANGED <<schemas, tables, config_type>>
          /\ result = "running" /\ result' # "parsed"
      BY <1>6 DEF TxtServer, AddServer, NextLine
    <2>2. config_type = "TXT"
      BY <1>6, TxtIsTxt DEF TxtWorks
    <2>3. TxtServers' /\ ToldNow(type, ads)
      BY <1>6, <2>2, ServerTxt DEF TxtInv
    <2>4. file'.creates = file.creates
      BY <2>3 DEF ToldNow
    <2>5. Parts
      BY <2>1, <2>3, <2>4, TxtTablesSame
    <2>6. QED
      BY <1>p, <2>5
  <1>7. CASE TxtServerSkipped \/ TxtNoTable \/ TxtEnd
    <2>1. /\ UNCHANGED <<write_servers, read_servers, schemas, tables, nitem, file, config_type>>
          /\ result = "running" /\ result' = "running"
      BY <1>7 DEF TxtServerSkipped, NextLine, TxtNoTable, TxtEnd
    <2>2. Parts
      BY <2>1, TxtTablesSame, TxtServersSame
    <2>3. QED
      BY <1>p, <2>2
  <1>8. ASSUME NEW c \in Creates, TxtTable(c) PROVE TxtInv'
    <2>1. /\ UNCHANGED <<write_servers, read_servers, schemas, nitem, line, config_type>>
          /\ result = "running" /\ result' # "parsed" /\ pc' # "server"
      BY <1>8 DEF TxtTable
    <2>2. file'.write = file.write /\ file'.read = file.read
      BY <1>8, NoteCreate DEF FileInv, FileType
    <2>3. Parts
      BY <1>8, <2>1, <2>2, TableTxt, TxtServersSame
    <2>4. QED
      BY <1>p, <2>3
  <1>9. ASSUME NEW r, NEW given, TxtRate(r, given) PROVE TxtInv'
    <2>1. /\ UNCHANGED <<write_servers, read_servers, schemas, tables, line, nitem, file,
                         config_type>>
          /\ result = "running" /\ result' # "parsed" /\ pc' # "server"
      BY <1>9 DEF TxtRate
    <2>2. Parts
      BY <2>1, TxtTablesSame, TxtServersSame
    <2>3. QED
      BY <1>p, <2>2
  <1>10. ASSUME NEW w, NEW given, TxtWindow(w, given) PROVE TxtInv'
    <2>1. /\ UNCHANGED <<write_servers, read_servers, schemas, tables, line, nitem, file,
                         config_type>>
          /\ result = "running" /\ result' # "parsed" /\ pc' # "server"
      BY <1>10 DEF TxtWindow
    <2>2. Parts
      BY <2>1, TxtTablesSame, TxtServersSame
    <2>3. QED
      BY <1>p, <2>2
  <1>11. CASE GenCmdBucket
    <2>1. /\ UNCHANGED <<write_servers, read_servers, schemas, tables, line, nitem, file,
                         config_type>>
          /\ result = "running" /\ pc' # "server" /\ (result' = "parsed" => pc' = "fill")
      BY <1>11 DEF GenCmdBucket, GenNext, StartGen, Fill, Swap, GenRow, GenEnd
    <2>2. Parts
      BY <2>1, TxtTablesSame, TxtServersSame
    <2>3. QED
      BY <1>p, <2>2
  <1>12. QED
    BY <1>1, <1>2, <1>3, <1>4, <1>5, <1>6, <1>7, <1>8, <1>9, <1>10, <1>11, StepCases
       DEF Works, XmlWorks

-----------------------------------------------------------------------------
(* The theorems *)

IInv ==
    /\ PlaceInv /\ FileInv /\ SchemaInv
    /\ LocalsInv /\ CountInv /\ ArrayInv /\ RowsInv
    /\ XmlInv /\ TxtInv

\* The inductive invariant: every step of the two readers and of
\* parser_gen_cmd_bucket keeps each of its parts.
THEOREM Inductive == Spec => []IInv
  <1>1. Init => IInv
    BY InitPlace, InitFile, InitSchema, InitLocals, InitCount, InitArray, InitRows, InitXml,
       InitTxt DEF IInv
  <1>2. IInv /\ [Next]_vars => IInv'
    BY StepPlace, StepFile, StepSchema, StepLocals, StepCount, StepArray, StepRows, StepXml,
       StepTxt DEF IInv
  <1>3. QED
    BY <1>1, <1>2, PTL DEF Spec

\* Every variable of the parser keeps its type; no schema outgrows its array
\* and the array of commands has as many places as were allocated.
THEOREM TypeCorrect == Spec => []TypeOK
  <1>1. IInv => TypeOK
    <2> SUFFICES ASSUME IInv PROVE TypeOK
      OBVIOUS
    <2>1. /\ pc \in Places /\ result \in Results /\ config_type \in {"XML", "TXT", "ERROR"}
          /\ ip \in {"null", "freed"} /\ line \in {0, 1} /\ nitem \in Nat
      BY DEF IInv, PlaceInv, XmlPlaces, TxtPlaces, Places, FileInv
    <2>t. ASSUME NEW x \in tables
          PROVE  /\ x.key \in Seq(Nat) /\ Len(x.key) = 1
                 /\ x.val \in Seq(Nat) /\ Len(x.val) <= Capacity
      <3>1. PICK c \in Creates : ~Overruns(c[2]) /\ x = TextTable(c)
        BY DEF IInv, FileInv, TextTables
      <3>2. QED
        BY <3>1, TablesAre
    <2>2. ASSUME NEW s \in {my_schema} \cup ToSet(schemas), NEW part \in {"key", "val"}
          PROVE  s[part] \in Seq(TypesOfColumns) /\ Len(s[part]) <= Capacity
      <3>1. s \in Schemas
        BY DEF IInv, SchemaInv, ToSet
      <3>2. QED
        BY <3>1 DEF Schemas, Columns
    <2>3. rate \in [1..4 -> Maybe(Int)] /\ rows \in Maybe(Int) /\ cols \in Maybe(Int)
      BY DEF IInv, LocalsInv
    <2>4. /\ cmd_array \in Seq(Stored) /\ row \in Nat /\ nswap \in 0..shuffle_time
          /\ pc = "fill" => Len(cmd_array) = cols
      BY ShuffleAssumption DEF IInv, ArrayInv
    <2>5. cur_cmd_num \in Nat /\ cur_rate \in Nat /\ ntype \in 1..5 /\ roundedUp \in BOOLEAN
      BY DEF IInv, CountInv
    <2>6. QED
      BY <2>1, <2>t, <2>2, <2>3, <2>4, <2>5 DEF TypeOK
  <1>2. QED
    BY <1>1, Inductive, PTL

\* For any rates and any number of columns, the commands that the turns of
\* parser_gen_cmd_bucket wrote are as many as their share, rounded up, or one
\* more.
THEOREM SharesAreProportional == Spec => []Proportional
  <1>1. IInv => Proportional
    BY DEF IInv, CountInv
  <1>2. QED
    BY <1>1, Inductive, PTL

\* parser_gen_cmd_bucket writes behind its array only for rates that add up
\* to more than 1, or if a sum of doubles comes out too large.
THEOREM OverrunsNeedExcess == Spec => []OverrunNeedsExcess
  <1>1. IInv => OverrunNeedsExcess
    <2> SUFFICES ASSUME IInv, pc = "fill", cur_cmd_num > cols, ~(cur_rate > Unit), ~roundedUp
                 PROVE  FALSE
      BY DEF OverrunNeedsExcess
    <2>1. PICK c, n, s : c = cols /\ n = cur_cmd_num /\ s = cur_rate
      OBVIOUS
    <2>2. c \in Nat /\ n \in Nat /\ s \in Nat /\ n > c /\ s <= Unit /\ Unit \in Nat \ {0}
      BY <2>1, UnitAssumption DEF IInv, LocalsInv, CountInv
    <2>3. n * Unit < s * c + Unit
      BY <2>1 DEF IInv, CountInv
    <2>4. s * c <= Unit * c
      BY <2>2, ProductMonotone
    <2>5. (c + 1) * Unit <= n * Unit
      BY <2>2, ProductMonotone
    <2>6. (c + 1) * Unit = Unit * c + Unit
      BY <2>2
    <2>7. s * c \in Nat /\ Unit * c \in Nat /\ n * Unit \in Nat
      BY <2>2, ProductOfNats
    <2>8. QED
      BY <2>2, <2>3, <2>4, <2>5, <2>6, <2>7
  <1>2. QED
    BY <1>1, Inductive, PTL

\* For any rates, any number of rows and of swaps and whatever rand() draws,
\* every list that parser_gen_cmd_bucket makes can be travelled from both
\* ends, has the commands that the rates gave as often as they gave them, and
\* the last of them at its end: swapping with "^=" loses none, because a
\* place is never swapped with itself.
THEOREM RowsAreTheArray == Spec => []RowsHoldTheArray
  <1>1. IInv => RowsHoldTheArray
    <2> SUFFICES ASSUME IInv, pc = "fill", NEW k \in 1..Len(bucket)
                 PROVE  /\ Holds(bucket[k], bucket[k].type)
                        /\ ToBag(bucket[k].type) = ToBag(filled)
                        /\ filled # <<>> => Last(bucket[k].type) = Last(filled)
      BY DEF RowsHoldTheArray
    <2>1. PICK a \in Seq(Stored) : bucket[k] = Linked(a) /\ Reorders(a, filled)
      BY DEF IInv, RowsInv
    <2>2. bucket[k].type = a
      BY <2>1 DEF Linked
    <2>3. Holds(Linked(a), a)
      BY LinkedHolds
    <2>4. QED
      BY <2>1, <2>2, <2>3 DEF Reorders
  <1>2. QED
    BY <1>1, Inductive, PTL

\* When the XML reader has returned, the program has a server for each node,
\* with the port that atoi makes of its text, no two nodes naming the same
\* one, the command lists of the file, whole, and a schema for each table,
\* however many there are.
THEOREM XmlIsAsWritten == Spec => []XmlAsWritten
  <1>1. IInv => XmlAsWritten
    <2> SUFFICES ASSUME IInv, result = "parsed", config_type = "XML"
                 PROVE  /\ OnePerNode(write_servers, file.write)
                        /\ OnePerNode(read_servers, file.read)
                        /\ Len(bucket) = Len(file.lists)
                        /\ \A k \in 1..Len(bucket) : Holds(bucket[k], file.lists[k])
                        /\ schemas = file.tables
      BY DEF XmlAsWritten
    <2>1. XmlServers /\ XmlLists /\ XmlTables /\ pc = "tables"
      BY DEF IInv, XmlInv
    <2>2. schemas = file.tables
      BY <2>1 DEF XmlTables
    <2>3. Len(bucket) = Len(file.lists) /\ file.lists \in Seq(Seq(Cmds))
      BY <2>1 DEF XmlLists, IInv, FileInv
    <2>4. ASSUME NEW k \in 1..Len(bucket) PROVE Holds(bucket[k], file.lists[k])
      <3>1. bucket[k] = Linked(file.lists[k]) /\ file.lists[k] \in Seq(Cmds)
        BY <2>1, <2>3 DEF XmlLists
      <3>2. QED
        BY <3>1, LinkedHolds
    <2>5. QED
      BY <2>1, <2>2, <2>3, <2>4 DEF XmlServers
  <1>2. QED
    BY <1>1, Inductive, PTL

LEMMA FirstsOfLines ==
    ASSUME NEW S, NEW told \in Seq(ListsOfAddresses), OnePerLine(S, told)
    PROVE  FirstOfLine(S, told)
  <1>1. S = {TxtServerOf(told[k]) : k \in 1..Len(told)} /\ Cardinality(S) = Len(told)
    BY DEF OnePerLine
  <1>2. ASSUME NEW k \in 1..Len(told), ~Has9(told[k][1])
        PROVE  Server(told[k][1]) \in S
    <2>1. told[k] \in ListsOfAddresses
      OBVIOUS
    <2>2. Server(told[k][1]) = TxtServerOf(told[k])
      BY <1>2, <2>1, PortIs
    <2>3. QED
      BY <1>1, <2>2
  <1>3. ASSUME NEW s \in S PROVE \E k \in 1..Len(told) : s[1] = told[k][1][1]
    <2>1. PICK k \in 1..Len(told) : s = TxtServerOf(told[k])
      BY <1>1
    <2>2. s[1] = told[k][1][1]
      BY <2>1 DEF TxtServerOf
    <2>3. QED
      BY <2>2
  <1>4. QED
    BY <1>1, <1>2, <1>3 DEF FirstOfLine

\* When the text reader has returned, there is a list for each row, each
\* CREATE TABLE has left a table in the table set, whose values from the
\* second on are the key once more, and none in the schema set, and each line
\* of servers has left one server: the first address of the line (any others
\* that it lists are not there), with its own port if that has no 9.
THEOREM TxtIsAsRead == Spec => []TxtAsRead
  <1>1. IInv => TxtAsRead
    <2> SUFFICES ASSUME IInv, result = "parsed", config_type = "TXT"
                 PROVE  /\ Len(bucket) = rows /\ schemas = <<>>
                        /\ Cardinality(tables) = Len(file.creates)
                        /\ \A x \in tables : \E k \in 1..Len(file.creates) :
                              Misread(x, file.creates[k])
                        /\ FirstOfLine(write_servers, file.write)
                        /\ FirstOfLine(read_servers, file.read)
      BY DEF TxtAsRead
    <2>1. schemas = <<>> /\ TxtTables /\ TxtServers /\ pc = "fill"
      BY DEF IInv, TxtInv
    <2>2. Len(bucket) = rows
      BY <2>1 DEF IInv, ArrayInv
    <2>3. Cardinality(tables) = Len(file.creates)
      BY <2>1 DEF TxtTables
    <2>t. ASSUME NEW x \in tables
          PROVE  \E k \in 1..Len(file.creates) : Misread(x, file.creates[k])
      <3>1. PICK k \in 1..Len(file.creates) : x = TextTable(file.creates[k])
                                              /\ ~Overruns(file.creates[k][2])
        BY <2>1 DEF TxtTables
      <3>2. file.creates[k] \in Creates
        BY DEF IInv, FileInv
      <3>3. Misread(x, file.creates[k])
        BY <3>1, <3>2, TablesAre
      <3>4. QED
        BY <3>3
    <2>4. file.write \in Seq(ListsOfAddresses) /\ file.read \in Seq(ListsOfAddresses)
      BY DEF IInv, FileInv
    <2>5. FirstOfLine(write_servers, file.write) /\ FirstOfLine(read_servers, file.read)
      BY <2>1, <2>4, FirstsOfLines DEF TxtServers
    <2>6. QED
      BY <2>1, <2>2, <2>3, <2>t, <2>5
  <1>2. QED
    BY <1>1, Inductive, PTL
=============================================================================
