------------------------------- MODULE Parser -------------------------------
(***************************************************************************)
(* Reading the configuration: parser_read_file, the XML reader and the     *)
(* text reader of parser/parser.c with what they call in cq_server.c,      *)
(* cq_table.c and cq_command.c.                                            *)
(*                                                                         *)
(* The file is external: what comes next in it is chosen when it is read.  *)
(* The text of a node or of a line is abstracted to how the code takes it. *)
(* result "undefined" stands for undefined behaviour: anything may follow, *)
(* and nothing is modelled after it.                                       *)
(***************************************************************************)
EXTENDS CmdGen

CONSTANTS
    Addresses,          \* of servers, <<ip, port>>: see below
    Lines,              \* what a line of a text file lists: one or more addresses
    Creates,            \* CREATE TABLEs of a text file, <<name, types of the columns>>
    Rates, Windows,     \* what the sections of a text file may say
    Capacity,           \* columns a schema has room for
    MaxNodes, MaxSections   \* bounds: nodes of an XML file, sections of a text file

\* The port is the text, digit by digit; -1 is a character that is no digit
\* (and no blank or sign at the beginning).  atoi of more than nine digits
\* may overflow.
ASSUME AddressAssumption ==
    \A a \in Addresses : a[2] \in Seq(-1..9) /\ Len(a[2]) <= 9
ASSUME LineAssumption == Lines \subseteq Seq(Addresses) \ {<<>>}
ASSUME SectionAssumption == Rates \subseteq [1..4 -> Int] /\ Windows \subseteq Int \X Int
ASSUME CapacityAssumption == Capacity \in Nat \ {0}

TypesOfColumns == {"BIGINT", "VARCHAR"}

\* The first column is the primary key.
ASSUME CreateAssumption == \A c \in Creates : c[2] \in Seq(TypesOfColumns) \ {<<>>}

VARIABLES
    config_type,
    ip,                 \* the pointers ip and port_str: "null" or "freed"
    write_servers, read_servers,    \* cluster_base
    cmd_list, my_schema,    \* the list and the schema being read
    schemas, tables,    \* the schema set and the table set
    line,               \* parser_read_txt_server: i of its loop
    nitem,              \* nodes or sections so far
    file                \* history: what was read of the file

xml == <<ip, cmd_list, my_schema>>
sets == <<write_servers, read_servers, schemas, tables>>
txt == <<line, nitem>>
vars == <<pc, result, config_type, xml, sets, txt, file, gen>>

EmptySchema == [key |-> <<>>, val |-> <<>>]

Init ==
    /\ pc = "type" /\ result = "running" /\ config_type = "ERROR"
    /\ ip = "null" /\ cmd_list = cmd_list_init /\ my_schema = EmptySchema
    /\ write_servers = {} /\ read_servers = {} /\ schemas = <<>> /\ tables = {}
    /\ line = 0 /\ nitem = 0
    /\ file = [write |-> <<>>, read |-> <<>>, lists |-> <<>>, tables |-> <<>>,
               creates |-> <<>>]
    /\ GenInit

At(place) == result = "running" /\ pc = place
Goto(to) == pc' = to /\ UNCHANGED result

\* The parser is done: RET_FAILED, on which parser_read_file exits, abort(),
\* a fatal signal, or undefined behaviour.
Ends(how) == result' = how /\ UNCHANGED pc

-----------------------------------------------------------------------------
(* parser_read_file and parser_check_type *)

\* The last line with one of the patterns decides; with none, or when the
\* file is not there, the program exits.
CheckType(t) ==
    /\ At("type")
    /\ config_type' = t
    /\ IF t = "ERROR" THEN Ends("exit") ELSE Goto(IF t = "XML" THEN "xml" ELSE "txt")
    /\ UNCHANGED <<xml, sets, txt, file, gen>>

\* The file is empty, too long or cannot be opened: fclose is called with a
\* pointer that was never set, or with NULL.
BadFile ==
    /\ At("type")
    /\ Ends("undefined")
    /\ UNCHANGED <<config_type, xml, sets, txt, file, gen>>

-----------------------------------------------------------------------------
(* parser_read_xml *)

\* The document does not parse, or has no root.
XmlUnreadable ==
    /\ At("xml")
    /\ Ends("exit")
    /\ UNCHANGED <<config_type, xml, sets, txt, file, gen>>

\* The root has no child: cur_node->name of a null pointer.
XmlEmpty ==
    /\ At("xml")
    /\ Ends("faulted")
    /\ UNCHANGED <<config_type, xml, sets, txt, file, gen>>

\* The three sections are read in this order, wherever they are in the file.
Section == [xml |-> "servers", servers |-> "cmds", cmds |-> "tables"]

\* The next section is found ...
XmlSection ==
    /\ pc \in DOMAIN Section /\ At(pc)
    /\ Goto(Section[pc])
    /\ UNCHANGED <<config_type, xml, sets, txt, file, gen>>

\* ... or the file has none.
XmlNoSection ==
    /\ pc \in DOMAIN Section /\ At(pc)
    /\ Ends("exit")
    /\ UNCHANGED <<config_type, xml, sets, txt, file, gen>>

\* The bound on the nodes of a file.
CountNode == nitem < MaxNodes /\ nitem' = nitem + 1

\* The text up to the first character in stop.
Before(text, stop) ==
    LET cut == {k \in 1..Len(text) : text[k] \in stop}
    IN IF cut = {} THEN text ELSE SubSeq(text, 1, Min(cut) - 1)

Decimal(digits) == FoldLeft(LAMBDA n, digit : 10 * n + digit, 0, digits)

\* The number at the beginning of the text, 0 if there is none.
atoi(text) == Decimal(Before(text, {-1}))

verify_port(port) == port >= 0 /\ port < 65536

\* server_init and cq_cluster_add: the name of a server, ip and port, is its
\* key.
AddServer(type, s) ==
    IF type = "write"
    THEN s \notin write_servers /\ write_servers' = write_servers \cup {s}
         /\ UNCHANGED <<read_servers, schemas, tables>>
    ELSE s \notin read_servers /\ read_servers' = read_servers \cup {s}
         /\ UNCHANGED <<write_servers, schemas, tables>>

KnownServer(type, s) == s \in (IF type = "write" THEN write_servers ELSE read_servers)

\* Note the addresses of a node or of a line.
Told(type, as) ==
    file' = IF type = "write" THEN [file EXCEPT !.write = Append(@, as)]
            ELSE [file EXCEPT !.read = Append(@, as)]

\* The server that an XML file names.
Server(a) == <<a[1], atoi(a[2])>>

\* parser_read_xml_server, one node: <write/> or <read/> with an address.
XmlServer(type, a) ==
    /\ At("servers")
    /\ CountNode
    /\ verify_port(Server(a)[2])
    /\ AddServer(type, Server(a))
    /\ Told(type, <<a>>)
    /\ ip' = "freed"
    /\ Goto("servers")
    /\ UNCHANGED <<config_type, cmd_list, my_schema, line, gen>>

\* The server is there already ...
XmlServerTwice(type, a) ==
    /\ At("servers")
    /\ KnownServer(type, Server(a))
    /\ Ends("exit")
    /\ UNCHANGED <<config_type, xml, sets, txt, file, gen>>

\* ... or is missing or not valid.
XmlServerRefused ==
    /\ At("servers")
    /\ Ends("exit")
    /\ UNCHANGED <<config_type, xml, sets, txt, file, gen>>

\* A node that is neither, a comment for instance.  The error exit frees ip
\* and port_str, which after the first server are freed already.
XmlServerStray ==
    /\ At("servers")
    /\ Ends(IF ip = "freed" THEN "undefined" ELSE "exit")
    /\ UNCHANGED <<config_type, xml, sets, txt, file, gen>>

\* server_init cannot connect.
ConnectFails ==
    /\ At("servers") \/ At("server")
    /\ Ends("aborted")
    /\ UNCHANGED <<config_type, xml, sets, txt, file, gen>>

\* server_init refuses a name of more than 21 characters: server_destroy
\* closes a connection that was never opened.
ServerNameTooLong ==
    /\ At("servers") \/ At("server")
    /\ Ends("undefined")
    /\ UNCHANGED <<config_type, xml, sets, txt, file, gen>>

\* parser_read_xml_cmd: a <cmd> node; others are skipped.
XmlCmd ==
    /\ At("cmds")
    /\ CountNode
    /\ cmd_list' = cmd_list_init
    /\ file' = [file EXCEPT !.lists = Append(@, <<>>)]
    /\ Goto("list")
    /\ UNCHANGED <<config_type, ip, my_schema, sets, line, gen>>

\* parser_read_cmd_list: one command ...
XmlCommand(c) ==
    /\ At("list")
    /\ CountNode
    /\ cmd_list' = cmd_list_add(cmd_list, c)
    /\ file' = [file EXCEPT !.lists[Len(file.lists)] = Append(@, c)]
    /\ Goto("list")
    /\ UNCHANGED <<config_type, ip, my_schema, sets, line, gen>>

\* ... or a node that is none.
XmlCommandStray ==
    /\ At("list")
    /\ Ends("exit")
    /\ UNCHANGED <<config_type, xml, sets, txt, file, gen>>

\* cmd_bucket_add
XmlListEnd ==
    /\ At("list")
    /\ bucket' = Append(bucket, cmd_list)
    /\ Goto("cmds")
    /\ UNCHANGED <<config_type, xml, sets, txt, file, rate, rows, cols, cmd_array,
                   cur_cmd_num, cur_rate, ntype, row, nswap, roundedUp, filled>>

\* parser_read_xml_table: a <table> node; others are skipped.
XmlTable ==
    /\ At("tables")
    /\ CountNode
    /\ my_schema' = EmptySchema
    /\ file' = [file EXCEPT !.tables = Append(@, EmptySchema)]
    /\ Goto("table")
    /\ UNCHANGED <<config_type, ip, cmd_list, sets, line, gen>>

\* Mutant: one column too many.
SchemaFullLate(part) == Len(my_schema[part]) > Capacity

\* schema_add
SchemaFull(part) == Len(my_schema[part]) = Capacity

\* parser_read_table_data: <key> goes to the key schema, every other node to
\* the value schema.
XmlColumn(part, type) ==
    /\ At("table")
    /\ CountNode
    /\ file' = [file EXCEPT !.tables[Len(file.tables)][part] = Append(@, type)]
    /\ IF SchemaFull(part)
       THEN Ends("exit") /\ UNCHANGED my_schema
       ELSE /\ my_schema' = [my_schema EXCEPT ![part] = Append(@, type)]
            /\ Goto("table")
    /\ UNCHANGED <<config_type, ip, cmd_list, sets, line, gen>>

\* A type that is neither bigint nor varchar ...
XmlColumnBadType ==
    /\ At("table")
    /\ Ends("exit")
    /\ UNCHANGED <<config_type, xml, sets, txt, file, gen>>

\* ... or no name, no type (a comment again) or a varchar without length:
\* a null pointer is read.
XmlColumnNoAttribute ==
    /\ At("table")
    /\ Ends("faulted")
    /\ UNCHANGED <<config_type, xml, sets, txt, file, gen>>

\* schema_set_add
XmlTableEnd ==
    /\ At("table")
    /\ schemas' = Append(schemas, my_schema)
    /\ Goto("tables")
    /\ UNCHANGED <<config_type, xml, write_servers, read_servers, tables, txt, file, gen>>

XmlEnd ==
    /\ At("tables")
    /\ Ends("parsed")
    /\ UNCHANGED <<config_type, xml, sets, txt, file, gen>>

Xml ==
    \/ XmlUnreadable \/ XmlEmpty \/ XmlSection \/ XmlNoSection
    \/ (\E type \in {"write", "read"}, a \in Addresses :
            XmlServer(type, a) \/ XmlServerTwice(type, a))
    \/ XmlServerRefused \/ XmlServerStray
    \/ XmlCmd \/ (\E c \in Cmds : XmlCommand(c)) \/ XmlCommandStray \/ XmlListEnd
    \/ XmlTable
    \/ (\E part \in {"key", "val"}, type \in TypesOfColumns : XmlColumn(part, type))
    \/ XmlColumnBadType \/ XmlColumnNoAttribute \/ XmlTableEnd
    \/ XmlEnd

-----------------------------------------------------------------------------
(* parser_read_txt *)

\* The file is gone since its type was read: fclose(NULL).
TxtUnopened ==
    /\ At("txt") /\ nitem = 0
    /\ Ends("faulted")
    /\ UNCHANGED <<config_type, xml, sets, txt, file, gen>>

\* A line with the name of a section; other lines are skipped.
TxtSection(s) ==
    /\ At("txt")
    /\ nitem < MaxSections
    /\ nitem' = nitem + 1
    /\ line' = 0
    /\ Goto(s)
    /\ UNCHANGED <<config_type, xml, sets, file, gen>>

\* The file ends within a section.
TxtCutOff ==
    /\ pc \in {"server", "rate", "window"} /\ At(pc)
    /\ Ends("exit")
    /\ UNCHANGED <<config_type, xml, sets, txt, file, gen>>

\* Mutant: "< '8'".
PortStrEight(text) == Before(text, {-1, 8, 9})

\* while (*cur >= '0' && *cur < '9'): the digits up to the first 9.
PortStr(text) == Before(text, {-1, 9})

\* The server of a line: its first address.
TxtServerOf(as) == <<as[1][1], atoi(PortStr(as[1][2]))>>

\* After two lines parser_read_txt_server returns.
NextLine == IF line = 0 THEN line' = 1 /\ Goto("server") ELSE line' = 0 /\ Goto("txt")

\* parser_read_txt_server, one of its two lines, whose port fits port_str[7].
TxtServer(type, as) ==
    /\ At("server")
    /\ Len(PortStr(as[1][2])) < 7
    /\ verify_port(TxtServerOf(as)[2])
    /\ AddServer(type, TxtServerOf(as))
    /\ Told(type, as)
    /\ NextLine
    /\ UNCHANGED <<config_type, xml, nitem, gen>>

\* The server is there already.
TxtServerTwice(type, as) ==
    /\ At("server")
    /\ KnownServer(type, TxtServerOf(as))
    /\ Ends("exit")
    /\ UNCHANGED <<config_type, xml, sets, txt, file, gen>>

\* An address whose ip has 20 characters or whose port has 7: it is copied
\* behind the end of ip[20] or of port_str[7].
TxtServerOverrun ==
    /\ At("server")
    /\ Ends("undefined")
    /\ UNCHANGED <<config_type, xml, sets, txt, file, gen>>

\* The line has a keyword and no "=": it is skipped.
TxtServerSkipped ==
    /\ At("server")
    /\ NextLine
    /\ UNCHANGED <<config_type, xml, sets, nitem, file, gen>>

\* The address is not valid.
TxtServerRefused ==
    /\ At("server")
    /\ Ends("exit")
    /\ UNCHANGED <<config_type, xml, sets, txt, file, gen>>

\* The line has no keyword: *cur of a null pointer.
TxtServerNoKeyword ==
    /\ At("server")
    /\ Ends("faulted")
    /\ UNCHANGED <<config_type, xml, sets, txt, file, gen>>

\* The bigint columns among cs from the k-th on.
Bigints(cs, k) == {j \in k..Len(cs) : cs[j] = "BIGINT"}

\* parser_read_txt_table_data, called for the k-th column: it takes the first
\* bigint that it finds in the rest of the text.
ReadData(cs, k) == Min(Bigints(cs, k))

\* Without a bigint there it takes a varchar and the length from match[2],
\* of an array of two.
Overruns(cs) == \E k \in {1, 2} : k <= Len(cs) /\ Bigints(cs, k) = {}

\* parser_read_txt_table_schema: what the pattern of a value matches.  It is
\* "primary key" first, from where the second column is next (behind it the
\* text ends if there is none), or a varchar key; then every other column,
\* at an offset that counts from the match before and is taken from the
\* name of the table: the first column is read.
Values(cs) ==
    IF cs[1] = "VARCHAR" THEN [j \in 1..(Len(cs) + 1) |-> ReadData(cs, 1)]
    ELSE IF Len(cs) = 1 THEN <<>>
    ELSE [j \in 1..Len(cs) |-> ReadData(cs, IF j = 1 THEN 2 ELSE 1)]

\* What schema_add has no room for is left out: nobody looks at its result.
Room(s) == SubSeq(s, 1, IF Len(s) < Capacity THEN Len(s) ELSE Capacity)

\* The table of a CREATE TABLE, its columns by their numbers.
TextTable(c) == [name |-> c[1], key |-> <<ReadData(c[2], 1)>>, val |-> Room(Values(c[2]))]

\* parser_read_txt_table: the table goes to the table set; a name twice is
\* an error.
TxtTable(c) ==
    /\ At("txt_table")
    /\ file' = [file EXCEPT !.creates = Append(@, c)]
    /\ IF Overruns(c[2]) THEN Ends("undefined") /\ UNCHANGED tables
       ELSE IF \E x \in tables : x.name = c[1] THEN Ends("exit") /\ UNCHANGED tables
       ELSE tables' = tables \cup {TextTable(c)} /\ Goto("txt")
    /\ UNCHANGED <<config_type, xml, write_servers, read_servers, schemas, txt, gen>>

\* No "create table name (...);" there: nothing is added.
TxtNoTable ==
    /\ At("txt_table")
    /\ Goto("txt")
    /\ UNCHANGED <<config_type, xml, sets, txt, file, gen>>

\* parser_read_txt_cmd_rate: four lines, each of which sets the rate of one
\* command or none.
TxtRate(r, given) ==
    /\ At("rate")
    /\ LET new == [k \in 1..4 |-> IF k \in given THEN r[k] ELSE rate[k]]
       IN /\ rate' = new
          /\ IF \E k \in 1..4 : new[k] = Uninit THEN Ends("undefined")
             ELSE IF verify_rate(new) THEN Goto("txt") ELSE Ends("exit")
    /\ UNCHANGED <<config_type, xml, sets, txt, file, rows, cols, cmd_array, cur_cmd_num,
                   cur_rate, ntype, row, nswap, roundedUp, filled, bucket>>

\* parser_read_txt_cmd_window: two lines, for rows and columns.
TxtWindow(w, given) ==
    /\ At("window")
    /\ LET r == IF 1 \in given THEN w[1] ELSE rows
           c == IF 2 \in given THEN w[2] ELSE cols
       IN /\ rows' = r /\ cols' = c
          /\ IF Uninit \in {r, c} THEN Ends("undefined")
             ELSE IF verify_window(r, c) THEN Goto("txt") ELSE Ends("exit")
    /\ UNCHANGED <<config_type, xml, sets, txt, file, rate, cmd_array, cur_cmd_num,
                   cur_rate, ntype, row, nswap, roundedUp, filled, bucket>>

\* A key that is none of the section's.
TxtBadKey ==
    /\ At("rate") \/ At("window")
    /\ Ends("exit")
    /\ UNCHANGED <<config_type, xml, sets, txt, file, gen>>

\* The end of the file: parser_gen_cmd_bucket.
TxtEnd ==
    /\ At("txt")
    /\ Goto("gen")
    /\ UNCHANGED <<config_type, xml, sets, txt, file, gen>>

Txt ==
    \/ \E s \in {"server", "txt_table", "rate", "window"} : TxtSection(s)
    \/ TxtUnopened \/ TxtCutOff
    \/ (\E type \in {"write", "read"}, as \in Lines :
            TxtServer(type, as) \/ TxtServerTwice(type, as))
    \/ TxtServerSkipped \/ TxtServerRefused \/ TxtServerNoKeyword \/ TxtServerOverrun
    \/ (\E c \in Creates : TxtTable(c)) \/ TxtNoTable
    \/ (\E r \in Rates, given \in SUBSET (1..4) : TxtRate(r, given))
    \/ (\E w \in Windows, given \in SUBSET (1..2) : TxtWindow(w, given))
    \/ TxtBadKey
    \/ TxtEnd

-----------------------------------------------------------------------------
\* parser_gen_cmd_bucket touches nothing else.
GenCmdBucket == GenNext /\ UNCHANGED <<config_type, xml, sets, txt, file>>

Ended == result # "running" /\ UNCHANGED vars

Next ==
    \/ \E t \in {"XML", "TXT", "ERROR"} : CheckType(t)
    \/ BadFile
    \/ Xml \/ Txt
    \/ ConnectFails \/ ServerNameTooLong
    \/ GenCmdBucket
    \/ Ended

Spec == Init /\ [][Next]_vars

-----------------------------------------------------------------------------
Results == {"running", "parsed", "exit", "aborted", "faulted", "undefined"}
Places == {"type", "xml", "servers", "cmds", "list", "tables", "table",
           "txt", "server", "txt_table", "rate", "window", "gen", "fill"}
Maybe(S) == S \cup {Uninit}
Stored == Cmds \cup {Garbage}

\* Every variable holds a value of its type; no schema is larger than its
\* array, and no array of commands larger than it was allocated.
TypeOK ==
    /\ pc \in Places /\ result \in Results /\ config_type \in {"XML", "TXT", "ERROR"}
    /\ ip \in {"null", "freed"} /\ line \in {0, 1} /\ nitem \in Nat
    /\ \A s \in {my_schema} \cup ToSet(schemas) :
          \A part \in {"key", "val"} : s[part] \in Seq(TypesOfColumns) /\ Len(s[part]) <= Capacity
    /\ \A x \in tables : /\ x.key \in Seq(Nat) /\ Len(x.key) = 1
                         /\ x.val \in Seq(Nat) /\ Len(x.val) <= Capacity
    /\ rate \in [1..4 -> Maybe(Int)] /\ rows \in Maybe(Int) /\ cols \in Maybe(Int)
    /\ cmd_array \in Seq(Stored)
    /\ pc = "fill" => Len(cmd_array) = cols
    /\ cur_cmd_num \in Nat /\ cur_rate \in Nat /\ ntype \in 1..5 /\ row \in Nat
    /\ nswap \in 0..shuffle_time /\ roundedUp \in BOOLEAN

\* The servers of an XML file, one for each node.
OnePerNode(servers, told) ==
    /\ Cardinality(servers) = Len(told)
    /\ servers = {Server(told[k][1]) : k \in 1..Len(told)}

\* Of an XML file that is not refused the program has one server for each
\* node, with the port that atoi makes of the text (33 of "33x6", 0 of "abc",
\* and the same of "3306" and "03306"), so that no two nodes name the same
\* one; its command lists, which were put together command by command and
\* can be travelled from both ends, and a schema for each table.
XmlAsWritten ==
    result = "parsed" /\ config_type = "XML" =>
        /\ OnePerNode(write_servers, file.write) /\ OnePerNode(read_servers, file.read)
        /\ Len(bucket) = Len(file.lists)
        /\ \A k \in 1..Len(bucket) : Holds(bucket[k], file.lists[k])
        /\ schemas = file.tables

Has9(a) == 9 \in ToSet(a[2])

\* The servers of a text file, one for each line: the first address of the
\* line, with the port it has there, unless a 9 cuts it short.
FirstOfLine(servers, told) ==
    /\ Cardinality(servers) = Len(told)
    /\ \A k \in 1..Len(told) : ~Has9(told[k][1]) => Server(told[k][1]) \in servers
    /\ \A s \in servers : \E k \in 1..Len(told) : s[1] = told[k][1][1]

\* The table of a CREATE TABLE: the key is the file's, if that is a bigint,
\* and a table of more than one column has a value too many; only the first
\* value can be another column than the key.
Misread(x, c) ==
    /\ x.name = c[1]
    /\ c[2][1] = "BIGINT" => x.key = <<1>>
    /\ Len(c[2]) > 1 => Len(x.val) >= Len(c[2]) \/ Len(x.val) = Capacity
    /\ \A j \in 2..Len(x.val) : x.val[j] = x.key[1]

\* Of a text file the program has one list of commands for each row, one
\* table for each CREATE TABLE, with columns that the file does not give it,
\* and no schema (so that table_thread has none to make a table from); and
\* of each line of servers the first only, although config.txt.example lists
\* two and three on a line.  Else no server is lost, none is made up, and the
\* port of each is the file's own if that port has no digit 9.
TxtAsRead ==
    result = "parsed" /\ config_type = "TXT" =>
        /\ Len(bucket) = rows /\ schemas = <<>>
        /\ Cardinality(tables) = Len(file.creates)
        /\ \A x \in tables : \E k \in 1..Len(file.creates) : Misread(x, file.creates[k])
        /\ FirstOfLine(write_servers, file.write) /\ FirstOfLine(read_servers, file.read)

\* The last command of a generated list is a SELECT.
LastIsSelect ==
    config_type = "TXT" =>
        \A k \in 1..Len(bucket) :
            bucket[k].type # <<>> => Last(bucket[k].type) = SELECT
=============================================================================
