------------------------------- MODULE CmdGen -------------------------------
(***************************************************************************)
(* parser_gen_cmd_bucket of parser/parser.c: from the rates of the four    *)
(* commands it fills an array of cols commands, and from the array, which  *)
(* it shuffles anew each time, it makes rows command lists.                *)
(*                                                                         *)
(* A command is the set of the bits of its number in cmd_type_t, for the   *)
(* shuffle swaps two of them with "^=".                                    *)
(*                                                                         *)
(* A rate is a number of Unit-ths.  The code adds them up as doubles; a    *)
(* sum of two or more may come out a little above the exact one, so that   *)
(* cur_cmd_num / cols = cur_rate is taken for "<"; and a product that is   *)
(* a whole number may come out a little below it.  Writing behind the      *)
(* array is undefined.                                                     *)
(***************************************************************************)
EXTENDS CmdList, FiniteSets, FiniteSetsExt, SequencesExt

CONSTANTS
    Unit,
    shuffle_time,       \* 200 in the code
    Uninit              \* what malloc leaves in the array, and a local variable holds

ASSUME UnitAssumption == Unit \in Nat \ {0}
ASSUME ShuffleAssumption == shuffle_time \in Nat
ASSUME UninitAssumption == Uninit \notin Int

VARIABLES
    pc, result,         \* place; how the parser ended ("running" until then)
    rate, rows, cols,   \* the locals of parser_read_txt
    cmd_array, cur_cmd_num, cur_rate,
    ntype, row, nswap,  \* the loops over the commands, the rows and the swaps
    roundedUp,          \* history: a sum of rates came out too large
    filled,             \* history: the array before the first shuffle
    bucket              \* cq_cmd_bucket: the command lists

gen == <<rate, rows, cols, cmd_array, cur_cmd_num, cur_rate, ntype, row, nswap,
         roundedUp, filled, bucket>>

INSERT == {0}
DELETE == {1}
UPDATE == {0, 1}
SELECT == {2}
cmd_pattern == <<INSERT, DELETE, UPDATE, SELECT>>
Cmds == ToSet(cmd_pattern)

\* A place of the array to which nothing was written yet.
Garbage == {Uninit}

\* The locals are not initialised.
GenInit ==
    /\ rate = [k \in 1..4 |-> Uninit] /\ rows = Uninit /\ cols = Uninit
    /\ cmd_array = <<>> /\ cur_cmd_num = 0 /\ cur_rate = 0
    /\ ntype = 1 /\ row = 0 /\ nswap = 0
    /\ roundedUp = FALSE /\ filled = <<>>
    /\ bucket = <<>>

\* Rates below 1 that add up to at most 1.01.
verify_rate(r) ==
    /\ \A k \in 1..4 : r[k] >= 0 /\ r[k] < Unit
    /\ 100 * (r[1] + r[2] + r[3] + r[4]) <= 101 * Unit

verify_window(r, c) == r >= 0 /\ c >= 0

\* Mutant: "<=" in place of "<".
BelowRateOrAt(n, sum, up) == n * Unit <= sum * cols

\* (double) n / (double) cols < sum; 0.0 / 0.0 compares false.
BelowRate(n, sum, up) ==
    \/ n * Unit < sum * cols
    \/ up /\ cols > 0 /\ n * Unit = sum * cols

\* Where a sum can be off: it has two terms at least.
MayRoundUp == Cardinality({k \in 1..ntype : rate[k] > 0}) >= 2

\* my_malloc of the array, or a use of locals that were never set.
StartGen ==
    /\ pc = "gen" /\ result = "running"
    /\ IF Uninit \in {rows, cols} \cup {rate[k] : k \in 1..4}
       THEN /\ result' = "undefined" /\ UNCHANGED <<pc, cmd_array>>
       ELSE /\ pc' = "fill" /\ UNCHANGED result
            /\ cmd_array' = [k \in 1..cols |-> Garbage]
    /\ filled' = cmd_array'
    /\ UNCHANGED <<rate, rows, cols, cur_cmd_num, cur_rate, ntype, row, nswap, roundedUp,
                   bucket>>

\* Mutant: the share is rounded up.
ShareUp(r) == (r * cols) \div Unit + 1

\* (int) (rate * cols), of the exact product ...
Share(r) == (r * cols) \div Unit

\* ... and where the product of the doubles can be cut to one less.
MayCut(r) == r * cols > 0 /\ r * cols = Unit * Share(r)

\* One turn of the loop: (int) (rate * cols) commands of the type, and more
\* of them as long as the share is below the sum of the rates.
Fill(up, low) ==
    /\ pc = "fill" /\ result = "running"
    /\ ntype <= 4
    /\ up => MayRoundUp
    /\ low => MayCut(rate[ntype])
    /\ LET sum == cur_rate + rate[ntype]
           from == cur_cmd_num + Share(rate[ntype]) - (IF low THEN 1 ELSE 0)
           n == Min({m \in from..(from + 2 * cols + 3) : ~BelowRate(m, sum, up)})
       IN /\ cur_rate' = sum
          /\ cur_cmd_num' = n
          /\ cmd_array' = [k \in 1..cols |->
                IF k \in (cur_cmd_num + 1)..n THEN cmd_pattern[ntype] ELSE cmd_array[k]]
          /\ roundedUp' = (roundedUp \/ (up /\ (n - 1) * Unit = sum * cols))
          /\ result' = IF n > cols THEN "undefined" ELSE result
    /\ ntype' = ntype + 1
    /\ filled' = cmd_array'
    /\ UNCHANGED <<pc, rate, rows, cols, row, nswap, bucket>>

\* The three assignments with "^=" that swap the places a and b.
XorSwap(arr, a, b) ==
    LET one == [arr EXCEPT ![a] = SymDiff(@, arr[b])]
        two == [one EXCEPT ![b] = SymDiff(@, one[a])]
    IN [two EXCEPT ![a] = SymDiff(@, two[b])]

\* Mutant: no guard, so that a place is swapped with itself.
SwappedAlways(arr, a, b) == IF arr = <<>> THEN arr ELSE XorSwap(arr, a, b)

\* if (a == b) continue;
Swapped(arr, a, b) == IF a = b THEN arr ELSE XorSwap(arr, a, b)

\* rand() % (cols - 1), and one as places are numbered from 1.  It is 0 for
\* cols = 0, a remainder of -1.
Draws == IF pc = "fill" /\ cols > 1 THEN 1..(cols - 1) ELSE {1}

\* parser_shuffle_cmds, one turn of its loop: two of the first cols - 1
\* places are drawn.  With cols = 1 rand() % 0 kills the process.
Swap(a, b) ==
    /\ pc = "fill" /\ result = "running"
    /\ ntype > 4 /\ row < rows
    /\ nswap < shuffle_time
    /\ IF cols = 1
       THEN result' = "faulted" /\ UNCHANGED <<cmd_array, nswap>>
       ELSE /\ cmd_array' = Swapped(cmd_array, a, b)
            /\ nswap' = nswap + 1
            /\ UNCHANGED result
    /\ UNCHANGED <<pc, rate, rows, cols, cur_cmd_num, cur_rate, ntype, row, roundedUp,
                   filled, bucket>>

\* The loop over the columns: a list of the commands, one after the other.
ListOf(cmds) ==
    LET list[k \in 0..Len(cmds)] ==
            IF k = 0 THEN cmd_list_init ELSE cmd_list_add(list[k - 1], cmds[k])
    IN list[Len(cmds)]

\* The array is shuffled, a list is made of it and goes to the bucket.
GenRow ==
    /\ pc = "fill" /\ result = "running"
    /\ ntype > 4 /\ row < rows
    /\ nswap = shuffle_time
    /\ bucket' = Append(bucket, ListOf(cmd_array))
    /\ row' = row + 1 /\ nswap' = 0
    /\ UNCHANGED <<pc, result, rate, rows, cols, cmd_array, cur_cmd_num, cur_rate, ntype,
                   roundedUp, filled>>

GenEnd ==
    /\ pc = "fill" /\ result = "running"
    /\ ntype > 4 /\ row = rows
    /\ result' = "parsed"
    /\ UNCHANGED <<pc, gen>>

GenNext ==
    \/ StartGen
    \/ \E up, low \in BOOLEAN : Fill(up, low)
    \/ \E a, b \in Draws : Swap(a, b)
    \/ GenRow \/ GenEnd

-----------------------------------------------------------------------------
\* After each turn the commands so far are as many as their share of cols,
\* rounded up, or one more: (int) (rate * cols) never overshoots and errors
\* of the turns do not add up.
Proportional ==
    pc = "fill" => /\ cur_rate * cols <= cur_cmd_num * Unit
                   /\ cur_cmd_num * Unit <= cur_rate * cols + Unit

\* The array is overrun only by rates that add up to more than 1, exactly or
\* after rounding.
OverrunNeedsExcess ==
    pc = "fill" /\ cur_cmd_num > cols => cur_rate > Unit \/ roundedUp

\* However the rows are shuffled, and though each is shuffled from the one
\* before, every list has the commands that the rates gave, each as often,
\* in the order in which it is travelled from either end, and at its end the
\* one that was last: no swap of parser_shuffle_cmds loses a command, not
\* that of a place with itself, and none reaches the last place.
RowsHoldTheArray ==
    pc = "fill" =>
        \A k \in 1..Len(bucket) :
            /\ Holds(bucket[k], bucket[k].type)
            /\ ToBag(bucket[k].type) = ToBag(filled)
            /\ filled # <<>> => Last(bucket[k].type) = Last(filled)
=============================================================================
