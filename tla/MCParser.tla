------------------------------ MODULE MCParser ------------------------------
(***************************************************************************)
(* Parser for model checking.  Rates are hundredths: those of              *)
(* config.txt.example, rates that fall short of 1, rates without a SELECT, *)
(* rates that add up to 1.01 and rates that are refused.  Windows of 0, 1, *)
(* 2 and 4 columns, and a number of rows that is refused.  Ports with a 9, *)
(* with a zero in front, with a letter and with too large a number.  Text   *)
(* tables with a key alone, with a varchar key, and with a varchar that is *)
(* passed over or not.                                                     *)
(***************************************************************************)
EXTENDS Parser

Plain == <<"h1", <<3, 8>>>>
Zero == <<"h1", <<0, 3, 8>>>>       \* the same server as Plain
Nine == <<"h2", <<1, 9, 3>>>>
Letter == <<"h2", <<1, -1, 3>>>>    \* "1x3": the same server as Nine, in a text file
High == <<"h1", <<6, 5, 5, 3, 6>>>> \* no port

MCAddresses == {Plain, Zero, Nine, Letter, High}
MCLines == {<<Plain, Nine>>, <<Zero>>, <<Nine, Plain>>, <<Letter>>, <<High>>}
MCCreates == {<<"ta", <<"BIGINT">>>>, <<"ta", <<"BIGINT", "VARCHAR", "BIGINT">>>>,
              <<"tb", <<"VARCHAR", "BIGINT">>>>, <<"tb", <<"BIGINT", "VARCHAR">>>>}
MCRates == {<<30, 10, 50, 10>>, <<25, 25, 25, 25>>, <<90, 0, 0, 0>>, <<50, 50, 0, 0>>,
            <<50, 51, 0, 0>>, <<60, 60, 0, 0>>}
MCWindows == {<<-1, 2>>, <<0, 2>>, <<1, 0>>, <<1, 1>>, <<1, 2>>, <<2, 4>>}
=============================================================================
