------------------------------ MODULE MCSchema ------------------------------
(***************************************************************************)
(* Schema for model checking.  One configuration has a column whose name   *)
(* ALTER leaves alone, one has only a column named as the ALTERs name      *)
(* theirs, with the number the next added column gets, and one has both.   *)
(***************************************************************************)
EXTENDS Schema, TLC

MCConfigs == {<<<<"v", 0>>>>, <<<<"col", 1>>>>, <<<<"col", 2>>, <<"v", 0>>>>}
MCSymmetry == Permutations(Data) \cup Permutations(Tables)
=============================================================================
