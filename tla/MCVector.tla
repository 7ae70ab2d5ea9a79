------------------------------ MODULE MCVector ------------------------------
(***************************************************************************)
(* Vector with interchangeable entries.                                    *)
(***************************************************************************)
EXTENDS Vector, TLC

EntrySymmetry == Permutations(Entries)
=============================================================================
