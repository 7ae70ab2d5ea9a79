----------------------------- MODULE MCChecker -----------------------------
(***************************************************************************)
(* Checker for model checking.  Of the two strings one is a prefix of the  *)
(* other: read after it, it passes; read before it, it does not.  Keys are *)
(* distinct, as 63 random bits are, or one string two seeds share.         *)
(***************************************************************************)
EXTENDS Checker, TLC

CONSTANTS w1, r1

MCReadSeq == <<w1, r1>>
MCStrings == {<<1>>, <<1, 2>>}
MCKeyFuncs == {[s \in 1..MaxSeed |-> s], [s \in 1..MaxSeed |-> 1]}
EngineSymmetry == Permutations(Engines)
=============================================================================
