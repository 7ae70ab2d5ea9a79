------------------------------ MODULE MCEngine ------------------------------
(***************************************************************************)
(* Engine for model checking.                                              *)
(***************************************************************************)
EXTENDS Engine

MCEngines == <<"engine0", "engine1">>
=============================================================================
