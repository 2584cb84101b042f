----------------------------- MODULE MCDataDir -----------------------------
(***************************************************************************)
(* Instances of DataDir for model checking.                                *)
(***************************************************************************)
EXTENDS DataDir
=============================================================================
