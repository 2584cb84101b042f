----------------------------- MODULE MCServing -----------------------------
(***************************************************************************)
(* Instances of Serving for model checking.  The channel of the webhook    *)
(* holds one event, so that a second change already finds it full.         *)
(***************************************************************************)
EXTENDS Serving
=============================================================================
