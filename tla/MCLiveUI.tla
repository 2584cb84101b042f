------------------------------ MODULE MCLiveUI ------------------------------
(***************************************************************************)
(* Instances of LiveUI for model checking.  The channel holds one event    *)
(* and so does the connection, so that a second change already finds the   *)
(* channel full.                                                           *)
(***************************************************************************)
EXTENDS LiveUI
=============================================================================
