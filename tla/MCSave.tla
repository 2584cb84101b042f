------------------------------- MODULE MCSave -------------------------------
(***************************************************************************)
(* Instances of SaveQueue for model checking: one goroutine that flushes,  *)
(* closes and shuts the board down next to the writer and the changes, in  *)
(* both save modes.                                                        *)
(***************************************************************************)
EXTENDS SaveQueue
=============================================================================
