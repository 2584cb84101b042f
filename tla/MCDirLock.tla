----------------------------- MODULE MCDirLock -----------------------------
(***************************************************************************)
(* Instances of DirLock for model checking: all processes on one host, or  *)
(* the last one on another host that shares the directory.                 *)
(***************************************************************************)
EXTENDS DirLock

OneHost == [p \in Procs |-> "here"]
TwoHosts == [p \in Procs |-> IF p = "p3" THEN "there" ELSE "here"]
=============================================================================
