---------------------------- MODULE MCPlanning ----------------------------
(***************************************************************************)
(* The hierarchy of the board on a small instance: callers name every      *)
(* parent there is room for, missing tasks, tasks of another project and   *)
(* the task itself included.                                               *)
(***************************************************************************)
EXTENDS Board

MCPatches ==
  { [text |-> FALSE, status |-> {}, parent |-> {p}, start |-> {}, end |-> {}]
      : p \in (Keys \X (1..MaxTasks)) \cup {NoTask} }
=============================================================================
