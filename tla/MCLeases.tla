----------------------------- MODULE MCLeases -----------------------------
(***************************************************************************)
(* The lease protocol of the board on a small instance: two agents and the *)
(* tasks of one project, with every change of status as a patch, one patch *)
(* that edits the text of a task, and patches that name one date each.     *)
(***************************************************************************)
EXTENDS BoardRefinement

MCPatches ==
  { [text |-> FALSE, status |-> {s}, parent |-> {}, start |-> {}, end |-> {}]
      : s \in Statuses }
  \cup { [text |-> TRUE, status |-> {}, parent |-> {}, start |-> {}, end |-> {}] }
  \cup { [text |-> FALSE, status |-> {}, parent |-> {}, start |-> {2}, end |-> {}],
         [text |-> FALSE, status |-> {}, parent |-> {}, start |-> {}, end |-> {1}],
         [text |-> FALSE, status |-> {}, parent |-> {}, start |-> {NoDate}, end |-> {}] }
=============================================================================
