------------------------------- MODULE MCPage -------------------------------
(***************************************************************************)
(* Instances of Page for model checking: an epic with a story with a task, *)
(* and a second project that is empty.  Between the two snapshots midnight *)
(* passes, from the last day of a year to the first of the next; the bars  *)
(* begin and end on the edges of windows, one on a 29th of February.       *)
(***************************************************************************)
EXTENDS Page

Dec31 == NewDate(2023, 12, 31)
Jan1 == Dec31 + 1

T(seq, id, proj, type, parent, status, prio, who, upd, start, end) ==
  [seq |-> seq, id |-> id, project |-> proj, type |-> type, parent |-> parent,
   status |-> status, priority |-> prio, assignee |-> who, updated |-> upd,
   start |-> start, end |-> end, words |-> IF seq % 2 = 0 THEN {"x"} ELSE {}]

TwoSnapshots ==
  LET epic == T(1, "AB-1", "AB", "epic", "", "todo", "low", "", 1, Dec31 - 60, Jan1 + 59)
      story == T(2, "AB-2", "AB", "story", "AB-1", "todo", "high", "", 2, Jan1 + 59, Jan1 + 59)
      task == T(3, "AB-3", "AB", "task", "AB-2", "todo", "high", "ann", 3, 0, 0)
  IN  {[tasks |-> <<epic, story, task>>, projects |-> <<"AB", "CD">>, today |-> Dec31],
       [tasks |-> <<epic, story, [task EXCEPT !.status = "done", !.updated = 4,
                                              !.start = Dec31 - 30, !.end = Dec31 - 29]>>,
        projects |-> <<"AB", "CD">>, today |-> Jan1]}

SomeLinks == {<< >>, [status |-> "closed", query |-> "x"]}

SomeValues ==
  [query |-> {"x"}, epic |-> {"AB-1"}, assignee |-> {Unassigned}]

\* What is typed into a form meets neither the arrows nor the lists of the filter:
\* where they come together the behaviour is cut.
Focused ==
  \/ posting = NoPost /\ \A k \in DOMAIN fields \ {"query"} : fields[k] = ""
  \/ net = 0 /\ filter.epic = "" /\ filter.assignee = ""
=============================================================================
