-------------------------- MODULE BoardRefinement --------------------------
(***************************************************************************)
(* The board implements the lease service: what an agent may rely on is    *)
(* LeaseService, and a task of the board shows its holder, the end of its  *)
(* lease and whether it is finished.                                       *)
(***************************************************************************)
EXTENDS Board

LeaseOf(t) ==
  [holder |-> IF Leased(t) THEN t.assignee ELSE Nobody,
   until |-> t.leaseExpires,
   open |-> t.status # "done"]

Service ==
  INSTANCE LeaseService
    WITH Holders <- Names, None <- Nobody, clock <- now,
         lease <- [id \in DOMAIN tasks |-> LeaseOf(tasks[id])]

\* Every step of the board is a step of the lease service or invisible to it:
\* operations that change a lease settle the expired ones first, hand out only
\* open tasks that nobody else holds, and take no unexpired lease from its
\* holder but by a call that releases, finishes or moves that one task.
ImplementsLeaseService == Service!Spec
=============================================================================
