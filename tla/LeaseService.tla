---------------------------- MODULE LeaseService ----------------------------
(***************************************************************************)
(* What the board promises its agents about leases, without columns,       *)
(* timelines or bookkeeping.  A task is free or leased to one holder until *)
(* a point in time, and open or finished.                                  *)
(*                                                                         *)
(* A call that changes any lease ends every lease whose time has come.  A  *)
(* lease that has not expired is never handed to anybody else: it is       *)
(* renewed by its holder, or ends by a call about that one task.           *)
(***************************************************************************)
EXTENDS Integers

CONSTANTS
  Holders,        \* the agents
  None            \* the holder of a free task

VARIABLES
  clock,          \* current time
  lease           \* existing task -> [holder, until, open]

serviceVars == <<clock, lease>>

Free(open) == [holder |-> None, until |-> -1, open |-> open]

\* A lease as it stands once expiry has been looked after.
Settled(l) == IF l.holder # None /\ l.until <= clock THEN Free(l.open) ELSE l

\* All tasks but those of `others' are merely settled.
SettledExcept(others) ==
  \A id \in DOMAIN lease \ others : lease'[id] = Settled(lease[id])

Init ==
  /\ clock = 0
  /\ DOMAIN lease = {}

Tick ==
  /\ clock' = clock + 1
  /\ UNCHANGED lease

Settle ==
  /\ DOMAIN lease' = DOMAIN lease
  /\ SettledExcept({})
  /\ UNCHANGED clock

Create(id) ==
  /\ id \notin DOMAIN lease
  /\ DOMAIN lease' = DOMAIN lease \cup {id}
  /\ lease'[id] = Free(TRUE)
  /\ SettledExcept({id})
  /\ UNCHANGED clock

\* An open task that is free, or already the agent's, is leased to the agent.
Grant(id, a) ==
  /\ lease[id].open
  /\ Settled(lease[id]).holder \in {None, a}
  /\ DOMAIN lease' = DOMAIN lease
  /\ lease'[id].holder = a /\ lease'[id].until > clock /\ lease'[id].open
  /\ SettledExcept({id})
  /\ UNCHANGED clock

\* All the leases of an agent, and nobody else's, get a new end.
Renew(a) ==
  LET held == {id \in DOMAIN lease : Settled(lease[id]).holder = a}
  IN /\ DOMAIN lease' = DOMAIN lease
     /\ \A id \in held :
          /\ lease'[id].holder = a /\ lease'[id].open = lease[id].open
          /\ lease'[id].until > clock
     /\ SettledExcept(held)
     /\ UNCHANGED clock

\* One task is released, finished or moved to another column.
Move(id) ==
  /\ DOMAIN lease' = DOMAIN lease
  /\ \E open \in BOOLEAN : lease'[id] = Free(open)
  /\ SettledExcept({id})
  /\ UNCHANGED clock

Next ==
  \/ Tick
  \/ Settle
  \/ \E id \in DOMAIN lease' : Create(id)
  \/ \E a \in Holders : Renew(a)
  \/ \E id \in DOMAIN lease : Move(id) \/ \E a \in Holders : Grant(id, a)

Spec == Init /\ [][Next]_serviceVars
=============================================================================
