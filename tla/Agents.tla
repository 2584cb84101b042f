------------------------------- MODULE Agents -------------------------------
(***************************************************************************)
(* Agents that work through the API on the tasks of a board that may crash:*)
(* the command line and the client (cli.go, client.go), the routes of the  *)
(* server (server.go), the lease rules of the board and what of the board  *)
(* is on disk.                                                             *)
(*                                                                         *)
(* A request is sent, served and answered in three steps.  The client may  *)
(* give up at any time: it times out, is interrupted, or the reply is      *)
(* lost.  The server does not notice, so what the client gave up on may    *)
(* still be served later, after other requests of the same agent.          *)
(*                                                                         *)
(* An agent works on a task while it believes to hold its lease.  It       *)
(* believes what it was told: the end of the lease in the reply to a       *)
(* claim, and after a heartbeat a full lease from the time it sent it.  It *)
(* stops working before it releases or finishes a task.                    *)
(*                                                                         *)
(* Abstracted: of the board (module Board has all of it) only the column,  *)
(* the assignee and the lease of each task; every lease has the default    *)
(* length; a heartbeat names the task.                                     *)
(***************************************************************************)
EXTENDS Integers

CONSTANTS
  Workers,        \* the agents
  Nobody,         \* the assignee of an unassigned task
  Work,           \* the tasks they work on
  Lease,          \* Options.Lease
  Modes,          \* the save modes the server may run in
  MaxTime,        \* bound: the clock
  MaxFaults       \* bound: requests given up on, failed saves, crashes

ASSUME AgentsAssumption ==
  /\ Nobody \notin Workers
  /\ Lease \in Nat \ {0}
  /\ Modes \subseteq {"sync", "async"}
  /\ MaxTime \in Nat /\ MaxFaults \in Nat

VARIABLES
  now,
  mode,           \* Options.SaveMode
  tasks,          \* State.Tasks
  saved,          \* the tasks in the Store
  req,            \* each worker's request, and how far it got
  adrift,         \* requests given up on that may still be served
  believed,       \* worker -> task -> the end of the lease it believes in
  told,           \* history: the tasks somebody was told are done
  disturbed,      \* history: the tasks whose lease or outcome was taken back
  faults

sides == <<req, believed, told>>
vars == <<now, mode, tasks, saved, adrift, disturbed, faults, sides>>

Statuses == {"todo", "in_progress", "review", "done"}
Task == [status : Statuses, assignee : Workers \cup {Nobody}, leaseExpires : Nat]
NoLease == 0
Free == [status |-> "todo", assignee |-> Nobody, leaseExpires |-> NoLease]

Ops == {"claim", "release", "done", "heartbeat"}
\* Only a heartbeat needs to remember when it was sent.
Request(op, id) == [op |-> op, id |-> id, sent |-> IF op = "heartbeat" THEN now ELSE 0]
Call(r, at, until) == [r |-> r, at |-> at, until |-> until]
NoRequest == [op |-> "none", id |-> "none", sent |-> 0]
Idle == Call(NoRequest, "idle", 0)

Init ==
  /\ now = 0
  /\ mode \in Modes
  /\ tasks = [id \in Work |-> Free] /\ saved = tasks
  /\ req = [a \in Workers |-> Idle]
  /\ adrift = {}
  /\ believed = [a \in Workers |-> [id \in Work |-> 0]]
  /\ told = {} /\ disturbed = {}
  /\ faults = 0

Fault == faults < MaxFaults /\ faults' = faults + 1

-----------------------------------------------------------------------------
(* The lease rules: what an operation makes of the tasks.                  *)

Leased(t) == t.leaseExpires # NoLease

Expired(t) == t.status = "in_progress" /\ Leased(t) /\ t.leaseExpires <= now

\* sweepLocked, with which every operation begins.
Swept == [id \in Work |-> IF Expired(tasks[id]) THEN Free ELSE tasks[id]]

\* Variant: nobody keeps others out.
HeldByOtherIgnored(t, a) == FALSE

HeldByOther(t, a) == t.assignee \notin {a, Nobody} /\ Leased(t)

\* Variant: a finished task can be claimed again.
AcceptedFinished(a, r) ==
  LET t == Swept[r.id]
  IN CASE r.op \in {"claim", "done"} -> ~HeldByOther(t, a)
       [] OTHER -> t.assignee = a

\* Claim, Release, Complete and Heartbeat: when they are accepted ...
Accepted(a, r) ==
  LET t == Swept[r.id]
  IN CASE r.op \in {"claim", "done"} -> t.status # "done" /\ ~HeldByOther(t, a)
       [] r.op \in {"release", "heartbeat"} -> t.assignee = a

\* ... and the tasks after them.
Outcome(a, r) ==
  LET t == Swept[r.id]
      renewed(u) == IF u.assignee = a /\ u.status = "in_progress" /\ Leased(u)
                      THEN [u EXCEPT !.leaseExpires = now + Lease] ELSE u
  IN IF ~Accepted(a, r) THEN Swept
     ELSE CASE r.op = "claim" ->
                 [Swept EXCEPT ![r.id] = [status |-> "in_progress", assignee |-> a,
                                          leaseExpires |-> now + Lease]]
            [] r.op = "release" -> [Swept EXCEPT ![r.id] = Free]
            [] r.op = "done" ->
                 [Swept EXCEPT ![r.id] =
                    [status |-> "done", leaseExpires |-> NoLease,
                     assignee |-> IF t.assignee = Nobody THEN a ELSE t.assignee]]
            [] r.op = "heartbeat" -> [id \in Work |-> renewed(Swept[id])]

-----------------------------------------------------------------------------
(* The agent and its client.                                               *)

\* taskClaim, taskAgentOp and agent heartbeat.
Send(a, op, id) ==
  /\ req[a] = Idle
  /\ req' = [req EXCEPT ![a] = Call(Request(op, id), "sent", 0)]
  /\ believed' = IF op \in {"release", "done"}
                   THEN [believed EXCEPT ![a][id] = 0] ELSE believed
  /\ told' = IF op = "release" THEN told \ {id} ELSE told
  /\ UNCHANGED <<now, mode, tasks, saved, adrift, disturbed, faults>>

\* Client.do returns: with a task, with an APIError that refuses the request,
\* or with one that says the server failed.
Receive(a) ==
  LET r == req[a].r
  IN /\ req[a].at \in {"ok", "refused", "failed"}
     /\ req' = [req EXCEPT ![a] = Idle]
     /\ believed' =
          CASE req[a].at = "ok" /\ r.op = "claim" ->
                 [believed EXCEPT ![a][r.id] = req[a].until]
            [] req[a].at = "ok" /\ r.op = "heartbeat" /\ believed[a][r.id] > r.sent ->
                 [believed EXCEPT ![a][r.id] = r.sent + Lease]
            [] req[a].at = "refused" -> [believed EXCEPT ![a][r.id] = 0]
            [] OTHER -> believed
     /\ told' = IF req[a].at = "ok" /\ r.op = "done" THEN told \cup {r.id} ELSE told
     /\ UNCHANGED <<now, mode, tasks, saved, adrift, disturbed, faults>>

\* Client.do returns an error of the transport.  The request, if it has not
\* been served, may have reached the server or not.
GiveUp(a) ==
  /\ req[a] # Idle
  /\ Fault
  /\ req' = [req EXCEPT ![a] = Idle]
  /\ \/ UNCHANGED adrift
     \/ /\ req[a].at = "sent"
        /\ adrift' = adrift \cup {[agent |-> a, r |-> req[a].r]}
  /\ UNCHANGED <<now, mode, tasks, saved, believed, told, disturbed>>

-----------------------------------------------------------------------------
(* The server: route, operation, save, reply.                              *)

\* Variant: in sync mode the reply does not wait for the save.
PersistLater(ok) ==
  \/ ok /\ saved' \in {saved, tasks'} /\ UNCHANGED faults
  \/ ~ok /\ mode = "sync" /\ Fault /\ UNCHANGED saved

\* persistAndPublishLocked: in sync mode the change is saved before the reply,
\* and the error of the save is the reply; in async mode the writer saves it
\* later.  Either way the change stays in memory.
Persist(ok) ==
  \/ ok /\ mode = "sync" /\ saved' = tasks' /\ UNCHANGED faults
  \/ ok /\ mode = "async" /\ UNCHANGED <<saved, faults>>
  \/ ~ok /\ mode = "sync" /\ Fault /\ UNCHANGED saved

\* reply: the task, the error of the rules, or the error of the save.
Answer(a, r) ==
  \E ok \in BOOLEAN :
    /\ tasks' = Outcome(a, r)
    /\ Persist(ok)
    /\ LET at == IF ~Accepted(a, r) THEN "refused" ELSE IF ok THEN "ok" ELSE "failed"
           until == IF r.op = "claim" /\ at = "ok" THEN tasks'[r.id].leaseExpires ELSE 0
       IN  req' = [req EXCEPT ![a] = Call(r, at, until)]

Serve(a) ==
  /\ req[a].at = "sent"
  /\ Answer(a, req[a].r)
  /\ UNCHANGED <<now, mode, adrift, believed, told, disturbed>>

\* A request nobody waits for any more is served.  A release or a completion
\* takes the task from an agent that may have claimed it again meanwhile.
ServeAdrift(d) ==
  /\ tasks' = Outcome(d.agent, d.r)
  /\ Persist(TRUE)
  /\ adrift' = adrift \ {d}
  /\ disturbed' = IF d.r.op \in {"release", "done"} THEN disturbed \cup {d.r.id}
                  ELSE disturbed
  /\ UNCHANGED <<now, mode, sides>>

-----------------------------------------------------------------------------
(* Everybody else.                                                         *)

\* Update: a person moves a task to another column, whoever holds it.
MoveTask(id, s) ==
  /\ Swept[id].status # s
  /\ tasks' = [Swept EXCEPT ![id] =
                 [status |-> s, leaseExpires |-> NoLease,
                  assignee |-> IF s = "todo" THEN Nobody ELSE Swept[id].assignee]]
  /\ Persist(TRUE)
  /\ disturbed' = disturbed \cup {id}
  /\ UNCHANGED <<now, mode, sides, adrift>>

\* The sweep of Serve's ticker.
Sweep ==
  /\ Swept # tasks
  /\ tasks' = Swept
  /\ Persist(TRUE)
  /\ UNCHANGED <<now, mode, sides, adrift, disturbed>>

Tick ==
  /\ now < MaxTime
  /\ now' = now + 1
  /\ UNCHANGED <<mode, tasks, saved, sides, adrift, disturbed, faults>>

\* The background writer (module SaveQueue).
WriterSaves ==
  /\ mode = "async" /\ saved # tasks
  /\ saved' = tasks
  /\ UNCHANGED <<now, mode, tasks, sides, adrift, disturbed, faults>>

\* Requests that were being served are cut off.
CutOff ==
  [a \in Workers |-> IF req[a].at = "sent" THEN Call(req[a].r, "failed", 0) ELSE req[a]]

\* The server is killed and starts again from what is on disk.
Crash ==
  /\ Fault
  /\ tasks' = saved
  /\ disturbed' = disturbed \cup {id \in Work : tasks[id] # saved[id]}
  /\ req' = CutOff /\ adrift' = {}
  /\ UNCHANGED <<now, mode, saved, believed, told>>

\* The server is stopped gracefully (Board.Shutdown sweeps and saves) and
\* starts again.
Restart ==
  /\ Fault
  /\ tasks' = Swept /\ saved' = Swept
  /\ req' = CutOff /\ adrift' = {}
  /\ UNCHANGED <<now, mode, believed, told, disturbed>>

Step ==
  \/ \E a \in Workers :
       \/ \E op \in Ops, id \in Work : Send(a, op, id)
       \/ Serve(a) \/ Receive(a) \/ GiveUp(a)
  \/ \E d \in adrift : ServeAdrift(d)
  \/ \E id \in Work, s \in {"todo", "review"} : MoveTask(id, s)
  \/ Sweep \/ Tick \/ WriterSaves \/ Crash \/ Restart

\* Nothing is claimed of a task once it is disturbed, so the steps after the
\* last task is disturbed are left out.
Next == disturbed # Work /\ Step

Spec == Init /\ [][Next]_vars

-----------------------------------------------------------------------------
(* Properties.                                                             *)

Requests == [op : Ops, id : Work, sent : Nat]
Calls == [r : Requests, at : {"sent", "ok", "refused", "failed"}, until : Nat]

\* The variables have their types.
TypeOK ==
  /\ now \in Nat /\ mode \in Modes
  /\ tasks \in [Work -> Task] /\ saved \in [Work -> Task]
  /\ req \in [Workers -> {Idle} \cup Calls]
  /\ believed \in [Workers -> [Work -> Nat]]
  /\ adrift \subseteq [agent : Workers, r : Requests]
  /\ told \subseteq Work /\ disturbed \subseteq Work
  /\ faults \in 0..MaxFaults

WorksOn(a, id) == believed[a][id] > now

\* Two agents never work on the same task at the same time, whatever replies
\* are lost and requests repeated, and across restarts of the server: unless a
\* person moved the task, a crash lost a change of it, or a release or
\* completion its sender had given up on was served late.
WorkersExclusive ==
  \A id \in Work \ disturbed : \A a, b \in Workers :
    WorksOn(a, id) /\ WorksOn(b, id) => a = b

\* Why they never do: an agent that works on a task is the one the board
\* shows, with a lease that lasts at least as long as the agent believes (same
\* exceptions).  WorkersExclusive follows from it.
WorkIsCovered ==
  \A id \in Work \ disturbed : \A a \in Workers :
    WorksOn(a, id) => tasks[id].assignee = a /\ tasks[id].leaseExpires >= believed[a][id]

\* A task that its agent was told is done is done, and stays so until it is
\* released again by an agent or one of the same exceptions happens: no late
\* or repeated claim, completion or heartbeat reopens it.
DoneStaysDone == \A id \in told \ disturbed : tasks[id].status = "done"

\* In sync mode the outcome an agent was told is on disk, so a crash does not
\* take it back.
ToldIsSaved ==
  mode = "sync" =>
    \A id \in told \ disturbed : saved[id].status = "done"
=============================================================================
