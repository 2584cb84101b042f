------------------------------- MODULE Board -------------------------------
(***************************************************************************)
(* The rules of the board (board.go): projects, tasks with a claim lease,  *)
(* agents with a current task, and the newest timeline entry of each task. *)
(*                                                                         *)
(* Every Board method takes the board lock, sweeps the expired leases and  *)
(* then runs its own part, so every operation is one atomic action whose   *)
(* starting point is the swept state (the Swept* definitions).  A call     *)
(* that is refused after the sweep, and every read (Tasks, Task, Agents,   *)
(* Projects, Snapshot, Export), changes exactly what the action Sweep      *)
(* changes.  A call refused before the lock is taken changes nothing.      *)
(*                                                                         *)
(* Abstracted: titles, descriptions, priorities and labels are one flag of *)
(* a patch; the timeline of a task is represented by its newest entry;     *)
(* time is a number of clock ticks, TicksPerSecond of them to the second.  *)
(***************************************************************************)
EXTENDS Integers, FiniteSets

CONSTANTS
  Keys,             \* project keys that callers use
  Names,            \* agent and actor names that callers use (nameRE holds)
  Leases,           \* lease durations that claims ask for, in ticks; 0 = default
  Patches,          \* the patches that Update is called with
  TicksPerSecond,   \* resolution of the clock
  DefaultLease,     \* Options.Lease, in ticks
  MaxLease,         \* maxLease, in ticks
  AgentTTL,         \* Options.AgentTTL, in ticks
  MaxTasks,         \* bound: number of tasks
  MaxTime           \* bound: last value of the clock

VARIABLES
  now,              \* the clock read by every operation (Options.Now)
  projects,         \* key -> NextSeq, for the projects that exist
  tasks,            \* task id -> task
  agents,           \* agent name -> agent
  latest            \* task id -> newest entry of the task's timeline

vars == <<now, projects, tasks, agents, latest>>

SystemActor == "system"
Nobody == ""                   \* Task.Assignee of an unassigned task
NoTask == <<"", 0>>            \* an empty Parent or CurrentTask
NoLease == -1                  \* a nil LeaseExpires
NoDate == 0                    \* a nil StartDate or EndDate

Statuses == {"todo", "in_progress", "review", "done", "blocked"}
Kinds == {"epic", "story", "task"}
Level(kind) == CASE kind = "epic" -> 0 [] kind = "story" -> 1 [] OTHER -> 2

(***************************************************************************)
(* A task id "<key>-<n>" is the pair of its two parts (splitID), and the   *)
(* project of a task is the first of them.                                 *)
(***************************************************************************)
TaskIds == Keys \X (Nat \ {0})
ProjectOf(id) == id[1]

Task ==
  [kind : Kinds, parent : TaskIds \cup {NoTask}, status : Statuses,
   assignee : Names \cup {Nobody}, leaseExpires : Nat \cup {NoLease},
   leaseSeconds : Nat, startDate : Nat, endDate : Nat,
   updatedBy : Names \cup {SystemActor}]

Agent == [lastHeartbeat : Int, currentTask : TaskIds \cup {NoTask}]

Actions == {"created", "claimed", "lease_renewed", "released", "done",
            "updated", "status", "comment", "lease_expired"}
Entry == [actor : Names \cup {SystemActor}, action : Actions]

(***************************************************************************)
(* A patch field is an optional value: {} leaves the field alone, {v} sets *)
(* it to v.  `text' says whether the patch changes one of title,           *)
(* description, priority or labels.                                        *)
(***************************************************************************)
IsOptional(opt, S) == opt \subseteq S /\ \A u, v \in opt : u = v
Chosen(opt, old) == IF opt = {} THEN old ELSE CHOOSE v \in opt : TRUE

IsPatch(p) ==
  /\ p.text \in BOOLEAN
  /\ IsOptional(p.status, Statuses)
  /\ IsOptional(p.parent, TaskIds \cup {NoTask})
  /\ IsOptional(p.start, Nat)
  /\ IsOptional(p.end, Nat)

ASSUME BoardAssumption ==
  /\ TicksPerSecond \in Nat \ {0}
  /\ DefaultLease \in Nat \ {0}
  /\ MaxLease \in Nat /\ AgentTTL \in Nat
  /\ MaxTasks \in Nat /\ MaxTime \in Nat
  /\ Leases \subseteq Nat

ASSUME NameAssumption == Nobody \notin Names /\ "" \notin Keys

ASSUME PatchAssumption == \A p \in Patches : IsPatch(p)

-----------------------------------------------------------------------------
(* Helpers shared by the operations.                                       *)

\* requireActor: the writers that name an actor refuse the reserved name.
Actors == Names \ {SystemActor}

\* now.Add(d) of a lease of d ticks, and Task.LeaseSeconds of that lease.
Seconds(ticks) == ticks \div TicksPerSecond

Leased(t) == t.leaseExpires # NoLease

Unassigned(t) ==
  [t EXCEPT !.status = "todo", !.assignee = Nobody,
            !.leaseExpires = NoLease, !.leaseSeconds = 0]

\* clearCurrentLocked
ClearCurrent(A, name, id) ==
  [a \in DOMAIN A |->
     IF a = name /\ A[a].currentTask = id
       THEN [A[a] EXCEPT !.currentTask = NoTask] ELSE A[a]]

\* touchAgentLocked; id = NoTask leaves the current task of the agent alone.
TouchAgent(A, name, id) ==
  [a \in DOMAIN A \cup {name} |->
     IF a # name THEN A[a]
     ELSE [lastHeartbeat |-> now,
           currentTask |-> IF id = NoTask /\ a \in DOMAIN A
                             THEN A[a].currentTask ELSE id]]

\* Board.log of an entry about task id.
Logged(L, id, who, what) ==
  [i \in DOMAIN L \cup {id} |->
     IF i = id THEN [actor |-> who, action |-> what] ELSE L[i]]

\* Variant: the level test also lets a parent of the same level through.
ParentAllowedSameLevel(T, key, kind, parent) ==
  \/ parent = NoTask
  \/ /\ parent \in DOMAIN T
     /\ ProjectOf(parent) = key
     /\ Level(T[parent].kind) <= Level(kind)

\* Variant: the project of the parent is not compared.
ParentAllowedAnyProject(T, key, kind, parent) ==
  \/ parent = NoTask
  \/ /\ parent \in DOMAIN T
     /\ Level(T[parent].kind) < Level(kind)

\* checkParentLocked
ParentAllowed(T, key, kind, parent) ==
  \/ parent = NoTask
  \/ /\ parent \in DOMAIN T
     /\ ProjectOf(parent) = key
     /\ Level(T[parent].kind) < Level(kind)

-----------------------------------------------------------------------------
(* sweepLocked: the state every operation starts from.                     *)

\* Variant: the sweep looks for leases in the review column.
ExpiredInReview(t) ==
  /\ t.status = "review"
  /\ Leased(t)
  /\ t.leaseExpires <= now

Expired(t) ==
  /\ t.status = "in_progress"
  /\ Leased(t)
  /\ t.leaseExpires <= now

ExpiredIds == {id \in DOMAIN tasks : Expired(tasks[id])}

\* Variant: the sweep leaves UpdatedBy alone.
SweptTasksUnsigned ==
  [id \in DOMAIN tasks |->
     IF Expired(tasks[id]) THEN Unassigned(tasks[id]) ELSE tasks[id]]

SweptTasks ==
  [id \in DOMAIN tasks |->
     IF Expired(tasks[id])
       THEN [Unassigned(tasks[id]) EXCEPT !.updatedBy = SystemActor]
       ELSE tasks[id]]

SweptAgents ==
  [a \in DOMAIN agents |->
     IF agents[a].currentTask \in ExpiredIds
        /\ tasks[agents[a].currentTask].assignee = a
       THEN [agents[a] EXCEPT !.currentTask = NoTask]
       ELSE agents[a]]

SweptLatest ==
  [id \in DOMAIN latest |->
     IF id \in ExpiredIds
       THEN [actor |-> SystemActor, action |-> "lease_expired"]
       ELSE latest[id]]

Sweep ==
  /\ ExpiredIds # {}
  /\ tasks' = SweptTasks
  /\ agents' = SweptAgents
  /\ latest' = SweptLatest
  /\ UNCHANGED <<now, projects>>

-----------------------------------------------------------------------------
(* Operations.                                                             *)

CreateProject(key, actor) ==
  /\ actor \in Actors
  /\ key \notin DOMAIN projects
  /\ projects' = [k \in DOMAIN projects \cup {key} |->
                    IF k = key THEN 0 ELSE projects[k]]
  /\ tasks' = SweptTasks
  /\ agents' = SweptAgents
  /\ latest' = SweptLatest
  /\ UNCHANGED now

NewTask(kind, parent, actor) ==
  [kind |-> kind, parent |-> parent, status |-> "todo", assignee |-> Nobody,
   leaseExpires |-> NoLease, leaseSeconds |-> 0, startDate |-> NoDate,
   endDate |-> NoDate, updatedBy |-> actor]

AddTask(key, kind, parent, actor) ==
  /\ actor \in Actors
  /\ key \in DOMAIN projects
  /\ Cardinality(DOMAIN tasks) < MaxTasks
  /\ ParentAllowed(SweptTasks, key, kind, parent)
  /\ LET id == <<key, projects[key] + 1>>
     IN /\ projects' = [projects EXCEPT ![key] = @ + 1]
        /\ tasks' = [i \in DOMAIN tasks \cup {id} |->
                       IF i = id THEN NewTask(kind, parent, actor)
                       ELSE SweptTasks[i]]
        /\ latest' = Logged(SweptLatest, id, actor, "created")
  /\ agents' = SweptAgents
  /\ UNCHANGED now

\* Variant: nobody keeps others out.
HeldByOtherIgnored(t, agent) == FALSE

\* Another agent holds a lease on t: Claim and Complete by `agent' are refused.
HeldByOther(t, agent) ==
  t.assignee # Nobody /\ t.assignee # agent /\ Leased(t)

Claim(id, agent, asked) ==
  LET t == SweptTasks[id]
      lease == IF asked = 0 THEN DefaultLease ELSE asked
      renewal == t.assignee = agent /\ t.status = "in_progress"
  IN /\ TicksPerSecond <= lease /\ lease <= MaxLease
     /\ t.status # "done"
     /\ ~HeldByOther(t, agent)
     /\ tasks' = [SweptTasks EXCEPT ![id] =
                    [t EXCEPT !.assignee = agent, !.status = "in_progress",
                              !.leaseExpires = now + lease,
                              !.leaseSeconds = Seconds(lease),
                              !.updatedBy = agent]]
     /\ agents' = TouchAgent(SweptAgents, agent, id)
     /\ latest' = Logged(SweptLatest, id, agent,
                         IF renewal THEN "lease_renewed" ELSE "claimed")
     /\ UNCHANGED <<now, projects>>

Release(id, agent) ==
  LET t == SweptTasks[id]
  IN /\ t.assignee = agent
     /\ tasks' = [SweptTasks EXCEPT ![id] =
                    [Unassigned(t) EXCEPT !.updatedBy = agent]]
     /\ agents' = ClearCurrent(SweptAgents, agent, id)
     /\ latest' = Logged(SweptLatest, id, agent, "released")
     /\ UNCHANGED <<now, projects>>

Complete(id, agent) ==
  LET t == SweptTasks[id]
      owner == IF t.assignee = Nobody THEN agent ELSE t.assignee
  IN /\ ~HeldByOther(t, agent)
     /\ t.status # "done"
     /\ tasks' = [SweptTasks EXCEPT ![id] =
                    [t EXCEPT !.assignee = owner, !.status = "done",
                              !.leaseExpires = NoLease, !.leaseSeconds = 0,
                              !.updatedBy = agent]]
     /\ agents' = ClearCurrent(SweptAgents, owner, id)
     /\ latest' = Logged(SweptLatest, id, agent, "done")
     /\ UNCHANGED <<now, projects>>

\* Variant: a change of status keeps the lease.
MovedWithLease(t, status) ==
  [t EXCEPT !.status = status,
            !.assignee = IF status = "todo" THEN Nobody ELSE @]

\* moveLocked: what a change of status does to the task and to its holder.
Moved(t, status) ==
  [t EXCEPT !.status = status, !.leaseExpires = NoLease, !.leaseSeconds = 0,
            !.assignee = IF status = "todo" THEN Nobody ELSE @]

MovedAgents(A, t, id, status) ==
  IF t.status = "in_progress" /\ status # "in_progress"
    THEN ClearCurrent(A, t.assignee, id) ELSE A

\* Variant: the comparison of the two dates is the wrong way round.
DatesOrderedBackwards(start, end) ==
  (start # NoDate /\ end # NoDate) => end <= start

\* The two dates of a task as they will be after an update.
DatesOrdered(start, end) ==
  (start # NoDate /\ end # NoDate) => start <= end

Update(id, p, actor) ==
  LET t == SweptTasks[id]
      parent == Chosen(p.parent, t.parent)
      start == Chosen(p.start, t.startDate)
      end == Chosen(p.end, t.endDate)
      status == Chosen(p.status, t.status)
      edited == \/ p.text
                \/ parent # t.parent
                \/ start # t.startDate
                \/ end # t.endDate
      moved == status # t.status
      planned == [t EXCEPT !.parent = parent, !.startDate = start,
                           !.endDate = end, !.updatedBy = actor]
  IN /\ actor \in Actors
     /\ parent = t.parent \/ ParentAllowed(SweptTasks, ProjectOf(id), t.kind, parent)
     /\ DatesOrdered(start, end)
     /\ edited \/ moved
     /\ tasks' = [SweptTasks EXCEPT ![id] =
                    IF moved THEN Moved(planned, status) ELSE planned]
     /\ agents' = IF moved THEN MovedAgents(SweptAgents, t, id, status)
                  ELSE SweptAgents
     /\ latest' = Logged(SweptLatest, id, actor,
                         IF moved THEN "status" ELSE "updated")
     /\ UNCHANGED <<now, projects>>

Comment(id, actor) ==
  /\ actor \in Actors
  /\ tasks' = [SweptTasks EXCEPT ![id] = [@ EXCEPT !.updatedBy = actor]]
  /\ agents' = SweptAgents
  /\ latest' = Logged(SweptLatest, id, actor, "comment")
  /\ UNCHANGED <<now, projects>>

\* Variant: LeaseSeconds is taken for a number of nanoseconds.
RenewedLeaseNanos(t) == IF t.leaseSeconds = 0 THEN DefaultLease ELSE 0

\* The lease a heartbeat gives a task its sender holds.
RenewedLease(t) ==
  IF t.leaseSeconds = 0 THEN DefaultLease ELSE t.leaseSeconds * TicksPerSecond

Renewed(t, name) ==
  IF t.assignee = name /\ t.status = "in_progress" /\ Leased(t)
    THEN [t EXCEPT !.leaseExpires = now + RenewedLease(t)] ELSE t

\* id = NoTask: a heartbeat that names no task.
Heartbeat(name, id) ==
  /\ id # NoTask => SweptTasks[id].assignee = name
  /\ tasks' = [i \in DOMAIN tasks |-> Renewed(SweptTasks[i], name)]
  /\ agents' = TouchAgent(SweptAgents, name, id)
  /\ latest' = SweptLatest
  /\ UNCHANGED <<now, projects>>

Shutdown ==
  /\ tasks' = SweptTasks
  /\ agents' = [a \in DOMAIN agents |->
                  [lastHeartbeat |->
                     IF agents[a].lastHeartbeat > now - AgentTTL
                       THEN now - AgentTTL ELSE agents[a].lastHeartbeat,
                   currentTask |-> NoTask]]
  /\ latest' = SweptLatest
  /\ UNCHANGED <<now, projects>>

Tick ==
  /\ now < MaxTime
  /\ now' = now + 1
  /\ UNCHANGED <<projects, tasks, agents, latest>>

-----------------------------------------------------------------------------
Init ==
  /\ now = 0
  /\ projects = [k \in {} |-> 0]
  /\ tasks = [i \in {} |-> NewTask("task", NoTask, SystemActor)]
  /\ agents = [a \in {} |-> [lastHeartbeat |-> 0, currentTask |-> NoTask]]
  /\ latest = [i \in {} |-> [actor |-> SystemActor, action |-> "created"]]

Next ==
  \/ Tick
  \/ Sweep
  \/ Shutdown
  \/ \E key \in Keys, actor \in Names : CreateProject(key, actor)
  \/ \E key \in Keys, kind \in Kinds, actor \in Names,
        parent \in DOMAIN tasks \cup {NoTask} : AddTask(key, kind, parent, actor)
  \/ \E name \in Names, id \in DOMAIN tasks \cup {NoTask} : Heartbeat(name, id)
  \/ \E id \in DOMAIN tasks, name \in Names :
       \/ \E asked \in Leases : Claim(id, name, asked)
       \/ Release(id, name)
       \/ Complete(id, name)
       \/ \E p \in Patches : Update(id, p, name)
       \/ Comment(id, name)

Spec == Init /\ [][Next]_vars

(***************************************************************************)
(* Serve sweeps from a ticker for as long as the server runs, and time     *)
(* passes; nothing obliges a caller to call anything.                      *)
(***************************************************************************)
FairSpec == Spec /\ WF_vars(Tick) /\ WF_vars(Sweep)

-----------------------------------------------------------------------------
(* Properties.                                                             *)

\* The variables have their types, and every task has a timeline
\* (AddTask logs "created" in the same critical section).
TypeOK ==
  /\ now \in Nat
  /\ DOMAIN projects \subseteq Keys
  /\ \A k \in DOMAIN projects : projects[k] \in Nat
  /\ DOMAIN tasks \subseteq TaskIds
  /\ \A id \in DOMAIN tasks : tasks[id] \in Task
  /\ DOMAIN agents \subseteq Names
  /\ \A a \in DOMAIN agents : agents[a] \in Agent
  /\ DOMAIN latest = DOMAIN tasks
  /\ \A id \in DOMAIN latest : latest[id] \in Entry

\* Whatever sequence of operations produced the board, ValidateState accepts
\* it: every task belongs to a project whose counter covers its number, its
\* parent exists in the same project at a strictly higher level, and its end
\* date is not before its start date.  So an export can always be imported
\* back, and AddTask never reuses an id.
ValidTask(T, P, id) ==
  /\ ProjectOf(id) \in DOMAIN P
  /\ id[2] <= P[ProjectOf(id)]
  /\ LET parent == T[id].parent
     IN parent # NoTask => /\ parent \in DOMAIN T
                           /\ ProjectOf(parent) = ProjectOf(id)
                           /\ Level(T[parent].kind) < Level(T[id].kind)
  /\ (T[id].startDate # NoDate /\ T[id].endDate # NoDate)
        => T[id].startDate <= T[id].endDate

ValidState == \A id \in DOMAIN tasks : ValidTask(tasks, projects, id)

\* Following Parent links from any task ends after at most two steps: the
\* claim of model.go that strictly decreasing levels rule out cycles.
ParentOf(T, id) == IF id \in DOMAIN T THEN T[id].parent ELSE NoTask

NoParentCycle ==
  \A id \in DOMAIN tasks :
    ParentOf(tasks, ParentOf(tasks, ParentOf(tasks, id))) = NoTask

\* Only an in-progress task with an assignee carries a lease, LeaseSeconds is
\* positive exactly when there is one, and a lease never reaches further into
\* the future than one second past its LeaseSeconds.  A lease in any other
\* column would lock every other agent out and no sweep would ever end it.
LeaseOK(t, time) ==
  IF Leased(t)
    THEN /\ t.status = "in_progress" /\ t.assignee # Nobody
         /\ t.leaseSeconds > 0
         /\ t.leaseExpires < time + (t.leaseSeconds + 1) * TicksPerSecond
    ELSE t.leaseSeconds = 0

LeaseDiscipline == \A id \in DOMAIN tasks : LeaseOK(tasks[id], now)

\* The newest timeline entry tells the truth about the task: who made the last
\* change, and for an entry about the lease or the outcome, the column and the
\* holder that entry announces.  No operation may change those silently.
TimelineOK(t, e) ==
  /\ t.updatedBy = e.actor
  /\ e.action \in {"claimed", "lease_renewed"} =>
       t.status = "in_progress" /\ t.assignee = e.actor /\ Leased(t)
  /\ e.action \in {"created", "released", "lease_expired"} =>
       t.status = "todo" /\ t.assignee = Nobody
  /\ e.action = "done" => t.status = "done"

TimelineMatchesTask ==
  \A id \in DOMAIN tasks : TimelineOK(tasks[id], latest[id])

\* An agent loses a lease that has not expired only to its own release or
\* completion, or to an explicit change of status; another agent's claim,
\* completion, heartbeat or comment never takes it away, and neither does the
\* sweep or a shutdown.
HoldsLease(t, agent) == Leased(t) /\ t.assignee = agent

LeaseEndsForAReason ==
  [][\A id \in DOMAIN tasks :
       LET t == tasks[id]
           e == latest'[id]
       IN (Leased(t) /\ now < t.leaseExpires)
            => \/ HoldsLease(tasks'[id], t.assignee)
               \/ e.action \in {"released", "done"} /\ e.actor = t.assignee
               \/ e.action = "status" /\ e.actor \in Actors]_vars

\* LeaseSeconds drops what a lease has beyond whole seconds, and a heartbeat
\* renews from LeaseSeconds: so much of a lease may be lost, and nothing when only
\* whole seconds are asked for.
WholeSeconds ==
  \A lease \in Leases \cup {DefaultLease} : Seconds(lease) * TicksPerSecond = lease

MaxLoss == IF WholeSeconds THEN 0 ELSE TicksPerSecond - 1

\* While the same agent holds a task on the same terms (LeaseSeconds), neither a
\* heartbeat nor another claim moves the end of its lease back by a second or
\* more, and none moves it back at all where leases are whole seconds.
RenewalKeepsSeconds ==
  [][\A id \in DOMAIN tasks :
       ( /\ Leased(tasks[id])
         /\ HoldsLease(tasks'[id], tasks[id].assignee)
         /\ tasks'[id].leaseSeconds = tasks[id].leaseSeconds )
       => tasks'[id].leaseExpires >= tasks[id].leaseExpires - MaxLoss]_vars

\* A lease whose holder falls silent does not last: every lease is renewed,
\* given up or, once its time has come, swept.
AbandonedLeaseEnds ==
  \A id \in Keys \X (1..MaxTasks), end \in 1..MaxTime :
    LET Pending == id \in DOMAIN tasks /\ tasks[id].leaseExpires = end
    IN Pending ~> ~Pending
=============================================================================
