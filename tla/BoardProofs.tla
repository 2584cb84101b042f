---------------------------- MODULE BoardProofs ----------------------------
(***************************************************************************)
(* Proofs about the board, for every set of projects, names, leases and    *)
(* patches.  Every operation starts from the swept state, so each fact is  *)
(* first proved of SweptTasks, SweptAgents and SweptLatest and then of the *)
(* step each operation takes from there.  The last part proves that the    *)
(* board implements the lease service.                                     *)
(***************************************************************************)
EXTENDS BoardRefinement, TLAPS

-----------------------------------------------------------------------------
(* Types.                                                                  *)

AgentsOK(A) == DOMAIN A \subseteq Names /\ \A a \in DOMAIN A : A[a] \in Agent

\* Clearing a current task keeps the agents and their types (clearCurrentLocked).
LEMMA ClearCurrentType ==
  ASSUME NEW A, AgentsOK(A), NEW name, NEW id
  PROVE  AgentsOK(ClearCurrent(A, name, id))
BY DEF AgentsOK, ClearCurrent, Agent

\* A heartbeat or a claim registers its agent (touchAgentLocked).
LEMMA TouchAgentType ==
  ASSUME NEW A, AgentsOK(A), now \in Nat,
         NEW name \in Names, NEW id \in TaskIds \cup {NoTask}
  PROVE  AgentsOK(TouchAgent(A, name, id))
BY DEF AgentsOK, TouchAgent, Agent

\* The swept state has the types of the state it was swept from (sweepLocked).
LEMMA SweptType ==
  ASSUME TypeOK
  PROVE  /\ DOMAIN SweptTasks = DOMAIN tasks
         /\ \A id \in DOMAIN tasks : SweptTasks[id] \in Task
         /\ AgentsOK(SweptAgents)
         /\ DOMAIN SweptLatest = DOMAIN tasks
         /\ \A id \in DOMAIN tasks : SweptLatest[id] \in Entry
<1>1. DOMAIN SweptTasks = DOMAIN tasks
  BY DEF SweptTasks
<1>2. ASSUME NEW id \in DOMAIN tasks
      PROVE  SweptTasks[id] \in Task
  <2>1. tasks[id] \in Task
    BY DEF TypeOK
  <2>2. [Unassigned(tasks[id]) EXCEPT !.updatedBy = SystemActor] \in Task
    BY <2>1 DEF Unassigned, Task, Statuses, Nobody, NoLease
  <2> QED
    BY <2>1, <2>2 DEF SweptTasks
<1>3. AgentsOK(SweptAgents)
  BY DEF TypeOK, AgentsOK, SweptAgents, Agent
<1>4. /\ DOMAIN SweptLatest = DOMAIN tasks
      /\ \A id \in DOMAIN tasks : SweptLatest[id] \in Entry
  BY DEF TypeOK, SweptLatest, Entry, Actions
<1> QED
  BY <1>1, <1>2, <1>3, <1>4

\* An optional patch field chooses a value of its type.
LEMMA ChosenType ==
  ASSUME NEW S, NEW opt, IsOptional(opt, S), NEW old \in S
  PROVE  Chosen(opt, old) \in S
<1>1. CASE opt = {}
  BY <1>1 DEF Chosen
<1>2. CASE opt # {}
  <2>1. PICK v \in opt : TRUE
    BY <1>2
  <2>2. (CHOOSE w \in opt : TRUE) \in opt
    BY <2>1
  <2> QED
    BY <1>2, <2>2 DEF Chosen, IsOptional
<1> QED
  BY <1>1, <1>2

\* The durations are whole numbers: LeaseSeconds of a lease, and the lease that
\* a heartbeat computes back from it.
LEMMA SecondsType ==
  ASSUME NEW lease \in Nat
  PROVE  Seconds(lease) \in Nat
<1>1. TicksPerSecond \in Nat /\ TicksPerSecond > 0
  BY BoardAssumption
<1> QED
  BY <1>1 DEF Seconds

\* The lease that a heartbeat grants is a number of ticks.
LEMMA RenewedLeaseType ==
  ASSUME NEW t \in Task
  PROVE  RenewedLease(t) \in Nat
<1>1. TicksPerSecond \in Nat /\ DefaultLease \in Nat
  BY BoardAssumption
<1>2. t.leaseSeconds \in Nat
  BY DEF Task
<1>3. t.leaseSeconds * TicksPerSecond \in Nat
  BY <1>1, <1>2
<1> QED
  BY <1>1, <1>3 DEF RenewedLease

\* What each operation writes over a task is a task.
LEMMA ClaimedType ==
  ASSUME NEW t \in Task, NEW agent \in Names, now \in Nat, NEW lease \in Nat
  PROVE  [t EXCEPT !.assignee = agent, !.status = "in_progress",
                   !.leaseExpires = now + lease,
                   !.leaseSeconds = Seconds(lease),
                   !.updatedBy = agent] \in Task
<1>1. now + lease \in Nat /\ Seconds(lease) \in Nat
  BY SecondsType
<1> QED
  BY <1>1 DEF Task, Statuses

\* Release writes a task.
LEMMA ReleasedType ==
  ASSUME NEW t \in Task, NEW agent \in Names
  PROVE  [Unassigned(t) EXCEPT !.updatedBy = agent] \in Task
BY DEF Task, Unassigned, Statuses, Nobody, NoLease

\* Complete writes a task.
LEMMA CompletedType ==
  ASSUME NEW t \in Task, NEW agent \in Names, NEW owner \in Names
  PROVE  [t EXCEPT !.assignee = owner, !.status = "done",
                   !.leaseExpires = NoLease, !.leaseSeconds = 0,
                   !.updatedBy = agent] \in Task
BY DEF Task, Statuses, NoLease

\* Update writes a task, whether or not it moves it (moveLocked).
LEMMA UpdatedType ==
  ASSUME NEW t \in Task, NEW actor \in Names, NEW status \in Statuses,
         NEW parent \in TaskIds \cup {NoTask}, NEW start \in Nat, NEW end \in Nat
  PROVE  LET planned == [t EXCEPT !.parent = parent, !.startDate = start,
                                  !.endDate = end, !.updatedBy = actor]
         IN planned \in Task /\ Moved(planned, status) \in Task
BY DEF Task, Moved, Nobody, NoLease

\* Heartbeat writes a task.
LEMMA RenewedType ==
  ASSUME NEW t \in Task, NEW name, now \in Nat
  PROVE  Renewed(t, name) \in Task
BY RenewedLeaseType DEF Renewed, Task

\* An operation that writes one task and logs one entry about it keeps the types.
LEMMA TaskWriteType ==
  ASSUME TypeOK, NEW id \in DOMAIN tasks, NEW name \in Names,
         NEW new \in Task, NEW what \in Actions,
         tasks' = [SweptTasks EXCEPT ![id] = new],
         latest' = Logged(SweptLatest, id, name, what),
         AgentsOK(agents'), UNCHANGED <<now, projects>>
  PROVE  TypeOK'
<1>1. /\ DOMAIN SweptTasks = DOMAIN tasks
      /\ \A i \in DOMAIN tasks : SweptTasks[i] \in Task
      /\ DOMAIN SweptLatest = DOMAIN tasks
      /\ \A i \in DOMAIN tasks : SweptLatest[i] \in Entry
  BY SweptType
<1>2. /\ DOMAIN tasks' = DOMAIN tasks
      /\ \A i \in DOMAIN tasks : tasks'[i] \in Task
  BY <1>1
<1>3. /\ DOMAIN latest' = DOMAIN tasks
      /\ \A i \in DOMAIN tasks : latest'[i] \in Entry
  BY <1>1 DEF Logged, Entry
<1> QED
  BY <1>2, <1>3 DEF TypeOK, AgentsOK

\* Every step of the board keeps the types, whatever the constants are.
LEMMA TypeStep == TypeOK /\ [Next]_vars => TypeOK'
<1> SUFFICES ASSUME TypeOK, [Next]_vars PROVE TypeOK'
  OBVIOUS
<1>0. now \in Nat
  BY DEF TypeOK
<1>a. /\ DOMAIN SweptTasks = DOMAIN tasks
      /\ \A id \in DOMAIN tasks : SweptTasks[id] \in Task
  BY SweptType
<1>b. AgentsOK(SweptAgents)
  BY SweptType
<1>c. /\ DOMAIN SweptLatest = DOMAIN tasks
      /\ \A id \in DOMAIN tasks : SweptLatest[id] \in Entry
  BY SweptType
<1>1. CASE Tick
  BY <1>1 DEF Tick, TypeOK
<1>2. CASE Sweep
  BY <1>2, <1>a, <1>b, <1>c DEF Sweep, TypeOK, AgentsOK
<1>3. CASE Shutdown
  <2>1. \A a \in DOMAIN agents : agents[a] \in Agent
    BY DEF TypeOK
  <2>2. now - AgentTTL \in Int
    BY <1>0, BoardAssumption
  <2>3. AgentsOK(agents')
    BY <1>3, <2>1, <2>2 DEF Shutdown, AgentsOK, Agent, TypeOK
  <2> QED
    BY <1>3, <1>a, <1>c, <2>3 DEF Shutdown, TypeOK, AgentsOK
<1>4. ASSUME NEW key \in Keys, NEW actor \in Names, CreateProject(key, actor)
      PROVE  TypeOK'
  BY <1>4, <1>a, <1>b, <1>c DEF CreateProject, TypeOK, AgentsOK
<1>5. ASSUME NEW key \in Keys, NEW kind \in Kinds, NEW actor \in Names,
             NEW parent \in DOMAIN tasks \cup {NoTask},
             AddTask(key, kind, parent, actor)
      PROVE  TypeOK'
  <2> DEFINE id == <<key, projects[key] + 1>>
  <2>1. projects[key] \in Nat /\ id \in TaskIds
    BY <1>5 DEF AddTask, TypeOK, TaskIds
  <2>2. NewTask(kind, parent, actor) \in Task
    BY <1>5 DEF NewTask, Task, TypeOK, Statuses, Nobody, NoLease, NoDate
  <2>3. latest' = Logged(SweptLatest, id, actor, "created")
    BY <1>5 DEF AddTask
  <2>4. /\ DOMAIN latest' = DOMAIN tasks \cup {id}
        /\ \A i \in DOMAIN latest' : latest'[i] \in Entry
    <3> HIDE DEF id
    <3> QED
      BY <1>c, <2>3 DEF Logged, Entry, Actions
  <2>5. /\ DOMAIN tasks' = DOMAIN tasks \cup {id}
        /\ \A i \in DOMAIN tasks' : tasks'[i] \in Task
    BY <1>5, <1>a, <2>2 DEF AddTask
  <2>6. /\ DOMAIN projects' = DOMAIN projects
        /\ \A k \in DOMAIN projects : projects'[k] \in Nat
    BY <1>5, <2>1 DEF AddTask, TypeOK
  <2>7. AgentsOK(agents') /\ now' = now
    BY <1>5, <1>b DEF AddTask
  <2> QED
    BY <2>1, <2>4, <2>5, <2>6, <2>7 DEF TypeOK, AgentsOK
<1>6. ASSUME NEW name \in Names, NEW id \in DOMAIN tasks \cup {NoTask},
             Heartbeat(name, id)
      PROVE  TypeOK'
  <2>1. id \in TaskIds \cup {NoTask}
    BY DEF TypeOK
  <2>2. AgentsOK(agents')
    BY <1>6, <1>0, <1>b, <2>1, TouchAgentType DEF Heartbeat
  <2>3. \A i \in DOMAIN tasks : Renewed(SweptTasks[i], name) \in Task
    BY <1>0, <1>a, RenewedType
  <2> QED
    BY <1>6, <1>c, <2>2, <2>3 DEF Heartbeat, TypeOK, AgentsOK
<1>7. ASSUME NEW id \in DOMAIN tasks, NEW name \in Names
      PROVE  /\ \A asked \in Leases : Claim(id, name, asked) => TypeOK'
             /\ Release(id, name) => TypeOK'
             /\ Complete(id, name) => TypeOK'
             /\ \A p \in Patches : Update(id, p, name) => TypeOK'
             /\ Comment(id, name) => TypeOK'
  <2> DEFINE t == SweptTasks[id]
  <2>0. t \in Task
    BY <1>a
  <2>1. ASSUME NEW asked \in Leases, Claim(id, name, asked)
        PROVE  TypeOK'
    <3> DEFINE lease == IF asked = 0 THEN DefaultLease ELSE asked
               new == [t EXCEPT !.assignee = name, !.status = "in_progress",
                                !.leaseExpires = now + lease,
                                !.leaseSeconds = Seconds(lease),
                                !.updatedBy = name]
    <3>1. lease \in Nat
      BY BoardAssumption
    <3>2. new \in Task
      <4> HIDE DEF lease, t
      <4> QED
        BY <1>0, <2>0, <3>1, ClaimedType
    <3>3. AgentsOK(agents')
      <4>1. id \in TaskIds \cup {NoTask}
        BY DEF TypeOK
      <4> QED
        BY <2>1, <4>1, <1>0, <1>b, TouchAgentType DEF Claim
    <3>4. tasks' = [SweptTasks EXCEPT ![id] = new]
      BY <2>1 DEF Claim
    <3>5. PICK what \in {"claimed", "lease_renewed"} :
            latest' = Logged(SweptLatest, id, name, what)
      BY <2>1 DEF Claim
    <3>6. UNCHANGED <<now, projects>>
      BY <2>1 DEF Claim
    <3> HIDE DEF new
    <3> QED
      BY <3>2, <3>3, <3>4, <3>5, <3>6, TaskWriteType DEF Actions
  <2>2. ASSUME Release(id, name) PROVE TypeOK'
    <3>1. AgentsOK(agents')
      BY <2>2, <1>b, ClearCurrentType DEF Release
    <3> DEFINE new == [Unassigned(t) EXCEPT !.updatedBy = name]
    <3>2. new \in Task
      BY <2>0, ReleasedType
    <3>3. /\ tasks' = [SweptTasks EXCEPT ![id] = new]
          /\ latest' = Logged(SweptLatest, id, name, "released")
          /\ UNCHANGED <<now, projects>>
      BY <2>2 DEF Release
    <3> HIDE DEF new
    <3> QED
      BY <3>1, <3>2, <3>3, TaskWriteType DEF Actions
  <2>3. ASSUME Complete(id, name) PROVE TypeOK'
    <3> DEFINE owner == IF t.assignee = Nobody THEN name ELSE t.assignee
               new == [t EXCEPT !.assignee = owner, !.status = "done",
                                !.leaseExpires = NoLease, !.leaseSeconds = 0,
                                !.updatedBy = name]
    <3>1. owner \in Names
      BY <2>0 DEF Task
    <3>2. AgentsOK(agents')
      BY <2>3, <1>b, ClearCurrentType DEF Complete
    <3>3. new \in Task
      <4> HIDE DEF owner, t
      <4> QED
        BY <2>0, <3>1, CompletedType
    <3>4. /\ tasks' = [SweptTasks EXCEPT ![id] = new]
          /\ latest' = Logged(SweptLatest, id, name, "done")
          /\ UNCHANGED <<now, projects>>
      BY <2>3 DEF Complete
    <3> HIDE DEF new
    <3> QED
      BY <3>2, <3>3, <3>4, TaskWriteType DEF Actions
  <2>4. ASSUME NEW p \in Patches, Update(id, p, name)
        PROVE  TypeOK'
    <3> DEFINE status == Chosen(p.status, t.status)
               parent == Chosen(p.parent, t.parent)
               start == Chosen(p.start, t.startDate)
               end == Chosen(p.end, t.endDate)
               planned == [t EXCEPT !.parent = parent, !.startDate = start,
                                    !.endDate = end, !.updatedBy = name]
               new == IF status # t.status THEN Moved(planned, status)
                      ELSE planned
    <3>1. /\ status \in Statuses
          /\ parent \in TaskIds \cup {NoTask}
          /\ start \in Nat
          /\ end \in Nat
      <4>1. /\ t.status \in Statuses /\ t.parent \in TaskIds \cup {NoTask}
            /\ t.startDate \in Nat /\ t.endDate \in Nat
        BY <2>0 DEF Task
      <4> HIDE DEF t
      <4>2. IsPatch(p)
        BY PatchAssumption
      <4> QED
        BY <4>1, <4>2, ChosenType DEF IsPatch
    <3>2. new \in Task
      <4> HIDE DEF status, parent, start, end, t
      <4>1. planned \in Task /\ Moved(planned, status) \in Task
        BY <2>0, <3>1, UpdatedType
      <4> QED
        BY <4>1
    <3>3. AgentsOK(agents')
      <4>1. AgentsOK(MovedAgents(SweptAgents, t, id, status))
        BY <1>b, ClearCurrentType DEF MovedAgents
      <4> QED
        BY <2>4, <1>b, <4>1 DEF Update
    <3>4. tasks' = [SweptTasks EXCEPT ![id] = new]
      BY <2>4 DEF Update
    <3>5. PICK what \in {"status", "updated"} :
            latest' = Logged(SweptLatest, id, name, what)
      BY <2>4 DEF Update
    <3>6. UNCHANGED <<now, projects>>
      BY <2>4 DEF Update
    <3> HIDE DEF new
    <3> QED
      BY <3>2, <3>3, <3>4, <3>5, <3>6, TaskWriteType DEF Actions
  <2>5. ASSUME Comment(id, name) PROVE TypeOK'
    <3> DEFINE new == [SweptTasks[id] EXCEPT !.updatedBy = name]
    <3>1. new \in Task
      BY <2>0 DEF Task
    <3>2. /\ tasks' = [SweptTasks EXCEPT ![id] = new]
          /\ latest' = Logged(SweptLatest, id, name, "comment")
          /\ AgentsOK(agents')
          /\ UNCHANGED <<now, projects>>
      BY <2>5, <1>a, <1>b DEF Comment
    <3> HIDE DEF new
    <3> QED
      BY <3>1, <3>2, TaskWriteType DEF Actions
  <2> QED
    BY <2>1, <2>2, <2>3, <2>4, <2>5
<1>8. CASE UNCHANGED vars
  BY <1>8 DEF vars, TypeOK
<1> QED
  BY <1>1, <1>2, <1>3, <1>4, <1>5, <1>6, <1>7, <1>8 DEF Next

\* Every reachable board has the types of TypeOK, and every task a timeline.
THEOREM TypeCorrect == Spec => []TypeOK
<1>1. Init => TypeOK
  BY DEF Init, TypeOK
<1> QED
  BY <1>1, TypeStep, PTL DEF Spec

-----------------------------------------------------------------------------
(* What one step can do to one task: every invariant below is proved from  *)
(* this list, with t the swept task, n the task after the step and e the   *)
(* newest entry of its timeline after the step.                            *)

Written(actor, action) == [actor |-> actor, action |-> action]

ClaimStep(t, n, e) ==
  \E name \in Names, lease \in Leases \cup {DefaultLease},
     action \in {"claimed", "lease_renewed"} :
    /\ TicksPerSecond <= lease
    /\ ~HeldByOther(t, name)
    /\ n = [t EXCEPT !.assignee = name, !.status = "in_progress",
                     !.leaseExpires = now + lease,
                     !.leaseSeconds = Seconds(lease), !.updatedBy = name]
    /\ e = Written(name, action)

ReleaseStep(t, n, e) ==
  \E name \in Names :
    /\ t.assignee = name
    /\ n = [Unassigned(t) EXCEPT !.updatedBy = name]
    /\ e = Written(name, "released")

CompleteStep(t, n, e) ==
  \E name \in Names, owner \in Names :
    /\ ~HeldByOther(t, name)
    /\ n = [t EXCEPT !.assignee = owner, !.status = "done",
                     !.leaseExpires = NoLease, !.leaseSeconds = 0,
                     !.updatedBy = name]
    /\ e = Written(name, "done")

UpdateStep(id, t, n, e) ==
  \E actor \in Actors, status \in Statuses, start \in Nat, end \in Nat,
     parent \in TaskIds \cup {NoTask} :
    LET planned == [t EXCEPT !.parent = parent, !.startDate = start,
                             !.endDate = end, !.updatedBy = actor]
    IN /\ parent = t.parent \/ ParentAllowed(SweptTasks, ProjectOf(id), t.kind, parent)
       /\ (start # NoDate /\ end # NoDate) => start <= end
       /\ \/ status = t.status /\ n = planned /\ e = Written(actor, "updated")
          \/ /\ status # t.status
             /\ n = Moved(planned, status)
             /\ e = Written(actor, "status")

CommentStep(t, n, e) ==
  \E actor \in Actors :
    n = [t EXCEPT !.updatedBy = actor] /\ e = Written(actor, "comment")

OperationStep(id, t, n, e) ==
  \/ n = t /\ e = SweptLatest[id]
  \/ \E name \in Names : n = Renewed(t, name) /\ e = SweptLatest[id]
  \/ ClaimStep(t, n, e)
  \/ ReleaseStep(t, n, e)
  \/ CompleteStep(t, n, e)
  \/ UpdateStep(id, t, n, e)
  \/ CommentStep(t, n, e)

TaskStep(id) ==
  \/ /\ tasks'[id] = tasks[id] /\ latest'[id] = latest[id]
     /\ now' \in Nat /\ now' >= now
  \/ OperationStep(id, SweptTasks[id], tasks'[id], latest'[id]) /\ now' = now

\* Every lease that a claim can grant is a natural number of ticks.
LEMMA LeaseTicks == Leases \cup {DefaultLease} \subseteq Nat
BY BoardAssumption

\* Every step of the board does to each task that exists one of these things.
LEMMA StepOfTask ==
  ASSUME TypeOK, ValidState, [Next]_vars, NEW id \in DOMAIN tasks
  PROVE  id \in DOMAIN tasks' /\ TaskStep(id)
<1>a. DOMAIN SweptTasks = DOMAIN tasks /\ DOMAIN SweptLatest = DOMAIN tasks
  BY SweptType
<1>0. now \in Nat /\ SweptTasks[id] \in Task
  BY SweptType DEF TypeOK
<1>1. CASE Tick
  BY <1>1, <1>0 DEF Tick, TaskStep
<1>2. CASE Sweep
  BY <1>2, <1>a DEF Sweep, TaskStep, OperationStep
<1>3. CASE Shutdown
  BY <1>3, <1>a DEF Shutdown, TaskStep, OperationStep
<1>4. ASSUME NEW key \in Keys, NEW actor \in Names, CreateProject(key, actor)
      PROVE  id \in DOMAIN tasks' /\ TaskStep(id)
  BY <1>4, <1>a DEF CreateProject, TaskStep, OperationStep
<1>5. ASSUME NEW key \in Keys, NEW kind \in Kinds, NEW actor \in Names,
             NEW parent \in DOMAIN tasks \cup {NoTask},
             AddTask(key, kind, parent, actor)
      PROVE  id \in DOMAIN tasks' /\ TaskStep(id)
  <2> DEFINE new == <<key, projects[key] + 1>>
  <2>1. id # new
    <3>1. id[2] <= projects[id[1]] /\ id \in TaskIds
      BY DEF ValidState, ValidTask, ProjectOf, TypeOK
    <3>2. projects[key] \in Nat
      BY <1>5 DEF AddTask, TypeOK
    <3> QED
      BY <3>1, <3>2 DEF TaskIds
  <2>2. /\ tasks' = [i \in DOMAIN tasks \cup {new} |->
                      IF i = new THEN NewTask(kind, parent, actor)
                      ELSE SweptTasks[i]]
        /\ latest' = Logged(SweptLatest, new, actor, "created")
        /\ now' = now
    BY <1>5 DEF AddTask
  <2> HIDE DEF new
  <2>3. tasks'[id] = SweptTasks[id] /\ latest'[id] = SweptLatest[id]
    BY <1>a, <2>1, <2>2 DEF Logged
  <2> QED
    BY <2>2, <2>3 DEF TaskStep, OperationStep
<1>6. ASSUME NEW name \in Names, NEW task \in DOMAIN tasks \cup {NoTask},
             Heartbeat(name, task)
      PROVE  id \in DOMAIN tasks' /\ TaskStep(id)
  BY <1>6 DEF Heartbeat, TaskStep, OperationStep
<1>7. ASSUME NEW task \in DOMAIN tasks, NEW name \in Names, NEW n, NEW what,
             tasks' = [SweptTasks EXCEPT ![task] = n],
             latest' = Logged(SweptLatest, task, name, what),
             UNCHANGED <<now, projects>>,
             id = task => OperationStep(id, SweptTasks[id], n, Written(name, what))
      PROVE  id \in DOMAIN tasks' /\ TaskStep(id)
  <2>1. CASE id = task
    <3>1. tasks'[id] = n /\ latest'[id] = Written(name, what)
      BY <1>7, <1>a, <2>1 DEF Logged, Written
    <3> QED
      BY <1>7, <1>a, <2>1, <3>1 DEF TaskStep
  <2>2. CASE id # task
    <3>1. tasks'[id] = SweptTasks[id] /\ latest'[id] = SweptLatest[id]
      BY <1>7, <1>a, <2>2 DEF Logged
    <3> QED
      BY <1>7, <1>a, <3>1 DEF TaskStep, OperationStep
  <2> QED
    BY <2>1, <2>2
<1>8. ASSUME NEW task \in DOMAIN tasks, NEW name \in Names
      PROVE  /\ \A asked \in Leases : Claim(task, name, asked)
                    => id \in DOMAIN tasks' /\ TaskStep(id)
             /\ Release(task, name) => id \in DOMAIN tasks' /\ TaskStep(id)
             /\ Complete(task, name) => id \in DOMAIN tasks' /\ TaskStep(id)
             /\ \A p \in Patches : Update(task, p, name)
                    => id \in DOMAIN tasks' /\ TaskStep(id)
             /\ Comment(task, name) => id \in DOMAIN tasks' /\ TaskStep(id)
  <2> DEFINE t == SweptTasks[task]
  <2>0. t \in Task
    BY SweptType
  <2>1. ASSUME NEW asked \in Leases, Claim(task, name, asked)
        PROVE  id \in DOMAIN tasks' /\ TaskStep(id)
    <3> DEFINE lease == IF asked = 0 THEN DefaultLease ELSE asked
               n == [t EXCEPT !.assignee = name, !.status = "in_progress",
                              !.leaseExpires = now + lease,
                              !.leaseSeconds = Seconds(lease),
                              !.updatedBy = name]
    <3>1. /\ TicksPerSecond <= lease
          /\ ~HeldByOther(t, name)
          /\ tasks' = [SweptTasks EXCEPT ![task] = n]
          /\ UNCHANGED <<now, projects>>
      BY <2>1 DEF Claim
    <3>2. PICK what \in {"claimed", "lease_renewed"} :
            latest' = Logged(SweptLatest, task, name, what)
      BY <2>1 DEF Claim
    <3>3. lease \in Leases \cup {DefaultLease}
      OBVIOUS
    <3>4. ClaimStep(t, n, Written(name, what))
      <4> HIDE DEF lease, t
      <4> QED
        BY <3>1, <3>3 DEF ClaimStep
    <3> HIDE DEF n
    <3> QED
      BY <3>1, <3>2, <3>4, <1>7 DEF OperationStep
  <2>2. ASSUME Release(task, name) PROVE id \in DOMAIN tasks' /\ TaskStep(id)
    <3> DEFINE n == [Unassigned(t) EXCEPT !.updatedBy = name]
    <3>1. /\ t.assignee = name
          /\ tasks' = [SweptTasks EXCEPT ![task] = n]
          /\ latest' = Logged(SweptLatest, task, name, "released")
          /\ UNCHANGED <<now, projects>>
      BY <2>2 DEF Release
    <3>2. ReleaseStep(t, n, Written(name, "released"))
      BY <3>1 DEF ReleaseStep
    <3> HIDE DEF n
    <3> QED
      BY <3>1, <3>2, <1>7 DEF OperationStep
  <2>3. ASSUME Complete(task, name) PROVE id \in DOMAIN tasks' /\ TaskStep(id)
    <3> DEFINE owner == IF t.assignee = Nobody THEN name ELSE t.assignee
               n == [t EXCEPT !.assignee = owner, !.status = "done",
                              !.leaseExpires = NoLease, !.leaseSeconds = 0,
                              !.updatedBy = name]
    <3>1. /\ ~HeldByOther(t, name)
          /\ tasks' = [SweptTasks EXCEPT ![task] = n]
          /\ latest' = Logged(SweptLatest, task, name, "done")
          /\ UNCHANGED <<now, projects>>
      BY <2>3 DEF Complete
    <3>2. owner \in Names
      BY <2>0 DEF Task
    <3>3. CompleteStep(t, n, Written(name, "done"))
      <4> HIDE DEF owner, t
      <4> QED
        BY <3>1, <3>2 DEF CompleteStep
    <3> HIDE DEF n
    <3> QED
      BY <3>1, <3>3, <1>7 DEF OperationStep
  <2>4. ASSUME NEW p \in Patches, Update(task, p, name)
        PROVE  id \in DOMAIN tasks' /\ TaskStep(id)
    <3> DEFINE status == Chosen(p.status, t.status)
               parent == Chosen(p.parent, t.parent)
               start == Chosen(p.start, t.startDate)
               end == Chosen(p.end, t.endDate)
               planned == [t EXCEPT !.parent = parent, !.startDate = start,
                                    !.endDate = end, !.updatedBy = name]
               n == IF status # t.status THEN Moved(planned, status) ELSE planned
               what == IF status # t.status THEN "status" ELSE "updated"
    <3>1. /\ name \in Actors
          /\ parent = t.parent \/ ParentAllowed(SweptTasks, ProjectOf(task), t.kind, parent)
          /\ (start # NoDate /\ end # NoDate) => start <= end
          /\ tasks' = [SweptTasks EXCEPT ![task] = n]
          /\ latest' = Logged(SweptLatest, task, name, what)
          /\ UNCHANGED <<now, projects>>
      BY <2>4 DEF Update, DatesOrdered
    <3>2. /\ status \in Statuses
          /\ parent \in TaskIds \cup {NoTask}
          /\ start \in Nat
          /\ end \in Nat
      <4>1. /\ t.status \in Statuses /\ t.parent \in TaskIds \cup {NoTask}
            /\ t.startDate \in Nat /\ t.endDate \in Nat
        BY <2>0 DEF Task
      <4> HIDE DEF t
      <4>2. IsPatch(p)
        BY PatchAssumption
      <4> QED
        BY <4>1, <4>2, ChosenType DEF IsPatch
    <3>3. UpdateStep(task, t, n, Written(name, what))
      <4> HIDE DEF status, parent, start, end, t
      <4> QED
        BY <3>1, <3>2 DEF UpdateStep
    <3> HIDE DEF n, what
    <3> QED
      BY <3>1, <3>3, <1>7 DEF OperationStep
  <2>5. ASSUME Comment(task, name) PROVE id \in DOMAIN tasks' /\ TaskStep(id)
    <3> DEFINE n == [t EXCEPT !.updatedBy = name]
    <3>1. /\ name \in Actors
          /\ tasks' = [SweptTasks EXCEPT ![task] = n]
          /\ latest' = Logged(SweptLatest, task, name, "comment")
          /\ UNCHANGED <<now, projects>>
      BY <2>5, <1>a DEF Comment
    <3>2. CommentStep(t, n, Written(name, "comment"))
      BY <3>1 DEF CommentStep
    <3> HIDE DEF n
    <3> QED
      BY <3>1, <3>2, <1>7 DEF OperationStep
  <2> QED
    BY <2>1, <2>2, <2>3, <2>4, <2>5
<1>9. CASE UNCHANGED vars
  BY <1>9, <1>0 DEF vars, TaskStep
<1> QED
  BY <1>1, <1>2, <1>3, <1>4, <1>5, <1>6, <1>8, <1>9 DEF Next

\* A task that was not there before the step was added by AddTask, under the
\* next number of its project.
LEMMA StepOfNewTask ==
  ASSUME TypeOK, [Next]_vars, NEW id \in DOMAIN tasks', id \notin DOMAIN tasks
  PROVE  /\ \E kind \in Kinds, parent \in TaskIds \cup {NoTask}, actor \in Actors :
              /\ tasks'[id] = NewTask(kind, parent, actor)
              /\ latest'[id] = Written(actor, "created")
              /\ ParentAllowed(SweptTasks, ProjectOf(id), kind, parent)
         /\ ProjectOf(id) \in DOMAIN projects'
         /\ id[2] <= projects'[ProjectOf(id)]
         /\ now' = now
<1>a. DOMAIN SweptTasks = DOMAIN tasks /\ DOMAIN SweptLatest = DOMAIN tasks
  BY SweptType
<1>1. ASSUME DOMAIN tasks' = DOMAIN tasks PROVE FALSE
  BY <1>1
<1>2. ~Tick /\ ~Sweep /\ ~Shutdown /\ ~(UNCHANGED vars)
  BY <1>1, <1>a DEF Tick, Sweep, Shutdown, vars
<1>3. ASSUME NEW key \in Keys, NEW actor \in Names PROVE ~CreateProject(key, actor)
  BY <1>1, <1>a DEF CreateProject
<1>4. ASSUME NEW name \in Names, NEW task \in DOMAIN tasks \cup {NoTask}
      PROVE  ~Heartbeat(name, task)
  BY <1>1 DEF Heartbeat
<1>5. ASSUME NEW task \in DOMAIN tasks, NEW name \in Names
      PROVE  /\ \A asked \in Leases : ~Claim(task, name, asked)
             /\ ~Release(task, name)
             /\ ~Complete(task, name)
             /\ \A p \in Patches : ~Update(task, p, name)
             /\ ~Comment(task, name)
  BY <1>1, <1>a DEF Claim, Release, Complete, Update, Comment
<1>6. PICK key \in Keys, kind \in Kinds, actor \in Names,
           parent \in DOMAIN tasks \cup {NoTask} : AddTask(key, kind, parent, actor)
  BY <1>2, <1>3, <1>4, <1>5 DEF Next
<1> DEFINE new == <<key, projects[key] + 1>>
<1>7. /\ tasks' = [i \in DOMAIN tasks \cup {new} |->
                    IF i = new THEN NewTask(kind, parent, actor)
                    ELSE SweptTasks[i]]
      /\ latest' = Logged(SweptLatest, new, actor, "created")
      /\ projects' = [projects EXCEPT ![key] = @ + 1]
      /\ actor \in Actors
      /\ key \in DOMAIN projects
      /\ ParentAllowed(SweptTasks, key, kind, parent)
      /\ now' = now
  BY <1>6 DEF AddTask
<1>8. id = new
  <2> HIDE DEF new
  <2> QED
    BY <1>7
<1>9. id[1] = key /\ id[2] = projects[key] + 1
  BY <1>8
<1>10. /\ tasks'[id] = NewTask(kind, parent, actor)
       /\ latest'[id] = Written(actor, "created")
  <2> HIDE DEF new
  <2> QED
    BY <1>7, <1>8, <1>a DEF Logged, Written
<1>11. projects[key] \in Nat /\ projects'[key] = projects[key] + 1
  BY <1>7 DEF TypeOK
<1>12. parent \in TaskIds \cup {NoTask}
  BY DEF TypeOK
<1> QED
  BY <1>7, <1>9, <1>10, <1>11, <1>12 DEF ProjectOf

\* Projects stay, and their counters only grow.
LEMMA StepOfProjects ==
  ASSUME TypeOK, [Next]_vars, NEW k \in DOMAIN projects
  PROVE  k \in DOMAIN projects' /\ projects[k] <= projects'[k]
<1>0. projects[k] \in Nat
  BY DEF TypeOK
<1>1. ASSUME UNCHANGED projects PROVE k \in DOMAIN projects' /\ projects[k] <= projects'[k]
  BY <1>0, <1>1
<1>2. ASSUME NEW key \in Keys, NEW actor \in Names, CreateProject(key, actor)
      PROVE  k \in DOMAIN projects' /\ projects[k] <= projects'[k]
  BY <1>0, <1>2 DEF CreateProject
<1>3. ASSUME NEW key \in Keys, NEW kind \in Kinds, NEW actor \in Names,
             NEW parent \in DOMAIN tasks \cup {NoTask},
             AddTask(key, kind, parent, actor)
      PROVE  k \in DOMAIN projects' /\ projects[k] <= projects'[k]
  <2>1. projects' = [projects EXCEPT ![key] = @ + 1]
    BY <1>3 DEF AddTask
  <2> QED
    BY <1>0, <2>1
<1>4. \/ UNCHANGED projects
      \/ \E key \in Keys, actor \in Names : CreateProject(key, actor)
      \/ \E key \in Keys, kind \in Kinds, actor \in Names,
            parent \in DOMAIN tasks \cup {NoTask} : AddTask(key, kind, parent, actor)
  <2>1. Tick \/ Sweep \/ Shutdown \/ UNCHANGED vars => UNCHANGED projects
    BY DEF Tick, Sweep, Shutdown, vars
  <2>2. ASSUME NEW name \in Names, NEW task \in DOMAIN tasks \cup {NoTask}
        PROVE  Heartbeat(name, task) => UNCHANGED projects
    BY DEF Heartbeat
  <2>3. ASSUME NEW task \in DOMAIN tasks, NEW name \in Names
        PROVE  /\ \A asked \in Leases : Claim(task, name, asked) => UNCHANGED projects
               /\ Release(task, name) => UNCHANGED projects
               /\ Complete(task, name) => UNCHANGED projects
               /\ \A p \in Patches : Update(task, p, name) => UNCHANGED projects
               /\ Comment(task, name) => UNCHANGED projects
    BY DEF Claim, Release, Complete, Update, Comment
  <2> QED
    BY <2>1, <2>2, <2>3 DEF Next
<1> QED
  BY <1>1, <1>2, <1>3, <1>4

\* The fields that an update writes (Update and moveLocked).
LEMMA UpdateFields ==
  ASSUME NEW id, NEW t \in Task, NEW n, NEW e, UpdateStep(id, t, n, e)
  PROVE  \E actor \in Actors :
           /\ n.updatedBy = actor /\ n.kind = t.kind
           /\ \/ n.parent = t.parent
              \/ ParentAllowed(SweptTasks, ProjectOf(id), t.kind, n.parent)
           /\ (n.startDate # NoDate /\ n.endDate # NoDate)
                 => n.startDate <= n.endDate
           /\ \/ /\ e = Written(actor, "updated")
                 /\ n.status = t.status /\ n.assignee = t.assignee
                 /\ n.leaseExpires = t.leaseExpires
                 /\ n.leaseSeconds = t.leaseSeconds
              \/ /\ e = Written(actor, "status")
                 /\ n.leaseExpires = NoLease /\ n.leaseSeconds = 0
<1>1. PICK actor \in Actors, status \in Statuses, start \in Nat, end \in Nat,
           parent \in TaskIds \cup {NoTask} :
        LET planned == [t EXCEPT !.parent = parent, !.startDate = start,
                                 !.endDate = end, !.updatedBy = actor]
        IN /\ parent = t.parent
                \/ ParentAllowed(SweptTasks, ProjectOf(id), t.kind, parent)
           /\ (start # NoDate /\ end # NoDate) => start <= end
           /\ \/ status = t.status /\ n = planned /\ e = Written(actor, "updated")
              \/ /\ status # t.status
                 /\ n = Moved(planned, status)
                 /\ e = Written(actor, "status")
  BY DEF UpdateStep
<1> DEFINE planned == [t EXCEPT !.parent = parent, !.startDate = start,
                                !.endDate = end, !.updatedBy = actor]
<1>2. /\ planned.kind = t.kind /\ planned.parent = parent
      /\ planned.startDate = start /\ planned.endDate = end
      /\ planned.updatedBy = actor /\ planned.status = t.status
      /\ planned.assignee = t.assignee
      /\ planned.leaseExpires = t.leaseExpires
      /\ planned.leaseSeconds = t.leaseSeconds
  BY DEF Task
<1>3. LET m == Moved(planned, status)
      IN /\ m.kind = t.kind /\ m.parent = parent
         /\ m.startDate = start /\ m.endDate = end /\ m.updatedBy = actor
         /\ m.leaseExpires = NoLease /\ m.leaseSeconds = 0
  BY DEF Moved, Task
<1>4. CASE n = planned /\ e = Written(actor, "updated")
  <2> HIDE DEF planned
  <2> QED
    BY <1>1, <1>2, <1>4
<1>5. CASE n = Moved(planned, status) /\ e = Written(actor, "status")
  <2>1. n.parent = t.parent
          \/ ParentAllowed(SweptTasks, ProjectOf(id), t.kind, n.parent)
    BY <1>1, <1>3, <1>5
  <2> HIDE DEF planned
  <2> QED
    BY <1>1, <1>3, <1>5, <2>1
<1> QED
  BY <1>1, <1>4, <1>5

-----------------------------------------------------------------------------
(* Leases.                                                                 *)

\* Truncating a lease to whole seconds loses less than a second, and nothing of
\* a lease of at least a second is truncated to zero.
LEMMA SecondsBound ==
  ASSUME NEW lease \in Nat, TicksPerSecond <= lease
  PROVE  /\ Seconds(lease) > 0
         /\ lease < (Seconds(lease) + 1) * TicksPerSecond
<1>1. TicksPerSecond \in Nat /\ TicksPerSecond > 0
  BY BoardAssumption
<1> DEFINE d == lease \div TicksPerSecond
<1>2. /\ d \in Int
      /\ TicksPerSecond * d <= lease
      /\ lease < TicksPerSecond * d + TicksPerSecond
  BY <1>1
<1>3. d > 0
  <2> SUFFICES ASSUME d <= 0 PROVE FALSE
    BY <1>2
  <2>1. TicksPerSecond * d <= 0
    BY <1>1, <1>2
  <2> QED
    BY <1>1, <1>2, <2>1
<1>4. (d + 1) * TicksPerSecond = TicksPerSecond * d + TicksPerSecond
  BY <1>1, <1>2
<1> QED
  BY <1>2, <1>3, <1>4 DEF Seconds

\* The end of a lease bounds it more loosely as time passes.
LEMMA LeaseOKLater ==
  ASSUME NEW t \in Task, NEW time \in Nat, NEW later \in Nat, time <= later,
         LeaseOK(t, time)
  PROVE  LeaseOK(t, later)
<1>1. PICK bound \in Int : bound = (t.leaseSeconds + 1) * TicksPerSecond
  BY BoardAssumption DEF Task
<1>2. CASE Leased(t)
  <2>1. t.leaseExpires \in Nat
    BY <1>2 DEF Leased, Task
  <2> QED
    BY <1>1, <1>2, <2>1 DEF LeaseOK
<1>3. CASE ~Leased(t)
  BY <1>3 DEF LeaseOK
<1> QED
  BY <1>2, <1>3

\* A swept task has no lease, or the one it had.
LEMMA LeaseOKSwept ==
  ASSUME TypeOK, NEW id \in DOMAIN tasks, LeaseOK(tasks[id], now)
  PROVE  LeaseOK(SweptTasks[id], now)
<1>1. tasks[id] \in Task
  BY DEF TypeOK
<1>2. CASE Expired(tasks[id])
  <2>1. SweptTasks[id].leaseExpires = NoLease /\ SweptTasks[id].leaseSeconds = 0
    BY <1>1, <1>2 DEF SweptTasks, Unassigned, Task
  <2> QED
    BY <2>1 DEF LeaseOK, Leased
<1>3. CASE ~Expired(tasks[id])
  BY <1>3 DEF SweptTasks
<1> QED
  BY <1>2, <1>3

\* Each operation leaves the lease of each task in order.
LEMMA LeaseOKOperation ==
  ASSUME now \in Nat, NEW id, NEW t \in Task, NEW n, NEW e, LeaseOK(t, now),
         OperationStep(id, t, n, e)
  PROVE  LeaseOK(n, now)
<1>0. TicksPerSecond \in Nat /\ TicksPerSecond > 0
  BY BoardAssumption
<1>1. ASSUME NEW name \in Names, n = Renewed(t, name) PROVE LeaseOK(n, now)
  <2>1. CASE n = t
    BY <2>1
  <2>2. CASE n # t
    <3>1. /\ t.assignee = name /\ t.status = "in_progress" /\ Leased(t)
          /\ n = [t EXCEPT !.leaseExpires = now + RenewedLease(t)]
      BY <1>1, <2>2 DEF Renewed
    <3>2. t.leaseSeconds \in Nat /\ t.leaseSeconds > 0 /\ t.assignee # Nobody
      BY <3>1 DEF LeaseOK, Task
    <3>3. RenewedLease(t) = t.leaseSeconds * TicksPerSecond
      BY <3>2 DEF RenewedLease
    <3>4. PICK r \in Int : r = t.leaseSeconds * TicksPerSecond
      BY <1>0, <3>2
    <3>5. (t.leaseSeconds + 1) * TicksPerSecond = r + TicksPerSecond
      BY <1>0, <3>2, <3>4
    <3>6. /\ n.leaseExpires = now + r /\ n.leaseSeconds = t.leaseSeconds
          /\ n.status = "in_progress" /\ n.assignee = t.assignee
      BY <3>1, <3>3, <3>4 DEF Task
    <3> QED
      BY <1>0, <3>2, <3>4, <3>5, <3>6 DEF LeaseOK, Leased, NoLease
  <2> QED
    BY <2>1, <2>2
<1>2. CASE ClaimStep(t, n, e)
  <2>1. PICK name \in Names, lease \in Nat :
          /\ TicksPerSecond <= lease
          /\ n = [t EXCEPT !.assignee = name, !.status = "in_progress",
                           !.leaseExpires = now + lease,
                           !.leaseSeconds = Seconds(lease), !.updatedBy = name]
    BY <1>2, LeaseTicks DEF ClaimStep
  <2>2. /\ n.assignee = name /\ n.status = "in_progress"
        /\ n.leaseExpires = now + lease /\ n.leaseSeconds = Seconds(lease)
    BY <2>1 DEF Task
  <2>3. Seconds(lease) > 0 /\ lease < (Seconds(lease) + 1) * TicksPerSecond
    BY <2>1, SecondsBound
  <2>4. PICK bound \in Int : bound = (Seconds(lease) + 1) * TicksPerSecond
    BY <1>0, SecondsType
  <2> QED
    <3>0. n.assignee # Nobody
      BY <2>2, NameAssumption
    <3>1. Leased(n)
      BY <2>2 DEF Leased, NoLease
    <3>2. n.leaseExpires < now + (n.leaseSeconds + 1) * TicksPerSecond
      BY <2>2, <2>3, <2>4
    <3> QED
      BY <2>2, <2>3, <3>0, <3>1, <3>2 DEF LeaseOK
<1>3. ASSUME n.leaseExpires = NoLease /\ n.leaseSeconds = 0 PROVE LeaseOK(n, now)
  BY <1>3 DEF LeaseOK, Leased
<1>4. CASE ReleaseStep(t, n, e)
  BY <1>3, <1>4 DEF ReleaseStep, Unassigned, Task
<1>5. CASE CompleteStep(t, n, e)
  BY <1>3, <1>5 DEF CompleteStep, Task
<1>6. ASSUME n.leaseExpires = t.leaseExpires, n.leaseSeconds = t.leaseSeconds,
             n.status = t.status, n.assignee = t.assignee
      PROVE  LeaseOK(n, now)
  BY <1>6 DEF LeaseOK, Leased
<1>7. CASE UpdateStep(id, t, n, e)
  <2>1. \/ n.leaseExpires = NoLease /\ n.leaseSeconds = 0
        \/ /\ n.leaseExpires = t.leaseExpires /\ n.leaseSeconds = t.leaseSeconds
           /\ n.status = t.status /\ n.assignee = t.assignee
    BY <1>7, UpdateFields, ZenonT(30)
  <2> QED
    BY <1>3, <1>6, <2>1
<1>8. CASE CommentStep(t, n, e)
  BY <1>6, <1>8 DEF CommentStep, Task
<1> QED
  BY <1>1, <1>2, <1>4, <1>5, <1>7, <1>8 DEF OperationStep

\* Every step keeps the leases in order.
LEMMA LeaseStep ==
  TypeOK /\ ValidState /\ LeaseDiscipline /\ [Next]_vars => LeaseDiscipline'
<1> SUFFICES ASSUME TypeOK, ValidState, LeaseDiscipline, [Next]_vars,
                    NEW id \in DOMAIN tasks'
             PROVE  LeaseOK(tasks'[id], now')
  BY DEF LeaseDiscipline, LeaseOK, Leased
<1>1. CASE id \in DOMAIN tasks
  <2>0. /\ tasks[id] \in Task /\ now \in Nat /\ LeaseOK(tasks[id], now)
        /\ SweptTasks[id] \in Task
    BY <1>1, SweptType DEF TypeOK, LeaseDiscipline
  <2>1. TaskStep(id)
    BY <1>1, StepOfTask
  <2>2. CASE tasks'[id] = tasks[id] /\ now' \in Nat /\ now' >= now
    BY <2>0, <2>2, LeaseOKLater
  <2>3. CASE /\ OperationStep(id, SweptTasks[id], tasks'[id], latest'[id])
             /\ now' = now
    <3>1. LeaseOK(SweptTasks[id], now)
      BY <1>1, <2>0, LeaseOKSwept
    <3> QED
      BY <2>0, <2>3, <3>1, LeaseOKOperation
  <2> QED
    BY <2>1, <2>2, <2>3 DEF TaskStep
<1>2. CASE id \notin DOMAIN tasks
  <2>1. tasks'[id].leaseExpires = NoLease /\ tasks'[id].leaseSeconds = 0
    BY <1>2, StepOfNewTask DEF NewTask
  <2> QED
    BY <2>1 DEF LeaseOK, Leased
<1> QED
  BY <1>1, <1>2

-----------------------------------------------------------------------------
(* Hierarchy, dates and counters.                                          *)

\* A parent stays allowed: tasks are never deleted and never change kind.
LEMMA ParentStaysAllowed ==
  ASSUME NEW T, NEW U, DOMAIN T \subseteq DOMAIN U,
         \A i \in DOMAIN T : U[i].kind = T[i].kind,
         NEW key, NEW kind, NEW parent, ParentAllowed(T, key, kind, parent)
  PROVE  ParentAllowed(U, key, kind, parent)
BY DEF ParentAllowed

\* The sweep changes neither the kind, nor the parent, nor the dates of a task.
LEMMA SweptPlan ==
  ASSUME TypeOK, NEW id \in DOMAIN tasks
  PROVE  /\ SweptTasks[id].kind = tasks[id].kind
         /\ SweptTasks[id].parent = tasks[id].parent
         /\ SweptTasks[id].startDate = tasks[id].startDate
         /\ SweptTasks[id].endDate = tasks[id].endDate
BY DEF TypeOK, SweptTasks, Unassigned, Task

\* What an operation may do to the plan of a task: its kind stays; its parent
\* stays or is one that checkParentLocked accepts; its dates stay in order.
LEMMA OperationPlan ==
  ASSUME NEW id, NEW t \in Task, NEW n, NEW e, OperationStep(id, t, n, e)
  PROVE  /\ n.kind = t.kind
         /\ \/ n.parent = t.parent
            \/ ParentAllowed(SweptTasks, ProjectOf(id), t.kind, n.parent)
         /\ \/ n.startDate = t.startDate /\ n.endDate = t.endDate
            \/ (n.startDate # NoDate /\ n.endDate # NoDate)
                  => n.startDate <= n.endDate
<1>1. CASE UpdateStep(id, t, n, e)
  BY <1>1, UpdateFields
<1>2. ASSUME NEW name \in Names, n = Renewed(t, name)
      PROVE  /\ n.kind = t.kind /\ n.parent = t.parent
             /\ n.startDate = t.startDate /\ n.endDate = t.endDate
  BY <1>2 DEF Renewed, Task
<1>3. ASSUME \/ ClaimStep(t, n, e) \/ CompleteStep(t, n, e) \/ CommentStep(t, n, e)
      PROVE  /\ n.kind = t.kind /\ n.parent = t.parent
             /\ n.startDate = t.startDate /\ n.endDate = t.endDate
  BY <1>3 DEF ClaimStep, CompleteStep, CommentStep, Task
<1>4. ASSUME ReleaseStep(t, n, e)
      PROVE  /\ n.kind = t.kind /\ n.parent = t.parent
             /\ n.startDate = t.startDate /\ n.endDate = t.endDate
  BY <1>4 DEF ReleaseStep, Unassigned, Task
<1> QED
  BY <1>1, <1>2, <1>3, <1>4 DEF OperationStep

\* No step changes the kind of a task.
LEMMA KindKept ==
  ASSUME TypeOK, ValidState, [Next]_vars, NEW id \in DOMAIN tasks
  PROVE  id \in DOMAIN tasks' /\ tasks'[id].kind = tasks[id].kind
<1>1. SweptTasks[id] \in Task /\ SweptTasks[id].kind = tasks[id].kind
  BY SweptType, SweptPlan
<1>2. id \in DOMAIN tasks' /\ TaskStep(id)
  BY StepOfTask
<1>3. ASSUME OperationStep(id, SweptTasks[id], tasks'[id], latest'[id])
      PROVE  tasks'[id].kind = SweptTasks[id].kind
  BY <1>1, <1>3, OperationPlan
<1> QED
  BY <1>1, <1>2, <1>3 DEF TaskStep

\* Every step leaves a state that ValidateState accepts.
LEMMA ValidStep == TypeOK /\ ValidState /\ [Next]_vars => ValidState'
<1> SUFFICES ASSUME TypeOK, ValidState, [Next]_vars, NEW id \in DOMAIN tasks'
             PROVE  ValidTask(tasks', projects', id)
  BY DEF ValidState, ValidTask, ProjectOf
<1>0. DOMAIN tasks \subseteq DOMAIN tasks'
      /\ \A i \in DOMAIN tasks : tasks'[i].kind = tasks[i].kind
  BY KindKept
<1>a. /\ DOMAIN SweptTasks = DOMAIN tasks
      /\ \A i \in DOMAIN SweptTasks : tasks'[i].kind = SweptTasks[i].kind
  BY <1>0, SweptType, SweptPlan
<1>1. CASE id \in DOMAIN tasks
  <2> DEFINE t == tasks[id]
             n == tasks'[id]
  <2>0. /\ ProjectOf(id) \in DOMAIN projects
        /\ id[2] <= projects[ProjectOf(id)]
        /\ ParentAllowed(tasks, ProjectOf(id), t.kind, t.parent)
        /\ (t.startDate # NoDate /\ t.endDate # NoDate) => t.startDate <= t.endDate
        /\ id[2] \in Nat
    BY <1>1 DEF ValidState, ValidTask, ParentAllowed, TypeOK, TaskIds
  <2>1. /\ ProjectOf(id) \in DOMAIN projects'
        /\ id[2] <= projects'[ProjectOf(id)]
    <3>1. projects[ProjectOf(id)] <= projects'[ProjectOf(id)]
      BY <2>0, StepOfProjects
    <3>2. projects[ProjectOf(id)] \in Nat /\ projects'[ProjectOf(id)] \in Nat
      BY <2>0, TypeStep, StepOfProjects DEF TypeOK
    <3> QED
      BY <2>0, <3>1, <3>2, StepOfProjects
  <2>2. /\ n.kind = t.kind
        /\ n.parent = t.parent \/ ParentAllowed(SweptTasks, ProjectOf(id), t.kind, n.parent)
        /\ \/ n.startDate = t.startDate /\ n.endDate = t.endDate
           \/ (n.startDate # NoDate /\ n.endDate # NoDate) => n.startDate <= n.endDate
    <3>1. SweptTasks[id] \in Task
      BY <1>1, SweptType
    <3>2. CASE tasks'[id] = tasks[id]
      BY <3>2
    <3>3. CASE OperationStep(id, SweptTasks[id], tasks'[id], latest'[id])
      <4> HIDE DEF t, n
      <4>1. /\ n.kind = SweptTasks[id].kind
            /\ \/ n.parent = SweptTasks[id].parent
               \/ ParentAllowed(SweptTasks, ProjectOf(id), SweptTasks[id].kind, n.parent)
            /\ \/ /\ n.startDate = SweptTasks[id].startDate
                  /\ n.endDate = SweptTasks[id].endDate
               \/ (n.startDate # NoDate /\ n.endDate # NoDate)
                     => n.startDate <= n.endDate
        BY <3>1, <3>3, OperationPlan DEF n
      <4> QED
        BY <1>1, <4>1, SweptPlan DEF t
    <3> QED
      BY <1>1, <3>2, <3>3, StepOfTask DEF TaskStep
  <2>3. ParentAllowed(tasks', ProjectOf(id), n.kind, n.parent)
    <3> HIDE DEF t, n
    <3>1. CASE n.parent = t.parent
      BY <1>0, <2>0, <2>2, <3>1, ParentStaysAllowed
    <3>2. CASE ParentAllowed(SweptTasks, ProjectOf(id), t.kind, n.parent)
      BY <1>0, <1>a, <2>2, <3>2, ParentStaysAllowed
    <3> QED
      BY <2>2, <3>1, <3>2
  <2> QED
    BY <2>0, <2>1, <2>2, <2>3 DEF ValidTask, ParentAllowed
<1>2. CASE id \notin DOMAIN tasks
  <2>1. PICK kind \in Kinds, parent \in TaskIds \cup {NoTask}, actor \in Actors :
          /\ tasks'[id] = NewTask(kind, parent, actor)
          /\ ParentAllowed(SweptTasks, ProjectOf(id), kind, parent)
    BY <1>2, StepOfNewTask
  <2>2. /\ tasks'[id].kind = kind /\ tasks'[id].parent = parent
        /\ tasks'[id].startDate = NoDate
    BY <2>1 DEF NewTask
  <2>3. ParentAllowed(tasks', ProjectOf(id), kind, parent)
    BY <1>0, <1>a, <2>1, ParentStaysAllowed
  <2> QED
    BY <1>2, <2>2, <2>3, StepOfNewTask DEF ValidTask, ParentAllowed
<1> QED
  BY <1>1, <1>2

-----------------------------------------------------------------------------
(* The timeline.                                                           *)

\* The sweep signs what it changes, so the newest entry stays true.
LEMMA TimelineSwept ==
  ASSUME TypeOK, NEW id \in DOMAIN tasks, TimelineOK(tasks[id], latest[id])
  PROVE  TimelineOK(SweptTasks[id], SweptLatest[id])
<1>0. tasks[id] \in Task /\ id \in DOMAIN latest
  BY DEF TypeOK
<1>1. CASE Expired(tasks[id])
  <2>1. /\ SweptTasks[id].updatedBy = SystemActor
        /\ SweptTasks[id].status = "todo" /\ SweptTasks[id].assignee = Nobody
    BY <1>0, <1>1 DEF SweptTasks, Unassigned, Task
  <2>2. SweptLatest[id] = Written(SystemActor, "lease_expired")
    BY <1>0, <1>1 DEF SweptLatest, ExpiredIds, Written
  <2> QED
    BY <2>1, <2>2 DEF TimelineOK, Written
<1>2. CASE ~Expired(tasks[id])
  <2>1. SweptTasks[id] = tasks[id] /\ SweptLatest[id] = latest[id]
    BY <1>0, <1>2 DEF SweptTasks, SweptLatest, ExpiredIds
  <2> QED
    BY <2>1
<1> QED
  BY <1>1, <1>2

\* Each operation leaves a newest entry that tells the truth about the task.
LEMMA TimelineOperation ==
  ASSUME now \in Nat, NEW id, NEW t \in Task, NEW n, NEW e,
         TimelineOK(t, SweptLatest[id]), OperationStep(id, t, n, e)
  PROVE  TimelineOK(n, e)
<1>1. ASSUME NEW name \in Names, n = Renewed(t, name), e = SweptLatest[id]
      PROVE  TimelineOK(n, e)
  <2>1. CASE n = t
    BY <1>1, <2>1
  <2>2. CASE n # t
    <3>1. Leased(t) /\ n = [t EXCEPT !.leaseExpires = now + RenewedLease(t)]
      BY <1>1, <2>2 DEF Renewed
    <3>2. now + RenewedLease(t) \in Nat
      BY RenewedLeaseType
    <3>3. /\ n.updatedBy = t.updatedBy /\ n.status = t.status
          /\ n.assignee = t.assignee /\ n.leaseExpires \in Nat
      BY <3>1, <3>2 DEF Task
    <3>4. Leased(n)
      BY <3>3 DEF Leased, NoLease
    <3> QED
      BY <1>1, <3>3, <3>4 DEF TimelineOK
  <2> QED
    BY <2>1, <2>2
<1>2. CASE ClaimStep(t, n, e)
  <2>1. PICK name \in Names, lease \in Nat, action \in {"claimed", "lease_renewed"} :
          /\ n = [t EXCEPT !.assignee = name, !.status = "in_progress",
                           !.leaseExpires = now + lease,
                           !.leaseSeconds = Seconds(lease), !.updatedBy = name]
          /\ e = Written(name, action)
    BY <1>2, LeaseTicks DEF ClaimStep
  <2>2. /\ n.assignee = name /\ n.status = "in_progress"
        /\ n.leaseExpires = now + lease /\ n.updatedBy = name
    BY <2>1 DEF Task
  <2>3. Leased(n)
    BY <2>2 DEF Leased, NoLease
  <2> QED
    BY <2>1, <2>2, <2>3 DEF TimelineOK, Written
<1>3. CASE ReleaseStep(t, n, e)
  BY <1>3 DEF ReleaseStep, Unassigned, TimelineOK, Written, Task
<1>4. CASE CompleteStep(t, n, e)
  BY <1>4 DEF CompleteStep, TimelineOK, Written, Task
<1>5. CASE UpdateStep(id, t, n, e)
  <2>1. PICK actor \in Actors :
          /\ n.updatedBy = actor
          /\ e = Written(actor, "updated") \/ e = Written(actor, "status")
    BY <1>5, UpdateFields
  <2> QED
    BY <2>1 DEF TimelineOK, Written
<1>6. CASE CommentStep(t, n, e)
  BY <1>6 DEF CommentStep, TimelineOK, Written, Task
<1> QED
  BY <1>1, <1>2, <1>3, <1>4, <1>5, <1>6 DEF OperationStep

\* Every step leaves every timeline telling the truth.
LEMMA TimelineStep ==
  TypeOK /\ ValidState /\ TimelineMatchesTask /\ [Next]_vars => TimelineMatchesTask'
<1> SUFFICES ASSUME TypeOK, ValidState, TimelineMatchesTask, [Next]_vars,
                    NEW id \in DOMAIN tasks'
             PROVE  TimelineOK(tasks'[id], latest'[id])
  BY DEF TimelineMatchesTask, TimelineOK, Leased
<1>1. CASE id \in DOMAIN tasks
  <2>0. /\ tasks[id] \in Task /\ now \in Nat /\ TimelineOK(tasks[id], latest[id])
        /\ SweptTasks[id] \in Task
    BY <1>1, SweptType DEF TypeOK, TimelineMatchesTask
  <2>1. TaskStep(id)
    BY <1>1, StepOfTask
  <2>2. CASE tasks'[id] = tasks[id] /\ latest'[id] = latest[id]
    BY <2>0, <2>2
  <2>3. CASE OperationStep(id, SweptTasks[id], tasks'[id], latest'[id])
    <3>1. TimelineOK(SweptTasks[id], SweptLatest[id])
      BY <1>1, <2>0, TimelineSwept
    <3> QED
      BY <2>0, <2>3, <3>1, TimelineOperation
  <2> QED
    BY <2>1, <2>2, <2>3 DEF TaskStep
<1>2. CASE id \notin DOMAIN tasks
  <2>1. PICK kind \in Kinds, parent \in TaskIds \cup {NoTask}, actor \in Actors :
          /\ tasks'[id] = NewTask(kind, parent, actor)
          /\ latest'[id] = Written(actor, "created")
    BY <1>2, StepOfNewTask
  <2> QED
    BY <2>1 DEF NewTask, TimelineOK, Written
<1> QED
  BY <1>1, <1>2

-----------------------------------------------------------------------------
(* The theorems.                                                           *)

BoardInvariant == TypeOK /\ ValidState /\ LeaseDiscipline /\ TimelineMatchesTask

\* The conjunction is inductive: ValidState is needed by every other part,
\* because only the counters of ValidState keep AddTask from overwriting a
\* task that exists.
LEMMA InvariantHolds == Spec => []BoardInvariant
<1>1. Init => BoardInvariant
  BY DEF Init, BoardInvariant, TypeOK, ValidState, LeaseDiscipline, TimelineMatchesTask
<1>2. BoardInvariant /\ [Next]_vars => BoardInvariant'
  BY TypeStep, ValidStep, LeaseStep, TimelineStep DEF BoardInvariant
<1> QED
  BY <1>1, <1>2, PTL DEF Spec

\* ValidateState accepts every board that a sequence of operations can build,
\* for any number of projects, tasks and callers: what Export writes, Import
\* and DecodeState take back.
THEOREM BoardStaysValid == Spec => []ValidState
<1>1. BoardInvariant => ValidState
  BY DEF BoardInvariant
<1> QED
  BY <1>1, InvariantHolds, PTL

\* Leases stay disciplined: only in-progress tasks with an assignee carry one,
\* with positive LeaseSeconds that bound how far it reaches.
THEOREM LeasesStayDisciplined == Spec => []LeaseDiscipline
<1>1. BoardInvariant => LeaseDiscipline
  BY DEF BoardInvariant
<1> QED
  BY <1>1, InvariantHolds, PTL

\* The newest timeline entry of every task always tells the truth about who
\* changed it last, where it stands and who holds it.
THEOREM TimelineStaysTrue == Spec => []TimelineMatchesTask
<1>1. BoardInvariant => TimelineMatchesTask
  BY DEF BoardInvariant
<1> QED
  BY <1>1, InvariantHolds, PTL

\* The Parent links of a valid board have no cycle and at most two steps: the
\* argument of checkParentLocked, that levels strictly decrease.
THEOREM ParentsEnd == Spec => []NoParentCycle
<1>1. ASSUME TypeOK, ValidState, NEW id \in DOMAIN tasks, tasks[id].parent # NoTask
      PROVE  /\ tasks[id].parent \in DOMAIN tasks
             /\ Level(tasks[tasks[id].parent].kind) < Level(tasks[id].kind)
  BY <1>1 DEF ValidState, ValidTask
<1>2. ASSUME TypeOK, NEW id \in DOMAIN tasks
      PROVE  Level(tasks[id].kind) \in 0..2
  BY <1>2 DEF TypeOK, Task, Kinds, Level
<1>3. ASSUME TypeOK, ValidState, NEW id \in DOMAIN tasks
      PROVE  ParentOf(tasks, ParentOf(tasks, ParentOf(tasks, id))) = NoTask
  <2>0. NoTask \notin DOMAIN tasks
    BY <1>3 DEF TypeOK, TaskIds, NoTask
  <2> DEFINE p == tasks[id].parent
             q == tasks[p].parent
             r == tasks[q].parent
  <2>1. CASE p = NoTask
    BY <2>0, <2>1 DEF ParentOf
  <2>2. CASE p # NoTask /\ q = NoTask
    BY <1>1, <1>3, <2>0, <2>2 DEF ParentOf
  <2>3. CASE p # NoTask /\ q # NoTask
    <3>1. p \in DOMAIN tasks /\ Level(tasks[p].kind) < Level(tasks[id].kind)
      BY <1>1, <1>3, <2>3
    <3>2. q \in DOMAIN tasks /\ Level(tasks[q].kind) < Level(tasks[p].kind)
      BY <1>1, <1>3, <2>3, <3>1
    <3>3. r = NoTask
      <4>1. r # NoTask =>
              /\ r \in DOMAIN tasks
              /\ Level(tasks[r].kind) < Level(tasks[q].kind)
        BY <1>1, <1>3, <3>2
      <4>2. /\ Level(tasks[id].kind) \in 0..2 /\ Level(tasks[p].kind) \in 0..2
            /\ Level(tasks[q].kind) \in 0..2
            /\ r \in DOMAIN tasks => Level(tasks[r].kind) \in 0..2
        BY <1>2, <1>3, <3>1, <3>2
      <4> QED
        BY <3>1, <3>2, <4>1, <4>2
    <3> QED
      BY <3>1, <3>2, <3>3 DEF ParentOf
  <2> QED
    BY <2>1, <2>2, <2>3
<1>4. BoardInvariant => NoParentCycle
  BY <1>3 DEF BoardInvariant, NoParentCycle
<1> QED
  BY <1>4, InvariantHolds, PTL

\* What an operation does to a task under an unexpired lease: its holder keeps
\* it, gives it up, or someone moves it explicitly.
LEMMA LeaseOperation ==
  ASSUME now \in Nat, NEW id, NEW t \in Task, NEW n, NEW e, Leased(t),
         t.assignee # Nobody, OperationStep(id, t, n, e)
  PROVE  \/ HoldsLease(n, t.assignee)
         \/ e.action \in {"released", "done"} /\ e.actor = t.assignee
         \/ e.action = "status" /\ e.actor \in Actors
<1>1. ASSUME n.leaseExpires = t.leaseExpires, n.assignee = t.assignee
      PROVE  HoldsLease(n, t.assignee)
  BY <1>1 DEF HoldsLease, Leased
<1>2. ASSUME NEW name \in Names, n = Renewed(t, name)
      PROVE  HoldsLease(n, t.assignee)
  <2>1. CASE n = t
    BY <1>1, <2>1
  <2>2. CASE n # t
    <3>1. n = [t EXCEPT !.leaseExpires = now + RenewedLease(t)]
      BY <1>2, <2>2 DEF Renewed
    <3>2. now + RenewedLease(t) \in Nat
      BY RenewedLeaseType
    <3>3. n.assignee = t.assignee /\ n.leaseExpires \in Nat
      BY <3>1, <3>2 DEF Task
    <3> QED
      BY <3>3 DEF HoldsLease, Leased, NoLease
  <2> QED
    BY <2>1, <2>2
<1>3. CASE ClaimStep(t, n, e)
  <2>1. PICK name \in Names, lease \in Nat :
          /\ ~HeldByOther(t, name)
          /\ n = [t EXCEPT !.assignee = name, !.status = "in_progress",
                           !.leaseExpires = now + lease,
                           !.leaseSeconds = Seconds(lease), !.updatedBy = name]
    BY <1>3, LeaseTicks DEF ClaimStep
  <2>2. t.assignee = name
    BY <2>1 DEF HeldByOther
  <2>3. n.assignee = name /\ n.leaseExpires = now + lease
    BY <2>1 DEF Task
  <2> QED
    BY <2>2, <2>3 DEF HoldsLease, Leased, NoLease
<1>4. CASE ReleaseStep(t, n, e)
  BY <1>4 DEF ReleaseStep, Written
<1>5. CASE CompleteStep(t, n, e)
  BY <1>5 DEF CompleteStep, HeldByOther, Written
<1>6. CASE UpdateStep(id, t, n, e)
  <2>1. PICK actor \in Actors :
          \/ /\ n.leaseExpires = t.leaseExpires /\ n.assignee = t.assignee
          \/ e = Written(actor, "status")
    BY <1>6, UpdateFields
  <2> QED
    BY <1>1, <2>1 DEF Written
<1>7. CASE CommentStep(t, n, e)
  BY <1>1, <1>7 DEF CommentStep, Task
<1> QED
  BY <1>1, <1>2, <1>3, <1>4, <1>5, <1>6, <1>7 DEF OperationStep

\* No agent loses an unexpired lease except by its own release or completion or
\* by an explicit change of status, for any number of agents and tasks.
THEOREM LeasesEndForAReason == Spec => LeaseEndsForAReason
<1>1. ASSUME BoardInvariant, [Next]_vars, NEW id \in DOMAIN tasks,
             Leased(tasks[id]), now < tasks[id].leaseExpires
      PROVE  \/ HoldsLease(tasks'[id], tasks[id].assignee)
             \/ /\ latest'[id].action \in {"released", "done"}
                /\ latest'[id].actor = tasks[id].assignee
             \/ latest'[id].action = "status" /\ latest'[id].actor \in Actors
  <2>1. /\ TypeOK /\ ValidState /\ LeaseOK(tasks[id], now)
        /\ tasks[id] \in Task /\ now \in Nat
    BY <1>1 DEF BoardInvariant, LeaseDiscipline, TypeOK
  <2>2. SweptTasks[id] = tasks[id]
    <3>1. ~Expired(tasks[id])
      BY <1>1, <2>1 DEF Expired, Leased, Task
    <3> QED
      BY <3>1 DEF SweptTasks
  <2>3. tasks[id].assignee # Nobody
    BY <1>1, <2>1 DEF LeaseOK
  <2>4. CASE tasks'[id] = tasks[id]
    BY <1>1, <2>4 DEF HoldsLease
  <2>5. CASE OperationStep(id, SweptTasks[id], tasks'[id], latest'[id])
    BY <1>1, <2>1, <2>2, <2>3, <2>5, LeaseOperation
  <2> QED
    BY <1>1, <2>1, <2>4, <2>5, StepOfTask DEF TaskStep
<1>2. BoardInvariant /\ [Next]_vars =>
        [\A id \in DOMAIN tasks :
           LET t == tasks[id]
               e == latest'[id]
           IN (Leased(t) /\ now < t.leaseExpires)
                => \/ HoldsLease(tasks'[id], t.assignee)
                   \/ e.action \in {"released", "done"} /\ e.actor = t.assignee
                   \/ e.action = "status" /\ e.actor \in Actors]_vars
  BY <1>1
<1> QED
  BY <1>2, InvariantHolds, PTL DEF Spec, LeaseEndsForAReason

-----------------------------------------------------------------------------
(* Renewals.  LeaseSeconds holds the lease in whole seconds: a heartbeat    *)
(* sent right after a claim of one and a half seconds ends the lease half a *)
(* second earlier.  No lease reaches further than its LeaseSeconds and      *)
(* MaxLoss, which is what a heartbeat may take away.                        *)

LeaseWithin(t, time) ==
  Leased(t) => t.leaseExpires <= time + t.leaseSeconds * TicksPerSecond + MaxLoss

LeasesWithin == \A id \in DOMAIN tasks : LeaseWithin(tasks[id], now)

\* The part of a lease beyond whole seconds is at most MaxLoss.
LEMMA LossIsBounded ==
  /\ MaxLoss \in Nat
  /\ \A lease \in Leases \cup {DefaultLease} :
       /\ lease \in Nat /\ Seconds(lease) \in Nat
       /\ Seconds(lease) * TicksPerSecond <= lease
       /\ lease <= Seconds(lease) * TicksPerSecond + MaxLoss
<1>1. TicksPerSecond \in Nat /\ TicksPerSecond > 0
  BY BoardAssumption
<1>2. MaxLoss \in Nat
  BY <1>1 DEF MaxLoss
<1>3. ASSUME NEW lease \in Leases \cup {DefaultLease}
      PROVE  /\ lease \in Nat /\ Seconds(lease) \in Nat
             /\ Seconds(lease) * TicksPerSecond <= lease
             /\ lease <= Seconds(lease) * TicksPerSecond + MaxLoss
  <2>1. lease \in Nat /\ Seconds(lease) \in Nat
    BY LeaseTicks, SecondsType
  <2>2. CASE WholeSeconds
    <3>1. Seconds(lease) * TicksPerSecond = lease
      BY <2>2 DEF WholeSeconds
    <3>2. QED
      BY <1>2, <2>1, <3>1
  <2>3. CASE ~WholeSeconds
    <3>1. MaxLoss = TicksPerSecond - 1
      BY <2>3 DEF MaxLoss
    <3>2. /\ TicksPerSecond * (lease \div TicksPerSecond) <= lease
          /\ lease < TicksPerSecond * (lease \div TicksPerSecond) + TicksPerSecond
      BY <1>1, <2>1
    <3>3. PICK whole \in Nat : whole = Seconds(lease) * TicksPerSecond
      BY <1>1, <2>1
    <3>4. whole = TicksPerSecond * (lease \div TicksPerSecond)
      BY <1>1, <2>1, <3>3 DEF Seconds
    <3>5. QED
      BY <1>1, <2>1, <3>1, <3>2, <3>3, <3>4
  <2>4. QED
    BY <2>1, <2>2, <2>3
<1>4. QED
  BY <1>2, <1>3

\* An operation leaves a lease that ends at most its LeaseSeconds and MaxLoss from
\* now, and one on unchanged terms that ends no more than MaxLoss earlier.
LEMMA WithinOperation ==
  ASSUME now \in Nat, NEW id, NEW t \in Task, NEW n, NEW e,
         LeaseOK(t, now), LeaseWithin(t, now), OperationStep(id, t, n, e)
  PROVE  /\ LeaseWithin(n, now)
         /\ (Leased(t) /\ Leased(n) /\ n.leaseSeconds = t.leaseSeconds)
               => n.leaseExpires >= t.leaseExpires - MaxLoss
<1>0. TicksPerSecond \in Nat /\ t.leaseSeconds \in Nat /\ MaxLoss \in Nat
  BY BoardAssumption, LossIsBounded DEF Task
<1>1. PICK r \in Nat : r = t.leaseSeconds * TicksPerSecond
  BY <1>0
<1>2. Leased(t) => t.leaseExpires \in Nat /\ t.leaseExpires <= now + r + MaxLoss
  BY <1>1 DEF LeaseWithin, Leased, Task
<1>3. ASSUME \/ n.leaseExpires = NoLease
             \/ n.leaseExpires = t.leaseExpires /\ n.leaseSeconds = t.leaseSeconds
      PROVE  /\ LeaseWithin(n, now)
             /\ (Leased(t) /\ Leased(n)) => n.leaseExpires >= t.leaseExpires - MaxLoss
  BY <1>0, <1>1, <1>2, <1>3 DEF LeaseWithin, Leased
<1>4. ASSUME NEW s \in Nat, n.leaseSeconds = s, NEW d \in Nat,
             s * TicksPerSecond <= d, d <= s * TicksPerSecond + MaxLoss, n.leaseExpires = now + d
      PROVE  /\ LeaseWithin(n, now)
             /\ (Leased(t) /\ n.leaseSeconds = t.leaseSeconds)
                   => n.leaseExpires >= t.leaseExpires - MaxLoss
  BY <1>0, <1>1, <1>2, <1>4 DEF LeaseWithin
<1>5. ASSUME NEW name \in Names, n = Renewed(t, name)
      PROVE  /\ LeaseWithin(n, now)
             /\ (Leased(t) /\ Leased(n) /\ n.leaseSeconds = t.leaseSeconds)
                   => n.leaseExpires >= t.leaseExpires - MaxLoss
  <2>1. CASE n = t
    BY <1>3, <2>1
  <2>2. CASE n # t
    <3>1. Leased(t) /\ n = [t EXCEPT !.leaseExpires = now + RenewedLease(t)]
      BY <1>5, <2>2 DEF Renewed
    <3>2. t.leaseSeconds > 0
      BY <3>1 DEF LeaseOK
    <3>3. RenewedLease(t) = r
      BY <1>0, <1>1, <3>2 DEF RenewedLease
    <3>4. n.leaseExpires = now + r /\ n.leaseSeconds = t.leaseSeconds
      BY <3>1, <3>3 DEF Task
    <3> QED
      BY <1>0, <1>1, <1>4, <3>4
  <2> QED
    BY <2>1, <2>2
<1>6. CASE ClaimStep(t, n, e)
  <2>1. PICK name \in Names, lease \in Leases \cup {DefaultLease} :
          n = [t EXCEPT !.assignee = name, !.status = "in_progress",
                        !.leaseExpires = now + lease,
                        !.leaseSeconds = Seconds(lease), !.updatedBy = name]
    BY <1>6 DEF ClaimStep
  <2>2. n.leaseExpires = now + lease /\ n.leaseSeconds = Seconds(lease)
    BY <2>1 DEF Task
  <2>3. /\ lease \in Nat /\ Seconds(lease) \in Nat
        /\ Seconds(lease) * TicksPerSecond <= lease
        /\ lease <= Seconds(lease) * TicksPerSecond + MaxLoss
    BY LossIsBounded
  <2> QED
    BY <1>4, <2>2, <2>3
<1>7. CASE ReleaseStep(t, n, e)
  BY <1>3, <1>7 DEF ReleaseStep, Unassigned, Task
<1>8. CASE CompleteStep(t, n, e)
  BY <1>3, <1>8 DEF CompleteStep, Task
<1>9. CASE UpdateStep(id, t, n, e)
  <2>1. \/ n.leaseExpires = NoLease
        \/ n.leaseExpires = t.leaseExpires /\ n.leaseSeconds = t.leaseSeconds
    BY <1>9, UpdateFields
  <2> QED
    BY <1>3, <2>1
<1>10. CASE CommentStep(t, n, e)
  BY <1>3, <1>10 DEF CommentStep, Task
<1> QED
  BY <1>3, <1>5, <1>6, <1>7, <1>8, <1>9, <1>10 DEF OperationStep

\* An operation that leases a task without a lease grants it from now on.
LEMMA LaterThanNow ==
  ASSUME now \in Nat, NEW id, NEW t \in Task, NEW n, NEW e, ~Leased(t),
         OperationStep(id, t, n, e), Leased(n)
  PROVE  n.leaseExpires >= now
<1>1. ASSUME n.leaseExpires = t.leaseExpires \/ n.leaseExpires = NoLease PROVE FALSE
  BY <1>1 DEF Leased
<1>2. ASSUME NEW name \in Names, n = Renewed(t, name) PROVE FALSE
  BY <1>1, <1>2 DEF Renewed
<1>3. ~ReleaseStep(t, n, e)
  BY <1>1 DEF ReleaseStep, Unassigned, Task
<1>4. ~CompleteStep(t, n, e)
  BY <1>1 DEF CompleteStep, Task
<1>5. ~UpdateStep(id, t, n, e)
  BY <1>1, UpdateFields
<1>6. ~CommentStep(t, n, e)
  BY <1>1 DEF CommentStep, Task
<1>7. ClaimStep(t, n, e)
  BY <1>1, <1>2, <1>3, <1>4, <1>5, <1>6 DEF OperationStep
<1>8. PICK lease \in Nat : n.leaseExpires = now + lease
  BY <1>7, LeaseTicks DEF ClaimStep, Task
<1> QED
  BY <1>8

\* The step form of the two facts above, with the sweep in front.
LEMMA WithinTask ==
  ASSUME BoardInvariant, LeasesWithin, [Next]_vars,
         NEW id \in DOMAIN tasks
  PROVE  /\ LeaseWithin(tasks'[id], now')
         /\ ( /\ Leased(tasks[id]) /\ HoldsLease(tasks'[id], tasks[id].assignee)
              /\ tasks'[id].leaseSeconds = tasks[id].leaseSeconds )
            => tasks'[id].leaseExpires >= tasks[id].leaseExpires - MaxLoss
<1>1. /\ TypeOK /\ ValidState /\ LeaseOK(tasks[id], now)
      /\ LeaseWithin(tasks[id], now)
      /\ tasks[id] \in Task /\ now \in Nat
  BY DEF BoardInvariant, LeaseDiscipline, TypeOK, LeasesWithin
<1>0. PICK r \in Nat : r = tasks[id].leaseSeconds * TicksPerSecond
  BY <1>1, BoardAssumption DEF Task
<1>4. MaxLoss \in Nat
  BY LossIsBounded
<1>2. CASE tasks'[id] = tasks[id] /\ now' \in Nat /\ now' >= now
  <2>1. Leased(tasks[id]) => tasks[id].leaseExpires \in Nat
    BY <1>1 DEF Leased, Task
  <2> QED
    BY <1>0, <1>1, <1>2, <1>4, <2>1 DEF LeaseWithin, HoldsLease
<1>3. CASE /\ OperationStep(id, SweptTasks[id], tasks'[id], latest'[id])
           /\ now' = now
  <2>1. CASE ~Expired(tasks[id])
    <3>1. SweptTasks[id] = tasks[id]
      BY <2>1 DEF SweptTasks
    <3> QED
      BY <1>1, <1>3, <3>1, WithinOperation DEF HoldsLease
  <2>2. CASE Expired(tasks[id])
    <3>1. /\ SweptTasks[id] \in Task /\ LeaseOK(SweptTasks[id], now)
      BY <1>1, SweptType, LeaseOKSwept
    <3>2. SweptTasks[id].leaseExpires = NoLease
      BY <1>1, <2>2 DEF SweptTasks, Unassigned, Task
    <3>3. LeaseWithin(SweptTasks[id], now)
      BY <3>2 DEF LeaseWithin, Leased
    <3>4. LeaseWithin(tasks'[id], now)
      BY <1>1, <1>3, <3>1, <3>3, WithinOperation
    <3>5. /\ tasks[id].leaseExpires \in Nat /\ tasks[id].leaseExpires <= now
      BY <1>1, <2>2 DEF Expired, Leased, Task
    <3>6. Leased(tasks'[id]) => tasks'[id].leaseExpires >= now
      BY <1>1, <1>3, <3>1, <3>2, LaterThanNow DEF Leased
    <3>7. Leased(tasks'[id]) => tasks'[id].leaseExpires \in Nat
      BY <1>1, TypeStep, StepOfTask DEF TypeOK, Task, Leased
    <3> QED
      BY <1>1, <1>3, <1>4, <3>4, <3>5, <3>6, <3>7 DEF HoldsLease
  <2> QED
    BY <2>1, <2>2
<1> QED
  BY <1>1, <1>2, <1>3, StepOfTask DEF TaskStep

\* Whatever heartbeats and claims arrive, the end of a lease held on unchanged
\* terms moves back by less than a second, and where every lease granted is a whole
\* number of seconds it never moves back.
THEOREM RenewalsKeepSeconds == Spec => RenewalKeepsSeconds
<1>1. Init => LeasesWithin
  BY DEF Init, LeasesWithin
<1>2. BoardInvariant /\ LeasesWithin /\ [Next]_vars => LeasesWithin'
  <2> SUFFICES ASSUME BoardInvariant, LeasesWithin, [Next]_vars,
                      NEW id \in DOMAIN tasks'
               PROVE  LeaseWithin(tasks'[id], now')
    BY DEF LeasesWithin, LeaseWithin, Leased
  <2>1. CASE id \in DOMAIN tasks
    BY <2>1, WithinTask
  <2>2. CASE id \notin DOMAIN tasks
    <3>1. tasks'[id].leaseExpires = NoLease
      BY <2>2, StepOfNewTask DEF NewTask, BoardInvariant
    <3> QED
      BY <3>1 DEF LeaseWithin, Leased
  <2> QED
    BY <2>1, <2>2
<1>3. BoardInvariant /\ LeasesWithin /\ [Next]_vars =>
        [\A id \in DOMAIN tasks :
           ( /\ Leased(tasks[id])
             /\ HoldsLease(tasks'[id], tasks[id].assignee)
             /\ tasks'[id].leaseSeconds = tasks[id].leaseSeconds )
           => tasks'[id].leaseExpires >= tasks[id].leaseExpires - MaxLoss]_vars
  BY WithinTask
<1> QED
  BY <1>1, <1>2, <1>3, InvariantHolds, PTL DEF Spec, RenewalKeepsSeconds

-----------------------------------------------------------------------------
(* The board implements the lease service.  Each operation of the board is *)
(* matched with one action of LeaseService; the sweep in front of it is    *)
(* Settled.                                                                *)

\* Sweeping a task is what the service calls settling its lease.
LEMMA SettledIsSwept ==
  ASSUME BoardInvariant, NEW id \in DOMAIN tasks
  PROVE  Service!Settled(LeaseOf(tasks[id])) = LeaseOf(SweptTasks[id])
<1> DEFINE t == tasks[id]
<1>1. t \in Task /\ now \in Nat /\ LeaseOK(t, now)
  BY DEF BoardInvariant, TypeOK, LeaseDiscipline
<1>2. CASE Expired(t)
  <2>1. /\ t.assignee # Nobody /\ t.status = "in_progress" /\ Leased(t)
        /\ t.leaseExpires <= now
    BY <1>1, <1>2 DEF Expired, LeaseOK
  <2>2. SweptTasks[id] = [Unassigned(t) EXCEPT !.updatedBy = SystemActor]
    BY <1>2 DEF SweptTasks
  <2>3. LeaseOf(SweptTasks[id]) = [holder |-> Nobody, until |-> -1, open |-> TRUE]
    BY <1>1, <2>2 DEF LeaseOf, Unassigned, Leased, NoLease, Task
  <2> QED
    BY <2>1, <2>3 DEF LeaseOf, Service!Settled, Service!Free
<1>3. CASE ~Expired(t)
  <2>1. SweptTasks[id] = t
    BY <1>3 DEF SweptTasks
  <2>2. Leased(t) => t.status = "in_progress" /\ ~(t.leaseExpires <= now)
    BY <1>1, <1>3 DEF Expired, LeaseOK
  <2> QED
    BY <2>1, <2>2 DEF LeaseOf, Service!Settled
<1> QED
  BY <1>2, <1>3

\* The tasks that an operation only sweeps are only settled.
LEMMA OthersSettled ==
  ASSUME BoardInvariant, NEW others, DOMAIN tasks \subseteq DOMAIN tasks',
         \A id \in DOMAIN tasks \ others : LeaseOf(tasks'[id]) = LeaseOf(SweptTasks[id])
  PROVE  Service!SettledExcept(others)
BY SettledIsSwept DEF Service!SettledExcept

-----------------------------------------------------------------------------
(* Each operation as an action of the service.                             *)

\* An operation that changes no column, no holder and no end of a lease is seen
\* as Settle: the sweep, Shutdown, CreateProject, Comment, and an Update that
\* edits without moving.
LEMMA SettleStep ==
  ASSUME BoardInvariant, now' = now, DOMAIN tasks' = DOMAIN tasks,
         \A id \in DOMAIN tasks : LeaseOf(tasks'[id]) = LeaseOf(SweptTasks[id])
  PROVE  Service!Settle
BY OthersSettled DEF Service!Settle

\* An operation that leaves one task without a lease and only sweeps the others
\* is seen as Move: Release, Complete, and an Update that changes the column.
LEMMA MoveStep ==
  ASSUME BoardInvariant, now' = now, NEW id \in DOMAIN tasks, NEW n,
         tasks' = [SweptTasks EXCEPT ![id] = n], n.leaseExpires = NoLease
  PROVE  Service!Move(id)
<1>1. /\ DOMAIN tasks' = DOMAIN tasks /\ tasks'[id] = n
      /\ \A i \in DOMAIN tasks \ {id} : tasks'[i] = SweptTasks[i]
  BY DEF SweptTasks
<1>2. Service!SettledExcept({id})
  BY <1>1, OthersSettled
<1>3. PICK open \in BOOLEAN : open = (n.status # "done")
  OBVIOUS
<1>4. LeaseOf(tasks'[id]) = Service!Free(open)
  BY <1>1, <1>3 DEF LeaseOf, Leased, NoLease, Service!Free
<1> QED
  BY <1>1, <1>2, <1>3, <1>4 DEF Service!Move

\* Claim is seen as Grant.
LEMMA GrantStep ==
  ASSUME BoardInvariant, NEW id \in DOMAIN tasks, NEW name \in Names,
         NEW asked \in Leases, Claim(id, name, asked)
  PROVE  Service!Grant(id, name)
<1> DEFINE t == SweptTasks[id]
           lease == IF asked = 0 THEN DefaultLease ELSE asked
           n == [t EXCEPT !.assignee = name, !.status = "in_progress",
                          !.leaseExpires = now + lease,
                          !.leaseSeconds = Seconds(lease), !.updatedBy = name]
<1>1. /\ TicksPerSecond <= lease /\ t.status # "done" /\ ~HeldByOther(t, name)
      /\ tasks' = [SweptTasks EXCEPT ![id] = n]
      /\ now' = now
  BY DEF Claim
<1>2. TypeOK /\ now \in Nat /\ t \in Task /\ tasks[id] \in Task
  BY SweptType DEF BoardInvariant, TypeOK
<1>3. lease \in Nat /\ lease > 0
  BY <1>1, BoardAssumption, LeaseTicks
<1>4. /\ DOMAIN tasks' = DOMAIN tasks /\ tasks'[id] = n
      /\ \A i \in DOMAIN tasks \ {id} : tasks'[i] = SweptTasks[i]
  BY <1>1 DEF SweptTasks
<1>5. /\ n.assignee = name /\ n.status = "in_progress"
      /\ n.leaseExpires = now + lease
  BY <1>2 DEF Task
<1>6. LeaseOf(n) = [holder |-> name, until |-> now + lease, open |-> TRUE]
  <2>1. Leased(n)
    BY <1>2, <1>3, <1>5 DEF Leased, NoLease
  <2> QED
    BY <1>5, <2>1 DEF LeaseOf
<1>7. LeaseOf(tasks[id]).open
  <2>1. CASE Expired(tasks[id])
    BY <2>1 DEF Expired, LeaseOf
  <2>2. CASE ~Expired(tasks[id])
    BY <1>1, <2>2 DEF SweptTasks, LeaseOf
  <2> QED
    BY <2>1, <2>2
<1>8. Service!Settled(LeaseOf(tasks[id])).holder \in {Nobody, name}
  <2>1. LeaseOf(t).holder \in {Nobody, name}
    BY <1>1 DEF LeaseOf, HeldByOther
  <2> QED
    BY <2>1, SettledIsSwept
<1>9. Service!SettledExcept({id})
  BY <1>4, OthersSettled
<1>10. now + lease > now
  BY <1>2, <1>3
<1> QED
  <2> HIDE DEF n, lease
  <2> QED
    BY <1>1, <1>4, <1>6, <1>7, <1>8, <1>9, <1>10 DEF Service!Grant

\* AddTask is seen as Create.
LEMMA CreateStep ==
  ASSUME BoardInvariant, NEW key \in Keys, NEW kind \in Kinds, NEW actor \in Names,
         NEW parent \in DOMAIN tasks \cup {NoTask},
         AddTask(key, kind, parent, actor)
  PROVE  \E id \in DOMAIN tasks' : Service!Create(id)
<1> DEFINE id == <<key, projects[key] + 1>>
<1>1. /\ tasks' = [i \in DOMAIN tasks \cup {id} |->
                    IF i = id THEN NewTask(kind, parent, actor) ELSE SweptTasks[i]]
      /\ key \in DOMAIN projects
      /\ now' = now
  BY DEF AddTask
<1>2. id \notin DOMAIN tasks
  <2>1. projects[key] \in Nat
    BY <1>1 DEF BoardInvariant, TypeOK
  <2>2. ~(id[2] <= projects[ProjectOf(id)])
    BY <2>1 DEF ProjectOf
  <2> HIDE DEF id
  <2> QED
    BY <2>2 DEF BoardInvariant, ValidState, ValidTask
<1> HIDE DEF id
<1>3. /\ DOMAIN tasks' = DOMAIN tasks \cup {id}
      /\ tasks'[id] = NewTask(kind, parent, actor)
      /\ \A i \in DOMAIN tasks : tasks'[i] = SweptTasks[i]
  BY <1>1, <1>2
<1>4. LeaseOf(tasks'[id]) = Service!Free(TRUE)
  <2>1. tasks'[id].leaseExpires = NoLease /\ tasks'[id].status = "todo"
    BY <1>3 DEF NewTask
  <2>2. ~Leased(tasks'[id]) /\ (tasks'[id].status # "done") = TRUE
    BY <2>1 DEF Leased
  <2> QED
    BY <2>1, <2>2 DEF LeaseOf, NoLease, Service!Free
<1>5. Service!SettledExcept({id})
  BY <1>3, OthersSettled
<1>6. Service!Create(id)
  BY <1>1, <1>2, <1>3, <1>4, <1>5 DEF Service!Create
<1> QED
  BY <1>3, <1>6

\* The lease that a heartbeat gives is never empty.
LEMMA RenewalIsLonger ==
  ASSUME NEW t \in Task, LeaseOK(t, now), Leased(t)
  PROVE  RenewedLease(t) \in Nat /\ RenewedLease(t) > 0
<1>1. t.leaseSeconds \in Nat /\ t.leaseSeconds >= 1
  BY DEF LeaseOK, Task
<1>2. TicksPerSecond \in Nat /\ TicksPerSecond >= 1
  BY BoardAssumption
<1>3. t.leaseSeconds * TicksPerSecond \in Nat /\ t.leaseSeconds * TicksPerSecond >= 1
  BY <1>1, <1>2
<1> QED
  BY <1>1, <1>3 DEF RenewedLease

\* Heartbeat is seen as Renew.
LEMMA RenewStep ==
  ASSUME BoardInvariant, NEW name \in Names, NEW task, Heartbeat(name, task)
  PROVE  Service!Renew(name)
<1> DEFINE held == {id \in DOMAIN tasks : Service!Settled(LeaseOf(tasks[id])).holder = name}
<1>1. /\ tasks' = [i \in DOMAIN tasks |-> Renewed(SweptTasks[i], name)]
      /\ now' = now
  BY DEF Heartbeat
<1>2. now \in Nat /\ name # Nobody
  BY NameAssumption DEF BoardInvariant, TypeOK
<1>3. ASSUME NEW id \in held
      PROVE  /\ LeaseOf(tasks'[id]).holder = name
             /\ LeaseOf(tasks'[id]).open = LeaseOf(tasks[id]).open
             /\ LeaseOf(tasks'[id]).until > now
  <2> DEFINE t == tasks[id]
  <2>1. /\ id \in DOMAIN tasks /\ LeaseOf(SweptTasks[id]).holder = name
        /\ t \in Task /\ LeaseOK(t, now)
    BY <1>3, SettledIsSwept DEF BoardInvariant, TypeOK, LeaseDiscipline
  <2>2. SweptTasks[id] = t
    <3>1. SweptTasks[id] # [Unassigned(t) EXCEPT !.updatedBy = SystemActor]
      BY <1>2, <2>1 DEF LeaseOf, Unassigned, Leased, Task
    <3> QED
      BY <2>1, <3>1 DEF SweptTasks
  <2>3. Leased(t) /\ t.assignee = name /\ t.status = "in_progress"
    BY <1>2, <2>1, <2>2 DEF LeaseOf, LeaseOK
  <2>4. RenewedLease(t) \in Nat /\ RenewedLease(t) > 0
    BY <2>1, <2>3, RenewalIsLonger
  <2>5. tasks'[id] = [t EXCEPT !.leaseExpires = now + RenewedLease(t)]
    BY <1>1, <2>1, <2>2, <2>3 DEF Renewed
  <2>6. /\ tasks'[id].leaseExpires = now + RenewedLease(t)
        /\ tasks'[id].assignee = name /\ tasks'[id].status = "in_progress"
    BY <2>1, <2>3, <2>5 DEF Task
  <2>7. Leased(tasks'[id])
    BY <1>2, <2>4, <2>6 DEF Leased, NoLease
  <2>8. LeaseOf(tasks'[id]) =
          [holder |-> name, until |-> now + RenewedLease(t), open |-> TRUE]
    BY <2>6, <2>7 DEF LeaseOf
  <2>9. LeaseOf(t) = [holder |-> name, until |-> t.leaseExpires, open |-> TRUE]
    BY <2>3 DEF LeaseOf
  <2>10. now + RenewedLease(t) > now
    BY <1>2, <2>4
  <2> QED
    BY <2>8, <2>9, <2>10
<1>4. ASSUME NEW id \in DOMAIN tasks \ held
      PROVE  LeaseOf(tasks'[id]) = LeaseOf(SweptTasks[id])
  <2>1. LeaseOf(SweptTasks[id]).holder # name
    BY <1>4, SettledIsSwept
  <2>2. Renewed(SweptTasks[id], name) = SweptTasks[id]
    BY <2>1 DEF LeaseOf, Renewed
  <2> QED
    BY <1>1, <2>2
<1>5. DOMAIN tasks' = DOMAIN tasks
  BY <1>1
<1>6. Service!SettledExcept(held)
  <2> HIDE DEF held
  <2> QED
    BY <1>4, <1>5, OthersSettled
<1> QED
  BY <1>1, <1>3, <1>5, <1>6 DEF Service!Renew

\* Update moves the task or edits it.
LEMMA UpdateIsSeen ==
  ASSUME BoardInvariant, NEW id \in DOMAIN tasks, NEW p \in Patches,
         NEW actor \in Names, Update(id, p, actor)
  PROVE  Service!Move(id) \/ Service!Settle
<1> DEFINE t == SweptTasks[id]
           parent == Chosen(p.parent, t.parent)
           start == Chosen(p.start, t.startDate)
           end == Chosen(p.end, t.endDate)
           status == Chosen(p.status, t.status)
           planned == [t EXCEPT !.parent = parent, !.startDate = start,
                                !.endDate = end, !.updatedBy = actor]
           n == IF status # t.status THEN Moved(planned, status) ELSE planned
<1>1. tasks' = [SweptTasks EXCEPT ![id] = n] /\ now' = now
  BY DEF Update
<1>2. t \in Task /\ DOMAIN tasks' = DOMAIN tasks /\ tasks'[id] = n
  BY <1>1, SweptType DEF BoardInvariant, SweptTasks
<1>3. CASE status # t.status
  <2>1. n.leaseExpires = NoLease
    BY <1>2, <1>3 DEF Moved, Task
  <2> HIDE DEF n
  <2> QED
    BY <1>1, <2>1, MoveStep
<1>4. CASE status = t.status
  <2>1. /\ n.leaseExpires = t.leaseExpires /\ n.assignee = t.assignee
        /\ n.status = t.status
    BY <1>2, <1>4 DEF Task
  <2>2. LeaseOf(n) = LeaseOf(t)
    <3> HIDE DEF n
    <3> QED
      BY <2>1 DEF LeaseOf, Leased
  <2>3. \A i \in DOMAIN tasks : LeaseOf(tasks'[i]) = LeaseOf(SweptTasks[i])
    <3> HIDE DEF n
    <3> QED
      BY <1>1, <1>2, <2>2 DEF SweptTasks
  <2> QED
    BY <1>1, <1>2, <2>3, SettleStep
<1> QED
  BY <1>3, <1>4

-----------------------------------------------------------------------------
\* Every operation on the board, read through LeaseOf, is a step of the lease
\* service, whatever the projects, agents, leases and patches.
THEOREM BoardImplementsLeases == Spec => ImplementsLeaseService
<1> DEFINE view == [id \in DOMAIN tasks |-> LeaseOf(tasks[id])]
<1>1. Init => Service!Init
  BY DEF Init, Service!Init
<1>2. ASSUME BoardInvariant, [Next]_vars
      PROVE  [Service!Next]_<<now, view>>
  <2>0. DOMAIN SweptTasks = DOMAIN tasks
    BY DEF SweptTasks
  <2>1. CASE UNCHANGED vars
    BY <2>1 DEF vars
  <2>2. CASE Tick
    BY <2>2 DEF Tick, Service!Next, Service!Tick
  <2>3. CASE Sweep \/ Shutdown
    <3>1. tasks' = SweptTasks /\ now' = now
      BY <2>3 DEF Sweep, Shutdown
    <3> QED
      BY <1>2, <2>0, <3>1, SettleStep DEF Service!Next
  <2>4. ASSUME NEW key \in Keys, NEW actor \in Names, CreateProject(key, actor)
        PROVE  Service!Next
    <3>1. tasks' = SweptTasks /\ now' = now
      BY <2>4 DEF CreateProject
    <3> QED
      BY <1>2, <2>0, <3>1, SettleStep DEF Service!Next
  <2>5. ASSUME NEW key \in Keys, NEW kind \in Kinds, NEW actor \in Names,
               NEW parent \in DOMAIN tasks \cup {NoTask},
               AddTask(key, kind, parent, actor)
        PROVE  Service!Next
    BY <1>2, <2>5, CreateStep DEF Service!Next
  <2>6. ASSUME NEW name \in Names, NEW id \in DOMAIN tasks \cup {NoTask},
               Heartbeat(name, id)
        PROVE  Service!Next
    BY <1>2, <2>6, RenewStep DEF Service!Next
  <2>7. ASSUME NEW id \in DOMAIN tasks, NEW name \in Names, NEW asked \in Leases,
               Claim(id, name, asked)
        PROVE  Service!Next
    BY <1>2, <2>7, GrantStep DEF Service!Next
  <2>8. ASSUME NEW id \in DOMAIN tasks, NEW name \in Names,
               Release(id, name) \/ Complete(id, name)
        PROVE  Service!Next
    <3>1. SweptTasks[id] \in Task
      BY <1>2, SweptType DEF BoardInvariant
    <3>2. PICK n : /\ tasks' = [SweptTasks EXCEPT ![id] = n] /\ now' = now
                   /\ n.leaseExpires = NoLease
      BY <2>8, <3>1 DEF Release, Complete, Unassigned, Task
    <3> QED
      BY <1>2, <3>2, MoveStep DEF Service!Next
  <2>9. ASSUME NEW id \in DOMAIN tasks, NEW name \in Names, NEW p \in Patches,
               Update(id, p, name)
        PROVE  Service!Next
    BY <1>2, <2>9, UpdateIsSeen DEF Service!Next
  <2>10. ASSUME NEW id \in DOMAIN tasks, NEW name \in Names, Comment(id, name)
         PROVE  Service!Next
    <3>1. SweptTasks[id] \in Task
      BY <1>2, SweptType DEF BoardInvariant
    <3>2. /\ tasks' = [SweptTasks EXCEPT ![id] = [@ EXCEPT !.updatedBy = name]]
          /\ now' = now
      BY <2>10 DEF Comment
    <3>3. \A i \in DOMAIN tasks : LeaseOf(tasks'[i]) = LeaseOf(SweptTasks[i])
      BY <2>0, <3>1, <3>2 DEF LeaseOf, Leased, Task
    <3> QED
      BY <1>2, <2>0, <3>2, <3>3, SettleStep DEF Service!Next
  <2> QED
    BY <1>2, <2>1, <2>2, <2>3, <2>4, <2>5, <2>6, <2>7, <2>8, <2>9, <2>10 DEF Next
<1> QED
  BY <1>1, <1>2, InvariantHolds, PTL
  DEF Spec, ImplementsLeaseService, Service!Spec, Service!serviceVars
=============================================================================
