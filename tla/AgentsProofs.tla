---------------------------- MODULE AgentsProofs ----------------------------
(***************************************************************************)
(* Proofs about Agents, for any agents, tasks, lease and save mode, and    *)
(* for any number of lost replies, late requests, failed saves, crashes    *)
(* and restarts: agents that work on a task exclude each other, a task     *)
(* that its agent was told is done stays done, and in sync mode it is on   *)
(* disk.                                                                   *)
(*                                                                         *)
(* The argument is about one task at a time, and about what an agent does  *)
(* not know yet: a reply on its way must already be as true of the board   *)
(* as what the agent will make of it.                                      *)
(***************************************************************************)
EXTENDS Agents, TLAPS

-----------------------------------------------------------------------------
(* The inductive invariant.                                                *)

\* A task is leased exactly while it is in progress, by somebody; a task that
\* is to do belongs to nobody.
Settled(t) ==
  /\ Leased(t) <=> t.status = "in_progress"
  /\ t.status = "todo" => t.assignee = Nobody
  /\ t.status = "in_progress" => t.assignee # Nobody

\* The board in memory and the one on disk keep to the lease rules.
RulesKept == \A id \in Work : Settled(tasks[id]) /\ Settled(saved[id])

\* A request was sent in the past.  An agent that has asked to release or to
\* finish a task does not believe to hold it.
ModestRequests ==
  \A a \in Workers :
    /\ req[a].r.sent <= now
    /\ req[a].r.op \in {"release", "done"} => believed[a][req[a].r.id] = 0

\* The reply to an operation of a on the task is on its way, or its request.
Pending(a, at, op, id) == req[a].at = at /\ req[a].r.op = op /\ req[a].r.id = id

\* If the time u is in the future, the board grants a the task until u.
Covered(a, id, u) ==
  u > now => tasks[id].assignee = a /\ tasks[id].leaseExpires >= u

\* What an agent believes, or will believe when it reads the reply that is on
\* its way, is covered.
BeliefCovered(id) ==
  \A a \in Workers :
    /\ Covered(a, id, believed[a][id])
    /\ Pending(a, "ok", "claim", id) => Covered(a, id, req[a].until)
    /\ (Pending(a, "ok", "heartbeat", id) /\ believed[a][id] > req[a].r.sent)
         => Covered(a, id, req[a].r.sent + Lease)

\* A lease lasts no longer than a lease granted now, so a renewal never
\* shortens one; nobody has put the task up for review.
Ordinary(id) ==
  tasks[id].leaseExpires <= now + Lease /\ tasks[id].status # "review"

\* Who finished the task does not believe to hold it, nor is about to.
FinisherKnows(id) ==
  \A a \in Workers :
    (tasks[id].status = "done" /\ tasks[id].assignee = a)
      => believed[a][id] = 0 /\ ~Pending(a, "ok", "claim", id)

DoneAndSaved(id) ==
  tasks[id].status = "done" /\ (mode = "sync" => saved[id].status = "done")

\* Who is being told that the task is done has it; and when somebody was told,
\* no release that is on its way will be accepted.
OutcomeKept(id) ==
  /\ id \in told => DoneAndSaved(id)
  /\ \A a \in Workers :
       /\ Pending(a, "ok", "done", id) => DoneAndSaved(id) /\ tasks[id].assignee = a
       /\ id \in told /\ Pending(a, "sent", "release", id) => tasks[id].assignee # a

TaskInv(id) ==
  Ordinary(id) /\ BeliefCovered(id) /\ FinisherKnows(id) /\ OutcomeKept(id)

AgentsInv ==
  /\ TypeOK /\ RulesKept /\ ModestRequests
  /\ \A id \in Work \ disturbed : TaskInv(id)

-----------------------------------------------------------------------------
(* What an operation does to one task.                                     *)

\* A sweep leaves a task alone or frees it when its lease has ended.
LEMMA SweptAt ==
  ASSUME TypeOK, RulesKept, NEW id \in Work
  PROVE  /\ Swept[id] \in Task /\ Settled(Swept[id])
         /\ \/ Swept[id] = tasks[id]
            \/ /\ Swept[id] = Free
               /\ tasks[id].status = "in_progress" /\ tasks[id].leaseExpires <= now
<1>1. tasks[id] \in Task /\ Settled(tasks[id])
  BY DEF TypeOK, RulesKept
<1>2. Free \in Task /\ Settled(Free)
  BY AgentsAssumption DEF Free, Task, Statuses, Settled, Leased, NoLease
<1>3. Swept[id] = IF Expired(tasks[id]) THEN Free ELSE tasks[id]
  BY DEF Swept
<1>4. CASE Expired(tasks[id])
  BY <1>2, <1>3, <1>4 DEF Expired
<1>5. CASE ~Expired(tasks[id])
  BY <1>1, <1>3, <1>5
<1> QED
  BY <1>4, <1>5

Claimed(a) == [status |-> "in_progress", assignee |-> a, leaseExpires |-> now + Lease]

Finished(a, t) ==
  [status |-> "done", leaseExpires |-> NoLease,
   assignee |-> IF t.assignee = Nobody THEN a ELSE t.assignee]

Renewed(t) == [t EXCEPT !.leaseExpires = now + Lease]

\* The ways in which a's request r can change the task id, from t to u.
Effect(a, r, id, t, u) ==
  \/ u = t
  \/ /\ r.op = "claim" /\ r.id = id
     /\ t.status # "done" /\ ~HeldByOther(t, a) /\ u = Claimed(a)
  \/ r.op = "release" /\ r.id = id /\ t.assignee = a /\ u = Free
  \/ /\ r.op = "done" /\ r.id = id
     /\ t.status # "done" /\ ~HeldByOther(t, a) /\ u = Finished(a, t)
  \/ /\ r.op = "heartbeat"
     /\ t.assignee = a /\ t.status = "in_progress" /\ Leased(t) /\ u = Renewed(t)

\* The request gives the task back or finishes it.
Ends(r, id) == r.op \in {"release", "done"} /\ r.id = id
Releases(r, id) == r.op = "release" /\ r.id = id

\* What an accepted request has achieved for the task it names.
Achieved(a, r, t, u) ==
  /\ r.op = "claim" => u = Claimed(a) /\ t.status # "done" /\ ~HeldByOther(t, a)
  /\ r.op = "done" => u = Finished(a, t) /\ t.status # "done" /\ ~HeldByOther(t, a)
  /\ r.op = "release" => t.assignee = a
  /\ r.op = "heartbeat" =>
       /\ t.assignee = a
       /\ t.status = "in_progress" /\ Leased(t) => u = Renewed(t)

\* Every request keeps to these.
LEMMA OutcomeAt ==
  ASSUME TypeOK, RulesKept, NEW a \in Workers, NEW r \in Requests, NEW id \in Work
  PROVE  /\ Effect(a, r, id, Swept[id], Outcome(a, r)[id])
         /\ Accepted(a, r) => Achieved(a, r, Swept[r.id], Outcome(a, r)[r.id])
<1> DEFINE t == Swept[r.id]
           renewed(u) == IF u.assignee = a /\ u.status = "in_progress" /\ Leased(u)
                           THEN [u EXCEPT !.leaseExpires = now + Lease] ELSE u
<1>0. r.id \in Work /\ r.op \in {"claim", "release", "done", "heartbeat"}
  BY DEF Requests, Ops
<1>1. Swept = [i \in Work |-> Swept[i]]
  BY DEF Swept
<1>2. CASE ~Accepted(a, r)
  <2>1. Outcome(a, r) = Swept
    BY <1>2 DEF Outcome
  <2> QED
    BY <1>2, <2>1 DEF Effect
<1>3. CASE Accepted(a, r) /\ r.op = "claim"
  <2>1. t.status # "done" /\ ~HeldByOther(t, a)
    BY <1>3 DEF Accepted
  <2>2. Outcome(a, r) = [Swept EXCEPT ![r.id] = Claimed(a)]
    BY <1>3 DEF Outcome, Claimed
  <2> HIDE DEF t
  <2>3. \A i \in Work : Outcome(a, r)[i] = IF i = r.id THEN Claimed(a) ELSE Swept[i]
    BY <1>1, <2>2
  <2> QED
    BY <1>0, <1>3, <2>1, <2>3 DEF Effect, Achieved, t
<1>4. CASE Accepted(a, r) /\ r.op = "release"
  <2>1. t.assignee = a
    BY <1>4 DEF Accepted
  <2>2. Outcome(a, r) = [Swept EXCEPT ![r.id] = Free]
    BY <1>4 DEF Outcome
  <2> HIDE DEF t
  <2>3. \A i \in Work : Outcome(a, r)[i] = IF i = r.id THEN Free ELSE Swept[i]
    BY <1>1, <2>2
  <2> QED
    BY <1>0, <1>4, <2>1, <2>3 DEF Effect, Achieved, t
<1>5. CASE Accepted(a, r) /\ r.op = "done"
  <2>1. t.status # "done" /\ ~HeldByOther(t, a)
    BY <1>5 DEF Accepted
  <2>2. Outcome(a, r) = [Swept EXCEPT ![r.id] = Finished(a, t)]
    BY <1>5 DEF Outcome, Finished
  <2> HIDE DEF t
  <2>3. \A i \in Work : Outcome(a, r)[i] = IF i = r.id THEN Finished(a, t) ELSE Swept[i]
    BY <1>1, <2>2
  <2> QED
    BY <1>0, <1>5, <2>1, <2>3 DEF Effect, Achieved, t
<1>6. CASE Accepted(a, r) /\ r.op = "heartbeat"
  <2>1. t.assignee = a
    BY <1>6 DEF Accepted
  <2>2. Outcome(a, r) = [i \in Work |-> renewed(Swept[i])]
    BY <1>6 DEF Outcome
  <2> HIDE DEF t
  <2>3. \A i \in Work : Outcome(a, r)[i] = renewed(Swept[i])
    BY <2>2
  <2> QED
    BY <1>0, <1>6, <2>1, <2>3 DEF Effect, Achieved, Renewed, t
<1> QED
  BY <1>0, <1>2, <1>3, <1>4, <1>5, <1>6

\* An effect keeps to the lease rules.
LEMMA EffectSettled ==
  ASSUME now \in Nat, NEW a \in Workers, NEW r, NEW id,
         NEW t \in Task, Settled(t), NEW u, Effect(a, r, id, t, u)
  PROVE  u \in Task /\ Settled(u)
<1> USE AgentsAssumption
<1>1. now + Lease \in Nat /\ now + Lease # NoLease /\ NoLease \in Nat
  BY DEF NoLease
<1>2. /\ t.status \in Statuses /\ t.assignee \in Workers \cup {Nobody} /\ t.leaseExpires \in Nat
      /\ t = [status |-> t.status, assignee |-> t.assignee, leaseExpires |-> t.leaseExpires]
  BY DEF Task
<1>3. CASE u = t
  BY <1>3
<1>4. CASE u = Claimed(a)
  BY <1>1, <1>4 DEF Claimed, Task, Statuses, Settled, Leased
<1>5. CASE u = Free
  BY <1>1, <1>5 DEF Free, Task, Statuses, Settled, Leased
<1>6. CASE u = Finished(a, t)
  BY <1>1, <1>2, <1>6 DEF Finished, Task, Statuses, Settled, Leased
<1>7. CASE u = Renewed(t) /\ t.status = "in_progress"
  BY <1>1, <1>2, <1>7 DEF Renewed, Task, Statuses, Settled, Leased
<1> QED
  BY <1>3, <1>4, <1>5, <1>6, <1>7 DEF Effect

\* Every request leaves tasks that keep to the lease rules.
LEMMA OutcomeSettled ==
  ASSUME TypeOK, RulesKept, NEW a \in Workers, NEW r \in Requests
  PROVE  /\ Outcome(a, r) \in [Work -> Task]
         /\ \A id \in Work : Settled(Outcome(a, r)[id])
<1>1. \A id \in Work : Outcome(a, r)[id] \in Task /\ Settled(Outcome(a, r)[id])
  BY SweptAt, OutcomeAt, EffectSettled DEF TypeOK
<1>2. Outcome(a, r) = [id \in Work |-> Outcome(a, r)[id]]
  BY DEF Outcome, Swept, Requests, Ops
<1> QED
  BY <1>1, <1>2

\* No request takes a task from an agent that is covered, except a release or a
\* completion of its own.
LEMMA EffectCovers ==
  ASSUME TypeOK, RulesKept, NEW id \in Work, Ordinary(id),
         NEW a, NEW r, NEW v, Effect(a, r, id, Swept[id], v),
         NEW b \in Workers, NEW u \in Nat, Covered(b, id, u), u > now,
         Ends(r, id) => a # b
  PROVE  v.assignee = b /\ v.leaseExpires >= u
<1> USE AgentsAssumption
<1>1. /\ tasks[id] \in Task /\ now \in Nat /\ tasks[id].assignee = b
      /\ tasks[id].leaseExpires >= u /\ tasks[id].leaseExpires <= now + Lease
      /\ tasks[id].leaseExpires \in Nat
  BY DEF TypeOK, Covered, Ordinary, Task
<1>2. Swept[id] = tasks[id] /\ Leased(tasks[id]) /\ b # Nobody
  BY <1>1, SweptAt DEF Leased, NoLease, Task
<1>3. Ends(r, id) => v = tasks[id]
  BY <1>1, <1>2 DEF Effect, HeldByOther, Ends
<1>4. CASE v = tasks[id]
  BY <1>1, <1>4
<1>5. CASE v = Claimed(a) /\ ~HeldByOther(tasks[id], a)
  BY <1>1, <1>2, <1>5 DEF Claimed, HeldByOther
<1>6. CASE v = Renewed(tasks[id]) /\ tasks[id].assignee = a
  BY <1>1, <1>2, <1>6 DEF Renewed, Task
<1> QED
  BY <1>2, <1>3, <1>4, <1>5, <1>6 DEF Effect, Ends

\* An ordinary task stays ordinary.
LEMMA EffectOrdinary ==
  ASSUME TypeOK, RulesKept, NEW id \in Work, Ordinary(id),
         NEW a, NEW r, NEW v, Effect(a, r, id, Swept[id], v)
  PROVE  v.leaseExpires <= now + Lease /\ v.status # "review"
<1> USE AgentsAssumption
<1>1. now \in Nat /\ Swept[id] \in Task
  BY SweptAt DEF TypeOK
<1>2. Swept[id].leaseExpires <= now + Lease /\ Swept[id].status # "review"
  BY <1>1, SweptAt DEF Ordinary, Free, NoLease
<1> QED
  BY <1>1, <1>2 DEF Effect, Claimed, Free, Finished, Renewed, NoLease, Task

\* A finished task changes only when who finished it releases it.
LEMMA EffectOnDone ==
  ASSUME TypeOK, RulesKept, NEW id \in Work, tasks[id].status = "done",
         NEW a, NEW r, NEW v, Effect(a, r, id, Swept[id], v)
  PROVE  \/ v = tasks[id]
         \/ Releases(r, id) /\ tasks[id].assignee = a /\ v = Free
<1>1. Swept[id] = tasks[id]
  BY SweptAt
<1> QED
  BY <1>1 DEF Effect, Releases

\* A task is finished by the agent it then shows.
LEMMA EffectFinishes ==
  ASSUME TypeOK, RulesKept, NEW id \in Work, Ordinary(id),
         NEW a, NEW r, NEW v, Effect(a, r, id, Swept[id], v),
         v.status = "done", tasks[id].status # "done"
  PROVE  r.op = "done" /\ r.id = id /\ v.assignee = a
<1>1. /\ Swept[id] \in Task /\ Settled(Swept[id])
      /\ Swept[id].status \notin {"done", "review"}
  BY SweptAt DEF Ordinary, Free
<1>2. v # Swept[id] /\ v # Claimed(a) /\ v # Free
  BY <1>1 DEF Claimed, Free
<1>3. v = Renewed(Swept[id]) => v.status = Swept[id].status
  BY <1>1 DEF Renewed, Task
<1>4. r.op = "done" /\ r.id = id /\ ~HeldByOther(Swept[id], a) /\ v = Finished(a, Swept[id])
  BY <1>1, <1>2, <1>3 DEF Effect
<1>5. Swept[id].assignee \in {a, Nobody}
  BY <1>1, <1>4 DEF HeldByOther, Settled, Leased, Task, Statuses
<1> QED
  BY <1>4, <1>5 DEF Finished

-----------------------------------------------------------------------------
(* Every step keeps the types and the lease rules.                         *)

\* Where a save puts what.
LEMMA PersistEffect ==
  ASSUME TypeOK, NEW ok \in BOOLEAN, Persist(ok)
  PROVE  /\ saved' \in {saved, tasks'} /\ faults' \in 0..MaxFaults
         /\ ok /\ mode = "sync" => saved' = tasks'
BY AgentsAssumption DEF Persist, Fault, TypeOK

\* The board in memory, and with it the one on disk, keep to the lease rules.
LEMMA TasksStep ==
  ASSUME TypeOK, RulesKept, Step
  PROVE  /\ tasks' \in [Work -> Task] /\ saved' \in [Work -> Task]
         /\ RulesKept' /\ faults' \in 0..MaxFaults
<1> USE AgentsAssumption
<1> DEFINE Good(ts) == ts \in [Work -> Task] /\ \A id \in Work : Settled(ts[id])
<1>1. Good(tasks) /\ Good(saved) /\ faults \in 0..MaxFaults
  BY DEF TypeOK, RulesKept
<1>2. Good(Swept)
  <2>1. Swept = [id \in Work |-> Swept[id]]
    BY DEF Swept
  <2> QED
    BY <2>1, SweptAt
<1>3. SUFFICES Good(tasks') /\ saved' \in {saved, tasks, tasks'} /\ faults' \in 0..MaxFaults
  BY <1>1, <1>3 DEF RulesKept
<1> HIDE DEF Good
<1>4. ASSUME NEW a \in Workers, Serve(a)
      PROVE  Good(tasks') /\ saved' \in {saved, tasks, tasks'} /\ faults' \in 0..MaxFaults
  <2>1. req[a].r \in Requests
    BY <1>4 DEF Serve, TypeOK, Idle, Call, Calls
  <2>2. PICK ok \in BOOLEAN : tasks' = Outcome(a, req[a].r) /\ Persist(ok)
    BY <1>4 DEF Serve, Answer
  <2> QED
    BY <2>1, <2>2, OutcomeSettled, PersistEffect DEF Good
<1>5. ASSUME NEW d \in adrift, ServeAdrift(d)
      PROVE  Good(tasks') /\ saved' \in {saved, tasks, tasks'} /\ faults' \in 0..MaxFaults
  <2>1. d.agent \in Workers /\ d.r \in Requests
    BY DEF TypeOK
  <2>2. tasks' = Outcome(d.agent, d.r) /\ Persist(TRUE)
    BY <1>5 DEF ServeAdrift
  <2> QED
    BY <2>1, <2>2, OutcomeSettled, PersistEffect DEF Good
<1>6. ASSUME NEW i \in Work, NEW s \in {"todo", "review"}, MoveTask(i, s)
      PROVE  Good(tasks') /\ saved' \in {saved, tasks, tasks'} /\ faults' \in 0..MaxFaults
  <2> DEFINE u == [status |-> s, leaseExpires |-> NoLease,
                   assignee |-> IF s = "todo" THEN Nobody ELSE Swept[i].assignee]
  <2>1. tasks' = [Swept EXCEPT ![i] = u] /\ Persist(TRUE)
    BY <1>6 DEF MoveTask
  <2>2. u \in Task /\ Settled(u)
    BY <1>2 DEF Good, Task, Statuses, Settled, Leased, NoLease
  <2> HIDE DEF u
  <2>3. Good(tasks')
    BY <1>2, <2>1, <2>2 DEF Good
  <2> QED
    BY <2>1, <2>3, PersistEffect
<1>7. CASE Sweep
  BY <1>2, <1>7, PersistEffect DEF Sweep
<1>8. CASE Crash \/ Restart
  BY <1>1, <1>2, <1>8 DEF Crash, Restart, Fault
<1>9. CASE Tick \/ WriterSaves
  BY <1>1, <1>9 DEF Tick, WriterSaves
<1>10. ASSUME NEW a \in Workers, \E op \in Ops, id \in Work : Send(a, op, id)
       PROVE  Good(tasks') /\ saved' \in {saved, tasks, tasks'} /\ faults' \in 0..MaxFaults
  BY <1>1, <1>10 DEF Send
<1>11. ASSUME NEW a \in Workers, Receive(a) \/ GiveUp(a)
       PROVE  Good(tasks') /\ saved' \in {saved, tasks, tasks'} /\ faults' \in 0..MaxFaults
  <2>1. tasks' = tasks /\ saved' = saved
    BY <1>11 DEF Receive, GiveUp
  <2>2. faults' \in 0..MaxFaults
    BY <1>1, <1>11 DEF Receive, GiveUp, Fault
  <2> QED
    BY <1>1, <2>1, <2>2
<1> QED
  BY <1>4, <1>5, <1>6, <1>7, <1>8, <1>9, <1>10, <1>11 DEF Step

\* Every step keeps the types.
LEMMA TypeStep ==
  ASSUME TypeOK, RulesKept, Step
  PROVE  TypeOK'
<1> USE AgentsAssumption
<1>1. tasks' \in [Work -> Task] /\ saved' \in [Work -> Task] /\ faults' \in 0..MaxFaults
  BY TasksStep
<1>2. Idle.r = NoRequest /\ Idle.at = "idle"
  BY DEF Idle, Call
<1>3. \A a \in Workers : req[a] = Idle \/ req[a] \in Calls
  BY DEF TypeOK
<1>4. SUFFICES /\ now' \in Nat /\ mode' \in Modes
               /\ req' \in [Workers -> {Idle} \cup Calls]
               /\ believed' \in [Workers -> [Work -> Nat]]
               /\ adrift' \subseteq [agent : Workers, r : Requests]
               /\ told' \subseteq Work /\ disturbed' \subseteq Work
  BY <1>1, <1>4 DEF TypeOK
<1>5. ASSUME NEW a \in Workers, NEW op \in Ops, NEW id \in Work, Send(a, op, id)
      PROVE  /\ req' \in [Workers -> {Idle} \cup Calls]
             /\ believed' \in [Workers -> [Work -> Nat]]
             /\ told' \subseteq Work
             /\ UNCHANGED <<now, mode, adrift, disturbed>>
  <2>1. Request(op, id) \in Requests
    BY DEF Request, Requests, TypeOK
  <2>2. Call(Request(op, id), "sent", 0) \in Calls
    BY <2>1 DEF Call, Calls
  <2>3. req' \in [Workers -> {Idle} \cup Calls]
    BY <1>5, <2>2 DEF Send, TypeOK
  <2>4. believed' \in [Workers -> [Work -> Nat]]
    BY <1>5 DEF Send, TypeOK
  <2> QED
    BY <1>5, <2>3, <2>4 DEF Send, TypeOK
<1>6. ASSUME NEW a \in Workers, Receive(a)
      PROVE  /\ req' \in [Workers -> {Idle} \cup Calls]
             /\ believed' \in [Workers -> [Work -> Nat]]
             /\ told' \subseteq Work
             /\ UNCHANGED <<now, mode, adrift, disturbed>>
  <2>1. req[a] \in Calls
    BY <1>2, <1>3, <1>6 DEF Receive
  <2>2. req[a].r.id \in Work /\ req[a].r.sent + Lease \in Nat /\ req[a].until \in Nat
    BY <2>1 DEF Calls, Requests
  <2>3. req' \in [Workers -> {Idle} \cup Calls]
    BY <1>6 DEF Receive, TypeOK
  <2>4. \/ believed' = believed
        \/ \E n \in Nat : believed' = [believed EXCEPT ![a][req[a].r.id] = n]
    BY <1>6, <2>2 DEF Receive
  <2>5. believed' \in [Workers -> [Work -> Nat]]
    BY <2>2, <2>4 DEF TypeOK
  <2> QED
    BY <1>6, <2>2, <2>3, <2>5 DEF Receive, TypeOK
<1>7. ASSUME NEW a \in Workers, GiveUp(a)
      PROVE  /\ req' \in [Workers -> {Idle} \cup Calls]
             /\ adrift' \subseteq [agent : Workers, r : Requests]
             /\ UNCHANGED <<now, mode, believed, told, disturbed>>
  <2>1. req[a].r \in Requests
    BY <1>3, <1>7 DEF GiveUp, Calls
  <2>2. adrift' \subseteq [agent : Workers, r : Requests]
    BY <1>7, <2>1 DEF GiveUp, TypeOK
  <2> QED
    BY <1>7, <2>2 DEF GiveUp, TypeOK
<1>8. ASSUME NEW a \in Workers, Serve(a)
      PROVE  /\ req' \in [Workers -> {Idle} \cup Calls]
             /\ UNCHANGED <<now, mode, believed, adrift, told, disturbed>>
  <2>1. req[a].r \in Requests
    BY <1>2, <1>3, <1>8 DEF Serve, Calls
  <2>2. tasks'[req[a].r.id].leaseExpires \in Nat
    BY <1>1, <2>1 DEF Requests, Task
  <2>3. PICK c : c \in Calls /\ req' = [req EXCEPT ![a] = c]
    BY <1>8, <2>1, <2>2 DEF Serve, Answer, Call, Calls
  <2> QED
    BY <1>8, <2>3 DEF Serve, TypeOK
<1>9. ASSUME NEW d \in adrift, ServeAdrift(d)
      PROVE  /\ adrift' \subseteq adrift /\ disturbed' \subseteq Work
             /\ UNCHANGED <<now, mode, req, believed, told>>
  <2>1. d.r.id \in Work
    BY DEF TypeOK, Requests
  <2> QED
    BY <1>9, <2>1 DEF ServeAdrift, sides, TypeOK
<1>10. ASSUME NEW i \in Work, NEW s \in {"todo", "review"}, MoveTask(i, s)
       PROVE  disturbed' \subseteq Work /\ UNCHANGED <<now, mode, req, believed, told, adrift>>
  BY <1>10 DEF MoveTask, sides, TypeOK
<1>11. CASE Sweep \/ WriterSaves
  BY <1>11 DEF Sweep, WriterSaves, sides, TypeOK
<1>12. CASE Tick
  BY <1>12 DEF Tick, sides, TypeOK
<1>13. CASE Crash \/ Restart
  <2>1. CutOff \in [Workers -> {Idle} \cup Calls]
    BY <1>2, <1>3 DEF CutOff, Call, Calls
  <2>2. /\ req' = CutOff /\ adrift' = {} /\ disturbed' \subseteq Work
        /\ UNCHANGED <<now, mode, believed, told>>
    BY <1>13 DEF Crash, Restart, TypeOK
  <2> QED
    BY <2>1, <2>2 DEF TypeOK
<1>14. now \in Nat /\ mode \in Modes /\ req \in [Workers -> {Idle} \cup Calls]
       /\ believed \in [Workers -> [Work -> Nat]]
       /\ adrift \subseteq [agent : Workers, r : Requests]
       /\ told \subseteq Work /\ disturbed \subseteq Work
  BY DEF TypeOK
<1> QED
  BY <1>5, <1>6, <1>7, <1>8, <1>9, <1>10, <1>11, <1>12, <1>13, <1>14 DEF Step

\* Every step keeps the requests modest.
LEMMA ModestStep ==
  ASSUME TypeOK, ModestRequests, Step
  PROVE  ModestRequests'
<1> USE AgentsAssumption
<1>1. Idle.r.sent = 0 /\ Idle.r.op = "none"
  BY DEF Idle, Call, NoRequest
<1>2. \A a \in Workers : req[a] = Idle \/ req[a] \in Calls
  BY DEF TypeOK
<1>3. now \in Nat /\ \A a \in Workers : req[a].r.sent <= now
  BY DEF TypeOK, ModestRequests
<1>4. ASSUME NEW a \in Workers, NEW op \in Ops, NEW id \in Work, Send(a, op, id)
      PROVE  ModestRequests'
  <2>1. /\ req' = [req EXCEPT ![a] = Call(Request(op, id), "sent", 0)]
        /\ now' = now /\ Request(op, id).sent <= now
    BY <1>3, <1>4 DEF Send, Request
  <2>2. ASSUME NEW b \in Workers
        PROVE  /\ req[b].r.sent <= now /\ req'[b].r.sent <= now
               /\ req'[b].r.op \in {"release", "done"} => believed'[b][req'[b].r.id] = 0
    <3>1. CASE b = a
      BY <1>3, <1>4, <2>1, <3>1 DEF Send, TypeOK, Call, Request
    <3>2. CASE b # a
      BY <1>3, <1>4, <2>1, <3>2 DEF Send, TypeOK, ModestRequests
    <3> QED
      BY <3>1, <3>2
  <2> QED
    BY <2>1, <2>2 DEF ModestRequests
<1>5. ASSUME NEW a \in Workers, Receive(a)
      PROVE  ModestRequests'
  <2>1. req' = [req EXCEPT ![a] = Idle] /\ now' = now
    BY <1>5 DEF Receive
  <2>2. \A b \in Workers \ {a} : believed'[b] = believed[b] /\ req'[b] = req[b]
    BY <1>5, <2>1 DEF Receive, TypeOK
  <2>3. req'[a] = Idle
    BY <2>1 DEF TypeOK
  <2> QED
    BY <1>1, <1>3, <2>1, <2>2, <2>3 DEF ModestRequests
<1>6. ASSUME NEW a \in Workers, GiveUp(a)
      PROVE  ModestRequests'
  <2>1. req' = [req EXCEPT ![a] = Idle] /\ now' = now /\ believed' = believed
    BY <1>6 DEF GiveUp
  <2> QED
    BY <1>1, <1>3, <2>1 DEF ModestRequests, TypeOK
<1>7. ASSUME NEW a \in Workers, Serve(a)
      PROVE  ModestRequests'
  <2>1. PICK at, n : req' = [req EXCEPT ![a] = Call(req[a].r, at, n)]
    BY <1>7 DEF Serve, Answer
  <2>2. \A b \in Workers : req'[b].r = req[b].r
    BY <2>1 DEF Call, TypeOK
  <2>3. now' = now /\ believed' = believed
    BY <1>7 DEF Serve
  <2> QED
    BY <2>2, <2>3 DEF ModestRequests
<1>8. CASE Crash \/ Restart
  <2>1. \A b \in Workers : req'[b].r = req[b].r
    BY <1>8 DEF Crash, Restart, CutOff, Call
  <2>2. now' = now /\ believed' = believed
    BY <1>8 DEF Crash, Restart
  <2> QED
    BY <2>1, <2>2 DEF ModestRequests
<1>9. CASE Tick
  <2>1. \A b \in Workers : req[b].r.sent \in Nat
    BY <1>1, <1>2 DEF Calls, Requests
  <2> QED
    BY <1>3, <1>9, <2>1 DEF Tick, sides, ModestRequests
<1>10. CASE (\E d \in adrift : ServeAdrift(d)) \/ Sweep \/ WriterSaves
            \/ \E i \in Work, s \in {"todo", "review"} : MoveTask(i, s)
  BY <1>10 DEF ServeAdrift, MoveTask, Sweep, WriterSaves, sides, ModestRequests
<1> QED
  BY <1>4, <1>5, <1>6, <1>7, <1>8, <1>9, <1>10 DEF Step

-----------------------------------------------------------------------------
(* Every step keeps what is known of an undisturbed task.                  *)

\* A step in which agents learn nothing about the task and which does to it
\* nothing, or what a request that neither releases nor finishes it does.
LEMMA QuietStep ==
  ASSUME TypeOK, RulesKept, NEW id \in Work, TaskInv(id), TypeOK',
         UNCHANGED <<now, mode, believed, told>>,
         \A b \in Workers : req'[b] = req[b] \/ req'[b].at = "failed",
         saved'[id] \in {saved[id], tasks'[id]},
         \/ tasks'[id] = tasks[id]
         \/ \E a, r : /\ Effect(a, r, id, Swept[id], tasks'[id])
                      /\ ~Ends(r, id)
  PROVE  TaskInv(id)'
<1> USE AgentsAssumption
<1>0. /\ now \in Nat /\ Ordinary(id)
      /\ \A b \in Workers : believed[b][id] \in Nat /\ req[b].until \in Nat
                              /\ req[b].r.sent + Lease \in Nat
  <2>1. \A b \in Workers : req[b] = Idle \/ req[b] \in Calls
    BY DEF TypeOK
  <2>2. \A b \in Workers : req[b].until \in Nat /\ req[b].r.sent \in Nat
    BY <2>1 DEF Idle, Call, NoRequest, Calls, Requests
  <2> QED
    BY <2>2 DEF TypeOK, TaskInv
<1>1. Ordinary(id)'
  BY <1>0, EffectOrdinary DEF Ordinary
<1>2. ASSUME NEW b \in Workers, NEW u \in Nat, Covered(b, id, u), u > now
      PROVE  tasks'[id].assignee = b /\ tasks'[id].leaseExpires >= u
  <2>1. CASE tasks'[id] = tasks[id]
    BY <1>2, <2>1 DEF Covered
  <2>2. ASSUME NEW a, NEW r, Effect(a, r, id, Swept[id], tasks'[id]),
               ~Ends(r, id)
        PROVE  tasks'[id].assignee = b /\ tasks'[id].leaseExpires >= u
    BY <1>0, <1>2, <2>2, EffectCovers
  <2> QED
    BY <2>1, <2>2
<1>3. \A b \in Workers, at \in {"ok", "sent"} : \A op : Pending(b, at, op, id)' =>
        Pending(b, at, op, id) /\ req'[b] = req[b]
  BY DEF Pending
<1>4. BeliefCovered(id)'
  <2>1. \A b \in Workers, u \in Nat : Covered(b, id, u) => Covered(b, id, u)'
    BY <1>2 DEF Covered
  <2>2. SUFFICES ASSUME NEW b \in Workers
                 PROVE  /\ Covered(b, id, believed[b][id])'
                        /\ Pending(b, "ok", "claim", id)' => Covered(b, id, req[b].until)'
                        /\ (Pending(b, "ok", "heartbeat", id)' /\ believed[b][id] > req'[b].r.sent)
                             => Covered(b, id, req[b].r.sent + Lease)'
    BY <2>2 DEF BeliefCovered
  <2>3. BeliefCovered(id)
    BY DEF TaskInv
  <2>4. Covered(b, id, believed[b][id])'
    BY <1>0, <2>1, <2>3 DEF BeliefCovered, Covered
  <2>5. Pending(b, "ok", "claim", id)' => Covered(b, id, req[b].until)'
    BY <1>0, <1>3, <2>1, <2>3 DEF BeliefCovered, Covered
  <2>6. (Pending(b, "ok", "heartbeat", id)' /\ believed[b][id] > req'[b].r.sent)
          => Covered(b, id, req[b].r.sent + Lease)'
    BY <1>0, <1>3, <2>1, <2>3 DEF BeliefCovered, Covered
  <2> QED
    BY <2>4, <2>5, <2>6
<1>5. ASSUME tasks[id].status = "done" PROVE tasks'[id] = tasks[id]
  <2>1. ASSUME NEW a, NEW r, Effect(a, r, id, Swept[id], tasks'[id]),
               ~Ends(r, id)
        PROVE  tasks'[id] = tasks[id]
    <3>1. \/ tasks'[id] = tasks[id]
          \/ Releases(r, id) /\ tasks[id].assignee = a /\ tasks'[id] = Free
      BY <1>5, <2>1, EffectOnDone
    <3> QED
      BY <2>1, <3>1 DEF Ends, Releases
  <2> QED
    BY <2>1
<1>6. ASSUME tasks'[id].status = "done" PROVE tasks[id].status = "done"
  <2>1. ASSUME NEW a, NEW r, Effect(a, r, id, Swept[id], tasks'[id]),
               ~Ends(r, id)
        PROVE  tasks[id].status = "done"
    BY <1>0, <1>6, <2>1, EffectFinishes DEF Ends
  <2> QED
    BY <1>6, <2>1
<1>7. FinisherKnows(id)'
  BY <1>3, <1>5, <1>6 DEF FinisherKnows, TaskInv
<1>8. DoneAndSaved(id) => DoneAndSaved(id)'
  BY <1>5 DEF DoneAndSaved
<1>9. OutcomeKept(id)'
  <2>1. OutcomeKept(id)
    BY DEF TaskInv
  <2>2. id \in told => DoneAndSaved(id)'
    BY <1>8, <2>1 DEF OutcomeKept
  <2>3. SUFFICES ASSUME NEW b \in Workers
                 PROVE  /\ Pending(b, "ok", "done", id)' => DoneAndSaved(id)' /\ tasks'[id].assignee = b
                        /\ id \in told /\ Pending(b, "sent", "release", id)' => tasks'[id].assignee # b
    BY <2>2, <2>3 DEF OutcomeKept
  <2> QED
    BY <1>3, <1>5, <1>8, <2>1 DEF OutcomeKept, DoneAndSaved
<1> QED
  BY <1>1, <1>4, <1>7, <1>9 DEF TaskInv

\* The server serves a request and replies.
LEMMA ServeStep ==
  ASSUME TypeOK, RulesKept, ModestRequests, NEW id \in Work, TaskInv(id), TypeOK',
         NEW a \in Workers, Serve(a)
  PROVE  TaskInv(id)'
<1> USE AgentsAssumption
<1> DEFINE r == req[a].r
           v == tasks'[id]
<1>0. /\ now \in Nat /\ Ordinary(id)
      /\ \A b \in Workers : believed[b][id] \in Nat /\ req[b].until \in Nat
                              /\ req[b].r.sent \in Nat
  <2>1. \A b \in Workers : req[b] = Idle \/ req[b] \in Calls
    BY DEF TypeOK
  <2>2. \A b \in Workers : req[b].until \in Nat /\ req[b].r.sent \in Nat
    BY <2>1 DEF Idle, Call, NoRequest, Calls, Requests
  <2> QED
    BY <2>2 DEF TypeOK, TaskInv
<1>1. r \in Requests /\ r.id \in Work
  BY DEF Serve, TypeOK, Idle, Call, Calls, Requests
<1>2. PICK ok \in BOOLEAN :
        LET at == IF ~Accepted(a, r) THEN "refused" ELSE IF ok THEN "ok" ELSE "failed"
            until == IF r.op = "claim" /\ at = "ok" THEN tasks'[r.id].leaseExpires ELSE 0
        IN  /\ tasks' = Outcome(a, r) /\ Persist(ok)
            /\ req' = [req EXCEPT ![a] = Call(r, at, until)]
  BY DEF Serve, Answer
<1>3. UNCHANGED <<now, mode, believed, told>> /\ req[a].at = "sent"
  BY DEF Serve
<1>4. \A b \in Workers \ {a} : req'[b] = req[b]
  BY <1>2 DEF TypeOK
<1>5. /\ req'[a].r = r /\ req'[a].at \in {"refused", "failed", "ok"}
      /\ req'[a].at = "ok" =>
           /\ Accepted(a, r) /\ ok
           /\ r.op = "claim" => req'[a].until = tasks'[r.id].leaseExpires
  <2> DEFINE at == IF ~Accepted(a, r) THEN "refused" ELSE IF ok THEN "ok" ELSE "failed"
             until == IF r.op = "claim" /\ at = "ok" THEN tasks'[r.id].leaseExpires ELSE 0
  <2>1. req'[a] = Call(r, at, until)
    BY <1>2 DEF TypeOK
  <2>2. at \in {"refused", "failed", "ok"} /\ (at = "ok" => Accepted(a, r) /\ ok)
    OBVIOUS
  <2>3. at = "ok" /\ r.op = "claim" => until = tasks'[r.id].leaseExpires
    OBVIOUS
  <2> HIDE DEF at, until, r
  <2> QED
    BY <2>1, <2>2, <2>3 DEF Call
<1>6. /\ Effect(a, r, id, Swept[id], v)
      /\ Accepted(a, r) /\ r.id = id => Achieved(a, r, Swept[id], v)
  BY <1>1, <1>2, OutcomeAt
<1>7. /\ saved'[id] \in {saved[id], v}
      /\ ok /\ mode = "sync" => saved'[id] = v
  BY <1>2, PersistEffect
<1>8. Ends(r, id) => believed[a][id] = 0
  BY DEF ModestRequests, Ends
<1>9. r.sent <= now
  BY DEF ModestRequests
<1>10. Pending(a, "sent", r.op, r.id)
  BY <1>3 DEF Pending
<1> HIDE DEF r, v
<1>11. Ordinary(id)'
  BY <1>0, <1>3, <1>6, EffectOrdinary DEF Ordinary, v
<1>12. ASSUME NEW b \in Workers, NEW u \in Nat, Covered(b, id, u), u > now,
              Ends(r, id) => a # b
       PROVE  v.assignee = b /\ v.leaseExpires >= u
  BY <1>0, <1>6, <1>12, EffectCovers
<1>13. /\ Swept[id].status = "done" <=> tasks[id].status = "done"
       /\ tasks[id].status = "done" => Swept[id] = tasks[id]
       /\ Swept[id] \in Task /\ Settled(Swept[id]) /\ Swept[id].status # "review"
  BY <1>0, SweptAt DEF Ordinary, Free
<1>14. BeliefCovered(id) /\ FinisherKnows(id) /\ OutcomeKept(id)
  BY DEF TaskInv
<1>15. BeliefCovered(id)'
  <2>1. SUFFICES ASSUME NEW b \in Workers
                 PROVE  /\ Covered(b, id, believed[b][id])'
                        /\ Pending(b, "ok", "claim", id)' => Covered(b, id, req[b].until)'
                        /\ (Pending(b, "ok", "heartbeat", id)' /\ believed[b][id] > req'[b].r.sent)
                             => Covered(b, id, req[b].r.sent + Lease)'
    BY <1>3, <2>1 DEF BeliefCovered
  <2>2. Covered(b, id, believed[b][id])'
    BY <1>0, <1>3, <1>8, <1>12, <1>14 DEF BeliefCovered, Covered, v
  <2>3. CASE b # a
    <3>1. req'[b] = req[b]
      BY <1>4, <2>3
    <3>2. Pending(b, "ok", "claim", id)' => Covered(b, id, req[b].until)'
      BY <1>0, <1>3, <1>12, <1>14, <2>3, <3>1 DEF BeliefCovered, Covered, Pending, v
    <3>3. (Pending(b, "ok", "heartbeat", id)' /\ believed[b][id] > req'[b].r.sent)
            => Covered(b, id, req[b].r.sent + Lease)'
      BY <1>0, <1>3, <1>12, <1>14, <2>3, <3>1 DEF BeliefCovered, Covered, Pending, v
    <3> QED
      BY <2>2, <3>2, <3>3
  <2>4. CASE b = a
    <3>1. ASSUME Pending(a, "ok", "claim", id)'
          PROVE  Covered(a, id, req[a].until)'
      <4>1. r.op = "claim" /\ r.id = id /\ Accepted(a, r) /\ req'[a].until = v.leaseExpires
        BY <1>5, <3>1 DEF Pending, v
      <4>2. v = Claimed(a)
        BY <1>6, <4>1 DEF Achieved
      <4> QED
        BY <1>0, <4>1, <4>2 DEF Covered, Claimed, v
    <3>2. ASSUME Pending(a, "ok", "heartbeat", id)', believed[a][id] > req'[a].r.sent
          PROVE  Covered(a, id, req[a].r.sent + Lease)'
      <4>1. r.op = "heartbeat" /\ r.id = id /\ Accepted(a, r) /\ req'[a].r.sent = r.sent
        BY <1>5, <3>2 DEF Pending
      <4>2. Swept[id].assignee = a
        BY <1>6, <4>1 DEF Achieved
      <4>3. Swept[id].status # "done"
        BY <1>0, <1>13, <1>14, <3>2, <4>1, <4>2 DEF FinisherKnows, r
      <4>4. Swept[id].status = "in_progress" /\ Leased(Swept[id])
        BY <1>13, <4>2, <4>3 DEF Settled, Task, Statuses
      <4>5. v = Renewed(Swept[id])
        BY <1>6, <4>1, <4>4 DEF Achieved
      <4>6. v.assignee = a /\ v.leaseExpires = now + Lease
        BY <1>13, <4>2, <4>5 DEF Renewed, Task
      <4> QED
        BY <1>0, <1>9, <4>1, <4>6 DEF Covered, v, r
    <3> QED
      BY <2>2, <2>4, <3>1, <3>2
  <2> QED
    BY <2>3, <2>4
<1>16. FinisherKnows(id)'
  <2>1. SUFFICES ASSUME NEW b \in Workers, v.status = "done", v.assignee = b
                 PROVE  believed[b][id] = 0 /\ ~Pending(b, "ok", "claim", id)'
    BY <1>3, <2>1 DEF FinisherKnows, v
  <2>2. CASE tasks[id].status = "done"
    <3>1. v = tasks[id]
      <4>1. v = tasks[id] \/ v = Free
        BY <1>6, <2>2, EffectOnDone
      <4> QED
        BY <2>1, <4>1 DEF Free
    <3>2. believed[b][id] = 0 /\ ~Pending(b, "ok", "claim", id)
      BY <1>14, <2>1, <2>2, <3>1 DEF FinisherKnows
    <3>3. ~Pending(b, "ok", "claim", id)'
      BY <1>4, <1>5, <1>6, <1>13, <2>2, <3>2 DEF Pending, Achieved
    <3> QED
      BY <3>2, <3>3
  <2>3. CASE tasks[id].status # "done"
    <3>1. r.op = "done" /\ r.id = id /\ b = a
      BY <1>0, <1>6, <2>1, <2>3, EffectFinishes
    <3> QED
      BY <1>5, <1>8, <3>1 DEF Pending, Ends
  <2> QED
    BY <2>2, <2>3
<1>17. OutcomeKept(id)'
  <2>1. ASSUME v = tasks[id], DoneAndSaved(id)
        PROVE  DoneAndSaved(id)'
    BY <1>3, <1>7, <2>1 DEF DoneAndSaved, v
  <2>2. ASSUME id \in told
        PROVE  v = tasks[id] /\ DoneAndSaved(id)
    <3>1. DoneAndSaved(id) /\ tasks[id].status = "done"
      BY <1>14, <2>2 DEF OutcomeKept, DoneAndSaved
    <3>2. v = tasks[id] \/ (Releases(r, id) /\ tasks[id].assignee = a /\ v = Free)
      BY <1>6, <3>1, EffectOnDone
    <3>3. ~(Releases(r, id) /\ tasks[id].assignee = a)
      BY <1>10, <1>14, <2>2 DEF OutcomeKept, Releases
    <3> QED
      BY <3>1, <3>2, <3>3
  <2>3. SUFFICES ASSUME NEW b \in Workers
                 PROVE  /\ Pending(b, "ok", "done", id)' => DoneAndSaved(id)' /\ v.assignee = b
                        /\ id \in told /\ Pending(b, "sent", "release", id)' => v.assignee # b
    BY <1>3, <2>3, <2>1, <2>2 DEF OutcomeKept, v
  <2>4. ASSUME id \in told, Pending(b, "sent", "release", id)'
        PROVE  v.assignee # b
    <3>1. Pending(b, "sent", "release", id)
      BY <1>4, <1>5, <2>4 DEF Pending
    <3> QED
      BY <1>14, <2>2, <2>4, <3>1 DEF OutcomeKept
  <2>5. ASSUME Pending(b, "ok", "done", id)'
        PROVE  DoneAndSaved(id)' /\ v.assignee = b
    <3>1. CASE b # a
      <4>1. DoneAndSaved(id) /\ tasks[id].assignee = b
        BY <1>4, <1>14, <2>5, <3>1 DEF OutcomeKept, Pending
      <4>2. v = tasks[id]
        BY <1>6, <3>1, <4>1, EffectOnDone DEF DoneAndSaved
      <4> QED
        BY <2>1, <4>1, <4>2
    <3>2. CASE b = a
      <4>1. r.op = "done" /\ r.id = id /\ Accepted(a, r) /\ ok
        BY <1>5, <2>5, <3>2 DEF Pending
      <4>2. v = Finished(a, Swept[id]) /\ tasks[id].status # "done"
        BY <1>6, <1>13, <4>1 DEF Achieved
      <4>3. v.status = "done"
        BY <4>2 DEF Finished
      <4>4. v.assignee = a
        BY <1>0, <1>6, <4>2, <4>3, EffectFinishes
      <4> QED
        BY <1>3, <1>7, <3>2, <4>1, <4>3, <4>4 DEF DoneAndSaved, v
    <3> QED
      BY <3>1, <3>2
  <2> QED
    BY <2>4, <2>5
<1> QED
  BY <1>11, <1>15, <1>16, <1>17 DEF TaskInv

\* An agent sends a request: it stops working on a task that it gives back.
LEMMA SendStep ==
  ASSUME TypeOK, NEW id \in Work, TaskInv(id), TypeOK',
         NEW a \in Workers, NEW op \in Ops, NEW i \in Work, Send(a, op, i)
  PROVE  TaskInv(id)'
<1>1. /\ UNCHANGED <<now, mode, tasks, saved>>
      /\ req' = [req EXCEPT ![a] = Call(Request(op, i), "sent", 0)]
      /\ told' = IF op = "release" THEN told \ {i} ELSE told
  BY DEF Send
<1>2. \A b \in Workers : believed'[b][id] \in {believed[b][id], 0}
  BY DEF Send, TypeOK
<1>3. /\ \A b \in Workers \ {a} : req'[b] = req[b]
      /\ req'[a].at = "sent" /\ req'[a].r.op = op /\ req'[a].r.id = i
  BY <1>1 DEF TypeOK, Call, Request
<1>4. Ordinary(id)'
  BY <1>1 DEF TaskInv, Ordinary
<1>5. \A b \in Workers : \A o : Pending(b, "ok", o, id)' =>
        /\ Pending(b, "ok", o, id) /\ b # a /\ req'[b] = req[b]
  BY <1>3 DEF Pending
<1>6. \A b \in Workers : b # a => believed'[b][id] = believed[b][id]
  BY DEF Send, TypeOK
<1>7. now \in Nat
  BY DEF TypeOK
<1>8. BeliefCovered(id)'
  BY <1>1, <1>2, <1>5, <1>6, <1>7 DEF TaskInv, BeliefCovered, Covered
<1>9. FinisherKnows(id)'
  BY <1>1, <1>2, <1>5 DEF TaskInv, FinisherKnows
<1>10. DoneAndSaved(id)' <=> DoneAndSaved(id)
  BY <1>1 DEF DoneAndSaved
<1>11. \A b \in Workers : id \in told' /\ Pending(b, "sent", "release", id)' =>
         id \in told /\ Pending(b, "sent", "release", id)
  BY <1>1, <1>3 DEF Pending
<1>12. id \in told' => id \in told
  BY <1>1
<1>13. OutcomeKept(id)'
  BY <1>1, <1>5, <1>10, <1>11, <1>12 DEF TaskInv, OutcomeKept
<1> QED
  BY <1>4, <1>8, <1>9, <1>13 DEF TaskInv

\* An agent reads a reply: what it believes now was covered already.
LEMMA ReceiveStep ==
  ASSUME TypeOK, NEW id \in Work, TaskInv(id), TypeOK', NEW a \in Workers, Receive(a)
  PROVE  TaskInv(id)'
<1> DEFINE r == req[a].r
<1>1. UNCHANGED <<now, mode, tasks, saved>> /\ req' = [req EXCEPT ![a] = Idle]
  BY DEF Receive
<1>2. Idle.at = "idle" /\ now \in Nat
  BY DEF Idle, Call, TypeOK
<1>3. \A b \in Workers \ {a} : req'[b] = req[b] /\ believed'[b] = believed[b]
  BY DEF Receive, TypeOK
<1>4. req'[a].at = "idle"
  BY <1>1, <1>2 DEF TypeOK
<1>5. \/ believed'[a][id] \in {believed[a][id], 0}
      \/ Pending(a, "ok", "claim", id) /\ believed'[a][id] = req[a].until
      \/ /\ Pending(a, "ok", "heartbeat", id) /\ believed[a][id] > r.sent
         /\ believed'[a][id] = r.sent + Lease
  <2>1. r.id \in Work
    BY <1>2 DEF Receive, TypeOK, Calls, Requests
  <2>2. believed[a] \in [Work -> Nat] /\ believed \in [Workers -> [Work -> Nat]]
    BY DEF TypeOK
  <2>3. CASE req[a].at = "ok" /\ r.op = "claim"
    <3>1. believed' = [believed EXCEPT ![a][r.id] = req[a].until]
      BY <2>3 DEF Receive
    <3> QED
      BY <2>2, <2>3, <3>1 DEF Pending
  <2>4. CASE req[a].at = "ok" /\ r.op = "heartbeat" /\ believed[a][r.id] > r.sent
    <3>1. believed' = [believed EXCEPT ![a][r.id] = r.sent + Lease]
      BY <2>4 DEF Receive
    <3> QED
      BY <2>2, <2>4, <3>1 DEF Pending
  <2>5. CASE req[a].at = "refused"
    <3>1. believed' = [believed EXCEPT ![a][r.id] = 0]
      BY <2>5 DEF Receive
    <3> QED
      BY <2>2, <3>1
  <2>6. CASE ~(req[a].at = "refused" \/ (req[a].at = "ok" /\ r.op = "claim")
               \/ (req[a].at = "ok" /\ r.op = "heartbeat" /\ believed[a][r.id] > r.sent))
    <3>1. believed' = believed
      BY <2>6 DEF Receive
    <3> QED
      BY <3>1
  <2> QED
    BY <2>3, <2>4, <2>5, <2>6
<1>6. \A b \in Workers, at \in {"ok", "sent"} : \A o : Pending(b, at, o, id)' =>
        Pending(b, at, o, id) /\ b # a /\ req'[b] = req[b]
  BY <1>3, <1>4 DEF Pending
<1>7. Ordinary(id)' /\ (DoneAndSaved(id)' <=> DoneAndSaved(id))
  BY <1>1 DEF TaskInv, Ordinary, DoneAndSaved
<1>8. \A b \in Workers : Covered(b, id, believed[b][id])'
  BY <1>1, <1>2, <1>3, <1>5 DEF TaskInv, BeliefCovered, Covered
<1>9. BeliefCovered(id)'
  BY <1>1, <1>3, <1>6, <1>8 DEF TaskInv, BeliefCovered, Covered
<1>10. FinisherKnows(id)'
  <2>1. SUFFICES ASSUME NEW b \in Workers, tasks[id].status = "done", tasks[id].assignee = b
                 PROVE  believed'[b][id] = 0 /\ ~Pending(b, "ok", "claim", id)'
    BY <1>1, <2>1 DEF FinisherKnows
  <2>2. believed[b][id] = 0 /\ ~Pending(b, "ok", "claim", id)
    BY <2>1 DEF TaskInv, FinisherKnows
  <2>3. r.sent \in Nat
    BY <1>2 DEF Receive, TypeOK, Calls, Requests
  <2> QED
    BY <1>3, <1>5, <1>6, <2>2, <2>3
<1>11. \/ told' = told
       \/ req[a].at = "ok" /\ r.op = "done" /\ told' = told \cup {r.id}
  BY DEF Receive
<1>12. OutcomeKept(id)'
  <2>1. OutcomeKept(id)
    BY DEF TaskInv
  <2>2. id \in told' => id \in told \/ Pending(a, "ok", "done", id)
    BY <1>11 DEF Pending
  <2>3. id \in told' => DoneAndSaved(id)
    BY <2>1, <2>2 DEF OutcomeKept
  <2>4. \A b \in Workers : id \in told' /\ Pending(b, "sent", "release", id)' => tasks[id].assignee # b
    BY <1>6, <2>1, <2>2 DEF OutcomeKept
  <2>5. \A b \in Workers : Pending(b, "ok", "done", id)' => DoneAndSaved(id) /\ tasks[id].assignee = b
    BY <1>6, <2>1 DEF OutcomeKept
  <2> QED
    BY <1>1, <1>7, <2>3, <2>4, <2>5 DEF OutcomeKept
<1> QED
  BY <1>7, <1>9, <1>10, <1>12 DEF TaskInv

\* Every step keeps what is known of a task, unless it disturbs the task.
LEMMA TaskStep ==
  ASSUME AgentsInv, TypeOK', Step, NEW id \in Work \ disturbed'
  PROVE  TaskInv(id)'
<1> USE AgentsAssumption
<1>1. TypeOK /\ RulesKept /\ ModestRequests
  BY DEF AgentsInv
<1>2. disturbed \subseteq disturbed'
  BY DEF Step, Send, Serve, Receive, GiveUp, ServeAdrift, MoveTask, Sweep, Tick, WriterSaves,
         Crash, Restart, sides
<1>3. id \in Work /\ TaskInv(id)
  BY <1>2 DEF AgentsInv
<1>4. Effect(Nobody, NoRequest, id, Swept[id], Swept[id]) /\ ~Ends(NoRequest, id)
  BY DEF Effect, Ends, NoRequest
<1>5. ASSUME NEW a \in Workers, \E op \in Ops, i \in Work : Send(a, op, i)
      PROVE  TaskInv(id)'
  BY <1>1, <1>3, <1>5, SendStep
<1>6. ASSUME NEW a \in Workers, Serve(a)
      PROVE  TaskInv(id)'
  BY <1>1, <1>3, <1>6, ServeStep
<1>7. ASSUME NEW a \in Workers, Receive(a)
      PROVE  TaskInv(id)'
  BY <1>1, <1>3, <1>7, ReceiveStep
<1>8. ASSUME NEW a \in Workers, GiveUp(a)
      PROVE  TaskInv(id)'
  <2>1. /\ UNCHANGED <<now, mode, tasks, saved, believed, told>>
        /\ req' = [req EXCEPT ![a] = Idle]
    BY <1>8 DEF GiveUp
  <2>2. \A b \in Workers, at \in {"ok", "sent"} : \A op :
          Pending(b, at, op, id)' => Pending(b, at, op, id) /\ req'[b] = req[b]
    BY <1>1, <2>1 DEF TypeOK, Idle, Call, Pending
  <2>3. Ordinary(id)' /\ (DoneAndSaved(id)' <=> DoneAndSaved(id))
    BY <1>3, <2>1 DEF TaskInv, Ordinary, DoneAndSaved
  <2>4. BeliefCovered(id)'
    BY <1>3, <2>1, <2>2 DEF TaskInv, BeliefCovered, Covered
  <2>5. FinisherKnows(id)'
    BY <1>3, <2>1, <2>2 DEF TaskInv, FinisherKnows
  <2>6. OutcomeKept(id)'
    BY <1>3, <2>1, <2>2, <2>3 DEF TaskInv, OutcomeKept
  <2> QED
    BY <2>3, <2>4, <2>5, <2>6 DEF TaskInv
<1>9. ASSUME NEW d \in adrift, ServeAdrift(d)
      PROVE  TaskInv(id)'
  <2>1. d.agent \in Workers /\ d.r \in Requests
    BY <1>1 DEF TypeOK
  <2>2. Effect(d.agent, d.r, id, Swept[id], tasks'[id])
    BY <1>1, <1>3, <1>9, <2>1, OutcomeAt DEF ServeAdrift
  <2>3. ~Ends(d.r, id)
    BY <1>9 DEF ServeAdrift, Ends
  <2>4. saved'[id] \in {saved[id], tasks'[id]} /\ UNCHANGED <<now, mode, req, believed, told>>
    BY <1>1, <1>9, PersistEffect DEF ServeAdrift, sides
  <2> QED
    BY <1>1, <1>3, <2>2, <2>3, <2>4, QuietStep
<1>10. ASSUME NEW i \in Work, NEW s \in {"todo", "review"}, MoveTask(i, s)
       PROVE  TaskInv(id)'
  <2>1. id # i
    BY <1>10 DEF MoveTask
  <2>2. tasks'[id] = Swept[id]
    BY <1>3, <1>10, <2>1 DEF MoveTask, Swept
  <2>3. saved'[id] \in {saved[id], tasks'[id]} /\ UNCHANGED <<now, mode, req, believed, told>>
    BY <1>1, <1>10, PersistEffect DEF MoveTask, sides
  <2> QED
    BY <1>1, <1>3, <1>4, <2>2, <2>3, QuietStep
<1>11. CASE Sweep
  <2>1. saved'[id] \in {saved[id], tasks'[id]} /\ UNCHANGED <<now, mode, req, believed, told>>
        /\ tasks'[id] = Swept[id]
    BY <1>1, <1>11, PersistEffect DEF Sweep, sides
  <2> QED
    BY <1>1, <1>3, <1>4, <2>1, QuietStep
<1>12. CASE Restart
  <2>1. /\ tasks'[id] = Swept[id] /\ saved'[id] = tasks'[id]
        /\ UNCHANGED <<now, mode, believed, told>>
    BY <1>12 DEF Restart
  <2>2. \A b \in Workers : req'[b] = req[b] \/ req'[b].at = "failed"
    BY <1>12 DEF Restart, CutOff, Call
  <2> QED
    BY <1>1, <1>3, <1>4, <2>1, <2>2, QuietStep
<1>13. CASE Crash
  <2>1. /\ tasks'[id] = tasks[id] /\ saved'[id] = saved[id]
        /\ UNCHANGED <<now, mode, believed, told>>
    BY <1>3, <1>13 DEF Crash
  <2>2. \A b \in Workers : req'[b] = req[b] \/ req'[b].at = "failed"
    BY <1>13 DEF Crash, CutOff, Call
  <2> QED
    BY <1>1, <1>3, <2>1, <2>2, QuietStep
<1>14. CASE WriterSaves
  <2>1. /\ tasks'[id] = tasks[id] /\ saved'[id] = tasks'[id]
        /\ UNCHANGED <<now, mode, req, believed, told>>
    BY <1>14 DEF WriterSaves, sides
  <2> QED
    BY <1>1, <1>3, <2>1, QuietStep
<1>15. CASE Tick
  <2>1. now' = now + 1 /\ UNCHANGED <<mode, tasks, saved, req, believed, told>>
    BY <1>15 DEF Tick, sides
  <2>2. now \in Nat /\ tasks[id].leaseExpires \in Nat
    BY <1>1, <1>3 DEF TypeOK, Task
  <2>3. Ordinary(id)'
    BY <1>3, <2>1, <2>2 DEF TaskInv, Ordinary
  <2>4. \A b \in Workers, u \in Nat : Covered(b, id, u) => Covered(b, id, u)'
    BY <2>1, <2>2 DEF Covered
  <2>5. \A b \in Workers : believed[b][id] \in Nat /\ req[b].until \in Nat
                             /\ req[b].r.sent + Lease \in Nat
    <3>1. \A b \in Workers : req[b] = Idle \/ req[b] \in Calls
      BY <1>1 DEF TypeOK
    <3>2. \A b \in Workers : req[b].until \in Nat /\ req[b].r.sent \in Nat
      BY <3>1 DEF Idle, Call, NoRequest, Calls, Requests
    <3> QED
      BY <1>1, <1>3, <3>2 DEF TypeOK
  <2>6. BeliefCovered(id)'
    BY <1>3, <2>1, <2>4, <2>5 DEF TaskInv, BeliefCovered, Covered, Pending
  <2>7. FinisherKnows(id)' /\ OutcomeKept(id)'
    BY <1>3, <2>1 DEF TaskInv, FinisherKnows, OutcomeKept, Pending, DoneAndSaved
  <2> QED
    BY <2>3, <2>6, <2>7 DEF TaskInv
<1> QED
  BY <1>5, <1>6, <1>7, <1>8, <1>9, <1>10, <1>11, <1>12, <1>13, <1>14, <1>15 DEF Step

-----------------------------------------------------------------------------
(* The theorems.                                                           *)

\* The invariant is inductive.
LEMMA AgentsInvHolds == Spec => []AgentsInv
<1> USE AgentsAssumption
<1>1. Init => AgentsInv
  <2> SUFFICES ASSUME Init PROVE AgentsInv
    OBVIOUS
  <2>1. Free \in Task /\ Settled(Free)
    BY DEF Free, Task, Statuses, Settled, Leased, NoLease
  <2>2. TypeOK
    BY <2>1 DEF Init, TypeOK
  <2>3. Idle.r.sent = 0 /\ Idle.r.op = "none" /\ Idle.at = "idle"
    BY DEF Idle, Call, NoRequest
  <2>4. RulesKept /\ ModestRequests
    BY <2>1, <2>3 DEF Init, RulesKept, ModestRequests
  <2>5. ASSUME NEW id \in Work PROVE TaskInv(id)
    <3>1. /\ tasks[id] = Free /\ now = 0 /\ told = {}
          /\ \A a \in Workers : believed[a][id] = 0 /\ req[a].at = "idle"
      BY <2>3, <2>5 DEF Init
    <3> QED
      BY <3>1 DEF TaskInv, Ordinary, BeliefCovered, Covered, FinisherKnows, OutcomeKept,
                  Pending, Free, NoLease
  <2> QED
    BY <2>2, <2>4, <2>5 DEF AgentsInv
<1>2. AgentsInv /\ [Next]_vars => AgentsInv'
  <2> SUFFICES ASSUME AgentsInv, [Next]_vars PROVE AgentsInv'
    OBVIOUS
  <2>1. CASE Step
    <3>1. TypeOK' /\ RulesKept' /\ ModestRequests'
      BY <2>1, TypeStep, TasksStep, ModestStep DEF AgentsInv
    <3>2. \A id \in Work \ disturbed' : TaskInv(id)'
      BY <2>1, <3>1, TaskStep
    <3> QED
      BY <3>1, <3>2 DEF AgentsInv
  <2>2. CASE UNCHANGED vars
    BY <2>2 DEF vars, sides, AgentsInv, TypeOK, RulesKept, ModestRequests, TaskInv, Ordinary,
                BeliefCovered, Covered, FinisherKnows, OutcomeKept, DoneAndSaved, Pending
  <2> QED
    BY <2>1, <2>2 DEF Next
<1> QED
  BY <1>1, <1>2, PTL DEF Spec

\* Agents keeps its types: no request, reply or belief of an agent is about
\* anything but a task, whatever is lost, late or taken back.
THEOREM AgentsTypeCorrect == Spec => []TypeOK
<1>1. AgentsInv => TypeOK
  BY DEF AgentsInv
<1> QED
  BY <1>1, AgentsInvHolds, PTL

\* What an agent believes is covered by the board.
THEOREM BeliefsAreCovered == Spec => []WorkIsCovered
<1>1. AgentsInv => WorkIsCovered
  BY DEF AgentsInv, TaskInv, BeliefCovered, Covered, WorkIsCovered, WorksOn
<1> QED
  BY <1>1, AgentsInvHolds, PTL

\* Two agents never work on the same task at the same time, for any number of
\* agents, tasks, faults and restarts, with the exceptions WorkersExclusive
\* names.
THEOREM AgentsExclude == Spec => []WorkersExclusive
<1>1. AgentsInv => WorkersExclusive
  BY DEF AgentsInv, TaskInv, BeliefCovered, Covered, WorkersExclusive, WorksOn
<1> QED
  BY <1>1, AgentsInvHolds, PTL

\* A task that its agent was told is done stays done.
THEOREM DoneTasksStayDone == Spec => []DoneStaysDone
<1>1. ASSUME AgentsInv PROVE DoneStaysDone
  <2>1. SUFFICES ASSUME NEW id \in told \ disturbed PROVE tasks[id].status = "done"
    BY <2>1 DEF DoneStaysDone
  <2> QED
    BY <1>1 DEF AgentsInv, TypeOK, TaskInv, OutcomeKept, DoneAndSaved
<1> QED
  BY <1>1, AgentsInvHolds, PTL

\* In sync mode what an agent was told is done is on disk.
THEOREM ToldTasksAreSaved == Spec => []ToldIsSaved
<1>1. ASSUME AgentsInv PROVE ToldIsSaved
  BY <1>1 DEF AgentsInv, TypeOK, TaskInv, OutcomeKept, DoneAndSaved, ToldIsSaved
<1> QED
  BY <1>1, AgentsInvHolds, PTL
=============================================================================
