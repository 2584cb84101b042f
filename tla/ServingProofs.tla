--------------------------- MODULE ServingProofs ---------------------------
(***************************************************************************)
(* Proofs about Serving, for any requests, buffer, sweeps and failed       *)
(* saves: a process that is stopped gracefully has saved every change a    *)
(* client had a reply to, and it writes the file only under the lock,      *)
(* unless a handler outlived it.                                           *)
(*                                                                         *)
(* The argument follows the main goroutine: what has come to an end when   *)
(* it is past a point (the sweeper, the requests, the webhook, the writer) *)
(* does not come back, and the last reply to a client is older than the    *)
(* snapshot of the final save.                                             *)
(***************************************************************************)
EXTENDS Serving, TLAPS

-----------------------------------------------------------------------------
(* The inductive invariant.                                                *)

\* The places of the main goroutine from a point on.
Unlocked == {"exiting", "exited"}
Closed == {"closeFlush", "unlock"} \cup Unlocked
HookOver == {"close"} \cup Closed
Flushed == {"webhookCancel", "webhookWait"} \cup HookOver
Ending == {"final", "finalFlush"} \cup Flushed

\* Who holds what is where the main goroutine says: the lock until it is
\* released, the writer until Close, the webhook until it was waited for, and
\* the sweeper until Serve leaves its loop.
EndsInOrder ==
  /\ locked <=> main \notin Unlocked
  /\ closed <=> main \in Closed
  /\ closed => snap.by # "writer"
  /\ main \in HookOver => hook.at = "ended"
  /\ main \in {"draining"} \cup Ending => ~sweeper
  /\ snap.by = "main" => main \in {"finalFlush", "closeFlush"}
  /\ main = "sweepDoneError" => broken

\* When Serve has drained its connections and no handler is left, none comes.
NoneLeft ==
  /\ main = "draining" => ~listening
  /\ (main \in Ending /\ ~left) => (Active = {} /\ ~listening)

\* After a stop that is not an error of the listener nobody gets a reply.
NobodyAnswered ==
  (main \in Ending /\ ~broken) => (open = {} /\ ~listening)

\* A change that was answered has been made, by a request that is over.
AnsweredIsMade ==
  /\ snap.version <= version
  /\ \A r \in Requests : change[r] <= version
  /\ \A r \in acked : req[r] = "returned"

\* The final save, and every save after it, has what was answered.
AnsweredIsIn(v) == \A r \in acked : change[r] <= v

FinalSaveHasAll ==
  ~broken =>
    /\ snap.by = "main" => AnsweredIsIn(snap.version)
    /\ (main \in Flushed /\ snap.by = "writer") => AnsweredIsIn(snap.version)
    /\ (main \in Flushed /\ ~saveFailed) => AnsweredIsIn(disk)

ServingInv ==
  /\ TypeOK /\ EndsInOrder /\ NoneLeft /\ NobodyAnswered /\ AnsweredIsMade
  /\ FinalSaveHasAll

-----------------------------------------------------------------------------
(* Every step keeps the invariant, part by part.                           *)

\* An event that does not fit is dropped, so the channel stays within bounds.
LEMMA PublishedType ==
  ASSUME NEW q \in Seq(EventKinds), Len(q) <= Buffer, NEW t \in EventKinds
  PROVE  Published(q, t) \in Seq(EventKinds) /\ Len(Published(q, t)) <= Buffer
<1>1. CASE hook.at # "ended" /\ Len(q) < Buffer
  <2>1. Published(q, t) = Append(q, t)
    BY <1>1 DEF Published
  <2> QED
    BY <1>1, <2>1, ServingAssumption
<1>2. CASE ~(hook.at # "ended" /\ Len(q) < Buffer)
  BY <1>2 DEF Published
<1> QED
  BY <1>1, <1>2

\* The types.
LEMMA TypeStep ==
  ASSUME TypeOK, AnsweredIsMade, [Next]_vars
  PROVE  TypeOK'
<1> USE ServingAssumption DEF life, handlers, saving, webhook, history, bounds
<1>1. CASE WriterSaves
  BY <1>1 DEF WriterSaves, TypeOK
<1>2. CASE WriterStored
  <2>1. snap.version \in 0..version /\ NoSave \in [by : {"none", "writer", "main"}, version : Nat]
    BY DEF TypeOK, AnsweredIsMade, NoSave
  <2>2. disk' \in 0..version' /\ version' = version /\ snap' = NoSave
    BY <1>2, <2>1 DEF WriterStored, TypeOK
  <2>3. faults' \in 0..MaxFaults
    BY <1>2 DEF WriterStored, Fault, TypeOK
  <2>4. chan' \in Seq(EventKinds) /\ Len(chan') <= Buffer
    BY <1>2, PublishedType DEF WriterStored, EventKinds, TypeOK
  <2> QED
    BY <1>2, <2>1, <2>2, <2>3, <2>4 DEF WriterStored, TypeOK
<1>3. ASSUME NEW r \in Requests, Accept(r) PROVE TypeOK'
  BY <1>3 DEF Accept, TypeOK
<1>4. ASSUME NEW r \in Requests, Handle(r) PROVE TypeOK'
  <2>1. version' = version + 1 /\ disk' \in {disk, version + 1}
    BY <1>4 DEF Handle, Changed
  <2>2. chan' \in Seq(EventKinds) /\ Len(chan') <= Buffer
    BY <1>4, PublishedType DEF Handle, Changed, TypeOK
  <2> QED
    BY <1>4, <2>1, <2>2 DEF Handle, TypeOK, AnsweredIsMade, Mains
<1>5. ASSUME NEW r \in Requests, Reply(r) PROVE TypeOK'
  BY <1>5 DEF Reply, TypeOK
<1>6. CASE SweepTick
  <2>1. version' = version + 1 /\ disk' \in {disk, version + 1}
    BY <1>6 DEF SweepTick, Changed
  <2>2. chan' \in Seq(EventKinds) /\ Len(chan') <= Buffer
    BY <1>6, PublishedType DEF SweepTick, EventKinds, Changed, TypeOK
  <2> QED
    BY <1>6, <2>1, <2>2 DEF SweepTick, TypeOK, AnsweredIsMade, Mains
<1>7. CASE SweeperEnds
  <2>1. sweeper' \in BOOLEAN
    BY <1>7 DEF SweeperEnds, TypeOK
  <2>2. UNCHANGED <<main, cancelled, done, listening, broken, req, change, open, acked,
                  version, disk, snap, closed, locked, chan, hook, left, saveFailed, sweeps, faults>>
    BY <1>7 DEF SweeperEnds
  <2> QED
    BY <2>1, <2>2 DEF TypeOK
<1>8. CASE Take
  <2>1. Tail(chan) \in Seq(EventKinds) /\ Len(Tail(chan)) <= Buffer
    BY <1>8 DEF Take, TypeOK
  <2>2. \/ version' = version /\ disk' = disk /\ chan' = Tail(chan)
        \/ /\ version' = version + 1 /\ disk' \in {disk, version + 1}
           /\ chan' = Published(Tail(chan), "other")
    BY <1>8 DEF Take, Changed
  <2>3. chan' \in Seq(EventKinds) /\ Len(chan') <= Buffer
    BY <2>1, <2>2, PublishedType DEF EventKinds, TypeOK
  <2>4. hook' \in [at : {"wait", "post", "ended"}, since : Nat] /\ sweeps' \in Nat
    BY <1>8, <2>2 DEF Take, TypeOK
  <2>5. version' \in Nat /\ disk' \in 0..version'
    BY <2>2 DEF TypeOK
  <2> QED
    BY <1>8, <2>3, <2>4, <2>5 DEF Take, TypeOK
<1>9. CASE Post
  <2>1. hook' \in [at : {"wait", "post", "ended"}, since : Nat]
    BY <1>9 DEF Post, TypeOK
  <2>2. UNCHANGED <<main, cancelled, done, listening, broken, req, change, open, acked,
                  sweeper, version, disk, snap, closed, locked, chan, left, saveFailed, sweeps, faults>>
    BY <1>9 DEF Post
  <2> QED
    BY <2>1, <2>2 DEF TypeOK
<1>10. CASE HookEnds
  BY <1>10 DEF HookEnds, TypeOK
<1>11. CASE Signal
  BY <1>11 DEF Signal, TypeOK
<1>12. CASE ShutdownRequest
  BY <1>12 DEF ShutdownRequest, TypeOK
<1>13. CASE ListenerFails
  BY <1>13 DEF ListenerFails, TypeOK
<1>14. CASE StopServing
  BY <1>14 DEF StopServing, TypeOK, Mains
<1>15. CASE SweepDone
  <2>1. main' \in Mains /\ listening' \in BOOLEAN /\ left' \in BOOLEAN
    BY <1>15 DEF SweepDone, TypeOK, Mains
  <2>2. UNCHANGED <<cancelled, done, broken, req, change, open, acked, sweeper, version,
                  disk, snap, closed, locked, chan, hook, saveFailed, sweeps, faults>>
    BY <1>15 DEF SweepDone
  <2> QED
    BY <2>1, <2>2 DEF TypeOK
<1>16. CASE Drained
  BY <1>16 DEF Drained, TypeOK, Mains
<1>17. CASE BoardShutdown
  <2>1. version' = version + 1 /\ disk' \in {disk, version + 1}
    BY <1>17 DEF BoardShutdown, Changed
  <2>2. chan' \in Seq(EventKinds) /\ Len(chan') <= Buffer
    BY <1>17, PublishedType DEF BoardShutdown, EventKinds, Changed, TypeOK
  <2> QED
    BY <1>17, <2>1, <2>2 DEF BoardShutdown, TypeOK, AnsweredIsMade, Mains
<1>18. CASE FlushBegins
  BY <1>18 DEF FlushBegins, AfterFlush, TypeOK, Mains
<1>19. CASE FlushEnds
  <2>1. snap.version \in 0..version /\ NoSave \in [by : {"none", "writer", "main"}, version : Nat]
    BY DEF TypeOK, AnsweredIsMade, NoSave
  <2>2. disk' \in 0..version' /\ version' = version /\ snap' = NoSave
    BY <1>19, <2>1 DEF FlushEnds, TypeOK
  <2>3. faults' \in 0..MaxFaults
    BY <1>19 DEF FlushEnds, Fault, TypeOK
  <2>4. saveFailed' \in BOOLEAN
    BY <1>19 DEF FlushEnds, TypeOK
  <2>5. main' \in Mains
    BY <1>19 DEF FlushEnds, AfterFlush, Mains
  <2>6. chan' \in Seq(EventKinds) /\ Len(chan') <= Buffer
    BY <1>19, PublishedType DEF FlushEnds, EventKinds, TypeOK
  <2> QED
    BY <1>19, <2>1, <2>2, <2>3, <2>4, <2>5, <2>6 DEF FlushEnds, TypeOK
<1>20. CASE WebhookCancel
  BY <1>20 DEF WebhookCancel, TypeOK, Mains
<1>21. CASE WebhookWaited
  BY <1>21 DEF WebhookWaited, TypeOK, Mains
<1>22. CASE BoardClose
  BY <1>22 DEF BoardClose, TypeOK, Mains
<1>23. CASE Unlock
  <2>1. main' \in Mains /\ locked' \in BOOLEAN
    BY <1>23 DEF Unlock, TypeOK, Mains
  <2>2. UNCHANGED <<cancelled, done, listening, broken, req, change, open, acked, sweeper,
                  version, disk, snap, closed, chan, hook, left, saveFailed, sweeps, faults>>
    BY <1>23 DEF Unlock
  <2> QED
    BY <2>1, <2>2 DEF TypeOK
<1>24. CASE Exit
  <2>1. main' \in Mains /\ listening' \in BOOLEAN
    BY <1>24 DEF Exit, TypeOK, Mains
  <2>2. UNCHANGED <<cancelled, done, broken, req, change, open, acked, sweeper, version,
                  disk, snap, closed, locked, chan, hook, left, saveFailed, sweeps, faults>>
    BY <1>24 DEF Exit
  <2> QED
    BY <2>1, <2>2 DEF TypeOK
<1>25. CASE UNCHANGED vars
  BY <1>25 DEF vars, TypeOK
<1> QED
  BY <1>1, <1>2, <1>3, <1>4, <1>5, <1>6, <1>7, <1>8, <1>9, <1>10, <1>11, <1>12, <1>13, <1>14, <1>15, <1>16, <1>17, <1>18, <1>19, <1>20, <1>21, <1>22, <1>23, <1>24, <1>25 DEF Next, Main, Ended

\* What has ended stays ended.
LEMMA OrderStep ==
  ASSUME TypeOK, EndsInOrder, [Next]_vars
  PROVE  EndsInOrder'
<1> USE ServingAssumption DEF life, handlers, saving, webhook, history, bounds
<1>1. CASE WriterSaves
  BY <1>1 DEF WriterSaves, TypeOK, EndsInOrder, NoSave, Unlocked, Closed, HookOver, Flushed, Ending
<1>2. CASE WriterStored
  BY <1>2 DEF WriterStored, Fault, TypeOK, EndsInOrder, NoSave, Unlocked, Closed, HookOver, Flushed, Ending
<1>3. ASSUME NEW r \in Requests, Accept(r) PROVE EndsInOrder'
  BY <1>3 DEF Accept, TypeOK, EndsInOrder, NoSave, Unlocked, Closed, HookOver, Flushed, Ending
<1>4. ASSUME NEW r \in Requests, Handle(r) PROVE EndsInOrder'
  BY <1>4 DEF Handle, Changed, TypeOK, EndsInOrder, NoSave, Unlocked, Closed, HookOver, Flushed, Ending
<1>5. ASSUME NEW r \in Requests, Reply(r) PROVE EndsInOrder'
  BY <1>5 DEF Reply, TypeOK, EndsInOrder, NoSave, Unlocked, Closed, HookOver, Flushed, Ending
<1>6. CASE SweepTick
  BY <1>6 DEF SweepTick, Changed, TypeOK, EndsInOrder, NoSave, Unlocked, Closed, HookOver, Flushed, Ending
<1>7. CASE SweeperEnds
  BY <1>7 DEF SweeperEnds, TypeOK, EndsInOrder, NoSave, Unlocked, Closed, HookOver, Flushed, Ending
<1>8. CASE Take
  BY <1>8 DEF Take, Changed, TypeOK, EndsInOrder, NoSave, Unlocked, Closed, HookOver, Flushed, Ending
<1>9. CASE Post
  BY <1>9 DEF Post, TypeOK, EndsInOrder, NoSave, Unlocked, Closed, HookOver, Flushed, Ending
<1>10. CASE HookEnds
  BY <1>10 DEF HookEnds, TypeOK, EndsInOrder, NoSave, Unlocked, Closed, HookOver, Flushed, Ending
<1>11. CASE Signal
  BY <1>11 DEF Signal, TypeOK, EndsInOrder, NoSave, Unlocked, Closed, HookOver, Flushed, Ending
<1>12. CASE ShutdownRequest
  BY <1>12 DEF ShutdownRequest, TypeOK, EndsInOrder, NoSave, Unlocked, Closed, HookOver, Flushed, Ending
<1>13. CASE ListenerFails
  BY <1>13 DEF ListenerFails, TypeOK, EndsInOrder, NoSave, Unlocked, Closed, HookOver, Flushed, Ending
<1>14. CASE StopServing
  BY <1>14 DEF StopServing, TypeOK, EndsInOrder, NoSave, Unlocked, Closed, HookOver, Flushed, Ending
<1>15. CASE SweepDone
  BY <1>15 DEF SweepDone, TypeOK, EndsInOrder, NoSave, Unlocked, Closed, HookOver, Flushed, Ending
<1>16. CASE Drained
  BY <1>16 DEF Drained, TypeOK, EndsInOrder, NoSave, Unlocked, Closed, HookOver, Flushed, Ending
<1>17. CASE BoardShutdown
  BY <1>17 DEF BoardShutdown, Changed, TypeOK, EndsInOrder, NoSave, Unlocked, Closed, HookOver, Flushed, Ending
<1>18. CASE FlushBegins
  BY <1>18 DEF FlushBegins, AfterFlush, TypeOK, EndsInOrder, NoSave, Unlocked, Closed, HookOver, Flushed, Ending
<1>19. CASE FlushEnds
  BY <1>19 DEF FlushEnds, Fault, AfterFlush, TypeOK, EndsInOrder, NoSave, Unlocked, Closed, HookOver, Flushed, Ending
<1>20. CASE WebhookCancel
  BY <1>20 DEF WebhookCancel, TypeOK, EndsInOrder, NoSave, Unlocked, Closed, HookOver, Flushed, Ending
<1>21. CASE WebhookWaited
  BY <1>21 DEF WebhookWaited, TypeOK, EndsInOrder, NoSave, Unlocked, Closed, HookOver, Flushed, Ending
<1>22. CASE BoardClose
  BY <1>22 DEF BoardClose, TypeOK, EndsInOrder, NoSave, Unlocked, Closed, HookOver, Flushed, Ending
<1>23. CASE Unlock
  BY <1>23 DEF Unlock, TypeOK, EndsInOrder, NoSave, Unlocked, Closed, HookOver, Flushed, Ending
<1>24. CASE Exit
  BY <1>24 DEF Exit, TypeOK, EndsInOrder, NoSave, Unlocked, Closed, HookOver, Flushed, Ending
<1>25. CASE UNCHANGED vars
  BY <1>25 DEF vars, TypeOK, EndsInOrder, NoSave, Unlocked, Closed, HookOver, Flushed, Ending
<1> QED
  BY <1>1, <1>2, <1>3, <1>4, <1>5, <1>6, <1>7, <1>8, <1>9, <1>10, <1>11, <1>12, <1>13, <1>14, <1>15, <1>16, <1>17, <1>18, <1>19, <1>20, <1>21, <1>22, <1>23, <1>24, <1>25 DEF Next, Main, Ended

\* No handler appears after the connections are drained.
LEMMA NoneLeftStep ==
  ASSUME TypeOK, EndsInOrder, NoneLeft, [Next]_vars
  PROVE  NoneLeft'
<1> USE ServingAssumption DEF life, handlers, saving, webhook, history, bounds
<1>1. CASE WriterSaves
  BY <1>1 DEF WriterSaves, TypeOK, EndsInOrder, NoneLeft, Active, Unlocked, Closed, HookOver, Flushed, Ending
<1>2. CASE WriterStored
  BY <1>2 DEF WriterStored, Fault, TypeOK, EndsInOrder, NoneLeft, Active, Unlocked, Closed, HookOver, Flushed, Ending
<1>3. ASSUME NEW r \in Requests, Accept(r) PROVE NoneLeft'
  BY <1>3 DEF Accept, TypeOK, EndsInOrder, NoneLeft, Active, Unlocked, Closed, HookOver, Flushed, Ending
<1>4. ASSUME NEW r \in Requests, Handle(r) PROVE NoneLeft'
  BY <1>4 DEF Handle, Changed, TypeOK, EndsInOrder, NoneLeft, Active, Unlocked, Closed, HookOver, Flushed, Ending
<1>5. ASSUME NEW r \in Requests, Reply(r) PROVE NoneLeft'
  BY <1>5 DEF Reply, TypeOK, EndsInOrder, NoneLeft, Active, Unlocked, Closed, HookOver, Flushed, Ending
<1>6. CASE SweepTick
  BY <1>6 DEF SweepTick, Changed, TypeOK, EndsInOrder, NoneLeft, Active, Unlocked, Closed, HookOver, Flushed, Ending
<1>7. CASE SweeperEnds
  BY <1>7 DEF SweeperEnds, TypeOK, EndsInOrder, NoneLeft, Active, Unlocked, Closed, HookOver, Flushed, Ending
<1>8. CASE Take
  BY <1>8 DEF Take, Changed, TypeOK, EndsInOrder, NoneLeft, Active, Unlocked, Closed, HookOver, Flushed, Ending
<1>9. CASE Post
  BY <1>9 DEF Post, TypeOK, EndsInOrder, NoneLeft, Active, Unlocked, Closed, HookOver, Flushed, Ending
<1>10. CASE HookEnds
  BY <1>10 DEF HookEnds, TypeOK, EndsInOrder, NoneLeft, Active, Unlocked, Closed, HookOver, Flushed, Ending
<1>11. CASE Signal
  BY <1>11 DEF Signal, TypeOK, EndsInOrder, NoneLeft, Active, Unlocked, Closed, HookOver, Flushed, Ending
<1>12. CASE ShutdownRequest
  BY <1>12 DEF ShutdownRequest, TypeOK, EndsInOrder, NoneLeft, Active, Unlocked, Closed, HookOver, Flushed, Ending
<1>13. CASE ListenerFails
  BY <1>13 DEF ListenerFails, TypeOK, EndsInOrder, NoneLeft, Active, Unlocked, Closed, HookOver, Flushed, Ending
<1>14. CASE StopServing
  BY <1>14 DEF StopServing, TypeOK, EndsInOrder, NoneLeft, Active, Unlocked, Closed, HookOver, Flushed, Ending
<1>15. CASE SweepDone
  BY <1>15 DEF SweepDone, TypeOK, EndsInOrder, NoneLeft, Active, Unlocked, Closed, HookOver, Flushed, Ending
<1>16. CASE Drained
  BY <1>16 DEF Drained, TypeOK, EndsInOrder, NoneLeft, Active, Unlocked, Closed, HookOver, Flushed, Ending
<1>17. CASE BoardShutdown
  BY <1>17 DEF BoardShutdown, Changed, TypeOK, EndsInOrder, NoneLeft, Active, Unlocked, Closed, HookOver, Flushed, Ending
<1>18. CASE FlushBegins
  BY <1>18 DEF FlushBegins, AfterFlush, TypeOK, EndsInOrder, NoneLeft, Active, Unlocked, Closed, HookOver, Flushed, Ending
<1>19. CASE FlushEnds
  BY <1>19 DEF FlushEnds, Fault, AfterFlush, TypeOK, EndsInOrder, NoneLeft, Active, Unlocked, Closed, HookOver, Flushed, Ending
<1>20. CASE WebhookCancel
  BY <1>20 DEF WebhookCancel, TypeOK, EndsInOrder, NoneLeft, Active, Unlocked, Closed, HookOver, Flushed, Ending
<1>21. CASE WebhookWaited
  BY <1>21 DEF WebhookWaited, TypeOK, EndsInOrder, NoneLeft, Active, Unlocked, Closed, HookOver, Flushed, Ending
<1>22. CASE BoardClose
  BY <1>22 DEF BoardClose, TypeOK, EndsInOrder, NoneLeft, Active, Unlocked, Closed, HookOver, Flushed, Ending
<1>23. CASE Unlock
  BY <1>23 DEF Unlock, TypeOK, EndsInOrder, NoneLeft, Active, Unlocked, Closed, HookOver, Flushed, Ending
<1>24. CASE Exit
  BY <1>24 DEF Exit, TypeOK, EndsInOrder, NoneLeft, Active, Unlocked, Closed, HookOver, Flushed, Ending
<1>25. CASE UNCHANGED vars
  BY <1>25 DEF vars, TypeOK, EndsInOrder, NoneLeft, Active, Unlocked, Closed, HookOver, Flushed, Ending
<1> QED
  BY <1>1, <1>2, <1>3, <1>4, <1>5, <1>6, <1>7, <1>8, <1>9, <1>10, <1>11, <1>12, <1>13, <1>14, <1>15, <1>16, <1>17, <1>18, <1>19, <1>20, <1>21, <1>22, <1>23, <1>24, <1>25 DEF Next, Main, Ended

\* No reply reaches a client after a graceful stop.
LEMMA NobodyStep ==
  ASSUME TypeOK, EndsInOrder, NoneLeft, NobodyAnswered, [Next]_vars
  PROVE  NobodyAnswered'
<1> USE ServingAssumption DEF life, handlers, saving, webhook, history, bounds
<1>1. CASE WriterSaves
  BY <1>1 DEF WriterSaves, TypeOK, EndsInOrder, NoneLeft, NobodyAnswered, Unlocked, Closed, HookOver, Flushed, Ending
<1>2. CASE WriterStored
  BY <1>2 DEF WriterStored, Fault, TypeOK, EndsInOrder, NoneLeft, NobodyAnswered, Unlocked, Closed, HookOver, Flushed, Ending
<1>3. ASSUME NEW r \in Requests, Accept(r) PROVE NobodyAnswered'
  BY <1>3 DEF Accept, TypeOK, EndsInOrder, NoneLeft, NobodyAnswered, Unlocked, Closed, HookOver, Flushed, Ending
<1>4. ASSUME NEW r \in Requests, Handle(r) PROVE NobodyAnswered'
  BY <1>4 DEF Handle, Changed, TypeOK, EndsInOrder, NoneLeft, NobodyAnswered, Unlocked, Closed, HookOver, Flushed, Ending
<1>5. ASSUME NEW r \in Requests, Reply(r) PROVE NobodyAnswered'
  BY <1>5 DEF Reply, TypeOK, EndsInOrder, NoneLeft, NobodyAnswered, Unlocked, Closed, HookOver, Flushed, Ending
<1>6. CASE SweepTick
  BY <1>6 DEF SweepTick, Changed, TypeOK, EndsInOrder, NoneLeft, NobodyAnswered, Unlocked, Closed, HookOver, Flushed, Ending
<1>7. CASE SweeperEnds
  BY <1>7 DEF SweeperEnds, TypeOK, EndsInOrder, NoneLeft, NobodyAnswered, Unlocked, Closed, HookOver, Flushed, Ending
<1>8. CASE Take
  BY <1>8 DEF Take, Changed, TypeOK, EndsInOrder, NoneLeft, NobodyAnswered, Unlocked, Closed, HookOver, Flushed, Ending
<1>9. CASE Post
  BY <1>9 DEF Post, TypeOK, EndsInOrder, NoneLeft, NobodyAnswered, Unlocked, Closed, HookOver, Flushed, Ending
<1>10. CASE HookEnds
  BY <1>10 DEF HookEnds, TypeOK, EndsInOrder, NoneLeft, NobodyAnswered, Unlocked, Closed, HookOver, Flushed, Ending
<1>11. CASE Signal
  BY <1>11 DEF Signal, TypeOK, EndsInOrder, NoneLeft, NobodyAnswered, Unlocked, Closed, HookOver, Flushed, Ending
<1>12. CASE ShutdownRequest
  BY <1>12 DEF ShutdownRequest, TypeOK, EndsInOrder, NoneLeft, NobodyAnswered, Unlocked, Closed, HookOver, Flushed, Ending
<1>13. CASE ListenerFails
  BY <1>13 DEF ListenerFails, TypeOK, EndsInOrder, NoneLeft, NobodyAnswered, Unlocked, Closed, HookOver, Flushed, Ending
<1>14. CASE StopServing
  BY <1>14 DEF StopServing, TypeOK, EndsInOrder, NoneLeft, NobodyAnswered, Unlocked, Closed, HookOver, Flushed, Ending
<1>15. CASE SweepDone
  BY <1>15 DEF SweepDone, TypeOK, EndsInOrder, NoneLeft, NobodyAnswered, Unlocked, Closed, HookOver, Flushed, Ending
<1>16. CASE Drained
  BY <1>16 DEF Drained, TypeOK, EndsInOrder, NoneLeft, NobodyAnswered, Unlocked, Closed, HookOver, Flushed, Ending
<1>17. CASE BoardShutdown
  BY <1>17 DEF BoardShutdown, Changed, TypeOK, EndsInOrder, NoneLeft, NobodyAnswered, Unlocked, Closed, HookOver, Flushed, Ending
<1>18. CASE FlushBegins
  BY <1>18 DEF FlushBegins, AfterFlush, TypeOK, EndsInOrder, NoneLeft, NobodyAnswered, Unlocked, Closed, HookOver, Flushed, Ending
<1>19. CASE FlushEnds
  BY <1>19 DEF FlushEnds, Fault, AfterFlush, TypeOK, EndsInOrder, NoneLeft, NobodyAnswered, Unlocked, Closed, HookOver, Flushed, Ending
<1>20. CASE WebhookCancel
  BY <1>20 DEF WebhookCancel, TypeOK, EndsInOrder, NoneLeft, NobodyAnswered, Unlocked, Closed, HookOver, Flushed, Ending
<1>21. CASE WebhookWaited
  BY <1>21 DEF WebhookWaited, TypeOK, EndsInOrder, NoneLeft, NobodyAnswered, Unlocked, Closed, HookOver, Flushed, Ending
<1>22. CASE BoardClose
  BY <1>22 DEF BoardClose, TypeOK, EndsInOrder, NoneLeft, NobodyAnswered, Unlocked, Closed, HookOver, Flushed, Ending
<1>23. CASE Unlock
  BY <1>23 DEF Unlock, TypeOK, EndsInOrder, NoneLeft, NobodyAnswered, Unlocked, Closed, HookOver, Flushed, Ending
<1>24. CASE Exit
  BY <1>24 DEF Exit, TypeOK, EndsInOrder, NoneLeft, NobodyAnswered, Unlocked, Closed, HookOver, Flushed, Ending
<1>25. CASE UNCHANGED vars
  BY <1>25 DEF vars, TypeOK, EndsInOrder, NoneLeft, NobodyAnswered, Unlocked, Closed, HookOver, Flushed, Ending
<1> QED
  BY <1>1, <1>2, <1>3, <1>4, <1>5, <1>6, <1>7, <1>8, <1>9, <1>10, <1>11, <1>12, <1>13, <1>14, <1>15, <1>16, <1>17, <1>18, <1>19, <1>20, <1>21, <1>22, <1>23, <1>24, <1>25 DEF Next, Main, Ended

\* Answers are about changes that were made.
LEMMA MadeStep ==
  ASSUME TypeOK, AnsweredIsMade, [Next]_vars
  PROVE  AnsweredIsMade'
<1> USE ServingAssumption DEF life, handlers, saving, webhook, history, bounds
<1>1. CASE WriterSaves
  BY <1>1 DEF WriterSaves, TypeOK, AnsweredIsMade, NoSave
<1>2. CASE WriterStored
  BY <1>2 DEF WriterStored, Fault, TypeOK, AnsweredIsMade, NoSave
<1>3. ASSUME NEW r \in Requests, Accept(r) PROVE AnsweredIsMade'
  BY <1>3 DEF Accept, TypeOK, AnsweredIsMade, NoSave
<1>4. ASSUME NEW r \in Requests, Handle(r) PROVE AnsweredIsMade'
  BY <1>4 DEF Handle, Changed, TypeOK, AnsweredIsMade, NoSave
<1>5. ASSUME NEW r \in Requests, Reply(r) PROVE AnsweredIsMade'
  BY <1>5 DEF Reply, TypeOK, AnsweredIsMade, NoSave
<1>6. CASE SweepTick
  BY <1>6 DEF SweepTick, Changed, TypeOK, AnsweredIsMade, NoSave
<1>7. CASE SweeperEnds
  BY <1>7 DEF SweeperEnds, TypeOK, AnsweredIsMade, NoSave
<1>8. CASE Take
  BY <1>8 DEF Take, Changed, TypeOK, AnsweredIsMade, NoSave
<1>9. CASE Post
  BY <1>9 DEF Post, TypeOK, AnsweredIsMade, NoSave
<1>10. CASE HookEnds
  BY <1>10 DEF HookEnds, TypeOK, AnsweredIsMade, NoSave
<1>11. CASE Signal
  BY <1>11 DEF Signal, TypeOK, AnsweredIsMade, NoSave
<1>12. CASE ShutdownRequest
  BY <1>12 DEF ShutdownRequest, TypeOK, AnsweredIsMade, NoSave
<1>13. CASE ListenerFails
  BY <1>13 DEF ListenerFails, TypeOK, AnsweredIsMade, NoSave
<1>14. CASE StopServing
  BY <1>14 DEF StopServing, TypeOK, AnsweredIsMade, NoSave
<1>15. CASE SweepDone
  BY <1>15 DEF SweepDone, TypeOK, AnsweredIsMade, NoSave
<1>16. CASE Drained
  BY <1>16 DEF Drained, TypeOK, AnsweredIsMade, NoSave
<1>17. CASE BoardShutdown
  BY <1>17 DEF BoardShutdown, Changed, TypeOK, AnsweredIsMade, NoSave
<1>18. CASE FlushBegins
  BY <1>18 DEF FlushBegins, AfterFlush, TypeOK, AnsweredIsMade, NoSave
<1>19. CASE FlushEnds
  BY <1>19 DEF FlushEnds, Fault, AfterFlush, TypeOK, AnsweredIsMade, NoSave
<1>20. CASE WebhookCancel
  BY <1>20 DEF WebhookCancel, TypeOK, AnsweredIsMade, NoSave
<1>21. CASE WebhookWaited
  BY <1>21 DEF WebhookWaited, TypeOK, AnsweredIsMade, NoSave
<1>22. CASE BoardClose
  BY <1>22 DEF BoardClose, TypeOK, AnsweredIsMade, NoSave
<1>23. CASE Unlock
  BY <1>23 DEF Unlock, TypeOK, AnsweredIsMade, NoSave
<1>24. CASE Exit
  BY <1>24 DEF Exit, TypeOK, AnsweredIsMade, NoSave
<1>25. CASE UNCHANGED vars
  BY <1>25 DEF vars, TypeOK, AnsweredIsMade, NoSave
<1> QED
  BY <1>1, <1>2, <1>3, <1>4, <1>5, <1>6, <1>7, <1>8, <1>9, <1>10, <1>11, <1>12, <1>13, <1>14, <1>15, <1>16, <1>17, <1>18, <1>19, <1>20, <1>21, <1>22, <1>23, <1>24, <1>25 DEF Next, Main, Ended

\* The final save and those after it have what was answered.
LEMMA FinalStep ==
  ASSUME TypeOK, EndsInOrder, NobodyAnswered, AnsweredIsMade, FinalSaveHasAll, [Next]_vars
  PROVE  FinalSaveHasAll'
<1> USE ServingAssumption DEF life, handlers, saving, webhook, history, bounds
<1>1. CASE WriterSaves
  BY <1>1 DEF WriterSaves, TypeOK, EndsInOrder, NobodyAnswered, AnsweredIsMade, FinalSaveHasAll, AnsweredIsIn, NoSave, Unlocked, Closed, HookOver, Flushed, Ending
<1>2. CASE WriterStored
  BY <1>2 DEF WriterStored, Fault, TypeOK, EndsInOrder, NobodyAnswered, AnsweredIsMade, FinalSaveHasAll, AnsweredIsIn, NoSave, Unlocked, Closed, HookOver, Flushed, Ending
<1>3. ASSUME NEW r \in Requests, Accept(r) PROVE FinalSaveHasAll'
  BY <1>3 DEF Accept, TypeOK, EndsInOrder, NobodyAnswered, AnsweredIsMade, FinalSaveHasAll, AnsweredIsIn, NoSave, Unlocked, Closed, HookOver, Flushed, Ending
<1>4. ASSUME NEW r \in Requests, Handle(r) PROVE FinalSaveHasAll'
  BY <1>4 DEF Handle, Changed, TypeOK, EndsInOrder, NobodyAnswered, AnsweredIsMade, FinalSaveHasAll, AnsweredIsIn, NoSave, Unlocked, Closed, HookOver, Flushed, Ending
<1>5. ASSUME NEW r \in Requests, Reply(r) PROVE FinalSaveHasAll'
  BY <1>5 DEF Reply, TypeOK, EndsInOrder, NobodyAnswered, AnsweredIsMade, FinalSaveHasAll, AnsweredIsIn, NoSave, Unlocked, Closed, HookOver, Flushed, Ending
<1>6. CASE SweepTick
  BY <1>6 DEF SweepTick, Changed, TypeOK, EndsInOrder, NobodyAnswered, AnsweredIsMade, FinalSaveHasAll, AnsweredIsIn, NoSave, Unlocked, Closed, HookOver, Flushed, Ending
<1>7. CASE SweeperEnds
  BY <1>7 DEF SweeperEnds, TypeOK, EndsInOrder, NobodyAnswered, AnsweredIsMade, FinalSaveHasAll, AnsweredIsIn, NoSave, Unlocked, Closed, HookOver, Flushed, Ending
<1>8. CASE Take
  BY <1>8 DEF Take, Changed, TypeOK, EndsInOrder, NobodyAnswered, AnsweredIsMade, FinalSaveHasAll, AnsweredIsIn, NoSave, Unlocked, Closed, HookOver, Flushed, Ending
<1>9. CASE Post
  BY <1>9 DEF Post, TypeOK, EndsInOrder, NobodyAnswered, AnsweredIsMade, FinalSaveHasAll, AnsweredIsIn, NoSave, Unlocked, Closed, HookOver, Flushed, Ending
<1>10. CASE HookEnds
  BY <1>10 DEF HookEnds, TypeOK, EndsInOrder, NobodyAnswered, AnsweredIsMade, FinalSaveHasAll, AnsweredIsIn, NoSave, Unlocked, Closed, HookOver, Flushed, Ending
<1>11. CASE Signal
  BY <1>11 DEF Signal, TypeOK, EndsInOrder, NobodyAnswered, AnsweredIsMade, FinalSaveHasAll, AnsweredIsIn, NoSave, Unlocked, Closed, HookOver, Flushed, Ending
<1>12. CASE ShutdownRequest
  BY <1>12 DEF ShutdownRequest, TypeOK, EndsInOrder, NobodyAnswered, AnsweredIsMade, FinalSaveHasAll, AnsweredIsIn, NoSave, Unlocked, Closed, HookOver, Flushed, Ending
<1>13. CASE ListenerFails
  BY <1>13 DEF ListenerFails, TypeOK, EndsInOrder, NobodyAnswered, AnsweredIsMade, FinalSaveHasAll, AnsweredIsIn, NoSave, Unlocked, Closed, HookOver, Flushed, Ending
<1>14. CASE StopServing
  BY <1>14 DEF StopServing, TypeOK, EndsInOrder, NobodyAnswered, AnsweredIsMade, FinalSaveHasAll, AnsweredIsIn, NoSave, Unlocked, Closed, HookOver, Flushed, Ending
<1>15. CASE SweepDone
  BY <1>15 DEF SweepDone, TypeOK, EndsInOrder, NobodyAnswered, AnsweredIsMade, FinalSaveHasAll, AnsweredIsIn, NoSave, Unlocked, Closed, HookOver, Flushed, Ending
<1>16. CASE Drained
  BY <1>16 DEF Drained, TypeOK, EndsInOrder, NobodyAnswered, AnsweredIsMade, FinalSaveHasAll, AnsweredIsIn, NoSave, Unlocked, Closed, HookOver, Flushed, Ending
<1>17. CASE BoardShutdown
  BY <1>17 DEF BoardShutdown, Changed, TypeOK, EndsInOrder, NobodyAnswered, AnsweredIsMade, FinalSaveHasAll, AnsweredIsIn, NoSave, Unlocked, Closed, HookOver, Flushed, Ending
<1>18. CASE FlushBegins
  BY <1>18 DEF FlushBegins, AfterFlush, TypeOK, EndsInOrder, NobodyAnswered, AnsweredIsMade, FinalSaveHasAll, AnsweredIsIn, NoSave, Unlocked, Closed, HookOver, Flushed, Ending
<1>19. CASE FlushEnds
  BY <1>19 DEF FlushEnds, Fault, AfterFlush, TypeOK, EndsInOrder, NobodyAnswered, AnsweredIsMade, FinalSaveHasAll, AnsweredIsIn, NoSave, Unlocked, Closed, HookOver, Flushed, Ending
<1>20. CASE WebhookCancel
  BY <1>20 DEF WebhookCancel, TypeOK, EndsInOrder, NobodyAnswered, AnsweredIsMade, FinalSaveHasAll, AnsweredIsIn, NoSave, Unlocked, Closed, HookOver, Flushed, Ending
<1>21. CASE WebhookWaited
  BY <1>21 DEF WebhookWaited, TypeOK, EndsInOrder, NobodyAnswered, AnsweredIsMade, FinalSaveHasAll, AnsweredIsIn, NoSave, Unlocked, Closed, HookOver, Flushed, Ending
<1>22. CASE BoardClose
  BY <1>22 DEF BoardClose, TypeOK, EndsInOrder, NobodyAnswered, AnsweredIsMade, FinalSaveHasAll, AnsweredIsIn, NoSave, Unlocked, Closed, HookOver, Flushed, Ending
<1>23. CASE Unlock
  BY <1>23 DEF Unlock, TypeOK, EndsInOrder, NobodyAnswered, AnsweredIsMade, FinalSaveHasAll, AnsweredIsIn, NoSave, Unlocked, Closed, HookOver, Flushed, Ending
<1>24. CASE Exit
  BY <1>24 DEF Exit, TypeOK, EndsInOrder, NobodyAnswered, AnsweredIsMade, FinalSaveHasAll, AnsweredIsIn, NoSave, Unlocked, Closed, HookOver, Flushed, Ending
<1>25. CASE UNCHANGED vars
  BY <1>25 DEF vars, TypeOK, EndsInOrder, NobodyAnswered, AnsweredIsMade, FinalSaveHasAll, AnsweredIsIn, NoSave, Unlocked, Closed, HookOver, Flushed, Ending
<1> QED
  BY <1>1, <1>2, <1>3, <1>4, <1>5, <1>6, <1>7, <1>8, <1>9, <1>10, <1>11, <1>12, <1>13, <1>14, <1>15, <1>16, <1>17, <1>18, <1>19, <1>20, <1>21, <1>22, <1>23, <1>24, <1>25 DEF Next, Main, Ended

-----------------------------------------------------------------------------
(* The theorems.                                                           *)

\* The invariant is inductive.
LEMMA ServingInvHolds == Spec => []ServingInv
<1>1. Init => ServingInv
  <2> SUFFICES ASSUME Init PROVE ServingInv
    OBVIOUS
  <2>1. /\ cancelled \in BOOLEAN /\ done \in BOOLEAN /\ listening \in BOOLEAN /\ broken \in BOOLEAN
        /\ sweeper \in BOOLEAN /\ closed \in BOOLEAN /\ locked \in BOOLEAN
        /\ left \in BOOLEAN /\ saveFailed \in BOOLEAN
    BY DEF Init
  <2>2. /\ main \in Mains /\ version \in Nat /\ disk \in 0..version
        /\ snap \in [by : {"none", "writer", "main"}, version : Nat]
        /\ hook \in [at : {"wait", "post", "ended"}, since : Nat]
        /\ chan \in Seq(EventKinds) /\ Len(chan) <= Buffer
        /\ sweeps \in Nat /\ faults \in 0..MaxFaults
    BY ServingAssumption DEF Init, Mains, NoSave, Waiting, NoWebhook
  <2>3. /\ req \in [Requests -> {"none", "handling", "changed", "returned"}]
        /\ change \in [Requests -> Nat] /\ open \subseteq Requests /\ acked \subseteq Requests
    BY DEF Init
  <2>4. TypeOK
    BY <2>1, <2>2, <2>3 DEF TypeOK
  <2>5. EndsInOrder /\ NoneLeft /\ NobodyAnswered
    BY DEF Init, NoSave, EndsInOrder, NoneLeft, NobodyAnswered, Unlocked, Closed, HookOver,
           Flushed, Ending
  <2>6. AnsweredIsMade /\ FinalSaveHasAll
    BY DEF Init, NoSave, AnsweredIsMade, FinalSaveHasAll, AnsweredIsIn
  <2> QED
    BY <2>4, <2>5, <2>6 DEF ServingInv
<1>2. ServingInv /\ [Next]_vars => ServingInv'
  BY TypeStep, OrderStep, NoneLeftStep, NobodyStep, MadeStep, FinalStep DEF ServingInv
<1> QED
  BY <1>1, <1>2, PTL DEF Spec

\* Serving keeps its types: the disk is never ahead of the board, and the
\* webhook's channel never holds more than it can.
THEOREM ServingTypeCorrect == Spec => []TypeOK
<1>1. ServingInv => TypeOK
  BY DEF ServingInv
<1> QED
  BY <1>1, ServingInvHolds, PTL

\* A graceful stop loses nothing that was answered, whatever requests, sweeps,
\* webhook deliveries and saves it interrupts.
THEOREM GracefulStopLosesNothing == Spec => []AckedIsSaved
<1>1. ServingInv => AckedIsSaved
  BY DEF ServingInv, FinalSaveHasAll, AnsweredIsIn, AckedIsSaved, Flushed, HookOver, Closed,
         Unlocked
<1> QED
  BY <1>1, ServingInvHolds, PTL

\* The file changes only under the lock, unless a handler outlived Serve.
THEOREM SavesAreCovered == Spec => LockCoversSaves
<1>1. ASSUME ServingInv, [Next]_vars, disk' # disk
      PROVE  locked \/ left
  <2> USE DEF life, handlers, saving, webhook, history, bounds
  <2> SUFFICES ASSUME ~locked, ~left PROVE FALSE
    OBVIOUS
  <2>1. main \in Unlocked /\ closed /\ snap.by = "none" /\ hook.at = "ended" /\ ~sweeper
    BY <1>1 DEF ServingInv, EndsInOrder, TypeOK, Unlocked, Closed, HookOver, Flushed, Ending
  <2>2. Active = {}
    BY <1>1, <2>1 DEF ServingInv, NoneLeft, Unlocked, Closed, HookOver, Flushed, Ending
  <2>3. ~WriterStored /\ ~FlushEnds /\ ~SweepTick /\ ~Take
    BY <2>1 DEF WriterStored, FlushEnds, SweepTick, Take
  <2>4. ~BoardShutdown
    BY <2>1 DEF BoardShutdown, Unlocked
  <2>5. \A r \in Requests : ~Handle(r)
    BY <2>2 DEF Handle, Active
  <2>6. disk' = disk
    BY <1>1, <2>3, <2>4, <2>5
       DEF Next, Main, Ended, vars, WriterSaves, Accept, Reply, SweeperEnds, Post, HookEnds,
           Signal, ShutdownRequest, ListenerFails, StopServing, SweepDone, Drained, FlushBegins,
           WebhookCancel, WebhookWaited, BoardClose, Unlock, Exit
  <2> QED
    BY <1>1, <2>6
<1>2. ServingInv /\ [Next]_vars => [disk' # disk => locked \/ left]_disk
  BY <1>1
<1> QED
  BY <1>2, ServingInvHolds, PTL DEF Spec, LockCoversSaves
=============================================================================
