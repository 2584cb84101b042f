-------------------------- MODULE SaveQueueProofs --------------------------
(***************************************************************************)
(* Proofs about SaveQueue, for any number of callers, any MaxActivity, a   *)
(* disk that fails at will, and both save modes: types; the archive is     *)
(* always ahead of the log; and, in async mode, what is clean is on disk,  *)
(* a Flush that returns nil has saved what it had to, and the disk never   *)
(* goes back.  The last three need that nobody changes a board of which    *)
(* Close has stopped the writer: such a change is saved under the board    *)
(* lock but not under saveMu, and a save that is under way overwrites it.  *)
(***************************************************************************)
EXTENDS SaveQueue, TLAPS

-----------------------------------------------------------------------------
(* Types, and who is inside saveNow.                                       *)

\* However a change is saved, the flags and the disk keep their types.
LEMMA PersistType ==
  ASSUME TypeOK, NEW v \in Nat, Persist(v)
  PROVE  disk' \in Saved /\ dirty' \in BOOLEAN /\ failed' \in BOOLEAN /\ kick' \in BOOLEAN
<1>1. CASE QueuedChange
  BY <1>1 DEF QueuedChange, MarkDirty, TypeOK
<1>2. CASE InlineSave(v)
  <2>1. disk' = [version |-> v, through |-> through] /\ kick' = kick
    BY <1>2 DEF InlineSave
  <2>2. dirty' = FALSE /\ failed' = FALSE
    BY <1>2 DEF InlineSave
  <2> QED
    BY <2>1, <2>2 DEF TypeOK, Saved
<1>3. CASE InlineSaveFails
  BY <1>3 DEF InlineSaveFails, MarkDirty, TypeOK
<1> QED
  BY <1>1, <1>2, <1>3 DEF Persist

\* Every step keeps the types.
LEMMA TypeStep ==
  ASSUME TypeOK, [Next]_vars
  PROVE  TypeOK'
<1> USE SaveQueueAssumption DEF Threads, stateVars, flagVars, loopVars, callVars, saveVars
<1>1. CASE Change
  <2>1. version + 1 \in Nat /\ Persist(version + 1)
    BY <1>1 DEF Change, TypeOK
  <2>2. disk' \in Saved /\ dirty' \in BOOLEAN /\ failed' \in BOOLEAN /\ kick' \in BOOLEAN
    BY <2>1, PersistType
  <2> QED
    BY <1>1, <2>1, <2>2 DEF Change, TypeOK
<1>2. CASE SilentSweep
  BY <1>2 DEF SilentSweep, MayChange, TypeOK, Saved
<1>3. CASE WriterLoop
  <2>1. CASE WriterWakes
    BY <2>1 DEF WriterWakes, TypeOK
  <2>2. CASE WriterSettles
    BY <2>2 DEF WriterSettles, TypeOK
  <2>3. CASE WriterTimer
    BY <2>3 DEF WriterTimer, TypeOK
  <2>4. CASE WriterStops
    BY <2>4 DEF WriterStops, TypeOK
  <2> QED
    BY <1>3, <2>1, <2>2, <2>3, <2>4 DEF WriterLoop
<1>4. ASSUME NEW c \in Callers, Flush(c) \/ CloseAgain(c) PROVE TypeOK'
  <2>1. /\ EnterFlush(c)
        /\ UNCHANGED <<stateVars, disk, flagVars, kick, loopVars, saveVars>>
    BY <1>4 DEF Flush, CloseAgain
  <2>2. Goal \in [marked : Nat, version : Nat]
    BY <2>1 DEF Goal, TypeOK
  <2>3. /\ caller' \in [Callers -> {"idle", "flush", "drain"}]
        /\ goal' \in [Callers -> [marked : Nat, version : Nat]]
        /\ result' \in [Callers -> {"none", "ok", "error"}]
    BY <2>1, <2>2 DEF EnterFlush, TypeOK
  <2> QED
    BY <2>1, <2>3 DEF TypeOK
<1>5. ASSUME NEW c \in Callers, Shutdown(c) PROVE TypeOK'
  <2>1. version + 1 \in Nat /\ Persist(version + 1)
    BY <1>5 DEF Shutdown, TypeOK
  <2>2. disk' \in Saved /\ dirty' \in BOOLEAN /\ failed' \in BOOLEAN /\ kick' \in BOOLEAN
    BY <2>1, PersistType
  <2> QED
    BY <1>5, <2>1, <2>2 DEF Shutdown, EnterFlush, Goal, TypeOK
<1>6. ASSUME NEW c \in Callers, CloseFirst(c) PROVE TypeOK'
  BY <1>6 DEF CloseFirst, TypeOK, Saved
<1>7. ASSUME NEW c \in Callers, CloseDrained(c) PROVE TypeOK'
  BY <1>7 DEF CloseDrained, EnterFlush, Goal, TypeOK, Saved
<1>8. ASSUME NEW h \in Threads, LockSaveMu(h) PROVE TypeOK'
  BY <1>8 DEF LockSaveMu, InSaveNow, TypeOK, Saved
<1>9. ASSUME NEW h \in Threads, ArchiveCheck(h) PROVE TypeOK'
  BY <1>9 DEF ArchiveCheck, At, TypeOK, Saved
<1>10. ASSUME NEW h \in Threads, DropArchived(h) PROVE TypeOK'
  BY <1>10 DEF DropArchived, At, MarkDirty, TypeOK, Saved
<1>11. ASSUME NEW h \in Threads, TakeSnapshot(h) PROVE TypeOK'
  BY <1>11 DEF TakeSnapshot, At, TypeOK, Saved
<1>12. ASSUME NEW h \in Threads, NothingToSave(h) PROVE TypeOK'
  BY <1>12 DEF NothingToSave, At, Return, TypeOK, Saved
<1>13. ASSUME NEW h \in Threads, FinishSave(h) PROVE TypeOK'
  BY <1>13 DEF FinishSave, At, Return, TypeOK, Saved
<1>14. ASSUME NEW h \in Threads, FinishFailedSave(h) PROVE TypeOK'
  BY <1>14 DEF FinishFailedSave, At, Return, TypeOK, Saved
<1>15. ASSUME NEW h \in Threads, AppendArchive(h) PROVE TypeOK'
  BY <1>15 DEF AppendArchive, At, TypeOK, Saved
<1>16. ASSUME NEW h \in Threads, StoreSave(h) PROVE TypeOK'
  BY <1>16 DEF StoreSave, At, TypeOK, Saved
<1>17. ASSUME NEW h \in Threads, DiskFails(h) PROVE TypeOK'
  BY <1>17 DEF DiskFails, AppendArchiveFails, StoreSaveFails, At, Return, TypeOK, Saved
<1>18. CASE UNCHANGED vars
  BY <1>18 DEF vars, TypeOK, Saved
<1> QED
  BY <1>1, <1>2, <1>3, <1>4, <1>5, <1>6, <1>7, <1>8, <1>9, <1>10, <1>11, <1>12, <1>13, <1>14, <1>15, <1>16, <1>17, <1>18 DEF Next, SaveStep

\* SaveQueue's variables always have their types, and saveMu is held exactly
\* while its holder is inside saveNow.
THEOREM SaveTypeCorrect == Spec => []TypeOK
<1>1. Init => TypeOK
  <2> SUFFICES ASSUME Init PROVE TypeOK
    OBVIOUS
  <2>1. /\ dirty \in BOOLEAN /\ failed \in BOOLEAN /\ kick \in BOOLEAN
        /\ stopping \in BOOLEAN /\ closed \in BOOLEAN
    BY DEF Init
  <2>2. disk \in Saved /\ snap \in Saved
    BY DEF Init, Saved
  <2>3. /\ mode \in Modes /\ saver = "none" /\ stage = "free"
        /\ writer \in {"idle", "settle", "save", "backoff", "exit"}
        /\ caller \in [Callers -> {"idle", "flush", "drain"}]
        /\ goal \in [Callers -> [marked : Nat, version : Nat]]
        /\ result \in [Callers -> {"none", "ok", "error"}]
    BY DEF Init
  <2>4. version \in Nat /\ marked \in Nat /\ through \in Nat /\ archive \in Nat
    BY DEF Init
  <2> QED
    BY <2>1, <2>2, <2>3, <2>4 DEF TypeOK
<1>2. TypeOK /\ [Next]_vars => TypeOK'
  BY TypeStep
<1> QED
  BY <1>1, <1>2, PTL DEF Spec

\* The holder of saveMu is a thread that has called saveNow.
SaverInside ==
  /\ saver = "writer" => writer = "save"
  /\ \A c \in Callers : saver = c => caller[c] = "flush"

\* Close is the only one to set closed, after it has told the writer to stop.
CloseStops ==
  /\ closed => stopping
  /\ \A c \in Callers : caller[c] = "drain" => stopping

\* Nothing is marked, wanted or saved that has not been made.
Counted ==
  /\ marked <= version /\ disk.version <= version
  /\ stage = "write" => snap.version <= version
  /\ \A c \in Callers : goal[c].marked <= marked

\* Every step keeps SaverInside.
LEMMA SaverStep ==
  ASSUME TypeOK, SaverInside, [Next]_vars
  PROVE  SaverInside'
<1> USE SaveQueueAssumption DEF Threads, stateVars, flagVars, loopVars, callVars, saveVars
<1>1. CASE Change
  BY <1>1 DEF Change, Persist, QueuedChange, InlineSave, InlineSaveFails, MarkDirty, MayChange, Inline, TypeOK, SaverInside
<1>2. CASE SilentSweep
  BY <1>2 DEF SilentSweep, MayChange, TypeOK, SaverInside
<1>3. CASE WriterLoop
  BY <1>3 DEF WriterLoop, WriterWakes, WriterSettles, WriterTimer, WriterStops, TypeOK, SaverInside
<1>4. ASSUME NEW c \in Callers, Flush(c) \/ CloseAgain(c) PROVE SaverInside'
  BY <1>4 DEF Flush, CloseAgain, EnterFlush, Goal, TypeOK, SaverInside
<1>5. ASSUME NEW c \in Callers, Shutdown(c) PROVE SaverInside'
  BY <1>5 DEF Shutdown, EnterFlush, Goal, Persist, QueuedChange, InlineSave, InlineSaveFails, MarkDirty, MayChange, Inline, TypeOK, SaverInside
<1>6. ASSUME NEW c \in Callers, CloseFirst(c) PROVE SaverInside'
  BY <1>6 DEF CloseFirst, TypeOK, SaverInside
<1>7. ASSUME NEW c \in Callers, CloseDrained(c) PROVE SaverInside'
  BY <1>7 DEF CloseDrained, EnterFlush, Goal, TypeOK, SaverInside
<1>8. ASSUME NEW h \in Threads, LockSaveMu(h) PROVE SaverInside'
  BY <1>8 DEF LockSaveMu, InSaveNow, TypeOK, SaverInside
<1>9. ASSUME NEW h \in Threads, ArchiveCheck(h) PROVE SaverInside'
  BY <1>9 DEF ArchiveCheck, At, TypeOK, SaverInside
<1>10. ASSUME NEW h \in Threads, DropArchived(h) PROVE SaverInside'
  BY <1>10 DEF DropArchived, At, MarkDirty, TypeOK, SaverInside
<1>11. ASSUME NEW h \in Threads, TakeSnapshot(h) PROVE SaverInside'
  BY <1>11 DEF TakeSnapshot, At, TypeOK, SaverInside
<1>12. ASSUME NEW h \in Threads, NothingToSave(h) PROVE SaverInside'
  BY <1>12 DEF NothingToSave, At, Return, TypeOK, SaverInside
<1>13. ASSUME NEW h \in Threads, FinishSave(h) PROVE SaverInside'
  BY <1>13 DEF FinishSave, At, Return, TypeOK, SaverInside
<1>14. ASSUME NEW h \in Threads, FinishFailedSave(h) PROVE SaverInside'
  BY <1>14 DEF FinishFailedSave, At, Return, TypeOK, SaverInside
<1>15. ASSUME NEW h \in Threads, AppendArchive(h) PROVE SaverInside'
  BY <1>15 DEF AppendArchive, At, TypeOK, SaverInside
<1>16. ASSUME NEW h \in Threads, StoreSave(h) PROVE SaverInside'
  BY <1>16 DEF StoreSave, At, TypeOK, SaverInside
<1>17. ASSUME NEW h \in Threads, DiskFails(h) PROVE SaverInside'
  BY <1>17 DEF DiskFails, AppendArchiveFails, StoreSaveFails, At, Return, TypeOK, SaverInside
<1>18. CASE UNCHANGED vars
  BY <1>18 DEF vars, TypeOK, SaverInside
<1> QED
  BY <1>1, <1>2, <1>3, <1>4, <1>5, <1>6, <1>7, <1>8, <1>9, <1>10, <1>11, <1>12, <1>13, <1>14, <1>15, <1>16, <1>17, <1>18 DEF Next, SaveStep

\* Every step keeps CloseStops.
LEMMA CloseStep ==
  ASSUME TypeOK, CloseStops, [Next]_vars
  PROVE  CloseStops'
<1> USE SaveQueueAssumption DEF Threads, stateVars, flagVars, loopVars, callVars, saveVars
<1>1. CASE Change
  BY <1>1 DEF Change, Persist, QueuedChange, InlineSave, InlineSaveFails, MarkDirty, MayChange, Inline, TypeOK, CloseStops
<1>2. CASE SilentSweep
  BY <1>2 DEF SilentSweep, MayChange, TypeOK, CloseStops
<1>3. CASE WriterLoop
  BY <1>3 DEF WriterLoop, WriterWakes, WriterSettles, WriterTimer, WriterStops, TypeOK, CloseStops
<1>4. ASSUME NEW c \in Callers, Flush(c) \/ CloseAgain(c) PROVE CloseStops'
  BY <1>4 DEF Flush, CloseAgain, EnterFlush, Goal, TypeOK, CloseStops
<1>5. ASSUME NEW c \in Callers, Shutdown(c) PROVE CloseStops'
  BY <1>5 DEF Shutdown, EnterFlush, Goal, Persist, QueuedChange, InlineSave, InlineSaveFails, MarkDirty, MayChange, Inline, TypeOK, CloseStops
<1>6. ASSUME NEW c \in Callers, CloseFirst(c) PROVE CloseStops'
  BY <1>6 DEF CloseFirst, TypeOK, CloseStops
<1>7. ASSUME NEW c \in Callers, CloseDrained(c) PROVE CloseStops'
  BY <1>7 DEF CloseDrained, EnterFlush, Goal, TypeOK, CloseStops
<1>8. ASSUME NEW h \in Threads, LockSaveMu(h) PROVE CloseStops'
  BY <1>8 DEF LockSaveMu, InSaveNow, TypeOK, CloseStops
<1>9. ASSUME NEW h \in Threads, ArchiveCheck(h) PROVE CloseStops'
  BY <1>9 DEF ArchiveCheck, At, TypeOK, CloseStops
<1>10. ASSUME NEW h \in Threads, DropArchived(h) PROVE CloseStops'
  BY <1>10 DEF DropArchived, At, MarkDirty, TypeOK, CloseStops
<1>11. ASSUME NEW h \in Threads, TakeSnapshot(h) PROVE CloseStops'
  BY <1>11 DEF TakeSnapshot, At, TypeOK, CloseStops
<1>12. ASSUME NEW h \in Threads, NothingToSave(h) PROVE CloseStops'
  BY <1>12 DEF NothingToSave, At, Return, TypeOK, CloseStops
<1>13. ASSUME NEW h \in Threads, FinishSave(h) PROVE CloseStops'
  BY <1>13 DEF FinishSave, At, Return, TypeOK, CloseStops
<1>14. ASSUME NEW h \in Threads, FinishFailedSave(h) PROVE CloseStops'
  BY <1>14 DEF FinishFailedSave, At, Return, TypeOK, CloseStops
<1>15. ASSUME NEW h \in Threads, AppendArchive(h) PROVE CloseStops'
  BY <1>15 DEF AppendArchive, At, TypeOK, CloseStops
<1>16. ASSUME NEW h \in Threads, StoreSave(h) PROVE CloseStops'
  BY <1>16 DEF StoreSave, At, TypeOK, CloseStops
<1>17. ASSUME NEW h \in Threads, DiskFails(h) PROVE CloseStops'
  BY <1>17 DEF DiskFails, AppendArchiveFails, StoreSaveFails, At, Return, TypeOK, CloseStops
<1>18. CASE UNCHANGED vars
  BY <1>18 DEF vars, TypeOK, CloseStops
<1> QED
  BY <1>1, <1>2, <1>3, <1>4, <1>5, <1>6, <1>7, <1>8, <1>9, <1>10, <1>11, <1>12, <1>13, <1>14, <1>15, <1>16, <1>17, <1>18 DEF Next, SaveStep

\* Every step keeps Counted.
LEMMA CountStep ==
  ASSUME TypeOK, Counted, [Next]_vars
  PROVE  Counted'
<1> USE SaveQueueAssumption DEF Threads, stateVars, flagVars, loopVars, callVars, saveVars
<1>1. CASE Change
  BY <1>1 DEF Change, Persist, QueuedChange, InlineSave, InlineSaveFails, MarkDirty, MayChange, Inline, TypeOK, Saved, Counted
<1>2. CASE SilentSweep
  BY <1>2 DEF SilentSweep, MayChange, TypeOK, Saved, Counted
<1>3. CASE WriterLoop
  BY <1>3 DEF WriterLoop, WriterWakes, WriterSettles, WriterTimer, WriterStops, TypeOK, Saved, Counted
<1>4. ASSUME NEW c \in Callers, Flush(c) \/ CloseAgain(c) PROVE Counted'
  BY <1>4 DEF Flush, CloseAgain, EnterFlush, Goal, TypeOK, Saved, Counted
<1>5. ASSUME NEW c \in Callers, Shutdown(c) PROVE Counted'
  BY <1>5 DEF Shutdown, EnterFlush, Goal, Persist, QueuedChange, InlineSave, InlineSaveFails, MarkDirty, MayChange, Inline, TypeOK, Saved, Counted
<1>6. ASSUME NEW c \in Callers, CloseFirst(c) PROVE Counted'
  BY <1>6 DEF CloseFirst, TypeOK, Saved, Counted
<1>7. ASSUME NEW c \in Callers, CloseDrained(c) PROVE Counted'
  BY <1>7 DEF CloseDrained, EnterFlush, Goal, TypeOK, Saved, Counted
<1>8. ASSUME NEW h \in Threads, LockSaveMu(h) PROVE Counted'
  BY <1>8 DEF LockSaveMu, InSaveNow, TypeOK, Saved, Counted
<1>9. ASSUME NEW h \in Threads, ArchiveCheck(h) PROVE Counted'
  BY <1>9 DEF ArchiveCheck, At, TypeOK, Saved, Counted
<1>10. ASSUME NEW h \in Threads, DropArchived(h) PROVE Counted'
  BY <1>10 DEF DropArchived, At, MarkDirty, TypeOK, Saved, Counted
<1>11. ASSUME NEW h \in Threads, TakeSnapshot(h) PROVE Counted'
  BY <1>11 DEF TakeSnapshot, At, TypeOK, Saved, Counted
<1>12. ASSUME NEW h \in Threads, NothingToSave(h) PROVE Counted'
  BY <1>12 DEF NothingToSave, At, Return, TypeOK, Saved, Counted
<1>13. ASSUME NEW h \in Threads, FinishSave(h) PROVE Counted'
  BY <1>13 DEF FinishSave, At, Return, TypeOK, Saved, Counted
<1>14. ASSUME NEW h \in Threads, FinishFailedSave(h) PROVE Counted'
  BY <1>14 DEF FinishFailedSave, At, Return, TypeOK, Saved, Counted
<1>15. ASSUME NEW h \in Threads, AppendArchive(h) PROVE Counted'
  BY <1>15 DEF AppendArchive, At, TypeOK, Saved, Counted
<1>16. ASSUME NEW h \in Threads, StoreSave(h) PROVE Counted'
  BY <1>16 DEF StoreSave, At, TypeOK, Saved, Counted
<1>17. ASSUME NEW h \in Threads, DiskFails(h) PROVE Counted'
  BY <1>17 DEF DiskFails, AppendArchiveFails, StoreSaveFails, At, Return, TypeOK, Saved, Counted
<1>18. CASE UNCHANGED vars
  BY <1>18 DEF vars, TypeOK, Saved, Counted
<1> QED
  BY <1>1, <1>2, <1>3, <1>4, <1>5, <1>6, <1>7, <1>8, <1>9, <1>10, <1>11, <1>12, <1>13, <1>14, <1>15, <1>16, <1>17, <1>18 DEF Next, SaveStep

-----------------------------------------------------------------------------
(* The archive.                                                            *)

\* What saveNow knows of the archive at each of its points.
Archived ==
  /\ stage # "drop" => archive = through
  /\ stage = "append" => archive <= snap.through
  /\ stage = "drop" => archive = snap.through /\ through <= archive
  /\ stage = "write" => snap.through <= archive
  /\ disk.through <= archive

\* Half of MaxActivity is not more than MaxActivity.
LEMMA Half == MaxActivity \div 2 \in Nat /\ MaxActivity \div 2 <= MaxActivity
  BY SaveQueueAssumption

\* Every step keeps Archived.
LEMMA ArchiveStep ==
  ASSUME TypeOK, Archived, [Next]_vars
  PROVE  Archived'
<1> USE SaveQueueAssumption DEF Threads, stateVars, flagVars, loopVars, callVars, saveVars
<1>1. CASE Change
  BY <1>1, Half DEF Change, Persist, QueuedChange, InlineSave, InlineSaveFails, MarkDirty, MayChange, Inline, TypeOK, Saved, Archived
<1>2. CASE SilentSweep
  BY <1>2, Half DEF SilentSweep, MayChange, TypeOK, Saved, Archived
<1>3. CASE WriterLoop
  BY <1>3, Half DEF WriterLoop, WriterWakes, WriterSettles, WriterTimer, WriterStops, TypeOK, Saved, Archived
<1>4. ASSUME NEW c \in Callers, Flush(c) \/ CloseAgain(c) PROVE Archived'
  BY <1>4, Half DEF Flush, CloseAgain, EnterFlush, Goal, TypeOK, Saved, Archived
<1>5. ASSUME NEW c \in Callers, Shutdown(c) PROVE Archived'
  BY <1>5, Half DEF Shutdown, EnterFlush, Goal, Persist, QueuedChange, InlineSave, InlineSaveFails, MarkDirty, MayChange, Inline, TypeOK, Saved, Archived
<1>6. ASSUME NEW c \in Callers, CloseFirst(c) PROVE Archived'
  BY <1>6, Half DEF CloseFirst, TypeOK, Saved, Archived
<1>7. ASSUME NEW c \in Callers, CloseDrained(c) PROVE Archived'
  BY <1>7, Half DEF CloseDrained, EnterFlush, Goal, TypeOK, Saved, Archived
<1>8. ASSUME NEW h \in Threads, LockSaveMu(h) PROVE Archived'
  BY <1>8, Half DEF LockSaveMu, InSaveNow, TypeOK, Saved, Archived
<1>9. ASSUME NEW h \in Threads, ArchiveCheck(h) PROVE Archived'
  BY <1>9, Half DEF ArchiveCheck, At, TypeOK, Saved, Archived
<1>10. ASSUME NEW h \in Threads, DropArchived(h) PROVE Archived'
  BY <1>10, Half DEF DropArchived, At, MarkDirty, TypeOK, Saved, Archived
<1>11. ASSUME NEW h \in Threads, TakeSnapshot(h) PROVE Archived'
  BY <1>11, Half DEF TakeSnapshot, At, TypeOK, Saved, Archived
<1>12. ASSUME NEW h \in Threads, NothingToSave(h) PROVE Archived'
  BY <1>12, Half DEF NothingToSave, At, Return, TypeOK, Saved, Archived
<1>13. ASSUME NEW h \in Threads, FinishSave(h) PROVE Archived'
  BY <1>13, Half DEF FinishSave, At, Return, TypeOK, Saved, Archived
<1>14. ASSUME NEW h \in Threads, FinishFailedSave(h) PROVE Archived'
  BY <1>14, Half DEF FinishFailedSave, At, Return, TypeOK, Saved, Archived
<1>15. ASSUME NEW h \in Threads, AppendArchive(h) PROVE Archived'
  BY <1>15, Half DEF AppendArchive, At, TypeOK, Saved, Archived
<1>16. ASSUME NEW h \in Threads, StoreSave(h) PROVE Archived'
  BY <1>16, Half DEF StoreSave, At, TypeOK, Saved, Archived
<1>17. ASSUME NEW h \in Threads, DiskFails(h) PROVE Archived'
  BY <1>17, Half DEF DiskFails, AppendArchiveFails, StoreSaveFails, At, Return, TypeOK, Saved, Archived
<1>18. CASE UNCHANGED vars
  BY <1>18, Half DEF vars, TypeOK, Saved, Archived
<1> QED
  BY <1>1, <1>2, <1>3, <1>4, <1>5, <1>6, <1>7, <1>8, <1>9, <1>10, <1>11, <1>12, <1>13, <1>14, <1>15, <1>16, <1>17, <1>18 DEF Next, SaveStep

\* For every MaxActivity and every way the disk can fail, an entry leaves the
\* live log, in memory and in the stored state, only once it is archived.
THEOREM ArchiveIsAhead == Spec => []ArchiveFirst
<1>1. Init => Archived
  BY DEF Init, Archived
<1>2. TypeOK /\ Archived /\ [Next]_vars => Archived'
  BY ArchiveStep
<1>3. TypeOK /\ Archived => ArchiveFirst
  BY DEF TypeOK, Saved, Archived, ArchiveFirst
<1> QED
  BY <1>1, <1>2, <1>3, SaveTypeCorrect, PTL DEF Spec

-----------------------------------------------------------------------------
(* Async mode.                                                             *)

\* The snapshot that is on its way to the Store, and the one that has just got
\* there: neither is older than what it is to replace, nor than what its saver
\* was called for; and unless the board is dirty again it has every change.
Snapped ==
  mode = "async" =>
    /\ stage = "write" => disk.version <= snap.version
    /\ (stage = "write" /\ ~dirty) => marked <= snap.version
    /\ \A c \in Callers : (saver = c /\ stage = "write") => goal[c].marked <= snap.version
    /\ \A c \in Callers : (saver = c /\ stage = "saved") => goal[c].marked <= disk.version

SaveInv == SaverInside /\ CloseStops /\ Counted /\ Snapped /\ SavedMeansOnDisk /\ FlushDurable

\* Every step keeps Snapped.
LEMMA SnapStep ==
  ASSUME TypeOK, SaveInv, "async" \notin LateModes, [Next]_vars
  PROVE  Snapped'
<1> USE SaveQueueAssumption DEF Threads, stateVars, flagVars, loopVars, callVars, saveVars
<1>1. CASE Change
  BY <1>1 DEF Change, Persist, QueuedChange, InlineSave, InlineSaveFails, MarkDirty, MayChange, Inline, TypeOK, Saved, SaveInv, SaverInside, CloseStops, Counted, Snapped, SavedMeansOnDisk
<1>2. CASE SilentSweep
  BY <1>2 DEF SilentSweep, MayChange, TypeOK, Saved, SaveInv, SaverInside, CloseStops, Counted, Snapped, SavedMeansOnDisk
<1>3. CASE WriterLoop
  BY <1>3 DEF WriterLoop, WriterWakes, WriterSettles, WriterTimer, WriterStops, TypeOK, Saved, SaveInv, SaverInside, CloseStops, Counted, Snapped, SavedMeansOnDisk
<1>4. ASSUME NEW c \in Callers, Flush(c) \/ CloseAgain(c) PROVE Snapped'
  BY <1>4 DEF Flush, CloseAgain, EnterFlush, Goal, TypeOK, Saved, SaveInv, SaverInside, CloseStops, Counted, Snapped, SavedMeansOnDisk
<1>5. ASSUME NEW c \in Callers, Shutdown(c) PROVE Snapped'
  BY <1>5 DEF Shutdown, EnterFlush, Goal, Persist, QueuedChange, InlineSave, InlineSaveFails, MarkDirty, MayChange, Inline, TypeOK, Saved, SaveInv, SaverInside, CloseStops, Counted, Snapped, SavedMeansOnDisk
<1>6. ASSUME NEW c \in Callers, CloseFirst(c) PROVE Snapped'
  BY <1>6 DEF CloseFirst, TypeOK, Saved, SaveInv, SaverInside, CloseStops, Counted, Snapped, SavedMeansOnDisk
<1>7. ASSUME NEW c \in Callers, CloseDrained(c) PROVE Snapped'
  BY <1>7 DEF CloseDrained, EnterFlush, Goal, TypeOK, Saved, SaveInv, SaverInside, CloseStops, Counted, Snapped, SavedMeansOnDisk
<1>8. ASSUME NEW h \in Threads, LockSaveMu(h) PROVE Snapped'
  BY <1>8 DEF LockSaveMu, InSaveNow, TypeOK, Saved, SaveInv, SaverInside, CloseStops, Counted, Snapped, SavedMeansOnDisk
<1>9. ASSUME NEW h \in Threads, ArchiveCheck(h) PROVE Snapped'
  BY <1>9 DEF ArchiveCheck, At, TypeOK, Saved, SaveInv, SaverInside, CloseStops, Counted, Snapped, SavedMeansOnDisk
<1>10. ASSUME NEW h \in Threads, DropArchived(h) PROVE Snapped'
  BY <1>10 DEF DropArchived, At, MarkDirty, TypeOK, Saved, SaveInv, SaverInside, CloseStops, Counted, Snapped, SavedMeansOnDisk
<1>11. ASSUME NEW h \in Threads, TakeSnapshot(h) PROVE Snapped'
  BY <1>11 DEF TakeSnapshot, At, TypeOK, Saved, SaveInv, SaverInside, CloseStops, Counted, Snapped, SavedMeansOnDisk
<1>12. ASSUME NEW h \in Threads, NothingToSave(h) PROVE Snapped'
  BY <1>12 DEF NothingToSave, At, Return, TypeOK, Saved, SaveInv, SaverInside, CloseStops, Counted, Snapped, SavedMeansOnDisk
<1>13. ASSUME NEW h \in Threads, FinishSave(h) PROVE Snapped'
  BY <1>13 DEF FinishSave, At, Return, TypeOK, Saved, SaveInv, SaverInside, CloseStops, Counted, Snapped, SavedMeansOnDisk
<1>14. ASSUME NEW h \in Threads, FinishFailedSave(h) PROVE Snapped'
  BY <1>14 DEF FinishFailedSave, At, Return, TypeOK, Saved, SaveInv, SaverInside, CloseStops, Counted, Snapped, SavedMeansOnDisk
<1>15. ASSUME NEW h \in Threads, AppendArchive(h) PROVE Snapped'
  BY <1>15 DEF AppendArchive, At, TypeOK, Saved, SaveInv, SaverInside, CloseStops, Counted, Snapped, SavedMeansOnDisk
<1>16. ASSUME NEW h \in Threads, StoreSave(h) PROVE Snapped'
  BY <1>16 DEF StoreSave, At, TypeOK, Saved, SaveInv, SaverInside, CloseStops, Counted, Snapped, SavedMeansOnDisk
<1>17. ASSUME NEW h \in Threads, DiskFails(h) PROVE Snapped'
  BY <1>17 DEF DiskFails, AppendArchiveFails, StoreSaveFails, At, Return, TypeOK, Saved, SaveInv, SaverInside, CloseStops, Counted, Snapped, SavedMeansOnDisk
<1>18. CASE UNCHANGED vars
  BY <1>18 DEF vars, TypeOK, Saved, SaveInv, SaverInside, CloseStops, Counted, Snapped, SavedMeansOnDisk
<1> QED
  BY <1>1, <1>2, <1>3, <1>4, <1>5, <1>6, <1>7, <1>8, <1>9, <1>10, <1>11, <1>12, <1>13, <1>14, <1>15, <1>16, <1>17, <1>18 DEF Next, SaveStep

\* Every step keeps SavedMeansOnDisk.
LEMMA CleanStep ==
  ASSUME TypeOK, SaveInv, "async" \notin LateModes, [Next]_vars
  PROVE  SavedMeansOnDisk'
<1> USE SaveQueueAssumption DEF Threads, stateVars, flagVars, loopVars, callVars, saveVars
<1>1. CASE Change
  BY <1>1 DEF Change, Persist, QueuedChange, InlineSave, InlineSaveFails, MarkDirty, MayChange, Inline, TypeOK, Saved, SaveInv, CloseStops, Counted, Snapped, SavedMeansOnDisk
<1>2. CASE SilentSweep
  BY <1>2 DEF SilentSweep, MayChange, TypeOK, Saved, SaveInv, CloseStops, Counted, Snapped, SavedMeansOnDisk
<1>3. CASE WriterLoop
  BY <1>3 DEF WriterLoop, WriterWakes, WriterSettles, WriterTimer, WriterStops, TypeOK, Saved, SaveInv, CloseStops, Counted, Snapped, SavedMeansOnDisk
<1>4. ASSUME NEW c \in Callers, Flush(c) \/ CloseAgain(c) PROVE SavedMeansOnDisk'
  BY <1>4 DEF Flush, CloseAgain, EnterFlush, Goal, TypeOK, Saved, SaveInv, CloseStops, Counted, Snapped, SavedMeansOnDisk
<1>5. ASSUME NEW c \in Callers, Shutdown(c) PROVE SavedMeansOnDisk'
  BY <1>5 DEF Shutdown, EnterFlush, Goal, Persist, QueuedChange, InlineSave, InlineSaveFails, MarkDirty, MayChange, Inline, TypeOK, Saved, SaveInv, CloseStops, Counted, Snapped, SavedMeansOnDisk
<1>6. ASSUME NEW c \in Callers, CloseFirst(c) PROVE SavedMeansOnDisk'
  BY <1>6 DEF CloseFirst, TypeOK, Saved, SaveInv, CloseStops, Counted, Snapped, SavedMeansOnDisk
<1>7. ASSUME NEW c \in Callers, CloseDrained(c) PROVE SavedMeansOnDisk'
  BY <1>7 DEF CloseDrained, EnterFlush, Goal, TypeOK, Saved, SaveInv, CloseStops, Counted, Snapped, SavedMeansOnDisk
<1>8. ASSUME NEW h \in Threads, LockSaveMu(h) PROVE SavedMeansOnDisk'
  BY <1>8 DEF LockSaveMu, InSaveNow, TypeOK, Saved, SaveInv, CloseStops, Counted, Snapped, SavedMeansOnDisk
<1>9. ASSUME NEW h \in Threads, ArchiveCheck(h) PROVE SavedMeansOnDisk'
  BY <1>9 DEF ArchiveCheck, At, TypeOK, Saved, SaveInv, CloseStops, Counted, Snapped, SavedMeansOnDisk
<1>10. ASSUME NEW h \in Threads, DropArchived(h) PROVE SavedMeansOnDisk'
  BY <1>10 DEF DropArchived, At, MarkDirty, TypeOK, Saved, SaveInv, CloseStops, Counted, Snapped, SavedMeansOnDisk
<1>11. ASSUME NEW h \in Threads, TakeSnapshot(h) PROVE SavedMeansOnDisk'
  BY <1>11 DEF TakeSnapshot, At, TypeOK, Saved, SaveInv, CloseStops, Counted, Snapped, SavedMeansOnDisk
<1>12. ASSUME NEW h \in Threads, NothingToSave(h) PROVE SavedMeansOnDisk'
  BY <1>12 DEF NothingToSave, At, Return, TypeOK, Saved, SaveInv, CloseStops, Counted, Snapped, SavedMeansOnDisk
<1>13. ASSUME NEW h \in Threads, FinishSave(h) PROVE SavedMeansOnDisk'
  BY <1>13 DEF FinishSave, At, Return, TypeOK, Saved, SaveInv, CloseStops, Counted, Snapped, SavedMeansOnDisk
<1>14. ASSUME NEW h \in Threads, FinishFailedSave(h) PROVE SavedMeansOnDisk'
  BY <1>14 DEF FinishFailedSave, At, Return, TypeOK, Saved, SaveInv, CloseStops, Counted, Snapped, SavedMeansOnDisk
<1>15. ASSUME NEW h \in Threads, AppendArchive(h) PROVE SavedMeansOnDisk'
  BY <1>15 DEF AppendArchive, At, TypeOK, Saved, SaveInv, CloseStops, Counted, Snapped, SavedMeansOnDisk
<1>16. ASSUME NEW h \in Threads, StoreSave(h) PROVE SavedMeansOnDisk'
  BY <1>16 DEF StoreSave, At, TypeOK, Saved, SaveInv, CloseStops, Counted, Snapped, SavedMeansOnDisk
<1>17. ASSUME NEW h \in Threads, DiskFails(h) PROVE SavedMeansOnDisk'
  BY <1>17 DEF DiskFails, AppendArchiveFails, StoreSaveFails, At, Return, TypeOK, Saved, SaveInv, CloseStops, Counted, Snapped, SavedMeansOnDisk
<1>18. CASE UNCHANGED vars
  BY <1>18 DEF vars, TypeOK, Saved, SaveInv, CloseStops, Counted, Snapped, SavedMeansOnDisk
<1> QED
  BY <1>1, <1>2, <1>3, <1>4, <1>5, <1>6, <1>7, <1>8, <1>9, <1>10, <1>11, <1>12, <1>13, <1>14, <1>15, <1>16, <1>17, <1>18 DEF Next, SaveStep

\* Every step keeps FlushDurable.
LEMMA FlushStep ==
  ASSUME TypeOK, SaveInv, "async" \notin LateModes, [Next]_vars
  PROVE  FlushDurable'
<1> USE SaveQueueAssumption DEF Threads, stateVars, flagVars, loopVars, callVars, saveVars
<1>1. CASE Change
  BY <1>1 DEF Change, Persist, QueuedChange, InlineSave, InlineSaveFails, MarkDirty, MayChange, Inline, TypeOK, Saved, SaveInv, CloseStops, Counted, Snapped, SavedMeansOnDisk, FlushDurable
<1>2. CASE SilentSweep
  BY <1>2 DEF SilentSweep, MayChange, TypeOK, Saved, SaveInv, CloseStops, Counted, Snapped, SavedMeansOnDisk, FlushDurable
<1>3. CASE WriterLoop
  BY <1>3 DEF WriterLoop, WriterWakes, WriterSettles, WriterTimer, WriterStops, TypeOK, Saved, SaveInv, CloseStops, Counted, Snapped, SavedMeansOnDisk, FlushDurable
<1>4. ASSUME NEW c \in Callers, Flush(c) \/ CloseAgain(c) PROVE FlushDurable'
  BY <1>4 DEF Flush, CloseAgain, EnterFlush, Goal, TypeOK, Saved, SaveInv, CloseStops, Counted, Snapped, SavedMeansOnDisk, FlushDurable
<1>5. ASSUME NEW c \in Callers, Shutdown(c) PROVE FlushDurable'
  BY <1>5 DEF Shutdown, EnterFlush, Goal, Persist, QueuedChange, InlineSave, InlineSaveFails, MarkDirty, MayChange, Inline, TypeOK, Saved, SaveInv, CloseStops, Counted, Snapped, SavedMeansOnDisk, FlushDurable
<1>6. ASSUME NEW c \in Callers, CloseFirst(c) PROVE FlushDurable'
  BY <1>6 DEF CloseFirst, TypeOK, Saved, SaveInv, CloseStops, Counted, Snapped, SavedMeansOnDisk, FlushDurable
<1>7. ASSUME NEW c \in Callers, CloseDrained(c) PROVE FlushDurable'
  BY <1>7 DEF CloseDrained, EnterFlush, Goal, TypeOK, Saved, SaveInv, CloseStops, Counted, Snapped, SavedMeansOnDisk, FlushDurable
<1>8. ASSUME NEW h \in Threads, LockSaveMu(h) PROVE FlushDurable'
  BY <1>8 DEF LockSaveMu, InSaveNow, TypeOK, Saved, SaveInv, CloseStops, Counted, Snapped, SavedMeansOnDisk, FlushDurable
<1>9. ASSUME NEW h \in Threads, ArchiveCheck(h) PROVE FlushDurable'
  BY <1>9 DEF ArchiveCheck, At, TypeOK, Saved, SaveInv, CloseStops, Counted, Snapped, SavedMeansOnDisk, FlushDurable
<1>10. ASSUME NEW h \in Threads, DropArchived(h) PROVE FlushDurable'
  BY <1>10 DEF DropArchived, At, MarkDirty, TypeOK, Saved, SaveInv, CloseStops, Counted, Snapped, SavedMeansOnDisk, FlushDurable
<1>11. ASSUME NEW h \in Threads, TakeSnapshot(h) PROVE FlushDurable'
  BY <1>11 DEF TakeSnapshot, At, TypeOK, Saved, SaveInv, CloseStops, Counted, Snapped, SavedMeansOnDisk, FlushDurable
<1>12. ASSUME NEW h \in Threads, NothingToSave(h) PROVE FlushDurable'
  BY <1>12 DEF NothingToSave, At, Return, TypeOK, Saved, SaveInv, CloseStops, Counted, Snapped, SavedMeansOnDisk, FlushDurable
<1>13. ASSUME NEW h \in Threads, FinishSave(h) PROVE FlushDurable'
  BY <1>13 DEF FinishSave, At, Return, TypeOK, Saved, SaveInv, CloseStops, Counted, Snapped, SavedMeansOnDisk, FlushDurable
<1>14. ASSUME NEW h \in Threads, FinishFailedSave(h) PROVE FlushDurable'
  BY <1>14 DEF FinishFailedSave, At, Return, TypeOK, Saved, SaveInv, CloseStops, Counted, Snapped, SavedMeansOnDisk, FlushDurable
<1>15. ASSUME NEW h \in Threads, AppendArchive(h) PROVE FlushDurable'
  BY <1>15 DEF AppendArchive, At, TypeOK, Saved, SaveInv, CloseStops, Counted, Snapped, SavedMeansOnDisk, FlushDurable
<1>16. ASSUME NEW h \in Threads, StoreSave(h) PROVE FlushDurable'
  BY <1>16 DEF StoreSave, At, TypeOK, Saved, SaveInv, CloseStops, Counted, Snapped, SavedMeansOnDisk, FlushDurable
<1>17. ASSUME NEW h \in Threads, DiskFails(h) PROVE FlushDurable'
  BY <1>17 DEF DiskFails, AppendArchiveFails, StoreSaveFails, At, Return, TypeOK, Saved, SaveInv, CloseStops, Counted, Snapped, SavedMeansOnDisk, FlushDurable
<1>18. CASE UNCHANGED vars
  BY <1>18 DEF vars, TypeOK, Saved, SaveInv, CloseStops, Counted, Snapped, SavedMeansOnDisk, FlushDurable
<1> QED
  BY <1>1, <1>2, <1>3, <1>4, <1>5, <1>6, <1>7, <1>8, <1>9, <1>10, <1>11, <1>12, <1>13, <1>14, <1>15, <1>16, <1>17, <1>18 DEF Next, SaveStep

\* The stored state never becomes older.
LEMMA DiskStep ==
  ASSUME TypeOK, SaveInv, "async" \notin LateModes, [Next]_vars
  PROVE  mode = "async" => disk.version <= disk'.version
<1> USE SaveQueueAssumption DEF Threads, stateVars, flagVars, loopVars, callVars, saveVars
<1>1. CASE Change
  BY <1>1 DEF Change, Persist, QueuedChange, InlineSave, InlineSaveFails, MarkDirty, MayChange, Inline, TypeOK, Saved, SaveInv, CloseStops, Counted, Snapped
<1>2. CASE SilentSweep
  BY <1>2 DEF SilentSweep, MayChange, TypeOK, Saved, SaveInv, CloseStops, Counted, Snapped
<1>3. CASE WriterLoop
  BY <1>3 DEF WriterLoop, WriterWakes, WriterSettles, WriterTimer, WriterStops, TypeOK, Saved, SaveInv, CloseStops, Counted, Snapped
<1>4. ASSUME NEW c \in Callers, Flush(c) \/ CloseAgain(c) PROVE mode = "async" => disk.version <= disk'.version
  BY <1>4 DEF Flush, CloseAgain, EnterFlush, Goal, TypeOK, Saved, SaveInv, CloseStops, Counted, Snapped
<1>5. ASSUME NEW c \in Callers, Shutdown(c) PROVE mode = "async" => disk.version <= disk'.version
  BY <1>5 DEF Shutdown, EnterFlush, Goal, Persist, QueuedChange, InlineSave, InlineSaveFails, MarkDirty, MayChange, Inline, TypeOK, Saved, SaveInv, CloseStops, Counted, Snapped
<1>6. ASSUME NEW c \in Callers, CloseFirst(c) PROVE mode = "async" => disk.version <= disk'.version
  BY <1>6 DEF CloseFirst, TypeOK, Saved, SaveInv, CloseStops, Counted, Snapped
<1>7. ASSUME NEW c \in Callers, CloseDrained(c) PROVE mode = "async" => disk.version <= disk'.version
  BY <1>7 DEF CloseDrained, EnterFlush, Goal, TypeOK, Saved, SaveInv, CloseStops, Counted, Snapped
<1>8. ASSUME NEW h \in Threads, LockSaveMu(h) PROVE mode = "async" => disk.version <= disk'.version
  BY <1>8 DEF LockSaveMu, InSaveNow, TypeOK, Saved, SaveInv, CloseStops, Counted, Snapped
<1>9. ASSUME NEW h \in Threads, ArchiveCheck(h) PROVE mode = "async" => disk.version <= disk'.version
  BY <1>9 DEF ArchiveCheck, At, TypeOK, Saved, SaveInv, CloseStops, Counted, Snapped
<1>10. ASSUME NEW h \in Threads, DropArchived(h) PROVE mode = "async" => disk.version <= disk'.version
  BY <1>10 DEF DropArchived, At, MarkDirty, TypeOK, Saved, SaveInv, CloseStops, Counted, Snapped
<1>11. ASSUME NEW h \in Threads, TakeSnapshot(h) PROVE mode = "async" => disk.version <= disk'.version
  BY <1>11 DEF TakeSnapshot, At, TypeOK, Saved, SaveInv, CloseStops, Counted, Snapped
<1>12. ASSUME NEW h \in Threads, NothingToSave(h) PROVE mode = "async" => disk.version <= disk'.version
  BY <1>12 DEF NothingToSave, At, Return, TypeOK, Saved, SaveInv, CloseStops, Counted, Snapped
<1>13. ASSUME NEW h \in Threads, FinishSave(h) PROVE mode = "async" => disk.version <= disk'.version
  BY <1>13 DEF FinishSave, At, Return, TypeOK, Saved, SaveInv, CloseStops, Counted, Snapped
<1>14. ASSUME NEW h \in Threads, FinishFailedSave(h) PROVE mode = "async" => disk.version <= disk'.version
  BY <1>14 DEF FinishFailedSave, At, Return, TypeOK, Saved, SaveInv, CloseStops, Counted, Snapped
<1>15. ASSUME NEW h \in Threads, AppendArchive(h) PROVE mode = "async" => disk.version <= disk'.version
  BY <1>15 DEF AppendArchive, At, TypeOK, Saved, SaveInv, CloseStops, Counted, Snapped
<1>16. ASSUME NEW h \in Threads, StoreSave(h) PROVE mode = "async" => disk.version <= disk'.version
  BY <1>16 DEF StoreSave, At, TypeOK, Saved, SaveInv, CloseStops, Counted, Snapped
<1>17. ASSUME NEW h \in Threads, DiskFails(h) PROVE mode = "async" => disk.version <= disk'.version
  BY <1>17 DEF DiskFails, AppendArchiveFails, StoreSaveFails, At, Return, TypeOK, Saved, SaveInv, CloseStops, Counted, Snapped
<1>18. CASE UNCHANGED vars
  BY <1>18 DEF vars, TypeOK, Saved, SaveInv, CloseStops, Counted, Snapped
<1> QED
  BY <1>1, <1>2, <1>3, <1>4, <1>5, <1>6, <1>7, <1>8, <1>9, <1>10, <1>11, <1>12, <1>13, <1>14, <1>15, <1>16, <1>17, <1>18 DEF Next, SaveStep

\* Where nobody changes the board after Close has begun, the invariant of the
\* save protocol is kept for ever.
LEMMA SaveInvariant ==
  ASSUME "async" \notin LateModes
  PROVE  Spec => []SaveInv
<1>1. Init => SaveInv
  BY SaveQueueAssumption DEF Init, SaveInv, SaverInside, CloseStops, Counted, Snapped, SavedMeansOnDisk, FlushDurable
<1>2. TypeOK /\ SaveInv /\ [Next]_vars => SaveInv'
  BY SaverStep, CloseStep, CountStep, SnapStep, CleanStep, FlushStep DEF SaveInv
<1> QED
  BY <1>1, <1>2, SaveTypeCorrect, PTL DEF Spec

\* Clearing the dirty flag before the write forgets no change, whatever arrives
\* meanwhile and however the write ends, for any number of threads that save.
THEOREM CleanIsSaved ==
  ASSUME "async" \notin LateModes
  PROVE  Spec => []SavedMeansOnDisk
<1>1. SaveInv => SavedMeansOnDisk
  BY DEF SaveInv
<1> QED
  BY <1>1, SaveInvariant, PTL

\* A Flush or a Close that returns nil has saved every change marked before it
\* was called, whoever else was saving, or failing to save, at the same time.
THEOREM FlushIsDurable ==
  ASSUME "async" \notin LateModes
  PROVE  Spec => []FlushDurable
<1>1. SaveInv => FlushDurable
  BY DEF SaveInv
<1> QED
  BY <1>1, SaveInvariant, PTL

\* No save replaces the stored state by an older one.
THEOREM DiskOnlyMovesOn ==
  ASSUME "async" \notin LateModes
  PROVE  Spec => DiskNeverGoesBack
<1>1. TypeOK /\ TypeOK' /\ SaveInv /\ [Next]_vars => [mode = "async" => disk'.version >= disk.version]_vars
  BY DiskStep DEF TypeOK, Saved
<1> QED
  BY <1>1, SaveInvariant, SaveTypeCorrect, PTL DEF Spec, DiskNeverGoesBack
=============================================================================
