----------------------------- MODULE SaveQueue -----------------------------
(***************************************************************************)
(* Write-behind persistence of the board (board.go): the background writer,*)
(* saveNow with its archiving step, Flush, Close, Shutdown, and the change *)
(* operations as far as saving is concerned.                               *)
(*                                                                         *)
(* A step is what one goroutine does between two releases of a lock.  The  *)
(* board lock mu is held within a step and never across two; saveMu is the *)
(* variable saver.  Store.Save and appendArchive happen outside mu, so     *)
(* they are steps of their own, and each may fail.                         *)
(*                                                                         *)
(* Abstracted: the board state is its version, the number of changes made  *)
(* to it; every change appends one activity entry, whose id is therefore   *)
(* the version it made (NextActivityID).                                   *)
(***************************************************************************)
EXTENDS Integers

CONSTANTS
  Modes,          \* the values of Options.SaveMode: "async" or "sync"
  Callers,        \* goroutines that call Flush, Close or Shutdown
  MaxActivity,    \* Options.MaxActivity
  DiskMayFail,    \* whether Store.Save and appendArchive can return an error
  SilentSweeps,   \* whether Export and Authenticate are called
  LateModes,      \* the modes in which changes are made after Close has begun
  MaxVersion      \* bound: number of changes

ASSUME SaveQueueAssumption ==
  /\ Modes \subseteq {"async", "sync"}
  /\ MaxActivity \in Nat \ {0}
  /\ DiskMayFail \in BOOLEAN /\ SilentSweeps \in BOOLEAN
  /\ LateModes \subseteq Modes
  /\ MaxVersion \in Nat
  /\ "writer" \notin Callers /\ "none" \notin Callers

VARIABLES
  mode,           \* Options.SaveMode
  version,        \* changes made to the state in memory
  marked,         \* history: the version of the last change that set dirty
  through,        \* ArchivedThrough; the live log is through+1 .. version
  archive,        \* the archive files hold the entries 1 .. archive
  disk,           \* what the Store holds: [version, through]
  dirty,          \* Board.dirty
  failed,         \* Board.lastErr # nil
  kick,           \* a wake-up is pending in Board.kick
  stopping,       \* Board.stop is closed
  closed,         \* Board.closed
  writer,         \* control point of the writer goroutine
  caller,         \* control point of each caller
  goal,           \* what each caller's Flush has to make durable
  result,         \* how each caller's last Flush ended
  saver,          \* holder of saveMu
  stage,          \* control point of saveNow in its holder
  snap            \* the snapshot being saved: [version, through]

vars == <<mode, version, marked, through, archive, disk, dirty, failed, kick,
          stopping, closed, writer, caller, goal, result, saver, stage, snap>>

stateVars == <<mode, version, marked, through, archive>>
flagVars == <<dirty, failed>>
loopVars == <<stopping, closed, writer>>
callVars == <<caller, goal, result>>
saveVars == <<saver, stage, snap>>

Threads == {"writer"} \cup Callers
Saved == [version : Nat, through : Nat]

Init ==
  /\ mode \in Modes
  /\ version = 0 /\ marked = 0 /\ through = 0 /\ archive = 0
  /\ disk = [version |-> 0, through |-> 0]
  /\ dirty = FALSE /\ failed = FALSE
  /\ kick = FALSE /\ stopping = FALSE /\ closed = FALSE
  /\ writer = IF mode = "async" THEN "idle" ELSE "exit"
  /\ caller = [c \in Callers |-> "idle"]
  /\ goal = [c \in Callers |-> [marked |-> 0, version |-> 0]]
  /\ result = [c \in Callers |-> "none"]
  /\ saver = "none" /\ stage = "free"
  /\ snap = [version |-> 0, through |-> 0]

-----------------------------------------------------------------------------
(* Changes (persistAndPublishLocked).                                      *)

\* Variant: after a failed save the changes are saved inline.
InlineAfterFailure == mode = "sync" \/ closed \/ failed

Inline == mode = "sync" \/ closed

MarkDirty == dirty' = TRUE

\* The change is queued for the writer.
QueuedChange ==
  /\ ~Inline
  /\ MarkDirty
  /\ kick' = TRUE
  /\ UNCHANGED <<disk, failed>>

\* The change is saved under the board lock, without saveMu.
InlineSave(v) ==
  /\ Inline
  /\ dirty' = FALSE /\ failed' = FALSE
  /\ disk' = [version |-> v, through |-> through]
  /\ UNCHANGED kick

InlineSaveFails ==
  /\ Inline /\ DiskMayFail
  /\ MarkDirty
  /\ failed' = TRUE
  /\ UNCHANGED <<disk, kick>>

Persist(v) == QueuedChange \/ InlineSave(v) \/ InlineSaveFails

MayChange == version < MaxVersion /\ (stopping => mode \in LateModes)

Change ==
  /\ MayChange
  /\ version' = version + 1
  /\ marked' = version + 1
  /\ Persist(version + 1)
  /\ UNCHANGED <<mode, through, archive, loopVars, callVars, saveVars>>

\* exportState and Authenticate sweep the expired leases, which changes the
\* state, and neither mark it dirty nor wake the writer.
SilentSweep ==
  /\ SilentSweeps
  /\ MayChange
  /\ version' = version + 1
  /\ UNCHANGED <<mode, marked, through, archive, disk, flagVars, kick, loopVars,
                 callVars, saveVars>>

-----------------------------------------------------------------------------
(* Flush, Close and Shutdown: their callers end up in saveNow.             *)

Goal == [marked |-> marked', version |-> version']

EnterFlush(c) ==
  /\ caller' = [caller EXCEPT ![c] = "flush"]
  /\ goal' = [goal EXCEPT ![c] = Goal]
  /\ result' = [result EXCEPT ![c] = "none"]

Flush(c) ==
  /\ caller[c] = "idle"
  /\ UNCHANGED stateVars
  /\ EnterFlush(c)
  /\ UNCHANGED <<disk, flagVars, kick, loopVars, saveVars>>

Shutdown(c) ==
  /\ caller[c] = "idle"
  /\ MayChange
  /\ version' = version + 1
  /\ marked' = version + 1
  /\ Persist(version + 1)
  /\ EnterFlush(c)
  /\ UNCHANGED <<mode, through, archive, loopVars, saveVars>>

\* Variant: the first Close holds saveMu while it waits for the writer.
CloseFirstHoldingSaveMu(c) ==
  /\ caller[c] = "idle"
  /\ ~stopping /\ saver = "none"
  /\ stopping' = TRUE
  /\ saver' = c
  /\ caller' = [caller EXCEPT ![c] = "drain"]
  /\ result' = [result EXCEPT ![c] = "none"]
  /\ UNCHANGED <<stateVars, disk, flagVars, kick, closed, writer, goal, stage, snap>>

\* The first Close runs the body of closeOnce: it closes stop and waits for
\* the writer to return.
CloseFirst(c) ==
  /\ caller[c] = "idle"
  /\ ~stopping
  /\ stopping' = TRUE
  /\ caller' = [caller EXCEPT ![c] = "drain"]
  /\ result' = [result EXCEPT ![c] = "none"]
  /\ UNCHANGED <<stateVars, disk, flagVars, kick, closed, writer, goal, saveVars>>

CloseDrained(c) ==
  /\ caller[c] = "drain"
  /\ writer = "exit"
  /\ closed' = TRUE
  /\ UNCHANGED stateVars
  /\ EnterFlush(c)
  /\ UNCHANGED <<disk, flagVars, kick, stopping, writer, saveVars>>

\* A later Close waits in closeOnce.Do until the first one has left it.
CloseAgain(c) ==
  /\ caller[c] = "idle"
  /\ closed
  /\ UNCHANGED stateVars
  /\ EnterFlush(c)
  /\ UNCHANGED <<disk, flagVars, kick, loopVars, saveVars>>

-----------------------------------------------------------------------------
(* The writer goroutine, outside saveNow.                                  *)

WriterWakes ==
  /\ writer = "idle"
  /\ kick
  /\ kick' = FALSE
  /\ writer' = "settle"
  /\ UNCHANGED <<stateVars, disk, flagVars, stopping, closed, callVars, saveVars>>

\* Another kick during the burst restarts the debounce timer, until the burst
\* has lasted maxLatency.
WriterSettles ==
  /\ writer = "settle"
  /\ kick
  /\ kick' = FALSE
  /\ writer' \in {"settle", "save"}
  /\ UNCHANGED <<stateVars, disk, flagVars, stopping, closed, callVars, saveVars>>

\* The debounce timer, or the backoff timer after a failed save, fires.
WriterTimer ==
  /\ writer \in {"settle", "backoff"}
  /\ writer' = "save"
  /\ UNCHANGED <<stateVars, disk, flagVars, kick, stopping, closed, callVars,
                 saveVars>>

WriterStops ==
  /\ writer \in {"idle", "settle", "backoff"}
  /\ stopping
  /\ writer' = "exit"
  /\ UNCHANGED <<stateVars, disk, flagVars, kick, stopping, closed, callVars,
                 saveVars>>

-----------------------------------------------------------------------------
(* saveNow, step by step, in the thread that holds saveMu.                 *)

InSaveNow(h) == IF h = "writer" THEN writer = "save" ELSE caller[h] = "flush"

LockSaveMu(h) ==
  /\ InSaveNow(h)
  /\ saver = "none"
  /\ saver' = h
  /\ stage' = "archive"
  /\ UNCHANGED <<stateVars, disk, flagVars, kick, loopVars, callVars, snap>>

\* Variant: the writer goes back to sleep after a failed save.
ReturnNoRetry(h, ok) ==
  /\ saver' = "none" /\ stage' = "free"
  /\ IF h = "writer"
       THEN writer' = "idle" /\ UNCHANGED callVars
       ELSE /\ caller' = [caller EXCEPT ![h] = "idle"]
            /\ result' = [result EXCEPT ![h] = IF ok THEN "ok" ELSE "error"]
            /\ UNCHANGED <<writer, goal>>
  /\ UNCHANGED <<snap, stopping, closed>>

\* saveNow returns to its caller and releases saveMu.
Return(h, ok) ==
  /\ saver' = "none" /\ stage' = "free"
  /\ IF h = "writer"
       THEN /\ writer' = IF ok THEN "idle" ELSE "backoff"
            /\ UNCHANGED callVars
       ELSE /\ caller' = [caller EXCEPT ![h] = "idle"]
            /\ result' = [result EXCEPT ![h] = IF ok THEN "ok" ELSE "error"]
            /\ UNCHANGED <<writer, goal>>
  /\ UNCHANGED <<snap, stopping, closed>>

At(h, s) == saver = h /\ stage = s

\* Variant: the entries are dropped without having been archived.
ArchiveCheckDropsFirst(h) ==
  /\ At(h, "archive")
  /\ stage' = IF version - through > MaxActivity THEN "drop" ELSE "snapshot"
  /\ snap' = IF version - through > MaxActivity
               THEN [version |-> version,
                     through |-> version - (MaxActivity \div 2)]
               ELSE snap
  /\ UNCHANGED <<stateVars, disk, flagVars, kick, loopVars, callVars, saver>>

\* archiveOld, first part: is the live log too long?
ArchiveCheck(h) ==
  /\ At(h, "archive")
  /\ stage' = IF version - through > MaxActivity THEN "append" ELSE "snapshot"
  /\ snap' = IF version - through > MaxActivity
               THEN [version |-> version,
                     through |-> version - (MaxActivity \div 2)]
               ELSE snap
  /\ UNCHANGED <<stateVars, disk, flagVars, kick, loopVars, callVars, saver>>

AppendArchive(h) ==
  /\ At(h, "append")
  /\ archive' = snap.through
  /\ stage' = "drop"
  /\ UNCHANGED <<mode, version, marked, through, disk, flagVars, kick, loopVars,
                 callVars, saver, snap>>

AppendArchiveFails(h) ==
  /\ At(h, "append")
  /\ DiskMayFail
  /\ failed' = TRUE
  /\ Return(h, FALSE)
  /\ UNCHANGED <<stateVars, disk, dirty, kick>>

\* archiveOld, second part: the archived entries leave the live log.
DropArchived(h) ==
  /\ At(h, "drop")
  /\ through' = snap.through
  /\ MarkDirty
  /\ stage' = "snapshot"
  /\ UNCHANGED <<mode, version, marked, archive, disk, failed, kick, loopVars,
                 callVars, saver, snap>>

TakeSnapshot(h) ==
  /\ At(h, "snapshot")
  /\ dirty
  /\ snap' = [version |-> version, through |-> through]
  /\ dirty' = FALSE
  /\ stage' = "write"
  /\ UNCHANGED <<stateVars, disk, failed, kick, loopVars, callVars, saver>>

NothingToSave(h) ==
  /\ At(h, "snapshot")
  /\ ~dirty
  /\ Return(h, TRUE)
  /\ UNCHANGED <<stateVars, disk, flagVars, kick>>

StoreSave(h) ==
  /\ At(h, "write")
  /\ disk' = snap
  /\ stage' = "saved"
  /\ UNCHANGED <<stateVars, flagVars, kick, loopVars, callVars, saver, snap>>

StoreSaveFails(h) ==
  /\ At(h, "write")
  /\ DiskMayFail
  /\ stage' = "failed"
  /\ UNCHANGED <<stateVars, disk, flagVars, kick, loopVars, callVars, saver, snap>>

FinishSave(h) ==
  /\ At(h, "saved")
  /\ failed' = FALSE
  /\ kick' = (kick \/ dirty)
  /\ Return(h, TRUE)
  /\ UNCHANGED <<stateVars, disk, dirty>>

\* Variant: a failed save does not mark the state dirty again.
FinishFailedSaveClean(h) ==
  /\ At(h, "failed")
  /\ failed' = TRUE
  /\ Return(h, FALSE)
  /\ UNCHANGED <<stateVars, disk, dirty, kick>>

\* Variant: a failed save is reported as a success.
FinishFailedSaveSwallowed(h) ==
  /\ At(h, "failed")
  /\ dirty' = TRUE
  /\ failed' = TRUE
  /\ Return(h, TRUE)
  /\ UNCHANGED <<stateVars, disk, kick>>

FinishFailedSave(h) ==
  /\ At(h, "failed")
  /\ dirty' = TRUE
  /\ failed' = TRUE
  /\ Return(h, FALSE)
  /\ UNCHANGED <<stateVars, disk, kick>>

\* The steps of saveNow that no failure of the disk gets in the way of.
SaveStep(h) ==
  \/ ArchiveCheck(h) \/ DropArchived(h) \/ TakeSnapshot(h) \/ NothingToSave(h)
  \/ FinishSave(h) \/ FinishFailedSave(h)

DiskFails(h) == AppendArchiveFails(h) \/ StoreSaveFails(h)

-----------------------------------------------------------------------------
WriterLoop == WriterWakes \/ WriterSettles \/ WriterTimer \/ WriterStops

Next ==
  \/ Change
  \/ SilentSweep
  \/ WriterLoop
  \/ \E c \in Callers :
       Flush(c) \/ Shutdown(c) \/ CloseFirst(c) \/ CloseDrained(c) \/ CloseAgain(c)
  \/ \E h \in Threads :
       \/ LockSaveMu(h)
       \/ SaveStep(h)
       \/ AppendArchive(h)
       \/ StoreSave(h)
       \/ DiskFails(h)

Spec == Init /\ [][Next]_vars

(***************************************************************************)
(* The Go scheduler runs every goroutine that can run and the timers fire  *)
(* (weak fairness of the writer and of saveNow); saveMu is a fair mutex    *)
(* (strong fairness of taking it); select picks a closed stop channel,     *)
(* which is always ready, sooner or later (strong fairness of stopping); a *)
(* disk that is tried again and again works again at some point (strong    *)
(* fairness of the two writes).                                            *)
(***************************************************************************)
Fairness ==
  /\ WF_vars(WriterWakes) /\ WF_vars(WriterTimer) /\ SF_vars(WriterStops)
  /\ \A c \in Callers : WF_vars(CloseDrained(c))
  /\ \A h \in Threads :
       /\ SF_vars(LockSaveMu(h))
       /\ WF_vars(SaveStep(h))
       /\ SF_vars(AppendArchive(h))
       /\ SF_vars(StoreSave(h))

FairSpec == Spec /\ Fairness

-----------------------------------------------------------------------------
(* Properties.                                                             *)

\* The variables have their types, and saveMu is held exactly while its holder
\* is inside saveNow.
TypeOK ==
  /\ mode \in Modes
  /\ version \in Nat /\ marked \in Nat /\ through \in Nat /\ archive \in Nat
  /\ disk \in Saved /\ snap \in Saved
  /\ dirty \in BOOLEAN /\ failed \in BOOLEAN
  /\ kick \in BOOLEAN /\ stopping \in BOOLEAN /\ closed \in BOOLEAN
  /\ writer \in {"idle", "settle", "save", "backoff", "exit"}
  /\ caller \in [Callers -> {"idle", "flush", "drain"}]
  /\ goal \in [Callers -> [marked : Nat, version : Nat]]
  /\ result \in [Callers -> {"none", "ok", "error"}]
  /\ saver \in Threads \cup {"none"}
  /\ stage \in {"free", "archive", "append", "drop", "snapshot", "write",
                "saved", "failed"}
  /\ (saver = "none") = (stage = "free")

\* In async mode, when the dirty flag is clear and no snapshot is on its way to
\* the Store, everything that was ever marked dirty is in the Store: clearing the flag
\* before the write (saveNow) forgets no change, whatever arrives meanwhile and
\* however the write ends.
SavedMeansOnDisk ==
  (mode = "async" /\ ~dirty /\ stage \notin {"write", "failed"}) => disk.version >= marked

\* "Flush blocks until every change made before the call is in the Store", even
\* when another goroutine was saving, or failing to save, at the same time; and
\* a Close that returns nil has saved everything up to the end of the writer.
\* In async mode: inline saves take no saveMu, and a Flush may overtake one.
FlushDurable ==
  mode = "async" => \A c \in Callers : result[c] = "ok" => disk.version >= goal[c].marked

\* In async mode a save never replaces the stored state by an older one.
DiskNeverGoesBack == [][mode = "async" => disk'.version >= disk.version]_vars

\* The archive is written before the entries leave the live log, and before any
\* saved state leaves them out, so every entry is in one of the two.
ArchiveFirst == through <= archive /\ disk.through <= archive

\* Every change of a board that stays open reaches the Store.
EventuallySaved ==
  \A n \in 1..MaxVersion :
    (mode = "async" /\ marked >= n) ~> (disk.version >= n \/ stopping)

\* Flush and Close return: nobody waits for saveMu or for the writer forever.
CallersReturn == \A c \in Callers : (caller[c] # "idle") ~> (caller[c] = "idle")
=============================================================================
