------------------------------ MODULE DirLock ------------------------------
(***************************************************************************)
(* The lock on a data directory (lock.go): AcquireLock, SetAddr, Release   *)
(* and ForceUnlock of processes that start `serve' or an offline command   *)
(* on the same directory, with crashes.                                    *)
(*                                                                         *)
(* A step is one system call: other processes run between the creation of  *)
(* the lock file and the write of its content, and between a read of the   *)
(* file, the liveness test of the process it names and the removal of the  *)
(* file.  Each process takes the lock once, so its name stands for its PID *)
(* and its token.                                                          *)
(***************************************************************************)
EXTENDS Integers, FiniteSets

CONSTANTS
  Procs,          \* processes that are started on the directory
  Host,           \* the host each process runs on
  Forcing,        \* the processes started with -force-unlock
  MaxCrashes      \* bound: number of crashes

ASSUME DirLockAssumption ==
  /\ DOMAIN Host = Procs
  /\ Forcing \subseteq Procs
  /\ MaxCrashes \in Nat
  /\ "none" \notin Procs

VARIABLES
  file,           \* the lock file: its creator and whether it has its content
  pc,             \* control point of each process
  seen,           \* the owner each process has read from the lock file
  attempt,        \* iterations of AcquireLock's loop so far
  alone,          \* history: no other process has run since this one started
  crashes         \* number of crashes so far

vars == <<file, pc, seen, attempt, alone, crashes>>

NoFile == [owner |-> "none", ready |-> FALSE]

Ended == {"off", "refused", "error", "gone"}
Running(p) == pc[p] \notin Ended
Exists == file.owner # "none"

Goto(p, label) == pc' = [pc EXCEPT ![p] = label]

Init ==
  /\ file = NoFile
  /\ pc = [p \in Procs |-> "off"]
  /\ seen = [p \in Procs |-> "none"]
  /\ attempt = [p \in Procs |-> 0]
  /\ alone = [p \in Procs |-> FALSE]
  /\ crashes = 0

Start(p) ==
  /\ pc[p] = "off"
  /\ Goto(p, IF p \in Forcing THEN "force_read" ELSE "create")
  /\ alone' = [q \in Procs |-> q = p /\ \A r \in Procs : ~Running(r)]
  /\ UNCHANGED <<file, seen, attempt, crashes>>

-----------------------------------------------------------------------------
(* ForceUnlock.                                                            *)

ForceRead(p) ==
  /\ pc[p] = "force_read"
  /\ seen' = [seen EXCEPT ![p] = file.owner]
  /\ Goto(p, IF ~Exists THEN "create"
             ELSE IF ~file.ready \/ Host[file.owner] # Host[p] THEN "refused"
             ELSE "force_probe")
  /\ UNCHANGED <<file, attempt, alone, crashes>>

ForceProbe(p) ==
  /\ pc[p] = "force_probe"
  /\ Goto(p, IF Running(seen[p]) THEN "refused" ELSE "force_remove")
  /\ UNCHANGED <<file, seen, attempt, alone, crashes>>

\* os.Remove of a file that is gone by now is an error of ForceUnlock.
ForceRemove(p) ==
  /\ pc[p] = "force_remove"
  /\ file' = NoFile
  /\ Goto(p, IF Exists THEN "create" ELSE "error")
  /\ UNCHANGED <<seen, attempt, alone, crashes>>

-----------------------------------------------------------------------------
(* AcquireLock.                                                            *)

\* Variant: the file is opened without O_EXCL.
CreateShared(p) ==
  /\ pc[p] = "create"
  /\ Goto(p, "write")
  /\ file' = [owner |-> p, ready |-> FALSE]
  /\ UNCHANGED <<seen, attempt, alone, crashes>>

\* OpenFile with O_EXCL succeeds only if there is no file.
Create(p) ==
  /\ pc[p] = "create"
  /\ IF Exists THEN Goto(p, "read") /\ UNCHANGED file
     ELSE Goto(p, "write") /\ file' = [owner |-> p, ready |-> FALSE]
  /\ UNCHANGED <<seen, attempt, alone, crashes>>

\* The content goes to the file that was created, wherever its name is now.
Write(p) ==
  /\ pc[p] = "write"
  /\ file' = [file EXCEPT !.ready = @ \/ file.owner = p]
  /\ Goto(p, "locked")
  /\ UNCHANGED <<seen, attempt, alone, crashes>>

WriteFails(p) ==
  /\ pc[p] = "write"
  /\ file' = NoFile
  /\ Goto(p, "error")
  /\ UNCHANGED <<seen, attempt, alone, crashes>>

\* The next iteration of the loop, or the error after the third.
Again(p) ==
  /\ attempt' = [attempt EXCEPT ![p] = @ + 1]
  /\ Goto(p, IF attempt[p] + 1 < 3 THEN "create" ELSE "refused")

\* Variant: a lock of another host counts as stale.
ReadForeignStale(p) ==
  /\ pc[p] = "read"
  /\ seen' = [seen EXCEPT ![p] = file.owner]
  /\ IF Exists
       THEN /\ Goto(p, IF ~file.ready THEN "refused"
                       ELSE IF Host[file.owner] # Host[p] THEN "reread"
                       ELSE "probe")
            /\ UNCHANGED attempt
       ELSE Again(p)
  /\ UNCHANGED <<file, alone, crashes>>

Read(p) ==
  /\ pc[p] = "read"
  /\ seen' = [seen EXCEPT ![p] = file.owner]
  /\ IF Exists
       THEN /\ Goto(p, IF ~file.ready \/ Host[file.owner] # Host[p]
                         THEN "refused" ELSE "probe")
            /\ UNCHANGED attempt
       ELSE Again(p)
  /\ UNCHANGED <<file, alone, crashes>>

\* processAlive
Probe(p) ==
  /\ pc[p] = "probe"
  /\ Goto(p, IF Running(seen[p]) THEN "refused" ELSE "reread")
  /\ UNCHANGED <<file, seen, attempt, alone, crashes>>

\* Variant: the second read is compared with the reader's own token.
RereadOwnToken(p) ==
  /\ pc[p] = "reread"
  /\ IF file.ready /\ file.owner = p
       THEN Goto(p, "remove") /\ UNCHANGED attempt
       ELSE Again(p)
  /\ UNCHANGED <<file, seen, alone, crashes>>

Reread(p) ==
  /\ pc[p] = "reread"
  /\ IF file.ready /\ file.owner = seen[p]
       THEN Goto(p, "remove") /\ UNCHANGED attempt
       ELSE Again(p)
  /\ UNCHANGED <<file, seen, alone, crashes>>

\* os.Remove takes whatever file has the name by now.
Remove(p) ==
  /\ pc[p] = "remove"
  /\ file' = NoFile
  /\ Again(p)
  /\ UNCHANGED <<seen, alone, crashes>>

-----------------------------------------------------------------------------
(* A held lock: SetAddr, the work, Release.                                *)

\* SetAddr renames a new file over the name.
SetAddr(p) ==
  /\ pc[p] = "locked"
  /\ file' = [owner |-> p, ready |-> TRUE]
  /\ Goto(p, "serving")
  /\ UNCHANGED <<seen, attempt, alone, crashes>>

\* An offline command does its work without a listen address.
WorkOffline(p) ==
  /\ pc[p] = "locked"
  /\ Goto(p, "serving")
  /\ UNCHANGED <<file, seen, attempt, alone, crashes>>

ReleaseRead(p) ==
  /\ pc[p] = "serving"
  /\ Goto(p, IF file.ready /\ file.owner = p THEN "release" ELSE "gone")
  /\ UNCHANGED <<file, seen, attempt, alone, crashes>>

ReleaseRemove(p) ==
  /\ pc[p] = "release"
  /\ file' = NoFile
  /\ Goto(p, "gone")
  /\ UNCHANGED <<seen, attempt, alone, crashes>>

Crash(p) ==
  /\ Running(p)
  /\ crashes < MaxCrashes
  /\ crashes' = crashes + 1
  /\ Goto(p, "gone")
  /\ UNCHANGED <<file, seen, attempt, alone>>

-----------------------------------------------------------------------------
Acquire(p) ==
  Create(p) \/ Write(p) \/ WriteFails(p) \/ Read(p) \/ Probe(p) \/ Reread(p) \/ Remove(p)

Next ==
  \E p \in Procs :
    \/ Start(p)
    \/ ForceRead(p) \/ ForceProbe(p) \/ ForceRemove(p)
    \/ Acquire(p)
    \/ SetAddr(p) \/ WorkOffline(p)
    \/ ReleaseRead(p) \/ ReleaseRemove(p)
    \/ Crash(p)

Spec == Init /\ [][Next]_vars

-----------------------------------------------------------------------------
(* Properties.                                                             *)

\* The variables have their types, and only a written file is ready.
TypeOK ==
  /\ file \in [owner : Procs \cup {"none"}, ready : BOOLEAN]
  /\ file.ready => Exists
  /\ pc \in [Procs -> Ended \cup {"force_read", "force_probe", "force_remove",
                        "create", "write", "read", "probe", "reread", "remove",
                        "locked", "serving", "release"}]
  /\ seen \in [Procs -> Procs \cup {"none"}]
  /\ attempt \in [Procs -> 0..3]
  /\ alone \in [Procs -> BOOLEAN]
  /\ crashes \in 0..MaxCrashes

Holds(p) == pc[p] \in {"locked", "serving"}

\* "One writer per data dir": two processes never work on the directory at the
\* same time, whatever the interleaving of their system calls.
MutualExclusion == \A p, q \in Procs : Holds(p) /\ Holds(q) => p = q

\* While a process works on the directory, the lock file is its own: a second
\* start or an offline command is pointed at the right process, and Release
\* removes what it should.
FileNamesHolder ==
  \A p \in Procs : Holds(p) => file = [owner |-> p, ready |-> TRUE]

\* A process that starts while no other is running is refused only for a lock
\* of another host or a lock file that was never written; after a crash the
\* directory does not stay locked for any other reason.
RefusedForAReason ==
  \A p \in Procs :
    (pc[p] = "refused" /\ alone[p])
      => Exists /\ (~file.ready \/ Host[file.owner] # Host[p])
=============================================================================
