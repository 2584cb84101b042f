--------------------------- MODULE DirLockProofs ---------------------------
(***************************************************************************)
(* Proofs about DirLock for any number of processes: its types, and mutual *)
(* exclusion where the protocol gives it, between starts that neither      *)
(* crash nor force.  The run MCDirLockTakeover shows that the first of the *)
(* two conditions is needed; ForceUnlock, which removes the file without   *)
(* reading it again, is why the second one is.                             *)
(***************************************************************************)
EXTENDS DirLock, TLAPS

-----------------------------------------------------------------------------
(* Types.                                                                  *)

\* A process that has not left the loop of AcquireLock has iterations left.
Looping == {"force_read", "force_probe", "force_remove", "create", "write",
            "read", "probe", "reread", "remove"}
LoopBound == \A p \in Procs : pc[p] \in Looping \cup {"off"} => attempt[p] \in 0..2

\* The loop of AcquireLock goes round at most three times.
LEMMA AgainType ==
  ASSUME TypeOK, LoopBound, NEW p \in Procs, pc[p] \in Looping, Again(p)
  PROVE  /\ attempt' \in [Procs -> 0..3]
         /\ \A q \in Procs : pc'[q] \in Looping \cup {"off"} => attempt'[q] \in 0..2
         /\ pc' \in [Procs -> {pc[q] : q \in Procs} \cup {"create", "refused"}]
<1>1. attempt[p] \in 0..2 /\ attempt[p] + 1 \in 0..3
  BY DEF LoopBound
<1>2. /\ attempt \in [Procs -> 0..3]
      /\ attempt' = [attempt EXCEPT ![p] = attempt[p] + 1]
      /\ pc' = [pc EXCEPT ![p] = IF attempt[p] + 1 < 3 THEN "create" ELSE "refused"]
      /\ DOMAIN pc = Procs
  BY DEF TypeOK, Again, Goto
<1>3. \A q \in Procs : pc'[q] \in Looping \cup {"off"} => attempt'[q] \in 0..2
  <2> TAKE q \in Procs
  <2>1. CASE q = p
    BY <1>1, <1>2, <2>1 DEF Looping
  <2>2. CASE q # p
    BY <1>2, <2>2 DEF LoopBound
  <2> QED
    BY <2>1, <2>2
<1> QED
  BY <1>1, <1>2, <1>3

\* Every step keeps the types and the bound of the loop.
LEMMA TypeStep == TypeOK /\ LoopBound /\ [Next]_vars => TypeOK' /\ LoopBound'
<1> SUFFICES ASSUME TypeOK, LoopBound, [Next]_vars PROVE TypeOK' /\ LoopBound'
  OBVIOUS
<1>0. "none" \notin Procs /\ MaxCrashes \in Nat
  BY DirLockAssumption
<1> USE DEF Goto
<1>1. ASSUME NEW p \in Procs, Start(p) PROVE TypeOK' /\ LoopBound'
  BY <1>1 DEF Start, TypeOK, LoopBound, Looping, Exists, Ended
<1>2. ASSUME NEW p \in Procs, ForceRead(p) \/ ForceProbe(p) PROVE TypeOK' /\ LoopBound'
  BY <1>2 DEF ForceRead, ForceProbe, TypeOK, LoopBound, Looping, Exists, Ended
<1>3. ASSUME NEW p \in Procs, ForceRemove(p) PROVE TypeOK' /\ LoopBound'
  BY <1>3 DEF ForceRemove, TypeOK, LoopBound, Looping, Exists, Ended, NoFile
<1>4. ASSUME NEW p \in Procs, Create(p) PROVE TypeOK' /\ LoopBound'
  <2>1. CASE Exists
    BY <1>4, <2>1 DEF Create, TypeOK, LoopBound, Looping, Exists, Ended
  <2>2. CASE ~Exists
    <3>1. file' = [owner |-> p, ready |-> FALSE]
      BY <1>4, <2>2 DEF Create
    <3>2. /\ file' \in [owner : Procs \cup {"none"}, ready : BOOLEAN]
          /\ ~file'.ready
      BY <3>1
    <3> QED
      BY <1>4, <2>2, <3>2 DEF Create, TypeOK, LoopBound, Looping, Ended
  <2> QED
    BY <2>1, <2>2
<1>5. ASSUME NEW p \in Procs, Write(p) \/ WriteFails(p) PROVE TypeOK' /\ LoopBound'
  <2>1. CASE Write(p)
    <3>1. /\ file' = [file EXCEPT !.ready = @ \/ file.owner = p]
          /\ file \in [owner : Procs \cup {"none"}, ready : BOOLEAN]
          /\ file.ready => file.owner # "none"
      BY <2>1 DEF Write, TypeOK, Exists
    <3>2. /\ file' \in [owner : Procs \cup {"none"}, ready : BOOLEAN]
          /\ file'.ready => file'.owner # "none"
      BY <1>0, <3>1, Zenon
    <3> QED
      BY <2>1, <3>2 DEF Write, TypeOK, LoopBound, Looping, Exists, Ended
  <2>2. CASE WriteFails(p)
    BY <2>2 DEF WriteFails, TypeOK, LoopBound, Looping, Exists, Ended, NoFile
  <2> QED
    BY <1>5, <2>1, <2>2
<1>6. ASSUME NEW p \in Procs, Probe(p) PROVE TypeOK' /\ LoopBound'
  BY <1>6 DEF Probe, TypeOK, LoopBound, Looping, Exists, Ended
<1>7. ASSUME NEW p \in Procs, Read(p) PROVE TypeOK' /\ LoopBound'
  <2>1. CASE Exists
    BY <1>7, <2>1 DEF Read, TypeOK, LoopBound, Looping, Exists, Ended
  <2>2. CASE ~Exists
    <3>1. pc[p] \in Looping /\ Again(p)
      BY <1>7, <2>2 DEF Read, Looping
    <3> QED
      BY <1>7, <3>1, AgainType DEF Read, TypeOK, LoopBound, Exists, Ended
  <2> QED
    BY <2>1, <2>2
<1>8. ASSUME NEW p \in Procs, Reread(p) PROVE TypeOK' /\ LoopBound'
  <2>1. CASE file.ready /\ file.owner = seen[p]
    BY <1>8, <2>1 DEF Reread, TypeOK, LoopBound, Looping, Exists, Ended
  <2>2. CASE ~(file.ready /\ file.owner = seen[p])
    <3>1. pc[p] \in Looping /\ Again(p)
      BY <1>8, <2>2 DEF Reread, Looping
    <3> QED
      BY <1>8, <3>1, AgainType DEF Reread, TypeOK, LoopBound, Exists, Ended
  <2> QED
    BY <2>1, <2>2
<1>9. ASSUME NEW p \in Procs, Remove(p) PROVE TypeOK' /\ LoopBound'
  <2>1. pc[p] \in Looping /\ Again(p)
    BY <1>9 DEF Remove, Looping
  <2> QED
    BY <1>9, <2>1, AgainType DEF Remove, TypeOK, LoopBound, Exists, Ended, NoFile
<1>10. ASSUME NEW p \in Procs, SetAddr(p) \/ WorkOffline(p) PROVE TypeOK' /\ LoopBound'
  <2>1. CASE SetAddr(p)
    BY <1>0, <2>1 DEF SetAddr, TypeOK, LoopBound, Looping, Exists, Ended
  <2>2. CASE WorkOffline(p)
    BY <2>2 DEF WorkOffline, TypeOK, LoopBound, Looping, Exists, Ended
  <2> QED
    BY <1>10, <2>1, <2>2
<1>11. ASSUME NEW p \in Procs, ReleaseRead(p) \/ ReleaseRemove(p)
       PROVE  TypeOK' /\ LoopBound'
  <2>1. CASE ReleaseRead(p)
    BY <2>1 DEF ReleaseRead, TypeOK, LoopBound, Looping, Exists, Ended
  <2>2. CASE ReleaseRemove(p)
    BY <2>2 DEF ReleaseRemove, TypeOK, LoopBound, Looping, Exists, Ended, NoFile
  <2> QED
    BY <1>11, <2>1, <2>2
<1>12. ASSUME NEW p \in Procs, Crash(p) PROVE TypeOK' /\ LoopBound'
  BY <1>0, <1>12 DEF Crash, TypeOK, LoopBound, Looping, Exists, Ended
<1>13. CASE UNCHANGED vars
  BY <1>13 DEF vars, TypeOK, LoopBound, Exists
<1> QED
  BY <1>1, <1>2, <1>3, <1>4, <1>5, <1>6, <1>7, <1>8, <1>9, <1>10, <1>11, <1>12,
     <1>13 DEF Next, Acquire

\* The types hold for any processes, hosts and crashes; the loop of AcquireLock
\* never runs more than three times.
THEOREM LockTypeCorrect == Spec => []TypeOK
<1>1. Init => TypeOK /\ LoopBound
  BY DirLockAssumption DEF Init, TypeOK, LoopBound, NoFile, Exists, Ended
<1> QED
  BY <1>1, TypeStep, PTL DEF Spec

-----------------------------------------------------------------------------
(* Mutual exclusion.                                                       *)

\* No process is started with -force-unlock and none crashes.
Orderly == Forcing = {} /\ MaxCrashes = 0

\* The control points at which a process owns the lock file.
Owning == {"write", "locked", "serving", "release"}

\* The file exists exactly while one process owns it, and names that process;
\* it has its content unless its owner is still to write it.
FileOwned ==
  \A p \in Procs : /\ pc[p] \in Owning <=> file.owner = p
                   /\ file.owner = p => (file.ready <=> pc[p] # "write")

\* A process is suspected only after it was read from a complete lock file, and
\* condemned only after it ended; no one comes as far as removing a file.
SuspectsEnded ==
  \A p \in Procs :
    /\ pc[p] \in {"probe", "reread"} => seen[p] \in Procs /\ pc[seen[p]] # "off"
    /\ pc[p] = "reread" => pc[seen[p]] \in Ended
    /\ pc[p] \notin {"remove", "force_read", "force_probe", "force_remove"}

LockInvariant == TypeOK /\ LoopBound /\ FileOwned /\ SuspectsEnded

\* A step that moves one process p between points where it does not own the
\* file, and leaves the file alone, changes nothing about its ownership.
LEMMA OwnershipKept ==
  ASSUME TypeOK, FileOwned, NEW p \in Procs, NEW label, label \notin Owning,
         pc[p] \notin Owning, Goto(p, label), file' = file
  PROVE  FileOwned'
BY DEF TypeOK, FileOwned, Goto, Owning

\* Suspicions stay justified while a process moves on: one that has ended
\* stays so, and one that was started never counts as not started again.
LEMMA SuspectsKept ==
  ASSUME TypeOK, SuspectsEnded, NEW p \in Procs, NEW label, Goto(p, label),
         pc[p] \in Ended => pc[p] = "off" /\ label # "off",
         pc[p] \notin Ended => label # "off",
         label \notin {"probe", "reread", "remove", "force_read", "force_probe",
                       "force_remove"},
         \A q \in Procs \ {p} : seen'[q] = seen[q]
  PROVE  SuspectsEnded'
<1> SUFFICES ASSUME NEW q \in Procs
             PROVE  /\ pc'[q] \in {"probe", "reread"} =>
                         seen'[q] \in Procs /\ pc'[seen'[q]] # "off"
                    /\ pc'[q] = "reread" => pc'[seen'[q]] \in Ended
                    /\ pc'[q] \notin {"remove", "force_read", "force_probe",
                                       "force_remove"}
  BY DEF SuspectsEnded
<1>1. /\ pc'[p] = label
      /\ \A r \in Procs \ {p} : pc'[r] = pc[r]
  BY DEF TypeOK, Goto
<1>2. CASE q = p
  BY <1>1, <1>2
<1>3. CASE q # p
  <2>1. /\ pc'[q] = pc[q] /\ seen'[q] = seen[q]
        /\ pc[q] \in {"probe", "reread"} => seen[q] \in Procs /\ pc[seen[q]] # "off"
        /\ pc[q] = "reread" => pc[seen[q]] \in Ended
        /\ pc[q] \notin {"remove", "force_read", "force_probe", "force_remove"}
    BY <1>1, <1>3 DEF SuspectsEnded
  <2>2. CASE pc[q] \in {"probe", "reread"} /\ seen[q] = p
    BY <1>1, <2>1, <2>2 DEF Ended
  <2>3. CASE pc[q] \in {"probe", "reread"} /\ seen[q] # p
    BY <1>1, <2>1, <2>3
  <2> QED
    BY <2>1, <2>2, <2>3
<1> QED
  BY <1>2, <1>3

\* Every step of orderly processes keeps the ownership of the file and the
\* justification of the suspicions.
LEMMA LockStep ==
  ASSUME Orderly, LockInvariant, [Next]_vars
  PROVE  FileOwned' /\ SuspectsEnded'
<1>0. TypeOK /\ FileOwned /\ SuspectsEnded /\ "none" \notin Procs
  BY DirLockAssumption DEF LockInvariant
<1>a. pc = [p \in Procs |-> pc[p]] /\ seen \in [Procs -> Procs \cup {"none"}]
      /\ file \in [owner : Procs \cup {"none"}, ready : BOOLEAN]
  BY <1>0 DEF TypeOK
<1>1. ASSUME NEW p \in Procs, Start(p) PROVE FileOwned' /\ SuspectsEnded'
  <2>1. Goto(p, "create") /\ pc[p] = "off" /\ UNCHANGED <<file, seen>>
    BY <1>1 DEF Start, Orderly
  <2> QED
    BY <1>0, <2>1, OwnershipKept, SuspectsKept DEF Owning, Ended
<1>2. ASSUME NEW p \in Procs PROVE ~(ForceRead(p) \/ ForceProbe(p) \/ ForceRemove(p) \/ Remove(p))
  BY <1>0 DEF SuspectsEnded, ForceRead, ForceProbe, ForceRemove, Remove
<1>3. ASSUME NEW p \in Procs, Create(p) PROVE FileOwned' /\ SuspectsEnded'
  <2>1. pc[p] = "create" /\ UNCHANGED seen
    BY <1>3 DEF Create
  <2>2. CASE Exists
    <3>1. Goto(p, "read") /\ file' = file
      BY <1>3, <2>2 DEF Create
    <3> QED
      BY <1>0, <2>1, <3>1, OwnershipKept, SuspectsKept DEF Owning, Ended
  <2>3. CASE ~Exists
    <3>1. Goto(p, "write") /\ file' = [owner |-> p, ready |-> FALSE]
      BY <1>3, <2>3 DEF Create
    <3>2. FileOwned'
      BY <1>0, <1>a, <2>3, <3>1 DEF FileOwned, Owning, Exists, Goto
    <3> QED
      BY <1>0, <2>1, <3>1, <3>2, SuspectsKept DEF Ended
  <2> QED
    BY <2>2, <2>3
<1>4. ASSUME NEW p \in Procs, Write(p) PROVE FileOwned' /\ SuspectsEnded'
  <2>1. /\ pc[p] = "write" /\ Goto(p, "locked") /\ UNCHANGED seen
        /\ file' = [file EXCEPT !.ready = @ \/ file.owner = p]
    BY <1>4 DEF Write
  <2>2. file.owner = p
    BY <1>0, <2>1 DEF FileOwned, Owning
  <2>3. file'.owner = p /\ file'.ready
    BY <1>a, <2>1, <2>2
  <2>4. FileOwned'
    BY <1>0, <1>a, <2>1, <2>2, <2>3 DEF FileOwned, Owning, Goto
  <2> QED
    BY <1>0, <2>1, <2>4, SuspectsKept DEF Ended
<1>b. ASSUME NEW p \in Procs, pc[p] \in Owning, NEW label, label \in {"error", "gone"},
             Goto(p, label), file' = NoFile
      PROVE  FileOwned'
  <2>1. file.owner = p
    BY <1>0, <1>b DEF FileOwned
  <2>2. \A q \in Procs : file'.owner # q
    BY <1>0, <1>b DEF NoFile
  <2> QED
    BY <1>0, <1>a, <1>b, <2>1, <2>2 DEF FileOwned, Owning, Goto
<1>5. ASSUME NEW p \in Procs, WriteFails(p) PROVE FileOwned' /\ SuspectsEnded'
  <2>1. pc[p] = "write" /\ Goto(p, "error") /\ UNCHANGED seen /\ file' = NoFile
    BY <1>5 DEF WriteFails
  <2> QED
    BY <1>0, <1>b, <2>1, SuspectsKept DEF Owning, Ended
<1>c. ASSUME NEW p \in Procs, pc[p] \in {"read", "reread"}, Again(p), file' = file,
             \A q \in Procs \ {p} : seen'[q] = seen[q]
      PROVE  FileOwned' /\ SuspectsEnded'
  <2>1. PICK label \in {"create", "refused"} : Goto(p, label)
    BY <1>c DEF Again
  <2> QED
    BY <1>0, <1>c, <2>1, OwnershipKept, SuspectsKept DEF Owning, Ended
<1>6. ASSUME NEW p \in Procs, Read(p) PROVE FileOwned' /\ SuspectsEnded'
  <2>1. /\ pc[p] = "read" /\ file' = file
        /\ seen' = [seen EXCEPT ![p] = file.owner]
        /\ \A q \in Procs \ {p} : seen'[q] = seen[q]
    BY <1>6, <1>a DEF Read
  <2>2. CASE ~Exists
    BY <1>6, <1>c, <2>1, <2>2 DEF Read
  <2>3. CASE Exists /\ Goto(p, "refused")
    BY <1>0, <2>1, <2>3, OwnershipKept, SuspectsKept DEF Owning, Ended
  <2>4. CASE Exists /\ file.ready /\ Goto(p, "probe")
    <3>1. FileOwned'
      BY <1>0, <2>1, <2>4, OwnershipKept DEF Owning
    <3>2. /\ file.owner \in Procs
          /\ pc[file.owner] \in Owning
      BY <1>0, <1>a, <2>4 DEF FileOwned, Exists
    <3>3. pc' = [pc EXCEPT ![p] = "probe"] /\ seen'[p] = file.owner
      BY <1>a, <2>1, <2>4 DEF Goto
    <3>4. SuspectsEnded'
      <4> SUFFICES ASSUME NEW q \in Procs
                   PROVE  /\ pc'[q] \in {"probe", "reread"} =>
                               seen'[q] \in Procs /\ pc'[seen'[q]] # "off"
                          /\ pc'[q] = "reread" => pc'[seen'[q]] \in Ended
                          /\ pc'[q] \notin {"remove", "force_read", "force_probe",
                                             "force_remove"}
        BY DEF SuspectsEnded
      <4>1. CASE q = p
        BY <1>a, <2>1, <3>2, <3>3, <4>1 DEF Owning
      <4>2. CASE q # p
        <5>1. pc'[q] = pc[q] /\ seen'[q] = seen[q]
          BY <1>a, <2>1, <3>3, <4>2
        <5>2. seen[q] = p => pc[q] # "reread"
          BY <1>0, <2>1 DEF SuspectsEnded, Ended
        <5> QED
          BY <1>0, <1>a, <3>3, <5>1, <5>2 DEF SuspectsEnded
      <4> QED
        BY <4>1, <4>2
    <3> QED
      BY <3>1, <3>4
  <2> QED
    BY <1>6, <2>2, <2>3, <2>4 DEF Read
<1>7. ASSUME NEW p \in Procs, Probe(p) PROVE FileOwned' /\ SuspectsEnded'
  <2>1. pc[p] = "probe" /\ UNCHANGED <<file, seen>>
    BY <1>7 DEF Probe
  <2>2. CASE Goto(p, "refused")
    BY <1>0, <2>1, <2>2, OwnershipKept, SuspectsKept DEF Owning, Ended
  <2>3. CASE ~Running(seen[p]) /\ Goto(p, "reread")
    <3>1. FileOwned'
      BY <1>0, <2>1, <2>3, OwnershipKept DEF Owning
    <3>2. pc[seen[p]] \in Ended /\ pc' = [pc EXCEPT ![p] = "reread"]
      BY <2>3 DEF Running, Goto
    <3>3. SuspectsEnded'
      <4> SUFFICES ASSUME NEW q \in Procs
                   PROVE  /\ pc'[q] \in {"probe", "reread"} =>
                               seen[q] \in Procs /\ pc'[seen[q]] # "off"
                          /\ pc'[q] = "reread" => pc'[seen[q]] \in Ended
                          /\ pc'[q] \notin {"remove", "force_read", "force_probe",
                                             "force_remove"}
        BY <2>1 DEF SuspectsEnded
      <4>1. seen[p] \in Procs /\ seen[p] # p /\ pc[seen[p]] # "off"
        BY <1>0, <2>1, <3>2 DEF SuspectsEnded, Ended
      <4>2. CASE q = p
        BY <1>a, <3>2, <4>1, <4>2
      <4>3. CASE q # p
        <5>1. pc'[q] = pc[q]
          BY <1>a, <3>2, <4>3
        <5>2. seen[q] = p => pc[q] # "reread"
          BY <1>0, <2>1 DEF SuspectsEnded, Ended
        <5> QED
          BY <1>0, <1>a, <3>2, <5>1, <5>2 DEF SuspectsEnded
      <4> QED
        BY <4>2, <4>3
    <3> QED
      BY <3>1, <3>3
  <2> QED
    BY <1>7, <2>2, <2>3 DEF Probe
<1>8. ASSUME NEW p \in Procs, Reread(p) PROVE FileOwned' /\ SuspectsEnded'
  <2>1. pc[p] = "reread" /\ UNCHANGED <<file, seen>>
    BY <1>8 DEF Reread
  <2>2. file.owner # seen[p]
    BY <1>0, <2>1 DEF SuspectsEnded, FileOwned, Owning, Ended
  <2> QED
    BY <1>8, <1>c, <2>1, <2>2 DEF Reread
<1>9. ASSUME NEW p \in Procs, SetAddr(p) PROVE FileOwned' /\ SuspectsEnded'
  <2>1. /\ pc[p] = "locked" /\ Goto(p, "serving") /\ UNCHANGED seen
        /\ file' = [owner |-> p, ready |-> TRUE]
    BY <1>9 DEF SetAddr
  <2>2. file.owner = p
    BY <1>0, <2>1 DEF FileOwned, Owning
  <2>3. FileOwned'
    BY <1>0, <1>a, <2>1, <2>2 DEF FileOwned, Owning, Goto
  <2> QED
    BY <1>0, <2>1, <2>3, SuspectsKept DEF Ended
<1>10. ASSUME NEW p \in Procs, WorkOffline(p) PROVE FileOwned' /\ SuspectsEnded'
  <2>1. pc[p] = "locked" /\ Goto(p, "serving") /\ UNCHANGED <<file, seen>>
    BY <1>10 DEF WorkOffline
  <2>2. FileOwned'
    BY <1>0, <1>a, <2>1 DEF FileOwned, Owning, Goto
  <2> QED
    BY <1>0, <2>1, <2>2, SuspectsKept DEF Ended
<1>11. ASSUME NEW p \in Procs, ReleaseRead(p) PROVE FileOwned' /\ SuspectsEnded'
  <2>1. file.ready /\ file.owner = p /\ pc[p] = "serving"
    BY <1>0, <1>11 DEF ReleaseRead, FileOwned, Owning
  <2>2. Goto(p, "release") /\ UNCHANGED <<file, seen>>
    BY <1>11, <2>1 DEF ReleaseRead
  <2>3. FileOwned'
    BY <1>0, <1>a, <2>1, <2>2 DEF FileOwned, Owning, Goto
  <2> QED
    BY <1>0, <2>1, <2>2, <2>3, SuspectsKept DEF Ended
<1>12. ASSUME NEW p \in Procs, ReleaseRemove(p) PROVE FileOwned' /\ SuspectsEnded'
  <2>1. pc[p] = "release" /\ Goto(p, "gone") /\ UNCHANGED seen /\ file' = NoFile
    BY <1>12 DEF ReleaseRemove
  <2> QED
    BY <1>0, <1>b, <2>1, SuspectsKept DEF Owning, Ended
<1>13. ASSUME NEW p \in Procs PROVE ~Crash(p)
  BY DEF Crash, Orderly, TypeOK, LockInvariant
<1>14. CASE UNCHANGED vars
  BY <1>0, <1>14 DEF vars, FileOwned, SuspectsEnded
<1> QED
  BY <1>1, <1>2, <1>3, <1>4, <1>5, <1>6, <1>7, <1>8, <1>9, <1>10, <1>11, <1>12,
     <1>13, <1>14 DEF Next, Acquire

\* Between orderly processes LockInvariant always holds.
LEMMA LockInvariantHolds == Orderly => (Spec => []LockInvariant)
<1> SUFFICES ASSUME Orderly PROVE Spec => []LockInvariant
  OBVIOUS
<1>1. Init => LockInvariant
  BY DirLockAssumption DEF Init, LockInvariant, TypeOK, LoopBound, FileOwned,
     SuspectsEnded, NoFile, Exists, Ended, Owning
<1>2. LockInvariant /\ [Next]_vars => LockInvariant'
  BY TypeStep, LockStep DEF LockInvariant
<1> QED
  BY <1>1, <1>2, PTL DEF Spec

\* AcquireLock keeps any number of processes that neither crash nor force the
\* lock apart, whatever the interleaving of their system calls.
THEOREM OrderlyExclusion == Orderly => (Spec => []MutualExclusion)
<1>1. LockInvariant => MutualExclusion
  BY DEF LockInvariant, FileOwned, Owning, MutualExclusion, Holds
<1> QED
  BY <1>1, LockInvariantHolds, PTL

\* While such a process works on the directory, the lock file names it, so a
\* second start is pointed at the right process.
THEOREM OrderlyFileNamesHolder == Orderly => (Spec => []FileNamesHolder)
<1>1. LockInvariant => FileNamesHolder
  BY DEF LockInvariant, FileOwned, Owning, FileNamesHolder, Holds, TypeOK
<1> QED
  BY <1>1, LockInvariantHolds, PTL
-----------------------------------------------------------------------------
(* Refusals.                                                               *)

\* A process starts once: it has gone round no loop before it reaches AcquireLock,
\* and it owns a lock file only after it created one.
StartsOnce ==
  \A p \in Procs :
    /\ pc[p] \in {"off", "force_read", "force_probe", "force_remove"} => attempt[p] = 0
    /\ file.owner = p => pc[p] \in Owning \cup {"gone"}

\* A lock on which a start may be refused though no other process runs.
Blocks(p) == Exists /\ (~file.ready \/ Host[file.owner] # Host[p])

\* What process p knows of the lock file at each point, if no other has run since
\* it started: what it read is what is there, and it meets one stale file at most.
KnowsFile(p) ==
  /\ pc[p] = "create" => attempt[p] = 0 \/ (attempt[p] = 1 /\ ~Exists)
  /\ pc[p] \in {"force_probe", "force_remove", "read", "probe", "reread", "remove"}
       => Exists /\ attempt[p] = 0
  /\ pc[p] \in {"force_probe", "probe", "reread"} => file.ready /\ file.owner = seen[p]
  /\ pc[p] = "refused" => Blocks(p)

\* A process is alone while no other process runs, and then it knows the file.
AloneKnows ==
  \A p \in Procs :
    alone[p] => /\ \A q \in Procs \ {p} : pc[q] \in Ended
                /\ KnowsFile(p)

RefusalInvariant == TypeOK /\ LoopBound /\ StartsOnce /\ AloneKnows

\* Only the process itself takes a step while it is alone: what is left to show
\* of a step is what the process that takes it knows afterwards.
LEMMA OnlyOneSteps ==
  ASSUME TypeOK, AloneKnows, NEW q \in Procs, pc[q] \notin Ended, NEW label,
         Goto(q, label), alone' = alone, alone[q] => KnowsFile(q)'
  PROVE  AloneKnows'
<1> SUFFICES ASSUME NEW p \in Procs, alone'[p]
             PROVE  /\ \A r \in Procs \ {p} : pc'[r] \in Ended
                    /\ KnowsFile(p)'
  BY DEF AloneKnows
<1>1. alone[p] /\ \A r \in Procs \ {p} : pc[r] \in Ended
  BY DEF AloneKnows
<1>2. p = q
  BY <1>1
<1>3. \A r \in Procs \ {q} : pc'[r] = pc[r]
  BY DEF TypeOK, Goto
<1> QED
  BY <1>1, <1>2, <1>3

\* A step that leaves the file and the loop's counter alone, or begins the next
\* iteration, keeps what StartsOnce says, if it does not lead back to the start.
LEMMA StartsOnceKept ==
  ASSUME TypeOK, StartsOnce, NEW q \in Procs, NEW label, Goto(q, label),
         pc[q] \in Owning \cup {"gone"} => label \in Owning \cup {"gone"},
         \A r \in Procs \ {q} : attempt'[r] = attempt[r],
         label \in {"off", "force_read", "force_probe", "force_remove"} => attempt'[q] = 0,
         file'.owner \in {file.owner, "none"}
  PROVE  StartsOnce'
<1> SUFFICES ASSUME NEW p \in Procs
             PROVE  /\ pc'[p] \in {"off", "force_read", "force_probe", "force_remove"}
                         => attempt'[p] = 0
                    /\ file'.owner = p => pc'[p] \in Owning \cup {"gone"}
  BY DEF StartsOnce
<1>1. pc'[q] = label /\ \A r \in Procs \ {q} : pc'[r] = pc[r]
  BY DEF TypeOK, Goto
<1>2. "none" \notin Procs
  BY DirLockAssumption
<1>3. /\ pc[p] \in {"off", "force_read", "force_probe", "force_remove"} => attempt[p] = 0
      /\ file.owner = p => pc[p] \in Owning \cup {"gone"}
  BY DEF StartsOnce
<1>4. CASE p = q
  BY <1>1, <1>2, <1>3, <1>4
<1>5. CASE p # q
  BY <1>1, <1>2, <1>3, <1>5
<1> QED
  BY <1>4, <1>5

\* Every step keeps the knowledge of a process that is alone: a file it read as
\* ready still is, so the probe of its owner, which is not itself, says that it
\* ended, and the file it removes is gone when it comes round to create its own.
LEMMA RefusalStep ==
  ASSUME TypeOK, LoopBound, StartsOnce, AloneKnows, [Next]_vars
  PROVE  StartsOnce' /\ AloneKnows'
<1>0. /\ "none" \notin Procs
      /\ DOMAIN pc = Procs /\ DOMAIN seen = Procs
      /\ attempt \in [Procs -> 0..3]
      /\ file \in [owner : Procs \cup {"none"}, ready : BOOLEAN]
      /\ file.ready => Exists
  BY DirLockAssumption DEF TypeOK
<1>a. ASSUME NEW p \in Procs, alone[p]
      PROVE  KnowsFile(p) /\ \A q \in Procs \ {p} : ~Running(q)
  BY <1>a DEF AloneKnows, Running
<1>b. ASSUME NEW p \in Procs, alone[p], pc[p] \in {"force_probe", "probe"}
      PROVE  ~Running(seen[p])
  <2>1. file.owner = seen[p] /\ Exists
    BY <1>a, <1>b DEF KnowsFile
  <2>2. seen[p] \in Procs \ {p}
    BY <1>0, <1>b, <2>1 DEF StartsOnce, Owning, Exists
  <2> QED
    BY <1>a, <1>b, <2>2
<1>1. ASSUME NEW p \in Procs, Start(p) PROVE StartsOnce' /\ AloneKnows'
  <2>1. PICK label \in {"force_read", "create"} : Goto(p, label)
    BY <1>1 DEF Start
  <2>2. pc[p] = "off" /\ attempt[p] = 0 /\ UNCHANGED <<file, seen, attempt>>
    BY <1>1 DEF Start, StartsOnce
  <2>3. StartsOnce'
    BY <2>1, <2>2, StartsOnceKept DEF Owning
  <2>4. pc'[p] = label /\ \A q \in Procs \ {p} : pc'[q] = pc[q]
    BY <1>0, <2>1 DEF Goto
  <2>5. ASSUME NEW q \in Procs, alone'[q]
        PROVE  q = p /\ \A r \in Procs : pc[r] \in Ended
    BY <1>1, <2>5 DEF Start, Running
  <2>6. KnowsFile(p)'
    BY <2>1, <2>2, <2>4 DEF KnowsFile
  <2> QED
    BY <2>3, <2>4, <2>5, <2>6 DEF AloneKnows
<1>2. ASSUME NEW p \in Procs, ForceRead(p) PROVE StartsOnce' /\ AloneKnows'
  <2> DEFINE label == IF ~Exists THEN "create"
                      ELSE IF ~file.ready \/ Host[file.owner] # Host[p] THEN "refused"
                      ELSE "force_probe"
  <2>1. /\ pc[p] = "force_read" /\ Goto(p, label) /\ attempt[p] = 0
        /\ UNCHANGED <<file, attempt, alone>> /\ seen'[p] = file.owner
    BY <1>0, <1>2 DEF ForceRead, StartsOnce
  <2>2. StartsOnce'
    BY <2>1, StartsOnceKept DEF Owning
  <2>3. KnowsFile(p)'
    BY <1>0, <2>1 DEF KnowsFile, Goto, Exists, Blocks
  <2> QED
    BY <2>1, <2>2, <2>3, OnlyOneSteps DEF Ended
<1>3. ASSUME NEW p \in Procs, ForceProbe(p) PROVE StartsOnce' /\ AloneKnows'
  <2> DEFINE label == IF Running(seen[p]) THEN "refused" ELSE "force_remove"
  <2>1. /\ pc[p] = "force_probe" /\ Goto(p, label) /\ attempt[p] = 0
        /\ UNCHANGED <<file, seen, attempt, alone>>
    BY <1>3 DEF ForceProbe, StartsOnce
  <2>2. StartsOnce'
    BY <2>1, StartsOnceKept DEF Owning
  <2>3. ASSUME alone[p] PROVE KnowsFile(p)'
    <3>1. KnowsFile(p) /\ pc'[p] = "force_remove"
      BY <1>0, <1>a, <1>b, <2>1, <2>3 DEF Goto
    <3> QED
      BY <2>1, <3>1 DEF KnowsFile, Exists
  <2> QED
    BY <2>1, <2>2, <2>3, OnlyOneSteps DEF Ended
<1>4. ASSUME NEW p \in Procs, ForceRemove(p) PROVE StartsOnce' /\ AloneKnows'
  <2> DEFINE label == IF Exists THEN "create" ELSE "error"
  <2>1. /\ pc[p] = "force_remove" /\ Goto(p, label) /\ attempt[p] = 0
        /\ UNCHANGED <<seen, attempt, alone>> /\ file'.owner = "none"
    BY <1>4 DEF ForceRemove, StartsOnce, NoFile
  <2>2. StartsOnce'
    BY <2>1, StartsOnceKept DEF Owning
  <2>3. KnowsFile(p)'
    BY <1>0, <2>1 DEF KnowsFile, Goto
  <2> QED
    BY <2>1, <2>2, <2>3, OnlyOneSteps DEF Ended
<1>5. ASSUME NEW p \in Procs, Create(p) PROVE StartsOnce' /\ AloneKnows'
  <2>1. pc[p] = "create" /\ UNCHANGED <<seen, attempt, alone>>
    BY <1>5 DEF Create
  <2>2. CASE Exists
    <3>1. Goto(p, "read") /\ UNCHANGED file
      BY <1>5, <2>2 DEF Create
    <3>2. StartsOnce'
      BY <2>1, <3>1, StartsOnceKept DEF Owning
    <3>3. ASSUME alone[p] PROVE KnowsFile(p)'
      <4>1. attempt[p] = 0
        BY <1>a, <2>1, <2>2, <3>3 DEF KnowsFile
      <4> QED
        BY <1>0, <2>1, <2>2, <3>1, <4>1 DEF KnowsFile, Goto, Exists
    <3> QED
      BY <2>1, <3>1, <3>2, <3>3, OnlyOneSteps DEF Ended
  <2>3. CASE ~Exists
    <3>1. Goto(p, "write") /\ file'.owner = p
      BY <1>5, <2>3 DEF Create
    <3>2. pc'[p] = "write" /\ \A q \in Procs \ {p} : pc'[q] = pc[q]
      BY <1>0, <3>1 DEF Goto
    <3>3. StartsOnce'
      BY <2>1, <3>1, <3>2 DEF StartsOnce, Owning
    <3>4. KnowsFile(p)'
      BY <3>2 DEF KnowsFile
    <3> QED
      BY <2>1, <3>1, <3>3, <3>4, OnlyOneSteps DEF Ended
  <2> QED
    BY <2>2, <2>3
<1>c. ASSUME NEW p \in Procs, pc[p] \notin Ended, NEW label,
             label \in {"locked", "serving", "release", "error", "gone"}, Goto(p, label),
             UNCHANGED <<seen, attempt, alone>>, StartsOnce'
      PROVE  StartsOnce' /\ AloneKnows'
  <2>1. pc'[p] = label
    BY <1>0, <1>c DEF Goto
  <2>2. KnowsFile(p)'
    BY <1>c, <2>1 DEF KnowsFile
  <2> QED
    BY <1>c, <2>2, OnlyOneSteps
<1>d. ASSUME NEW p \in Procs, pc[p] \in Owning, NEW label,
             label \in {"locked", "serving", "release", "gone"}, Goto(p, label),
             UNCHANGED <<seen, attempt, alone>>, file'.owner \in {file.owner, p, "none"}
      PROVE  StartsOnce' /\ AloneKnows'
  <2>1. pc'[p] = label /\ \A q \in Procs \ {p} : pc'[q] = pc[q]
    BY <1>0, <1>d DEF Goto
  <2>2. StartsOnce'
    BY <1>0, <1>d, <2>1 DEF StartsOnce, Owning
  <2> QED
    BY <1>c, <1>d, <2>2 DEF Owning, Ended
<1>6. ASSUME NEW p \in Procs, Write(p) PROVE StartsOnce' /\ AloneKnows'
  <2>1. /\ pc[p] = "write" /\ Goto(p, "locked") /\ UNCHANGED <<seen, attempt, alone>>
        /\ file'.owner = file.owner
    BY <1>0, <1>6 DEF Write
  <2> QED
    BY <1>d, <2>1 DEF Owning
<1>7. ASSUME NEW p \in Procs, WriteFails(p) PROVE StartsOnce' /\ AloneKnows'
  <2>1. /\ pc[p] = "write" /\ Goto(p, "error") /\ UNCHANGED <<seen, attempt, alone>>
        /\ file'.owner = "none"
    BY <1>7 DEF WriteFails, NoFile
  <2>2. pc'[p] = "error" /\ \A q \in Procs \ {p} : pc'[q] = pc[q]
    BY <1>0, <2>1 DEF Goto
  <2>3. StartsOnce'
    BY <1>0, <2>1, <2>2 DEF StartsOnce
  <2> QED
    BY <1>c, <2>1, <2>3 DEF Ended
<1>e. ASSUME NEW p \in Procs, pc[p] \in {"read", "reread", "remove"}, Again(p),
             UNCHANGED alone, file'.owner \in {file.owner, "none"},
             alone[p] => attempt[p] = 0 /\ file'.owner = "none"
      PROVE  StartsOnce' /\ AloneKnows'
  <2> DEFINE label == IF attempt[p] + 1 < 3 THEN "create" ELSE "refused"
  <2>1. /\ Goto(p, label) /\ attempt'[p] = attempt[p] + 1
        /\ \A q \in Procs \ {p} : attempt'[q] = attempt[q]
    BY <1>0, <1>e DEF Again
  <2>2. StartsOnce'
    BY <1>e, <2>1, StartsOnceKept DEF Owning
  <2>3. ASSUME alone[p] PROVE KnowsFile(p)'
    <3>1. attempt'[p] = 1 /\ file'.owner = "none" /\ label = "create"
      BY <1>e, <2>1, <2>3
    <3>2. pc'[p] = "create"
      BY <1>0, <2>1, <3>1 DEF Goto
    <3> QED
      BY <3>1, <3>2 DEF KnowsFile, Exists
  <2> QED
    BY <1>e, <2>1, <2>2, <2>3, OnlyOneSteps DEF Ended
<1>8. ASSUME NEW p \in Procs, Read(p) PROVE StartsOnce' /\ AloneKnows'
  <2>1. /\ pc[p] = "read" /\ UNCHANGED <<file, alone>> /\ seen'[p] = file.owner
    BY <1>0, <1>8 DEF Read
  <2>2. CASE Exists
    <3> DEFINE label == IF ~file.ready \/ Host[file.owner] # Host[p]
                          THEN "refused" ELSE "probe"
    <3>1. Goto(p, label) /\ UNCHANGED attempt
      BY <1>8, <2>2 DEF Read
    <3>2. StartsOnce'
      BY <2>1, <3>1, StartsOnceKept DEF Owning
    <3>3. ASSUME alone[p] PROVE KnowsFile(p)'
      <4>1. attempt[p] = 0
        BY <1>a, <2>1, <3>3 DEF KnowsFile
      <4> QED
        BY <1>0, <2>1, <2>2, <3>1, <4>1 DEF KnowsFile, Goto, Exists, Blocks
    <3> QED
      BY <2>1, <3>1, <3>2, <3>3, OnlyOneSteps DEF Ended
  <2>3. CASE ~Exists
    <3>1. Again(p) /\ ~alone[p]
      BY <1>8, <1>a, <2>1, <2>3 DEF Read, KnowsFile
    <3> QED
      BY <1>e, <2>1, <3>1
  <2> QED
    BY <2>2, <2>3
<1>9. ASSUME NEW p \in Procs, Probe(p) PROVE StartsOnce' /\ AloneKnows'
  <2> DEFINE label == IF Running(seen[p]) THEN "refused" ELSE "reread"
  <2>1. /\ pc[p] = "probe" /\ Goto(p, label)
        /\ UNCHANGED <<file, seen, attempt, alone>>
    BY <1>9 DEF Probe
  <2>2. StartsOnce'
    BY <2>1, StartsOnceKept DEF Owning
  <2>3. ASSUME alone[p] PROVE KnowsFile(p)'
    <3>1. KnowsFile(p) /\ pc'[p] = "reread"
      BY <1>0, <1>a, <1>b, <2>1, <2>3 DEF Goto
    <3> QED
      BY <2>1, <3>1 DEF KnowsFile, Exists
  <2> QED
    BY <2>1, <2>2, <2>3, OnlyOneSteps DEF Ended
<1>10. ASSUME NEW p \in Procs, Reread(p) PROVE StartsOnce' /\ AloneKnows'
  <2>1. pc[p] = "reread" /\ UNCHANGED <<file, seen, alone>>
    BY <1>10 DEF Reread
  <2>2. CASE file.ready /\ file.owner = seen[p]
    <3>1. Goto(p, "remove") /\ UNCHANGED attempt
      BY <1>10, <2>2 DEF Reread
    <3>2. StartsOnce'
      BY <2>1, <3>1, StartsOnceKept DEF Owning
    <3>3. ASSUME alone[p] PROVE KnowsFile(p)'
      <4>1. KnowsFile(p) /\ pc'[p] = "remove"
        BY <1>0, <1>a, <3>1, <3>3 DEF Goto
      <4> QED
        BY <2>1, <3>1, <4>1 DEF KnowsFile, Exists
    <3> QED
      BY <2>1, <3>1, <3>2, <3>3, OnlyOneSteps DEF Ended
  <2>3. CASE ~(file.ready /\ file.owner = seen[p])
    <3>1. Again(p) /\ ~alone[p]
      BY <1>10, <1>a, <2>1, <2>3 DEF Reread, KnowsFile
    <3> QED
      BY <1>e, <2>1, <3>1
  <2> QED
    BY <2>2, <2>3
<1>11. ASSUME NEW p \in Procs, Remove(p) PROVE StartsOnce' /\ AloneKnows'
  <2>1. pc[p] = "remove" /\ Again(p) /\ UNCHANGED alone /\ file'.owner = "none"
    BY <1>11 DEF Remove, NoFile
  <2>2. alone[p] => attempt[p] = 0
    BY <1>a, <2>1 DEF KnowsFile
  <2> QED
    BY <1>e, <2>1, <2>2
<1>12. ASSUME NEW p \in Procs, SetAddr(p) \/ WorkOffline(p) PROVE StartsOnce' /\ AloneKnows'
  <2>1. /\ pc[p] = "locked" /\ Goto(p, "serving") /\ UNCHANGED <<seen, attempt, alone>>
        /\ file'.owner \in {file.owner, p}
    BY <1>12 DEF SetAddr, WorkOffline
  <2> QED
    BY <1>d, <2>1 DEF Owning
<1>13. ASSUME NEW p \in Procs, ReleaseRead(p) \/ ReleaseRemove(p)
       PROVE  StartsOnce' /\ AloneKnows'
  <2>1. PICK label \in {"release", "gone"} : Goto(p, label)
    BY <1>13 DEF ReleaseRead, ReleaseRemove
  <2>2. /\ pc[p] \in {"serving", "release"} /\ UNCHANGED <<seen, attempt, alone>>
        /\ file'.owner \in {file.owner, "none"}
    BY <1>13 DEF ReleaseRead, ReleaseRemove, NoFile
  <2> QED
    BY <1>d, <2>1, <2>2 DEF Owning
<1>14. ASSUME NEW p \in Procs, Crash(p) PROVE StartsOnce' /\ AloneKnows'
  <2>1. pc[p] \notin Ended /\ Goto(p, "gone") /\ UNCHANGED <<file, seen, attempt, alone>>
    BY <1>14 DEF Crash, Running
  <2>2. StartsOnce'
    BY <2>1, StartsOnceKept
  <2> QED
    BY <1>c, <2>1, <2>2
<1>15. CASE UNCHANGED vars
  BY <1>15 DEF vars, StartsOnce, AloneKnows, KnowsFile, Blocks, Exists
<1> QED
  BY <1>1, <1>2, <1>3, <1>4, <1>5, <1>6, <1>7, <1>8, <1>9, <1>10, <1>11, <1>12,
     <1>13, <1>14, <1>15 DEF Next, Acquire

\* A start while nothing else runs is refused only for a lock of another host or
\* one that was never written, whatever crashes and forced unlocks came before it.
THEOREM RefusalsHaveReasons == Spec => []RefusedForAReason
<1>1. Init => RefusalInvariant
  BY DirLockAssumption DEF Init, RefusalInvariant, TypeOK, LoopBound, StartsOnce,
     AloneKnows, NoFile, Exists, Ended
<1>2. RefusalInvariant /\ [Next]_vars => RefusalInvariant'
  BY TypeStep, RefusalStep DEF RefusalInvariant
<1>3. RefusalInvariant => RefusedForAReason
  BY DEF RefusalInvariant, AloneKnows, KnowsFile, Blocks, RefusedForAReason
<1> QED
  BY <1>1, <1>2, <1>3, PTL DEF Spec
=============================================================================
