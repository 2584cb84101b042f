------------------------------ MODULE DataDir ------------------------------
(***************************************************************************)
(* The files of a data directory (store.go, archive.go, internal/cli/      *)
(* data.go): the state file and how it is replaced, the backup of an old   *)
(* format, the copy that import keeps, and the monthly archive files;      *)
(* through crashes of the process and power failures at every step.        *)
(*                                                                         *)
(* One process at a time works on the directory: the data directory lock   *)
(* sees to that (module DirLock).  The goroutines inside a server are the  *)
(* subject of SaveQueue; here the server saves one snapshot at a time and  *)
(* the board changes meanwhile.                                            *)
(*                                                                         *)
(* Abstracted: of the state only the activity log is kept.  An entry is    *)
(* its id, the event it records and the month it happened in.  A state     *)
(* file is the state it encodes, or torn: the length and the checksum of   *)
(* DecodeFile tell the two apart.  Directory entries are durable once the  *)
(* call that makes them has returned, the contents of a file once it is    *)
(* synced.  Temporary files left by a crash are never read again.  The     *)
(* copies of imports have the second in their names: whether an import     *)
(* falls into the second of the latest copy is a nondeterministic choice.  *)
(***************************************************************************)
EXTENDS Integers, Sequences, FiniteSets, FiniteSetsExt

CONSTANTS
  MaxActivity,    \* Options.MaxActivity
  Months,         \* bound: months, one archive file each
  MaxEvents,      \* bound: events logged
  MaxFaults,      \* bound: crashes, power failures, failed archive writes
                  \* and failed reads of an import
  MaxImports,     \* bound: imports
  MaxInputs       \* bound: events and imports together

ASSUME DataDirAssumption ==
  /\ MaxActivity \in Nat \ {0} /\ Months \in Nat \ {0}
  /\ MaxEvents \in Nat /\ MaxImports \in Nat
  /\ MaxFaults \in Nat /\ MaxInputs \in Nat

VARIABLES
  month,          \* the current month
  named,          \* history: every entry ever logged
  pc,             \* control point of the process, "down" when there is none
  job,            \* what it runs for: "start", "serve", "export", "import"
  mem,            \* Board.st, or the state an offline command works on
  batch, cut,     \* archiveOld: entries still to archive, and its cutID
  tmp,            \* the temporary file
  main,           \* board.json
  bak,            \* board.json.bak
  kept,           \* the files board.json.before-import-<time>, oldest first
  archive,        \* archive[m]: the gzip members of the file of month m
  exported,       \* the state in the latest export, in a set
  saved, ever,    \* history: the events that board.json has held, since the
                  \* last import and since the beginning
  unkept,         \* history: the events of the boards that imports could not
                  \* read and of the copies that later copies replaced
  imports,        \* number of imports
  faults,         \* number of the faults that MaxFaults bounds
  outage          \* history: the power has failed

vars == <<month, named, pc, job, mem, batch, cut, tmp, main, bak, kept, archive,
          exported, saved, ever, unkept, imports, faults, outage>>

procVars == <<pc, job, mem, batch, cut, tmp>>
diskVars == <<main, bak, kept, archive>>
history == <<saved, ever, unkept>>
counters == <<imports, faults, outage>>

Entry == [id : Nat, event : Nat, month : 1..Months]
State == [live : SUBSET Entry, next : Nat]
NewState == [live |-> {}, next |-> 0]

\* A file: whether it is there, how it is encoded, and whether the disk has it.
NoFile == [kind |-> "none", st |-> NewState, synced |-> TRUE]
TornFile == [kind |-> "torn", st |-> NewState, synced |-> TRUE]
File(kind, st) == [kind |-> kind, st |-> st, synced |-> FALSE]

Events(st) == {e.event : e \in st.live}

First == [id |-> 1, event |-> 1, month |-> 1]

Init ==
  /\ month = 1
  /\ pc = "down" /\ job = "none" /\ mem = NewState
  /\ batch = {} /\ cut = 0 /\ tmp = NoFile
  /\ bak = NoFile /\ kept = <<>>
  /\ archive = [m \in 1..Months |-> <<>>]
  /\ exported = {} /\ unkept = {}
  /\ imports = 0 /\ faults = 0 /\ outage = FALSE
  \* a new directory, or one with a file in the original format
  /\ \/ main = NoFile /\ named = {} /\ saved = {} /\ ever = {}
     \/ /\ named = {First}
        /\ main = [kind |-> "legacy", st |-> [live |-> {First}, next |-> 1], synced |-> TRUE]
        /\ saved = {1} /\ ever = {1}

-----------------------------------------------------------------------------
(* Reading.                                                                *)

\* ValidateState, as far as the log goes (ids are unique by construction).
ValidLog(st) == \A e \in st.live : e.id <= st.next

\* DecodeFile and DecodeState: a missing file is an empty state.
Readable(f) == f.kind # "torn" /\ ValidLog(f.st)

\* The members of all archive files, each named by its month and its number,
\* and the order in which they are read.
Members == UNION {{<<m, i>> : i \in DOMAIN archive[m]} : m \in 1..Months}
Member(k) == archive[k[1]][k[2]]
ReadBefore(j, k) == j[1] < k[1] \/ (j[1] = k[1] /\ j[2] < k[2])

ArchiveReadable == \A k \in Members : Member(k).whole

\* No member read earlier has an entry with this id.
Unseen(id, k) ==
  \A j \in Members : ReadBefore(j, k) => \A d \in Member(j).entries : d.id # id

\* Variant: a member with an id that was seen before is skipped as a whole.
ReadArchiveMembers ==
  UNION {Member(k).entries :
           k \in {k \in Members : \A e \in Member(k).entries : Unseen(e.id, k)}}

\* ReadArchive: of the entries with the same id the first one read is kept.
ReadArchive ==
  UNION {{e \in Member(k).entries : Unseen(e.id, k)} : k \in Members}

MergeActivity(archived, live) ==
  archived \cup {e \in live : \A d \in archived : d.id # e.id}

WithArchive(st) == [st EXCEPT !.live = MergeActivity(ReadArchive, st.live)]

-----------------------------------------------------------------------------
(* The board in memory.                                                    *)

Inputs == Cardinality(named) + imports

\* Board.log, while a server runs: an event gets the next id.
Log ==
  /\ job = "serve"
  /\ Cardinality(named) < MaxEvents /\ Inputs < MaxInputs
  /\ LET e == [id |-> mem.next + 1, event |-> Cardinality(named) + 1, month |-> month]
     IN  /\ mem' = [live |-> mem.live \cup {e}, next |-> e.id]
         /\ named' = named \cup {e}
  /\ UNCHANGED <<month, pc, job, batch, cut, tmp, diskVars, exported, history,
                 counters>>

NextMonth ==
  /\ month < Months
  /\ month' = month + 1
  /\ UNCHANGED <<named, procVars, diskVars, exported, history, counters>>

-----------------------------------------------------------------------------
(* FileStore.Load, for a server that starts or an offline export.          *)

Loaded(j) == IF j = "export" THEN "export" ELSE "up"
Serving(j) == IF j = "start" THEN "serve" ELSE j

Load(j) ==
  /\ pc = "down"
  /\ Readable(main)
  /\ mem' = main.st
  /\ IF main.kind = "legacy"
       THEN pc' = "backup" /\ job' = j
       ELSE pc' = Loaded(j) /\ job' = Serving(j)
  /\ UNCHANGED <<month, named, batch, cut, tmp, diskVars, exported, history,
                 counters>>

\* migrateLocked: the backup is created unless there is one already.
Backup ==
  /\ pc = "backup"
  /\ IF bak.kind = "none"
       THEN bak' = TornFile /\ pc' = "copy"
       ELSE pc' = "save" /\ UNCHANGED bak
  /\ UNCHANGED <<month, named, job, mem, batch, cut, tmp, main, kept, archive,
                 exported, history, counters>>

\* The old bytes are written, or the write fails and so does the start.
CopyToBackup ==
  /\ pc = "copy"
  /\ \/ bak' = [main EXCEPT !.synced = FALSE] /\ pc' = "save" /\ UNCHANGED job
     \/ pc' = "down" /\ job' = "none" /\ UNCHANGED bak
  /\ UNCHANGED <<month, named, mem, batch, cut, tmp, main, kept, archive,
                 exported, history, counters>>

-----------------------------------------------------------------------------
(* saveLocked: a temporary file is written, synced and renamed.            *)

\* What follows a save: a server goes on either way, everything else ends
\* when the save has failed; an import ends when it has succeeded, too.
Saved(ok) ==
  /\ tmp' = NoFile
  /\ IF job = "serve" \/ (ok /\ job # "import")
       THEN pc' = Loaded(job) /\ job' = Serving(job)
       ELSE pc' = "down" /\ job' = "none"

WriteTmp ==
  /\ pc = "save"
  /\ tmp' = File("current", mem)
  /\ pc' = "sync"
  /\ UNCHANGED <<month, named, job, mem, batch, cut, diskVars, exported, history,
                 counters>>

\* Variant: the temporary file is not synced before it is renamed.
SyncTmpSkipped ==
  /\ pc = "sync"
  /\ pc' = "rename"
  /\ UNCHANGED <<month, named, job, mem, batch, cut, tmp, diskVars, exported,
                 history, counters>>

SyncTmp ==
  /\ pc = "sync"
  /\ tmp' = [tmp EXCEPT !.synced = TRUE]
  /\ pc' = "rename"
  /\ UNCHANGED <<month, named, job, mem, batch, cut, diskVars, exported, history,
                 counters>>

Rename ==
  /\ pc = "rename"
  /\ main' = tmp
  /\ saved' = (IF job = "import" THEN {} ELSE saved) \cup Events(tmp.st)
  /\ ever' = ever \cup Events(tmp.st)
  /\ Saved(TRUE)
  /\ UNCHANGED <<month, named, mem, batch, cut, bak, kept, archive, exported,
                 unkept, counters>>

\* Any of the calls fails: the deferred Remove takes the temporary file away.
SaveFails ==
  /\ pc \in {"save", "sync", "rename"}
  /\ Saved(FALSE)
  /\ UNCHANGED <<month, named, mem, batch, cut, diskVars, exported, history,
                 counters>>

-----------------------------------------------------------------------------
(* saveNow of a running server: archiveOld, then the Store.                *)

Oldest(st) ==
  {e \in st.live : Cardinality({d \in st.live : d.id < e.id})
                     < Cardinality(st.live) - MaxActivity \div 2}

SaveNow ==
  /\ pc = "up"
  /\ IF Cardinality(mem.live) <= MaxActivity
       THEN pc' = "save" /\ UNCHANGED <<batch, cut>>
       ELSE /\ pc' = "append"
            /\ batch' = Oldest(mem)
            /\ cut' = Max({e.id : e \in Oldest(mem)})
  /\ UNCHANGED <<month, named, job, mem, tmp, diskVars, exported, history, counters>>

\* appendArchive works through the months of the batch in order.
Current == Min({e.month : e \in batch})
OfCurrent == {e \in batch : e.month = Current}

\* The file is opened and a member begun.  Until it is complete it is torn.
BeginMember ==
  /\ pc = "append" /\ batch # {}
  /\ archive' = [archive EXCEPT ![Current] =
                   Append(@, [entries |-> OfCurrent, whole |-> FALSE])]
  /\ pc' = "member"
  /\ UNCHANGED <<month, named, job, mem, batch, cut, tmp, main, bak, kept, exported,
                 history, counters>>

Completed == [archive EXCEPT ![Current][Len(archive[Current])].whole = TRUE]

\* The member is written to its end and synced.
EndMember ==
  /\ pc = "member"
  /\ archive' = Completed
  /\ batch' = batch \ OfCurrent
  /\ pc' = "append"
  /\ UNCHANGED <<month, named, job, mem, cut, tmp, main, bak, kept, exported,
                 history, counters>>

\* Opening or writing fails: what was written of the member stays in the file,
\* the batch is given up, and a later saveNow archives it again.
AppendFails ==
  /\ pc \in {"append", "member"} /\ batch # {}
  /\ faults < MaxFaults /\ faults' = faults + 1
  /\ batch' = {}
  /\ pc' = "up"
  /\ UNCHANGED <<month, named, job, mem, cut, tmp, diskVars, exported, history,
                 imports, outage>>

\* Variant: the entries leave the log whether or not they are archived.
DropUnarchived ==
  /\ pc \in {"append", "member"}
  /\ mem' = [mem EXCEPT !.live = {e \in mem.live : e.id > cut}]
  /\ batch' = {}
  /\ pc' = "save"
  /\ UNCHANGED <<month, named, job, cut, tmp, diskVars, exported, history, counters>>

\* archiveOld, second part: the archived entries leave the live log.
Drop ==
  /\ pc = "append" /\ batch = {}
  /\ mem' = [mem EXCEPT !.live = {e \in mem.live : e.id > cut}]
  /\ pc' = "save"
  /\ UNCHANGED <<month, named, job, batch, cut, tmp, diskVars, exported, history,
                 counters>>

\* The server stops after the final save of Close; a stop whose final save
\* fails leaves the directory like a crash does.
Stop ==
  /\ pc = "up"
  /\ main.kind = "current" /\ main.st = mem
  /\ pc' = "down" /\ job' = "none"
  /\ UNCHANGED <<month, named, mem, batch, cut, tmp, diskVars, exported, history,
                 counters>>

-----------------------------------------------------------------------------
(* Export and import.                                                      *)

\* Board.Export, asked for over HTTP.
ExportOnline ==
  /\ job = "serve"
  /\ exported' = {mem}
  /\ UNCHANGED <<month, named, procVars, diskVars, history, counters>>

\* export -data, with or without -with-archive.
ExportOffline ==
  /\ pc = "export"
  /\ \/ exported' = {mem}
     \/ ArchiveReadable /\ exported' = {WithArchive(mem)}
     \/ ~ArchiveReadable /\ UNCHANGED exported
  /\ pc' = "down" /\ job' = "none"
  /\ UNCHANGED <<month, named, mem, batch, cut, tmp, diskVars, history, counters>>

\* importCmd: the file is decoded before the directory is touched.  There is
\* nothing to keep without a board.json, and one that cannot be read is replaced
\* without a copy.
Import ==
  /\ pc = "down" /\ imports < MaxImports /\ Inputs < MaxInputs
  /\ \E st \in exported :
       /\ ValidLog(st)
       /\ mem' = st
  /\ imports' = imports + 1
  /\ job' = "import"
  /\ \/ pc' = (IF main.kind = "none" THEN "save" ELSE "keep") /\ UNCHANGED <<faults, unkept>>
     \/ /\ main.kind # "none" /\ faults < MaxFaults /\ faults' = faults + 1
        /\ unkept' = unkept \cup Events(main.st)
        /\ pc' = "save"
  /\ UNCHANGED <<month, named, batch, cut, tmp, diskVars, exported, saved, ever, outage>>

\* Variant: board.json is replaced without a copy.
KeepNothing ==
  /\ pc = "keep"
  /\ pc' = "save"
  /\ UNCHANGED <<month, named, mem, job, batch, cut, tmp, diskVars, exported, history,
                 counters>>

\* The copy is a new file, or takes the place of the latest one.
KeptWith(i, f) == IF i \in DOMAIN kept THEN [kept EXCEPT ![i] = f] ELSE Append(kept, f)

\* The old file is copied, over the latest copy when that was made in the same
\* second; when writing fails a torn copy is left.
KeepOld ==
  /\ pc = "keep"
  /\ \E i \in {Len(kept), Len(kept) + 1} \ {0} :
       /\ \/ kept' = KeptWith(i, [main EXCEPT !.synced = FALSE]) /\ pc' = "save" /\ UNCHANGED job
          \/ kept' = KeptWith(i, TornFile) /\ pc' = "down" /\ job' = "none"
       /\ unkept' = unkept \cup (IF i \in DOMAIN kept THEN Events(kept[i].st) ELSE {})
  /\ UNCHANGED <<month, named, mem, batch, cut, tmp, main, bak, archive, exported,
                 saved, ever, counters>>

-----------------------------------------------------------------------------
(* Crashes (external).                                                     *)

\* The process is killed.  A member that was being written may be complete.
Die ==
  /\ faults < MaxFaults /\ faults' = faults + 1
  /\ pc' = "down" /\ job' = "none"
  /\ mem' = NewState /\ batch' = {} /\ cut' = 0 /\ tmp' = NoFile
  /\ \/ UNCHANGED archive
     \/ pc = "member" /\ archive' = Completed

Crash ==
  /\ pc # "down"
  /\ Die
  /\ UNCHANGED <<month, named, main, bak, kept, exported, history, imports, outage>>

AllSynced(files) == [i \in DOMAIN files |-> [files[i] EXCEPT !.synced = TRUE]]

\* What a file may be after the power has failed.
Survivors(f) == IF f.synced THEN {f} ELSE {[f EXCEPT !.synced = TRUE], TornFile}

PowerFailure ==
  /\ Die
  /\ main' \in Survivors(main)
  /\ bak' \in Survivors(bak)
  /\ kept' \in {AllSynced(kept), [i \in DOMAIN kept |-> IF kept[i].synced THEN kept[i] ELSE TornFile]}
  /\ outage' = TRUE
  /\ UNCHANGED <<month, named, exported, history, imports>>

\* The operating system writes the backup and the kept copies back in time.
Writeback ==
  /\ ~bak.synced \/ \E i \in DOMAIN kept : ~kept[i].synced
  /\ bak' = [bak EXCEPT !.synced = TRUE]
  /\ kept' = AllSynced(kept)
  /\ UNCHANGED <<month, named, procVars, main, archive, exported, history, counters>>

Next ==
  \/ Log \/ NextMonth
  \/ \E j \in {"start", "export"} : Load(j)
  \/ Backup \/ CopyToBackup
  \/ WriteTmp \/ SyncTmp \/ Rename \/ SaveFails
  \/ SaveNow \/ BeginMember \/ EndMember \/ AppendFails \/ Drop \/ Stop
  \/ ExportOnline \/ ExportOffline \/ Import \/ KeepOld
  \/ Crash \/ PowerFailure \/ Writeback

Spec == Init /\ [][Next]_vars

-----------------------------------------------------------------------------
(* Properties.                                                             *)

FileType == [kind : {"none", "legacy", "current", "torn"}, st : State,
             synced : BOOLEAN]
MemberType == [entries : SUBSET Entry, whole : BOOLEAN]

\* What the process has.
ProcOK ==
  /\ pc \in {"down", "backup", "copy", "save", "sync", "rename", "up", "append",
             "member", "export", "keep"}
  /\ job \in {"none", "start", "serve", "export", "import"}
  /\ mem \in State /\ batch \subseteq Entry /\ cut \in Nat /\ tmp \in FileType

\* What the directory has.
DiskOK ==
  /\ main \in FileType /\ bak \in FileType /\ kept \in Seq(FileType)
  /\ archive \in [1..Months -> Seq(MemberType)]

\* The variables have their types.
TypeOK ==
  /\ month \in 1..Months /\ named \subseteq Entry
  /\ ProcOK /\ DiskOK
  /\ exported \subseteq State
  /\ saved \subseteq Nat /\ ever \subseteq Nat /\ unkept \subseteq Nat
  /\ imports \in Nat /\ faults \in Nat /\ outage \in BOOLEAN

\* "The file itself is never left half written": board.json always decodes and
\* validates, whatever crash or power failure comes at whatever moment, so the
\* next start is never refused because of the last stop.
MainLoads == Readable(main)

Archived == UNION {UNION {{e.event : e \in archive[m][i].entries}
                            : i \in {i \in DOMAIN archive[m] : archive[m][i].whole}}
                     : m \in 1..Months}

\* An event that was once in board.json is in board.json or in a complete
\* member of an archive file: neither a crash nor a failed write anywhere in
\* archiving, migrating and saving loses it.  Imports start afresh.
HistoryKept == saved \subseteq Events(main.st) \cup Archived

KeptEvents == UNION {Events(kept[i].st) : i \in DOMAIN kept}

\* The events that imports replaced are still in one of the copies they made,
\* whatever the import does after it has read board.json.  Three things take
\* them: a power failure (the copies are not synced), a board.json that the
\* import could not read (it is replaced all the same), and a second import in
\* the same second (its copy has the name of the first).
ReplacedKept ==
  ~outage => ever \subseteq Events(main.st) \cup Archived \cup KeptEvents \cup unkept

\* Everything that board.json or a readable archive holds under an id that was
\* given only once is in an export with archives: duplicates left by crashes and
\* retries hide nothing.
DuplicatesHideNothing ==
  ArchiveReadable =>
    \A e \in named :
      (e.event \in saved /\ \A d \in named : d.id = e.id => d = e)
        => e \in WithArchive(main.st).live
=============================================================================
