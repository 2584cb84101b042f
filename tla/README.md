# agentboard: a TLA+ verification project

agentboard is a task board for coding agents: one Go process keeps projects,
tasks, agents and a timeline in memory, saves them to a data directory, and
serves them over HTTP to agents, a command line and a web page.  Agents claim
tasks under a lease, renew the lease by heartbeats, and finish or release the
task; a lease nobody renews expires and the task goes back to `todo`.

This directory holds TLA+ models of its parts, the TLC instances that check
them, and proofs that TLAPS checks.  `PROJECT.json` lists the runs, the source
lines behind every definition, the hazards, the findings and the theorems.

Check a run with `tlc -config MCLeases.cfg MCLeases`, a proof module with
`tlapm BoardProofs.tla`.

## 1. Inventory

| Component | State | Operations | Talks to |
|---|---|---|---|
| **Board rules** (`board.go`, `model/model.go`) | projects with their id counters, tasks (kind, parent, column, assignee, lease, dates), agents (last heartbeat, current task), timeline | `CreateProject`, `AddTask`, `Claim`, `Release`, `Complete`, `Update`, `Comment`, `Heartbeat`, `Sweep`, `Shutdown`, the reads | called by server and CLI; every method runs under `Board.mu` and sweeps expired leases first |
| **Write-behind persistence** (`board.go`: `persistAndPublishLocked`, `writer`, `saveNow`, `archiveOld`, `Flush`, `Close`) | `dirty`, `lastErr`, `kick`, `stop`, `closed`, the snapshot in flight, `saveMu` | a change marks dirty and kicks or saves inline; the writer debounces, saves, backs off; Flush/Close save now | Store, archive files |
| **Data directory lock** (`lock.go`, `lock_unix.go`) | the lock file | `AcquireLock`, `SetAddr`, `Release`, `ForceUnlock` | other processes, by the file system and `kill(pid, 0)` |
| **FileStore, import and export** (`store.go`, `internal/cli/data.go`) | the state file, its temporary file, the backup of an old format, the copies imports keep | `Load` with migration and checks, `Save`, `ValidateState`, `import`, `export` | file system |
| **Activity archive** (`archive.go`) | one gzip file per month, a member per batch | `appendArchive`, `ReadArchive`, `MergeActivity` | file system |
| **Accounts** (`auth.go`, `login.go`, `pbkdf2.go`) | users with password hashes | `Register`, `Authenticate` (with rehash) | Board |
| **Sessions and limiter** (`sessions.go`, `auth_server.go`) | sessions with sliding expiry, failed logins per address, the cookie in the browser | create, validate, invalidate, sweep; allowed, recordFailure, recordSuccess | server |
| **Events** (`board.go`, `server.go`) | one bounded channel per subscriber | subscribe, publish (drops when full), the event stream | web UI, webhook |
| **Server** (`server.go`, `types.go`) | sweep ticker, `done` channel, requests in progress | routes, `Serve`, graceful shutdown | Board, sessions |
| **Client and agents** (`client.go`, `internal/cli/cli.go`) | what an agent believes to hold | one HTTP call per operation, with a timeout and no retry | server |
| **Webhook** (`webhook.go`) | its channel, the delivery under way | one POST per event it receives | Board, an external endpoint |
| **Command line** (`internal/cli`) | none | lock, load, serve, and what `serve` defers | all of the above |
| **Web UI** (`cmd/agentboard-ui`) | snapshot, selection and detail, stream, filter, tabs, what is typed | poke/loop/reload, dispatch, act, render | server |
| **View models** (`internal/view`, `model/date.go`) | none | filter, columns, epics, timeline | web UI |

### Which behaviours are hard

* *Leases.*  Claims, renewals, completions, status changes and the sweep reach
  the same task in any order around its expiry, and each is atomic only by
  itself.  Correct means: nobody loses an unexpired lease without a reason, no
  lease survives where no sweep looks for it, and a lease whose holder is silent
  ends.
* *Consistency over long sequences.*  Parents, kinds and dates are checked one
  update at a time; `ValidateState` must still accept every board they build, or
  an export cannot be imported again.
* *Write-behind saving.*  `dirty` is cleared before the disk write; changes
  arrive, writes fail, Flush and Close run meanwhile.  Correct means: no marked
  change is forgotten, a successful Flush is durable, the store never goes back,
  nothing leaves the log before it is archived, nobody waits for ever.
* *The lock.*  It is a file, so creation, writing, reading, probing and removal
  are separate system calls between which other processes run and crash.
* *Crashes* between archive, save and rename: the board must load again, and no
  entry may be lost.
* *Lost and late messages* between agents and server: two agents must not work
  on one task, and what an agent was told must stay true.
* *Hashing outside the lock*: registrations, logins, rehashes and the limiter
  overlap.
* *Hints.*  Events are dropped when a channel is full and streams break; the page
  must still end up with the last state, and the webhook call again after it.
* *Stopping.*  Handlers, sweeper, writer, webhook and five deferred calls end in
  a certain order, whatever they are doing.
* *Rendering.*  Every reply and event rebuilds the page while the user types.

`PROJECT.json` lists these as hazards at their source lines, with the properties
that would catch each of them, or the reason why none does.

## 2. Modules

| Module | Role |
|---|---|
| `Board` | the board rules, one action per `Board` method |
| `LeaseService`, `BoardRefinement` | abstract: what an agent is promised about leases; `Board` as its implementation |
| `SaveQueue` | write-behind persistence, one action per critical section or disk access |
| `DirLock` | the lock protocol, one action per system call |
| `DataDir` | the files of a data directory, one action per file system call, with crashes and power failures |
| `Access` | accounts, logins, sessions and the limiter, one action per lock section |
| `Agents` | composition: agents, client, server, lease rules and disk |
| `Serving` | composition: the life of a `serve` process with its requests, sweeper, writer, webhook and lock |
| `LiveUI` | composition: board, event stream and the reloads of a page |
| `Views`, `Page` | what the page shows, as functions; the state of the page |
| `MC...` | instances of the modules above |
| `BoardProofs` (with the refinement), `SaveQueueProofs`, `DirLockProofs`, `DataDirProofs`, `AccessProofs`, `AgentsProofs`, `ServingProofs`, `WebUIProofs` (`Page`, `Views` and `LiveUI`) | theorems |

Operators whose comment starts with *Variant* are deliberately wrong versions of
the definition after them; `PROJECT.json` pairs each with the property it must
break.

### Board

`now`, `projects`, `tasks`, `agents` and `latest` are `Options.Now`,
`State.Projects` (key to `NextSeq`), `State.Tasks`, `State.Agents` and the newest
entry of each task's timeline.  A task id `KEY-n` is the pair `<<KEY, n>>`.

Every method of the Go type locks the board, calls `sweepLocked` and then its own
closure, so each action computes its result from `SweptTasks`, `SweptAgents` and
`SweptLatest`.  A method that fails after the sweep keeps the sweep (`Board.do`
persists it as an event of its own), and so do the reads; the action `Sweep` is
that effect, and the effect of the server's ticker.  Calls refused before the lock
(bad names, empty titles) change nothing and are not actions.

Data that no property tells apart is abstracted: title, description, priority and
labels are the flag `text` of a patch; each optional field of a patch is a set
with at most one element.  Time is a number of ticks, `TicksPerSecond` of them to
the second, so the truncation of `LeaseSeconds` to whole seconds is in the model.
The reserved name `system` is refused where `requireActor` refuses it (`Actors`)
and accepted where the code tests only the syntax of the name.

### LeaseService

Per task: who holds it, until when, and whether it is open.  A step settles every
expired lease and then grants one open task that nobody else holds, renews the
leases of one agent, or ends the lease of one task.  So a finished task is not
handed out until it is reopened, a heartbeat touches all the leases of its sender
and nobody else's, and a live lease never passes from one agent to another in one
step.  The mapping
(`LeaseOf`) reads holder, end and openness off a task; Claim becomes `Grant`,
Heartbeat `Renew`, AddTask `Create`, Release, Complete and a change of column
`Move`, everything else `Settle` or a stutter.

### SaveQueue

The state in memory is represented by its version, the number of changes made;
every change logs one activity entry, so entry ids are versions too, the live log
is `through+1 .. version`, and the archive files hold `1 .. archive`.  `disk` is
what the Store holds.  `saver` is the holder of `saveMu` and `stage` its place in
`saveNow`; the board lock is held within a step only.  `Store.Save` and
`appendArchive` run outside the board lock: each is one step that succeeds or
fails.  `marked` and `goal` are history: the last change that set `dirty`, and
what was marked (and made) when a caller entered Flush.  `Change` stands for every
method that goes through `Board.do`; `SilentSweep` for `exportState` and
`Authenticate`, which sweep without marking the board dirty.

### DirLock

Each process runs ForceUnlock (when started with `-force-unlock`), AcquireLock,
SetAddr or offline work, and Release.  `file` is the lock file: its creator, which
stands for PID, host and token, and whether its content is written.  `os.Remove`
removes the file that has the name at that moment, whoever created it.  A crash
ends a process at any step.  `alone` is history: no other process has run since
this one started.

### DataDir

`main`, `bak`, `kept` and `tmp` are `board.json`, its backup, the copies made by
imports (the oldest first) and the temporary file: a state, its encoding (old format,
current, torn) and whether it is synced.  An import copies `board.json` to a new name,
or over the latest copy if that was made in the same second, and goes on without a copy
when it cannot read the file; `unkept` is history, the events lost to both.  `archive`
is one sequence of gzip members per month; a member is whole only after its last write.
Of the state only the activity log is kept: an entry is an id, the event it records and its month.  An event is what
the world did; after a crash the next id restarts from the saved state, so two
events may get one id, and the properties are stated about events.  One job at a
time works on the directory (`DirLock` sees to that): a server, an offline export
or an import.  A crash ends it between any two calls; after a power failure a file
that was not synced may be torn.

### Access

One request per browser, in the steps that the handlers take between the locks:
`Register` validates and hashes, `CreateUser` writes; `Login` asks the limiter,
`CopyCredentials`, `Verify` and `Rehash` are `Authenticate`, `RecordFailure` and
`RecordSuccess` follow, `StartSession` ends both.  `Me` is the use of a session.
`cookie` is the browser's copy with the age it was given.  A restart forgets
sessions and failures, and puts the accounts back as they were last saved (`stored`).

### Agents

A request is sent, served and answered in three steps.  The client gives up at any
of them, and what it sent may be served later (`adrift`).  `believed` is the end of
the lease each agent has been told of: that is how it decides to work.  `told` is
what somebody was told is done.  `disturbed` collects the tasks about which nothing
is promised any more: a person moved them, an unsaved change was lost in a crash,
or a release or completion that its sender had given up on arrived late.  `Persist`
is the difference between the save modes.

### Serving

`main` is where `serve` is: serving, draining, final save, webhook, close, unlock.
The board is the number of its changes.  A request makes one change and is
acknowledged if its connection is still open; the sweeper makes others, and so does a
webhook delivery whose event names a task, since reading the task sweeps.  `chan` is the
webhook's channel: an event names a task or not (`EventKinds`), and the writer's save
events take places in it too.  A listener that fails, a signal
and the API stop the process; handlers may outlive the five seconds.

### LiveUI

The board is its version.  `chan` and `wire` are the events in the subscriber's
channel and on the connection; `es` and `live` the browser's end.  `loop` is
`app.loop` with the request it waits for and the reply it got; a reply is applied
in a step of its own, so clicks come in between.  `post` is the request of `act` or
`stopServer`.  The server stops and starts, perhaps with another token or without
some tasks.  `app.snap`, `app.selected` and `app.detail` are `snapVersion`,
`selectedTask` and `detailReply` here, since only their age matters; in `Page` they have
their own names and what they show.

### Views and Page

`Views` has the pure functions: `Match`, `FilterQuery` and `ParseFilterQuery`,
`Columns`, `EpicOf`, the dates and the timeline.  `Page` uses them for what
`board()` and `timelineView()` show.  `fields` is the text in the elements of the
page (`Elements`); every render replaces the elements and `RenderFrom` carries over the
text of those marked data-draft (`Drafts`), as `captureDrafts` and `restoreDrafts` do.
The others, for which the element `"unmarked"` stands, start again with what `page()`
puts into them.

## 3. Runs

| Run | Instance | What it shows |
|---|---|---|
| `leases` | 1 project, 1 task, 2 agents, 2 ticks to the second, leases of 2 and 3 ticks, clock to 3, a patch for each column, one for text, three that name one date each | `ValidState` (end dates that arrive in a different update than start dates); `LeaseDiscipline`; `TimelineMatchesTask`; `LeaseEndsForAReason`; `RenewalKeepsSeconds` (a renewal of a 1.5 s lease loses the half second and no more); `AbandonedLeaseEnds`; `ImplementsLeaseService` |
| `planning` | 2 projects, 3 tasks of any kind, every parent as a patch | `ValidState` for the hierarchy, `NoParentCycle` |
| `save` | both modes, the writer and a caller, failing disk, silent sweeps, archive after 1 entry, 3 changes, changes after Close in sync mode | `SavedMeansOnDisk`, `FlushDurable`, `ArchiveFirst`, `DiskNeverGoesBack`, `EventuallySaved`, `CallersReturn` |
| `lock` | 2 processes on one host, 1 on another, 2 crashes | `MutualExclusion`, `FileNamesHolder` |
| `lock_recover` | 3 processes on one host, 2 of them forcing, 2 crashes | `RefusedForAReason` |
| `files` | archive after 1 entry, 2 months, 3 events, 2 faults, 2 imports, 4 events and imports together; new directory or one in the old format | `MainLoads`, `HistoryKept`, `ReplacedKept` (with its three exceptions), `DuplicatesHideNothing` |
| `access` | 2 browsers, 1 address, 2 passwords, strong and weak hashes, limit 2, time to live 2, clock to 4, 2 sessions, 1 restart | `SessionNeedsPassword`, `FailuresBounded`, `EndedStaysEnded`, `SessionEndsForAReason` |
| `agents` | 2 agents, 1 task, both modes, lease 1, clock to 2, 2 faults | `WorkersExclusive`, `DoneStaysDone`, `ToldIsSaved` |
| `live` | 2 tasks, channel and connection of 1 event, 3 versions, 2 faults, 2 clicks, fairness | `NeverSilentlyStale`, `EventuallyFresh`, `DetailSettles` |
| `serving` | 1 request, 2 sweeps, channel of 1 event, 1 failed save, with and without webhook, fairness | `AckedIsSaved`, `LockCoversSaves`, `HookCallsAgain` (a POST begins after every change; nothing about its payload), `StopsInTheEnd` |
| `page` | epic, story and task in 2 projects, two snapshots around a New Year, good and bad links, 3 fields of the filter, 1 shift | `UrlKeepsFilter`, `BoardShowsFilter`, `TimelineShowsWindow`, `DraftsSurvive` (elements marked data-draft only) |

One run shows a disagreement between the code and what the repository says:
`lock_takeover`.  *"one writer per data dir"* (lock.go:30), *"Remove only that exact
file"* (lock.go:82): of two starts that find the same stale lock, one removes the
fresh lock of the other.

### Bounds, and why they are enough

* `leases`: one task and two agents give every pair of operations on a task; the
  clock outlasts the default lease (2 ticks) by one tick, so leases expire, are renewed
  after part of their time and are claimed again.  The lease of 3 ticks is 1.5 seconds:
  `LeaseSeconds` says 1, and the first heartbeat moves its end back from 3 to 2.  What
  one agent's heartbeat does to its other tasks is covered by the theorems, which hold for any number.
* `planning`: three tasks make the deepest legal hierarchy, two projects the
  forbidden one across projects; patches name tasks that do not exist (yet) and
  the task itself.  Time, leases and dates are off: they do not meet the parents.
* `save`: three changes and `MaxActivity` 1 give a log that is archived while
  another change arrives; the caller and the writer compete for `saveMu`.  More
  callers are covered by the theorems.  `LateModes` says in which modes changes
  still arrive after Close: not in async mode, where they are saved inline and race
  with the final save (section 5).
* `lock`: three processes are one holder, one that takes over and one that
  interferes; the loop of AcquireLock is bounded by three in the code itself.
* `files`: with a log of one entry every second event is archived, so one batch
  spans two months, and two faults give a crash after a crash (a reused id, a torn
  member followed by a new one).  Two imports are the second of one second, which takes
  the copy of the first; `MaxInputs` lets them meet two events, and three events one
  import.
* `access`: the second login is the first that the limiter may refuse; the clock
  outlasts both the window and a session that was extended once.  An address that is
  not admitted cannot get past `Register`, so one address is enough.
* `agents`: a lease ends inside the clock, so a task changes hands; two faults are a
  lost reply and a crash.  Nothing is claimed once the only task is disturbed, so
  the behaviour is cut there.
* `live`: with one place in the channel the second change is dropped already.
* `serving`: one request and two sweeps are three changes for a channel of one;
  further requests would only repeat the same handler.
* `page`: the windows cross a year's end and a 29th of February; midnight passes
  between the two snapshots.  `MaxDepth` is 4 there and 8 in the code; a walk ends
  after three tasks, which is proved.  What is typed into the forms, the arrows and
  the lists of the filter do not meet in the code; `Focused` cuts the behaviours
  where they come together, and the theorems hold without it.
* Save events take places in the webhook's channel of `serving` as changes do.
* Names that begin with `Max`, `Months`, `Wire` and `Buffer` below the code's own
  size, and `Focused`, are the only bounds that the code does not have.

### Fairness

* `Board!FairSpec`: the clock goes on and `Sweep` is eventually run.  `Serve` runs
  it from a five-second ticker for as long as the server runs.  Nothing obliges
  any agent to call anything.
* `SaveQueue!FairSpec`: goroutines that can run do, and timers fire (weak fairness
  of the writer and of saveNow's own steps); Go's mutex hands itself over to a
  starving waiter (strong fairness of taking `saveMu`); `select` picks among the
  ready cases at random, so a closed `stop` is noticed (strong fairness of
  stopping); a disk that is tried again and again works some time (strong fairness
  of the two writes).  The last is an assumption about the environment: without it
  no program could save anything.
* `Serving!FairSpec`: the main goroutine, a save under way, the sweeper and the
  webhook go on; a POST ends, since its client has a timeout.  Nothing is assumed
  of the handlers of requests.
* `LiveUI!FairSpec`: the loop runs, its ticker fires, and a fetch is answered or
  fails.  Nothing is assumed of the stream, so `EventuallyFresh` rests on the poll.
* The other modules check safety only.

Deadlock is checked in `leases`, `planning`, `save`, `live`, `serving` and `page`;
in the others every process may have ended, or every bound be used up.

## 4. What is proved

`BoardProofs`, from the assumptions in `Board` (positive `TicksPerSecond` and
`DefaultLease`, well-formed patches, the empty string is neither a name nor a
key), for any sets of projects, names, leases and patches and any bounds:

| Theorem | Says |
|---|---|
| `TypeCorrect` | `Spec => []TypeOK` |
| `BoardStaysValid` | `Spec => []ValidState`: what operations build, `ValidateState` accepts |
| `ParentsEnd` | `Spec => []NoParentCycle` |
| `LeasesStayDisciplined` | `Spec => []LeaseDiscipline` |
| `TimelineStaysTrue` | `Spec => []TimelineMatchesTask` |
| `LeasesEndForAReason` | `Spec => LeaseEndsForAReason` |
| `RenewalsKeepSeconds` | `Spec => RenewalKeepsSeconds` |

The inductive invariant `BoardInvariant` is the conjunction of `TypeOK`,
`ValidState`, `LeaseDiscipline` and `TimelineMatchesTask`.  The parts need each
other: that `AddTask` uses a fresh id, and so destroys no task, no lease and no
timeline, follows from the counter part of `ValidState`; that an expired task is
in progress with an assignee from `LeaseDiscipline`; and `ValidState` needs the
types of ids and dates.  The proof has two layers.  Lemmas first show that the
swept state has every property the swept-from state had; each operation is then
reduced to "one task changes from `t` to `n`, and its newest entry is `e`", and
the invariant is shown for that shape, so an operation only has to establish its
own `n` and `e`.  `NoParentCycle` follows from `ValidState` because levels strictly
decrease and there are three of them.  `RenewalKeepsSeconds` allows a loss (`MaxLoss`,
less than a second, nothing where leases are whole seconds) because the code has it:
`LeaseSeconds` drops fractions of a second.  Its proof rests on an extra invariant, that
no lease ends more than `MaxLoss` after `LeaseSeconds` from now (`LeaseWithin`).

Its last part proves `BoardImplementsLeases`, `Spec => ImplementsLeaseService`,
from the same assumptions.  The first lemma there shows that the
sweep of a task, read through `LeaseOf`, is `Settled`; this is where
`LeaseDiscipline` is needed, since the sweep looks only at tasks in progress while
the service ends every lease whose time has come.  One lemma per abstract action
follows, and the theorem matches each operation with one of them.

`SaveQueueProofs`, for any set of callers, any `MaxActivity`, and failing disks:

| Theorem | Says |
|---|---|
| `SaveTypeCorrect` | `Spec => []TypeOK` |
| `ArchiveIsAhead` | `Spec => []ArchiveFirst`, in both modes, with changes after Close |
| `CleanIsSaved` | `Spec => []SavedMeansOnDisk` |
| `FlushIsDurable` | `Spec => []FlushDurable` |
| `DiskOnlyMovesOn` | `Spec => DiskNeverGoesBack` |

The last three assume that no change arrives after Close in async mode; without it
they are false (section 5).  `SaveInv` is their inductive invariant.  Beside the two
properties it says that the holder of `saveMu` is inside `saveNow` (`SaverInside`),
that `Close` sets `closed` only after it has told the writer to stop (`CloseStops`),
that nothing is marked, wanted or saved that has not been made (`Counted`), and that a snapshot on its way to
the Store is older neither than the Store nor, unless the board is dirty again, than
any marked change (`Snapped`); the last is what makes clearing the flag before the write safe.
There is one lemma per part of the invariant, with one case per action.

`DirLockProofs`, for any set of processes and any assignment to hosts:

| Theorem | Says |
|---|---|
| `LockTypeCorrect` | `Spec => []TypeOK`, with any crashes and forcing |
| `OrderlyExclusion` | `Orderly => (Spec => []MutualExclusion)` |
| `OrderlyFileNamesHolder` | `Orderly => (Spec => []FileNamesHolder)` |
| `RefusalsHaveReasons` | `Spec => []RefusedForAReason`, with any crashes and forcing |

`Orderly` says that no process crashes and none forces.  Crashes cannot be left in:
`lock_takeover` is a counterexample with one.  The invariant `LockInvariant` adds to
the types a bound on the loop counter, that whoever is between creating and
removing the lock file owns it (`FileOwned`), and that a process which suspects a
stale lock has read the name of one that has ended (`SuspectsEnded`); the last is
what makes the second read in AcquireLock fail and the removal unreachable.

`RefusalsHaveReasons` needs neither condition.  `RefusalInvariant` says what a process
that is alone knows of the lock file at each control point (`AloneKnows`): what it read
is what is there, and it meets one stale file at most, so it never uses up the loop.
The probe of the owner it read cannot find itself, since a process owns a file only
after creating one (`StartsOnce`).

`DataDirProofs`, for any size of the log and any months, events, faults and imports:

| Theorem | Says |
|---|---|
| `DataDirTypeCorrect` | `Spec => []TypeOK` |
| `MainAlwaysLoads` | `Spec => []MainLoads` |
| `HistoryIsKept` | `Spec => []HistoryKept` |
| `ReplacedIsKept` | `Spec => []ReplacedKept` |
| `ExportHasEverything` | `Spec => []DuplicatesHideNothing` |

`DataDirInv` follows an event from `board.json` into memory, into a batch, into a
member of an archive file and out of `board.json` again.  Beside the properties it
says that whatever is in memory or on disk was logged once, with one entry per event
(`AllLogged`), that `board.json` is synced and valid and so is what is renamed over it
(`FilesDecode`), that at every
control point an event of `board.json` is in what the process is about to write or in
a whole member (`Covered`), where the batch stands while it is appended (`Archiving`),
which job may be at which point (`Busy`), and that an import which is about to rename
has kept its copy, unless it could not read the file (`Replacing`).  `HistoryKept` alone
says nothing of the state in memory, from which the next save is made; `Covered` does.  `ExportHasEverything`
rests on a lemma about `ReadArchive`: the first member in reading order that has an id
exists, because a set of naturals has a least element.

`AccessProofs`, for any browsers, addresses, accounts, passwords, windows and limits:

| Theorem | Says |
|---|---|
| `AccessTypeCorrect` | `Spec => []TypeOK` |
| `SessionsNeedPasswords` | `Spec => []SessionNeedsPassword` |
| `FailuresAreBounded` | `Spec => []FailuresBounded` |
| `EndedSessionsStayEnded` | `Spec => EndedStaysEnded` |
| `SessionsEndForAReason` | `Spec => SessionEndsForAReason` |

`AccessInv` says of every login in progress that the copy it verifies has the account's
password, and past the check that its own password is the account's
(`CredentialsHold`), that the account of a session still has the
password the session was opened with (`OwnersKnow`), and that a session expires one
time to live after its last use (`SessionsSlide`).  The password of an account never
changes while the server runs (a rehash puts the same one back), so what was verified
outside the lock is still true when the session is made; a restart that loses the
account loses every login and session with it.  `FailuresAreBounded` counts, for one
address, the failures in the window plus the logins the limiter has let through; it
needs that the loop of `allowed` never returns more than it was given, which is proved
by induction over the sequence (`NatSetInduction`, an induction rule stated with a set,
derived from the well-foundedness of the naturals).

`AgentsProofs`, for any agents, tasks, lease, save mode and any number of lost replies,
late requests, failed saves, crashes and restarts:

| Theorem | Says |
|---|---|
| `AgentsTypeCorrect` | `Spec => []TypeOK` |
| `BeliefsAreCovered` | `Spec => []WorkIsCovered` |
| `AgentsExclude` | `Spec => []WorkersExclusive` |
| `DoneTasksStayDone` | `Spec => []DoneStaysDone` |
| `ToldTasksAreSaved` | `Spec => []ToldIsSaved` |

`WorkIsCovered` is true of what agents believe already; a reply on its way must be as
true of the board as what its receiver will make of it, and a request on its way must
not be able to take it back.  `AgentsInv` says so for each undisturbed task:
`BeliefCovered` for replies to claims and heartbeats, `FinisherKnows` and
`OutcomeKept` for completions and releases, `Ordinary` that no lease outlasts one
granted now, so that a renewal never shortens one.

`ServingProofs`, for any requests, buffer, sweeps and failed saves:

| Theorem | Says |
|---|---|
| `ServingTypeCorrect` | `Spec => []TypeOK` |
| `GracefulStopLosesNothing` | `Spec => []AckedIsSaved` |
| `SavesAreCovered` | `Spec => LockCoversSaves` |

`ServingInv` follows the main goroutine: what has ended when it is past a point does
not come back (`EndsInOrder`, `NoneLeft`, `NobodyAnswered`), and unless the listener
failed, the snapshot of the final save, and every one after it, has each change that
was answered (`FinalSaveHasAll`).

`WebUIProofs`, about the page, for any boards that `ValidateState` accepts (with ids
of the form KEY-n), any links, texts and valid filter values, and any day later than
the year `MaxShift`, so that no click leads before year 1:

| Theorem | Says |
|---|---|
| `AddressesKeepFilters` | `Spec => []UrlKeepsFilter` |
| `BoardsShowFilters` | `Spec => []BoardShowsFilter` |
| `TimelinesAreTrue` | `Spec => []TimelineShowsWindow` |
| `DraftsAreKept` | `Spec => DraftsSurvive`: elements marked data-draft |
| `PageTypeCorrect` | `Spec => []TypeOK` |

Three independent invariants carry them.  `FilterInv`: the filter has its fields and
only valid values, or `ParseFilterQuery` would drop what `FilterQuery` wrote.
`DraftsInv`: while the drawer shows a detail and the loop waits for one, it is that of
the same task; otherwise its arrival would take the comment's form away.
`TimelineInv`: once the timeline was opened, its window begins as many months after the
month of `anchor` as `net` says, and not before year 1.  The rest is about functions:

* *Lists.*  `Arrange` puts the elements at the indices I in the order R; in a linear
  order the p-th index is the one with p-1 predecessors (`RanksRise`, `ArrangeLists`).
  `KeepKeeps` and `SortSorts` follow: a filter loop keeps exactly what it should, once
  each, and a stable sort by a strict weak order loses nothing and puts nothing behind
  a greater element.  `MoreUrgent` and `EarlierStart` are such orders.
* *The tree of tasks.*  `EpicOf` looks at `MaxDepth` tasks at most; `Below`, the
  reference, looks for the epic among a task, its parent and its grandparent.
  Levels decrease on the walk, so it is over after three tasks (`ShortWalk`), and the
  first epic on it is the only one (`EpicIsAbove`).  This needs `MaxDepth >= 3`, which
  the code's 8 is.
* *The calendar.*  Months are numbered from year 0 and month k begins on `FirstDay(k)`.
  Each has 28 to 31 days (`MonthLength`), so every day is in exactly one (`MonthOfDay`,
  `OneMonth`), `Civil` finds it (`CivilIs`) and `AddMonths` from a first of a month is
  addition (`MonthsAdd`).  `HeaderIs` then computes the three segments and their week
  lines, `BarIs` the days under a bar.

The same module proves of `LiveUI`, for any tasks, sizes of the channel and the
connection, and any number of changes, faults and clicks:

| Theorem | Says |
|---|---|
| `LiveUITypeCorrect` | `LiveSpec => []LiveTypeOK` |
| `AttachedPagesAreTold` | `LiveSpec => []NeverSilentlyStale` |

`NeverSilentlyStale` is not inductive: an error excuses an old board, and a reply that
a change has overtaken takes the error away.  `LiveUIInv` adds that the hint is there
from the moment of the change, error or not (`Overtaken`), and that no reply is ahead
of the board (`RepliesArePast`).

The inductive invariants of all these modules were checked by TLC on the instances of
section 3 (that of `DataDir` with one fault) before or beside their proofs.

### Only model-checked

Liveness (`AbandonedLeaseEnds`, `EventuallySaved`, `CallersReturn`, `EventuallyFresh`,
`DetailSettles`, `HookCallsAgain`, `StopsInTheEnd`) rests on fairness and `ENABLED`, which
are out of the prover's reach.  Every other property of a passing run is a theorem,
some under the conditions named above (`Orderly`, no late change in async mode).

What the proofs rest on: the assumptions on constants, which TLC evaluates on each
instance; the theorems of the TLAPS library about finite sets, sequences and
well-founded relations, whose proofs come with that library; and the model.  TLC ties the latter to
examples, and the map in `PROJECT.json` to the source.

## 5. Further disagreements noticed

Met while modelling; each was reproduced or follows directly from the lines named,
and no run is kept for it.

* docs/PITFALLS.md:23: *"Only the holder can release or finish a leased task"*;
  `Update` moves a task under another agent's lease to done or todo.
* board.go:1033: the task of a heartbeat *"must be assigned to the agent"*; it may be
  in review, and nothing clears the pointer when another agent takes that task.
* board.go:434: *"Flush blocks until every change made before the call is in the
  Store"*; the sweeps of `exportState` and `Authenticate` are not marked dirty.
* board.go:119: *"Sync loses nothing"*; an inline save takes no `saveMu`, so the older
  snapshot of a Flush that archives can replace it, and the next Flush returns nil
  without saving it.  The same happens to changes after Close.
* board.go:1032: a heartbeat *"extends the lease"*; `LeaseSeconds` drops the fraction
  (board.go:813), so a heartbeat right after a claim of 1.5 s shortens the lease to 1 s.
* model.go:101 says a task that is worked on carries an assignee and a lease;
  `Update` moves a task to `in_progress` with neither, and no sweep returns it.
* board.go:575 reserves the name `system`; Claim, Complete and Heartbeat accept it.
* model.go:220-228: `SaveStatus` says `saved` while the write is on its way, since
  `dirty` is cleared before it; and `LagMillis` restarts when a change arrives
  during a save that fails.
* A silent sweep can let a Flush archive entries; when that Flush then fails to
  save, the board is dirty and nothing wakes the writer.
* `ForceUnlock` removes the file by name some time after reading it, so it can
  remove the lock of a live process that has just taken the directory.
* docs/PITFALLS.md:32 says the next start takes over after a crash; a crash between
  creating and writing the lock file leaves an empty one that nobody takes over.
* archive.go:22: *"readers dedupe by ID"*; after a crash that loses unsaved entries
  whose ids are archived already, new entries get the same ids, and readers drop one
  of two different entries.  A member torn by a crash makes `ReadArchive` refuse the
  whole archive.  An export with archives may hold ids beyond `next_activity_id`,
  which the import then refuses.
* data.go:98: *"The previous data file is kept as board.json.before-import-<time>"*; an
  import in the same second as the one before writes over its copy (data.go:135), and a
  `board.json` that exists but cannot be read is replaced without a copy (data.go:134).
* sessions.go:38: *"a sliding window, extended on every successful validate"*; the
  cookie keeps the age of the login (auth_server.go:125), so the browser drops it.
* The payload of the webhook has a task only if the event names one (webhook.go:106).
  After dropped events the last payload may be of another task, or of a sweep or a save
  that names none, so only an endpoint that reads the API knows the last state; the
  comment at webhook.go:29 asks for that.
* The webhook goes on after `Board.Shutdown`, and reading a task sweeps: the entry
  about the shutdown need not be the last.
* Only elements marked data-draft keep their text across a render (dom.go:190).  Every
  reload puts the name box (render.go:141), the dates in the drawer (render.go:474) and
  the project and priority of a new task (render.go:178) back to what they start with,
  so a task may be created in a project that was not the one chosen; likewise the fields
  of the token, account and first-project forms.
* *Clear filters* leaves the old text in the search box, because `restoreDrafts` puts
  it back (dom.go:208).  A comment whose form was replaced during its POST stays in
  the new form.  A late 404 of an old selection closes the new one (main.go:165).
* Failures of addresses that never log in again stay in the limiter's map for ever;
  its comment (sessions.go:163) says that the map does not grow without bound.

## 6. What is not modelled

* PID reuse, and the Windows test of a live process, which has the same outcomes.
* Password hashing, JSON, the routing table, the checks of hosts and tokens, the
  signature of the webhook, flags and printing, static files and their build: pure
  computation and pure I/O with direct tests.
* In the page: dragging a card, the sidebar and its dialog, the account dialog, the
  first-project form, wording, and the layout in the browser.
* Leases of different lengths in `Agents`, and agents with several tasks there: they
  are in `Board`.
* The durability of directory entries: `store.go` does not sync the directory after
  the rename; `DataDir` takes a rename that has returned as durable.
* What the payload of the webhook shows, except whether there is a task in it to read.

## 7. What remains

Every module of section 2 and the proofs of section 4 are done.  Open are:

1. Mutual exclusion of the lock with crashes, when no two starts overlap: the case
   that `lock_takeover` leaves open.
2. The order of the rows of the timeline, and the columns' order among tasks of one
   priority: `SortSorts` gives both, no property states them.
