------------------------------ MODULE Serving ------------------------------
(***************************************************************************)
(* The life of one `agentboard serve' process: Serve and its sweeper       *)
(* (server.go), the handlers of the requests, the webhook (webhook.go),    *)
(* and the way out of cli.go's serve: Board.Shutdown, the webhook's end,   *)
(* Board.Close and the release of the lock, in the order of the defers.    *)
(*                                                                         *)
(* The process is asked to stop by a signal (the context is cancelled), by *)
(* the API, or by an error of the listener.  Handlers may outlive the five *)
(* seconds that Serve gives them.                                          *)
(*                                                                         *)
(* Abstracted: the board is the number of changes made to it; a request    *)
(* makes one change; a save is a snapshot and a write, of the writer or of *)
(* Flush (module SaveQueue has the details).  An event names a task or not *)
(* (sweeps, saves, agents, projects, users, the shutdown): the webhook     *)
(* reads that task, and no other, when it takes the event, and reading it  *)
(* may sweep.                                                              *)
(***************************************************************************)
EXTENDS Integers, Sequences, FiniteSets

CONSTANTS
  Requests,       \* requests that change the board
  Buffer,         \* subscriberBufSize
  MaxSweeps,      \* bound: sweeps that change the board
  MaxFaults       \* bound: failed saves

ASSUME ServingAssumption ==
  /\ Buffer \in Nat \ {0}
  /\ MaxSweeps \in Nat /\ MaxFaults \in Nat

VARIABLES
  main,           \* where serve is
  cancelled,      \* the context of the command is cancelled
  done,           \* Server.done is closed
  listening,      \* requests come in, over new or over open connections
  broken,         \* the listener has failed
  req,            \* where the handler of each request is
  change,         \* the change each request made
  open,           \* the requests whose connection is open
  acked,          \* the requests whose client has a reply
  sweeper,        \* the sweeper runs
  version, disk,  \* changes made, changes on disk
  snap,           \* who is saving, and what
  closed,         \* Board.closed
  locked,         \* the data directory is locked
  chan,           \* the webhook's channel
  hook,           \* what the webhook does, and the changes made when its latest
                  \* POST began
  left,           \* history: handlers still ran when the board was shut down
  saveFailed,     \* history: the final save failed, and serve said so
  sweeps, faults

life == <<cancelled, done, listening, broken>>
handlers == <<req, change, open, acked>>
saving == <<snap, disk, closed>>
webhook == <<chan, hook>>
history == <<left, saveFailed>>
bounds == <<sweeps, faults>>
vars == <<main, life, handlers, sweeper, version, saving, locked, webhook, history, bounds>>

EventKinds == {"task", "other"}

NoSave == [by |-> "none", version |-> 0]
Waiting == [at |-> "wait", since |-> 0]
NoWebhook == [at |-> "ended", since |-> 0]

Init ==
  /\ main = "serving"
  /\ cancelled = FALSE /\ done = FALSE /\ listening = TRUE /\ broken = FALSE
  /\ req = [r \in Requests |-> "none"] /\ change = [r \in Requests |-> 0]
  /\ open = {} /\ acked = {}
  /\ sweeper = TRUE
  /\ version = 0 /\ disk = 0 /\ snap = NoSave /\ closed = FALSE
  /\ locked = TRUE
  /\ chan = <<>> /\ hook \in {Waiting, NoWebhook}
  /\ left = FALSE /\ saveFailed = FALSE
  /\ sweeps = 0 /\ faults = 0

Fault == faults < MaxFaults /\ faults' = faults + 1

-----------------------------------------------------------------------------
(* Changes of the board.                                                   *)

\* Variant: the channel has no buffer, so only a webhook that waits gets an event.
PublishedUnbuffered(queue, event) ==
  IF hook.at = "wait" /\ queue = <<>> THEN <<event>> ELSE queue

\* publishLocked: an event that does not fit into the webhook's channel is
\* dropped.
Published(queue, event) ==
  IF hook.at # "ended" /\ Len(queue) < Buffer THEN Append(queue, event) ELSE queue

\* persistAndPublishLocked, in async mode: a closed board is saved inline, by
\* whoever changes it.
Changed(queue, event) ==
  /\ version' = version + 1
  /\ disk' = IF closed THEN version + 1 ELSE disk
  /\ chan' = Published(queue, event)

\* A snapshot is taken by the background writer, unless Close has stopped it.
WriterSaves ==
  /\ snap = NoSave /\ disk < version /\ ~closed
  /\ snap' = [by |-> "writer", version |-> version]
  /\ UNCHANGED <<main, life, handlers, sweeper, version, disk, closed, locked, webhook,
                 history, bounds>>

\* Whether the save succeeds or fails, an event says that there was one.
WriterStored ==
  /\ snap.by = "writer"
  /\ \/ disk' = snap.version /\ UNCHANGED faults
     \/ Fault /\ UNCHANGED disk
  /\ snap' = NoSave
  /\ chan' = Published(chan, "other")
  /\ UNCHANGED <<main, life, handlers, sweeper, version, closed, locked, hook, history,
                 sweeps>>

-----------------------------------------------------------------------------
(* Requests and the sweeper.                                               *)

Accept(r) ==
  /\ listening /\ req[r] = "none"
  /\ req' = [req EXCEPT ![r] = "handling"]
  /\ open' = open \cup {r}
  /\ UNCHANGED <<main, life, change, acked, sweeper, version, saving, locked,
                 webhook, history, bounds>>

\* The change is about a task, or about an agent, a project or a user.
Handle(r) ==
  /\ req[r] = "handling" /\ main # "exited"
  /\ \E event \in EventKinds : Changed(chan, event)
  /\ req' = [req EXCEPT ![r] = "changed"]
  /\ change' = [change EXCEPT ![r] = version + 1]
  /\ UNCHANGED <<main, life, open, acked, sweeper, snap, closed, locked, hook,
                 history, bounds>>

\* The reply reaches the client if its connection is still open.
Reply(r) ==
  /\ req[r] = "changed" /\ main # "exited"
  /\ req' = [req EXCEPT ![r] = "returned"]
  /\ acked' = acked \cup ({r} \cap open)
  /\ open' = open \ {r}
  /\ UNCHANGED <<main, life, change, sweeper, version, saving, locked, webhook,
                 history, bounds>>

\* The sweeper's ticker; select may prefer it to a closed done.
SweepTick ==
  /\ sweeper /\ sweeps < MaxSweeps
  /\ sweeps' = sweeps + 1
  /\ Changed(chan, "other")
  /\ UNCHANGED <<main, life, handlers, sweeper, snap, closed, locked, hook, history,
                 faults>>

SweeperEnds ==
  /\ sweeper /\ done
  /\ sweeper' = FALSE
  /\ UNCHANGED <<main, life, handlers, version, saving, locked, webhook, history, bounds>>

-----------------------------------------------------------------------------
(* The webhook.                                                            *)

\* The webhook's context is cancelled with the command's, or by serve's defer.
HookTold ==
  cancelled \/ main \in {"webhookWait", "close", "closeFlush", "unlock", "exiting", "exited"}

\* deliver begins: an event that names a task gets that task as it is now.
\* Reading it sweeps, so it may change the board, even after Board.Shutdown.
Take ==
  /\ hook.at = "wait" /\ chan # <<>>
  /\ \/ chan' = Tail(chan) /\ UNCHANGED <<version, disk, sweeps>>
     \/ /\ Head(chan) = "task"
        /\ sweeps < MaxSweeps /\ sweeps' = sweeps + 1
        /\ Changed(Tail(chan), "other")
  /\ hook' = [at |-> "post", since |-> version']
  /\ UNCHANGED <<main, life, handlers, sweeper, snap, closed, locked, history, faults>>

\* The POST ends: delivered, or failed, whether or not the endpoint got it.
\* A failure is logged and not retried.
Post ==
  /\ hook.at = "post"
  /\ hook' = [hook EXCEPT !.at = "wait"]
  /\ UNCHANGED <<main, life, handlers, sweeper, version, saving, locked, chan, history, bounds>>

\* The context is cancelled, which also aborts a POST.
HookEnds ==
  /\ hook.at # "ended" /\ HookTold
  /\ hook' = [hook EXCEPT !.at = "ended"]
  /\ chan' = <<>>
  /\ UNCHANGED <<main, life, handlers, sweeper, version, saving, locked, history, bounds>>

-----------------------------------------------------------------------------
(* The ways to stop.                                                       *)

Signal ==
  /\ ~cancelled /\ main # "exited"
  /\ cancelled' = TRUE
  /\ UNCHANGED <<main, done, listening, broken, handlers, sweeper, version, saving, locked,
                 webhook, history, bounds>>

\* The handler "shutdown": the client has its reply before done is closed.
ShutdownRequest ==
  /\ listening /\ ~done
  /\ done' = TRUE
  /\ UNCHANGED <<main, cancelled, listening, broken, handlers, sweeper, version, saving,
                 locked, webhook, history, bounds>>

ListenerFails ==
  /\ main \in {"serving", "sweepDone"} /\ ~broken
  /\ broken' = TRUE
  /\ UNCHANGED <<main, cancelled, done, listening, handlers, sweeper, version, saving, locked, webhook,
                 history, bounds>>

-----------------------------------------------------------------------------
(* Serve and serve: the main goroutine.                                    *)

Active == {r \in Requests : req[r] \in {"handling", "changed"}}

\* Serve's select, which may prefer a cancelled context to an error that is
\* there too; s.stop ends the event streams and the sweeper.
StopServing ==
  /\ main = "serving"
  /\ \/ broken /\ main' = "sweepDoneError"
     \/ (cancelled \/ done) /\ main' = "sweepDone"
  /\ done' = TRUE
  /\ UNCHANGED <<cancelled, listening, broken, handlers, sweeper, version, saving, locked,
                 webhook, history, bounds>>

\* The sweeper has ended.  Shutdown closes the listener and begins to wait;
\* after an error of the listener Serve returns at once, and the requests of
\* the open connections go on.
SweepDone ==
  /\ ~sweeper
  /\ \/ main = "sweepDone" /\ main' = "draining" /\ listening' = FALSE /\ UNCHANGED left
     \/ main = "sweepDoneError" /\ main' = "webhookCancel" /\ left' = TRUE /\ UNCHANGED listening
  /\ UNCHANGED <<cancelled, done, broken, handlers, sweeper, version, saving, locked,
                 webhook, saveFailed, bounds>>

\* srv.Shutdown returns when every connection is idle, or after five seconds
\* with an error; then srv.Close cuts the connections, not the handlers.  A
\* listener that had failed makes Serve return its error.
Drained ==
  /\ main = "draining"
  /\ main' = IF broken THEN "webhookCancel" ELSE "final"
  /\ left' = (Active # {})
  /\ open' = {}
  /\ UNCHANGED <<life, req, change, acked, sweeper, version, saving, locked, webhook,
                 saveFailed, bounds>>

\* Board.Shutdown: the entry that says so.
BoardShutdown ==
  /\ main = "final"
  /\ Changed(chan, "other")
  /\ main' = "finalFlush"
  /\ UNCHANGED <<life, handlers, sweeper, snap, closed, locked, hook, left,
                 saveFailed, bounds>>

AfterFlush == IF main = "finalFlush" THEN "webhookCancel" ELSE "unlock"

\* Variant: Shutdown and Close leave the saving to the writer.
FlushBeginsNever ==
  /\ main \in {"finalFlush", "closeFlush"}
  /\ main' = AfterFlush
  /\ UNCHANGED <<life, handlers, sweeper, version, saving, locked, webhook, history, bounds>>

\* Flush, in Board.Shutdown or in Close, begins when nobody else is saving; it
\* has nothing to do when everything is on disk.
FlushBegins ==
  /\ main \in {"finalFlush", "closeFlush"} /\ snap = NoSave
  /\ IF disk < version
       THEN snap' = [by |-> "main", version |-> version] /\ UNCHANGED main
       ELSE main' = AfterFlush /\ UNCHANGED snap
  /\ UNCHANGED <<life, handlers, sweeper, version, disk, closed, locked, webhook,
                 history, bounds>>

\* Flush ends.  Its error becomes the error of Serve or of Close.
FlushEnds ==
  /\ snap.by = "main"
  /\ \/ /\ disk' = snap.version
        /\ saveFailed' = (saveFailed /\ main = "finalFlush") /\ UNCHANGED faults
     \/ Fault /\ saveFailed' = TRUE /\ UNCHANGED disk
  /\ snap' = NoSave
  /\ chan' = Published(chan, "other")
  /\ main' = AfterFlush
  /\ UNCHANGED <<life, handlers, sweeper, version, closed, locked, hook, left,
                 sweeps>>

\* Variant: the webhook is waited for before it is cancelled.
WebhookUncancelled ==
  /\ main = "webhookCancel" /\ hook.at = "ended"
  /\ main' = "close"
  /\ UNCHANGED <<life, handlers, sweeper, version, saving, locked, webhook, history, bounds>>

\* The deferred cancel of the webhook's context, and wait.
WebhookCancel ==
  /\ main = "webhookCancel"
  /\ main' = "webhookWait"
  /\ UNCHANGED <<life, handlers, sweeper, version, saving, locked, webhook, history, bounds>>

WebhookWaited ==
  /\ main = "webhookWait" /\ hook.at = "ended"
  /\ main' = "close"
  /\ UNCHANGED <<life, handlers, sweeper, version, saving, locked, webhook, history, bounds>>

\* Variant: the lock is released before the board is closed.
BoardCloseUnlocked ==
  /\ main = "close" /\ snap = NoSave
  /\ closed' = TRUE /\ locked' = FALSE
  /\ main' = "closeFlush"
  /\ UNCHANGED <<life, handlers, sweeper, version, snap, disk, webhook, history, bounds>>

\* The deferred Board.Close: the writer has returned.
BoardClose ==
  /\ main = "close" /\ snap = NoSave
  /\ closed' = TRUE
  /\ main' = "closeFlush"
  /\ UNCHANGED <<life, handlers, sweeper, version, snap, disk, locked, webhook, history, bounds>>

\* The deferred lock.Release.
Unlock ==
  /\ main = "unlock"
  /\ locked' = FALSE
  /\ main' = "exiting"
  /\ UNCHANGED <<life, handlers, sweeper, version, saving, webhook, history, bounds>>

\* The process ends, and every goroutine with it.
Exit ==
  /\ main = "exiting"
  /\ main' = "exited"
  /\ listening' = FALSE
  /\ UNCHANGED <<cancelled, done, broken, handlers, sweeper, version, saving, locked,
                 webhook, history, bounds>>

Main ==
  \/ StopServing \/ SweepDone \/ Drained \/ BoardShutdown \/ FlushBegins \/ FlushEnds
  \/ WebhookCancel \/ WebhookWaited \/ BoardClose \/ Unlock \/ Exit

Ended == main = "exited" /\ UNCHANGED vars

Next ==
  \/ WriterSaves \/ WriterStored
  \/ \E r \in Requests : Accept(r) \/ Handle(r) \/ Reply(r)
  \/ SweepTick \/ SweeperEnds
  \/ Take \/ Post \/ HookEnds
  \/ Signal \/ ShutdownRequest \/ ListenerFails
  \/ Main
  \/ Ended

Spec == Init /\ [][Next]_vars

\* Every goroutine of the process runs on.  Nothing is assumed of the handlers
\* of requests: Serve waits for them no longer than five seconds.
Fairness ==
  /\ WF_vars(Main) /\ WF_vars(WriterStored) /\ WF_vars(SweeperEnds)
  /\ WF_vars(Take) /\ WF_vars(Post) /\ WF_vars(HookEnds)

FairSpec == Spec /\ Fairness

-----------------------------------------------------------------------------
(* Properties.                                                             *)

Mains == {"serving", "sweepDone", "sweepDoneError", "draining", "final", "finalFlush", "webhookCancel",
          "webhookWait", "close", "closeFlush", "unlock", "exiting", "exited"}

\* The variables have their types, the channel never holds more than it can,
\* and the disk is never ahead of the board.
TypeOK ==
  /\ main \in Mains
  /\ cancelled \in BOOLEAN /\ done \in BOOLEAN /\ listening \in BOOLEAN /\ broken \in BOOLEAN
  /\ req \in [Requests -> {"none", "handling", "changed", "returned"}]
  /\ change \in [Requests -> Nat]
  /\ open \subseteq Requests /\ acked \subseteq Requests
  /\ sweeper \in BOOLEAN
  /\ version \in Nat /\ disk \in 0..version
  /\ snap \in [by : {"none", "writer", "main"}, version : Nat]
  /\ closed \in BOOLEAN /\ locked \in BOOLEAN
  /\ chan \in Seq(EventKinds) /\ Len(chan) <= Buffer
  /\ hook \in [at : {"wait", "post", "ended"}, since : Nat]
  /\ left \in BOOLEAN /\ saveFailed \in BOOLEAN
  /\ sweeps \in Nat /\ faults \in 0..MaxFaults

\* "A graceful stop flushes everything: nothing is lost": when the process has
\* ended, every change whose client had a reply is on disk, unless serve said
\* that the final save failed.  An error of the listener is no graceful stop.
AckedIsSaved ==
  (main = "exited" /\ ~broken /\ ~saveFailed) =>
    \A r \in acked : change[r] <= disk

\* The file changes only under the lock, which "runs last: after the final
\* save", unless a handler outlived the time that Serve gave it.
LockCoversSaves == [][disk' # disk => locked \/ left]_disk

\* "Treat the payload as a hint and re-read the API": however many events are
\* dropped because the channel is full, after every change the webhook begins
\* another POST, unless it ends, so an endpoint that reads the board whenever it
\* is called does not stay behind.  Nothing is said of what the payload shows:
\* after dropped events it may have another task than the changed one, or none.
HookCallsAgain ==
  \A n \in 1..(MaxSweeps + Cardinality(Requests) + 1) :
    (version >= n) ~> (hook.since >= n \/ hook.at = "ended")

\* Whoever asks the process to stop, and whatever its handlers, its streams,
\* its webhook and its disk do, it ends.
StopsInTheEnd == (cancelled \/ done \/ broken) ~> (main = "exited")
=============================================================================
