------------------------------- MODULE LiveUI -------------------------------
(***************************************************************************)
(* A page of the web UI and the board it shows: the subscribers' channels  *)
(* of board.go, the event stream of server.go, and the part of             *)
(* cmd/agentboard-ui that keeps the page fresh (main.go, api.go).          *)
(*                                                                         *)
(* The board publishes an event for every change into a channel that drops *)
(* what does not fit; a handler writes the channel to the stream; every    *)
(* event of the stream pokes a loop that fetches the whole state and the   *)
(* detail of the selected task.  The loop also polls.  In between, streams *)
(* break unnoticed, replies are lost, the server stops and starts again    *)
(* with another token or other tasks, and the user clicks.                 *)
(*                                                                         *)
(* Abstracted: the state of the board is its version, the number of        *)
(* changes so far; an event carries nothing (the page ignores what it      *)
(* carries); the browser's EventSource and the connection are external.    *)
(* snapVersion, selectedTask and detailReply are app.snap, app.selected    *)
(* and app.detail as far as their age matters; Page, which names them so,  *)
(* has what they show.                                                     *)
(***************************************************************************)
EXTENDS Integers

CONSTANTS
  Tasks,          \* ids of tasks
  NoTask,         \* nothing is selected
  Buffer,         \* subscriberBufSize
  Wire,           \* events the connection holds before a write blocks
  MaxVersion,     \* bound: changes of the board
  MaxFaults,      \* bound: lost replies, broken streams and stops of the server
  MaxClicks       \* bound: actions of the user

ASSUME LiveUIAssumption ==
  /\ NoTask \notin Tasks
  /\ Buffer \in Nat \ {0} /\ Wire \in Nat \ {0}
  /\ MaxVersion \in Nat /\ MaxFaults \in Nat /\ MaxClicks \in Nat

VARIABLES
  version,        \* changes of the board so far
  tasks,          \* the tasks the board has
  up,             \* the server serves
  token,          \* the page's token is the one the server wants
  handler,        \* the events handler of this page
  chan,           \* events in its channel
  wire,           \* events on the connection
  es,             \* readyState of the page's EventSource
  live,           \* app.live
  refresh,        \* app.refresh, a channel of one place
  loop,           \* where app.loop is and what it has been answered
  snapVersion,    \* the version in app.snap
  loadErr, needAuth, stopped,
  selectedTask,   \* app.selected
  detailReply,    \* app.detail
  post,           \* the request of act or stopServer
  faults, clicks

board == <<version, tasks>>
stream == <<handler, chan, wire, es, live>>
page == <<snapVersion, loadErr, needAuth, stopped, selectedTask, detailReply>>
bounds == <<faults, clicks>>
liveVars == <<board, up, token, stream, refresh, loop, page, post, bounds>>

Reply(t, v) == [task |-> t, version |-> v]
NoDetail == Reply(NoTask, 0)

At(place) == loop.at = place
Goto(place) == loop' = [loop EXCEPT !.at = place]
Get(place, t) == loop' = [at |-> place, status |-> "none", reply |-> Reply(t, 0)]

\* The page when main has started the loop and poked it.
LiveInit ==
  /\ version = 1 /\ tasks = Tasks
  /\ up = TRUE /\ token \in BOOLEAN
  /\ handler = "none" /\ chan = 0 /\ wire = 0
  /\ es = "connecting" /\ live = FALSE
  /\ refresh = 1
  /\ loop = [at |-> "wait", status |-> "none", reply |-> NoDetail]
  /\ snapVersion = 0 /\ loadErr = FALSE /\ needAuth = FALSE /\ stopped = FALSE
  /\ selectedTask = NoTask /\ detailReply = NoDetail
  /\ post = "none"
  /\ faults = 0 /\ clicks = 0

-----------------------------------------------------------------------------
(* The board and its subscribers.                                          *)

\* publishLocked: an event that does not fit is dropped.
Publish == chan' = IF handler # "none" /\ chan < Buffer THEN chan + 1 ELSE chan

\* A change by anybody.
Change ==
  /\ up /\ version < MaxVersion
  /\ version' = version + 1
  /\ Publish
  /\ UNCHANGED <<tasks, up, token, handler, wire, es, live, refresh, loop, page, post, bounds>>

-----------------------------------------------------------------------------
(* The event stream: the handler "events" and the browser's EventSource.   *)

\* The handler subscribes before it writes anything.
Subscribe ==
  /\ es = "connecting" /\ handler = "none" /\ wire = 0
  /\ up /\ token
  /\ handler' = "subscribed" /\ chan' = 0
  /\ UNCHANGED <<board, up, token, wire, es, live, refresh, loop, page, post, bounds>>

Hello ==
  /\ handler = "subscribed" /\ wire < Wire
  /\ handler' = "streaming" /\ wire' = wire + 1
  /\ UNCHANGED <<board, up, token, chan, es, live, refresh, loop, page, post, bounds>>

ForwardEvent ==
  /\ handler = "streaming" /\ chan > 0 /\ wire < Wire
  /\ chan' = chan - 1 /\ wire' = wire + 1
  /\ UNCHANGED <<board, up, token, handler, es, live, refresh, loop, page, post, bounds>>

KeepAlive ==
  /\ handler = "streaming" /\ wire < Wire
  /\ wire' = wire + 1
  /\ UNCHANGED <<board, up, token, handler, chan, es, live, refresh, loop, page, post, bounds>>

\* The server stops: the handler says bye, to which the page does not listen.
Bye ==
  /\ handler # "none" /\ ~up
  /\ handler' = "none" /\ chan' = 0
  /\ UNCHANGED <<board, up, token, wire, es, live, refresh, loop, page, post, bounds>>

\* The connection breaks.  Nobody tells the page.
Cut ==
  /\ handler # "none" /\ faults < MaxFaults
  /\ faults' = faults + 1
  /\ handler' = "none" /\ chan' = 0 /\ wire' = 0
  /\ UNCHANGED <<board, up, token, es, live, refresh, loop, page, post, clicks>>

\* Variant: a poke is not kept while a reload is in progress.
PokeWhenIdle == refresh' = IF At("wait") THEN 1 ELSE refresh

poke == refresh' = 1

\* An event arrives: the first one opens the stream (onopen), and each one
\* pokes the loop.
Hint ==
  /\ wire > 0 /\ es # "closed"
  /\ wire' = wire - 1
  /\ es' = "open" /\ live' = TRUE
  /\ poke
  /\ UNCHANGED <<board, up, token, handler, chan, loop, page, post, bounds>>

\* onerror: the stream has ended, or the server cannot be reached, and the
\* browser tries again; or the server refuses the token, and it does not.
StreamError ==
  /\ handler = "none" /\ wire = 0
  /\ \/ es = "open" /\ es' = "connecting"
     \/ es = "connecting" /\ ~up /\ es' = "connecting"
     \/ es = "connecting" /\ up /\ ~token /\ es' = "closed"
  /\ live' = FALSE
  /\ UNCHANGED <<board, up, token, handler, chan, wire, refresh, loop, page, post, bounds>>

\* connect closes the stream, which raises no event, and opens another one.
connect ==
  /\ es' = "connecting" /\ handler' = "none" /\ chan' = 0 /\ wire' = 0
  /\ UNCHANGED live

-----------------------------------------------------------------------------
(* app.loop: reload and reloadDetail.                                      *)

reload == IF stopped THEN UNCHANGED loop ELSE Get("state", NoTask)

TakeRefresh ==
  /\ At("wait") /\ refresh = 1
  /\ refresh' = 0
  /\ reload
  /\ UNCHANGED <<board, up, token, stream, page, post, bounds>>

\* Variant: the page polls only while it has no stream.
PollOffline ==
  /\ At("wait") /\ ~live
  /\ reload
  /\ UNCHANGED <<board, up, token, stream, refresh, page, post, bounds>>

Poll ==
  /\ At("wait")
  /\ reload
  /\ UNCHANGED <<board, up, token, stream, refresh, page, post, bounds>>

\* The server answers GET /api/state with what it has now.
AnswerState ==
  /\ At("state") /\ up
  /\ loop' = [at |-> "gotState", status |-> IF token THEN "ok" ELSE "401",
              reply |-> Reply(NoTask, version)]
  /\ UNCHANGED <<board, up, token, stream, refresh, page, post, bounds>>

\* ... and GET /api/tasks/ID.
AnswerDetail ==
  /\ At("detail") /\ up
  /\ loop' = [at |-> "gotDetail",
              status |-> IF ~token THEN "401"
                         ELSE IF loop.reply.task \in tasks THEN "ok" ELSE "404",
              reply |-> Reply(loop.reply.task, version)]
  /\ UNCHANGED <<board, up, token, stream, refresh, page, post, bounds>>

\* No reply: the server is down or the request or its reply is lost.
Unanswered ==
  /\ At("state") \/ At("detail")
  /\ IF up THEN faults < MaxFaults /\ faults' = faults + 1 ELSE UNCHANGED faults
  /\ loop' = [loop EXCEPT !.at = IF At("state") THEN "gotState" ELSE "gotDetail",
                          !.status = "lost"]
  /\ UNCHANGED <<board, up, token, stream, refresh, page, post, clicks>>

\* The rest of reload: an error is shown and the old state stays; a reply is
\* shown, and the detail of what is selected by now is fetched.
ApplyState ==
  /\ At("gotState")
  /\ IF loop.status = "ok"
       THEN /\ snapVersion' = loop.reply.version
            /\ loadErr' = FALSE /\ needAuth' = FALSE
            /\ IF selectedTask # NoTask THEN Get("detail", selectedTask) ELSE Goto("wait")
       ELSE /\ loadErr' = TRUE
            /\ needAuth' = (needAuth \/ loop.status = "401")
            /\ Goto("wait")
            /\ UNCHANGED snapVersion
  /\ UNCHANGED <<board, up, token, stream, refresh, stopped, selectedTask,
                 detailReply, post, bounds>>

\* Variant: a detail that is there already is kept.
ApplyDetailOnce ==
  /\ At("gotDetail")
  /\ detailReply' = IF loop.status = "ok" /\ detailReply = NoDetail
                      THEN loop.reply ELSE detailReply
  /\ Goto("wait")
  /\ UNCHANGED <<board, up, token, stream, refresh, snapVersion, loadErr, needAuth, stopped,
                 selectedTask, post, bounds>>

\* The rest of reloadDetail.  The selection may have changed since the request:
\* the reply is kept all the same, and a 404 clears the new selection.
ApplyDetail ==
  /\ At("gotDetail")
  /\ CASE loop.status = "ok"  -> detailReply' = loop.reply /\ UNCHANGED selectedTask
       [] loop.status = "404" -> detailReply' = NoDetail /\ selectedTask' = NoTask
       [] OTHER               -> UNCHANGED <<detailReply, selectedTask>>
  /\ Goto("wait")
  /\ UNCHANGED <<board, up, token, stream, refresh, snapVersion, loadErr, needAuth, stopped,
                 post, bounds>>

-----------------------------------------------------------------------------
(* The user: dispatch, act and stopServer.                                 *)

\* page shows the board: app.stopped, app.needAuth and app.loaded.
BoardShown == ~stopped /\ ~needAuth /\ snapVersion > 0

Click ==
  /\ clicks < MaxClicks
  /\ clicks' = clicks + 1

ClickSelect(t) ==
  /\ BoardShown /\ Click
  /\ selectedTask' = t /\ detailReply' = NoDetail
  /\ poke
  /\ UNCHANGED <<board, up, token, stream, loop, snapVersion, loadErr, needAuth, stopped,
                 post, faults>>

ClickClose ==
  /\ BoardShown /\ selectedTask # NoTask /\ Click
  /\ selectedTask' = NoTask /\ detailReply' = NoDetail
  /\ UNCHANGED <<board, up, token, stream, refresh, loop, snapVersion, loadErr, needAuth, stopped,
                 post, faults>>

\* The user enters a token, the right one or a wrong one.
SubmitToken ==
  /\ needAuth /\ ~stopped /\ Click
  /\ token' \in BOOLEAN
  /\ connect
  /\ poke
  /\ UNCHANGED <<board, up, loop, page, post, faults>>

\* act and stopServer send their request.
Send(kind) ==
  /\ BoardShown /\ post = "none" /\ Click
  /\ post' = kind
  /\ UNCHANGED <<board, up, token, stream, refresh, loop, page, faults>>

\* The server handles it: a change, or the handler "shutdown".
Handle ==
  /\ up /\ token
  /\ \/ /\ post = "act" /\ version < MaxVersion
        /\ version' = version + 1 /\ Publish
        /\ post' = "acted" /\ UNCHANGED up
     \/ /\ post = "stop"
        /\ up' = FALSE
        /\ post' = "stopped" /\ UNCHANGED <<version, chan>>
  /\ UNCHANGED <<tasks, token, handler, wire, es, live, refresh, loop, page, bounds>>

\* The reply to act, an error included: the page is refreshed.
ActReturns ==
  /\ post \in {"act", "acted"}
  /\ post' = "none"
  /\ poke
  /\ UNCHANGED <<board, up, token, stream, loop, page, bounds>>

\* The reply to stopServer: after an error the page goes on, else it shows
\* that the server has stopped and closes the stream without an error.
StopReturns ==
  /\ post \in {"stop", "stopped"}
  /\ post' = "none"
  /\ IF post = "stopped"
       THEN stopped' = TRUE /\ es' = "closed" /\ handler' = "none" /\ chan' = 0 /\ wire' = 0
       ELSE UNCHANGED <<stopped, es, handler, chan, wire>>
  /\ UNCHANGED <<board, up, token, live, refresh, loop, snapVersion, loadErr, needAuth,
                 selectedTask, detailReply, bounds>>

-----------------------------------------------------------------------------
(* The operator.                                                           *)

ServerStops ==
  /\ up /\ faults < MaxFaults
  /\ faults' = faults + 1
  /\ up' = FALSE
  /\ UNCHANGED <<board, token, stream, refresh, loop, page, post, clicks>>

\* The server starts again, perhaps with another token or, after an import,
\* without some tasks.
ServerStarts ==
  /\ ~up /\ handler = "none"
  /\ up' = TRUE
  /\ token' \in {token, FALSE}
  /\ tasks' \in SUBSET tasks
  /\ version' \in {v \in {version, version + 1} : v <= MaxVersion}
  /\ tasks' # tasks => version' # version
  /\ UNCHANGED <<stream, refresh, loop, page, post, bounds>>

LiveNext ==
  \/ Change \/ Subscribe \/ Hello \/ ForwardEvent \/ KeepAlive \/ Bye \/ Cut
  \/ Hint \/ StreamError
  \/ TakeRefresh \/ Poll \/ AnswerState \/ AnswerDetail \/ Unanswered
  \/ ApplyState \/ ApplyDetail
  \/ \E t \in Tasks : ClickSelect(t)
  \/ ClickClose \/ SubmitToken
  \/ \E kind \in {"act", "stop"} : Send(kind)
  \/ Handle \/ ActReturns \/ StopReturns
  \/ ServerStops \/ ServerStarts

LiveSpec == LiveInit /\ [][LiveNext]_liveVars

\* The Go scheduler runs the loop, its ticker fires, and a fetch is answered
\* or fails in the end.  Nothing is assumed of the stream.
Fairness ==
  /\ WF_liveVars(TakeRefresh \/ Poll)
  /\ WF_liveVars(AnswerState \/ AnswerDetail \/ (~up /\ Unanswered))
  /\ WF_liveVars(ApplyState \/ ApplyDetail)

FairSpec == LiveSpec /\ Fairness

-----------------------------------------------------------------------------
(* Properties.                                                             *)

LiveTypeOK ==
  /\ version \in Nat /\ tasks \subseteq Tasks
  /\ up \in BOOLEAN /\ token \in BOOLEAN
  /\ handler \in {"none", "subscribed", "streaming"}
  /\ chan \in 0..Buffer /\ wire \in 0..Wire
  /\ es \in {"connecting", "open", "closed"} /\ live \in BOOLEAN
  /\ refresh \in 0..1
  /\ loop \in [at : {"wait", "state", "gotState", "detail", "gotDetail"},
               status : {"none", "ok", "401", "404", "lost"},
               reply : [task : Tasks \cup {NoTask}, version : Nat]]
  /\ snapVersion \in 0..version
  /\ loadErr \in BOOLEAN /\ needAuth \in BOOLEAN /\ stopped \in BOOLEAN
  /\ selectedTask \in Tasks \cup {NoTask}
  /\ detailReply \in [task : Tasks \cup {NoTask}, version : Nat]
  /\ post \in {"none", "act", "acted", "stop", "stopped"}
  /\ faults \in Nat /\ clicks \in Nat

\* Something on its way will make the page fetch the state again or show an
\* error.
HintPending ==
  \/ handler = "subscribed" \/ chan > 0 \/ wire > 0
  \/ refresh = 1 \/ At("state")
  \/ At("gotState") /\ (loop.status # "ok" \/ loop.reply.version = version)

\* While the page is attached to the stream and shows neither an error nor a
\* login form, it never shows an old board with nothing on its way that would
\* make it look again: not when events are dropped because the channel is
\* full, not when the board changes between the subscription and the first
\* event, nor while a reply is being read.
NeverSilentlyStale ==
  handler = "none" \/ stopped \/ loadErr \/ snapVersion = version \/ HintPending

\* Once the board stops changing, the page shows its last state or an error,
\* for good, even if the stream broke without notice or never came back.
EventuallyFresh == <>[](stopped \/ loadErr \/ snapVersion = version)

\* In the end the detail shown is the one of the selected task, as the board
\* has it, however clicks, replies and lost replies interleaved; the page
\* shows no error when the detail cannot be fetched.
DetailSettles ==
  <>[](stopped \/ loadErr \/ selectedTask = NoTask \/ detailReply = Reply(selectedTask, version))
=============================================================================
