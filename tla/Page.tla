-------------------------------- MODULE Page --------------------------------
(***************************************************************************)
(* The state of the web page (cmd/agentboard-ui): the filter and the       *)
(* address bar, the two tabs and the window of the timeline, the drawer,   *)
(* the form for a new task, and what the user has typed.                   *)
(*                                                                         *)
(* Every render throws the elements of the page away and builds new ones;  *)
(* what was typed lives in the elements only.  captureDrafts and           *)
(* restoreDrafts carry it over for the elements marked data-draft: the     *)
(* search box, a comment, and title, description and labels of a new task. *)
(* The others start again: the name box, the dates in the drawer, project  *)
(* and priority of a new task.  A render follows every click, every reload *)
(* and every reply, so it may come at any moment of the typing.            *)
(*                                                                         *)
(* Abstracted: "title" stands for the three drafts of the form for a new   *)
(* task, "unmarked" for all the elements that are not marked; the sidebar, *)
(* dialogs, dragging, the account and a board without projects are left    *)
(* out.                                                                    *)
(* Module LiveUI has the connection, the reloads and the stop.             *)
(***************************************************************************)
EXTENDS Views

CONSTANTS
  Links,        \* address bars with which the page may be opened
  Snapshots,    \* what the server may answer: [tasks, today]
  Values,       \* the values to choose from in each field of the filter
  Texts,        \* what the user may type into a form
  MaxShift      \* bound: clicks on the arrows of the timeline

Task ==
  [seq : Nat, id : STRING, project : STRING, type : Elems(Kinds), parent : STRING,
   status : Elems(Statuses), priority : Elems(Priorities), assignee : STRING,
   updated : Nat, start : Nat, end : Nat, words : SUBSET STRING]

Level(kind) == CHOOSE i \in 1..Len(Kinds) : Kinds[i] = kind

\* What the server answers is a board that ValidateState accepts, with ids KEY-n,
\* so that none is empty or the key of another element.  There is a project: without
\* one the page shows the form for the first.
ValidSnapshot(s) ==
  /\ s.tasks \in Seq(Task) /\ s.projects \in Seq(STRING) \ {<< >>} /\ s.today \in Nat
  /\ \A i, j \in DOMAIN s.tasks : s.tasks[i].id = s.tasks[j].id => i = j
  /\ \A t \in Elems(s.tasks) :
       /\ t.id \notin {"", "query", "title", "unmarked"}
       /\ t.parent # "" => \E p \in Elems(s.tasks) :
                              p.id = t.parent /\ Level(p.type) < Level(t.type)

\* The lists to choose from offer valid values only.  A date is not before year 1.
ASSUME PageAssumption ==
  /\ MaxShift \in Nat /\ "" \notin Texts
  /\ \A k \in DOMAIN Values : k \in FilterFields /\ \A v \in Values[k] : ValidField(k, v)
  /\ \A s \in Snapshots : ValidSnapshot(s) /\ MaxShift < Civil(s.today).year

VARIABLES
  screen,       \* loaded and needAuth: "loading", "auth" (a token is asked for), "app"
  shown,        \* the screen that was rendered last
  snap,         \* app.snap
  filter,       \* app.filter
  url,          \* the query string of the address bar
  tab,          \* app.tab
  project,      \* app.timelineProject
  window,       \* app.timelineStart and app.timelineEnd
  anchor, net,  \* history: the day the window was set for, and the clicks since
  selected,     \* app.selected
  detail,       \* the task of app.detail
  asked,        \* the task whose detail the loop is waiting for
  showNew,      \* app.showNew
  posting,      \* the form whose request is under way
  fields        \* the text in the elements of the page

place == <<tab, project, window, anchor, net>>
drawer == <<selected, detail>>
vars == <<screen, shown, snap, filter, url, place, drawer, asked, showNew, posting, fields>>

Ids == {t.id : t \in UNION {Elems(s.tasks) : s \in Snapshots}}
NoWindow == [start |-> 0, end |-> 0]
NoPost == [of |-> "", attached |-> FALSE]

Init ==
  /\ screen = "loading" /\ shown = "loading" /\ snap \in Snapshots
  /\ url \in Links /\ filter = ParseFilterQuery(url)
  /\ tab = "board" /\ project = "" /\ window = NoWindow /\ anchor = 0 /\ net = 0
  /\ selected = "" /\ detail = "" /\ asked = ""
  /\ showNew = FALSE /\ posting = NoPost
  /\ fields = << >>

-----------------------------------------------------------------------------
(* Rendering.                                                              *)

\* The elements that carry a draft; the key of a comment is its task.
Drafts ==
  IF screen # "app" THEN {}
  ELSE (IF tab = "board" THEN {"query"} ELSE {})
       \cup (IF showNew THEN {"title"} ELSE {})
       \cup (IF selected # "" /\ detail = selected THEN {selected} ELSE {})

\* All elements that take text.
Elements == Drafts \cup (IF screen = "app" THEN {"unmarked"} ELSE {})

\* What page() puts into a new element.
Fresh(k) == IF k = "query" THEN filter.query ELSE ""

\* Variant: what was typed is not put back.
RenderFromNothing(old) ==
  /\ shown' = screen'
  /\ fields' = [k \in Elements' |-> Fresh(k)']
  /\ posting' = [posting EXCEPT !.attached = FALSE]

\* page() and restoreDrafts, with old the elements that captureDrafts reads.
Rebuilt(old) ==
  fields' = [k \in Elements' |-> IF k \in Drafts' \cap DOMAIN old THEN old[k] ELSE Fresh(k)']

\* The form that a request under way belongs to is no longer part of the page.
RenderFrom(old) ==
  /\ shown' = screen'
  /\ Rebuilt(old)
  /\ posting' = [posting EXCEPT !.attached = FALSE]

Render == RenderFrom(fields)

OnApp == shown = "app"

-----------------------------------------------------------------------------
(* The loop: reload and reloadDetail, one after the other.                 *)

ReloadState(s) ==
  /\ asked = ""
  /\ snap' = s /\ screen' = "app"
  /\ UNCHANGED <<filter, url, place, drawer, showNew>>
  /\ IF selected # ""
       THEN asked' = selected /\ UNCHANGED <<shown, posting, fields>>
       ELSE Render /\ UNCHANGED asked

\* A 401 asks for the token; any other error is only shown.
ReloadFails ==
  /\ asked = ""
  /\ screen' \in {screen, "auth"}
  /\ UNCHANGED <<snap, filter, url, place, drawer, asked, showNew>>
  /\ Render

DetailArrives ==
  /\ asked # ""
  /\ detail' = asked /\ asked' = ""
  /\ UNCHANGED <<screen, snap, filter, url, place, selected, showNew>>
  /\ Render

\* A 404 closes the drawer, whichever task it shows by now.
DetailFails(gone) ==
  /\ asked # ""
  /\ asked' = ""
  /\ IF gone THEN selected' = "" /\ detail' = "" ELSE UNCHANGED drawer
  /\ UNCHANGED <<screen, snap, filter, url, place, showNew>>
  /\ Render

-----------------------------------------------------------------------------
(* What is shown.                                                          *)

\* board()
Shown == Columns(FilterTasks(InEpic(snap.tasks, filter.epic), filter), filter.project)

\* timelineView()
TimelineProject ==
  IF project # "" THEN project
  ELSE IF filter.project # "" THEN filter.project ELSE snap.projects[1]
ProjectTasks == Keep(snap.tasks, {t \in Elems(snap.tasks) : t.project = TimelineProject})
Rows == TimelineRows(ProjectTasks, window)

-----------------------------------------------------------------------------
(* dispatch: the drawer and the forms.                                     *)

\* A card, a bar, or a link to the parent or to a child.
Select(id) ==
  /\ OnApp
  /\ selected' = id /\ detail' = ""
  /\ UNCHANGED <<screen, snap, filter, url, place, asked, showNew>>
  /\ Render

Close ==
  /\ OnApp /\ selected # ""
  /\ selected' = "" /\ detail' = ""
  /\ UNCHANGED <<screen, snap, filter, url, place, asked, showNew>>
  /\ Render

\* "new" opens and closes the form, "cancel-new" closes it.
ToggleNew ==
  /\ OnApp
  /\ showNew' = ~showNew
  /\ UNCHANGED <<screen, snap, filter, url, place, drawer, asked>>
  /\ Render

Type(k, text) ==
  /\ k \in DOMAIN fields \ {"query"} /\ text # fields[k]
  /\ fields' = [fields EXCEPT ![k] = text]
  /\ UNCHANGED <<screen, shown, snap, filter, url, place, drawer, asked, showNew, posting>>

\* "create-task" and "comment": act sends the request, and renders nothing.
Submit(k) ==
  /\ k \in DOMAIN fields \ {"query", "unmarked"} /\ fields[k] # ""
  /\ posting = NoPost
  /\ posting' = [of |-> k, attached |-> TRUE]
  /\ UNCHANGED <<screen, shown, snap, filter, url, place, drawer, asked, showNew, fields>>

\* The reply: a comment's form is emptied, if it is still part of the page; a
\* new task's form is closed.
Posted(ok) ==
  /\ posting # NoPost
  /\ showNew' = (showNew /\ ~(ok /\ posting.of = "title"))
  /\ UNCHANGED <<screen, snap, filter, url, place, drawer, asked>>
  /\ Rebuilt(IF ok /\ posting.attached /\ posting.of # "title"
                THEN [fields EXCEPT ![posting.of] = ""] ELSE fields)
  /\ shown' = screen /\ posting' = NoPost

-----------------------------------------------------------------------------
(* dispatch: the filter.                                                   *)

\* filterChanged: the filter is mirrored into the address bar.
FilterChanged(old) == url' = FilterQuery(filter') /\ RenderFrom(old)

SetFilter(k, v) ==
  /\ OnApp /\ tab = "board" /\ k # "query" /\ v # filter[k]
  /\ filter' = [filter EXCEPT ![k] = v]
  /\ UNCHANGED <<screen, snap, place, drawer, asked, showNew>>
  /\ FilterChanged(fields)

\* Every letter typed into the search box filters.
TypeQuery(v) ==
  /\ "query" \in DOMAIN fields /\ v # fields["query"]
  /\ filter' = [filter EXCEPT !.query = v]
  /\ UNCHANGED <<screen, snap, place, drawer, asked, showNew>>
  /\ FilterChanged([fields EXCEPT !["query"] = v])

ClearFilters ==
  /\ OnApp /\ tab = "board" /\ filter # EmptyFilter
  /\ filter' = EmptyFilter
  /\ UNCHANGED <<screen, snap, place, drawer, asked, showNew>>
  /\ FilterChanged(fields)

-----------------------------------------------------------------------------
(* dispatch: the tabs and the timeline.                                    *)

Anchored == window' = DefaultWindow(snap.today) /\ anchor' = snap.today /\ net' = 0

\* ensureTimelineWindow
Ensured == IF window = NoWindow THEN Anchored ELSE UNCHANGED <<window, anchor, net>>

ShowTab(t) ==
  /\ OnApp /\ tab # t
  /\ tab' = t
  /\ IF t = "timeline" THEN Ensured ELSE UNCHANGED <<window, anchor, net>>
  /\ UNCHANGED <<screen, snap, filter, url, project, drawer, asked, showNew>>
  /\ Render

SetTimelineProject(p) ==
  /\ OnApp /\ tab = "timeline" /\ p # TimelineProject
  /\ project' = p
  /\ UNCHANGED <<screen, snap, filter, url, tab, window, anchor, net, drawer, asked, showNew>>
  /\ Render

Shift(n) ==
  /\ OnApp /\ tab = "timeline"
  /\ net + n \in -MaxShift..MaxShift
  /\ window' = ShiftWindow(window, n) /\ net' = net + n
  /\ UNCHANGED <<screen, snap, filter, url, tab, project, anchor, drawer, asked, showNew>>
  /\ Render

TimelineToday ==
  /\ OnApp /\ tab = "timeline"
  /\ Anchored
  /\ UNCHANGED <<screen, snap, filter, url, tab, project, drawer, asked, showNew>>
  /\ Render

-----------------------------------------------------------------------------
Live ==
  \/ \E s \in Snapshots : ReloadState(s)
  \/ ReloadFails \/ DetailArrives
  \/ \E gone \in BOOLEAN : DetailFails(gone)

User ==
  \/ \E id \in Ids : Select(id)
  \/ Close \/ ToggleNew
  \/ \E k \in Ids \cup {"title"} : Submit(k)
  \/ \E k \in Ids \cup {"title", "unmarked"}, text \in Texts : Type(k, text)
  \/ \E k \in DOMAIN Values : \E v \in Values[k] \cup {""} : SetFilter(k, v)
  \/ \E v \in Values["query"] \cup {""} : TypeQuery(v)
  \/ ClearFilters
  \/ \E t \in {"board", "timeline"} : ShowTab(t)
  \/ \E p \in Elems(snap.projects) : SetTimelineProject(p)
  \/ \E n \in {-1, 1} : Shift(n)
  \/ TimelineToday

Next == Live \/ User \/ \E ok \in BOOLEAN : Posted(ok)

Spec == Init /\ [][Next]_vars

-----------------------------------------------------------------------------
(* Properties.                                                             *)

\* The variables have their types, and only elements that are shown hold text.
TypeOK ==
  /\ {screen, shown} \subseteq {"loading", "auth", "app"} /\ snap \in Snapshots
  /\ DOMAIN filter = FilterFields
  /\ window \in [start : Int, end : Int] /\ anchor \in Nat
  /\ tab \in {"board", "timeline"}
  /\ selected \in Ids \cup {""} /\ detail \in Ids \cup {""} /\ asked \in Ids \cup {""}
  /\ showNew \in BOOLEAN /\ posting.of \in Ids \cup {"", "title"}
  /\ DOMAIN fields = IF OnApp THEN Elements ELSE {}
  /\ net \in -MaxShift..MaxShift

\* "a filtered view is shareable and survives a reload": the address bar always
\* gives back the filter that the board uses.
UrlKeepsFilter == ParseFilterQuery(url) = filter

\* The reference for the filter: the epic or a task below it, in whichever column.
Below(epic, t) ==
  \/ epic = ""
  \/ \E e \in Elems(snap.tasks) :
       /\ e.id = epic /\ e.type = "epic"
       /\ \/ t.id = epic \/ t.parent = epic
          \/ \E p \in Elems(snap.tasks) : p.id = t.parent /\ p.parent = epic

Wanted(t) ==
  /\ Below(filter.epic, t)
  /\ \A k \in FilterFields \ {"query", "epic", "assignee"} : filter[k] \in {"", t[k]}
  /\ filter.query \in t.words \cup {""}
  /\ IF filter.assignee = Unassigned THEN t.assignee = ""
                                     ELSE filter.assignee \in {"", t.assignee}

\* Every task that the filter asks for has exactly one card, in the column of
\* its status, and no less urgent task is above it.
BoardShowsFilter ==
  LET wanted == {t \in Elems(snap.tasks) : Wanted(t)}
      columns == Shown
  IN  \A s \in Elems(Statuses) :
        LET col == columns[s] IN
        /\ Elems(col) = {t \in wanted : t.status = s}
        /\ Len(col) = Cardinality(Elems(col))
        /\ \A i \in 1..(Len(col) - 1) : Rank(col[i].priority) >= Rank(col[i + 1].priority)

\* However the arrows are clicked, and on whatever day of the month it was
\* opened, the window is three whole months, as many months from that day's as
\* were clicked.
WholeMonths ==
  LET c == Civil(anchor) IN
  /\ window.start = NewDate(c.year, c.month + net, 1)
  /\ window.end = NewDate(c.year, c.month + net + DefaultTimelineMonths, 1)

\* The header: the months follow each other from the start to the end, and the
\* week lines are the Mondays that no month begins on.
HeaderCovers ==
  LET ms == MonthsInWindow(window) IN
  /\ Len(ms) = DefaultTimelineMonths
  /\ ms[1].start = window.start /\ ms[Len(ms)].end = window.end
  /\ \A i \in 1..(Len(ms) - 1) : ms[i].end = ms[i + 1].start
  /\ UNION {m.ticks : m \in Elems(ms)} =
       {d \in window.start..(window.end - 1) : d % 7 = 0} \ {m.start : m \in Elems(ms)}

\* The bars: a task has one exactly when one of its days is in the window, and
\* the bar covers those days.
BarsCover ==
  LET days(t) == IF Dated(t) THEN (window.start..(window.end - 1)) \cap (t.start..t.end) ELSE {}
      rows == Elems(Rows)
  IN
  /\ {r.task : r \in rows} = {t \in Elems(ProjectTasks) : days(t) # {}}
  /\ \A r \in rows :
       {window.start + n : n \in r.bar.left..(r.bar.left + r.bar.width - 1)} = days(r.task)

\* What the timeline shows is true to the dates of the tasks.
TimelineShowsWindow ==
  (OnApp /\ tab = "timeline") => WholeMonths /\ HeaderCovers /\ BarsCover

\* captureDrafts "remembers what the user typed into elements marked data-draft, so
\* a live refresh does not wipe a half written comment": whatever a reload or the
\* reply to it does, the drafts (search box, comment, title, description and labels
\* of a new task) stay where they are, unless the server asks for the token or does
\* not know the task any more.  The unmarked elements lose theirs with every render:
\* name box, dates of the drawer, project and priority of a new task.
DraftsSurvive ==
  [][(Live /\ screen' = "app" /\ (selected # "" => selected' # "")) =>
       \A k \in DOMAIN fields \ {"unmarked"} :
          k \in DOMAIN fields' /\ fields'[k] = fields[k]]_vars
=============================================================================
