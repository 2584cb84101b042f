------------------------------- MODULE Views -------------------------------
(***************************************************************************)
(* What the web UI shows, as pure functions of the task list               *)
(* (internal/view): the filter and its form in the address bar, the        *)
(* columns of the board, and the timeline with its months, weeks and bars. *)
(*                                                                         *)
(* Abstracted: a text search is the set of queries that a task answers to; *)
(* a fraction of the window is the number of days it stands for.  A date   *)
(* is its day number; day 0, a Monday, is the zero Date of Go.             *)
(***************************************************************************)
EXTENDS Integers, Sequences, FiniteSets

CONSTANT MaxDepth    \* maxDepth: bound on the walk to a parent

\* A walk as deep as the kinds of tasks reaches every epic.
ASSUME ViewsAssumption == MaxDepth \in Nat /\ MaxDepth >= 3

Elems(s) == {s[i] : i \in DOMAIN s}

\* The elements of s at the indices I, in the order R of these indices: the
\* p-th one has p-1 predecessors.
Arrange(s, I, R) ==
  [p \in 1..Cardinality(I) |->
     s[CHOOSE i \in I : Cardinality({j \in I : <<j, i>> \in R}) = p - 1]]

\* The elements of s that are in S (a loop that appends what it keeps).
Keep(s, S) ==
  LET I == {i \in DOMAIN s : s[i] \in S}
  IN  Arrange(s, I, {ij \in I \X I : ij[1] < ij[2]})

\* Stable sorting (sort.SliceStable): equal elements keep their order.
SortStable(s, less(_, _)) ==
  LET I == DOMAIN s
      before(i, j) == less(s[i], s[j]) \/ (~less(s[j], s[i]) /\ i < j)
  IN  Arrange(s, I, {ij \in I \X I : before(ij[1], ij[2])})

-----------------------------------------------------------------------------
(* The filter.                                                             *)

FilterFields == {"query", "project", "epic", "status", "assignee", "type", "priority"}
EmptyFilter == [k \in FilterFields |-> ""]
Unassigned == "-unassigned-"

Statuses == <<"todo", "in_progress", "review", "done", "blocked">>
Kinds == <<"epic", "story", "task">>
Priorities == <<"low", "medium", "high", "urgent">>

Rank(p) == CHOOSE i \in 1..Len(Priorities) : Priorities[i] = p

Match(f, t) ==
  /\ f.project # "" => t.project = f.project
  /\ f.status # "" => t.status = f.status
  /\ f.type # "" => t.type = f.type
  /\ f.priority # "" => t.priority = f.priority
  /\ f.assignee = Unassigned => t.assignee = ""
  /\ f.assignee \notin {"", Unassigned} => t.assignee = f.assignee
  /\ f.query # "" => f.query \in t.words

FilterTasks(ts, f) ==
  IF f = EmptyFilter THEN ts ELSE Keep(ts, {t \in Elems(ts) : Match(f, t)})

\* Variant: the assignee is not written into the address bar.
FilterQueryNoAssignee(f) ==
  [k \in {k \in FilterFields \ {"assignee"} : f[k] # ""} |-> f[k]]

\* The address bar has a key for every field that is set.
FilterQuery(f) == [k \in {k \in FilterFields : f[k] # ""} |-> f[k]]

ValidField(k, v) ==
  /\ k = "status" => v \in Elems(Statuses)
  /\ k = "type" => v \in Elems(Kinds)
  /\ k = "priority" => v \in Elems(Priorities)

\* Unknown keys are ignored and invalid values dropped.
ParseFilterQuery(link) ==
  [k \in FilterFields |->
     IF k \in DOMAIN link /\ ValidField(k, link[k]) THEN link[k] ELSE ""]

-----------------------------------------------------------------------------
(* The board.                                                              *)

None == [id |-> ""]

ParentOf(ts, t) ==
  IF t # None /\ \E p \in Elems(ts) : p.id = t.parent
    THEN CHOOSE p \in Elems(ts) : p.id = t.parent ELSE None

\* Variant: the walk looks no further than the parent.
EpicOfParent(ts, t) ==
  LET p == ParentOf(ts, t) IN
  IF t.type = "epic" THEN t.id ELSE IF p # None /\ p.type = "epic" THEN p.id ELSE ""

\* The first epic on the way up.
EpicOf(ts, t) ==
  LET Up[n \in 0..(MaxDepth - 1)] == IF n = 0 THEN t ELSE ParentOf(ts, Up[n - 1])
      Hits == {n \in 0..(MaxDepth - 1) : Up[n] # None /\ Up[n].type = "epic"}
  IN  IF Hits = {} THEN "" ELSE Up[CHOOSE n \in Hits : \A m \in Hits : n <= m].id

InEpic(ts, epic) ==
  IF epic = "" THEN ts ELSE Keep(ts, {t \in Elems(ts) : EpicOf(ts, t) = epic})

MoreUrgent(a, b) ==
  IF a.priority # b.priority THEN Rank(a.priority) > Rank(b.priority)
                             ELSE a.updated > b.updated

\* One column per status; in it the most urgent task comes first, then the
\* most recently updated.
Columns(ts, project) ==
  [s \in Elems(Statuses) |->
     SortStable(Keep(ts, {t \in Elems(ts) : /\ t.status = s
                                            /\ project # "" => t.project = project}),
                MoreUrgent)]

-----------------------------------------------------------------------------
(* Dates (package time and model.Date).                                    *)

DaysBefore(y) == 365 * (y - 1) + ((y - 1) \div 4) - ((y - 1) \div 100) + ((y - 1) \div 400)
Leap(y) == DaysBefore(y + 1) - DaysBefore(y) = 366
Cumulated == <<0, 31, 59, 90, 120, 151, 181, 212, 243, 273, 304, 334>>
MonthStart(y, m) == DaysBefore(y) + Cumulated[m] + (IF Leap(y) /\ m > 2 THEN 1 ELSE 0)

\* time.Date carries months beyond 12, and days beyond the end of a month.
NewDate(y, m, d) == MonthStart(y + ((m - 1) \div 12), ((m - 1) % 12) + 1) + d - 1

Year(d) ==
  CHOOSE y \in (d \div 366 + 1)..(d \div 365 + 1) : DaysBefore(y) <= d /\ d < DaysBefore(y + 1)
Civil(d) ==
  LET y == Year(d)
      m == CHOOSE m \in 1..12 : MonthStart(y, m) <= d /\ d < NewDate(y, m + 1, 1)
  IN  [year |-> y, month |-> m, day |-> d - MonthStart(y, m) + 1]

AddMonths(d, n) == LET c == Civil(d) IN NewDate(c.year, c.month + n, c.day)
FirstOfMonth(d) == LET c == Civil(d) IN NewDate(c.year, c.month, 1)

-----------------------------------------------------------------------------
(* The timeline.                                                           *)

DefaultTimelineMonths == 3

\* Variant: the window begins today.
DefaultWindowToday(today) ==
  [start |-> today, end |-> AddMonths(today, DefaultTimelineMonths)]

DefaultWindow(today) ==
  LET start == FirstOfMonth(today)
  IN  [start |-> start, end |-> AddMonths(start, DefaultTimelineMonths)]

ShiftWindow(w, months) ==
  [start |-> AddMonths(w.start, months), end |-> AddMonths(w.end, months)]

WeekStart(d) == d - (d % 7)

\* The segments of the header, one per month, with the Mondays inside: the loop
\* goes from the start of the window to the first of each month after it.
MonthsInWindow(w) ==
  LET first == FirstOfMonth(w.start)
      cur == [k \in 0..((w.end - w.start) \div 28 + 2) |->
                IF k = 0 THEN w.start ELSE AddMonths(first, k)]
      month(k) ==
        LET end == IF cur[k + 1] > w.end THEN w.end ELSE cur[k + 1] IN
        [start |-> cur[k], end |-> end,
         ticks |-> {t \in {WeekStart(cur[k]) + 7 * i : i \in 0..5} : cur[k] < t /\ t < end}]
  IN  [i \in 1..Cardinality({k \in DOMAIN cur : cur[k] < w.end}) |-> month(i - 1)]

Dated(t) == t.start # 0 /\ t.end # 0

\* Fraction of the window, in days.
Fraction(d, w) ==
  LET n == d - w.start IN
  IF n < 0 THEN 0 ELSE IF n > w.end - w.start THEN w.end - w.start ELSE n

\* TaskRange ends a day after the end date.
BarSpan(w, t) ==
  [left |-> Fraction(t.start, w), width |-> Fraction(t.end + 1, w) - Fraction(t.start, w)]

Drawn(w, t) ==
  /\ Dated(t) /\ t.start <= t.end
  /\ t.start < w.end /\ t.end + 1 > w.start
  /\ BarSpan(w, t).width > 0

\* Task ids are compared as strings; here by their place in the snapshot.
EarlierStart(a, b) == IF a.start # b.start THEN a.start < b.start ELSE a.seq < b.seq

SortByStartDate(ts) == SortStable(Keep(ts, {t \in Elems(ts) : Dated(t)}), EarlierStart)

TimelineRows(ts, w) ==
  LET kept == Keep(SortByStartDate(ts), {t \in Elems(ts) : Drawn(w, t)})
  IN  [i \in DOMAIN kept |-> [task |-> kept[i], bar |-> BarSpan(w, kept[i])]]
=============================================================================
