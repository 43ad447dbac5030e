------------------------------- MODULE Insights -------------------------------
(***************************************************************************)
(* What LuxTime computes from recorded time, and what it shows of it: the  *)
(* report of core/insights.py over the rows that services/insights.py      *)
(* selects, the charts of InsightsView, and the totals that the sessions   *)
(* query gives HistoryView.  The three count the same segments, each       *)
(* rounding, clamping and comparing them in its own way.                   *)
(*                                                                         *)
(* The state is the recorded time, grown by the requests of WorkSessions   *)
(* in their effect on segments, none ahead of the clock; reports are       *)
(* operators on it.  Time counts ticks, fractions of a second, since a     *)
(* midnight on which every period begins, and days are short.              *)
(***************************************************************************)
EXTENDS Integers, SequencesExt, FiniteSetsExt

CONSTANTS
  Sessions, Projects,
  Rates,        \* hourly rates
  Ticks,        \* in a second
  DayTicks,     \* in a day, whole seconds
  Minute,       \* seconds in the smallest unit that durations are shown in
  Penny,        \* seconds at rate 1 that are worth the smallest unit of values
  Periods,      \* a period is the set of the days on which it begins
  Zones,        \* ticks by which clocks of browsers are ahead of UTC
  Lengths,      \* lower bounds of the session lengths, in seconds
  MaxTime,      \* bound: of the clock
  MaxSegments   \* bound: of the segments

ASSUME TickAssumption == Ticks \in Nat \ {0} /\ DayTicks \in Nat \ {0} /\ DayTicks % Ticks = 0
ASSUME ScaleAssumption == Minute \in Nat \ {0} /\ Penny \in Nat \ {0} /\ MaxTime \in Nat /\ MaxSegments \in Nat
ASSUME PeriodAssumption == \A p \in Periods : p \subseteq Nat /\ 0 \in p
ASSUME ZoneAssumption == Zones \subseteq Int
ASSUME LengthAssumption == Lengths \subseteq Nat /\ 0 \in Lengths /\ IsFiniteSet(Lengths)
ASSUME RateAssumption == Rates \subseteq Nat

VARIABLES
  segments,     \* recorded segments, the end of an open one being Open
  owner,        \* project and rate of each session that has been started
  stopped,      \* the sessions that have been stopped
  now
vars == <<segments, owner, stopped, now>>

Open == MaxTime + 1
Segment == [session : Sessions, start : 0..MaxTime, end : 1..Open]

Of(s) == {g \in segments : g.session = s}
Running == {s \in Sessions : \E g \in Of(s) : g.end = Open}
Started == DOMAIN owner

Init == segments = {} /\ owner = <<>> /\ stopped = {} /\ now = 0

-----------------------------------------------------------------------------
(* Recording. *)

OpenSegment(s) ==
  /\ Cardinality(segments) < MaxSegments
  /\ segments' = segments \cup {[session |-> s, start |-> now, end |-> Open]}
\* A segment is longer than nothing.
CloseSegment(s) ==
  \E g \in Of(s) : /\ g.end = Open /\ g.start < now
                   /\ segments' = (segments \ {g}) \cup {[g EXCEPT !.end = now]}

Start(s) ==
  /\ s \notin Started /\ OpenSegment(s)
  /\ \E p \in Projects, r \in Rates :
       owner' = [t \in Started \cup {s} |-> IF t = s THEN [project |-> p, rate |-> r] ELSE owner[t]]
  /\ UNCHANGED <<stopped, now>>
PauseSession(s) == CloseSegment(s) /\ UNCHANGED <<owner, stopped, now>>
ResumeSession(s) ==
  /\ s \in Started \ (Running \cup stopped)
  /\ \A g \in Of(s) : g.end <= now
  /\ OpenSegment(s) /\ UNCHANGED <<owner, stopped, now>>
StopSession(s) ==
  /\ s \in Started \ stopped
  /\ IF s \in Running THEN CloseSegment(s) ELSE UNCHANGED segments
  /\ stopped' = stopped \cup {s} /\ UNCHANGED <<owner, now>>
Passes == now < MaxTime /\ now' = now + 1 /\ UNCHANGED <<segments, owner, stopped>>

Next == Passes \/ \E s \in Sessions : Start(s) \/ PauseSession(s) \/ ResumeSession(s) \/ StopSession(s)
Spec == Init /\ [][Next]_vars

-----------------------------------------------------------------------------
(* Rounding and periods. *)

Abs(x) == IF x < 0 THEN -x ELSE x

\* round() of Python: a half goes to the even neighbour.
HalfEven(x, n) == LET q == x \div n  r == x % n
                  IN  IF 2 * r > n \/ (2 * r = n /\ q % 2 = 1) THEN q + 1 ELSE q
\* ROUND of PostgreSQL's numeric and Math.round: a half goes up.
HalfUp(x, n) == (2 * x + n) \div (2 * n)

PeriodStart(p) == Max({d * DayTicks : d \in p} \cap 0..now)
EndNow(g) == IF g.end = Open THEN now ELSE g.end

-----------------------------------------------------------------------------
(* The rows of a report, and the report. *)

\* Every segment that reaches into the period, cut to it.
Rows(p) ==
  LET first == PeriodStart(p)
      cut(g) == [session |-> g.session, start |-> Max({g.start, first}), end |-> Min({EndNow(g), now})]
  IN  {r \in {cut(g) : g \in {h \in segments : h.start < now /\ EndNow(h) > h.start /\ EndNow(h) > first}} :
         r.end > r.start}
Seconds(r) == HalfEven(r.end - r.start, Ticks)

\* The orders in which the database may return them.
\* Mutant: the query does not order them.
RowOrdersAny(R) == SetToSeqs(R)
RowOrders(R) == {q \in SetToSeqs(R) : \A i, j \in 1..Len(q) : i < j => q[i].start <= q[j].start}

\* _merge_elapsed: a row that starts before the merged time ends extends it.
\* Mutant: the end of the last row counts, not the latest.
MergeLast(m, r) ==
  IF r.start <= m.end THEN [m EXCEPT !.end = r.end]
  ELSE [before |-> m.before + (m.end - m.start), start |-> r.start, end |-> r.end]
Merge(m, r) ==
  IF r.start <= m.end THEN [m EXCEPT !.end = Max({@, r.end})]
  ELSE [before |-> m.before + (m.end - m.start), start |-> r.start, end |-> r.end]
Earlier(r, t) == r.start < t.start \/ (r.start = t.start /\ r.end < t.end)
Elapsed(R) ==
  LET q == CHOOSE s \in SetToSeqs(R) : \A i, j \in 1..Len(s) : i < j => ~ Earlier(s[j], s[i])
      m == FoldLeft(Merge, [before |-> 0, start |-> Head(q).start, end |-> Head(q).end], Tail(q))
  IN  IF R = {} THEN 0 ELSE HalfEven(m.before + (m.end - m.start), Ticks)

Attributed(R) == SumFunction([r \in R |-> Seconds(r)])
Concurrent(R) == Max({0, Attributed(R) - Elapsed(R)})

ProjectsIn(R) == {owner[r.session].project : r \in R}
RowsOf(R, p) == {r \in R : owner[r.session].project = p}
ProjectSeconds(R, p) == Attributed(RowsOf(R, p))
\* What rows are worth, each at the rate of its session, rounded once.  (The code
\* rounds a float, which may take a tie either way.)
Value(R) == HalfEven(SumFunction([r \in R |-> Seconds(r) * owner[r.session].rate]), Penny)

\* The parts of a row in each day it touches.
FirstDay(r) == r.start \div DayTicks
LastDay(r) == (r.end - 1) \div DayTicks
Part(r, d) == HalfEven(Min({r.end, (d + 1) * DayTicks}) - Max({r.start, d * DayTicks}), Ticks)
DaySeconds(R, d) == SumFunction([r \in {t \in R : d \in FirstDay(t)..LastDay(t)} |-> Part(r, d)])
\* The days of the report, in the order in which the rows first touch them.
Touching(q, d) == {i \in 1..Len(q) : d \in FirstDay(q[i])..LastDay(q[i])}
Enters(q, d, e) ==
  LET i == Min(Touching(q, d))  j == Min(Touching(q, e))
  IN  i < j \/ (i = j /\ d < e)
Days(q) ==
  CHOOSE s \in SetToSeqs(UNION {FirstDay(q[i])..LastDay(q[i]) : i \in 1..Len(q)}) :
    \A i, j \in 1..Len(s) : i < j => Enters(q, s[i], s[j])

SessionsIn(R) == {r.session : r \in R}
SessionSeconds(R, s) == Attributed({r \in R : r.session = s})
CountOfLength(R, m) ==
  Cardinality({s \in SessionsIn(R) : /\ SessionSeconds(R, s) >= m
                                     /\ \A n \in Lengths : n > m => SessionSeconds(R, s) < n})

-----------------------------------------------------------------------------
(* InsightsView: what its parts show, without layout and colours. *)

\* Durations are shown in whole minutes, begun ones left out.
InMinutes(seconds) == seconds \div Minute
Tiles(R) == [elapsed |-> InMinutes(Elapsed(R)), attributed |-> InMinutes(Attributed(R)),
             concurrent |-> InMinutes(Concurrent(R)), value |-> Value(R), sessions |-> Cardinality(SessionsIn(R))]
NoteShown(R) == Concurrent(R) > 0

\* A bar for each day of the report, in its order, with a layer for each project.
DailyActivityChart(R, q) ==
  LET days == Days(q)
  IN  [i \in 1..Len(days) |->
         [day |-> days[i], layers |-> [p \in ProjectsIn(R) |-> DaySeconds(RowsOf(R, p), days[i])]]]
\* The values its bars are drawn from; its texts leave out the pennies.
LabourValueChart(R) == [p \in ProjectsIn(R) |-> [value |-> Value(RowsOf(R, p)), seconds |-> ProjectSeconds(R, p)]]
SessionLengthChart(R) == [m \in Lengths |-> CountOfLength(R, m)]

InsightsView(R, q) ==
  [tiles |-> Tiles(R), note |-> NoteShown(R), days |-> DailyActivityChart(R, q),
   projects |-> LabourValueChart(R), lengths |-> SessionLengthChart(R)]

-----------------------------------------------------------------------------
(* The sessions query and HistoryView. *)

StartedAt(s) == Min({g.start : g \in Of(s)})
TotalSeconds(s) == HalfUp(SumFunction([g \in Of(s) |-> EndNow(g) - g.start]), Ticks)
Overlap(g, h) == g.start < EndNow(h) /\ h.start < EndNow(g) /\ g.start < EndNow(g) /\ h.start < EndNow(h)
\* Mutant: overlaps with the session's own project do not count.
IsConcurrentAbroad(s) == \E g \in Of(s), h \in segments :
  owner[h.session].project # owner[s].project /\ Overlap(g, h)
IsConcurrent(s) == \E g \in Of(s), h \in segments : h.session # s /\ Overlap(g, h)

\* The midnight on which a period begins where the browser is, or the beginning of
\* all recorded time; the "all" of HistoryView is the period {0} at UTC.  (Clocks
\* are not put forward or back during a period.)
LocalStart(p, zone) == Max({0} \cup ({d * DayTicks - zone : d \in p} \cap 0..now))

\* Mutant: the sessions that were still open when the period began.
EntriesStoppedIn(p, zone) == {s \in stopped : \E g \in Of(s) : g.end >= LocalStart(p, zone)}
Entries(p, zone) == {s \in stopped : StartedAt(s) >= LocalStart(p, zone)}

\* The rows of the table and the total over them.
HistoryView(p, zone) ==
  LET entries == Entries(p, zone)
  IN  [rows |-> [s \in entries |-> [seconds |-> TotalSeconds(s), marked |-> IsConcurrent(s)]],
       total |-> SumFunction([s \in entries |-> TotalSeconds(s)])]

-----------------------------------------------------------------------------
(* Properties, of every state. *)

\* The elapsed seconds of a report are the time in the period during which
\* something was running, rounded once: merging neither loses nor repeats time,
\* whatever overlaps, nests or touches.
ElapsedIsCoveredTime ==
  \A p \in Periods :
    LET covered == {t \in PeriodStart(p)..(now - 1) : \E g \in segments : g.start <= t /\ t < EndNow(g)}
    IN  Elapsed(Rows(p)) = HalfEven(Cardinality(covered), Ticks)

\* What InsightsView shows fits together.  The lengths count every session of the
\* tile once, the values of the projects add up to the tile but for a unit for two
\* roundings, and the days come in order, whatever order the database returns equal
\* rows in; their layers add up to each project's time but for a second for each
\* row that spans a midnight.
ChartsAccountForAll ==
  \A p \in Periods : \A q \in RowOrders(Rows(p)) :
    LET R == Rows(p)
        screen == InsightsView(R, q)
        values == [a \in ProjectsIn(R) |-> screen.projects[a].value]
        layers(a) == [i \in DOMAIN screen.days |-> screen.days[i].layers[a]]
    IN  /\ SumFunction(screen.lengths) = screen.tiles.sessions
        /\ 2 * Abs(SumFunction(values) - screen.tiles.value) <= Cardinality(ProjectsIn(R)) + 1
        /\ \A i, j \in DOMAIN screen.days : i < j => screen.days[i].day < screen.days[j].day
        /\ \A a \in ProjectsIn(R) :
             Abs(SumFunction(layers(a)) - screen.projects[a].seconds)
               <= Cardinality({r \in RowsOf(R, a) : FirstDay(r) < LastDay(r)})

\* Insights and History agree on what is concurrent.  In whole seconds the note
\* over the whole recorded time is there exactly if some session is marked as
\* concurrent, and over a period only then.  With fractions they agree but for the
\* roundings of the rows and of the elapsed time: if no session is marked the note
\* tells of no more than these, and it is there if two rows of different sessions
\* overlap for longer.  Its three durations fit together but for a minute.
WholeSeconds == now % Ticks = 0 /\ \A g \in segments : g.start % Ticks = 0 /\ EndNow(g) % Ticks = 0
ConcurrencyAgrees ==
  \A p \in Periods :
    LET R == Rows(p)
        tiles == Tiles(R)
        marked == \E s \in Started : IsConcurrent(s)
        rounded == Ticks * (Cardinality(R) + 1)
    IN  /\ WholeSeconds => /\ NoteShown(R) => marked
                           /\ PeriodStart(p) = 0 /\ marked => NoteShown(R)
        /\ ~ marked => 2 * Ticks * Concurrent(R) <= rounded
        /\ \A r, t \in R : r.session # t.session =>
             (2 * (Min({r.end, t.end}) - Max({r.start, t.start})) > rounded => NoteShown(R))
        /\ NoteShown(R) => tiles.attributed - tiles.elapsed - tiles.concurrent \in {0, 1}

\* A session that History lists has the same time in the report of the period, but
\* for the rounding of its segments (one by one there, summed here), less what the
\* report cuts off of it: what was recorded before the period begins at UTC.  That
\* is no more than the period has begun earlier in the browser, and no more than
\* the browser is ahead of UTC, unless it is behind.  The same holds of the totals.
CutOff(s, first) == SumFunction([g \in Of(s) |-> Max({0, Min({EndNow(g), first}) - g.start})])
HistoryMatchesInsights ==
  \A p \in Periods, zone \in Zones :
    LET R == Rows(p)
        screen == HistoryView(p, zone)
        first == PeriodStart(p)
        early == Max({0, first - LocalStart(p, zone)})
        rows == DOMAIN screen.rows
    IN  /\ \A s \in rows :
             /\ 2 * Abs(Ticks * (screen.rows[s].seconds - SessionSeconds(R, s)) - CutOff(s, first))
                  <= Ticks * (Cardinality(Of(s)) + 1)
             /\ CutOff(s, first) <= early
        /\ 2 * Ticks * (screen.total - Attributed(R))
             <= 2 * early * Cardinality(rows) + Ticks * (Cardinality(segments) + Cardinality(rows))
        /\ zone >= 0 => early <= zone

=============================================================================
