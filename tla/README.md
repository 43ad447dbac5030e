# LuxTime, specified

TLA+ models of LuxTime, checked with TLC, and theorems about them, proved with
TLAPS. Source references are to files of the repository.

## Inventory

LuxTime is a local time tracker: a FastAPI application over PostgreSQL in two
containers, a web client, a Windows tray client, and a Windows service that
keeps the containers running.

| Part | Source | State it keeps | Operations | Talks to |
|---|---|---|---|---|
| Work sessions | `app/services/sessions.py`, `app/core/session_state.py`, `db/schema/020…050` | rows of `work_sessions` and `work_session_segments` | start, pause, resume, stop, update, correct a segment, delete; pause, resume and stop several | PostgreSQL, one transaction for each session |
| Projects | `app/services/projects.py`, `ProjectsView.tsx`, the start forms | rows of `projects`; the rename editor and the name picked | create, rename, archive, reactivate; start by name | PostgreSQL, API |
| Settings | `app/services/settings.py` | one row | patch | PostgreSQL |
| Insights and History | `app/core/insights.py`, `app/services/insights.py`, `InsightsView.tsx`, `HistoryView.tsx` | none | totals, days, projects and lengths over a period; durations of sessions | reads segments |
| API, adapter | `app/api`, `app/data/database.py` | one connection for each request | HTTP routes | services |
| Watchdog | `service/watchdog.py`, `service/windows_service.py` | backoff, stop event | poll, recover | Docker, `/api/health`, the stop marker |
| Operator commands | `scripts/*.ps1`, tray *Stop LuxTime* | the marker `.runtime/intentional-stop` | start, stop, restart | Docker |
| Launcher | `launcher/main.py` | none | start the service, open the browser | service manager, API |
| Tray | `tray/main.py`, `tray/system_events.py` | last polled state, projects it stopped | poll, menu actions, automatic stop, prompt | API, Windows events |
| Tray singleton | `tray/runtime.py`, `tray/control.py` | mutex, exit event, pid file | start, exit | Windows objects |
| Web client | `web/src/App.tsx`, `web/src/components` | last answers, view, period, requests in flight | load, poll, refresh a view, mutate and refresh, change a setting | API |
| Backup and rebuild | `db/backup`, `db/rebuild` | the schema | backup, restore, rebuild | containers |

What is hard in it, and what correctness means there:

* **Two tables, no constraint between them.** A session's status and its
  segments say the same thing twice. Every transaction has to keep them in
  step: only running sessions have an open segment, segments of a session do
  not overlap, `started_at` and `stopped_at` cover the segments.
* **Requests that carry their own times**, in any order, ahead of the clock or
  behind it.
* **Concurrent requests** (web client, tray, second browser tab) on one row,
  each on a connection of its own, under READ COMMITTED, taking locks in two
  different orders; bulk requests that are many transactions.
* **A marker file** read by a watchdog that acts minutes after reading it, and
  removed by some ways of starting LuxTime but not by all.
* **A tray** that acts on polled state from two threads, and gives up on a
  request after five seconds that the server completes.
* **Answers out of order** in the web client, whose polls, loads, refreshes and
  mutations write the same state, each part of an answer read at an instant of
  its own, and which holds projects by name while the list changes.
* **Rounding** at several places of a report, its charts, and the history of the
  same segments.

The hazards, each at its line and with the properties that cover it, are listed
in `PROJECT.json`.

## Modules

| Module | Models | Role |
|---|---|---|
| `SessionLedger` | what tracking promises about a session | abstract: a status and a set of stretches of work |
| `WorkSessions` | each committed transaction on the tables | the core; implements `SessionLedger` |
| `WorkSessionsProofs` | | theorems about `WorkSessions` |
| `WorkSessionsRefinement` | | `WorkSessions` implements `SessionLedger` |
| `SessionTransactions` | each statement of concurrent requests | composes clients over the tables of `WorkSessions`; implements `WorkSessions`, and with corrections `SessionLedger` |
| `SessionTransactionsProofs` | | theorems about `SessionTransactions`: invariant, serializability, ledger |
| `Lifecycle` | watchdog, operators, launcher, Docker | the second system |
| `LifecycleRace` | which stops have been carried out, a history of `Lifecycle` | for the run that shows one undone |
| `LifecycleProofs` | | theorems about `Lifecycle` |
| `Tray` | the tray's threads over an abstract API | the third system |
| `TrayProofs` | | theorems about `Tray` |
| `WebClient` | state, effects and requests of the web client over an abstract server | the fourth system |
| `WebClientProofs` | | theorems about `WebClient` |
| `ProjectCatalogue` | names of projects, the rename editor, starting by name | the fifth system |
| `ProjectCatalogueProofs` | | theorems about `ProjectCatalogue` |
| `Insights` | the report, its charts, and the history, over recorded time | pure functions over the segments that requests produce |
| `InsightsProofs` | | theorems about `Insights`: elapsed time, concurrency, history, charts |
| `MCWorkSessions`, `MCSessionTransactions`, `MCInsights` | | symmetry and time zones for TLC |

Operators named *Mutant* in a comment are wrong variants of the definition that
follows them; no specification uses them.

### WorkSessions

`session` and `segment` are the rows by id (`NoRow` where there is none),
`project` what sessions need to know of a project, `now` the server's clock.
Row types include the CHECKs of the schema. Each endpoint is one action, guard
by guard: `Moves` is `next_status`, `CloseOpenSegment` the guarded UPDATE,
`NotBeforeLastEnd` the comparison with `MAX(ended_at)`, `SegmentAdmitted` the
CHECK and the exclusion constraint, `RefreshBounds` the second UPDATE of
`correct_segment`. NULL is a time after all others, which is how the exclusion
constraint reads it. A rejected request changes nothing.

`Requestable` bounds what a request's timestamp may be: up to `Horizon` ahead of
the clock. The API does not compare a time with the clock, so the passing runs
let requests run ahead of it. An open segment that starts ahead of the clock
makes the range of the sessions query `Inverted`, and the list fails
(`ListingFails`) while another session has a segment to compare it with.

### SessionTransactions

Each client runs one request: `pc` is its next statement. Locks are held to the
end; a statement that needs a locked row is not enabled until it is released,
and then looks at the row again; the bounds of a correction are read in one
step and written in another, because PostgreSQL re-evaluates the locked row
after a wait and not the subquery. `Exclude` waits for a transaction that holds
a conflicting uncommitted range. A cycle of waits is broken by failing one of its transactions. Bulk
requests list, then run one transaction for each session, and end at the first
failure. `Reply` reads the session again after the commit.

PostgreSQL itself is not part of the repository: its locks, visibility and
deadlock detector are modelled from what the statements rely on.

### Lifecycle

`dog` is the next statement of `LuxTimeWatchdog.run`, `backoff` its variable,
`stopping` its stop event; `op` is where each operator's script stands;
`marker` is the file. A start, and a restart after its `compose down`, looks for the
engine before it removes the marker (`RequireDocker`) and may end there. The stack is *absent*, *starting*, *healthy* or *hung*
(running and not answering). `compose up` creates what is missing and leaves
what runs; a failed or timed-out one may have had its effect. The engine comes
and goes, containers crash, are removed or hang, and the machine reboots at any
step.

### Tray

`at` is where each thread stands: the polling thread, the thread that pumps
lock and sleep messages, and the idle thread. A refresh is a fetch and, later, an
assignment; a failed one clears the polling thread's list, aborts a window
message, and ends the idle thread. `remembered` is `_auto_stopped_projects`;
`asking` the open prompts of a thread, more than one on the events thread
because an open message box dispatches messages to the window it shares a thread
with. A request that fails may have had its effect. The four GETs of a refresh
are one instant, and a menu command and its refresh are one step: the refreshes
of the three threads overlap anyway. The API is reduced to the projects with a
running or paused session.

### WebClient

The variables are the states of `App()`: `view`, `period`, `appStatus`,
`timers`, `fetched` (history, projects and insights), `settings`, whether an
error is shown; and `jobs`, the requests in flight. `seen` of a request is the
set of server states since it was asked: each part of a `Promise.all` is read in
one of them, not all in the same. Answers arrive in any order, fail with or
without their effect, and are applied as the code applies them: a poll that
fails empties the timers, a failed refresh or mutation leaves a message, the
answers of a view that has been left are dropped, those of a load are not.
A mutation refreshes with the period of the render it was pressed in.
`Offers` is what the screen lets the user press. The server is reduced to the
status of each session and the settings row; `OthersWork` and `OthersPrefs` are
the tray and other tabs. `GET /status` may answer *degraded* where the database
is away.

Left out: the texts and the ticking of durations, the dialog state (its open
start form is in `ProjectCatalogue`), and three components that nothing opens:
`IdleDialog`, `ResumeDialog` and `RecoveryDialog`.

### ProjectCatalogue

`rows` is the table; a request to create or rename is checked in one step
(`CheckName`) and written in another (`Insert`, `WriteName`), where the unique
index decides. `list` is what this client fetched last and may be replaced at
any time. `editor` is the rename editor of `ProjectsView`; `SaveEdit` compares
the text with the list of that moment. `picked` is the name a start form
remembers, and `PressStart` looks it up in the list of that moment: if the project
picked has been renamed and another been given its name, that other is started. Names are a
word and its case, and what a user types may be blank. `given` and `asked`
record, for the properties only, what was ever typed for a project and which
state was asked for it. Ids are never reused and projects never deleted, as in
the code.

### Insights

The state is recorded time: segments that starts, pauses, resumes and stops
leave. Corrections are left out: without times of their own, requests already
reach every set of segments that lies behind the clock. Everything else is an
operator on that state. `Rows` is the query of `services/insights.py`,
`RowOrders` the orders its `ORDER BY` leaves open, `Elapsed`, `Attributed`,
`Days`, `Value` and the rest are `calculate_insights`, `DailyActivityChart`,
`LabourValueChart`, `SessionLengthChart`, `Tiles` and `NoteShown` what
`InsightsView` makes of the report, and `HistoryView` what the sessions query and
the history table make of the same segments. Time is in ticks, fractions of a
second, so that the roundings show: `round()` of Python takes a half to the even
neighbour, PostgreSQL and JavaScript take it up. A period begins at a midnight:
at UTC in the report (`PeriodStart`), and where the browser is in History
(`LocalStart`), `zone` ticks earlier. Clocks that are put forward or back within
a period are left out, and the browser's clock is the server's. The average session length and
the split by work type repeat forms that are modelled. `Value` rounds exactly
where the code rounds a float.

## Runs

| Run | Instance | Shows |
|---|---|---|
| `work_sessions` | 2 sessions, 3 segments, times 0…3, Horizon 1 | tables consistent, stopping final, recorded time kept, only a correction strands a session, and for good |
| `work_sessions_ahead` | the same, Horizon 2 | a list broken by a time ahead of the clock is mended by no pause or stop without a later time; `WorkSessions` implements `SessionLedger` |
| `verify_running` | 1 session | **violated**: a correction leaves a running session without an open segment |
| `transactions_serial` | 2 clients, 2 sessions, 3 segments, times 0…2 | concurrent requests without corrections are serializable: they implement `WorkSessions` |
| `transactions_ledger` | 2 clients, 1 session, 2 segments, fairness | with corrections and archiving, sessions follow the ledger; every request ends |
| `lifecycle` | 2 operators, waits 10 to 300, fairness | backoff bounded; behind the marker the stack stays down; recovery of missing containers, settling behind the marker, ending on request |
| `lifecycle_race` | 1 operator | **violated**: a stop that has taken the stack down is undone by a `compose up` already begun |
| `tray` | 1 project, sleep and idle input, 2 settings rows, fairness | offers to start again are neither doubled nor lost and reach the user; the list catches up |
| `tray_idle` | the same, lock and sleep | **violated**: a failed refresh ends the idle thread |
| `web_client` | 1 session, 1 setting, 2 periods, 2 polls in flight, 3 disturbances, fairness | no timers without an engine; the start screen always has a way on; an ended timer leaves and a period left does not return; timers, the visible list and a lone change of a setting settle on what the server has |
| `project_catalogue` | 2 projects, 3 names of which 2 differ in case, 2 requests in flight, 5 steps of users | names stay distinct; a start by name starts the project picked, or the one that was given its name; nothing is renamed or switched that nobody asked for |
| `insights` | 2 sessions, 2 projects, 3 segments, half seconds, days of a second, three time zones, times 0…7 | merging counts covered time; charts account for the report; marks and notes of concurrency agree; history and report agree but for what the other midnight cuts off, all up to the roundings of the code |

*Bounds.* Two segments of one session and one of another are the least at which
overlap, ordering, cascades and cross-session effects occur; three or four
instants give every order of the ends of two segments. Two clients suffice for
every pairwise lock order and for the deadlock between a correction and the
other requests; longer cycles need more locks than a request holds. In
`SessionTransactions` requests are accepted only while ids are left for what they insert
(`RoomFor`), and the clock stands still because a Horizon of `MaxTime` makes
every time possible already. `Lifecycle` is finite; its intervals are the real
ones in the passing runs. In `Tray` one
project is enough for what one offer may suffer; the user does not leave or return while
`MaxPending` messages wait, nor leave while `MaxPrompts` prompts are open, which
still lets prompts nest (a resume is announced twice) and messages queue up
behind a handler. Sleep stands for lock, whose messages come once.

In `WebClient` one session goes through every status, and the two periods and
two polls are what an older answer needs to overtake a newer one. `budget` counts
*disturbances*, that is steps of other clients and of the user and failures:
three let a mutation meet another client and a failure. `InFlight("view")` holds
one request because the interval of five seconds is longer than a request.
In `ProjectCatalogue` two projects can swap, share and take over names, and five
steps are an edit from opening to saving with two steps of others in between. In
`Insights` three segments of two sessions nest, overlap, touch and begin together
in every way, and seven half seconds span four days and the roundings of halves; the zones are half a day behind UTC, at it
and half a day ahead, so that either midnight may come first;
with one rate, values are the seconds in another unit.

*Symmetry* is used only in runs without liveness properties, over ids and
clients, which are interchangeable.

*Fairness.* `transactions_ledger` assumes that PostgreSQL lets waiters have a
released row in turn (strong fairness of a client's statements) and breaks a
deadlock that persists. `lifecycle` assumes that timers and commands end,
that starting containers become healthy, and that of repeated `compose up`
commands one eventually succeeds; nothing is assumed of operators, of the
engine, or of failures, and the properties say "if the engine stays, the service
runs and failures stop". `RestoresStack` also leaves out stacks
that stay hung, which the watchdog never restores (see below). `tray` assumes that
threads run and requests end, and nothing of the user, who may leave prompts
unanswered. `web_client` assumes that browser timers fire, that polls and views
are answered, each one by one, and that mutations, loads and settings go on;
nothing of the user. Its liveness properties say what follows once the
disturbances are used up: no requirement is made of when that happens, and until
then an older answer may be on screen.

## Disagreements found

Shown by a run:

1. `db/verify/verify.sql:32` requires one open segment of every running session;
   `correct_segment` may end it (`sessions.py:252`). `StrandedForGood` shows
   that afterwards the session can only be deleted.
2. `docs/architecture.md:72`: the marker suppresses recovery after a full stop.
   The watchdog that has looked for the marker before the stop wrote it
   (`watchdog.py:157`) may still run its `compose up` when the stop has taken the
   stack down, and brings it up again behind the marker.
3. `tray/main.py:188`: the tray stays usable if the API is down; a refresh that
   fails after an automatic stop (`main.py:198`) ends the idle thread.

Met while modelling, and plain in the code:

4. `docs/architecture.md:101` has the tray call stop-all for whatever was
   running or paused; the first session that cannot be stopped ends it
   (`sessions.py:312`). A stranded session does this for ever.
5. `docs/windows-lifecycle.md:103`: the watchdog restores an unhealthy container;
   `compose up -d` leaves it running (`watchdog.py:163`).
6. `launcher/main.py:1`: start LuxTime if needed; behind a marker it does not.
7. `InsightsView.tsx:400`: the note about concurrent work only when there is
   overlap; the roundings of rows that follow each other may bring it up without
   any, though with no more than half a second for each row and one: that is what
   `ConcurrencyAgrees` bounds.
8. The Insights tile for time attributed to two or more projects also counts
   overlaps within one project, and time under *k* sessions *k* − 1 times.
   `docs/architecture.md:41` gives `attributed - elapsed`, which may be negative
   by roundings and is then shown as none.
9. `InsightsView.tsx:420` heads the chart "Activity by Week" or "by Month" over
   bars that are days.
10. History lists sessions that began in the period, by local midnight, of the
    500 begun last; Insights counts the part of every session that lies in the
    period, by UTC midnight. East of UTC a session that began between the two
    midnights is listed in full and cut in the report, by as much as the browser is
    ahead; west of it History may still be in the period before, and then lists
    sessions that the report leaves out. `HistoryMatchesInsights` says by how much
    the two differ.
11. A name that two requests find unused is refused to the second by the index,
    with an internal error and not the conflict that the check answers.
12. A rename editor that is closed untouched sends the old name back when another
    client has renamed the project meanwhile. `ChangesAreAskedFor` admits it: the
    name was once given to that project.
13. A list of sessions that meets an inverted range is answered "Database
    unavailable" (`main.py:62`), and the clients take the database to be away.
    `FailingListStays` says what ends that: time, a deletion, a correction, or a
    pause or stop with a time further ahead.

## Theorems

All are for every value of the constants, under the assumptions named in the
modules (`MaxTime` and `Horizon` are naturals, time zones are whole numbers of ticks, `NoReason` is no reason, `NoRow`
is no row; `Poll` positive and not above `MaxBackoff`; `Sessions` finite where a
bulk request lists it, since a table has finitely many rows; rates are natural
multiples of their unit, and the classes of lengths finitely many). A theorem with a
hypothesis of its own says so.

*WorkSessions.* The properties of the tables are not inductive one by one. A
stop may be accepted only because the session row covers its segments; the row
covers them only because a quiet session has no open segment; an open segment is
last, and `CloseOpenSegment` keeps segments disjoint, only because they were
disjoint with the open end counted as after everything. `TrackingInvariant` is
their conjunction with the types. `TrackingTheorem` proves it inductive, one
step for each action and part, over lemmas about the table operators
(`SegmentsOf` under an update, disjointness of a shortened row, bounds after a
correction). `TypeTheorem`, `QuietTheorem`, `DisjointTheorem` and
`CoverageTheorem` follow. `StrandedTheorem`, `StoppedTheorem`, `RecordedTheorem`
and `StrandingTheorem` prove action properties from the same invariant;
`ListingTheorem` proves that a failing list stays: closing an open segment needs an
end after its start, which for an inverted one lies ahead of the clock.

*WorkSessions implements SessionLedger.* `RefinementTheorem` maps each segment row
to a stretch and each action to an action of the ledger or a stutter. Two rows of
one session never map to the same stretch, nor does a closed row to the open
stretch of another, only because rows are disjoint: the proof uses the part of the
invariant about rows (`RowsInvariant`), one lemma for each kind of write.

*SessionTransactions.* `TxnTheorem` proves `TxnInvariant` inductive for any number
of clients. It says how far each request has come, statement by statement: which
locks a client at a statement holds (`Shape`), that what it saw under a lock is
still so when it writes (`SessionKept`, `SegmentKept`), that two clients never
hold one session or segment and that two ranges past the exclusion constraint do
not overlap (`Exclusive`), and that the committed rows satisfy the invariant of
`WorkSessions` about them. It is needed because a request's guards are evaluated
several statements before its writes.
`TxnRowsTheorem` gives disjointness and closed segments of quiet sessions.
`LedgerTheorem` proves that concurrent requests, corrections included, follow
`SessionLedger`. `SerializableTheorem` proves that without corrections and patches
of projects they implement `WorkSessions`, with `Horizon >= MaxTime`: the clock of
this model stands still, so a request must be able to name any time. Those are
also the hypotheses of the run `transactions_serial`. With corrections the
theorem would be false: the bounds read for a session can be old when written.

*Lifecycle.* `BackoffTheorem` is type correctness, with the wait between the
poll interval and the cap whatever they are. `StaysDownTheorem` proves the action
property `StoppedStaysDown` for any number of operators.

*Tray.* `TypeTheorem` is type correctness, for any projects, settings and bounds;
it includes that the idle thread never has two prompts open. `GainsTheorem` and
`LossesTheorem` prove the two action properties about offers. An offer has a
holder: the memory, an open prompt, or a thread that is starting projects. The
proofs compare the holders before and after each step: taking the memory and
answering a prompt replace one holder by another, which keeps their number
(`HandedOn`); the other steps only add or only remove holders.

*WebClient.* `TypeTheorem` is type correctness. `UnavailableTheorem` and
`WayOutTheorem` follow from what a single step may do: `ShownTogether` (status and
timers change only together) and `LoadStays` (a load in flight stays until it is
answered or fails). The other two need what is in flight. `EndedTheorem` rests on
`EndingsAreOver`: a mutation that has been carried out has ended its session, its
refresh is asked after that and so sees no state from before, and a session that
is over stays over. `PeriodTheorem` rests on `ViewsAreCurrent`: the requests of a
view in flight are for the view and period on screen, since leaving either drops
them. `Origins` and `ViewOrigins` say where each request in flight comes from, one
case for each action.

*ProjectCatalogue.* `NamesTheorem` needs only that rows are written past the
index. `PickTheorem` adds that the list only moves forward through tables that once
were: the project picked stays listed, and the name picked belongs to it or to one
that it was given to after the pick was renamed. `ChangesTheorem`
rests on `Traced`: every name, from the editor to the request to the row and back
to the list, was typed for its project or was its name at the start.

*Insights.* `RecordedTheorem` proves what recording keeps: typed segments not ahead
of the clock, one after another within a session. The others are about the
operators in every such state, and need induction over the data: over the subsets
of a finite set (`SubsetInduction`) and along a sequence (`CountingUp`), both from
the least counterexample that `LeastNumber` finds. `FoldExists` turns the folds of
the library into functions with their recurrence; `IsSum`, `SumOfUnion` and
`RoundingsAddUp` say what sums do under union and rounding.
`ElapsedTheorem`: the rows can be sorted (`RowsCanBeSorted`), and after each of them
the merged span stands for the instants covered so far (`StandsFor`): before its
start they are counted, after it they are exactly the span. `ConcurrencyTheorem`: rows of sessions that are not marked are apart, so their
lengths add up to what they cover (`CoverageIsWithinSum`); what two of them share
is missing from it (`OverlapIsMissing`). The note is then right but for the
roundings (`RoundedNote`), and exactly right in whole seconds
(`NoteInWholeSeconds`). `HistoryTheorem`: each segment of a session is a row and a
part that is cut off (`LostAndKept`), so the sums differ by the cut and the
roundings (`SessionIsCut`); the parts cut off are apart and lie between the two
midnights, so they add up to no more than is between these (`CutIsEarly`).
`ChartsTheorem` takes the parts of the screen one by one. Every session is in one
class of lengths (`SumOfClasses`). The values of the projects sum the amounts that
the tile sums, each rounded once (`TwoRoundings`); that each session has one
of the rates is `RatedTheorem`. Rows are ordered by their start, so a day that a later row is the
first to touch is after all days touched before it (`DaysInOrder`). The parts of a
row in its days add up to it but for a second (`PartsOfRow`): the days between the
first and the last are whole seconds, so three roundings are all there are. Sums
over the days and over the rows are then exchanged row by row (`LayersAddUp`), and
the bars list each day once (`LayersOfBars`, `SumOfSequence`).

Only model-checked: the liveness properties of `Lifecycle`, `Tray`, `WebClient`
and `SessionTransactions`, which rest on fairness. Every safety property of the
passing runs is stated by a theorem.

## Not modelled

* The tray's singleton (`tray/runtime.py`, `tray/control.py`): mutex, exit event
  and pid file are Windows objects whose lifetimes the source does not show; what
  there is to check is their semantics rather than the program's.
* Backup, restore and rebuild: commands one after another. A restore that fails
  after it has dropped the schema leaves no data, and nothing in the program
  recovers from that.
* Settings but for their updates and the switches the tray reads; texts, colours
  and rates of sessions and projects; CSV export; rendering; logging.
* Packaging and installation, sequences of installer calls.
* The `foundry` package and PostgreSQL beyond what is said above.
* The limit of 500 rows of a list, which also bounds `pause_all` and `resume_all`.

## Plan

What the project would take up next.

1. `TrayRuntime`: mutex, manual-reset exit event and pid file over overlapping
   instances.
2. A run of `Insights` with several rates; its theorems already hold for any.
