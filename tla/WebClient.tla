------------------------------ MODULE WebClient ------------------------------
(***************************************************************************)
(* The data flow of the web client: the state of App(), the requests it    *)
(* has in flight and the order in which their answers are applied.         *)
(*                                                                         *)
(* A request that reads is in flight from the step that asks to the step   *)
(* that applies the answer; the parts of a Promise.all are answered each   *)
(* at an instant of its own in between.  "seen" is the set of server       *)
(* states since the request was asked, and every part of the answer is     *)
(* read in one of them.  Identical requests in flight are one element of   *)
(* jobs.                                                                   *)
(*                                                                         *)
(* The server is reduced to the status of each session and to the settings *)
(* row; other clients change both.  budget counts the disturbances still   *)
(* to come: what other clients, the user and failures may do before they   *)
(* leave the client alone, which liveness properties say what follows of.  *)
(***************************************************************************)
EXTENDS Naturals, FiniteSets

CONSTANTS
  Sessions,    \* session ids
  Keys,        \* settings; BOOLEAN stands for two values of one
  Periods,     \* the periods Insights offers
  Lists,       \* the views with a list of their own that an instance keeps
  Unset,       \* what React state holds as null
  MaxPolls,    \* bound: polls in flight
  MaxBudget    \* bound: steps of other clients and the user, and failures

ASSUME ListsAssumption == Lists \subseteq {"history", "projects", "insights"}
ASSUME PeriodsAssumption == "week" \in Periods /\ Periods \subseteq {"week", "month", "quarter", "year"}
ASSUME UnsetAssumption == Unset \notin [Keys -> BOOLEAN]
ASSUME BoundsAssumption == MaxPolls \in Nat \ {0} /\ MaxBudget \in Nat

VARIABLES
  work,        \* server: the status of each session
  prefs,       \* server: the settings row
  view,        \* the view on screen
  period,      \* insightPeriod
  appStatus,   \* the engine status on screen
  timers,      \* activeTimers: status by session
  fetched,     \* history, projects and insights as last fetched
  settings,    \* the settings as last fetched, Unset before
  error,       \* whether an error message is shown
  loadDue,     \* the zero-delay timeout that calls loadAll is pending
  jobs,        \* requests in flight
  budget       \* disturbances still to come

server == <<work, prefs>>
shown == <<appStatus, timers, fetched, settings, error>>
screen == <<view, period, loadDue>>
vars == <<server, shown, screen, jobs, budget>>

Status == {"unborn", "running", "paused", "stopped", "gone"}
Views == Lists \cup {"timer", "settings"}

-----------------------------------------------------------------------------
(* What the API answers. *)

\* GET /status.
StatusOf(w) == IF \E s \in Sessions : w[s] = "running" THEN "tracking"
               ELSE IF \E s \in Sessions : w[s] = "paused" THEN "paused" ELSE "ready"

\* GET /active.
ActiveIn(w) == {s \in Sessions : w[s] \in {"running", "paused"}}
\* Mutant: the list is not filtered by status.
TimersOfAll(w) == [s \in {t \in Sessions : w[t] # "gone"} |-> w[s]]
TimersOf(w) == [s \in ActiveIn(w) |-> w[s]]

\* GET /sessions?status=stopped, /projects, /insights?period=p: the sessions an
\* answer is made of, with the period it was asked for.
ListOf(v, p, w) ==
  [period |-> IF v = "insights" THEN p ELSE "all",
   sessions |-> {s \in Sessions : \/ w[s] = "stopped"
                                  \/ v # "history" /\ w[s] \in {"running", "paused"}}]

\* The statuses a request may find, and those it leaves.
Allowed(op) == CASE op = "start" -> {"unborn"}
                 [] op = "pause" -> {"running"}
                 [] op = "resume" -> {"paused"}
                 [] op = "stop" -> {"running", "paused"}
                 [] op = "delete" -> {"running", "paused", "stopped"}
Becomes(op) == CASE op \in {"start", "resume"} -> "running"
                 [] op = "pause" -> "paused"
                 [] op = "stop" -> "stopped"
                 [] op = "delete" -> "gone"
Ops == {"start", "pause", "resume", "stop", "delete"}

-----------------------------------------------------------------------------
(* Requests in flight. *)

Reading == {"poll", "load", "refresh", "view"}
InFlight(kind) == {j \in jobs : j.kind = kind}

Poll == [kind |-> "poll", seen |-> {work}]
Load == [kind |-> "load", period |-> period, seen |-> {work}, seenPrefs |-> {prefs}]
\* Mutant: the effect keeps the period of the first render.
ViewReadStale == [kind |-> "view", view |-> view, period |-> "week", seen |-> {work}]
ViewRead == [kind |-> "view", view |-> view, period |-> period, seen |-> {work}]

\* A mutation keeps the period of the render it was pressed in.  Its refresh
\* records, for the properties only, what it was.
Act(op, s) == [kind |-> "act", op |-> op, session |-> s, period |-> period, stage |-> "sent"]
Refresh(j) == [kind |-> "refresh", op |-> j.op, session |-> j.session, period |-> j.period, seen |-> {work}]
Put(k, b) == [kind |-> "put", key |-> k, value |-> b, stage |-> "sent", seenPrefs |-> {}]

JobType ==
  [kind : {"poll"}, seen : SUBSET [Sessions -> Status]]
  \cup [kind : {"load"}, period : Periods, seen : SUBSET [Sessions -> Status], seenPrefs : SUBSET [Keys -> BOOLEAN]]
  \cup [kind : {"view"}, view : Lists, period : Periods, seen : SUBSET [Sessions -> Status]]
  \cup [kind : {"act"}, op : Ops, session : Sessions, period : Periods,
        stage : {"sent", "done", "refused"}]
  \cup [kind : {"refresh"}, op : Ops, session : Sessions, period : Periods, seen : SUBSET [Sessions -> Status]]
  \cup [kind : {"put"}, key : Keys, value : BOOLEAN, stage : {"sent", "done"}, seenPrefs : SUBSET [Keys -> BOOLEAN]]

\* A new server state is one more that a request in flight may read.
SawWork(js, w) ==
  {IF j.kind \in Reading THEN [j EXCEPT !.seen = @ \cup {w}] ELSE j : j \in js}
SawPrefs(js, r) ==
  {IF j.kind = "load" \/ (j.kind = "put" /\ j.stage = "done")
   THEN [j EXCEPT !.seenPrefs = @ \cup {r}] ELSE j : j \in js}

\* Mutant: the effect has no clean-up.
DisposedNot(js) == js
\* Leaving a view or a period ends its effect: the answers of its requests are
\* dropped, failed or not.
Disposed(js) == {j \in js : j.kind # "view"}

-----------------------------------------------------------------------------
ListType == [period : Periods \cup {"all"}, sessions : SUBSET Sessions]

TypeOK ==
  /\ work \in [Sessions -> Status] /\ prefs \in [Keys -> BOOLEAN]
  /\ view \in Views /\ period \in Periods /\ loadDue \in BOOLEAN
  /\ appStatus \in {"connecting", "unavailable", "degraded", "ready", "tracking", "paused"}
  /\ \E S \in SUBSET Sessions : timers \in [S -> {"running", "paused"}]
  /\ fetched \in [Lists -> ListType \cup {Unset}]
  /\ \A v \in Lists \ {"insights"} : fetched[v] \in ListType
  /\ settings \in [Keys -> BOOLEAN] \cup {Unset}
  /\ error \in BOOLEAN /\ budget \in 0..MaxBudget
  /\ jobs \subseteq JobType

Init ==
  /\ work \in [Sessions -> {"unborn", "running"}]
  /\ prefs = [k \in Keys |-> TRUE]
  /\ view = "timer" /\ period = "week" /\ loadDue = TRUE
  /\ appStatus = "connecting" /\ timers = <<>>
  /\ fetched = [v \in Lists |-> IF v = "insights" THEN Unset ELSE [period |-> "all", sessions |-> {}]]
  /\ settings = Unset /\ error = FALSE
  /\ jobs = {} /\ budget = MaxBudget

-----------------------------------------------------------------------------
Disturb == budget > 0 /\ budget' = budget - 1
calm == budget = 0
\* The disturbances end before the bound.
BecomeCalm == ~calm /\ budget' = 0 /\ UNCHANGED <<server, shown, screen, jobs>>

(* The server and its other clients. *)

Others(w, r) ==
  /\ Disturb
  /\ work' = w /\ prefs' = r
  /\ jobs' = SawPrefs(SawWork(jobs, w), r)
  /\ UNCHANGED <<shown, screen>>

\* The tray or another tab changes a session or a setting.
OthersWork == \E op \in Ops, s \in Sessions :
  work[s] \in Allowed(op) /\ Others([work EXCEPT ![s] = Becomes(op)], prefs)
OthersPrefs == \E k \in Keys : Others(work, [prefs EXCEPT ![k] = ~@])

\* The server carries out a mutation or refuses it.
HandleAct(j) ==
  /\ j.kind = "act" /\ j.stage = "sent"
  /\ IF work[j.session] \in Allowed(j.op)
     THEN LET w == [work EXCEPT ![j.session] = Becomes(j.op)]
          IN  /\ work' = w
              /\ jobs' = SawWork(jobs \ {j}, w) \cup {[j EXCEPT !.stage = "done"]}
     ELSE work' = work /\ jobs' = (jobs \ {j}) \cup {[j EXCEPT !.stage = "refused"]}
  /\ UNCHANGED <<prefs, shown, screen, budget>>

\* Mutant: the answer is read before the update.
HandlePutReadFirst(j) ==
  /\ j.kind = "put" /\ j.stage = "sent"
  /\ prefs' = [prefs EXCEPT ![j.key] = j.value]
  /\ jobs' = SawPrefs(jobs \ {j}, prefs') \cup {[j EXCEPT !.stage = "done", !.seenPrefs = {prefs}]}
  /\ UNCHANGED <<work, shown, screen, budget>>
\* The settings row is updated, and read again for the answer at some instant
\* after the commit.
HandlePut(j) ==
  /\ j.kind = "put" /\ j.stage = "sent"
  /\ LET r == [prefs EXCEPT ![j.key] = j.value]
     IN  /\ prefs' = r
         /\ jobs' = SawPrefs(jobs \ {j}, r) \cup {[j EXCEPT !.stage = "done", !.seenPrefs = {r}]}
  /\ UNCHANGED <<work, shown, screen, budget>>

-----------------------------------------------------------------------------
(* Answers.  Every part is read at an instant of its own. *)

\* GET /status answers "degraded" while the database does not.
ReadStatus(j) == {StatusOf(w) : w \in j.seen} \cup (IF calm THEN {} ELSE {"degraded"})
ShowWork(j) == \E w \in j.seen : appStatus' \in ReadStatus(j) /\ timers' = TimersOf(w)
ShowLists(j) == \E at \in [Lists -> j.seen] : fetched' = [v \in Lists |-> ListOf(v, j.period, at[v])]
\* Mutants: the timers of the last answer stay; so does the status.
ShowUnavailableOnly == appStatus' = "unavailable" /\ timers' = timers /\ error' = TRUE
ShowErrorOnly == error' = TRUE /\ UNCHANGED <<appStatus, timers>>
ShowUnavailable == appStatus' = "unavailable" /\ timers' = <<>> /\ error' = TRUE

Done(j) == jobs' = jobs \ {j} /\ UNCHANGED <<server, screen>>

PollAnswered(j) ==
  /\ j.kind = "poll" /\ ShowWork(j) /\ error' = FALSE
  /\ Done(j) /\ UNCHANGED <<fetched, settings, budget>>
PollFailed(j) == j.kind = "poll" /\ Disturb /\ ShowUnavailable /\ Done(j) /\ UNCHANGED <<fetched, settings>>

LoadAnswered(j) ==
  /\ j.kind = "load" /\ ShowWork(j) /\ ShowLists(j) /\ settings' \in j.seenPrefs /\ error' = FALSE
  /\ Done(j) /\ UNCHANGED budget
LoadFailed(j) == j.kind = "load" /\ Disturb /\ ShowUnavailable /\ Done(j) /\ UNCHANGED <<fetched, settings>>

ViewAnswered(j) ==
  /\ j.kind = "view"
  /\ \E w \in j.seen : fetched' = [fetched EXCEPT ![j.view] = ListOf(j.view, j.period, w)]
  /\ Done(j) /\ UNCHANGED <<appStatus, timers, settings, error, budget>>

\* Mutant: the refresh does not await the mutation.
ActAnsweredEarly(j) ==
  /\ j.kind = "act" /\ j.stage = "sent"
  /\ jobs' = jobs \cup {Refresh(j)}
  /\ UNCHANGED <<server, shown, screen, budget>>
\* A mutation that has been carried out is followed by a refresh; it awaits the
\* answer before it asks.
ActAnswered(j) ==
  /\ j.kind = "act" /\ j.stage = "done"
  /\ jobs' = (jobs \ {j}) \cup {Refresh(j)}
  /\ UNCHANGED <<server, shown, screen, budget>>
RefreshAnswered(j) ==
  /\ j.kind = "refresh" /\ ShowWork(j) /\ ShowLists(j) /\ error' = FALSE
  /\ Done(j) /\ UNCHANGED <<settings, budget>>
PutAnswered(j) ==
  /\ j.kind = "put" /\ j.stage = "done" /\ settings' \in j.seenPrefs /\ error' = FALSE
  /\ Done(j) /\ UNCHANGED <<appStatus, timers, fetched, budget>>

\* A refused mutation, and a mutation, refresh, setting or view whose request
\* fails, before its effect or after it, only leave a message.
OnlyMessage(j) ==
  /\ \/ j.kind = "act" /\ j.stage = "refused" /\ UNCHANGED budget
     \/ j.kind \in {"act", "refresh", "put", "view"} /\ Disturb
  /\ error' = TRUE /\ Done(j) /\ UNCHANGED <<appStatus, timers, fetched, settings>>

-----------------------------------------------------------------------------
(* Timers of the browser. *)

Ask(j) == jobs' = jobs \cup {j} /\ UNCHANGED <<server, shown>>

\* Mutant: only the timer view polls.
AskPollOnTimerView == /\ view = "timer" /\ Cardinality(InFlight("poll")) < MaxPolls
                      /\ Ask(Poll) /\ UNCHANGED <<screen, budget>>
\* Every second, whatever is still in flight.
AskPoll == Cardinality(InFlight("poll")) < MaxPolls /\ Ask(Poll) /\ UNCHANGED <<screen, budget>>
\* On entering a view or a period, and every five seconds.
\* One at a time is in flight (a bound: the interval is longer than a request).
AskView == /\ view \in Lists /\ InFlight("view") = {}
           /\ Ask(ViewRead) /\ UNCHANGED <<screen, budget>>
\* The timeout of the effect that loads everything for a period.
AskLoad == loadDue /\ Ask(Load) /\ loadDue' = FALSE /\ UNCHANGED <<view, period, budget>>

-----------------------------------------------------------------------------
(* The user. *)

Booted == settings # Unset

\* The labels of the sidebar and the settings that say so.
NoEngine == appStatus \in {"connecting", "unavailable"}

\* The only control of the start screen.
Retry == ~Booted /\ appStatus # "connecting" /\ Disturb /\ Ask(Load) /\ UNCHANGED screen

SwitchView(v) ==
  /\ Booted /\ v # view /\ Disturb
  /\ view' = v /\ jobs' = Disposed(jobs)
  /\ UNCHANGED <<server, shown, period, loadDue>>

\* A new period restarts two effects: the one that loads everything and the one
\* that refreshes the view.
ChoosePeriod(p) ==
  /\ view = "insights" /\ fetched[view] # Unset /\ p # period /\ Disturb
  /\ period' = p /\ loadDue' = TRUE /\ jobs' = Disposed(jobs)
  /\ UNCHANGED <<server, shown, view>>

\* The requests the screen offers: the sidebar pauses and resumes in every view,
\* as do the cards of the timer view, which also stop; a form starts a session
\* there and the rows of the history delete theirs.
TimerButton(s) == IF timers[s] = "paused" THEN "resume" ELSE "pause"
SidebarOffers == {<<TimerButton(s), s>> : s \in DOMAIN timers}
CardOffers == IF view = "timer" THEN SidebarOffers \cup {"stop"} \X DOMAIN timers ELSE {}
FormOffers == IF view = "timer" THEN {"start"} \X {s \in Sessions : work[s] = "unborn"} ELSE {}
RowOffers == IF view = "history" THEN {"delete"} \X fetched[view].sessions ELSE {}
Offers == SidebarOffers \cup CardOffers \cup FormOffers \cup RowOffers

Press(op, s) == Booted /\ <<op, s>> \in Offers /\ Disturb /\ Ask(Act(op, s)) /\ UNCHANGED screen

\* A switch, a number field at every keystroke and a choice send a value other
\* than the one on screen.
ChangeSetting(k) == Booted /\ view = "settings" /\ Disturb /\ Ask(Put(k, ~settings[k])) /\ UNCHANGED screen

DismissError == /\ Booted /\ error /\ Disturb /\ error' = FALSE
                /\ UNCHANGED <<server, screen, jobs, appStatus, timers, fetched, settings>>

-----------------------------------------------------------------------------
Answer(j) == \/ PollAnswered(j) \/ PollFailed(j) \/ LoadAnswered(j) \/ LoadFailed(j) \/ ViewAnswered(j)
             \/ ActAnswered(j) \/ RefreshAnswered(j) \/ PutAnswered(j) \/ OnlyMessage(j)

Next ==
  \/ OthersWork \/ OthersPrefs
  \/ \E j \in jobs : HandleAct(j) \/ HandlePut(j) \/ Answer(j)
  \/ AskPoll \/ AskView \/ AskLoad \/ Retry
  \/ \E v \in Views : SwitchView(v)
  \/ \E p \in Periods : ChoosePeriod(p)
  \/ \E op \in Ops, s \in Sessions : Press(op, s)
  \/ \E k \in Keys : ChangeSetting(k)
  \/ DismissError \/ BecomeCalm

\* Browser timers fire, one poll and one view request after another is answered,
\* and of the other requests, which are finitely many, one after another gets on.
\* Nothing is assumed of the user.
Fairness ==
  /\ WF_vars(AskPoll) /\ WF_vars(AskView) /\ WF_vars(AskLoad)
  /\ WF_vars(\E j \in InFlight("poll") : PollAnswered(j))
  /\ WF_vars(\E j \in InFlight("view") : ViewAnswered(j))
  /\ WF_vars(\E j \in jobs : \/ HandleAct(j) \/ HandlePut(j) \/ ActAnswered(j)
                             \/ LoadAnswered(j) \/ RefreshAnswered(j) \/ PutAnswered(j))

Spec == Init /\ [][Next]_vars
FairSpec == Spec /\ Fairness

-----------------------------------------------------------------------------
(* Safety. *)

\* A screen that says the engine is connecting or unavailable shows no timers:
\* whichever of the overlapping requests spoke last set both.
UnavailableShowsNoTimers == NoEngine => DOMAIN timers = {}

\* The start screen never waits for nothing: a load is still to come or in
\* flight, or the screen offers to retry.
StartScreenHasAWayOut ==
  ~Booted => loadDue \/ InFlight("load") # {} \/ appStatus # "connecting"

RefreshedAreOff ==
  \A j \in jobs : j.kind = "refresh" /\ j.op \in {"stop", "delete"} /\ RefreshAnswered(j)
                  => j.session \notin DOMAIN timers'

\* When the refresh that follows a stop or a deletion is applied, the timer it
\* ended is off the screen, whatever else was in flight.
EndedTimerLeaves == [][RefreshedAreOff]_vars

PeriodStays ==
  /\ view = "insights" /\ UNCHANGED screen
  /\ fetched[view] # Unset /\ fetched[view].period = period /\ fetched'[view].period # period
  => \E j \in jobs : j.kind \in {"load", "refresh"} /\ j.period # period

\* While Insights stays open on one period, figures of that period are replaced
\* by those of another only by a load or a refresh that was asked under the other
\* period: the refresh of the view itself never does it.
PeriodKept == [][PeriodStays]_vars

-----------------------------------------------------------------------------
(* Liveness, once others, the user and failures have stopped. *)

\* Polling brings the timers and the engine status on screen to what the server
\* has, whatever answers were applied out of order before, and leaves them there.
TimersCatchUp == <>[](calm => timers = TimersOf(work) /\ appStatus = StatusOf(work))

\* So does the refresh of the visible view for its list, in the period selected.
VisibleListCatchesUp == <>[](calm /\ view \in Lists => fetched[view] = ListOf(view, period, work))

\* A setting changed while no other request for the settings is in flight ends
\* up on screen as the server stored it.  Settings are not polled: two requests
\* in flight may leave the older answer on screen for good.
LoneChange == /\ Booted /\ ~loadDue /\ InFlight("load") = {} /\ \E j \in jobs : InFlight("put") = {j} /\ j.stage = "sent"
SettingsSettle == calm /\ LoneChange ~> [](settings = prefs)

=============================================================================
