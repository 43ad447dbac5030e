---------------------------- MODULE WebClientProofs ----------------------------
(* Proofs about WebClient, for any sessions, settings and periods, and for   *)
(* any number of requests in flight and of disturbances.                     *)
EXTENDS WebClient, TLAPS

USE ListsAssumption, PeriodsAssumption, BoundsAssumption

-----------------------------------------------------------------------------
(* Requests in flight. *)

\* The fields a request has by its kind.
LEMMA JobFields ==
  ASSUME NEW j \in JobType
  PROVE  /\ j.kind \in {"poll", "load", "view", "act", "refresh", "put"}
         /\ j.kind \in Reading => j.seen \in SUBSET [Sessions -> Status]
         /\ j.kind \in {"load", "refresh", "view", "act"} => j.period \in Periods
         /\ j.kind \in {"load", "put"} => j.seenPrefs \in SUBSET [Keys -> BOOLEAN]
         /\ j.kind = "view" => j.view \in Lists
         /\ j.kind \in {"act", "refresh"} => j.op \in Ops /\ j.session \in Sessions
         /\ j.kind = "put" => j.key \in Keys /\ j.value \in BOOLEAN
BY DEF JobType, Reading

\* The requests that the client sends.
LEMMA NewJobTypes ==
  ASSUME work \in [Sessions -> Status], prefs \in [Keys -> BOOLEAN], period \in Periods
  PROVE  /\ Poll \in JobType /\ Load \in JobType /\ Load.kind = "load"
         /\ view \in Lists => ViewRead \in JobType
         /\ \A op \in Ops, s \in Sessions : Act(op, s) \in JobType
         /\ \A k \in Keys, b \in BOOLEAN : Put(k, b) \in JobType
         /\ \A j \in JobType : j.kind = "act" => Refresh(j) \in JobType
<1>1. Poll \in JobType BY DEF Poll, JobType
<1>2. Load \in JobType /\ Load.kind = "load" BY DEF Load, JobType
<1>3. view \in Lists => ViewRead \in JobType BY DEF ViewRead, JobType
<1>4. \A op \in Ops, s \in Sessions : Act(op, s) \in JobType BY DEF Act, JobType
<1>5. \A k \in Keys, b \in BOOLEAN : Put(k, b) \in JobType BY DEF Put, JobType
<1>6. \A j \in JobType : j.kind = "act" => Refresh(j) \in JobType
  BY JobFields DEF Refresh, JobType
<1> QED BY <1>1, <1>2, <1>3, <1>4, <1>5, <1>6

\* What a request in flight becomes when the server has a new state.
LEMMA SawWorkFacts ==
  ASSUME NEW js \in SUBSET JobType, NEW w \in [Sessions -> Status]
  PROVE  /\ SawWork(js, w) \subseteq JobType
         /\ \A k \in SawWork(js, w) : \E j \in js :
              /\ k.kind = j.kind
              /\ k = j \/ (j.kind \in Reading /\ k = [j EXCEPT !.seen = @ \cup {w}])
         /\ \A j \in js : \E k \in SawWork(js, w) : k.kind = j.kind
<1>1. ASSUME NEW j \in JobType, j.kind \in Reading
      PROVE  [j EXCEPT !.seen = @ \cup {w}] \in JobType /\ [j EXCEPT !.seen = @ \cup {w}].kind = j.kind
  <2> DEFINE k == [j EXCEPT !.seen = @ \cup {w}]
  <2>1. j.seen \cup {w} \in SUBSET [Sessions -> Status] BY JobFields, <1>1
  <2>2. CASE j \in [kind : {"poll"}, seen : SUBSET [Sessions -> Status]]
    BY <2>1, <2>2 DEF JobType
  <2>3. CASE j \in [kind : {"load"}, period : Periods, seen : SUBSET [Sessions -> Status], seenPrefs : SUBSET [Keys -> BOOLEAN]]
    BY <2>1, <2>3 DEF JobType
  <2>4. CASE j \in [kind : {"view"}, view : Lists, period : Periods, seen : SUBSET [Sessions -> Status]]
    BY <2>1, <2>4 DEF JobType
  <2>5. CASE j \in [kind : {"refresh"}, op : Ops, session : Sessions, period : Periods, seen : SUBSET [Sessions -> Status]]
    BY <2>1, <2>5 DEF JobType
  <2> QED BY <1>1, <2>2, <2>3, <2>4, <2>5 DEF JobType, Reading
<1>2. \A k \in SawWork(js, w) : \E j \in js :
        /\ k.kind = j.kind /\ k \in JobType
        /\ k = j \/ (j.kind \in Reading /\ k = [j EXCEPT !.seen = @ \cup {w}])
  BY <1>1 DEF SawWork
<1>3. \A j \in js : \E k \in SawWork(js, w) : k.kind = j.kind
  <2> TAKE j \in js
  <2> DEFINE k == IF j.kind \in Reading THEN [j EXCEPT !.seen = @ \cup {w}] ELSE j
  <2>1. k \in SawWork(js, w) BY DEF SawWork
  <2>2. k.kind = j.kind BY <1>1
  <2> QED BY <2>1, <2>2
<1> QED BY <1>2, <1>3

LEMMA SawPrefsFacts ==
  ASSUME NEW js \in SUBSET JobType, NEW r \in [Keys -> BOOLEAN]
  PROVE  /\ SawPrefs(js, r) \subseteq JobType
         /\ \A k \in SawPrefs(js, r) : \E j \in js :
              k.kind = j.kind /\ (k = j \/ j.kind \in {"load", "put"})
         /\ \A j \in js : \E k \in SawPrefs(js, r) : k.kind = j.kind
<1>1. ASSUME NEW j \in JobType, j.kind \in {"load", "put"}
      PROVE  [j EXCEPT !.seenPrefs = @ \cup {r}] \in JobType /\ [j EXCEPT !.seenPrefs = @ \cup {r}].kind = j.kind
  <2>1. j.seenPrefs \cup {r} \in SUBSET [Keys -> BOOLEAN] BY JobFields, <1>1
  <2>2. CASE j \in [kind : {"load"}, period : Periods, seen : SUBSET [Sessions -> Status], seenPrefs : SUBSET [Keys -> BOOLEAN]]
    BY <2>1, <2>2 DEF JobType
  <2>3. CASE j \in [kind : {"put"}, key : Keys, value : BOOLEAN, stage : {"sent", "done"}, seenPrefs : SUBSET [Keys -> BOOLEAN]]
    BY <2>1, <2>3 DEF JobType
  <2> QED BY <1>1, <2>2, <2>3 DEF JobType
<1>2. \A k \in SawPrefs(js, r) : \E j \in js :
        /\ k.kind = j.kind /\ k \in JobType
        /\ k = j \/ j.kind \in {"load", "put"}
  BY <1>1 DEF SawPrefs
<1>3. \A j \in js : \E k \in SawPrefs(js, r) : k.kind = j.kind
  <2> TAKE j \in js
  <2> DEFINE k == IF j.kind = "load" \/ (j.kind = "put" /\ j.stage = "done")
                  THEN [j EXCEPT !.seenPrefs = @ \cup {r}] ELSE j
  <2>1. k \in SawPrefs(js, r) BY DEF SawPrefs
  <2>2. k.kind = j.kind BY <1>1
  <2> QED BY <2>1, <2>2
<1> QED BY <1>2, <1>3

\* A mutation and a change of a setting that the server has dealt with.
LEMMA HandledTypes ==
  ASSUME NEW j \in JobType
  PROVE  /\ \A stage \in {"done", "refused"} : j.kind = "act" =>
              LET k == [j EXCEPT !.stage = stage]
              IN  /\ k \in JobType /\ k.kind = "act" /\ k.stage = stage
                  /\ k.op = j.op /\ k.session = j.session
         /\ \A r \in [Keys -> BOOLEAN] : j.kind = "put" =>
              LET k == [j EXCEPT !.stage = "done", !.seenPrefs = {r}] IN k \in JobType /\ k.kind = "put"
<1>1. ASSUME NEW stage \in {"done", "refused"}, j.kind = "act"
      PROVE  LET k == [j EXCEPT !.stage = stage]
             IN  /\ k \in JobType /\ k.kind = "act" /\ k.stage = stage
                 /\ k.op = j.op /\ k.session = j.session
  <2>1. j \in [kind : {"act"}, op : Ops, session : Sessions, period : Periods, stage : {"sent", "done", "refused"}]
    BY <1>1 DEF JobType
  <2> QED BY <2>1 DEF JobType
<1>2. ASSUME NEW r \in [Keys -> BOOLEAN], j.kind = "put"
      PROVE  LET k == [j EXCEPT !.stage = "done", !.seenPrefs = {r}] IN k \in JobType /\ k.kind = "put"
  <2>1. j \in [kind : {"put"}, key : Keys, value : BOOLEAN, stage : {"sent", "done"}, seenPrefs : SUBSET [Keys -> BOOLEAN]]
    BY <1>2 DEF JobType
  <2> QED BY <2>1 DEF JobType
<1> QED BY <1>1, <1>2

-----------------------------------------------------------------------------
(* What is answered and shown. *)

LEMMA StatusTypes == \A w : StatusOf(w) \in {"tracking", "paused", "ready"}
BY DEF StatusOf

LEMMA TimersTypes ==
  ASSUME NEW w \in [Sessions -> Status]
  PROVE  TimersOf(w) \in [ActiveIn(w) -> {"running", "paused"}] /\ ActiveIn(w) \in SUBSET Sessions
BY DEF TimersOf, ActiveIn

LEMMA ListTypes ==
  ASSUME NEW w, NEW v, NEW p \in Periods PROVE ListOf(v, p, w) \in ListType
BY DEF ListOf, ListType

\* A mutation changes a status to one that is a status.
LEMMA BecomesTypes == \A op \in Ops : Becomes(op) \in Status
BY DEF Ops, Becomes, Status

-----------------------------------------------------------------------------
(* Types. *)

ServerOK == work \in [Sessions -> Status] /\ prefs \in [Keys -> BOOLEAN]
ScreenOK == view \in Views /\ period \in Periods /\ loadDue \in BOOLEAN
WorkShownOK ==
  /\ appStatus \in {"connecting", "unavailable", "degraded", "ready", "tracking", "paused"}
  /\ \E S \in SUBSET Sessions : timers \in [S -> {"running", "paused"}]
ListsShownOK ==
  /\ fetched \in [Lists -> ListType \cup {Unset}]
  /\ \A v \in Lists \ {"insights"} : fetched[v] \in ListType
RestShownOK == settings \in [Keys -> BOOLEAN] \cup {Unset} /\ error \in BOOLEAN
BudgetOK == budget \in 0..MaxBudget

LEMMA TypeParts ==
  TypeOK <=> /\ ServerOK /\ ScreenOK /\ WorkShownOK /\ ListsShownOK /\ RestShownOK
             /\ BudgetOK /\ jobs \subseteq JobType
BY DEF TypeOK, ServerOK, ScreenOK, WorkShownOK, ListsShownOK, RestShownOK, BudgetOK

LEMMA TypePartsNext ==
  /\ ServerOK' /\ ScreenOK' /\ WorkShownOK' /\ ListsShownOK' /\ RestShownOK'
  /\ BudgetOK' /\ jobs' \subseteq JobType
  => TypeOK'
BY DEF TypeOK, ServerOK, ScreenOK, WorkShownOK, ListsShownOK, RestShownOK, BudgetOK

\* What a step leaves alone keeps its type.
LEMMA KeptTypes ==
  ASSUME TypeOK
  PROVE  /\ UNCHANGED server => ServerOK'
         /\ UNCHANGED screen => ScreenOK'
         /\ UNCHANGED <<appStatus, timers>> => WorkShownOK'
         /\ UNCHANGED fetched => ListsShownOK'
         /\ UNCHANGED settings /\ (UNCHANGED error \/ error' = TRUE \/ error' = FALSE) => RestShownOK'
         /\ UNCHANGED budget \/ Disturb => BudgetOK'
<1> USE TypeParts
<1>1. UNCHANGED server => ServerOK' BY DEF ServerOK, server
<1>2. UNCHANGED screen => ScreenOK' BY DEF ScreenOK, screen
<1>3. UNCHANGED <<appStatus, timers>> => WorkShownOK' BY DEF WorkShownOK
<1>4. UNCHANGED fetched => ListsShownOK' BY DEF ListsShownOK
<1>5. UNCHANGED settings /\ (UNCHANGED error \/ error' = TRUE \/ error' = FALSE) => RestShownOK'
  BY DEF RestShownOK
<1>6. UNCHANGED budget \/ Disturb => BudgetOK' BY DEF BudgetOK, Disturb
<1> QED BY <1>1, <1>2, <1>3, <1>4, <1>5, <1>6

LEMMA InitTypes == Init => TypeOK
<1> SUFFICES ASSUME Init PROVE TypeOK OBVIOUS
<1>1. ServerOK BY DEF Init, ServerOK, Status
<1>2. ScreenOK BY DEF Init, ScreenOK, Views
<1>3. WorkShownOK
  <2>1. timers \in [{} -> {"running", "paused"}] BY DEF Init
  <2> QED BY <2>1 DEF Init, WorkShownOK
<1>4. ListsShownOK
  <2>1. [period |-> "all", sessions |-> {}] \in ListType BY DEF ListType
  <2> QED BY <2>1 DEF Init, ListsShownOK
<1>5. RestShownOK BY DEF Init, RestShownOK
<1>6. BudgetOK /\ jobs \subseteq JobType BY DEF Init, BudgetOK
<1> QED BY <1>1, <1>2, <1>3, <1>4, <1>5, <1>6, TypeParts

\* An answer with the state of the timers shows one that the server had.
LEMMA ShowWorkTypes ==
  ASSUME NEW j \in JobType, j.kind \in Reading, ShowWork(j)
  PROVE  WorkShownOK' /\ appStatus' \in {"tracking", "paused", "ready", "degraded"}
<1>1. PICK w \in j.seen : appStatus' \in ReadStatus(j) /\ timers' = TimersOf(w) BY DEF ShowWork
<1>2. w \in [Sessions -> Status] BY JobFields
<1>3. appStatus' \in {"tracking", "paused", "ready", "degraded"} BY <1>1, StatusTypes DEF ReadStatus
<1>4. \E S \in SUBSET Sessions : timers' \in [S -> {"running", "paused"}] BY <1>1, <1>2, TimersTypes
<1> QED BY <1>3, <1>4 DEF WorkShownOK

LEMMA ShowListsTypes ==
  ASSUME NEW j \in JobType, j.kind \in {"load", "refresh"}, ShowLists(j)
  PROVE  ListsShownOK'
<1>1. j.period \in Periods BY JobFields
<1>2. PICK at \in [Lists -> j.seen] : fetched' = [v \in Lists |-> ListOf(v, j.period, at[v])] BY DEF ShowLists
<1>3. \A v \in Lists : ListOf(v, j.period, at[v]) \in ListType BY <1>1, ListTypes
<1> QED BY <1>2, <1>3 DEF ListsShownOK

LEMMA ShowUnavailableTypes == ShowUnavailable => WorkShownOK' /\ error' \in BOOLEAN
<1>1. ShowUnavailable => timers' \in [{} -> {"running", "paused"}] BY DEF ShowUnavailable
<1> QED BY <1>1 DEF ShowUnavailable, WorkShownOK

\* Answers keep the types of what is shown, and of the requests left.
LEMMA AnswerTypes ==
  ASSUME TypeOK, NEW j \in jobs, Answer(j) PROVE TypeOK'
<1>0. j \in JobType /\ jobs \subseteq JobType BY TypeParts
<1> USE DEF Done
<1>1. CASE PollAnswered(j)
  <2>1. WorkShownOK' BY <1>0, <1>1, ShowWorkTypes DEF PollAnswered, Reading
  <2> QED BY <1>0, <1>1, <2>1, KeptTypes, TypePartsNext DEF PollAnswered
<1>2. CASE PollFailed(j)
  <2>1. WorkShownOK' BY <1>2, ShowUnavailableTypes DEF PollFailed
  <2> QED BY <1>0, <1>2, <2>1, KeptTypes, TypePartsNext DEF PollFailed, ShowUnavailable
<1>3. CASE LoadAnswered(j)
  <2>1. WorkShownOK' /\ ListsShownOK'
    BY <1>0, <1>3, ShowWorkTypes, ShowListsTypes DEF LoadAnswered, Reading
  <2>2. RestShownOK' BY <1>0, <1>3, JobFields DEF LoadAnswered, RestShownOK
  <2> QED BY <1>0, <1>3, <2>1, <2>2, KeptTypes, TypePartsNext DEF LoadAnswered
<1>4. CASE LoadFailed(j)
  <2>1. WorkShownOK' BY <1>4, ShowUnavailableTypes DEF LoadFailed
  <2> QED BY <1>0, <1>4, <2>1, KeptTypes, TypePartsNext DEF LoadFailed, ShowUnavailable
<1>5. CASE ViewAnswered(j)
  <2>1. PICK w \in j.seen : fetched' = [fetched EXCEPT ![j.view] = ListOf(j.view, j.period, w)]
    BY <1>5 DEF ViewAnswered
  <2>2. j.view \in Lists /\ ListOf(j.view, j.period, w) \in ListType
    BY <1>0, <1>5, JobFields, ListTypes DEF ViewAnswered
  <2>3. ListsShownOK' BY <2>1, <2>2, TypeParts DEF ListsShownOK
  <2> QED BY <1>0, <1>5, <2>3, KeptTypes, TypePartsNext DEF ViewAnswered
<1>6. CASE ActAnswered(j)
  <2>1. Refresh(j) \in JobType BY <1>0, <1>6, NewJobTypes DEF ActAnswered, TypeOK
  <2> QED BY <1>0, <1>6, <2>1, KeptTypes, TypePartsNext DEF ActAnswered, shown
<1>7. CASE RefreshAnswered(j)
  <2>1. WorkShownOK' /\ ListsShownOK'
    BY <1>0, <1>7, ShowWorkTypes, ShowListsTypes DEF RefreshAnswered, Reading
  <2> QED BY <1>0, <1>7, <2>1, KeptTypes, TypePartsNext DEF RefreshAnswered
<1>8. CASE PutAnswered(j)
  <2>1. RestShownOK' BY <1>0, <1>8, JobFields DEF PutAnswered, RestShownOK
  <2> QED BY <1>0, <1>8, <2>1, KeptTypes, TypePartsNext DEF PutAnswered
<1>9. CASE OnlyMessage(j)
  BY <1>0, <1>9, KeptTypes, TypePartsNext DEF OnlyMessage
<1> QED BY <1>1, <1>2, <1>3, <1>4, <1>5, <1>6, <1>7, <1>8, <1>9 DEF Answer

\* Others change one status or one setting, which requests in flight may see.
LEMMA OthersTypes ==
  ASSUME TypeOK, OthersWork \/ OthersPrefs PROVE TypeOK'
<1>0. jobs \subseteq JobType /\ ServerOK BY TypeParts
<1>1. CASE OthersWork
  <2>1. PICK op \in Ops, s \in Sessions : Others([work EXCEPT ![s] = Becomes(op)], prefs)
    BY <1>1 DEF OthersWork
  <2>2. ServerOK' BY <1>0, <2>1, BecomesTypes DEF Others, ServerOK
  <2>3. SawWork(jobs, work') \subseteq JobType BY <1>0, <2>2, SawWorkFacts DEF ServerOK
  <2>4. jobs' \subseteq JobType BY <2>1, <2>2, <2>3, SawPrefsFacts DEF Others, ServerOK
  <2> QED BY <2>1, <2>2, <2>4, KeptTypes, TypePartsNext DEF Others, shown
<1>2. CASE OthersPrefs
  <2>1. PICK k \in Keys : Others(work, [prefs EXCEPT ![k] = ~@])
    BY <1>2 DEF OthersPrefs
  <2>2. ServerOK' BY <1>0, <2>1 DEF Others, ServerOK
  <2>3. SawWork(jobs, work') \subseteq JobType BY <1>0, <2>2, SawWorkFacts DEF ServerOK
  <2>4. jobs' \subseteq JobType BY <2>1, <2>2, <2>3, SawPrefsFacts DEF Others, ServerOK
  <2> QED BY <2>1, <2>2, <2>4, KeptTypes, TypePartsNext DEF Others, shown
<1> QED BY <1>1, <1>2

LEMMA HandleTypes ==
  ASSUME TypeOK, NEW j \in jobs, HandleAct(j) \/ HandlePut(j) PROVE TypeOK'
<1>0. j \in JobType /\ jobs \subseteq JobType /\ jobs \ {j} \subseteq JobType /\ ServerOK BY TypeParts
<1>1. CASE HandleAct(j)
  <2>1. j.kind = "act" /\ j.op \in Ops BY <1>0, <1>1, JobFields DEF HandleAct
  <2>2. [j EXCEPT !.stage = "done"] \in JobType /\ [j EXCEPT !.stage = "refused"] \in JobType
    BY <1>0, <2>1, HandledTypes
  <2>3. ServerOK' BY <1>0, <1>1, <2>1, BecomesTypes DEF HandleAct, ServerOK
  <2>4. jobs' \subseteq JobType
    <3>1. CASE work[j.session] \in Allowed(j.op)
      <4>1. jobs' = SawWork(jobs \ {j}, work') \cup {[j EXCEPT !.stage = "done"]} BY <1>1, <3>1 DEF HandleAct
      <4> QED BY <1>0, <2>2, <2>3, <4>1, SawWorkFacts DEF ServerOK
    <3>2. CASE work[j.session] \notin Allowed(j.op)
      <4>1. jobs' = (jobs \ {j}) \cup {[j EXCEPT !.stage = "refused"]} BY <1>1, <3>2 DEF HandleAct
      <4> QED BY <1>0, <2>2, <4>1
    <3> QED BY <3>1, <3>2
  <2> QED BY <1>1, <2>3, <2>4, KeptTypes, TypePartsNext DEF HandleAct, shown
<1>2. CASE HandlePut(j)
  <2>1. j.kind = "put" /\ j.value \in BOOLEAN BY <1>0, <1>2, JobFields DEF HandlePut
  <2>2. ServerOK' BY <1>0, <1>2, <2>1 DEF HandlePut, ServerOK
  <2>3. jobs' = SawPrefs(jobs \ {j}, prefs') \cup {[j EXCEPT !.stage = "done", !.seenPrefs = {prefs'}]}
    BY <1>2 DEF HandlePut
  <2>4. prefs' \in [Keys -> BOOLEAN] BY <2>2 DEF ServerOK
  <2>5. [j EXCEPT !.stage = "done", !.seenPrefs = {prefs'}] \in JobType BY <1>0, <2>1, <2>4, HandledTypes
  <2>6. jobs' \subseteq JobType BY <1>0, <2>3, <2>4, <2>5, SawPrefsFacts
  <2> QED BY <1>2, <2>2, <2>6, KeptTypes, TypePartsNext DEF HandlePut, shown
<1> QED BY <1>1, <1>2

\* Requests asked, and what the user does.
LEMMA ClientTypes ==
  ASSUME TypeOK,
         \/ AskPoll \/ AskView \/ AskLoad \/ Retry \/ DismissError \/ BecomeCalm
         \/ \E v \in Views : SwitchView(v)
         \/ \E p \in Periods : ChoosePeriod(p)
         \/ \E op \in Ops, s \in Sessions : Press(op, s)
         \/ \E k \in Keys : ChangeSetting(k)
  PROVE  TypeOK'
<1>0. jobs \subseteq JobType /\ ScreenOK /\ Disposed(jobs) \subseteq JobType
  BY TypeParts DEF Disposed
<1>1. /\ Poll \in JobType /\ Load \in JobType
      /\ view \in Lists => ViewRead \in JobType
      /\ \A op \in Ops, s \in Sessions : Act(op, s) \in JobType
      /\ \A k \in Keys, b \in BOOLEAN : Put(k, b) \in JobType
  BY NewJobTypes DEF TypeOK
<1> USE DEF Ask, shown
<1>2. CASE AskPoll BY <1>0, <1>1, <1>2, KeptTypes, TypePartsNext DEF AskPoll
<1>3. CASE AskView BY <1>0, <1>1, <1>3, KeptTypes, TypePartsNext DEF AskView
<1>4. CASE AskLoad
  <2>1. ScreenOK' BY <1>0, <1>4 DEF AskLoad, ScreenOK
  <2> QED BY <1>0, <1>1, <1>4, <2>1, KeptTypes, TypePartsNext DEF AskLoad
<1>5. CASE Retry BY <1>0, <1>1, <1>5, KeptTypes, TypePartsNext DEF Retry
<1>6. CASE DismissError BY <1>0, <1>6, KeptTypes, TypePartsNext DEF DismissError
<1>7. CASE BecomeCalm
  <2>1. BudgetOK' BY <1>7 DEF BecomeCalm, BudgetOK
  <2> QED BY <1>0, <1>7, <2>1, KeptTypes, TypePartsNext DEF BecomeCalm
<1>8. ASSUME NEW v \in Views, SwitchView(v) PROVE TypeOK'
  <2>1. ScreenOK' BY <1>0, <1>8 DEF SwitchView, ScreenOK
  <2> QED BY <1>0, <1>8, <2>1, KeptTypes, TypePartsNext DEF SwitchView
<1>9. ASSUME NEW p \in Periods, ChoosePeriod(p) PROVE TypeOK'
  <2>1. ScreenOK' BY <1>0, <1>9 DEF ChoosePeriod, ScreenOK
  <2> QED BY <1>0, <1>9, <2>1, KeptTypes, TypePartsNext DEF ChoosePeriod
<1>10. ASSUME NEW op \in Ops, NEW s \in Sessions, Press(op, s) PROVE TypeOK'
  BY <1>0, <1>1, <1>10, KeptTypes, TypePartsNext DEF Press
<1>11. ASSUME NEW k \in Keys, ChangeSetting(k) PROVE TypeOK'
  <2>1. settings \in [Keys -> BOOLEAN] BY <1>11, TypeParts DEF ChangeSetting, Booted, RestShownOK
  <2>2. (~settings[k]) \in BOOLEAN BY <2>1
  <2>3. Put(k, ~settings[k]) \in JobType BY <1>1, <2>2
  <2> QED BY <1>0, <1>11, <2>3, KeptTypes, TypePartsNext DEF ChangeSetting
<1> QED BY <1>2, <1>3, <1>4, <1>5, <1>6, <1>7, <1>8, <1>9, <1>10, <1>11

LEMMA StepTypes == TypeOK /\ [Next]_vars => TypeOK'
<1> SUFFICES ASSUME TypeOK, [Next]_vars PROVE TypeOK' OBVIOUS
<1>1. CASE UNCHANGED vars
  BY <1>1, KeptTypes, TypeParts, TypePartsNext DEF vars, shown, screen
<1>2. CASE Next
  BY <1>2, OthersTypes, HandleTypes, AnswerTypes, ClientTypes DEF Next
<1> QED BY <1>1, <1>2

\* The state of server, screen and requests in flight keeps its types, whatever
\* is answered, fails or is pressed in any order.
THEOREM TypeTheorem == Spec => []TypeOK
BY InitTypes, StepTypes, PTL DEF Spec

-----------------------------------------------------------------------------
(* What the screen says while the engine is away. *)

\* A step changes the engine status and the timers on screen only together: with
\* an answer that the engine gave, or with a failure.
LEMMA ShownTogether ==
  ASSUME TypeOK, [Next]_vars
  PROVE  \/ UNCHANGED <<appStatus, timers>>
         \/ appStatus' \notin {"connecting", "unavailable"}
         \/ appStatus' = "unavailable" /\ timers' = <<>>
<1>1. CASE \E j \in jobs : Answer(j)
  <2>1. PICK j \in jobs : Answer(j) BY <1>1
  <2>2. j \in JobType BY TypeParts
  <2>3. CASE PollAnswered(j) \/ LoadAnswered(j) \/ RefreshAnswered(j)
    <3>1. j.kind \in Reading /\ ShowWork(j) BY <2>3 DEF PollAnswered, LoadAnswered, RefreshAnswered, Reading
    <3> QED BY <2>2, <3>1, ShowWorkTypes
  <2>4. CASE PollFailed(j) \/ LoadFailed(j) BY <2>4 DEF PollFailed, LoadFailed, ShowUnavailable
  <2>5. CASE ViewAnswered(j) \/ ActAnswered(j) \/ PutAnswered(j) \/ OnlyMessage(j)
    BY <2>5 DEF ViewAnswered, ActAnswered, PutAnswered, OnlyMessage, shown
  <2> QED BY <2>1, <2>3, <2>4, <2>5 DEF Answer
<1>2. CASE ~ \E j \in jobs : Answer(j)
  <2> USE DEF shown, Ask
  <2>1. CASE OthersWork \/ OthersPrefs BY <2>1 DEF OthersWork, OthersPrefs, Others
  <2>2. CASE \E j \in jobs : HandleAct(j) \/ HandlePut(j) BY <2>2 DEF HandleAct, HandlePut
  <2>3. CASE AskPoll \/ AskView \/ AskLoad \/ Retry BY <2>3 DEF AskPoll, AskView, AskLoad, Retry
  <2>4. CASE \/ \E v \in Views : SwitchView(v)
             \/ \E p \in Periods : ChoosePeriod(p)
             \/ \E op \in Ops, s \in Sessions : Press(op, s)
             \/ \E k \in Keys : ChangeSetting(k)
    BY <2>4 DEF SwitchView, ChoosePeriod, Press, ChangeSetting
  <2>5. CASE DismissError \/ BecomeCalm BY <2>5 DEF DismissError, BecomeCalm
  <2>6. CASE UNCHANGED vars BY <2>6 DEF vars
  <2> QED BY <1>2, <2>1, <2>2, <2>3, <2>4, <2>5, <2>6 DEF Next
<1> QED BY <1>1, <1>2

LEMMA ShownTogetherInv == TypeOK /\ UnavailableShowsNoTimers /\ [Next]_vars => UnavailableShowsNoTimers'
BY ShownTogether DEF UnavailableShowsNoTimers, NoEngine

\* Whichever of the overlapping requests spoke last, a screen without an engine
\* shows no timers.
THEOREM UnavailableTheorem == Spec => []UnavailableShowsNoTimers
<1>1. Init => UnavailableShowsNoTimers BY DEF Init, UnavailableShowsNoTimers
<1> QED BY <1>1, ShownTogetherInv, TypeTheorem, PTL DEF Spec

-----------------------------------------------------------------------------
(* The start screen. *)

\* A load in flight stays there until it is answered or fails.
LEMMA LoadStays ==
  ASSUME TypeOK, [Next]_vars, NEW l \in jobs, l.kind = "load"
  PROVE  \/ \E k \in jobs' : k.kind = "load"
         \/ LoadAnswered(l) \/ LoadFailed(l)
<1> USE DEF Ask, Done
<1>0. jobs \subseteq JobType /\ ServerOK /\ TypeOK' BY TypeParts, StepTypes
<1>1. CASE OthersWork \/ OthersPrefs
  <2>1. jobs' = SawPrefs(SawWork(jobs, work'), prefs') BY <1>1 DEF OthersWork, OthersPrefs, Others
  <2>2. work' \in [Sessions -> Status] /\ prefs' \in [Keys -> BOOLEAN] BY <1>0 DEF TypeOK
  <2>3. /\ SawWork(jobs, work') \subseteq JobType
        /\ \A i \in jobs : \E k \in SawWork(jobs, work') : k.kind = i.kind
    BY <1>0, <2>2, SawWorkFacts
  <2>4. PICK k \in SawWork(jobs, work') : k.kind = "load" BY <2>3
  <2> QED BY <2>1, <2>2, <2>3, <2>4, SawPrefsFacts
<1>2. ASSUME NEW j \in jobs, HandleAct(j) PROVE \E k \in jobs' : k.kind = "load"
  <2>1. l \in jobs \ {j} /\ jobs \ {j} \subseteq JobType BY <1>0, <1>2 DEF HandleAct
  <2>2. work' \in [Sessions -> Status] BY <1>0 DEF TypeOK
  <2>3. \A i \in jobs \ {j} : \E k \in SawWork(jobs \ {j}, work') : k.kind = i.kind
    BY <2>1, <2>2, SawWorkFacts
  <2>4. PICK k \in SawWork(jobs \ {j}, work') : k.kind = "load" BY <2>1, <2>3
  <2> QED BY <1>2, <2>1, <2>4 DEF HandleAct
<1>3. ASSUME NEW j \in jobs, HandlePut(j) PROVE \E k \in jobs' : k.kind = "load"
  <2>1. l \in jobs \ {j} /\ jobs \ {j} \subseteq JobType BY <1>0, <1>3 DEF HandlePut
  <2>2. prefs' \in [Keys -> BOOLEAN] BY <1>0 DEF TypeOK
  <2>3. PICK k \in SawPrefs(jobs \ {j}, prefs') : k.kind = "load" BY <2>1, <2>2, SawPrefsFacts
  <2> QED BY <1>3, <2>1, <2>3 DEF HandlePut
<1>4. ASSUME NEW j \in jobs, Answer(j)
      PROVE  (\E k \in jobs' : k.kind = "load") \/ LoadAnswered(l) \/ LoadFailed(l)
  <2>1. CASE j = l
    BY <1>4, <2>1 DEF Answer, PollAnswered, PollFailed, ViewAnswered, ActAnswered, RefreshAnswered, PutAnswered, OnlyMessage
  <2>2. CASE j # l
    <3>1. l \in jobs'
      BY <1>4, <2>2 DEF Answer, PollAnswered, PollFailed, LoadAnswered, LoadFailed, ViewAnswered,
                        ActAnswered, RefreshAnswered, PutAnswered, OnlyMessage
    <3> QED BY <3>1
  <2> QED BY <2>1, <2>2
<1>5. CASE AskPoll \/ AskView \/ AskLoad \/ Retry \/ DismissError \/ BecomeCalm
  BY <1>5 DEF AskPoll, AskView, AskLoad, Retry, DismissError, BecomeCalm
<1>6. CASE (\E v \in Views : SwitchView(v)) \/ (\E p \in Periods : ChoosePeriod(p))
  BY <1>6 DEF SwitchView, ChoosePeriod, Disposed
<1>7. CASE (\E op \in Ops, s \in Sessions : Press(op, s)) \/ (\E k \in Keys : ChangeSetting(k))
  BY <1>7 DEF Press, ChangeSetting
<1>8. CASE UNCHANGED vars BY <1>8 DEF vars
<1> QED BY <1>1, <1>2, <1>3, <1>4, <1>5, <1>6, <1>7, <1>8 DEF Next

LEMMA WayOutStep ==
  ASSUME TypeOK, StartScreenHasAWayOut, [Next]_vars PROVE StartScreenHasAWayOut'
<1> SUFFICES ASSUME ~Booted', appStatus' = "connecting" PROVE loadDue' \/ InFlight("load")' # {}
  BY DEF StartScreenHasAWayOut
<1>1. UNCHANGED <<appStatus, timers>> BY ShownTogether
<1>2. ~Booted
  <2> SUFFICES ASSUME Booted PROVE FALSE OBVIOUS
  <2>1. settings' = Unset /\ settings # Unset BY DEF Booted
  <2>2. PICK j \in jobs : LoadAnswered(j) \/ PutAnswered(j)
    BY <2>1 DEF Next, vars, OthersWork, OthersPrefs, Others, HandleAct, HandlePut, Answer, PollAnswered,
                PollFailed, LoadFailed, ViewAnswered, ActAnswered, RefreshAnswered, OnlyMessage, AskPoll,
                AskView, AskLoad, Retry, SwitchView, ChoosePeriod, Press, ChangeSetting, DismissError,
                BecomeCalm, Ask, shown
  <2>3. settings' \in j.seenPrefs /\ j.kind \in {"load", "put"} BY <2>2 DEF LoadAnswered, PutAnswered
  <2>4. settings' \in [Keys -> BOOLEAN] BY <2>3, TypeParts, JobFields
  <2> QED BY <2>1, <2>4, UnsetAssumption
<1>3. loadDue \/ InFlight("load") # {} BY <1>1, <1>2 DEF StartScreenHasAWayOut
<1>4. CASE InFlight("load") # {}
  <2>1. PICK l \in jobs : l.kind = "load" BY <1>4 DEF InFlight
  <2>2. CASE LoadAnswered(l)
    <3>1. appStatus' \in {"tracking", "paused", "ready", "degraded"}
      BY <2>2, TypeParts, ShowWorkTypes DEF LoadAnswered, Reading
    <3> QED BY <3>1
  <2>3. CASE LoadFailed(l) BY <2>3 DEF LoadFailed, ShowUnavailable
  <2>4. CASE \E k \in jobs' : k.kind = "load" BY <2>4 DEF InFlight
  <2> QED BY <2>1, <2>2, <2>3, <2>4, LoadStays
<1>5. CASE loadDue
  <2>1. CASE AskLoad
    <3>1. Load \in jobs' /\ Load.kind = "load" BY <2>1 DEF AskLoad, Ask, Load
    <3> QED BY <3>1 DEF InFlight
  <2>2. CASE ~AskLoad
    <3>1. loadDue'
      BY <1>5, <2>2 DEF Next, vars, OthersWork, OthersPrefs, Others, HandleAct, HandlePut, Answer, PollAnswered,
                PollFailed, LoadAnswered, LoadFailed, ViewAnswered, ActAnswered, RefreshAnswered, PutAnswered,
                OnlyMessage, AskPoll, AskView, Retry, SwitchView, ChoosePeriod, Press, ChangeSetting,
                DismissError, BecomeCalm, Ask, Done, screen
    <3> QED BY <3>1
  <2> QED BY <2>1, <2>2
<1> QED BY <1>3, <1>4, <1>5

\* The start screen never waits for nothing.
THEOREM WayOutTheorem == Spec => []StartScreenHasAWayOut
<1>1. Init => StartScreenHasAWayOut BY DEF Init, StartScreenHasAWayOut
<1>2. TypeOK /\ StartScreenHasAWayOut /\ [Next]_vars => StartScreenHasAWayOut' BY WayOutStep
<1> QED BY <1>1, <1>2, TypeTheorem, PTL DEF Spec

-----------------------------------------------------------------------------
(* A timer that was ended leaves the screen. *)

Ending == {"stop", "delete"}
Over(w, s) == w[s] \in {"stopped", "gone"}

\* What makes it so: a session stays over; a mutation that has been carried out
\* has ended its session, and its refresh, which is asked after that, reads no
\* state from before.
EndingsAreOver ==
  \A j \in jobs : j.kind \in {"act", "refresh"} /\ j.op \in Ending =>
    /\ j.kind = "act" /\ j.stage = "done" => Over(work, j.session)
    /\ j.kind = "refresh" => Over(work, j.session) /\ \A w \in j.seen : Over(w, j.session)

\* No request brings back a session that is over.
LEMMA OverStays ==
  ASSUME TypeOK, [Next]_vars, NEW s \in Sessions, Over(work, s) PROVE Over(work', s)
<1>0. ServerOK BY TypeParts
<1>1. ASSUME NEW op \in Ops, NEW t \in Sessions, work[t] \in Allowed(op),
             work' = [work EXCEPT ![t] = Becomes(op)]
      PROVE  Over(work', s)
  <2>1. CASE t = s
    <3>1. op = "delete" BY <1>1, <2>1 DEF Over, Allowed, Ops
    <3>2. work'[s] = "gone" BY <1>0, <1>1, <2>1, <3>1 DEF Becomes, ServerOK
    <3> QED BY <3>2 DEF Over
  <2>2. CASE t # s BY <1>0, <1>1, <2>2 DEF Over, ServerOK
  <2> QED BY <2>1, <2>2
<1>2. CASE OthersWork BY <1>1, <1>2 DEF OthersWork, Others
<1>3. ASSUME NEW j \in jobs, HandleAct(j) PROVE Over(work', s)
  <2>1. j.op \in Ops /\ j.session \in Sessions BY <1>3, TypeParts, JobFields DEF HandleAct
  <2> QED BY <1>1, <1>3, <2>1 DEF HandleAct
<1>4. CASE UNCHANGED work BY <1>4 DEF Over
<1> QED BY <1>2, <1>3, <1>4 DEF Next, vars, server, OthersPrefs, Others, HandlePut, Answer, PollAnswered,
      PollFailed, LoadAnswered, LoadFailed, ViewAnswered, ActAnswered, RefreshAnswered, PutAnswered,
      OnlyMessage, AskPoll, AskView, AskLoad, Retry, SwitchView, ChoosePeriod, Press, ChangeSetting,
      DismissError, BecomeCalm, Ask, Done

\* A refresh in flight sees one state more.
LEMMA SawRefresh ==
  ASSUME NEW js \in SUBSET JobType, NEW w \in [Sessions -> Status],
         NEW k \in SawWork(js, w), k.kind \in {"act", "refresh"}
  PROVE  \/ k \in js
         \/ /\ k.kind = "refresh"
            /\ \E j \in js : /\ j.kind = "refresh" /\ k.op = j.op /\ k.session = j.session
                             /\ k.seen = j.seen \cup {w}
<1>1. PICK j \in js : k = IF j.kind \in Reading THEN [j EXCEPT !.seen = @ \cup {w}] ELSE j
  BY DEF SawWork
<1>2. CASE j.kind \in Reading
  <2>0. k = [j EXCEPT !.seen = @ \cup {w}] BY <1>1, <1>2
  <2>1. CASE j.kind = "refresh"
    <3>1. j \in [kind : {"refresh"}, op : Ops, session : Sessions, period : Periods, seen : SUBSET [Sessions -> Status]]
      BY <2>1 DEF JobType
    <3>2. k.kind = "refresh" /\ k.op = j.op /\ k.session = j.session /\ k.seen = j.seen \cup {w} BY <2>0, <3>1
    <3> QED BY <2>1, <3>2
  <2>2. CASE j.kind \in {"poll", "load", "view"}
    <3>1. k.kind = j.kind
      <4>1. CASE j \in [kind : {"poll"}, seen : SUBSET [Sessions -> Status]] BY <2>0, <4>1
      <4>2. CASE j \in [kind : {"load"}, period : Periods, seen : SUBSET [Sessions -> Status], seenPrefs : SUBSET [Keys -> BOOLEAN]]
        BY <2>0, <4>2
      <4>3. CASE j \in [kind : {"view"}, view : Lists, period : Periods, seen : SUBSET [Sessions -> Status]]
        BY <2>0, <4>3
      <4> QED BY <2>2, <4>1, <4>2, <4>3 DEF JobType
    <3> QED BY <2>2, <3>1
  <2> QED BY <1>2, <2>1, <2>2 DEF Reading
<1>3. CASE j.kind \notin Reading BY <1>1, <1>3
<1> QED BY <1>2, <1>3

\* Where the mutations and refreshes in flight come from.
LEMMA Origins ==
  ASSUME TypeOK, [Next]_vars, NEW k \in jobs', k.kind \in {"act", "refresh"}
  PROVE  \/ k \in jobs
         \/ k.kind = "act" /\ k.stage # "done"
         \/ /\ k.kind = "act"
            /\ \E j \in jobs : /\ HandleAct(j) /\ k.op = j.op /\ k.session = j.session
                               /\ work[j.session] \in Allowed(j.op)
         \/ /\ k.kind = "refresh"
            /\ \E j \in jobs : /\ j.kind = "refresh" /\ k.op = j.op /\ k.session = j.session
                               /\ k.seen = j.seen \cup {work'}
         \/ /\ k.kind = "refresh"
            /\ \E j \in jobs : /\ j.kind = "act" /\ j.stage = "done"
                               /\ k.op = j.op /\ k.session = j.session /\ k.seen = {work'}
<1> USE DEF Ask, Done
<1>0. jobs \subseteq JobType /\ TypeOK' BY TypeParts, StepTypes
<1>1. ASSUME NEW js \in SUBSET jobs, k \in SawWork(js, work')
      PROVE  \/ k \in jobs
             \/ /\ k.kind = "refresh"
                /\ \E j \in jobs : /\ j.kind = "refresh" /\ k.op = j.op /\ k.session = j.session
                                   /\ k.seen = j.seen \cup {work'}
  <2>1. work' \in [Sessions -> Status] /\ js \in SUBSET JobType BY <1>0 DEF TypeOK
  <2> QED BY <1>1, <2>1, SawRefresh
<1>2. CASE OthersWork \/ OthersPrefs
  <2>1. jobs' = SawPrefs(SawWork(jobs, work'), prefs') BY <1>2 DEF OthersWork, OthersPrefs, Others
  <2>2. work' \in [Sessions -> Status] /\ prefs' \in [Keys -> BOOLEAN] BY <1>0 DEF TypeOK
  <2>3. SawWork(jobs, work') \in SUBSET JobType BY <1>0, <2>2, SawWorkFacts
  <2>4. \E i \in SawWork(jobs, work') : k.kind = i.kind /\ (k = i \/ i.kind \in {"load", "put"})
    BY <2>1, <2>2, <2>3, SawPrefsFacts
  <2>5. k \in SawWork(jobs, work') BY <2>4
  <2> QED BY <1>1, <2>5
<1>3. ASSUME NEW j \in jobs, HandleAct(j)
      PROVE  \/ k \in SawWork(jobs \ {j}, work') \/ k \in jobs
             \/ k.kind = "act" /\ k.stage # "done"
             \/ k.kind = "act" /\ k.op = j.op /\ k.session = j.session /\ work[j.session] \in Allowed(j.op)
  <2>1. j \in JobType /\ j.kind = "act" BY <1>0, <1>3 DEF HandleAct
  <2>2. CASE work[j.session] \in Allowed(j.op)
    <3>1. k \in SawWork(jobs \ {j}, work') \/ k = [j EXCEPT !.stage = "done"] BY <1>3, <2>2 DEF HandleAct
    <3>2. CASE k = [j EXCEPT !.stage = "done"]
      <4>1. k.kind = "act" /\ k.op = j.op /\ k.session = j.session BY <2>1, <3>2, HandledTypes
      <4> QED BY <2>2, <4>1
    <3> QED BY <3>1, <3>2
  <2>3. CASE work[j.session] \notin Allowed(j.op)
    <3>1. k \in jobs \/ k = [j EXCEPT !.stage = "refused"] BY <1>3, <2>3 DEF HandleAct
    <3> QED BY <2>1, <3>1, HandledTypes
  <2> QED BY <2>2, <2>3
<1>4. ASSUME NEW j \in jobs, HandlePut(j) PROVE k \in jobs
  <2>1. j \in JobType /\ j.kind = "put" /\ jobs \ {j} \in SUBSET JobType BY <1>0, <1>4 DEF HandlePut
  <2>2. prefs' \in [Keys -> BOOLEAN] BY <1>0 DEF TypeOK
  <2>3. k \in SawPrefs(jobs \ {j}, prefs') \/ k = [j EXCEPT !.stage = "done", !.seenPrefs = {prefs'}]
    BY <1>4 DEF HandlePut
  <2>4. CASE k = [j EXCEPT !.stage = "done", !.seenPrefs = {prefs'}] BY <2>1, <2>2, <2>4, HandledTypes
  <2>5. CASE k \in SawPrefs(jobs \ {j}, prefs')
    <3>1. \E i \in jobs \ {j} : k.kind = i.kind /\ (k = i \/ i.kind \in {"load", "put"})
      BY <2>1, <2>2, <2>5, SawPrefsFacts
    <3> QED BY <3>1
  <2> QED BY <2>3, <2>4, <2>5
<1>5. ASSUME NEW j \in jobs, ActAnswered(j)
      PROVE  \/ k \in jobs
             \/ /\ k.kind = "refresh" /\ j.kind = "act" /\ j.stage = "done"
                /\ k.op = j.op /\ k.session = j.session /\ k.seen = {work'}
  BY <1>5 DEF ActAnswered, Refresh, server
<1>6. ASSUME NEW j \in jobs, Answer(j), ~ActAnswered(j) PROVE k \in jobs
  BY <1>6 DEF Answer, PollAnswered, PollFailed, LoadAnswered, LoadFailed, ViewAnswered, RefreshAnswered,
              PutAnswered, OnlyMessage
<1>7. CASE AskPoll \/ AskView \/ AskLoad \/ Retry \/ DismissError \/ BecomeCalm
  BY <1>7 DEF AskPoll, AskView, AskLoad, Retry, DismissError, BecomeCalm, Poll, Load, ViewRead
<1>8. CASE (\E v \in Views : SwitchView(v)) \/ (\E p \in Periods : ChoosePeriod(p))
  BY <1>8 DEF SwitchView, ChoosePeriod, Disposed
<1>9. ASSUME NEW op \in Ops, NEW s \in Sessions, Press(op, s)
      PROVE  k \in jobs \/ (k.kind = "act" /\ k.stage # "done")
  <2>1. jobs' = jobs \cup {Act(op, s)} BY <1>9 DEF Press
  <2>2. Act(op, s).kind = "act" /\ Act(op, s).stage = "sent" BY DEF Act
  <2> QED BY <2>1, <2>2
<1>10. ASSUME NEW i \in Keys, ChangeSetting(i) PROVE k \in jobs
  <2>1. jobs' = jobs \cup {Put(i, ~settings[i])} BY <1>10 DEF ChangeSetting
  <2>2. Put(i, ~settings[i]).kind = "put" BY DEF Put
  <2> QED BY <2>1, <2>2
<1>11. CASE UNCHANGED vars BY <1>11 DEF vars
<1>12. CASE \E j \in jobs : HandleAct(j)
  <2>1. PICK j \in jobs : HandleAct(j) BY <1>12
  <2>2. jobs \ {j} \in SUBSET jobs OBVIOUS
  <2> QED BY <1>1, <1>3, <2>1, <2>2
<1> QED BY <1>2, <1>4, <1>5, <1>6, <1>7, <1>8, <1>9, <1>10, <1>11, <1>12 DEF Next

LEMMA EndingsStep == TypeOK /\ EndingsAreOver /\ [Next]_vars => EndingsAreOver'
<1> SUFFICES ASSUME TypeOK, EndingsAreOver, [Next]_vars,
                    NEW k \in jobs', k.kind \in {"act", "refresh"}, k.op \in Ending
             PROVE  /\ k.kind = "act" /\ k.stage = "done" => Over(work', k.session)
                    /\ k.kind = "refresh" => Over(work', k.session) /\ \A w \in k.seen : Over(w, k.session)
  BY DEF EndingsAreOver
<1>0. jobs \subseteq JobType /\ ServerOK BY TypeParts
<1>1. CASE k \in jobs
  <2>1. k.session \in Sessions BY <1>0, <1>1, JobFields
  <2> QED BY <1>1, <2>1, OverStays DEF EndingsAreOver
<1>2. ASSUME k.kind = "act", NEW j \in jobs, HandleAct(j), k.op = j.op, k.session = j.session,
             work[j.session] \in Allowed(j.op)
      PROVE  Over(work', k.session)
  <2>1. j.session \in Sessions /\ work' = [work EXCEPT ![j.session] = Becomes(j.op)]
    BY <1>0, <1>2, JobFields DEF HandleAct
  <2>2. work'[j.session] = Becomes(j.op) BY <1>0, <2>1 DEF ServerOK
  <2> QED BY <1>2, <2>2 DEF Over, Becomes, Ending
<1>3. ASSUME k.kind = "refresh", NEW j \in jobs, j.kind = "refresh", k.op = j.op, k.session = j.session,
             k.seen = j.seen \cup {work'}
      PROVE  Over(work', k.session) /\ \A w \in k.seen : Over(w, k.session)
  <2>1. j.session \in Sessions BY <1>0, <1>3, JobFields
  <2> QED BY <1>3, <2>1, OverStays DEF EndingsAreOver
<1>4. ASSUME k.kind = "refresh", NEW j \in jobs, j.kind = "act", j.stage = "done", k.op = j.op,
             k.session = j.session, k.seen = {work'}
      PROVE  Over(work', k.session) /\ \A w \in k.seen : Over(w, k.session)
  <2>1. j.session \in Sessions BY <1>0, <1>4, JobFields
  <2> QED BY <1>4, <2>1, OverStays DEF EndingsAreOver
<1> QED BY <1>1, <1>2, <1>3, <1>4, Origins

\* After a stop or a deletion has been carried out and refreshed, its timer is off
\* the screen, however the refresh was overtaken by polls and other requests.
THEOREM EndedTheorem == Spec => EndedTimerLeaves
<1>1. Init => EndingsAreOver BY DEF Init, EndingsAreOver
<1>2. ASSUME TypeOK, EndingsAreOver,
             NEW j \in jobs, j.kind = "refresh", j.op \in {"stop", "delete"}, RefreshAnswered(j)
      PROVE  j.session \notin DOMAIN timers'
  <2>1. PICK w \in j.seen : timers' = TimersOf(w) BY <1>2 DEF RefreshAnswered, ShowWork
  <2>2. Over(w, j.session) BY <1>2, <2>1 DEF EndingsAreOver, Ending
  <2>3. j.session \notin ActiveIn(w) BY <2>2 DEF Over, ActiveIn
  <2> QED BY <2>1, <2>3 DEF TimersOf
<1>3. TypeOK /\ EndingsAreOver => RefreshedAreOff BY <1>2 DEF RefreshedAreOff
<1> QED BY <1>1, <1>3, EndingsStep, TypeTheorem, PTL DEF Spec, EndedTimerLeaves

-----------------------------------------------------------------------------
(* The period on screen. *)

\* What keeps it: the requests of the view in flight are for what is on screen,
\* because leaving a view or a period drops theirs.
ViewsAreCurrent == \A j \in jobs : j.kind = "view" => j.view = view /\ j.period = period

\* A request of a view that sees one state more is for the same view and period.
LEMMA SawView ==
  ASSUME NEW js \in SUBSET JobType, NEW w \in [Sessions -> Status],
         NEW k \in SawWork(js, w), k.kind = "view"
  PROVE  \E j \in js : j.kind = "view" /\ k.view = j.view /\ k.period = j.period
<1>1. PICK j \in js : k = IF j.kind \in Reading THEN [j EXCEPT !.seen = @ \cup {w}] ELSE j
  BY DEF SawWork
<1>2. CASE j.kind \in Reading
  <2>0. k = [j EXCEPT !.seen = @ \cup {w}] BY <1>1, <1>2
  <2>1. CASE j \in [kind : {"view"}, view : Lists, period : Periods, seen : SUBSET [Sessions -> Status]]
    BY <2>0, <2>1
  <2>2. CASE j \in [kind : {"poll"}, seen : SUBSET [Sessions -> Status]] BY <2>0, <2>2
  <2>3. CASE j \in [kind : {"load"}, period : Periods, seen : SUBSET [Sessions -> Status], seenPrefs : SUBSET [Keys -> BOOLEAN]]
    BY <2>0, <2>3
  <2>4. CASE j \in [kind : {"refresh"}, op : Ops, session : Sessions, period : Periods, seen : SUBSET [Sessions -> Status]]
    BY <2>0, <2>4
  <2> QED BY <1>2, <2>1, <2>2, <2>3, <2>4 DEF JobType, Reading
<1>3. CASE j.kind \notin Reading BY <1>1, <1>3
<1> QED BY <1>2, <1>3

\* A request of a view in flight was there before, or is asked for the screen.
LEMMA ViewOrigins ==
  ASSUME TypeOK, [Next]_vars, NEW k \in jobs', k.kind = "view"
  PROVE  \/ /\ \E j \in jobs : j.kind = "view" /\ k.view = j.view /\ k.period = j.period
            /\ UNCHANGED <<view, period>>
         \/ k.view = view /\ k.period = period /\ UNCHANGED <<view, period>>
<1> USE DEF Ask, Done, screen
<1>0. jobs \subseteq JobType /\ TypeOK' BY TypeParts, StepTypes
<1>1. work' \in [Sessions -> Status] /\ prefs' \in [Keys -> BOOLEAN] BY <1>0 DEF TypeOK
<1>2. CASE OthersWork \/ OthersPrefs
  <2>1. jobs' = SawPrefs(SawWork(jobs, work'), prefs') /\ UNCHANGED <<view, period>>
    BY <1>2 DEF OthersWork, OthersPrefs, Others
  <2>2. SawWork(jobs, work') \in SUBSET JobType BY <1>0, <1>1, SawWorkFacts
  <2>3. \E i \in SawWork(jobs, work') : k.kind = i.kind /\ (k = i \/ i.kind \in {"load", "put"})
    BY <1>1, <2>1, <2>2, SawPrefsFacts
  <2>4. k \in SawWork(jobs, work') BY <2>3
  <2> QED BY <1>0, <1>1, <2>1, <2>4, SawView
<1>3. CASE \E j \in jobs : HandleAct(j)
  <2>1. PICK j \in jobs : HandleAct(j) BY <1>3
  <2>2. j \in JobType /\ j.kind = "act" /\ UNCHANGED <<view, period>> /\ jobs \ {j} \in SUBSET JobType
    BY <1>0, <2>1 DEF HandleAct
  <2>3. [j EXCEPT !.stage = "done"].kind = "act" /\ [j EXCEPT !.stage = "refused"].kind = "act"
    BY <2>2, HandledTypes
  <2>4. k \in jobs \/ k \in SawWork(jobs \ {j}, work') BY <2>1, <2>3 DEF HandleAct
  <2>5. CASE k \in SawWork(jobs \ {j}, work')
    <3>1. \E i \in jobs \ {j} : i.kind = "view" /\ k.view = i.view /\ k.period = i.period
      BY <1>1, <2>2, <2>5, SawView
    <3> QED BY <2>2, <3>1
  <2> QED BY <2>2, <2>4, <2>5
<1>4. CASE \E j \in jobs : HandlePut(j)
  <2>1. PICK j \in jobs : HandlePut(j) BY <1>4
  <2>2. j \in JobType /\ j.kind = "put" /\ UNCHANGED <<view, period>> /\ jobs \ {j} \in SUBSET JobType
    BY <1>0, <2>1 DEF HandlePut
  <2>3. [j EXCEPT !.stage = "done", !.seenPrefs = {prefs'}].kind = "put" BY <1>1, <2>2, HandledTypes
  <2>4. k \in SawPrefs(jobs \ {j}, prefs') BY <2>1, <2>3 DEF HandlePut
  <2>5. \E i \in jobs \ {j} : k.kind = i.kind /\ (k = i \/ i.kind \in {"load", "put"})
    BY <1>1, <2>2, <2>4, SawPrefsFacts
  <2> QED BY <2>2, <2>5
<1>5. CASE \E j \in jobs : Answer(j)
  <2>1. UNCHANGED <<view, period>>
    BY <1>5 DEF Answer, PollAnswered, PollFailed, LoadAnswered, LoadFailed, ViewAnswered, ActAnswered,
                RefreshAnswered, PutAnswered, OnlyMessage
  <2>2. k \in jobs
    BY <1>5 DEF Answer, PollAnswered, PollFailed, LoadAnswered, LoadFailed, ViewAnswered, ActAnswered,
                RefreshAnswered, PutAnswered, OnlyMessage, Refresh
  <2> QED BY <2>1, <2>2
<1>6. CASE AskView BY <1>6 DEF AskView, ViewRead
<1>7. CASE AskPoll \/ AskLoad \/ Retry \/ DismissError \/ BecomeCalm
  BY <1>7 DEF AskPoll, AskLoad, Retry, DismissError, BecomeCalm, Poll, Load
<1>8. CASE (\E v \in Views : SwitchView(v)) \/ (\E p \in Periods : ChoosePeriod(p))
  BY <1>8 DEF SwitchView, ChoosePeriod, Disposed
<1>9. ASSUME NEW op \in Ops, NEW s \in Sessions, Press(op, s)
      PROVE  k \in jobs /\ UNCHANGED <<view, period>>
  <2>1. jobs' = jobs \cup {Act(op, s)} /\ UNCHANGED <<view, period>> BY <1>9 DEF Press
  <2>2. Act(op, s).kind = "act" BY DEF Act
  <2> QED BY <2>1, <2>2
<1>10. ASSUME NEW i \in Keys, ChangeSetting(i)
       PROVE  k \in jobs /\ UNCHANGED <<view, period>>
  <2>1. jobs' = jobs \cup {Put(i, ~settings[i])} /\ UNCHANGED <<view, period>> BY <1>10 DEF ChangeSetting
  <2>2. Put(i, ~settings[i]).kind = "put" BY DEF Put
  <2> QED BY <2>1, <2>2
<1>11. CASE UNCHANGED vars BY <1>11 DEF vars
<1> QED BY <1>2, <1>3, <1>4, <1>5, <1>6, <1>7, <1>8, <1>9, <1>10, <1>11 DEF Next

LEMMA CurrentStep == TypeOK /\ ViewsAreCurrent /\ [Next]_vars => ViewsAreCurrent'
BY ViewOrigins DEF ViewsAreCurrent

\* What a step shows of Insights is for the period of the request it answers.
LEMMA PeriodStep == TypeOK /\ ViewsAreCurrent /\ [Next]_vars => [PeriodStays]_vars
<1> SUFFICES ASSUME TypeOK, ViewsAreCurrent, [Next]_vars, view = "insights", fetched[view].period = period,
                    fetched'[view].period # period
             PROVE  \E j \in jobs : j.kind \in {"load", "refresh"} /\ j.period # period
  BY DEF PeriodStays
<1>0. jobs \subseteq JobType /\ view \in Lists /\ ListsShownOK
  BY TypeParts DEF ScreenOK, Views
<1>1. fetched' # fetched OBVIOUS
<1>2. PICK j \in jobs : LoadAnswered(j) \/ RefreshAnswered(j) \/ ViewAnswered(j)
  BY <1>1 DEF Next, vars, OthersWork, OthersPrefs, Others, HandleAct, HandlePut, Answer, PollAnswered,
              PollFailed, LoadFailed, ActAnswered, PutAnswered, OnlyMessage, AskPoll, AskView, AskLoad,
              Retry, SwitchView, ChoosePeriod, Press, ChangeSetting, DismissError, BecomeCalm, Ask, shown
<1>3. CASE LoadAnswered(j) \/ RefreshAnswered(j)
  <2>1. PICK at \in [Lists -> j.seen] : fetched' = [v \in Lists |-> ListOf(v, j.period, at[v])]
    BY <1>3 DEF LoadAnswered, RefreshAnswered, ShowLists
  <2>2. fetched'[view].period = j.period BY <1>0, <2>1 DEF ListOf
  <2> QED BY <1>3, <2>2 DEF LoadAnswered, RefreshAnswered
<1>4. CASE ViewAnswered(j)
  <2>1. j.view = view /\ j.period = period BY <1>4 DEF ViewAnswered, ViewsAreCurrent
  <2>2. PICK w \in j.seen : fetched' = [fetched EXCEPT ![j.view] = ListOf(j.view, j.period, w)]
    BY <1>4 DEF ViewAnswered
  <2>3. fetched'[view] = ListOf(view, period, w) BY <1>0, <2>1, <2>2 DEF ListsShownOK
  <2> QED BY <2>3 DEF ListOf
<1> QED BY <1>2, <1>3, <1>4

\* The refresh of the view itself never shows Insights for a period left before.
THEOREM PeriodTheorem == Spec => PeriodKept
<1>1. Init => ViewsAreCurrent BY DEF Init, ViewsAreCurrent
<1> QED BY <1>1, CurrentStep, PeriodStep, TypeTheorem, PTL DEF Spec, PeriodKept

=============================================================================
