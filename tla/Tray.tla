---------------------------------- MODULE Tray ----------------------------------
(***************************************************************************)
(* The tray client: what its threads do with the list of active sessions   *)
(* they fetched.  One thread polls the API, one runs menu commands, one    *)
(* pumps lock and sleep messages, one watches for idle input.  The last    *)
(* two stop all work when the user leaves and offer to start it again when *)
(* the user returns.                                                       *)
(*                                                                         *)
(* The API is the set of projects it tracks; how it does so is the subject *)
(* of SessionTransactions.                                                 *)
(***************************************************************************)
EXTENDS Naturals, Sequences, FiniteSets

CONSTANTS
    Projects,       \* projects that sessions are tracked for
    Causes,         \* the ways to leave that send a message: "lock", "sleep"
    Choices,        \* values of the settings row, as sets of what is switched on
    MaxPending,     \* bound: with so many messages queued the user stays as is
    MaxPrompts      \* bound: with so many prompts open the user does not leave

(* The settings are stop_on_lock, stop_on_sleep, idle_detection and        *)
(* resume_prompt.                                                          *)
ASSUME ChoicesAssumption ==
    /\ Causes \subseteq {"lock", "sleep"}
    /\ Choices \subseteq SUBSET {"lock", "sleep", "idle", "prompt"}

VARIABLES
    tracked,    \* API: projects with a running or paused session
    settings,   \* API: the settings row
    active,     \* the tray's copy of tracked
    config,     \* its copy of settings, at first empty
    remembered, \* _auto_stopped_projects
    at,         \* what each thread does next
    seen,       \* what each thread's last fetch returned
    list,       \* the projects the thread's handler works on
    asking,     \* each thread's open prompts, innermost last
    queue,      \* messages for the events thread
    away,       \* the causes for which the user is away
    input,      \* keyboard and mouse: "active" or "idle"
    isIdle      \* _is_idle

vars == <<tracked, settings, active, config, remembered, at, seen, list, asking,
          queue, away, input, isIdle>>

Monitors == {"events", "idle"}
Threads == {"poll"} \union Monitors

Messages == [cause : Causes, kind : {"leave", "return"}]

TypeOK ==
    /\ tracked \subseteq Projects /\ active \subseteq Projects /\ remembered \subseteq Projects
    /\ settings \in Choices /\ config \in Choices \union {{}}
    /\ at \in [Threads -> {"wait", "fetch", "assign", "stop", "record", "start", "dead"}]
    /\ seen \in [Threads -> [active : SUBSET Projects, config : Choices \union {{}}]]
    /\ list \in [Monitors -> SUBSET Projects]
    /\ asking \in [Monitors -> Seq(SUBSET Projects)] /\ Len(asking["idle"]) <= 1
    /\ queue \in Seq(Messages)
    /\ away \subseteq Causes /\ input \in {"active", "idle"} /\ isIdle \in BOOLEAN

Goto(t, next) == at' = [at EXCEPT ![t] = next]

api == <<tracked, settings>>
copy == <<active, config>>
user == <<queue, away, input>>

-----------------------------------------------------------------------------
(* The user and other clients. *)

(* Somebody starts or stops work. *)
TrackedChanges ==
    \/ \E p \in Projects : tracked' = tracked \union {p} \/ tracked' = tracked \ {p}
    \/ tracked' = {}

OtherClient ==
    /\ TrackedChanges
    /\ UNCHANGED <<settings, copy, remembered, at, seen, list, asking, user, isIdle>>

ChangeSettings ==
    /\ settings' \in Choices
    /\ UNCHANGED <<tracked, copy, remembered, at, seen, list, asking, user, isIdle>>

Leave(c) ==
    /\ c \notin away /\ Len(queue) < MaxPending /\ Len(asking["events"]) < MaxPrompts
    /\ away' = away \union {c}
    /\ queue' = Append(queue, [cause |-> c, kind |-> "leave"])
    /\ UNCHANGED <<api, copy, remembered, at, seen, list, asking, input, isIdle>>

(* Resuming from sleep is announced once or twice. *)
Return(c) ==
    /\ c \in away /\ Len(queue) < MaxPending
    /\ away' = away \ {c}
    /\ LET message == [cause |-> c, kind |-> "return"] IN
         \/ queue' = Append(queue, message)
         \/ c = "sleep" /\ queue' = queue \o <<message, message>>
    /\ UNCHANGED <<api, copy, remembered, at, seen, list, asking, input, isIdle>>

(* Input that has ceased for idle_threshold, or been there in the last     *)
(* five seconds.                                                           *)
InputChanges ==
    /\ input' \in {"active", "idle"} \ {input}
    /\ UNCHANGED <<api, copy, remembered, at, seen, list, asking, queue, away, isIdle>>

-----------------------------------------------------------------------------
(* _refresh, on any thread: four requests, then the assignment.            *)

(* The polling thread does nothing else. *)
Due(t) == at[t] = IF t = "poll" THEN "wait" ELSE "fetch"

Fetch(t) ==
    /\ Due(t) /\ Goto(t, "assign")
    /\ seen' = [seen EXCEPT ![t] = [active |-> tracked, config |-> settings]]
    /\ UNCHANGED <<api, copy, remembered, list, asking, user, isIdle>>

Assign(t) ==
    /\ at[t] = "assign" /\ Goto(t, "wait")
    /\ active' = seen[t].active /\ config' = seen[t].config
    /\ seen' = [seen EXCEPT ![t] = [active |-> {}, config |-> {}]]
    /\ UNCHANGED <<api, remembered, list, asking, user, isIdle>>

(* Mutant: the polling thread does not catch the error. *)
AfterErrorEnds(t) == IF t \in {"idle", "poll"} THEN "dead" ELSE "wait"

(* _poll and _call catch the error, and a window procedure returns with it.*)
(* Nothing catches it in _run_idle_poll: the thread ends.                  *)
AfterError(t) == IF t = "idle" THEN "dead" ELSE "wait"

FetchFails(t) ==
    /\ Due(t) /\ Goto(t, AfterError(t))
    /\ active' = IF t = "poll" THEN {} ELSE active
    /\ UNCHANGED <<api, config, remembered, seen, list, asking, user, isIdle>>

(* _call, on the menu thread: the command, then a refresh.  It is one step *)
(* here, the refreshes of the other threads overlap enough.  When either   *)
(* fails the command may have had its effect.                              *)
MenuCommand ==
    /\ TrackedChanges
    /\ \/ active' = tracked' /\ config' = settings
       \/ UNCHANGED copy
    /\ UNCHANGED <<settings, remembered, at, seen, list, asking, user, isIdle>>

-----------------------------------------------------------------------------
(* _on_auto_stop_trigger. *)

(* Mutant: a new stop forgets the last one. *)
TriggerAnew(t, setting) ==
    /\ IF setting \in config /\ active # {}
         THEN Goto(t, "stop") /\ list' = [list EXCEPT ![t] = active]
         ELSE UNCHANGED <<at, list>>
    /\ remembered' = {} /\ UNCHANGED asking

(* The part under the lock, on thread t. *)
Trigger(t, setting) ==
    /\ IF setting \in config /\ active # {}
         THEN Goto(t, "stop") /\ list' = [list EXCEPT ![t] = active]
         ELSE UNCHANGED <<at, list>>
    /\ UNCHANGED <<remembered, asking>>

StopAll(t) ==
    /\ at[t] = "stop" /\ Goto(t, "record")
    /\ tracked' = {}
    /\ UNCHANGED <<settings, copy, remembered, seen, list, asking, user, isIdle>>

(* The request times out or fails, having stopped some, all or none. *)
StopAllFails(t) ==
    /\ at[t] = "stop" /\ Goto(t, "wait")
    /\ tracked' \in SUBSET tracked
    /\ list' = [list EXCEPT ![t] = {}]
    /\ UNCHANGED <<settings, copy, remembered, seen, asking, user, isIdle>>

Record(t) ==
    /\ at[t] = "record" /\ Goto(t, "fetch")
    /\ remembered' = remembered \union list[t]
    /\ list' = [list EXCEPT ![t] = {}]
    /\ UNCHANGED <<api, copy, seen, asking, user, isIdle>>

-----------------------------------------------------------------------------
(* _on_return_to_active. *)

(* Mutant: the memory is cleared once the prompt is answered. *)
TakeRememberedLater(t) ==
    /\ asking' = IF remembered # {} /\ "prompt" \in config
                   THEN [asking EXCEPT ![t] = Append(@, remembered)]
                   ELSE asking
    /\ UNCHANGED <<remembered, at, list>>

(* The part under the lock, and opening the prompt. *)
TakeRemembered(t) ==
    /\ remembered' = {}
    /\ asking' = IF remembered # {} /\ "prompt" \in config
                   THEN [asking EXCEPT ![t] = Append(@, remembered)]
                   ELSE asking
    /\ UNCHANGED <<at, list>>

(* The user answers the innermost prompt. *)
Answer(t) ==
    /\ at[t] = "wait" /\ asking[t] # <<>>
    /\ LET last == Len(asking[t]) IN
         /\ asking' = [asking EXCEPT ![t] = SubSeq(@, 1, last - 1)]
         /\ \/ UNCHANGED <<at, list>>
            \/ Goto(t, "start") /\ list' = [list EXCEPT ![t] = asking[t][last]]
    /\ UNCHANGED <<api, copy, remembered, seen, user, isIdle>>

(* One start after another; one that fails may have had its effect. *)
StartNext(t) ==
    /\ at[t] = "start"
    /\ \E p \in list[t] :
         /\ list' = [list EXCEPT ![t] = @ \ {p}]
         /\ tracked' = tracked \union {p} \/ tracked' = tracked
         /\ Goto(t, IF list[t] = {p} THEN "fetch" ELSE "start")
    /\ UNCHANGED <<settings, copy, remembered, seen, asking, user, isIdle>>

-----------------------------------------------------------------------------
(* SystemEventMonitor. *)

(* The window procedure.  An open prompt pumps messages as well, so that   *)
(* this may run inside one.                                                *)
Dispatch ==
    /\ at["events"] = "wait" /\ queue # <<>>
    /\ queue' = Tail(queue)
    /\ IF Head(queue).kind = "leave" THEN Trigger("events", Head(queue).cause)
                                     ELSE TakeRemembered("events")
    /\ UNCHANGED <<api, copy, seen, away, input, isIdle>>

(* Mutant: the prompt does not hold up the thread. *)
IdleFreeAlways == at["idle"] = "wait"

(* A prompt of its own holds the thread up. *)
IdleFree == at["idle"] = "wait" /\ asking["idle"] = <<>>

(* Mutant: an idle user is reported without noting that it was. *)
NoticeIdleOnly ==
    /\ IdleFree /\ "idle" \in config /\ ~ isIdle /\ input = "idle"
    /\ isIdle' = FALSE /\ Trigger("idle", "idle")
    /\ UNCHANGED <<api, copy, seen, user>>

NoticeIdle ==
    /\ IdleFree /\ "idle" \in config /\ ~ isIdle /\ input = "idle"
    /\ isIdle' = TRUE /\ Trigger("idle", "idle")
    /\ UNCHANGED <<api, copy, seen, user>>

NoticeActive ==
    /\ IdleFree /\ "idle" \in config /\ isIdle /\ input = "active"
    /\ isIdle' = FALSE /\ TakeRemembered("idle")
    /\ UNCHANGED <<api, copy, seen, user>>

(* With idle detection off a user who was idle is forgotten. *)
ForgetIdle ==
    /\ IdleFree /\ "idle" \notin config /\ isIdle /\ isIdle' = FALSE
    /\ UNCHANGED <<api, copy, remembered, at, seen, list, asking, user>>

-----------------------------------------------------------------------------

Init ==
    /\ tracked \in SUBSET Projects /\ settings \in Choices
    /\ active = {} /\ config = {} /\ remembered = {}
    /\ at = [t \in Threads |-> "wait"]
    /\ seen = [t \in Threads |-> [active |-> {}, config |-> {}]]
    /\ list = [t \in Monitors |-> {}]
    /\ asking = [t \in Monitors |-> <<>>]
    /\ queue = <<>> /\ away = {} /\ input = "active" /\ isIdle = FALSE

User ==
    \/ OtherClient \/ ChangeSettings \/ MenuCommand \/ InputChanges
    \/ \E c \in Causes : Leave(c) \/ Return(c)
    \/ \E t \in Monitors : Answer(t)

Refresh(t) == Fetch(t) \/ Assign(t) \/ FetchFails(t)

Handler(t) == StopAll(t) \/ StopAllFails(t) \/ Record(t) \/ StartNext(t)

IdleTick == NoticeIdle \/ NoticeActive \/ ForgetIdle

Next ==
    \/ User \/ Dispatch \/ IdleTick
    \/ \E t \in Threads : Refresh(t)
    \/ \E t \in Monitors : Handler(t)

Spec == Init /\ [][Next]_vars

(* Threads run, and requests end within their five seconds; nothing is     *)
(* assumed of the user, who may leave every prompt unanswered.             *)
Fairness ==
    /\ WF_vars(Refresh("poll"))
    /\ WF_vars(Dispatch \/ Refresh("events") \/ Handler("events"))
    /\ WF_vars(IdleTick \/ Refresh("idle") \/ Handler("idle"))

FairSpec == Spec /\ Fairness

-----------------------------------------------------------------------------
(* Safety. *)

(* Who holds an offer to start p again: the memory, an open prompt, or a   *)
(* thread that is starting what the user agreed to.                        *)
Holders(p) ==
    {h \in {<<"memory", 0>>} : p \in remembered}
    \union {<<t, 0>> : t \in {u \in Monitors : at[u] = "start" /\ p \in list[u]}}
    \union {h \in UNION {{t} \X DOMAIN asking[t] : t \in Monitors} : p \in asking[h[1]][h[2]]}

Offers(p) == Cardinality(Holders(p))

(* An offer is made by recording a stop that the API confirmed, whatever   *)
(* the two monitor threads do meanwhile, and no other step doubles it.     *)
OffersComeFromStops ==
    [][ \A p \in Projects : Offers(p)' > Offers(p) =>
          \E t \in Monitors : at[t] = "record" /\ p \in list[t] ]_vars

(* An offer once made is only lost by being answered, by being tried, or   *)
(* because the prompt is switched off when the user returns.               *)
OffersAreNotLost ==
    [][ \A p \in Projects : Offers(p)' < Offers(p) =>
          \/ \E t \in Monitors : Len(asking'[t]) < Len(asking[t])
          \/ \E t \in Monitors : at[t] = "start" /\ p \in list[t] \ list'[t]
          \/ p \in remembered /\ "prompt" \notin config ]_vars

(* tray/main.py on a failed automatic stop: "best-effort; tray stays       *)
(* usable if API is down".  The code does not keep it: the refresh after a *)
(* successful stop or start is not protected, and ends the idle thread.    *)
IdleDetectionSurvives == at["idle"] # "dead"

-----------------------------------------------------------------------------
(* Liveness. *)

FailsNoMore == <>[][\A t \in Threads : ~ FetchFails(t)]_vars

(* When the API no longer fails or changes, the tray's menu comes to show  *)
(* what it tracks, whatever refreshes were under way on other threads.     *)
TrayCatchesUp ==
    FailsNoMore /\ <>[][UNCHANGED api]_vars => <>[](active = tracked /\ config = settings)

(* The user is here to stay. *)
Present == away = {} /\ input = "active"

(* A user who returns is asked about everything that was stopped in the    *)
(* meantime, also while an earlier prompt is still open, as long as the    *)
(* idle thread lives and idle detection stays on.                          *)
OffersReachTheUser ==
    <>[]Present /\ [](at["idle"] # "dead" /\ (config = {} \/ "idle" \in config))
      => []<>(remembered = {})

=============================================================================
