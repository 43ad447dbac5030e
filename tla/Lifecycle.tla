------------------------------ MODULE Lifecycle ------------------------------
(***************************************************************************)
(* Starting, stopping and healing the LuxTime containers on one machine:   *)
(* the watchdog of the Windows service, the scripts and the tray command   *)
(* by which operators start and stop the stack, the Start Menu launcher,   *)
(* and the Docker engine they all act through.  They share one file, the   *)
(* marker .runtime/intentional-stop, and nothing else.                     *)
(***************************************************************************)
EXTENDS Integers

CONSTANTS
    Operators,      \* concurrently running scripts and tray commands
    Poll,           \* WatchdogConfig.poll_seconds
    MaxBackoff      \* WatchdogConfig.maximum_backoff_seconds

ASSUME BackoffAssumption == Poll \in Nat \ {0} /\ MaxBackoff \in Nat /\ Poll <= MaxBackoff

VARIABLES
    marker,     \* whether the intentional-stop file exists
    docker,     \* whether the Docker engine is available
    stack,      \* the containers
    dog,        \* what the watchdog does next
    backoff,    \* its local variable backoff
    stopping,   \* its stop_event
    op,         \* what each operator's command does next
    launcher    \* the Start Menu shortcut

vars == <<marker, docker, stack, dog, backoff, stopping, op, launcher>>

(* absent: no containers, or stopped ones; starting: not yet healthy, or   *)
(* to be restarted by Docker ("restart: unless-stopped"); hung: running    *)
(* and not healthy.                                                        *)
StackStates == {"absent", "starting", "healthy", "hung"}

(* The watchdog's statements: the loop's test and the marker check (top),  *)
(* docker info, the health check, the second marker check (ensure),        *)
(* compose up, the three waits (poll, settle, pause), and the check after  *)
(* recovery.                                                               *)
DogStates ==
    {"top", "docker", "health", "ensure", "up", "settle", "recheck", "pause", "poll", "ended"}

Backoffs == Poll .. MaxBackoff

(* A command's next statement: compose down, of a stop or of a restart;    *)
(* docker info, removing the marker and compose up, of a start.            *)
OpStates == {"idle", "down", "down_up", "start", "clear", "up"}

TypeOK ==
    /\ marker \in BOOLEAN /\ docker \in BOOLEAN /\ stopping \in BOOLEAN
    /\ stack \in StackStates
    /\ dog \in DogStates
    /\ backoff \in Backoffs
    /\ op \in [Operators -> OpStates]
    /\ launcher \in {"idle", "waiting"}

Healthy == docker /\ stack = "healthy"

-----------------------------------------------------------------------------
(* Docker. *)

(* docker compose up -d creates and starts what is missing, and leaves     *)
(* containers that run alone, healthy or not.                              *)
Up == IF stack = "absent" THEN "starting" ELSE stack

ComposeUp == docker /\ stack' = Up

(* A failed or timed-out command may have had its effect. *)
ComposeUpEnds == stack' = stack \/ ComposeUp

ComposeDown == docker /\ stack' = "absent"

EngineStarts ==
    /\ ~ docker /\ docker' = TRUE
    /\ UNCHANGED <<marker, stack, dog, backoff, stopping, op, launcher>>

(* Containers that ran come back with the engine. *)
Interrupted == IF stack = "absent" THEN "absent" ELSE "starting"

EngineStops ==
    /\ docker /\ docker' = FALSE
    /\ stack' = Interrupted
    /\ UNCHANGED <<marker, dog, backoff, stopping, op, launcher>>

(* Containers become healthy, crash, are removed by hand, or hang. *)
StackStarts ==
    /\ docker /\ stack = "starting" /\ stack' = "healthy"
    /\ UNCHANGED <<marker, docker, dog, backoff, stopping, op, launcher>>

StackFails ==
    /\ docker
    /\ \/ stack \in {"healthy", "hung"} /\ stack' = "starting"
       \/ stack # "absent" /\ stack' = "absent"
       \/ stack = "healthy" /\ stack' = "hung"
    /\ UNCHANGED <<marker, docker, dog, backoff, stopping, op, launcher>>

-----------------------------------------------------------------------------
(* LuxTimeWatchdog.run. *)

Goto(next) == dog' = next /\ UNCHANGED backoff

Elsewhere == UNCHANGED <<marker, docker, stopping, op, launcher>>

Reset(next) == dog' = next /\ backoff' = Poll

(* Mutant: the marker is only looked at by ensure_running. *)
CheckMarkerNever ==
    /\ dog = "top" /\ ~ stopping
    /\ Goto("docker")
    /\ UNCHANGED stack /\ Elsewhere

CheckMarker ==
    /\ dog = "top" /\ ~ stopping
    /\ IF marker THEN Reset("poll") ELSE Goto("docker")
    /\ UNCHANGED stack /\ Elsewhere

CheckDocker ==
    /\ dog = "docker"
    /\ Goto(IF docker THEN "health" ELSE "pause")
    /\ UNCHANGED stack /\ Elsewhere

CheckHealth ==
    /\ dog = "health"
    /\ IF Healthy THEN Reset("poll") ELSE Goto("ensure")
    /\ UNCHANGED stack /\ Elsewhere

(* Mutant: ensure_running trusts the check at the top of the loop. *)
RecheckMarkerNever ==
    /\ dog = "ensure"
    /\ Goto("up")
    /\ UNCHANGED stack /\ Elsewhere

(* ensure_running looks at the marker again, then runs compose up. *)
RecheckMarker ==
    /\ dog = "ensure"
    /\ Goto(IF marker THEN "pause" ELSE "up")
    /\ UNCHANGED stack /\ Elsewhere

(* Mutant: a compose restart, which creates nothing. *)
RunUpNot == dog = "up" /\ Goto("settle") /\ UNCHANGED stack /\ Elsewhere

RunUp == dog = "up" /\ ComposeUp /\ Goto("settle") /\ Elsewhere

RunUpFails == dog = "up" /\ ComposeUpEnds /\ Goto("pause") /\ Elsewhere

Settle ==
    /\ dog = "settle"
    /\ Goto(IF stopping THEN "ended" ELSE "recheck")
    /\ UNCHANGED stack /\ Elsewhere

Recheck ==
    /\ dog = "recheck"
    /\ IF Healthy THEN Reset("top") ELSE Goto("pause")
    /\ UNCHANGED stack /\ Elsewhere

(* Mutant: the doubling is not capped. *)
Doubled == 2 * backoff

Longer == IF 2 * backoff <= MaxBackoff THEN 2 * backoff ELSE MaxBackoff

Pause ==
    /\ dog = "pause" /\ dog' = "top" /\ backoff' = Longer
    /\ UNCHANGED stack /\ Elsewhere

PollAgain == dog = "poll" /\ Goto("top") /\ UNCHANGED stack /\ Elsewhere

(* Mutant: the loop does not test stop_event. *)
LeaveLoopNot == dog = "top" /\ stopping /\ Goto("docker") /\ UNCHANGED stack /\ Elsewhere

LeaveLoop == dog = "top" /\ stopping /\ Goto("ended") /\ UNCHANGED stack /\ Elsewhere

Watchdog ==
    \/ CheckMarker \/ CheckDocker \/ CheckHealth \/ RecheckMarker \/ RunUp \/ RunUpFails
    \/ Settle \/ Recheck \/ Pause \/ PollAgain \/ LeaveLoop

-----------------------------------------------------------------------------
(* The service control manager. *)

(* The watchdog of a started service is a new object. *)
Launch == dog' = "top" /\ backoff' = Poll /\ stopping' = FALSE

SvcStop ==
    /\ dog # "ended" /\ stopping' = TRUE
    /\ UNCHANGED <<marker, docker, stack, dog, backoff, op, launcher>>

SvcStart ==
    /\ dog = "ended" /\ Launch
    /\ UNCHANGED <<marker, docker, stack, op, launcher>>

(* The machine restarts: commands in progress are lost, the service starts *)
(* by itself, and the engine once the user signs in.                       *)
Reboot ==
    /\ docker' = FALSE /\ stack' = Interrupted
    /\ Launch
    /\ op' = [o \in Operators |-> "idle"]
    /\ launcher' = "idle"
    /\ UNCHANGED marker

-----------------------------------------------------------------------------
(* Operators. *)

NextOf(o, here, next) == op[o] = here /\ op' = [op EXCEPT ![o] = next]

OperatorOnly == UNCHANGED <<docker, dog, backoff, stopping, launcher>>

(* scripts/stop.ps1, restart.ps1 and the tray's Stop LuxTime. *)
WriteMarker(o) ==
    /\ \E next \in {"down", "down_up"} : NextOf(o, "idle", next)
    /\ marker' = TRUE
    /\ UNCHANGED stack /\ OperatorOnly

TakeDown(o) ==
    /\ \/ NextOf(o, "down", "idle") \/ NextOf(o, "down_up", "start")
    /\ ComposeDown
    /\ UNCHANGED marker /\ OperatorOnly

(* Without the engine, or when it fails, the command ends and the marker   *)
(* stays; a restart does not go on to start.                               *)
TakeDownFails(o) ==
    /\ NextOf(o, "down", "idle") \/ NextOf(o, "down_up", "idle")
    /\ stack' = stack \/ ComposeDown
    /\ UNCHANGED marker /\ OperatorOnly

(* scripts/start.ps1 runs scripts/run.ps1, as a restart does.              *)
BeginStart(o) ==
    /\ NextOf(o, "idle", "start")
    /\ UNCHANGED <<marker, stack>> /\ OperatorOnly

(* The engine first, then the marker: without the engine the marker stays. *)
RequireDocker(o) ==
    /\ NextOf(o, "start", IF docker THEN "clear" ELSE "idle")
    /\ UNCHANGED <<marker, stack>> /\ OperatorOnly

ClearMarker(o) ==
    /\ NextOf(o, "clear", "up")
    /\ marker' = FALSE
    /\ UNCHANGED stack /\ OperatorOnly

StartUp(o) ==
    /\ NextOf(o, "up", "idle")
    /\ ComposeUpEnds
    /\ UNCHANGED marker /\ OperatorOnly

Operator(o) ==
    TakeDown(o) \/ TakeDownFails(o) \/ RequireDocker(o) \/ ClearMarker(o) \/ StartUp(o)

(* The launcher starts the service if it is not running, waits until the   *)
(* API is healthy or its time is up, and opens the browser.                *)
Click ==
    /\ launcher = "idle" /\ launcher' = "waiting"
    /\ IF dog = "ended" THEN Launch ELSE UNCHANGED <<dog, backoff, stopping>>
    /\ UNCHANGED <<marker, docker, stack, op>>

OpenBrowser ==
    /\ launcher = "waiting" /\ launcher' = "idle"
    /\ UNCHANGED <<marker, docker, stack, dog, backoff, stopping, op>>

-----------------------------------------------------------------------------

(* A fresh installation: the service starts, the engine may not run yet.   *)
Init ==
    /\ marker = FALSE /\ docker \in BOOLEAN /\ stack = "absent"
    /\ dog = "top" /\ backoff = Poll /\ stopping = FALSE
    /\ op = [o \in Operators |-> "idle"]
    /\ launcher = "idle"

Environment == EngineStarts \/ EngineStops \/ StackStarts \/ StackFails

Next ==
    \/ Environment \/ Watchdog \/ SvcStop \/ SvcStart \/ Reboot \/ Click \/ OpenBrowser
    \/ \E o \in Operators : WriteMarker(o) \/ BeginStart(o) \/ Operator(o)

Spec == Init /\ [][Next]_vars

(* Waits end, commands end, and starting containers become healthy; of     *)
(* compose up run again and again, one succeeds.                           *)
Fairness ==
    /\ WF_vars(Watchdog) /\ SF_vars(RunUp)
    /\ SF_vars(StackStarts) /\ WF_vars(OpenBrowser)
    /\ \A o \in Operators : WF_vars(Operator(o))

FairSpec == Spec /\ Fairness

-----------------------------------------------------------------------------
(* Safety. *)

(* Between the check of the marker and the end of compose up. *)
UpInFlight == dog = "up" \/ \E o \in Operators : op[o] = "up"

(* Once the stack is down behind the marker and no compose up was already  *)
(* in flight, nothing but a start brings it back, reboots included.        *)
StoppedStaysDown ==
    [][ marker /\ stack = "absent" /\ ~ UpInFlight =>
          stack' = "absent" /\ (marker' => ~ UpInFlight') ]_vars

-----------------------------------------------------------------------------
(* Liveness. *)

(* From some time on the engine runs, nobody has stopped LuxTime or is     *)
(* about to, the service runs, and containers do not fail again.           *)
Calm ==
    /\ docker /\ ~ marker /\ ~ stopping /\ dog # "ended"
    /\ \A o \in Operators : op[o] \notin {"down", "down_up"}

FailsNoMore == <>[][~ StackFails]_vars

(* The watchdog restores containers that are missing or crashed. *)
RestoresStack ==
    (<>[]Calm /\ FailsNoMore /\ <>[](stack # "hung")) => <>[]Healthy

(* A stop that nobody undoes is final: the watchdog ends up only polling,  *)
(* with its backoff reset.                                                 *)
SettlesBehindMarker ==
    (<>[]marker /\ <>[](dog # "ended" /\ ~ stopping)) =>
        <>[](dog \in {"top", "poll"} /\ backoff = Poll)

(* A stop request ends the service, whatever the watchdog is doing.        *)
StopRequestEndsService == stopping ~> (dog = "ended" \/ ~ stopping)

=============================================================================
