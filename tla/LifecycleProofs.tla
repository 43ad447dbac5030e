--------------------------- MODULE LifecycleProofs ---------------------------
(***************************************************************************)
(* Theorems about Lifecycle, for any number of operators and any interval  *)
(* and cap of the watchdog.                                                *)
(***************************************************************************)
EXTENDS Lifecycle, TLAPS

(* Doubling the wait stays between the poll interval and the cap. *)
LEMMA LongerBounded ==
    ASSUME backoff \in Backoffs
    PROVE  Longer \in Backoffs
  BY BackoffAssumption DEF Longer, Backoffs

(* A compose up or an engine restart leaves a state of the containers. *)
LEMMA StackTyped ==
    ASSUME stack \in StackStates
    PROVE  /\ ComposeUp => stack' \in StackStates
           /\ ComposeUpEnds => stack' \in StackStates
           /\ ComposeDown => stack' \in StackStates
           /\ Interrupted \in StackStates
  BY DEF StackStates, ComposeUp, ComposeUpEnds, ComposeDown, Up, Interrupted

LEMMA WatchdogTyped ==
    ASSUME TypeOK, Watchdog
    PROVE  TypeOK'
<1>1. backoff' \in Backoffs /\ dog' \in DogStates
  <2>1. Poll \in Backoffs
    BY BackoffAssumption DEF Backoffs
  <2>2. backoff \in Backoffs /\ dog \in DogStates
    BY DEF TypeOK
  <2>3. CASE Pause
    BY <2>2, <2>3, LongerBounded DEF Pause, DogStates
  <2>4. CASE CheckMarker
    BY <2>1, <2>2, <2>4 DEF CheckMarker, Reset, Goto, DogStates
  <2>5. CASE CheckDocker
    BY <2>2, <2>5 DEF CheckDocker, Goto, DogStates
  <2>6. CASE CheckHealth
    BY <2>1, <2>2, <2>6 DEF CheckHealth, Reset, Goto, DogStates
  <2>7. CASE RecheckMarker
    BY <2>2, <2>7 DEF RecheckMarker, Goto, DogStates
  <2>8. CASE RunUp \/ RunUpFails \/ PollAgain \/ LeaveLoop
    BY <2>2, <2>8 DEF RunUp, RunUpFails, PollAgain, LeaveLoop, Goto, DogStates
  <2>9. CASE Settle
    BY <2>2, <2>9 DEF Settle, Goto, DogStates
  <2>10. CASE Recheck
    BY <2>1, <2>2, <2>10 DEF Recheck, Reset, Goto, DogStates
  <2> QED
    BY <2>3, <2>4, <2>5, <2>6, <2>7, <2>8, <2>9, <2>10 DEF Watchdog
<1>2. stack' \in StackStates
  BY StackTyped
     DEF TypeOK, Watchdog, CheckMarker, CheckDocker, CheckHealth, RecheckMarker, RunUp,
         RunUpFails, Settle, Recheck, Pause, PollAgain, LeaveLoop
<1>3. Elsewhere
  BY DEF Watchdog, CheckMarker, CheckDocker, CheckHealth, RecheckMarker, RunUp,
         RunUpFails, Settle, Recheck, Pause, PollAgain, LeaveLoop
<1> QED
  BY <1>1, <1>2, <1>3 DEF TypeOK, Elsewhere

LEMMA OperatorTyped ==
    ASSUME TypeOK, NEW o \in Operators,
           WriteMarker(o) \/ BeginStart(o) \/ Operator(o)
    PROVE  TypeOK'
<1>1. op' \in [Operators -> OpStates]
  BY DEF TypeOK, OpStates, Operator, WriteMarker, BeginStart, RequireDocker, TakeDown,
         TakeDownFails, ClearMarker, StartUp, NextOf
<1>2. stack' \in StackStates
  BY StackTyped
     DEF TypeOK, Operator, WriteMarker, BeginStart, RequireDocker, TakeDown, TakeDownFails,
         ClearMarker, StartUp
<1>3. marker' \in BOOLEAN /\ OperatorOnly
  BY DEF TypeOK, Operator, WriteMarker, BeginStart, RequireDocker, TakeDown, TakeDownFails,
         ClearMarker, StartUp
<1> QED
  BY <1>1, <1>2, <1>3 DEF TypeOK, OperatorOnly

(* The watchdog's wait is never shorter than the poll interval and never   *)
(* longer than the cap, whatever fails and however often: part of TypeOK.  *)
THEOREM BackoffTheorem == Spec => []TypeOK
<1>1. Init => TypeOK
  <2>1. Poll \in Backoffs
    BY BackoffAssumption DEF Backoffs
  <2>2. Init => marker \in BOOLEAN /\ stopping \in BOOLEAN /\ docker \in BOOLEAN
    BY DEF Init
  <2>3. Init => stack \in StackStates /\ dog \in DogStates /\ launcher \in {"idle", "waiting"}
    BY DEF Init, StackStates, DogStates
  <2>4. Init => op \in [Operators -> OpStates]
    BY DEF Init, OpStates
  <2> QED
    BY <2>1, <2>2, <2>3, <2>4 DEF Init, TypeOK
<1>2. TypeOK /\ [Next]_vars => TypeOK'
  <2> SUFFICES ASSUME TypeOK, [Next]_vars PROVE TypeOK'
    OBVIOUS
  <2>1. Poll \in Backoffs
    BY BackoffAssumption DEF Backoffs
  <2>2. CASE Environment
    BY <2>2, StackTyped
       DEF TypeOK, Environment, EngineStarts, EngineStops, StackStarts, StackFails, StackStates
  <2>3. CASE Watchdog
    BY <2>3, WatchdogTyped
  <2>4. CASE SvcStop \/ SvcStart
    BY <2>1, <2>4 DEF TypeOK, SvcStop, SvcStart, Launch, DogStates
  <2>5. CASE Reboot
    BY <2>1, <2>5, StackTyped DEF TypeOK, Reboot, Launch, DogStates, OpStates
  <2>6. CASE Click \/ OpenBrowser
    BY <2>1, <2>6 DEF TypeOK, Click, OpenBrowser, Launch, DogStates
  <2>7. CASE \E o \in Operators : WriteMarker(o) \/ BeginStart(o) \/ Operator(o)
    BY <2>7, OperatorTyped
  <2>8. CASE UNCHANGED vars
    BY <2>8 DEF TypeOK, vars
  <2> QED
    BY <2>2, <2>3, <2>4, <2>5, <2>6, <2>7, <2>8 DEF Next
<1> QED
  BY <1>1, <1>2, PTL DEF Spec

(* Behind the marker, without a compose up in flight, the stack stays down *)
(* and no compose up begins until a start has removed the marker.          *)
THEOREM StaysDownTheorem == Spec => StoppedStaysDown
<1>1. TypeOK /\ [Next]_vars =>
        (marker /\ stack = "absent" /\ ~ UpInFlight =>
            stack' = "absent" /\ (marker' => ~ UpInFlight'))
  <2> SUFFICES ASSUME TypeOK, [Next]_vars, marker, stack = "absent", ~ UpInFlight
               PROVE  stack' = "absent" /\ (marker' => ~ UpInFlight')
    OBVIOUS
  <2>1. dog # "up" /\ \A o \in Operators : op[o] # "up"
    BY DEF UpInFlight
  <2>2. CASE Environment
    BY <2>1, <2>2
       DEF Environment, EngineStarts, EngineStops, StackStarts, StackFails, Interrupted, UpInFlight
  <2>3. CASE Watchdog
    <3>1. stack' = stack /\ dog' # "up" /\ Elsewhere
      BY <2>1, <2>3
         DEF Watchdog, CheckMarker, CheckDocker, CheckHealth, RecheckMarker, RunUp,
             RunUpFails, Settle, Recheck, Pause, PollAgain, LeaveLoop, Goto, Reset
    <3> QED
      BY <2>1, <3>1 DEF Elsewhere, UpInFlight
  <2>4. CASE SvcStop \/ SvcStart
    BY <2>1, <2>4 DEF SvcStop, SvcStart, Launch, UpInFlight
  <2>5. CASE Reboot
    BY <2>5 DEF Reboot, Interrupted, Launch, UpInFlight
  <2>6. CASE Click \/ OpenBrowser
    BY <2>1, <2>6 DEF Click, OpenBrowser, Launch, UpInFlight
  <2>7. CASE \E o \in Operators : WriteMarker(o) \/ BeginStart(o) \/ Operator(o)
    <3>1. PICK o \in Operators : WriteMarker(o) \/ BeginStart(o) \/ Operator(o)
      BY <2>7
    <3>2. stack' = "absent" /\ dog' = dog
      BY <2>1, <3>1
         DEF Operator, WriteMarker, BeginStart, RequireDocker, TakeDown, TakeDownFails, ClearMarker,
             StartUp, ComposeDown, NextOf, OperatorOnly
    <3>3. marker' => \A q \in Operators : op'[q] # "up"
      BY <2>1, <3>1
         DEF TypeOK, Operator, WriteMarker, BeginStart, RequireDocker, TakeDown, TakeDownFails,
             ClearMarker, StartUp, NextOf
    <3> QED
      BY <2>1, <3>2, <3>3 DEF UpInFlight
  <2>8. CASE UNCHANGED vars
    BY <2>1, <2>8 DEF vars, UpInFlight
  <2> QED
    BY <2>2, <2>3, <2>4, <2>5, <2>6, <2>7, <2>8 DEF Next
<1> QED
  BY <1>1, BackoffTheorem, PTL DEF Spec, StoppedStaysDown

=============================================================================
