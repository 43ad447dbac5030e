---------------------------- MODULE LifecycleRace ----------------------------
(***************************************************************************)
(* Lifecycle with a history variable: whether an explicit full stop has    *)
(* been carried out and not been taken back.                               *)
(***************************************************************************)
EXTENDS Lifecycle

VARIABLE halted     \* history: a stop has taken a stack down, and its marker stands

raceVars == <<vars, halted>>

(* A stop completes: compose down ends containers that were there, behind  *)
(* the marker it has written.                                              *)
StopCompletes ==
    /\ marker /\ stack # "absent"
    /\ \E o \in Operators : op[o] = "down" /\ TakeDown(o)

RaceInit == Init /\ halted = FALSE

RaceNext == Next /\ halted' = (marker' /\ (halted \/ StopCompletes))

RaceSpec == RaceInit /\ [][RaceNext]_raceVars

(* docs/architecture.md: the marker "suppresses recovery after an explicit *)
(* full stop": once a stop has taken the stack down and no command is      *)
(* running, it stays down.  The code does not keep it: a compose up the    *)
(* watchdog began before the marker was written may bring it up again.     *)
NoRecoveryWhileStopped ==
    [][ halted /\ stack = "absent" /\ (\A o \in Operators : op[o] = "idle")
          => stack' = "absent" ]_raceVars

=============================================================================
