---------------------------- MODULE SessionLedger ----------------------------
(***************************************************************************)
(* What tracking promises about one session at a time, without ids, rows   *)
(* or locks: a status, and a set of disjoint stretches of work of which    *)
(* only a running session may have an open one.  Pausing and stopping      *)
(* close the open stretch, resuming opens a new one behind the others, a   *)
(* correction moves one stretch and opens none, stopping is final.         *)
(* WorkSessions and SessionTransactions implement it.                      *)
(***************************************************************************)
EXTENDS Integers

CONSTANTS
    Sessions,   \* the sessions
    MaxTime     \* bound: the last timestamp

Times == 0 .. MaxTime
Never == MaxTime + 1    \* the end of an open stretch

Stretches == {w \in Times \X (Times \cup {Never}) : w[1] < w[2]}

VARIABLES
    status,     \* of each session, "absent" before it starts and once deleted
    work        \* the stretches of work of each session

vars == <<status, work>>

TypeOK ==
    /\ status \in [Sessions -> {"absent", "running", "paused", "stopped"}]
    /\ work \in [Sessions -> SUBSET Stretches]

Apart(v, w) == v[2] <= w[1] \/ w[2] <= v[1]

(* Session s changes from one status to another, its stretches to ws. *)
Becomes(s, from, to, ws) ==
    /\ status[s] = from
    /\ status' = [status EXCEPT ![s] = to]
    /\ work' = [work EXCEPT ![s] = ws]

Closed(s) == \A w \in work[s] : w[2] # Never

Start(s, at) == Becomes(s, "absent", "running", {<<at, Never>>})

(* The open stretch of s ends at a time after its start. *)
Closing(s, at, to) ==
    \E w \in work[s] :
        /\ w[2] = Never /\ w[1] < at
        /\ Becomes(s, "running", to, (work[s] \ {w}) \cup {<<w[1], at>>})

Pause(s, at) == Closing(s, at, "paused")

Resume(s, at) ==
    /\ Closed(s) /\ \A w \in work[s] : w[2] <= at
    /\ Becomes(s, "paused", "running", work[s] \cup {<<at, Never>>})

Stop(s, at) ==
    \/ Closing(s, at, "stopped")
    \/ Closed(s) /\ Becomes(s, "paused", "stopped", work[s])

Correct(s, w, v) ==
    /\ w \in work[s] /\ (v[2] # Never \/ w[2] = Never)
    /\ \A u \in work[s] \ {w} : Apart(u, v)
    /\ Becomes(s, status[s], status[s], (work[s] \ {w}) \cup {v})

Delete(s) ==
    /\ status[s] # "absent"
    /\ Becomes(s, status[s], "absent", {})

Init ==
    /\ status = [s \in Sessions |-> "absent"]
    /\ work = [s \in Sessions |-> {}]

Next ==
    \E s \in Sessions :
        \/ \E at \in Times : Start(s, at) \/ Pause(s, at) \/ Resume(s, at) \/ Stop(s, at)
        \/ \E w \in work[s], v \in Stretches : Correct(s, w, v)
        \/ Delete(s)

Spec == Init /\ [][Next]_vars

=============================================================================
