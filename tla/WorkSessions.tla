---------------------------- MODULE WorkSessions ----------------------------
(***************************************************************************)
(* The tracking database of LuxTime at the granularity of one committed    *)
(* transaction: what each session endpoint of the API writes to            *)
(* luxtime.work_sessions and luxtime.work_session_segments, under the      *)
(* constraints of the schema.  A request that the service or the schema    *)
(* rejects rolls back, which is a stuttering step here.  A bulk endpoint   *)
(* is a sequence of these steps, one transaction for each session.         *)
(***************************************************************************)
EXTENDS Integers, FiniteSets

CONSTANTS
    Projects,   \* ids of luxtime.projects
    Sessions,   \* ids of luxtime.work_sessions
    Segments,   \* ids of luxtime.work_session_segments
    Reasons,    \* the stop_reason values in use
    MaxTime,    \* bound: the last timestamp of the model
    Horizon,    \* how far ahead of the clock a request's timestamp may lie
    NoRow       \* an id that no row has

Times == 0 .. MaxTime

(* SQL's NULL in ended_at and stopped_at.  The exclusion constraint reads  *)
(* an open segment's end as 'infinity', so NULL lies after every time.     *)
Null == MaxTime + 1

NoReason == "null"

Statuses == {"running", "paused", "stopped"}

(* The columns of a session row, and the CHECKs that relate them: stopped, *)
(* stopped_at and stop_reason come together, and not before started_at.    *)
SessionRow ==
    {row \in [project : Projects, status : Statuses, started : Times,
              stopped : Times \cup {Null}, reason : Reasons \cup {NoReason}] :
        /\ (row.status = "stopped") <=> (row.stopped # Null)
        /\ (row.status = "stopped") <=> (row.reason # NoReason)
        /\ row.started <= row.stopped}

SegmentRow ==
    {row \in [session : Sessions, started : Times, ended : Times \cup {Null}] :
        row.started < row.ended}

ASSUME BoundsAssumption == MaxTime \in Nat /\ Horizon \in Nat
ASSUME ReasonAssumption == NoReason \notin Reasons
ASSUME NoRowAssumption == NoRow \notin SessionRow /\ NoRow \notin SegmentRow

VARIABLES
    project,    \* [Projects -> {"absent", "active", "inactive"}]
    session,    \* the rows of work_sessions
    segment,    \* the rows of work_session_segments
    now         \* the server's clock

vars == <<project, session, segment, now>>

TypeOK ==
    /\ project \in [Projects -> {"absent", "active", "inactive"}]
    /\ session \in [Sessions -> SessionRow \cup {NoRow}]
    /\ segment \in [Segments -> SegmentRow \cup {NoRow}]
    /\ now \in Times

-----------------------------------------------------------------------------
(* Reading the tables. *)

Live(s) == session[s] # NoRow

(* The segment rows of session s in the table tab. *)
SegmentsOf(tab, s) ==
    {g \in Segments : tab[g] # NoRow /\ tab[g].session = s}

OpenSegmentsOf(s) == {g \in SegmentsOf(segment, s) : segment[g].ended = Null}

(* The timestamps a request may carry: "at" defaults to the clock, and an  *)
(* explicit one is not compared with the clock.                            *)
Requestable == {t \in Times : t <= now + Horizon}

(* The exclusion constraint: [) ranges of one session do not overlap.      *)
Disjoint(row, other) ==
    row.ended <= other.started \/ other.ended <= row.started

(* Mutant: the exclusion constraint is missing. *)
SegmentAdmittedAlone(g, row) == row.started < row.ended

(* The constraints on writing a row as segment g. *)
SegmentAdmitted(g, row) ==
    /\ row.started < row.ended
    /\ \A h \in SegmentsOf(segment, row.session) \ {g} : Disjoint(row, segment[h])

(* Mutant: stopping twice is allowed, and rewrites the first stop. *)
TransitionsStopTwice ==
    {<<"running", "pause", "paused">>, <<"running", "stop", "stopped">>,
     <<"paused", "resume", "running">>, <<"paused", "stop", "stopped">>,
     <<"stopped", "stop", "stopped">>}

Transitions ==
    {<<"running", "pause", "paused">>, <<"running", "stop", "stopped">>,
     <<"paused", "resume", "running">>, <<"paused", "stop", "stopped">>}

Moves(s, action, to) == <<session[s].status, action, to>> \in Transitions

(* at is not earlier than MAX(ended_at), which ignores open segments. *)
NotBeforeLastEnd(tab, s, at) ==
    \A g \in SegmentsOf(tab, s) : tab[g].ended # Null => tab[g].ended <= at

-----------------------------------------------------------------------------
(* The transactions. *)

CreateProject(p) ==
    /\ project[p] = "absent"
    /\ project' = [project EXCEPT ![p] = "active"]
    /\ UNCHANGED <<session, segment, now>>

PatchProject(p, active) ==
    /\ project[p] # "absent"
    /\ project' = [project EXCEPT ![p] = IF active THEN "active" ELSE "inactive"]
    /\ UNCHANGED <<session, segment, now>>

Start(s, g, p, at) ==
    /\ ~ Live(s) /\ segment[g] = NoRow
    /\ project[p] = "active"
    /\ session' = [session EXCEPT ![s] =
          [project |-> p, status |-> "running", started |-> at,
           stopped |-> Null, reason |-> NoReason]]
    /\ segment' = [segment EXCEPT ![g] =
          [session |-> s, started |-> at, ended |-> Null]]
    /\ UNCHANGED <<project, now>>

(* Mutant: the UPDATE lacks ended_at IS NULL. *)
CloseSomeSegment(s, at) ==
    \E g \in SegmentsOf(segment, s) :
        /\ segment[g].started < at
        /\ SegmentAdmitted(g, [segment[g] EXCEPT !.ended = at])
        /\ segment' = [segment EXCEPT ![g].ended = at]

(* Mutant: the UPDATE lacks started_at < at. *)
CloseOpenSegmentBackwards(s, at) ==
    \E g \in OpenSegmentsOf(s) : segment' = [segment EXCEPT ![g].ended = at]

(* UPDATE ... SET ended_at = at WHERE ended_at IS NULL AND started_at < at *)
CloseOpenSegment(s, at) ==
    \E g \in OpenSegmentsOf(s) :
        /\ segment[g].started < at
        /\ segment' = [segment EXCEPT ![g].ended = at]

Pause(s, at) ==
    /\ Live(s)
    /\ Moves(s, "pause", "paused")
    /\ CloseOpenSegment(s, at)
    /\ session' = [session EXCEPT ![s].status = "paused"]
    /\ UNCHANGED <<project, now>>

(* Mutant: no segment is inserted. *)
OpenSegmentNot(s, g, at) == UNCHANGED segment

OpenSegment(s, g, at) ==
    LET row == [session |-> s, started |-> at, ended |-> Null]
    IN  /\ segment[g] = NoRow
        /\ SegmentAdmitted(g, row)
        /\ segment' = [segment EXCEPT ![g] = row]

Resume(s, g, at) ==
    /\ Live(s)
    /\ Moves(s, "resume", "running")
    /\ NotBeforeLastEnd(segment, s, at)
    /\ OpenSegment(s, g, at)
    /\ session' = [session EXCEPT ![s].status = "running"]
    /\ UNCHANGED <<project, now>>

(* Mutant: stop leaves an open segment open. *)
EndWorkNot(s, at) == UNCHANGED segment

(* Mutant: stop accepts a running session that has no open segment. *)
EndWorkIfAny(s, at) ==
    CloseOpenSegment(s, at) \/ (OpenSegmentsOf(s) = {} /\ UNCHANGED segment)

EndWork(s, at) ==
    IF session[s].status = "running" THEN CloseOpenSegment(s, at) ELSE UNCHANGED segment

(* Mutant: stop does not record its reason. *)
StopRowUnreasoned(s, at, reason) ==
    [session EXCEPT ![s].status = "stopped", ![s].stopped = at]

StopRow(s, at, reason) ==
    [session EXCEPT ![s].status = "stopped", ![s].stopped = at, ![s].reason = reason]

Stop(s, at, reason) ==
    /\ Live(s)
    /\ Moves(s, "stop", "stopped")
    /\ EndWork(s, at)
    /\ NotBeforeLastEnd(segment', s, at)
    /\ session[s].started <= at
    /\ session' = StopRow(s, at, reason)
    /\ UNCHANGED <<project, now>>

(* PATCH of a session writes any of its descriptive columns; only the      *)
(* project is kept in the model.  Neither the session's status nor whether *)
(* the project is active is looked at.                                     *)
Update(s, p) ==
    /\ Live(s)
    /\ project[p] # "absent"
    /\ session' = [session EXCEPT ![s].project = p]
    /\ UNCHANGED <<project, segment, now>>

(* PATCH of a segment gives it a start, an end, or both, never a NULL.     *)
SegmentPatch(row, from, to) ==
    {[row EXCEPT !.started = from],
     [row EXCEPT !.ended = to],
     [session |-> row.session, started |-> from, ended |-> to]}

(* first and last are MIN(started_at) and MAX(ended_at) of the session's   *)
(* segments in tab; last is Null when all of them are open.                *)
IsBounds(tab, s, first, last) ==
    /\ \E g \in SegmentsOf(tab, s) : tab[g].started = first
    /\ \A g \in SegmentsOf(tab, s) : first <= tab[g].started
    /\ NotBeforeLastEnd(tab, s, last)
    /\ \/ \E g \in SegmentsOf(tab, s) : tab[g].ended = last /\ last # Null
       \/ last = Null /\ \A g \in SegmentsOf(tab, s) : tab[g].ended = Null

(* Mutant: the session's own columns are not recomputed. *)
KeepBounds(s) == UNCHANGED session

(* The UPDATE of the session that follows the one of the segment. *)
RefreshBounds(s) ==
    \E first \in Times, last \in Times \cup {Null} :
        /\ IsBounds(segment', s, first, last)
        /\ session[s].status = "stopped" => last # Null /\ first <= last
        /\ session' = [session EXCEPT
              ![s].started = first,
              ![s].stopped = IF session[s].status = "stopped" THEN last ELSE @]

CorrectSegment(g, row) ==
    /\ segment[g] # NoRow
    /\ SegmentAdmitted(g, row)
    /\ segment' = [segment EXCEPT ![g] = row]
    /\ RefreshBounds(segment[g].session)
    /\ UNCHANGED <<project, now>>

Delete(s) ==
    /\ Live(s)
    /\ session' = [session EXCEPT ![s] = NoRow]
    /\ segment' = [g \in Segments |->
                      IF g \in SegmentsOf(segment, s) THEN NoRow ELSE segment[g]]
    /\ UNCHANGED <<project, now>>

Tick ==
    /\ now < MaxTime
    /\ now' = now + 1
    /\ UNCHANGED <<project, session, segment>>

-----------------------------------------------------------------------------

Init ==
    /\ project = [p \in Projects |-> "absent"]
    /\ session = [s \in Sessions |-> NoRow]
    /\ segment = [g \in Segments |-> NoRow]
    /\ now = 0

CorrectSomeSegment ==
    \E g \in Segments, from, to \in Requestable :
        /\ segment[g] # NoRow
        /\ \E row \in SegmentPatch(segment[g], from, to) : CorrectSegment(g, row)

Next ==
    \/ \E p \in Projects : CreateProject(p)
    \/ \E p \in Projects, active \in BOOLEAN : PatchProject(p, active)
    \/ \E s \in Sessions, g \in Segments, p \in Projects, at \in Requestable :
          Start(s, g, p, at)
    \/ \E s \in Sessions, at \in Requestable : Pause(s, at)
    \/ \E s \in Sessions, g \in Segments, at \in Requestable : Resume(s, g, at)
    \/ \E s \in Sessions, at \in Requestable, reason \in Reasons : Stop(s, at, reason)
    \/ \E s \in Sessions, p \in Projects : Update(s, p)
    \/ CorrectSomeSegment
    \/ \E s \in Sessions : Delete(s)
    \/ Tick

Spec == Init /\ [][Next]_vars

-----------------------------------------------------------------------------
(* Safety. *)

(* db/verify/verify.sql: "Paused and stopped sessions cannot have open     *)
(* segments".  No constraint of the schema says so: it rests on pause,     *)
(* stop and correct_segment together.                                      *)
QuietSessionsAreClosed ==
    \A s \in Sessions :
        Live(s) /\ session[s].status # "running" => OpenSegmentsOf(s) = {}

(* db/verify/verify.sql: "Every running session must have exactly one open *)
(* segment".  The code does not keep it: correct_segment may end the open  *)
(* segment of a running session.                                           *)
RunningSessionsAreOpen ==
    \A s \in Sessions :
        Live(s) /\ session[s].status = "running" => Cardinality(OpenSegmentsOf(s)) = 1

(* The columns of a session that repeat what its segments say agree with   *)
(* them after every start, stop and correction: started_at is the earliest *)
(* start, and a stopped session has no segment ending after stopped_at.    *)
SessionRowCoversItsSegments ==
    \A s \in Sessions :
        Live(s) =>
            /\ \E g \in SegmentsOf(segment, s) : segment[g].started = session[s].started
            /\ \A g \in SegmentsOf(segment, s) :
                  /\ session[s].started <= segment[g].started
                  /\ session[s].status = "stopped" => segment[g].ended <= session[s].stopped

(* The segments of a session do not overlap, so its total is the sum of    *)
(* their lengths, and no segment outlives its session.                     *)
SegmentsAreDisjoint ==
    \A g \in Segments :
        segment[g] # NoRow =>
            /\ Live(segment[g].session)
            /\ \A h \in SegmentsOf(segment, segment[g].session) \ {g} :
                  Disjoint(segment[g], segment[h])

(* The inductive strengthening behind the theorems of WorkSessionsProofs.  *)
TrackingInvariant ==
    /\ TypeOK
    /\ SegmentsAreDisjoint
    /\ QuietSessionsAreClosed
    /\ SessionRowCoversItsSegments

-----------------------------------------------------------------------------
(* What a step may never do. *)

Stranded(s) ==
    Live(s) /\ session[s].status = "running" /\ OpenSegmentsOf(s) = {}

(* Only a correction can take the open segment away from a session that    *)
(* goes on running.                                                        *)
OnlyCorrectionStrands ==
    [][ \A s \in Sessions : ~ Stranded(s) /\ Stranded(s)' => CorrectSomeSegment ]_vars

(* A running session without an open segment can only be deleted: pause    *)
(* and stop report a conflict, resume refuses a running session, and no    *)
(* correction reopens a segment.                                           *)
StrandedForGood ==
    [][ \A s \in Sessions : Stranded(s) => Stranded(s)' \/ ~ Live(s)' ]_vars

(* Listing sessions builds tstzrange(started_at, COALESCE(ended_at, now)), *)
(* which is an error for an open segment that starts after the clock.      *)
Inverted(g) ==
    segment[g] # NoRow /\ segment[g].ended = Null /\ now < segment[g].started

(* The query joins the segments of different sessions: a list that meets   *)
(* an inverted range is answered with "Database unavailable".              *)
ListingFails ==
    \E g, h \in Segments :
        Inverted(g) /\ segment[h] # NoRow /\ segment[h].session # segment[g].session

(* A list broken by one request with a time ahead of the clock stays so,   *)
(* whoever asks for what: only waiting, a deletion, a correction, or a     *)
(* pause or stop that carries a time still further ahead mends it.  The    *)
(* pause and stop of the web client and the tray, which carry none, never  *)
(* do.                                                                     *)
FailingListStays ==
    [][ ListingFails /\ ~ ListingFails' =>
          \/ Tick
          \/ CorrectSomeSegment
          \/ \E s \in Sessions : Delete(s)
          \/ \E g \in Segments :
                /\ Inverted(g) /\ segment'[g] # NoRow
                /\ segment'[g].ended # Null
                /\ segment[g].started < segment'[g].ended ]_vars

(* Stopping is final: a stopped session keeps its stop reason and its set  *)
(* of segments until it is deleted, and no segment of it is open again.    *)
StoppedIsFinal ==
    [][ \A s \in Sessions :
          Live(s) /\ session[s].status = "stopped" /\ Live(s)' =>
             /\ session[s].status' = "stopped"
             /\ session[s].reason' = session[s].reason
             /\ SegmentsOf(segment, s)' = SegmentsOf(segment, s)
             /\ OpenSegmentsOf(s)' = {} ]_vars

(* Recorded time is history: a closed segment changes only when somebody   *)
(* corrects that segment, and disappears only with its session.            *)
RecordedTimeIsKept ==
    [][ \A g \in Segments :
          segment[g] # NoRow /\ segment[g].ended # Null =>
             \/ segment'[g] = segment[g]
             \/ segment'[g] = NoRow /\ session'[segment[g].session] = NoRow
             \/ /\ CorrectSomeSegment
                /\ \A h \in Segments \ {g} : segment'[h] = segment[h] ]_vars

-----------------------------------------------------------------------------
(* Implementing the ledger: a session's status and the intervals of its    *)
(* segments, without ids, projects, reasons or repeated columns.           *)

LedgerStatus == [s \in Sessions |-> IF Live(s) THEN session[s].status ELSE "absent"]

LedgerWork ==
    [s \in Sessions |->
        {<<segment[g].started, segment[g].ended>> : g \in SegmentsOf(segment, s)}]

Ledger == INSTANCE SessionLedger WITH status <- LedgerStatus, work <- LedgerWork

(* Every committed transaction is a step of the ledger.                    *)
ImplementsLedger == Ledger!Spec

=============================================================================
