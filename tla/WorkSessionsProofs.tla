------------------------- MODULE WorkSessionsProofs -------------------------
(***************************************************************************)
(* Theorems about WorkSessions, for every set of ids and every bound.      *)
(***************************************************************************)
EXTENDS WorkSessions, TLAPS

USE BoundsAssumption, NoRowAssumption, ReasonAssumption
DEF Times, Null, Disjoint, OpenSegment, EndWork, StopRow, RefreshBounds

-----------------------------------------------------------------------------
(* Rows. *)

LEMMA SegmentRowFields ==
    ASSUME NEW row \in SegmentRow
    PROVE  /\ row.session \in Sessions /\ row.started \in Times
           /\ row.ended \in Times \cup {Null} /\ row.started < row.ended
BY DEF SegmentRow

LEMMA SegmentRowIntro ==
    ASSUME NEW s \in Sessions, NEW from \in Times, NEW to \in Times \cup {Null}, from < to
    PROVE  [session |-> s, started |-> from, ended |-> to] \in SegmentRow
BY DEF SegmentRow

LEMMA SessionRowFields ==
    ASSUME NEW row \in SessionRow
    PROVE  /\ row.project \in Projects /\ row.status \in Statuses /\ row.started \in Times
           /\ row.stopped \in Times \cup {Null} /\ row.reason \in Reasons \cup {NoReason}
           /\ (row.status = "stopped") <=> (row.stopped # Null)
           /\ (row.status = "stopped") <=> (row.reason # NoReason)
           /\ row.started <= row.stopped
BY DEF SessionRow

-----------------------------------------------------------------------------
(* Writing one segment. *)

(* A row that the schema admits beside its siblings keeps all segments     *)
(* disjoint, whichever endpoint writes it.                                 *)
LEMMA WriteSegmentLemma ==
    ASSUME TypeOK, SegmentsAreDisjoint,
           NEW g \in Segments, NEW row \in SegmentRow,
           SegmentAdmitted(g, row),
           segment' = [segment EXCEPT ![g] = row],
           session'[row.session] # NoRow,
           \A s \in Sessions : Live(s) => session'[s] # NoRow
    PROVE  SegmentsAreDisjoint'
<1>1. segment'[g] = row /\ \A h \in Segments \ {g} : segment'[h] = segment[h]
  BY DEF TypeOK
<1>2. ASSUME NEW h \in Segments, segment'[h] # NoRow
      PROVE  segment'[h] \in SegmentRow /\ session'[segment'[h].session] # NoRow
  <2>1. CASE h = g
    BY <1>1, <2>1
  <2>2. CASE h # g
    <3>1. segment[h] \in SegmentRow /\ segment'[h] = segment[h]
      BY <1>1, <1>2, <2>2 DEF TypeOK
    <3> QED BY <1>2, <3>1, SegmentRowFields DEF SegmentsAreDisjoint, Live
  <2> QED BY <2>1, <2>2
<1>3. ASSUME NEW h \in Segments, segment'[h] # NoRow,
             NEW k \in Segments \ {h}, segment'[k] # NoRow,
             segment'[k].session = segment'[h].session
      PROVE  \/ segment'[k].ended <= segment'[h].started
             \/ segment'[h].ended <= segment'[k].started
  <2>1. CASE h = g
    BY <1>1, <1>3, <2>1 DEF SegmentAdmitted, SegmentsOf
  <2>2. CASE k = g
    BY <1>1, <1>3, <2>2 DEF SegmentAdmitted, SegmentsOf
  <2>3. CASE h # g /\ k # g
    BY <1>1, <1>3, <2>3 DEF SegmentsAreDisjoint, SegmentAdmitted, SegmentsOf
  <2> QED BY <2>1, <2>2, <2>3
<1> QED BY <1>2, <1>3 DEF SegmentsAreDisjoint, SegmentsOf, Live

(* Closing the open segment of a session rewrites one row, the last one of *)
(* the session, and the schema admits the row it becomes.                  *)
LEMMA CloseOpenSegmentLemma ==
    ASSUME TypeOK, SegmentsAreDisjoint, NEW s \in Sessions, NEW at \in Times,
           CloseOpenSegment(s, at)
    PROVE  \E g \in Segments, row \in SegmentRow :
              /\ segment[g] \in SegmentRow /\ segment[g].session = s
              /\ segment[g].ended = Null /\ segment[g].started < at
              /\ row.session = s /\ row.started = segment[g].started /\ row.ended = at
              /\ segment' = [segment EXCEPT ![g] = row]
              /\ SegmentAdmitted(g, row)
              /\ OpenSegmentsOf(s) = {g}
              /\ \A h \in SegmentsOf(segment, s) \ {g} :
                    segment[h].ended <= segment[g].started
<1>1. PICK g \in OpenSegmentsOf(s) :
          segment[g].started < at /\ segment' = [segment EXCEPT ![g].ended = at]
  BY DEF CloseOpenSegment
<1>2. /\ g \in Segments /\ segment[g] \in SegmentRow /\ segment[g] # NoRow
      /\ segment[g].session = s /\ segment[g].ended = Null
  BY <1>1 DEF OpenSegmentsOf, SegmentsOf, TypeOK
<1> DEFINE row == [segment[g] EXCEPT !.ended = at]
<1>3. row \in SegmentRow /\ row.session = s /\ row.started = segment[g].started /\ row.ended = at
  BY <1>1, <1>2 DEF SegmentRow
<1>4. segment' = [segment EXCEPT ![g] = row]
  BY <1>1
<1>5. ASSUME NEW h \in SegmentsOf(segment, s) \ {g}
      PROVE  segment[h].ended <= segment[g].started
  <2>1. h \in Segments /\ segment[h].started \in Times
    BY <1>5 DEF SegmentsOf, TypeOK, SegmentRow
  <2>2. segment[h].ended <= segment[g].started \/ Null <= segment[h].started
    BY <1>2, <1>5 DEF SegmentsAreDisjoint, SegmentAdmitted, SegmentsOf
  <2> QED BY <2>1, <2>2
<1>6. SegmentAdmitted(g, row)
  BY <1>1, <1>3, <1>5 DEF SegmentAdmitted
<1>7. OpenSegmentsOf(s) = {g}
  <2>1. segment[g].started \in Times
    BY <1>2 DEF SegmentRow
  <2>2. \A h \in OpenSegmentsOf(s) \ {g} : Null <= segment[g].started
    BY <1>5 DEF OpenSegmentsOf
  <2> QED BY <1>1, <2>1, <2>2
<1> HIDE DEF row
<1> QED BY <1>1, <1>2, <1>3, <1>4, <1>5, <1>6, <1>7

-----------------------------------------------------------------------------
(* One lemma for each transaction. *)

LEMMA StartStep ==
    ASSUME TrackingInvariant, NEW s \in Sessions, NEW g \in Segments,
           NEW p \in Projects, NEW at \in Times, Start(s, g, p, at)
    PROVE  TrackingInvariant'
<1> DEFINE row == [session |-> s, started |-> at, ended |-> Null]
           new == [project |-> p, status |-> "running", started |-> at,
                   stopped |-> Null, reason |-> NoReason]
<1>1. row \in SegmentRow /\ new \in SessionRow
  BY DEF SegmentRow, SessionRow, Statuses
<1>2. SegmentsOf(segment, s) = {}
  BY DEF TrackingInvariant, TypeOK, SegmentsAreDisjoint, SegmentsOf, Live, Start
<1>3. /\ segment' = [segment EXCEPT ![g] = row] /\ session' = [session EXCEPT ![s] = new]
      /\ UNCHANGED <<project, now>> /\ segment[g] = NoRow
  BY DEF Start
<1>4. TypeOK'
  BY <1>1, <1>3 DEF TrackingInvariant, TypeOK
<1>5. SegmentsAreDisjoint'
  <2>1. SegmentAdmitted(g, row)
    BY <1>2 DEF SegmentAdmitted
  <2>2. session'[row.session] # NoRow
        /\ \A t \in Sessions : Live(t) => session'[t] # NoRow
    BY <1>1, <1>3 DEF TrackingInvariant, TypeOK, Live
  <2> QED BY <1>1, <1>3, <2>1, <2>2, WriteSegmentLemma DEF TrackingInvariant
<1>6. segment'[g] = row /\ session'[s] = new
      /\ (\A h \in Segments \ {g} : segment'[h] = segment[h])
      /\ (\A t \in Sessions \ {s} : session'[t] = session[t])
  BY <1>3 DEF TrackingInvariant, TypeOK
<1>7. SegmentsOf(segment, s)' = {g}
      /\ \A t \in Sessions \ {s} : SegmentsOf(segment, t)' = SegmentsOf(segment, t)
  BY <1>1, <1>2, <1>3, <1>6 DEF SegmentsOf
<1>8. QuietSessionsAreClosed'
  BY <1>6, <1>7 DEF TrackingInvariant, QuietSessionsAreClosed, OpenSegmentsOf, Live, SegmentsOf
<1>9. SessionRowCoversItsSegments'
  BY <1>3, <1>6, <1>7 DEF TrackingInvariant, SessionRowCoversItsSegments, Live, SegmentsOf
<1> QED BY <1>4, <1>5, <1>8, <1>9 DEF TrackingInvariant

LEMMA PauseStep ==
    ASSUME TrackingInvariant, NEW s \in Sessions, NEW at \in Times, Pause(s, at)
    PROVE  TrackingInvariant'
<1>1. PICK g \in Segments, row \in SegmentRow :
          /\ segment[g] \in SegmentRow /\ segment[g].session = s
          /\ segment[g].ended = Null /\ segment[g].started < at
          /\ row.session = s /\ row.started = segment[g].started /\ row.ended = at
          /\ segment' = [segment EXCEPT ![g] = row]
          /\ SegmentAdmitted(g, row)
          /\ OpenSegmentsOf(s) = {g}
  BY CloseOpenSegmentLemma DEF Pause, TrackingInvariant
<1>2. /\ session[s] \in SessionRow /\ session' = [session EXCEPT ![s].status = "paused"]
      /\ session[s].status = "running" /\ UNCHANGED <<project, now>>
  BY DEF Pause, Live, Moves, Transitions, TrackingInvariant, TypeOK
<1>3. /\ session'[s] \in SessionRow /\ session'[s].status = "paused"
      /\ session'[s].started = session[s].started
      /\ \A t \in Sessions \ {s} : session'[t] = session[t]
  BY <1>2 DEF TrackingInvariant, TypeOK, SessionRow, Statuses
<1>4. TypeOK'
  BY <1>1, <1>2, <1>3 DEF TrackingInvariant, TypeOK
<1>5. SegmentsAreDisjoint'
  <2>1. session'[row.session] # NoRow
        /\ \A t \in Sessions : Live(t) => session'[t] # NoRow
    BY <1>1, <1>3 DEF Live
  <2> QED BY <1>1, <2>1, WriteSegmentLemma DEF TrackingInvariant
<1>6. segment'[g] = row /\ \A h \in Segments \ {g} : segment'[h] = segment[h]
  BY <1>1 DEF TrackingInvariant, TypeOK
<1>7. \A t \in Sessions : SegmentsOf(segment, t)' = SegmentsOf(segment, t)
  BY <1>1, <1>6 DEF SegmentsOf
<1>8. QuietSessionsAreClosed'
  <2>1. OpenSegmentsOf(s)' = {}
    BY <1>1, <1>6, <1>7 DEF OpenSegmentsOf, SegmentsOf
  <2>2. \A t \in Sessions \ {s} : OpenSegmentsOf(t)' = OpenSegmentsOf(t)
    BY <1>1, <1>6, <1>7 DEF OpenSegmentsOf, SegmentsOf
  <2> QED BY <1>3, <2>1, <2>2 DEF TrackingInvariant, QuietSessionsAreClosed, Live
<1>9. SessionRowCoversItsSegments'
  BY <1>1, <1>2, <1>3, <1>6, <1>7
  DEF TrackingInvariant, SessionRowCoversItsSegments, Live, SegmentsOf
<1> QED BY <1>4, <1>5, <1>8, <1>9 DEF TrackingInvariant

LEMMA ResumeStep ==
    ASSUME TrackingInvariant, NEW s \in Sessions, NEW g \in Segments,
           NEW at \in Times, Resume(s, g, at)
    PROVE  TrackingInvariant'
<1> DEFINE row == [session |-> s, started |-> at, ended |-> Null]
<1>1. row \in SegmentRow
  BY DEF SegmentRow
<1>2. /\ segment[g] = NoRow /\ SegmentAdmitted(g, row)
      /\ segment' = [segment EXCEPT ![g] = row]
      /\ session' = [session EXCEPT ![s].status = "running"]
      /\ session[s] \in SessionRow /\ session[s].status = "paused"
      /\ NotBeforeLastEnd(segment, s, at)
      /\ UNCHANGED <<project, now>>
  BY DEF Resume, Live, Moves, Transitions, TrackingInvariant, TypeOK
<1>3. /\ session'[s] \in SessionRow /\ session'[s].status = "running"
      /\ session'[s].started = session[s].started
      /\ \A t \in Sessions \ {s} : session'[t] = session[t]
  BY <1>2 DEF TrackingInvariant, TypeOK, SessionRow, Statuses
<1>4. TypeOK'
  BY <1>1, <1>2, <1>3 DEF TrackingInvariant, TypeOK
<1>5. SegmentsAreDisjoint'
  <2>1. session'[row.session] # NoRow
        /\ \A t \in Sessions : Live(t) => session'[t] # NoRow
    BY <1>3 DEF Live
  <2> QED BY <1>1, <1>2, <2>1, WriteSegmentLemma DEF TrackingInvariant
<1>6. segment'[g] = row /\ \A h \in Segments \ {g} : segment'[h] = segment[h]
  BY <1>2 DEF TrackingInvariant, TypeOK
<1>7. /\ SegmentsOf(segment, s)' = SegmentsOf(segment, s) \cup {g}
      /\ \A t \in Sessions \ {s} : SegmentsOf(segment, t)' = SegmentsOf(segment, t)
  BY <1>1, <1>2, <1>6 DEF SegmentsOf
<1>8. QuietSessionsAreClosed'
  BY <1>2, <1>3, <1>6, <1>7
  DEF TrackingInvariant, QuietSessionsAreClosed, OpenSegmentsOf, Live, SegmentsOf
<1>9. SessionRowCoversItsSegments'
  <2>1. PICK h \in SegmentsOf(segment, s) : segment[h].started = session[s].started
    BY <1>2 DEF TrackingInvariant, SessionRowCoversItsSegments, Live
  <2>2. /\ h # g /\ h \in Segments /\ segment[h] \in SegmentRow
        /\ segment[h].ended # Null /\ segment[h].started < segment[h].ended
    BY <1>2, <2>1, SegmentRowFields
    DEF TrackingInvariant, TypeOK, QuietSessionsAreClosed, OpenSegmentsOf, Live, SegmentsOf
  <2>3. session[s].started <= at
    BY <1>2, <2>1, <2>2 DEF NotBeforeLastEnd, SegmentRow
  <2>4. /\ segment'[h].started = session'[s].started /\ h \in SegmentsOf(segment, s)'
        /\ \A k \in SegmentsOf(segment, s)' : session'[s].started <= segment'[k].started
    BY <1>2, <1>3, <1>6, <1>7, <2>1, <2>2, <2>3
    DEF TrackingInvariant, SessionRowCoversItsSegments, Live, SegmentsOf
  <2> QED BY <1>3, <1>6, <1>7, <2>4
          DEF TrackingInvariant, SessionRowCoversItsSegments, Live, SegmentsOf
<1> QED BY <1>4, <1>5, <1>8, <1>9 DEF TrackingInvariant

LEMMA StopStep ==
    ASSUME TrackingInvariant, NEW s \in Sessions, NEW at \in Times,
           NEW reason \in Reasons, Stop(s, at, reason)
    PROVE  TrackingInvariant'
<1>1. /\ session[s] \in SessionRow /\ session[s].status \in {"running", "paused"}
      /\ session' = [session EXCEPT ![s].status = "stopped", ![s].stopped = at,
                                    ![s].reason = reason]
      /\ NotBeforeLastEnd(segment', s, at)
      /\ UNCHANGED <<project, now>>
  BY DEF Stop, Live, Moves, Transitions, TrackingInvariant, TypeOK
<1>2. /\ session'[s] \in SessionRow /\ session'[s].status = "stopped"
      /\ session'[s].started = session[s].started /\ session'[s].stopped = at
      /\ \A t \in Sessions \ {s} : session'[t] = session[t]
  BY <1>1 DEF TrackingInvariant, TypeOK, SessionRow, Statuses
<1>3. \A t \in Sessions : Live(t) => session'[t] # NoRow
  BY <1>2 DEF Live
<1>4. CASE session[s].status = "running"
  <2>1. PICK g \in Segments, row \in SegmentRow :
          /\ segment[g] \in SegmentRow /\ segment[g].session = s
          /\ segment[g].ended = Null /\ segment[g].started < at
          /\ row.session = s /\ row.started = segment[g].started /\ row.ended = at
          /\ segment' = [segment EXCEPT ![g] = row]
          /\ SegmentAdmitted(g, row)
          /\ OpenSegmentsOf(s) = {g}
    BY <1>4, CloseOpenSegmentLemma DEF Stop, TrackingInvariant
  <2>2. TypeOK'
    BY <1>1, <1>2, <2>1 DEF TrackingInvariant, TypeOK
  <2>3. SegmentsAreDisjoint'
    BY <1>2, <1>3, <2>1, WriteSegmentLemma DEF TrackingInvariant
  <2>4. segment'[g] = row /\ \A h \in Segments \ {g} : segment'[h] = segment[h]
    BY <2>1 DEF TrackingInvariant, TypeOK
  <2>5. \A t \in Sessions : SegmentsOf(segment, t)' = SegmentsOf(segment, t)
    BY <2>1, <2>4 DEF SegmentsOf
  <2>6. OpenSegmentsOf(s)' = {}
        /\ \A t \in Sessions \ {s} : OpenSegmentsOf(t)' = OpenSegmentsOf(t)
    BY <2>1, <2>4, <2>5 DEF OpenSegmentsOf, SegmentsOf
  <2>7. QuietSessionsAreClosed'
    BY <1>2, <2>6 DEF TrackingInvariant, QuietSessionsAreClosed, Live
  <2>8. \A h \in SegmentsOf(segment, s)' : segment'[h].ended <= at
    BY <1>1, <2>6 DEF NotBeforeLastEnd, OpenSegmentsOf, SegmentsOf
  <2>9. \A h \in Segments : segment[h] # NoRow =>
           segment'[h].started = segment[h].started
    BY <2>1, <2>4
  <2>10. \A t \in Sessions \ {s} : \A h \in SegmentsOf(segment, t) : segment'[h] = segment[h]
    BY <2>1, <2>4 DEF SegmentsOf
  <2>11. /\ \E h \in SegmentsOf(segment, s) : segment'[h].started = session'[s].started
         /\ \A h \in SegmentsOf(segment, s) : session'[s].started <= segment'[h].started
    <3>1. /\ \E h \in SegmentsOf(segment, s) : segment[h].started = session[s].started
          /\ \A h \in SegmentsOf(segment, s) : session[s].started <= segment[h].started
      BY <1>1 DEF TrackingInvariant, SessionRowCoversItsSegments, Live
    <3>2. \A h \in SegmentsOf(segment, s) : segment'[h].started = segment[h].started
      BY <2>9 DEF SegmentsOf
    <3> QED BY <1>2, <3>1, <3>2
  <2>12. SessionRowCoversItsSegments'
    BY <1>2, <2>5, <2>8, <2>10, <2>11
    DEF TrackingInvariant, SessionRowCoversItsSegments, Live
  <2> QED BY <2>2, <2>3, <2>7, <2>12 DEF TrackingInvariant
<1>5. CASE session[s].status = "paused"
  <2>1. UNCHANGED segment
    BY <1>5 DEF Stop
  <2>2. TypeOK'
    BY <1>1, <1>2, <2>1 DEF TrackingInvariant, TypeOK
  <2>3. SegmentsAreDisjoint'
    BY <1>3, <2>1
    DEF TrackingInvariant, SegmentsAreDisjoint, SegmentAdmitted, SegmentsOf, Live,
        TypeOK, SegmentRow
  <2>4. OpenSegmentsOf(s) = {}
    BY <1>1, <1>5 DEF TrackingInvariant, QuietSessionsAreClosed, Live
  <2>5. QuietSessionsAreClosed'
    BY <1>2, <2>1, <2>4
    DEF TrackingInvariant, QuietSessionsAreClosed, OpenSegmentsOf, SegmentsOf, Live
  <2>6. \A h \in SegmentsOf(segment, s) : segment[h].ended <= at
    BY <1>1, <2>1, <2>4 DEF NotBeforeLastEnd, OpenSegmentsOf, SegmentsOf
  <2>7. SessionRowCoversItsSegments'
    <3>1. \A t \in Sessions : SegmentsOf(segment, t)' = SegmentsOf(segment, t)
      BY <2>1 DEF SegmentsOf
    <3>2. /\ \E h \in SegmentsOf(segment, s) : segment'[h].started = session'[s].started
          /\ \A h \in SegmentsOf(segment, s) : session'[s].started <= segment'[h].started
      BY <1>1, <1>2, <2>1 DEF TrackingInvariant, SessionRowCoversItsSegments, Live
    <3> QED BY <1>2, <2>1, <2>6, <3>1, <3>2
            DEF TrackingInvariant, SessionRowCoversItsSegments, Live
  <2> QED BY <2>2, <2>3, <2>5, <2>7 DEF TrackingInvariant
<1> QED BY <1>1, <1>4, <1>5

(* A patched row is a row of the same session, reopened by no patch.       *)
LEMMA PatchLemma ==
    ASSUME NEW old \in SegmentRow, NEW from \in Times, NEW to \in Times,
           NEW row \in SegmentPatch(old, from, to), row.started < row.ended
    PROVE  /\ row \in SegmentRow /\ row.session = old.session
           /\ row.ended # Null \/ row.ended = old.ended
<1>1. CASE row = [old EXCEPT !.started = from]
  BY <1>1 DEF SegmentRow
<1>2. CASE row = [old EXCEPT !.ended = to]
  BY <1>2 DEF SegmentRow
<1>3. CASE row = [session |-> old.session, started |-> from, ended |-> to]
  BY <1>3, SegmentRowFields, SegmentRowIntro
<1> QED BY <1>1, <1>2, <1>3 DEF SegmentPatch

(* A correction may move a segment anywhere the schema admits; the bounds  *)
(* it writes back are those of the corrected segments.                     *)
LEMMA CorrectSegmentStep ==
    ASSUME TrackingInvariant, NEW g \in Segments, NEW row \in SegmentRow,
           CorrectSegment(g, row), row.session = segment[g].session,
           row.ended # Null \/ row.ended = segment[g].ended
    PROVE  TrackingInvariant'
<1> PICK s \in Sessions : segment[g] \in SegmentRow /\ s = segment[g].session
  BY DEF CorrectSegment, TrackingInvariant, TypeOK, SegmentRow
<1>1. /\ segment[g] \in SegmentRow /\ row.session = s
      /\ SegmentAdmitted(g, row)
      /\ segment' = [segment EXCEPT ![g] = row]
      /\ UNCHANGED <<project, now>>
  BY DEF CorrectSegment, TrackingInvariant, TypeOK, SegmentRow
<1>2. session[s] \in SessionRow
  BY <1>1, segment[g] # NoRow DEF TrackingInvariant, SegmentsAreDisjoint, TypeOK, Live
<1>3. PICK first \in Times, last \in Times \cup {Null} :
          /\ IsBounds(segment', s, first, last)
          /\ session[s].status = "stopped" => last # Null /\ first <= last
          /\ session' = [session EXCEPT
                ![s].started = first,
                ![s].stopped = IF session[s].status = "stopped" THEN last ELSE @]
  BY DEF CorrectSegment
<1>4. /\ session'[s] \in SessionRow /\ session'[s].status = session[s].status
      /\ session'[s].started = first
      /\ session[s].status = "stopped" => session'[s].stopped = last
      /\ \A t \in Sessions \ {s} : session'[t] = session[t]
  <2>1. CASE session[s].status = "stopped"
    BY <1>2, <1>3, <2>1 DEF TrackingInvariant, TypeOK, SessionRow
  <2>2. CASE session[s].status # "stopped"
    <3>1. session[s].stopped = Null /\ first <= session[s].stopped
      BY <1>2, <2>2, SessionRowFields
    <3>2. session' = [session EXCEPT ![s].started = first]
      BY <1>2, <1>3, <2>2 DEF TrackingInvariant, TypeOK, SessionRow
    <3> QED BY <1>2, <2>2, <3>1, <3>2 DEF TrackingInvariant, TypeOK, SessionRow
  <2> QED BY <2>1, <2>2
<1>5. \A t \in Sessions : Live(t) => session'[t] # NoRow
  BY <1>4 DEF Live
<1>6. TypeOK'
  BY <1>1, <1>3, <1>4 DEF TrackingInvariant, TypeOK
<1>7. SegmentsAreDisjoint'
  BY <1>1, <1>4, <1>5, WriteSegmentLemma DEF TrackingInvariant
<1>8. segment'[g] = row /\ \A h \in Segments \ {g} : segment'[h] = segment[h]
  BY <1>1 DEF TrackingInvariant, TypeOK
<1>9. \A t \in Sessions : SegmentsOf(segment, t)' = SegmentsOf(segment, t)
  BY <1>1, <1>8 DEF SegmentsOf
<1>10. \A t \in Sessions : OpenSegmentsOf(t)' \subseteq OpenSegmentsOf(t)
  BY <1>1, <1>8, <1>9 DEF OpenSegmentsOf, SegmentsOf
<1>11. QuietSessionsAreClosed'
  BY <1>4, <1>10, <1>2 DEF TrackingInvariant, QuietSessionsAreClosed, Live
<1>12. SessionRowCoversItsSegments'
  <2>1. ASSUME session[s].status = "stopped"
        PROVE  \A h \in SegmentsOf(segment, s)' : segment'[h].ended <= last
    <3>1. \A h \in SegmentsOf(segment, s)' : segment'[h].ended # Null
      BY <1>2, <1>10, <2>1
      DEF TrackingInvariant, QuietSessionsAreClosed, Live, OpenSegmentsOf
    <3> QED BY <1>3, <3>1 DEF IsBounds, NotBeforeLastEnd, SegmentsOf
  <2>2. /\ \E h \in SegmentsOf(segment, s)' : segment'[h].started = first
        /\ \A h \in SegmentsOf(segment, s)' : first <= segment'[h].started
    BY <1>3 DEF IsBounds, SegmentsOf
  <2>3. \A t \in Sessions \ {s} : \A h \in SegmentsOf(segment, t) : segment'[h] = segment[h]
    BY <1>8 DEF SegmentsOf
  <2> QED BY <1>4, <1>9, <2>1, <2>2, <2>3
          DEF TrackingInvariant, SessionRowCoversItsSegments, Live
<1> QED BY <1>6, <1>7, <1>11, <1>12 DEF TrackingInvariant

LEMMA DeleteStep ==
    ASSUME TrackingInvariant, NEW s \in Sessions, Delete(s)
    PROVE  TrackingInvariant'
<1>1. /\ session' = [session EXCEPT ![s] = NoRow] /\ UNCHANGED <<project, now>>
      /\ session'[s] = NoRow /\ \A t \in Sessions \ {s} : session'[t] = session[t]
  BY DEF Delete, TrackingInvariant, TypeOK
<1>2. \A g \in Segments :
          segment'[g] = IF g \in SegmentsOf(segment, s) THEN NoRow ELSE segment[g]
  BY DEF Delete
<1>3. TypeOK'
  <2>1. segment' \in [Segments -> SegmentRow \cup {NoRow}]
    BY DEF Delete, TrackingInvariant, TypeOK
  <2> QED BY <1>1, <2>1 DEF TrackingInvariant, TypeOK
<1>4. /\ SegmentsOf(segment, s)' = {}
      /\ \A t \in Sessions \ {s} : SegmentsOf(segment, t)' = SegmentsOf(segment, t)
      /\ \A t \in Sessions \ {s} : \A g \in SegmentsOf(segment, t) : segment'[g] = segment[g]
  BY <1>2 DEF SegmentsOf
<1>5. SegmentsAreDisjoint'
  <2>1. ASSUME NEW g \in Segments, segment'[g] # NoRow
        PROVE  /\ segment'[g] = segment[g] /\ segment[g].session \in Sessions \ {s}
    BY <1>2, <2>1 DEF SegmentsOf, TrackingInvariant, TypeOK, SegmentRow
  <2> QED BY <1>1, <1>4, <2>1
          DEF TrackingInvariant, SegmentsAreDisjoint, SegmentAdmitted, Live, SegmentsOf
<1>6. QuietSessionsAreClosed'
  BY <1>1, <1>4 DEF TrackingInvariant, QuietSessionsAreClosed, OpenSegmentsOf, Live
<1>7. SessionRowCoversItsSegments'
  BY <1>1, <1>4 DEF TrackingInvariant, SessionRowCoversItsSegments, Live
<1> QED BY <1>3, <1>5, <1>6, <1>7 DEF TrackingInvariant

(* Renaming a session's project and leaving the tracking tables alone.     *)
LEMMA UpdateStep ==
    ASSUME TrackingInvariant, NEW s \in Sessions, NEW p \in Projects, Update(s, p)
    PROVE  TrackingInvariant'
<1>1. /\ session[s] \in SessionRow /\ session' = [session EXCEPT ![s].project = p]
      /\ UNCHANGED <<project, segment, now>>
  BY DEF Update, Live, TrackingInvariant, TypeOK
<1>2. /\ session'[s] \in SessionRow /\ session'[s].status = session[s].status
      /\ session'[s].started = session[s].started /\ session'[s].stopped = session[s].stopped
      /\ \A t \in Sessions \ {s} : session'[t] = session[t]
  BY <1>1 DEF TrackingInvariant, TypeOK, SessionRow
<1>3. TypeOK'
  BY <1>1, <1>2 DEF TrackingInvariant, TypeOK
<1>4. \A t \in Sessions : Live(t) <=> session'[t] # NoRow
  BY <1>1, <1>2 DEF Live
<1>5. /\ \A t \in Sessions : SegmentsOf(segment, t)' = SegmentsOf(segment, t)
      /\ \A t \in Sessions : OpenSegmentsOf(t)' = OpenSegmentsOf(t)
  BY <1>1 DEF OpenSegmentsOf, SegmentsOf
<1>6. SegmentsAreDisjoint'
  BY <1>1, <1>4
  DEF TrackingInvariant, SegmentsAreDisjoint, SegmentAdmitted, Live, SegmentsOf, TypeOK, SegmentRow
<1>7. QuietSessionsAreClosed'
  BY <1>2, <1>4, <1>5 DEF TrackingInvariant, QuietSessionsAreClosed, Live
<1>8. SessionRowCoversItsSegments'
  BY <1>1, <1>2, <1>4, <1>5 DEF TrackingInvariant, SessionRowCoversItsSegments, Live
<1> QED BY <1>3, <1>6, <1>7, <1>8 DEF TrackingInvariant

LEMMA QuietStep ==
    ASSUME TrackingInvariant, UNCHANGED <<session, segment>>,
           project' \in [Projects -> {"absent", "active", "inactive"}], now' \in Times
    PROVE  TrackingInvariant'
BY DEF TrackingInvariant, TypeOK, SegmentsAreDisjoint, SegmentAdmitted, Live, SegmentsOf,
       QuietSessionsAreClosed, OpenSegmentsOf, SessionRowCoversItsSegments

-----------------------------------------------------------------------------

LEMMA InitLemma == Init => TrackingInvariant
BY DEF Init, TrackingInvariant, TypeOK, SegmentsAreDisjoint, Live, QuietSessionsAreClosed,
       SessionRowCoversItsSegments

LEMMA NextLemma == TrackingInvariant /\ [Next]_vars => TrackingInvariant'
<1> SUFFICES ASSUME TrackingInvariant, [Next]_vars PROVE TrackingInvariant'
  OBVIOUS
<1>1. ASSUME NEW p \in Projects, CreateProject(p) PROVE TrackingInvariant'
  BY <1>1, QuietStep DEF CreateProject, TrackingInvariant, TypeOK
<1>2. ASSUME NEW p \in Projects, NEW active \in BOOLEAN, PatchProject(p, active)
      PROVE  TrackingInvariant'
  BY <1>2, QuietStep DEF PatchProject, TrackingInvariant, TypeOK
<1>3. ASSUME NEW s \in Sessions, NEW g \in Segments, NEW p \in Projects,
             NEW at \in Requestable, Start(s, g, p, at)
      PROVE  TrackingInvariant'
  BY <1>3, StartStep DEF Requestable
<1>4. ASSUME NEW s \in Sessions, NEW at \in Requestable, Pause(s, at)
      PROVE  TrackingInvariant'
  BY <1>4, PauseStep DEF Requestable
<1>5. ASSUME NEW s \in Sessions, NEW g \in Segments, NEW at \in Requestable,
             Resume(s, g, at)
      PROVE  TrackingInvariant'
  BY <1>5, ResumeStep DEF Requestable
<1>6. ASSUME NEW s \in Sessions, NEW at \in Requestable, NEW reason \in Reasons,
             Stop(s, at, reason)
      PROVE  TrackingInvariant'
  BY <1>6, StopStep DEF Requestable
<1>7. ASSUME NEW s \in Sessions, NEW p \in Projects, Update(s, p)
      PROVE  TrackingInvariant'
  BY <1>7, UpdateStep
<1>8. ASSUME CorrectSomeSegment PROVE TrackingInvariant'
  <2>1. PICK g \in Segments, from \in Times, to \in Times :
            /\ segment[g] # NoRow
            /\ \E row \in SegmentPatch(segment[g], from, to) : CorrectSegment(g, row)
    BY <1>8 DEF CorrectSomeSegment, Requestable
  <2>2. PICK row \in SegmentPatch(segment[g], from, to) : CorrectSegment(g, row)
    BY <2>1
  <2>3. segment[g] \in SegmentRow
    BY <2>1 DEF TrackingInvariant, TypeOK
  <2>4. /\ row \in SegmentRow /\ row.session = segment[g].session
        /\ row.ended # Null \/ row.ended = segment[g].ended
    BY <2>2, <2>3, PatchLemma DEF CorrectSegment, SegmentAdmitted
  <2> QED BY <2>2, <2>4, CorrectSegmentStep
<1>9. ASSUME NEW s \in Sessions, Delete(s) PROVE TrackingInvariant'
  BY <1>9, DeleteStep
<1>10. CASE Tick
  BY <1>10, QuietStep DEF Tick, TrackingInvariant, TypeOK
<1>11. CASE UNCHANGED vars
  BY <1>11, QuietStep DEF vars, TrackingInvariant, TypeOK
<1> QED BY <1>1, <1>2, <1>3, <1>4, <1>5, <1>6, <1>7, <1>8, <1>9, <1>10, <1>11 DEF Next

(* The tables always satisfy the tracking invariant, whatever requests the *)
(* API accepts and in whatever order their transactions commit.            *)
THEOREM TrackingTheorem == Spec => []TrackingInvariant
<1>1. Init => TrackingInvariant
  BY InitLemma
<1>2. TrackingInvariant /\ [Next]_vars => TrackingInvariant'
  BY NextLemma
<1> QED BY <1>1, <1>2, PTL DEF Spec

(* Rows keep their column types and their nullability.                     *)
THEOREM TypeTheorem == Spec => []TypeOK
<1>1. TrackingInvariant => TypeOK
  BY DEF TrackingInvariant
<1> QED BY <1>1, TrackingTheorem, PTL

(* db/verify/verify.sql's second check: a paused or stopped session has no *)
(* open segment, although no constraint of the schema says so.             *)
THEOREM QuietTheorem == Spec => []QuietSessionsAreClosed
<1>1. TrackingInvariant => QuietSessionsAreClosed
  BY DEF TrackingInvariant
<1> QED BY <1>1, TrackingTheorem, PTL

(* Segments of one session never overlap, so that its total is the sum of  *)
(* their lengths, and no segment is left behind by a deleted session.      *)
THEOREM DisjointTheorem == Spec => []SegmentsAreDisjoint
<1>1. TrackingInvariant => SegmentsAreDisjoint
  BY DEF TrackingInvariant
<1> QED BY <1>1, TrackingTheorem, PTL

(* started_at is the earliest segment start and stopped_at is never before *)
(* a segment's end, after any mixture of transitions and corrections.      *)
THEOREM CoverageTheorem == Spec => []SessionRowCoversItsSegments
<1>1. TrackingInvariant => SessionRowCoversItsSegments
  BY DEF TrackingInvariant
<1> QED BY <1>1, TrackingTheorem, PTL

-----------------------------------------------------------------------------
(* What a step may never do. *)

(* What a correction writes: one segment, and two columns of its session.  *)
LEMMA CorrectionEffect ==
    ASSUME TrackingInvariant, CorrectSomeSegment
    PROVE  \E g \in Segments :
              /\ segment[g] \in SegmentRow /\ segment'[g] \in SegmentRow
              /\ segment'[g].session = segment[g].session
              /\ segment'[g].ended # Null \/ segment'[g].ended = segment[g].ended
              /\ \A h \in Segments \ {g} : segment'[h] = segment[h]
              /\ \A s \in Sessions : Live(s) =>
                    /\ session'[s] # NoRow
                    /\ session'[s].status = session[s].status
                    /\ session'[s].reason = session[s].reason
<1>1. PICK g \in Segments, from \in Times, to \in Times :
          /\ segment[g] # NoRow
          /\ \E row \in SegmentPatch(segment[g], from, to) : CorrectSegment(g, row)
  BY DEF CorrectSomeSegment, Requestable
<1>2. PICK row \in SegmentPatch(segment[g], from, to) : CorrectSegment(g, row)
  BY <1>1
<1>3. segment[g] \in SegmentRow
  BY <1>1 DEF TrackingInvariant, TypeOK
<1>4. /\ row \in SegmentRow /\ row.session = segment[g].session
      /\ row.ended # Null \/ row.ended = segment[g].ended
  BY <1>2, <1>3, PatchLemma DEF CorrectSegment, SegmentAdmitted
<1>5. segment'[g] = row /\ \A h \in Segments \ {g} : segment'[h] = segment[h]
  BY <1>2 DEF CorrectSegment, TrackingInvariant, TypeOK
<1>6. PICK s \in Sessions : s = segment[g].session /\ session[s] \in SessionRow
  BY <1>1, <1>3 DEF TrackingInvariant, SegmentsAreDisjoint, TypeOK, Live, SegmentRow
<1>7. PICK first \in Times, last \in Times \cup {Null} :
          /\ session[s].status = "stopped" => last # Null /\ first <= last
          /\ session' = [session EXCEPT
                ![s].started = first,
                ![s].stopped = IF session[s].status = "stopped" THEN last ELSE @]
  BY <1>2, <1>6 DEF CorrectSegment
<1>8. /\ session'[s] \in SessionRow
      /\ session'[s].status = session[s].status /\ session'[s].reason = session[s].reason
      /\ \A t \in Sessions \ {s} : session'[t] = session[t]
  <2>1. CASE session[s].status = "stopped"
    BY <1>6, <1>7, <2>1 DEF TrackingInvariant, TypeOK, SessionRow
  <2>2. CASE session[s].status # "stopped"
    <3>1. session[s].stopped = Null /\ first <= session[s].stopped
      BY <1>6, <2>2, SessionRowFields
    <3>2. session' = [session EXCEPT ![s].started = first]
      BY <1>6, <1>7, <2>2 DEF TrackingInvariant, TypeOK, SessionRow
    <3> QED BY <1>6, <2>2, <3>1, <3>2 DEF TrackingInvariant, TypeOK, SessionRow
  <2> QED BY <2>1, <2>2
<1> QED BY <1>3, <1>4, <1>5, <1>8 DEF Live

LEMMA StrandedStep ==
    ASSUME TrackingInvariant, [Next]_vars, NEW s \in Sessions, Stranded(s)
    PROVE  Stranded(s)' \/ ~ Live(s)'
<1>1. Live(s) /\ session[s].status = "running" /\ OpenSegmentsOf(s) = {}
      /\ session[s] \in SessionRow
  BY DEF Stranded, Live, TrackingInvariant, TypeOK
<1>2. ASSUME UNCHANGED segment, session'[s] # NoRow, session'[s].status = "running"
      PROVE  Stranded(s)'
  BY <1>1, <1>2 DEF Stranded, Live, OpenSegmentsOf, SegmentsOf
<1>3. ASSUME NEW t \in Sessions, NEW g \in Segments, NEW p \in Projects,
             NEW at \in Requestable, Start(t, g, p, at)
      PROVE  Stranded(s)'
  <2>1. s # t /\ session'[s] = session[s]
    BY <1>1, <1>3 DEF Start, TrackingInvariant, TypeOK
  <2>2. \A h \in Segments : segment'[h] = segment[h] \/ segment'[h].session = t
    BY <1>3 DEF Start, TrackingInvariant, TypeOK
  <2> QED BY <1>1, <2>1, <2>2 DEF Stranded, Live, OpenSegmentsOf, SegmentsOf
<1>4. ASSUME NEW t \in Sessions, NEW at \in Times, CloseOpenSegment(t, at)
      PROVE  t # s /\ OpenSegmentsOf(s)' = {}
  <2>1. t # s
    BY <1>1, <1>4 DEF CloseOpenSegment
  <2>2. PICK g \in Segments, row \in SegmentRow :
            segment[g].session = t /\ row.session = t
            /\ segment' = [segment EXCEPT ![g] = row]
    BY <1>4, CloseOpenSegmentLemma DEF TrackingInvariant
  <2> QED BY <1>1, <2>1, <2>2 DEF OpenSegmentsOf, SegmentsOf, TrackingInvariant, TypeOK
<1>5. ASSUME NEW t \in Sessions, NEW at \in Requestable, Pause(t, at)
      PROVE  Stranded(s)'
  BY <1>1, <1>4, <1>5 DEF Pause, Requestable, Stranded, Live, TrackingInvariant, TypeOK
<1>6. ASSUME NEW t \in Sessions, NEW g \in Segments, NEW at \in Requestable, Resume(t, g, at)
      PROVE  Stranded(s)'
  <2>1. t # s /\ session'[s] = session[s]
    BY <1>1, <1>6 DEF Resume, Moves, Transitions, TrackingInvariant, TypeOK
  <2>2. \A h \in Segments : segment'[h] = segment[h] \/ segment'[h].session = t
    BY <1>6 DEF Resume, TrackingInvariant, TypeOK
  <2> QED BY <1>1, <2>1, <2>2 DEF Stranded, Live, OpenSegmentsOf, SegmentsOf
<1>7. ASSUME NEW t \in Sessions, NEW at \in Requestable, NEW reason \in Reasons,
             Stop(t, at, reason)
      PROVE  Stranded(s)'
  <2>1. CASE session[t].status = "running"
    BY <1>1, <1>4, <1>7, <2>1
    DEF Stop, Requestable, Stranded, Live, TrackingInvariant, TypeOK
  <2>2. CASE session[t].status # "running"
    BY <1>1, <1>2, <1>7, <2>2 DEF Stop, Live, TrackingInvariant, TypeOK
  <2> QED BY <2>1, <2>2
<1>8. ASSUME NEW t \in Sessions, NEW p \in Projects, Update(t, p)
      PROVE  Stranded(s)'
  <2>1. session'[s] \in SessionRow /\ session'[s].status = "running"
    BY <1>1, <1>8 DEF Update, TrackingInvariant, TypeOK, SessionRow
  <2> QED BY <1>2, <1>8, <2>1 DEF Update
<1>9. ASSUME CorrectSomeSegment PROVE Stranded(s)'
  <2>1. PICK g \in Segments :
            /\ segment[g] \in SegmentRow /\ segment'[g] \in SegmentRow
            /\ segment'[g].session = segment[g].session
            /\ segment'[g].ended # Null \/ segment'[g].ended = segment[g].ended
            /\ \A h \in Segments \ {g} : segment'[h] = segment[h]
    BY <1>9, CorrectionEffect
  <2>2. OpenSegmentsOf(s)' = {}
    BY <1>1, <2>1 DEF OpenSegmentsOf, SegmentsOf
  <2>3. session'[s] # NoRow /\ session'[s].status = "running"
    BY <1>1, <1>9, CorrectionEffect
  <2> QED BY <2>2, <2>3 DEF Stranded, Live
<1>10. ASSUME NEW t \in Sessions, Delete(t) PROVE Stranded(s)' \/ ~ Live(s)'
  <2>1. CASE t = s
    BY <1>10, <2>1 DEF Delete, Live, TrackingInvariant, TypeOK
  <2>2. CASE t # s
    <3>1. session'[s] = session[s]
          /\ \A h \in Segments : segment'[h] = segment[h] \/ segment'[h] = NoRow
      BY <1>10, <2>2 DEF Delete, TrackingInvariant, TypeOK
    <3> QED BY <1>1, <3>1 DEF Stranded, Live, OpenSegmentsOf, SegmentsOf
  <2> QED BY <2>1, <2>2
<1>11. CASE UNCHANGED <<session, segment>>
  BY <1>1, <1>2, <1>11 DEF Live
<1> QED BY <1>3, <1>5, <1>6, <1>7, <1>8, <1>9, <1>10, <1>11
        DEF Next, vars, CreateProject, PatchProject, Tick

(* No request repairs a running session that has lost its open segment: it *)
(* stays as it is until it is deleted.                                     *)
THEOREM StrandedTheorem == Spec => StrandedForGood
<1>1. TrackingInvariant /\ [Next]_vars =>
        [\A s \in Sessions : Stranded(s) => Stranded(s)' \/ ~ Live(s)']_vars
  BY StrandedStep
<1> QED BY <1>1, TrackingTheorem, PTL DEF Spec, StrandedForGood

(* Which transaction can change what about a stopped session.              *)
LEMMA StoppedStep ==
    ASSUME TrackingInvariant, [Next]_vars, NEW s \in Sessions,
           Live(s), session[s].status = "stopped", session'[s] # NoRow
    PROVE  /\ session'[s].status = "stopped"
           /\ session'[s].reason = session[s].reason
           /\ SegmentsOf(segment, s)' = SegmentsOf(segment, s)
<1> DEFINE Kept == /\ session'[s].status = "stopped"
                   /\ session'[s].reason = session[s].reason
                   /\ SegmentsOf(segment, s)' = SegmentsOf(segment, s)
<1>1. session[s] \in SessionRow
  BY DEF Live, TrackingInvariant, TypeOK
<1>2. ASSUME session'[s] = session[s], NEW t \in Sessions, t # s,
             \A h \in Segments : segment'[h] = segment[h]
                \/ /\ segment[h] = NoRow \/ segment[h].session = t
                   /\ segment'[h] = NoRow \/ segment'[h].session = t
      PROVE  Kept
  BY <1>1, <1>2 DEF SegmentsOf
<1>3. ASSUME NEW t \in Sessions, NEW g \in Segments, NEW p \in Projects,
             NEW at \in Requestable, Start(t, g, p, at)
      PROVE  Kept
  <2>1. t # s /\ session'[s] = session[s] /\ segment[g] = NoRow /\ segment'[g].session = t
        /\ \A h \in Segments \ {g} : segment'[h] = segment[h]
    BY <1>3 DEF Start, Live, TrackingInvariant, TypeOK
  <2> QED BY <1>2, <2>1
<1>4. ASSUME NEW t \in Sessions, NEW at \in Times, t # s, CloseOpenSegment(t, at),
             session'[s] = session[s]
      PROVE  Kept
  <2>1. PICK g \in Segments, row \in SegmentRow :
            segment[g].session = t /\ row.session = t
            /\ segment' = [segment EXCEPT ![g] = row]
    BY <1>4, CloseOpenSegmentLemma DEF TrackingInvariant
  <2> QED BY <1>2, <1>4, <2>1 DEF TrackingInvariant, TypeOK
<1>5. ASSUME NEW t \in Sessions, NEW at \in Requestable, Pause(t, at) PROVE Kept
  <2>1. t # s /\ session'[s] = session[s]
    BY <1>5 DEF Pause, Moves, Transitions, TrackingInvariant, TypeOK
  <2> QED BY <1>4, <1>5, <2>1 DEF Pause, Requestable
<1>6. ASSUME NEW t \in Sessions, NEW g \in Segments, NEW at \in Requestable, Resume(t, g, at)
      PROVE  Kept
  <2>1. t # s /\ session'[s] = session[s] /\ segment[g] = NoRow /\ segment'[g].session = t
        /\ \A h \in Segments \ {g} : segment'[h] = segment[h]
    BY <1>6 DEF Resume, Moves, Transitions, TrackingInvariant, TypeOK
  <2> QED BY <1>2, <2>1
<1>7. ASSUME NEW t \in Sessions, NEW at \in Requestable, NEW reason \in Reasons,
             Stop(t, at, reason)
      PROVE  Kept
  <2>1. t # s /\ session'[s] = session[s]
    BY <1>7 DEF Stop, Moves, Transitions, TrackingInvariant, TypeOK
  <2>2. CASE session[t].status = "running"
    BY <1>4, <1>7, <2>1, <2>2 DEF Stop, Requestable
  <2>3. CASE session[t].status # "running"
    BY <1>2, <1>7, <2>1, <2>3 DEF Stop
  <2> QED BY <2>2, <2>3
<1>8. ASSUME NEW t \in Sessions, NEW p \in Projects, Update(t, p) PROVE Kept
  <2>1. session'[s].status = session[s].status /\ session'[s].reason = session[s].reason
    BY <1>1, <1>8 DEF Update, TrackingInvariant, TypeOK, SessionRow
  <2> QED BY <1>8, <2>1 DEF Update, SegmentsOf
<1>9. ASSUME CorrectSomeSegment PROVE Kept
  <2>1. PICK g \in Segments :
            /\ segment[g] \in SegmentRow /\ segment'[g] \in SegmentRow
            /\ segment'[g].session = segment[g].session
            /\ \A h \in Segments \ {g} : segment'[h] = segment[h]
            /\ session'[s].status = session[s].status /\ session'[s].reason = session[s].reason
    BY <1>9, CorrectionEffect
  <2> QED BY <2>1 DEF SegmentsOf
<1>10. ASSUME NEW t \in Sessions, Delete(t) PROVE Kept
  <2>1. t # s /\ session'[s] = session[s]
        /\ \A h \in Segments :
              segment'[h] = IF h \in SegmentsOf(segment, t) THEN NoRow ELSE segment[h]
    BY <1>10 DEF Delete, TrackingInvariant, TypeOK
  <2> QED BY <2>1 DEF SegmentsOf
<1>11. CASE UNCHANGED <<session, segment>>
  BY <1>11 DEF SegmentsOf
<1> QED BY <1>3, <1>5, <1>6, <1>7, <1>8, <1>9, <1>10, <1>11
        DEF Next, vars, CreateProject, PatchProject, Tick

(* Stopping is final: no request reopens a stopped session, changes why it *)
(* stopped, or gives it another segment or an open one.                    *)
THEOREM StoppedTheorem == Spec => StoppedIsFinal
<1>1. TrackingInvariant /\ TrackingInvariant' /\ [Next]_vars =>
        [ \A s \in Sessions :
          Live(s) /\ session[s].status = "stopped" /\ Live(s)' =>
             /\ session[s].status' = "stopped"
             /\ session[s].reason' = session[s].reason
             /\ SegmentsOf(segment, s)' = SegmentsOf(segment, s)
             /\ OpenSegmentsOf(s)' = {} ]_vars
  <2> SUFFICES ASSUME TrackingInvariant, TrackingInvariant', [Next]_vars,
                      NEW s \in Sessions, Live(s), session[s].status = "stopped", Live(s)'
               PROVE  /\ session[s].status' = "stopped"
                      /\ session[s].reason' = session[s].reason
                      /\ SegmentsOf(segment, s)' = SegmentsOf(segment, s)
                      /\ OpenSegmentsOf(s)' = {}
    OBVIOUS
  <2>1. /\ session'[s].status = "stopped"
        /\ session'[s].reason = session[s].reason
        /\ SegmentsOf(segment, s)' = SegmentsOf(segment, s)
    BY StoppedStep DEF Live
  <2>2. OpenSegmentsOf(s)' = {}
    BY <2>1 DEF TrackingInvariant, QuietSessionsAreClosed
  <2> QED BY <2>1, <2>2
<1> QED BY <1>1, TrackingTheorem, PTL DEF Spec, StoppedIsFinal

(* Ending a session's work writes its open segment and no other.           *)
LEMMA ClosingKeepsRecorded ==
    ASSUME TrackingInvariant, NEW s \in Sessions, NEW at \in Times, CloseOpenSegment(s, at),
           NEW g \in Segments, segment[g] # NoRow, segment[g].ended # Null
    PROVE  segment'[g] = segment[g]
<1>1. PICK h \in Segments, row \in SegmentRow :
          segment[h].ended = Null /\ segment' = [segment EXCEPT ![h] = row]
  BY CloseOpenSegmentLemma DEF TrackingInvariant
<1> QED BY <1>1 DEF TrackingInvariant, TypeOK

(* Which transaction can change what about a closed segment.               *)
LEMMA RecordedStep ==
    ASSUME TrackingInvariant, [Next]_vars,
           NEW g \in Segments, segment[g] # NoRow, segment[g].ended # Null
    PROVE  \/ segment'[g] = segment[g]
           \/ segment'[g] = NoRow /\ session'[segment[g].session] = NoRow
           \/ /\ CorrectSomeSegment
              /\ \A h \in Segments \ {g} : segment'[h] = segment[h]
<1>1. ASSUME NEW s \in Sessions, NEW h \in Segments, NEW p \in Projects,
             NEW at \in Requestable, Start(s, h, p, at)
      PROVE  segment'[g] = segment[g]
  BY <1>1 DEF Start, TrackingInvariant, TypeOK
<1>2. ASSUME NEW s \in Sessions, NEW at \in Requestable, Pause(s, at)
      PROVE  segment'[g] = segment[g]
  BY <1>2, ClosingKeepsRecorded DEF Pause, Requestable
<1>3. ASSUME NEW s \in Sessions, NEW h \in Segments, NEW at \in Requestable, Resume(s, h, at)
      PROVE  segment'[g] = segment[g]
  BY <1>3 DEF Resume, TrackingInvariant, TypeOK
<1>4. ASSUME NEW s \in Sessions, NEW at \in Requestable, NEW reason \in Reasons,
             Stop(s, at, reason)
      PROVE  segment'[g] = segment[g]
  BY <1>4, ClosingKeepsRecorded DEF Stop, Requestable
<1>5. ASSUME CorrectSomeSegment, segment'[g] # segment[g]
      PROVE  \A h \in Segments \ {g} : segment'[h] = segment[h]
  <2>1. PICK k \in Segments : \A h \in Segments \ {k} : segment'[h] = segment[h]
    BY <1>5, CorrectionEffect
  <2> QED BY <1>5, <2>1
<1>6. ASSUME NEW s \in Sessions, Delete(s), segment'[g] # segment[g]
      PROVE  segment'[g] = NoRow /\ session'[segment[g].session] = NoRow
  BY <1>6 DEF Delete, SegmentsOf, TrackingInvariant, TypeOK
<1>7. CASE UNCHANGED segment
  BY <1>7
<1> QED BY <1>1, <1>2, <1>3, <1>4, <1>5, <1>6, <1>7
        DEF Next, vars, CreateProject, PatchProject, Update, Tick

(* Recorded time is history: no pause, resume, stop, start or rename ever  *)
(* rewrites a closed segment; a correction rewrites the one it names, and  *)
(* a deletion takes it together with its session.                          *)
THEOREM RecordedTheorem == Spec => RecordedTimeIsKept
<1>1. TrackingInvariant /\ [Next]_vars =>
        [ \A g \in Segments :
          segment[g] # NoRow /\ segment[g].ended # Null =>
             \/ segment'[g] = segment[g]
             \/ segment'[g] = NoRow /\ session'[segment[g].session] = NoRow
             \/ /\ CorrectSomeSegment
                /\ \A h \in Segments \ {g} : segment'[h] = segment[h] ]_vars
  BY RecordedStep
<1> QED BY <1>1, TrackingTheorem, PTL DEF Spec, RecordedTimeIsKept

(* A session that is running after anything but a correction has an open   *)
(* segment, unless it had none before.                                     *)
LEMMA StrandingStep ==
    ASSUME TrackingInvariant, [Next]_vars, NEW s \in Sessions,
           ~ Stranded(s), session'[s] # NoRow, session'[s].status = "running",
           ~ CorrectSomeSegment
    PROVE  OpenSegmentsOf(s)' # {}
<1>1. ASSUME session'[s] = session[s],
             \A g \in Segments : segment[g] # NoRow /\ segment[g].session = s
                                   => segment'[g] = segment[g]
      PROVE  OpenSegmentsOf(s)' # {}
  BY <1>1 DEF Stranded, Live, OpenSegmentsOf, SegmentsOf
<1>2. ASSUME NEW g \in Segments, NEW at, segment[g] = NoRow,
             segment' = [segment EXCEPT ![g] = [session |-> s, started |-> at, ended |-> Null]],
             at \in Times
      PROVE  OpenSegmentsOf(s)' # {}
  <2>1. segment'[g] = [session |-> s, started |-> at, ended |-> Null]
        /\ segment'[g] # NoRow
    BY <1>2, SegmentRowIntro DEF TrackingInvariant, TypeOK
  <2> QED BY <2>1 DEF OpenSegmentsOf, SegmentsOf
<1>3. ASSUME NEW t \in Sessions, t # s, NEW at \in Times, CloseOpenSegment(t, at),
             session'[s] = session[s]
      PROVE  OpenSegmentsOf(s)' # {}
  <2>1. PICK g \in Segments, row \in SegmentRow :
            segment[g].session = t /\ segment' = [segment EXCEPT ![g] = row]
    BY <1>3, CloseOpenSegmentLemma DEF TrackingInvariant
  <2> QED BY <1>1, <1>3, <2>1 DEF TrackingInvariant, TypeOK
<1>4. ASSUME NEW t \in Sessions, NEW g \in Segments, NEW p \in Projects,
             NEW at \in Requestable, Start(t, g, p, at)
      PROVE  OpenSegmentsOf(s)' # {}
  <2>1. CASE t = s
    BY <1>2, <1>4, <2>1 DEF Start, Requestable
  <2>2. CASE t # s
    BY <1>1, <1>4, <2>2 DEF Start, TrackingInvariant, TypeOK
  <2> QED BY <2>1, <2>2
<1>5. ASSUME NEW t \in Sessions, NEW at \in Requestable, Pause(t, at)
      PROVE  OpenSegmentsOf(s)' # {}
  <2>1. t # s /\ session'[s] = session[s]
    BY <1>5 DEF Pause, Live, TrackingInvariant, TypeOK, SessionRow
  <2> QED BY <1>3, <1>5, <2>1 DEF Pause, Requestable
<1>6. ASSUME NEW t \in Sessions, NEW g \in Segments, NEW at \in Requestable, Resume(t, g, at)
      PROVE  OpenSegmentsOf(s)' # {}
  <2>1. CASE t = s
    BY <1>2, <1>6, <2>1 DEF Resume, Requestable
  <2>2. CASE t # s
    BY <1>1, <1>6, <2>2 DEF Resume, TrackingInvariant, TypeOK
  <2> QED BY <2>1, <2>2
<1>7. ASSUME NEW t \in Sessions, NEW at \in Requestable, NEW reason \in Reasons,
             Stop(t, at, reason)
      PROVE  OpenSegmentsOf(s)' # {}
  <2>1. t # s /\ session'[s] = session[s]
    BY <1>7 DEF Stop, Live, TrackingInvariant, TypeOK, SessionRow
  <2>2. CASE session[t].status = "running"
    BY <1>3, <1>7, <2>1, <2>2 DEF Stop, Requestable
  <2>3. CASE session[t].status # "running"
    BY <1>1, <1>7, <2>1, <2>3 DEF Stop
  <2> QED BY <2>2, <2>3
<1>8. ASSUME NEW t \in Sessions, NEW p \in Projects, Update(t, p)
      PROVE  OpenSegmentsOf(s)' # {}
  <2>1. Live(s) /\ session[s].status = "running"
    BY <1>8 DEF Update, Live, TrackingInvariant, TypeOK, SessionRow
  <2>2. OpenSegmentsOf(s) # {}
    BY <2>1 DEF Stranded
  <2> QED BY <1>8, <2>2 DEF Update, OpenSegmentsOf, SegmentsOf
<1>9. ASSUME NEW t \in Sessions, Delete(t) PROVE OpenSegmentsOf(s)' # {}
  <2>1. t # s /\ session'[s] = session[s]
        /\ \A g \in Segments :
              segment'[g] = IF g \in SegmentsOf(segment, t) THEN NoRow ELSE segment[g]
    BY <1>9 DEF Delete, TrackingInvariant, TypeOK
  <2> QED BY <1>1, <2>1 DEF SegmentsOf
<1>10. CASE UNCHANGED <<session, segment>>
  BY <1>1, <1>10
<1> QED BY <1>4, <1>5, <1>6, <1>7, <1>8, <1>9, <1>10
        DEF Next, vars, CreateProject, PatchProject, Tick

(* Only a correction takes the open segment away from a running session.   *)
THEOREM StrandingTheorem == Spec => OnlyCorrectionStrands
<1>1. TrackingInvariant /\ [Next]_vars =>
        [ \A s \in Sessions : ~ Stranded(s) /\ Stranded(s)' => CorrectSomeSegment ]_vars
  BY StrandingStep DEF Stranded, Live
<1> QED BY <1>1, TrackingTheorem, PTL DEF Spec, OnlyCorrectionStrands

-----------------------------------------------------------------------------
(* Lists that meet a segment that has not begun. *)

(* A list goes on failing while the inverted segment and a segment of      *)
(* another session stay, and the clock stands still.                       *)
LEMMA FailureStays ==
    ASSUME NEW g \in Segments, NEW h \in Segments, Inverted(g),
           segment[h] # NoRow, segment[h].session # segment[g].session,
           UNCHANGED now, segment'[g] = segment[g],
           segment'[h] # NoRow, segment'[h].session = segment[h].session
    PROVE  ListingFails'
BY DEF ListingFails, Inverted

(* An open segment is closed only at a time after its start.               *)
LEMMA ClosingAndFailure ==
    ASSUME TrackingInvariant, NEW s \in Sessions, NEW at \in Times,
           CloseOpenSegment(s, at), UNCHANGED now, ListingFails, ~ ListingFails'
    PROVE  \E g \in Segments :
              /\ Inverted(g) /\ segment'[g] # NoRow
              /\ segment'[g].ended # Null
              /\ segment[g].started < segment'[g].ended
<1>1. PICK q \in Segments, row \in SegmentRow :
          /\ segment[q] \in SegmentRow /\ segment[q].session = s
          /\ segment[q].started < at /\ row.session = s /\ row.ended = at
          /\ segment' = [segment EXCEPT ![q] = row]
  BY CloseOpenSegmentLemma DEF TrackingInvariant
<1>2. PICK g, h \in Segments :
          Inverted(g) /\ segment[h] # NoRow /\ segment[h].session # segment[g].session
  BY DEF ListingFails
<1>3. segment'[q] = row /\ row # NoRow /\ \A k \in Segments \ {q} : segment'[k] = segment[k]
  BY <1>1, NoRowAssumption DEF TrackingInvariant, TypeOK
<1>4. segment'[h] # NoRow /\ segment'[h].session = segment[h].session
  BY <1>1, <1>2, <1>3
<1>5. CASE g = q
  BY <1>1, <1>2, <1>3, <1>5
<1>6. CASE g # q
  BY <1>2, <1>3, <1>4, <1>6, FailureStays
<1> QED BY <1>5, <1>6

(* What may mend a failing list.                                           *)
LEMMA FailingStep ==
    ASSUME TrackingInvariant, [Next]_vars, ListingFails, ~ ListingFails'
    PROVE  \/ Tick
           \/ CorrectSomeSegment
           \/ \E s \in Sessions : Delete(s)
           \/ \E g \in Segments :
                 /\ Inverted(g) /\ segment'[g] # NoRow
                 /\ segment'[g].ended # Null
                 /\ segment[g].started < segment'[g].ended
<1> DEFINE Overtaken == \E g \in Segments :
                           /\ Inverted(g) /\ segment'[g] # NoRow
                           /\ segment'[g].ended # Null
                           /\ segment[g].started < segment'[g].ended
<1>1. UNCHANGED <<segment, now>> => FALSE
  BY DEF ListingFails, Inverted
<1>2. ASSUME NEW g \in Segments, NEW row, segment[g] = NoRow, UNCHANGED now,
             segment' = [segment EXCEPT ![g] = row]
      PROVE  FALSE
  <2>1. PICK q, h \in Segments :
            Inverted(q) /\ segment[h] # NoRow /\ segment[h].session # segment[q].session
    BY DEF ListingFails
  <2>2. segment'[q] = segment[q] /\ segment'[h] = segment[h]
    BY <1>2, <2>1 DEF Inverted, TrackingInvariant, TypeOK
  <2> QED BY <1>2, <2>1, <2>2, FailureStays
<1>3. ASSUME NEW s \in Sessions, NEW at \in Requestable, Pause(s, at) PROVE Overtaken
  BY <1>3, ClosingAndFailure DEF Pause, Requestable
<1>4. ASSUME NEW s \in Sessions, NEW at \in Requestable, NEW reason \in Reasons,
             Stop(s, at, reason)
      PROVE  Overtaken
  BY <1>1, <1>4, ClosingAndFailure DEF Stop, EndWork, Requestable
<1>5. ASSUME NEW s \in Sessions, NEW g \in Segments, NEW p \in Projects,
             NEW at \in Requestable, Start(s, g, p, at)
      PROVE  FALSE
  BY <1>2, <1>5 DEF Start
<1>6. ASSUME NEW s \in Sessions, NEW g \in Segments, NEW at \in Requestable,
             Resume(s, g, at)
      PROVE  FALSE
  BY <1>2, <1>6 DEF Resume, OpenSegment
<1>7. ASSUME \/ \E p \in Projects : CreateProject(p)
             \/ \E p \in Projects, active \in BOOLEAN : PatchProject(p, active)
             \/ \E s \in Sessions, p \in Projects : Update(s, p)
             \/ UNCHANGED vars
      PROVE  UNCHANGED <<segment, now>>
  BY <1>7 DEF CreateProject, PatchProject, Update, vars
<1> QED BY <1>1, <1>3, <1>4, <1>5, <1>6, <1>7 DEF Next

(* A list that fails goes on failing, whatever is asked for, until time    *)
(* has passed, something is deleted or corrected, or a segment that has    *)
(* not begun is closed at a time after its start.                          *)
THEOREM ListingTheorem == Spec => FailingListStays
<1>1. TrackingInvariant /\ [Next]_vars =>
        [ ListingFails /\ ~ ListingFails' =>
            \/ Tick
            \/ CorrectSomeSegment
            \/ \E s \in Sessions : Delete(s)
            \/ \E g \in Segments :
                  /\ Inverted(g) /\ segment'[g] # NoRow
                  /\ segment'[g].ended # Null
                  /\ segment[g].started < segment'[g].ended ]_vars
  BY FailingStep
<1> QED BY <1>1, TrackingTheorem, PTL DEF Spec, FailingListStays

=============================================================================
