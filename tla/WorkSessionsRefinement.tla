----------------------- MODULE WorkSessionsRefinement -----------------------
(***************************************************************************)
(* WorkSessions implements SessionLedger, for every set of ids and every   *)
(* bound, and what its steps never do to recorded time.  The lemmas on the *)
(* ledger's view of a write ask only for what SessionTransactions keeps as *)
(* well.                                                                   *)
(***************************************************************************)
EXTENDS WorkSessionsProofs

USE BoundsAssumption, NoRowAssumption, ReasonAssumption
DEF Times, Null, Disjoint, OpenSegment, EndWork, StopRow, RefreshBounds

Stretch(row) == <<row.started, row.ended>>

(* What the tables keep of the tracking invariant while requests overlap.  *)
RowsInvariant == TypeOK /\ SegmentsAreDisjoint /\ QuietSessionsAreClosed

-----------------------------------------------------------------------------
(* The ledger's view of the tables. *)

LEMMA WorkOfSession ==
    ASSUME NEW s \in Sessions
    PROVE  LedgerWork[s] = {Stretch(segment[g]) : g \in SegmentsOf(segment, s)}
BY DEF LedgerWork, Stretch

(* Rows of one session have different stretches, since they do not overlap.*)
LEMMA StretchesAreDistinct ==
    ASSUME RowsInvariant, NEW g \in Segments, NEW h \in Segments, g # h,
           segment[g] # NoRow, segment[h] # NoRow, segment[g].session = segment[h].session
    PROVE  Stretch(segment[g]) # Stretch(segment[h])
<1>1. segment[g] \in SegmentRow /\ segment[h] \in SegmentRow
  BY DEF RowsInvariant, TypeOK
<1>2. Disjoint(segment[g], segment[h])
  BY <1>1 DEF RowsInvariant, SegmentsAreDisjoint, SegmentsOf
<1> QED BY <1>1, <1>2, SegmentRowFields DEF Stretch

(* Writing a session's row without changing the others'. *)
LEMMA StatusWritten ==
    ASSUME NEW s \in Sessions, NEW to, session'[s] # NoRow, session'[s].status = to,
           \A t \in Sessions \ {s} : session'[t] = session[t]
    PROVE  LedgerStatus' = [LedgerStatus EXCEPT ![s] = to]
BY DEF LedgerStatus, Live

(* A row written where there was none adds a stretch. *)
LEMMA StretchAdded ==
    ASSUME RowsInvariant, NEW g \in Segments, NEW row \in SegmentRow,
           segment[g] = NoRow, segment' = [segment EXCEPT ![g] = row]
    PROVE  LedgerWork' = [LedgerWork EXCEPT ![row.session] = @ \cup {Stretch(row)}]
<1>1. segment'[g] = row /\ (\A h \in Segments \ {g} : segment'[h] = segment[h]) /\ row # NoRow
  BY DEF RowsInvariant, TypeOK
<1>2. \A t \in Sessions :
        SegmentsOf(segment, t)' =
            SegmentsOf(segment, t) \cup (IF t = row.session THEN {g} ELSE {})
  BY <1>1 DEF SegmentsOf
<1>3. \A h \in Segments : segment[h] # NoRow => segment'[h] = segment[h]
  BY <1>1
<1>4. ASSUME NEW t \in Sessions
      PROVE  LedgerWork'[t] =
                IF t = row.session THEN LedgerWork[t] \cup {Stretch(row)} ELSE LedgerWork[t]
  <2>1. LedgerWork'[t] = {Stretch(segment'[h]) : h \in SegmentsOf(segment, t)'}
    BY DEF LedgerWork, Stretch
  <2>2. {Stretch(segment'[h]) : h \in SegmentsOf(segment, t)} = LedgerWork[t]
    BY <1>3, WorkOfSession DEF SegmentsOf
  <2>3. CASE t = row.session
    <3>1. LedgerWork'[t] = {Stretch(segment'[h]) : h \in SegmentsOf(segment, t) \cup {g}}
      BY <1>2, <2>1, <2>3
    <3>2. LedgerWork'[t] =
              {Stretch(segment'[h]) : h \in SegmentsOf(segment, t)} \cup {Stretch(segment'[g])}
      BY <3>1
    <3> QED BY <1>1, <2>2, <2>3, <3>2
  <2>4. CASE t # row.session
    BY <1>2, <2>1, <2>2, <2>4
  <2> QED BY <2>3, <2>4
<1> QED BY <1>4 DEF LedgerWork

(* A row rewritten for the same session moves its stretch. *)
LEMMA StretchMoved ==
    ASSUME RowsInvariant, NEW g \in Segments, NEW row \in SegmentRow,
           segment[g] # NoRow, segment[g].session = row.session,
           segment' = [segment EXCEPT ![g] = row]
    PROVE  /\ Stretch(segment[g]) \in LedgerWork[row.session]
           /\ LedgerWork' = [LedgerWork EXCEPT
                  ![row.session] = (@ \ {Stretch(segment[g])}) \cup {Stretch(row)}]
<1>1. segment'[g] = row /\ (\A h \in Segments \ {g} : segment'[h] = segment[h]) /\ row # NoRow
  BY DEF RowsInvariant, TypeOK
<1>2. \A t \in Sessions : SegmentsOf(segment, t)' = SegmentsOf(segment, t)
  BY <1>1 DEF SegmentsOf
<1>3. row.session \in Sessions /\ g \in SegmentsOf(segment, row.session)
  BY SegmentRowFields DEF SegmentsOf
<1>4. ASSUME NEW t \in Sessions, t # row.session
      PROVE  LedgerWork'[t] = LedgerWork[t]
  <2>1. LedgerWork'[t] = {Stretch(segment'[h]) : h \in SegmentsOf(segment, t)}
    BY <1>2 DEF LedgerWork, Stretch
  <2>2. \A h \in SegmentsOf(segment, t) : segment'[h] = segment[h]
    BY <1>1, <1>4 DEF SegmentsOf
  <2> QED BY <2>1, <2>2, WorkOfSession
<1>5. LedgerWork'[row.session] =
          (LedgerWork[row.session] \ {Stretch(segment[g])}) \cup {Stretch(row)}
  <2> DEFINE others == SegmentsOf(segment, row.session) \ {g}
  <2>1. LedgerWork'[row.session] =
            {Stretch(segment'[h]) : h \in SegmentsOf(segment, row.session)}
    BY <1>2, <1>3 DEF LedgerWork, Stretch
  <2>2. \A h \in others : segment'[h] = segment[h] /\ Stretch(segment[h]) # Stretch(segment[g])
    BY <1>1, <1>3, StretchesAreDistinct DEF SegmentsOf
  <2>3. LedgerWork'[row.session] = {Stretch(segment[h]) : h \in others} \cup {Stretch(row)}
    BY <1>1, <1>3, <2>1, <2>2
  <2>4. LedgerWork[row.session] \ {Stretch(segment[g])} = {Stretch(segment[h]) : h \in others}
    BY <1>3, <2>2, WorkOfSession
  <2> QED BY <2>3, <2>4
<1>6. Stretch(segment[g]) \in LedgerWork[row.session]
  BY <1>3, WorkOfSession
<1> QED BY <1>3, <1>4, <1>5, <1>6 DEF LedgerWork
-----------------------------------------------------------------------------
(* Each kind of write, as a step of the ledger. *)

LEMMA StatusOf ==
    ASSUME TypeOK, NEW s \in Sessions
    PROVE  LedgerStatus[s] = IF Live(s) THEN session[s].status ELSE "absent"
BY DEF LedgerStatus

LEMMA StartIsLedgerStart ==
    ASSUME RowsInvariant, NEW s \in Sessions, NEW g \in Segments, NEW at \in Times,
           ~ Live(s), segment[g] = NoRow,
           segment' = [segment EXCEPT ![g] = [session |-> s, started |-> at, ended |-> Null]],
           session'[s] # NoRow, session'[s].status = "running",
           \A t \in Sessions \ {s} : session'[t] = session[t]
    PROVE  Ledger!Start(s, at)
<1> DEFINE row == [session |-> s, started |-> at, ended |-> Null]
<1>1. row \in SegmentRow
  BY SegmentRowIntro
<1>2. LedgerWork[s] = {}
  BY WorkOfSession DEF RowsInvariant, SegmentsAreDisjoint, SegmentsOf
<1>3. LedgerWork' = [LedgerWork EXCEPT ![s] = {<<at, Null>>}]
  <2>1. row.session = s /\ Stretch(row) = <<at, Null>>
    BY DEF Stretch
  <2>2. LedgerWork' = [LedgerWork EXCEPT ![row.session] = @ \cup {Stretch(row)}]
    BY <1>1, StretchAdded
  <2>3. LedgerWork' = [LedgerWork EXCEPT ![s] = LedgerWork[s] \cup {<<at, Null>>}]
    BY <2>1, <2>2
  <2> QED BY <1>2, <2>3
<1> QED BY <1>3, StatusWritten, StatusOf
        DEF Ledger!Start, Ledger!Becomes, Ledger!Never, RowsInvariant

LEMMA ClosingIsLedgerClosing ==
    ASSUME RowsInvariant, NEW s \in Sessions, NEW at \in Times, NEW to,
           Live(s), session[s].status = "running", CloseOpenSegment(s, at),
           session'[s] # NoRow, session'[s].status = to,
           \A t \in Sessions \ {s} : session'[t] = session[t]
    PROVE  Ledger!Closing(s, at, to)
<1>1. PICK g \in Segments, row \in SegmentRow :
          /\ segment[g] \in SegmentRow /\ segment[g].session = s
          /\ segment[g].ended = Null /\ segment[g].started < at
          /\ row.session = s /\ row.started = segment[g].started /\ row.ended = at
          /\ segment' = [segment EXCEPT ![g] = row]
  BY CloseOpenSegmentLemma DEF RowsInvariant
<1>2. /\ Stretch(segment[g]) \in LedgerWork[s]
      /\ LedgerWork' = [LedgerWork EXCEPT
             ![s] = (LedgerWork[s] \ {Stretch(segment[g])}) \cup {Stretch(row)}]
  <2>1. segment[g] # NoRow /\ segment[g].session = row.session
    BY <1>1
  <2>2. /\ Stretch(segment[g]) \in LedgerWork[row.session]
        /\ LedgerWork' = [LedgerWork EXCEPT
               ![row.session] = (@ \ {Stretch(segment[g])}) \cup {Stretch(row)}]
    BY <1>1, <2>1, StretchMoved
  <2> QED BY <1>1, <2>2
<1>3. LedgerStatus[s] = "running" /\ LedgerStatus' = [LedgerStatus EXCEPT ![s] = to]
  BY StatusOf, StatusWritten DEF RowsInvariant
<1>4. /\ Stretch(segment[g])[1] = segment[g].started /\ Stretch(segment[g])[2] = Null
      /\ Stretch(row) = <<segment[g].started, at>>
  BY <1>1 DEF Stretch
<1> QED BY <1>1, <1>2, <1>3, <1>4 DEF Ledger!Closing, Ledger!Becomes, Ledger!Never

LEMMA ResumeIsLedgerResume ==
    ASSUME RowsInvariant, NEW s \in Sessions, NEW g \in Segments, NEW at \in Times,
           Live(s), session[s].status = "paused", segment[g] = NoRow,
           NotBeforeLastEnd(segment, s, at),
           segment' = [segment EXCEPT ![g] = [session |-> s, started |-> at, ended |-> Null]],
           session'[s] # NoRow, session'[s].status = "running",
           \A t \in Sessions \ {s} : session'[t] = session[t]
    PROVE  Ledger!Resume(s, at)
<1> DEFINE row == [session |-> s, started |-> at, ended |-> Null]
<1>1. row \in SegmentRow /\ row.session = s /\ Stretch(row) = <<at, Null>>
  BY SegmentRowIntro DEF Stretch
<1>2. LedgerWork' = [LedgerWork EXCEPT ![s] = LedgerWork[s] \cup {<<at, Null>>}]
  <2>1. LedgerWork' = [LedgerWork EXCEPT ![row.session] = @ \cup {Stretch(row)}]
    BY <1>1, StretchAdded
  <2> QED BY <1>1, <2>1
<1>3. \A h \in SegmentsOf(segment, s) : segment[h].ended # Null /\ segment[h].ended <= at
  BY DEF RowsInvariant, QuietSessionsAreClosed, OpenSegmentsOf, NotBeforeLastEnd
<1>4. \A w \in LedgerWork[s] : w[2] # Null /\ w[2] <= at
  BY <1>3, WorkOfSession DEF Stretch
<1> QED BY <1>2, <1>4, StatusWritten, StatusOf
        DEF Ledger!Resume, Ledger!Closed, Ledger!Becomes, Ledger!Never, RowsInvariant

(* Stopping a paused session touches no segment. *)
LEMMA QuietStopIsLedgerStop ==
    ASSUME RowsInvariant, NEW s \in Sessions, NEW at \in Times,
           Live(s), session[s].status = "paused", UNCHANGED segment,
           session'[s] # NoRow, session'[s].status = "stopped",
           \A t \in Sessions \ {s} : session'[t] = session[t]
    PROVE  Ledger!Stop(s, at)
<1>1. \A h \in SegmentsOf(segment, s) : segment[h].ended # Null
  BY DEF RowsInvariant, QuietSessionsAreClosed, OpenSegmentsOf
<1>2. \A w \in LedgerWork[s] : w[2] # Null
  BY <1>1, WorkOfSession DEF Stretch
<1>3. LedgerWork' = [LedgerWork EXCEPT ![s] = LedgerWork[s]]
  BY DEF LedgerWork, SegmentsOf
<1> QED BY <1>2, <1>3, StatusWritten, StatusOf
        DEF Ledger!Stop, Ledger!Closed, Ledger!Becomes, Ledger!Never, RowsInvariant

(* Whatever row the schema admits in the place of a segment, provided that *)
(* it does not reopen it.                                                  *)
LEMMA CorrectionIsLedgerCorrect ==
    ASSUME RowsInvariant, NEW g \in Segments, NEW row \in SegmentRow,
           segment[g] # NoRow, segment[g].session = row.session,
           row.ended # Null \/ row.ended = segment[g].ended,
           SegmentAdmitted(g, row), segment' = [segment EXCEPT ![g] = row],
           session'[row.session] # NoRow,
           session'[row.session].status = session[row.session].status,
           \A t \in Sessions \ {row.session} : session'[t] = session[t]
    PROVE  \E s \in Sessions : \E w \in LedgerWork[s], v \in Ledger!Stretches :
              Ledger!Correct(s, w, v)
<1> DEFINE s == row.session
           w == Stretch(segment[g])
           v == Stretch(row)
<1>1. s \in Sessions /\ segment[g] \in SegmentRow
  BY SegmentRowFields DEF RowsInvariant, TypeOK
<1>2. /\ v \in Ledger!Stretches /\ v[1] = row.started /\ v[2] = row.ended
      /\ w[2] = segment[g].ended
  BY SegmentRowFields DEF Stretch, Ledger!Stretches, Ledger!Times, Ledger!Never
<1>3. w \in LedgerWork[s] /\ LedgerWork' = [LedgerWork EXCEPT
                                  ![s] = (LedgerWork[s] \ {w}) \cup {v}]
  BY StretchMoved
<1>4. \A u \in LedgerWork[s] \ {w} : Ledger!Apart(u, v)
  <2>1. SUFFICES ASSUME NEW h \in SegmentsOf(segment, s), Stretch(segment[h]) # w
                 PROVE  Ledger!Apart(Stretch(segment[h]), v)
    BY <1>1, WorkOfSession
  <2>2. Disjoint(row, segment[h])
    BY <2>1 DEF SegmentAdmitted
  <2> QED BY <2>2 DEF Stretch, Ledger!Apart
<1>5. LedgerStatus[s] = session[s].status
      /\ LedgerStatus' = [LedgerStatus EXCEPT ![s] = session[s].status]
  <2>1. Live(s)
    BY DEF RowsInvariant, SegmentsAreDisjoint
  <2> QED BY <1>1, <2>1, StatusWritten, StatusOf DEF RowsInvariant
<1>6. Ledger!Correct(s, w, v)
  <2> HIDE DEF s, w, v
  <2>1. v[2] # Null \/ w[2] = Null
    BY <1>2
  <2> QED BY <1>3, <1>4, <1>5, <2>1 DEF Ledger!Correct, Ledger!Becomes, Ledger!Never
<1> QED BY <1>1, <1>2, <1>3, <1>6

LEMMA DeleteIsLedgerDelete ==
    ASSUME RowsInvariant, NEW s \in Sessions, Delete(s)
    PROVE  Ledger!Delete(s)
<1>1. /\ session'[s] = NoRow /\ \A t \in Sessions \ {s} : session'[t] = session[t]
      /\ \A g \in Segments :
            segment'[g] = IF g \in SegmentsOf(segment, s) THEN NoRow ELSE segment[g]
      /\ session[s] \in SessionRow
  BY DEF Delete, Live, RowsInvariant, TypeOK
<1>2. LedgerStatus' = [LedgerStatus EXCEPT ![s] = "absent"]
  BY <1>1 DEF LedgerStatus, Live
<1>3. SegmentsOf(segment, s)' = {}
  BY <1>1 DEF SegmentsOf
<1>4. ASSUME NEW t \in Sessions \ {s} PROVE LedgerWork'[t] = LedgerWork[t]
  <2>1. /\ SegmentsOf(segment, t)' = SegmentsOf(segment, t)
        /\ \A g \in SegmentsOf(segment, t) : segment'[g] = segment[g]
    BY <1>1 DEF SegmentsOf
  <2> QED BY <2>1 DEF LedgerWork
<1>5. LedgerWork' = [LedgerWork EXCEPT ![s] = {}]
  BY <1>3, <1>4 DEF LedgerWork
<1>6. LedgerStatus[s] = session[s].status /\ session[s].status # "absent"
  BY <1>1, StatusOf, SessionRowFields DEF Delete, RowsInvariant, Statuses
<1> QED BY <1>2, <1>5, <1>6 DEF Ledger!Delete, Ledger!Becomes

-----------------------------------------------------------------------------
(* The refinement. *)

LEMMA LedgerInit == Init => Ledger!Init
BY DEF Init, Ledger!Init, LedgerStatus, LedgerWork, Live, SegmentsOf

(* Steps of one session that the ledger's Next offers. *)
LEMMA LedgerMoves ==
    ASSUME NEW s \in Sessions, NEW at \in Times,
           \/ Ledger!Start(s, at) \/ Ledger!Pause(s, at)
           \/ Ledger!Resume(s, at) \/ Ledger!Stop(s, at)
    PROVE  Ledger!Next
BY DEF Ledger!Next, Ledger!Times

(* The tables seen through the mapping when nothing of it is written. *)
LEMMA LedgerStutters ==
    ASSUME UNCHANGED segment,
           \A s \in Sessions : session'[s] = session[s] \/
               (Live(s) /\ session'[s] # NoRow /\ session'[s].status = session[s].status)
    PROVE  UNCHANGED <<LedgerStatus, LedgerWork>>
BY DEF LedgerStatus, LedgerWork, Live, SegmentsOf

LEMMA WorkSessionsStep ==
    ASSUME TrackingInvariant, [Next]_vars
    PROVE  [Ledger!Next]_<<LedgerStatus, LedgerWork>>
<1>1. RowsInvariant
  BY DEF RowsInvariant, TrackingInvariant
<1>2. ASSUME NEW s \in Sessions, NEW g \in Segments, NEW p \in Projects,
             NEW at \in Requestable, Start(s, g, p, at)
      PROVE  Ledger!Next
  <2>1. session'[s] \in SessionRow /\ session'[s].status = "running"
        /\ \A t \in Sessions \ {s} : session'[t] = session[t]
    BY <1>1, <1>2 DEF Start, Requestable, RowsInvariant, TypeOK, SessionRow, Statuses
  <2> QED BY <1>1, <1>2, <2>1, StartIsLedgerStart, LedgerMoves DEF Start, Requestable
<1>3. ASSUME NEW s \in Sessions, NEW at \in Requestable, Pause(s, at)
      PROVE  Ledger!Next
  <2>1. Live(s) /\ session[s].status = "running" /\ CloseOpenSegment(s, at)
    BY <1>3 DEF Pause, Moves, Transitions
  <2>2. session'[s] \in SessionRow /\ session'[s].status = "paused"
        /\ \A t \in Sessions \ {s} : session'[t] = session[t]
    BY <1>1, <1>3, <2>1 DEF Pause, Live, RowsInvariant, TypeOK, SessionRow, Statuses
  <2>3. Ledger!Closing(s, at, "paused")
    BY <1>1, <2>1, <2>2, ClosingIsLedgerClosing DEF Requestable
  <2> QED BY <2>3, LedgerMoves DEF Ledger!Pause, Requestable
<1>4. ASSUME NEW s \in Sessions, NEW g \in Segments, NEW at \in Requestable, Resume(s, g, at)
      PROVE  Ledger!Next
  <2>1. Live(s) /\ session[s].status = "paused" /\ segment[g] = NoRow
        /\ NotBeforeLastEnd(segment, s, at)
        /\ segment' = [segment EXCEPT ![g] = [session |-> s, started |-> at, ended |-> Null]]
    BY <1>4 DEF Resume, Moves, Transitions
  <2>2. session'[s] \in SessionRow /\ session'[s].status = "running"
        /\ \A t \in Sessions \ {s} : session'[t] = session[t]
    BY <1>1, <1>4, <2>1 DEF Resume, Live, RowsInvariant, TypeOK, SessionRow, Statuses
  <2> QED BY <1>1, <2>1, <2>2, ResumeIsLedgerResume, LedgerMoves DEF Requestable
<1>5. ASSUME NEW s \in Sessions, NEW at \in Requestable, NEW reason \in Reasons,
             Stop(s, at, reason)
      PROVE  Ledger!Next
  <2>1. Live(s) /\ session[s].status \in {"running", "paused"}
        /\ session' = [session EXCEPT ![s].status = "stopped", ![s].stopped = at,
                                      ![s].reason = reason]
    BY <1>5 DEF Stop, Moves, Transitions
  <2>2. session'[s] # NoRow /\ session'[s].status = "stopped"
        /\ \A t \in Sessions \ {s} : session'[t] = session[t]
    <3>1. session[s] \in SessionRow /\ session[s].started <= at /\ at \in Times
      BY <1>1, <1>5, <2>1 DEF Stop, Live, Requestable, RowsInvariant, TypeOK
    <3> QED BY <1>1, <2>1, <3>1 DEF RowsInvariant, TypeOK, SessionRow, Statuses
  <2>3. CASE session[s].status = "running"
    <3>1. Ledger!Closing(s, at, "stopped")
      BY <1>1, <1>5, <2>1, <2>2, <2>3, ClosingIsLedgerClosing DEF Stop, Requestable
    <3> QED BY <3>1, LedgerMoves DEF Ledger!Stop, Requestable
  <2>4. CASE session[s].status = "paused"
    <3>1. UNCHANGED segment
      BY <1>5, <2>4 DEF Stop
    <3> QED BY <1>1, <2>1, <2>2, <2>4, <3>1, QuietStopIsLedgerStop, LedgerMoves
            DEF Requestable
  <2> QED BY <2>1, <2>3, <2>4
<1>6. ASSUME CorrectSomeSegment PROVE Ledger!Next
  <2>1. PICK g \in Segments, from \in Times, to \in Times :
            /\ segment[g] # NoRow
            /\ \E row \in SegmentPatch(segment[g], from, to) : CorrectSegment(g, row)
    BY <1>6 DEF CorrectSomeSegment, Requestable
  <2>2. PICK row \in SegmentPatch(segment[g], from, to) : CorrectSegment(g, row)
    BY <2>1
  <2>3. segment[g] \in SegmentRow
    BY <2>1 DEF TrackingInvariant, TypeOK
  <2>4. /\ row \in SegmentRow /\ row.session = segment[g].session
        /\ row.ended # Null \/ row.ended = segment[g].ended
        /\ SegmentAdmitted(g, row) /\ segment' = [segment EXCEPT ![g] = row]
    BY <2>2, <2>3, PatchLemma DEF CorrectSegment, SegmentAdmitted
  <2>5. Live(row.session) /\ row.session \in Sessions
    BY <1>1, <2>1, <2>4, SegmentRowFields DEF RowsInvariant, SegmentsAreDisjoint
  <2>6. /\ session'[row.session] # NoRow
        /\ session'[row.session].status = session[row.session].status
    BY <1>6, <2>5, CorrectionEffect
  <2>7. \A t \in Sessions \ {row.session} : session'[t] = session[t]
    BY <1>1, <2>2, <2>4 DEF CorrectSegment, RowsInvariant, TypeOK
  <2>8. PICK s \in Sessions : \E w \in LedgerWork[s], v \in Ledger!Stretches :
            Ledger!Correct(s, w, v)
    BY <1>1, <2>1, <2>4, <2>6, <2>7, CorrectionIsLedgerCorrect
  <2> QED BY <2>8 DEF Ledger!Next
<1>7. ASSUME NEW s \in Sessions, Delete(s) PROVE Ledger!Next
  BY <1>1, <1>7, DeleteIsLedgerDelete DEF Ledger!Next
<1>8. ASSUME NEW s \in Sessions, NEW p \in Projects, Update(s, p)
      PROVE  UNCHANGED <<LedgerStatus, LedgerWork>>
  <2>1. session[s] \in SessionRow /\ session' = [session EXCEPT ![s].project = p]
    BY <1>1, <1>8 DEF Update, Live, RowsInvariant, TypeOK
  <2>2. session'[s] \in SessionRow /\ session'[s].status = session[s].status
        /\ \A t \in Sessions \ {s} : session'[t] = session[t]
    BY <1>1, <2>1 DEF RowsInvariant, TypeOK, SessionRow
  <2> QED BY <1>8, <2>2, LedgerStutters DEF Update
<1>9. CASE UNCHANGED <<session, segment>>
  BY <1>9, LedgerStutters
<1> QED BY <1>2, <1>3, <1>4, <1>5, <1>6, <1>7, <1>8, <1>9
        DEF Next, vars, CreateProject, PatchProject, Tick

(* Every transaction the API commits is one step of the ledger or none:    *)
(* the four tables never show a session anything the ledger does not allow.*)
THEOREM RefinementTheorem == Spec => ImplementsLedger
<1>1. Init => Ledger!Init
  BY LedgerInit
<1>2. TrackingInvariant /\ [Next]_vars => [Ledger!Next]_(Ledger!vars)
  BY WorkSessionsStep DEF Ledger!vars
<1> QED BY <1>1, <1>2, TrackingTheorem, PTL DEF Spec, ImplementsLedger, Ledger!Spec


=============================================================================
