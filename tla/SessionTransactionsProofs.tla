---------------------- MODULE SessionTransactionsProofs ----------------------
(***************************************************************************)
(* Theorems about SessionTransactions, for every number of clients, rows   *)
(* and requests in progress.                                               *)
(***************************************************************************)
EXTENDS SessionTransactions, WorkSessionsRefinement, FiniteSetTheorems, SequenceTheorems

USE BoundsAssumption, NoRowAssumption, ReasonAssumption
DEF Times, Null, Disjoint, StopRow, NoBounds, UnchangedTables

-----------------------------------------------------------------------------
(* The inductive invariant, stated of a request in progress r = txn[c].    *)

MoveOps == SingleOps \cup BulkOps

(* The session r has locked, and the segment it has written. *)
Subject(r) == Head(r.todo)

HoldsSession(r) ==
    \/ r.pc \in {"work", "commit", "cascade"}
    \/ r.pc = "exclude" /\ r.op # "correct"

HoldsSegment(r) == r.row # NoRow

(* What each statement may count on in the request's own record. *)
Shape(r) ==
    /\ HoldsSession(r) => r.todo # <<>> /\ Subject(r) \in r.locks
    /\ r.pc \in {"lock", "reply"} => r.todo # <<>>
    /\ r.pc \in {"exclude", "bounds", "session"} => HoldsSegment(r)
    /\ HoldsSegment(r) =>
          /\ r.pc \in {"exclude", "commit", "bounds", "session"}
          /\ r.g \in Segments /\ r.g \in r.locks
    /\ r.pc = "list" => r.op \in BulkOps
    /\ r.pc = "lock" => r.op \in MoveOps \cup {"delete"}
    /\ r.pc \in {"work", "commit", "reply"} => r.op \in MoveOps
    /\ r.pc = "exclude" => r.op \in MoveOps \cup {"correct"}
    /\ r.pc \in {"take", "bounds", "session"} => r.op = "correct" /\ r.g \in Segments
    /\ r.pc = "cascade" => r.op = "delete"
    /\ r.pc = "insert" => r.p \in Projects
    /\ r.pc = "session" => r.bounds[1] \in Times

(* The committed row of a session stays, while r has it locked, as it was  *)
(* when r looked at its status.                                            *)
SessionKept(r) ==
    HoldsSession(r) =>
        /\ Live(Subject(r))
        /\ r.op # "delete" => Moves(Subject(r), Verb(r.op), Target(r.op))
        /\ HoldsSegment(r) /\ Verb(r.op) # "resume" => session[Subject(r)].status = "running"
        /\ r.pc = "commit" /\ ~ HoldsSegment(r) =>
              Verb(r.op) = "stop" /\ session[Subject(r)].status = "paused"

(* The segment r writes stays as r found it, and once the exclusion        *)
(* constraint has been checked r's row goes on satisfying it.              *)
WritesCorrection(r) ==
    /\ segment[r.g] # NoRow /\ segment[r.g].session = r.row.session
    /\ r.row.ended # Null \/ r.row.ended = segment[r.g].ended

WritesBegin(r) ==
    /\ segment[r.g] = NoRow
    /\ r.row = [session |-> Subject(r), started |-> r.at, ended |-> Null]

WritesEnd(r) ==
    /\ segment[r.g] # NoRow /\ segment[r.g].session = Subject(r)
    /\ segment[r.g].ended = Null /\ segment[r.g].started < r.at
    /\ r.row = [segment[r.g] EXCEPT !.ended = r.at]

SegmentKept(r) ==
    HoldsSegment(r) =>
        /\ r.pc # "exclude" => SegmentAdmitted(r.g, r.row)
        /\ r.op = "correct" => WritesCorrection(r)
        /\ r.op # "correct" =>
              IF Verb(r.op) = "resume" THEN WritesBegin(r) ELSE WritesEnd(r)

(* Two requests never hold the same session or write the same segment, and *)
(* rows past the exclusion constraint do not overlap.                      *)
Exclusive(q, r) ==
    /\ HoldsSession(q) /\ HoldsSession(r) => Subject(q) # Subject(r)
    /\ HoldsSegment(q) /\ HoldsSegment(r) =>
          /\ q.g # r.g
          /\ q.pc # "exclude" /\ r.pc # "exclude" /\ q.row.session = r.row.session
                => Disjoint(q.row, r.row)

TxnInvariant ==
    /\ TxnTypeOK
    /\ RowsInvariant
    /\ \A c \in Clients : Shape(txn[c]) /\ SessionKept(txn[c]) /\ SegmentKept(txn[c])
    /\ \A c \in Clients : \A d \in Clients \ {c} : Exclusive(txn[c], txn[d])

-----------------------------------------------------------------------------
(* The committed tables. *)

(* Committing a row that the exclusion constraint admits, together with a  *)
(* session's own, keeps the rows invariant.                                *)
LEMMA RowCommitted ==
    ASSUME RowsInvariant, NEW g \in Segments, NEW row \in SegmentRow,
           NEW s \in Sessions, row.session = s,
           SegmentAdmitted(g, row), segment' = [segment EXCEPT ![g] = row],
           segment[g] # NoRow => segment[g].session = s,
           session'[s] \in SessionRow,
           \A t \in Sessions \ {s} : session'[t] = session[t],
           session'[s].status # "running" => OpenSegmentsOf(s)' = {},
           session' \in [Sessions -> SessionRow \cup {NoRow}], UNCHANGED <<project, now>>
    PROVE  RowsInvariant'
<1>1. TypeOK'
  BY DEF RowsInvariant, TypeOK
<1>2. SegmentsAreDisjoint'
  <2>1. session'[row.session] # NoRow /\ \A t \in Sessions : Live(t) => session'[t] # NoRow
    BY DEF Live
  <2> QED BY <2>1, WriteSegmentLemma DEF RowsInvariant
<1>3. segment'[g] = row /\ \A h \in Segments \ {g} : segment'[h] = segment[h]
  BY DEF RowsInvariant, TypeOK
<1>4. \A t \in Sessions \ {s} : OpenSegmentsOf(t)' = OpenSegmentsOf(t)
  BY <1>3 DEF OpenSegmentsOf, SegmentsOf
<1>5. QuietSessionsAreClosed'
  BY <1>4 DEF RowsInvariant, QuietSessionsAreClosed, Live
<1> QED BY <1>1, <1>2, <1>5 DEF RowsInvariant

(* The columns a commit writes into a session's row, kept together by the  *)
(* table's CHECKs.                                                         *)
LEMMA StoppedRow ==
    ASSUME NEW row \in SessionRow, NEW at \in Times, NEW reason \in Reasons, row.started <= at
    PROVE  [row EXCEPT !.status = "stopped", !.stopped = at, !.reason = reason] \in SessionRow
<1> DEFINE new == [row EXCEPT !.status = "stopped", !.stopped = at, !.reason = reason]
<1>1. new \in [project : Projects, status : Statuses, started : Times,
               stopped : Times \cup {Null}, reason : Reasons \cup {NoReason}]
  BY DEF SessionRow, Statuses
<1>2. new.status = "stopped" /\ new.stopped # Null /\ new.reason # NoReason
      /\ new.started <= new.stopped
  BY DEF SessionRow
<1>3. new \in SessionRow
  <2> HIDE DEF new
  <2> QED BY <1>1, <1>2 DEF SessionRow
<1> QED BY <1>3

LEMMA MovedRow ==
    ASSUME NEW row \in SessionRow, NEW to \in {"running", "paused"}, row.status # "stopped"
    PROVE  [row EXCEPT !.status = to] \in SessionRow
<1> DEFINE new == [row EXCEPT !.status = to]
<1>1. new \in [project : Projects, status : Statuses, started : Times,
               stopped : Times \cup {Null}, reason : Reasons \cup {NoReason}]
  BY DEF SessionRow, Statuses
<1>2. new.status # "stopped" /\ new.stopped = Null /\ new.reason = NoReason
      /\ new.started <= new.stopped
  BY DEF SessionRow
<1>3. new \in SessionRow
  <2> HIDE DEF new
  <2> QED BY <1>1, <1>2 DEF SessionRow
<1> QED BY <1>3

LEMMA BoundedRow ==
    ASSUME NEW row \in SessionRow, NEW first \in Times, NEW last \in Times \cup {Null},
           first <= last, (row.status = "stopped") <=> (last # Null)
    PROVE  [row EXCEPT !.started = first, !.stopped = last] \in SessionRow
<1> DEFINE new == [row EXCEPT !.started = first, !.stopped = last]
<1>1. new \in [project : Projects, status : Statuses, started : Times,
               stopped : Times \cup {Null}, reason : Reasons \cup {NoReason}]
  BY DEF SessionRow
<1>2. /\ new.status = row.status /\ new.stopped = last /\ new.reason = row.reason
      /\ new.started = first
  BY DEF SessionRow
<1>3. (row.status = "stopped") <=> (row.reason # NoReason)
  BY DEF SessionRow
<1>4. new \in SessionRow
  <2> HIDE DEF new
  <2> QED BY <1>1, <1>2, <1>3 DEF SessionRow
<1> QED BY <1>4

(* Writing a session's row without touching its segments.                  *)
LEMMA SessionCommitted ==
    ASSUME RowsInvariant, UNCHANGED <<segment, project, now>>, NEW s \in Sessions, Live(s),
           session' \in [Sessions -> SessionRow \cup {NoRow}], session'[s] \in SessionRow,
           \A t \in Sessions \ {s} : session'[t] = session[t],
           session'[s].status # "running" => OpenSegmentsOf(s) = {}
    PROVE  RowsInvariant'
<1>1. TypeOK'
  BY DEF RowsInvariant, TypeOK
<1>2. \A t \in Sessions : Live(t) => session'[t] # NoRow
  BY DEF Live
<1>3. SegmentsAreDisjoint'
  BY <1>2 DEF RowsInvariant, SegmentsAreDisjoint, TypeOK, SegmentRow, SegmentsOf, Live
<1>4. QuietSessionsAreClosed'
  BY DEF RowsInvariant, QuietSessionsAreClosed, OpenSegmentsOf, SegmentsOf, Live
<1> QED BY <1>1, <1>3, <1>4 DEF RowsInvariant

LEMMA SessionDeleted ==
    ASSUME RowsInvariant, NEW s \in Sessions, Delete(s)
    PROVE  RowsInvariant'
<1>1. /\ session' = [session EXCEPT ![s] = NoRow] /\ UNCHANGED <<project, now>>
      /\ session'[s] = NoRow /\ \A t \in Sessions \ {s} : session'[t] = session[t]
  BY DEF Delete, RowsInvariant, TypeOK
<1>2. \A g \in Segments :
          segment'[g] = IF g \in SegmentsOf(segment, s) THEN NoRow ELSE segment[g]
  BY DEF Delete
<1>3. TypeOK'
  <2>1. segment' \in [Segments -> SegmentRow \cup {NoRow}]
    BY DEF Delete, RowsInvariant, TypeOK
  <2> QED BY <1>1, <2>1 DEF RowsInvariant, TypeOK
<1>4. \A t \in Sessions \ {s} : SegmentsOf(segment, t)' = SegmentsOf(segment, t)
  BY <1>2 DEF SegmentsOf
<1>5. \A t \in Sessions \ {s} : \A g \in SegmentsOf(segment, t) : segment'[g] = segment[g]
  BY <1>2 DEF SegmentsOf
<1>6. SegmentsAreDisjoint'
  <2>1. ASSUME NEW g \in Segments, segment'[g] # NoRow
        PROVE  segment'[g] = segment[g] /\ segment[g].session \in Sessions \ {s}
    BY <1>2, <2>1 DEF SegmentsOf, RowsInvariant, TypeOK, SegmentRow
  <2> QED BY <1>1, <1>4, <1>5, <2>1 DEF RowsInvariant, SegmentsAreDisjoint, Live, SegmentsOf
<1>7. QuietSessionsAreClosed'
  BY <1>1, <1>4, <1>5 DEF RowsInvariant, QuietSessionsAreClosed, OpenSegmentsOf, Live
<1> QED BY <1>3, <1>6, <1>7 DEF RowsInvariant

-----------------------------------------------------------------------------
(* Steps that only change a request's own record. *)

LEMMA ExclusiveIsSymmetric ==
    ASSUME NEW q \in Txn, NEW r \in Txn, Exclusive(q, r)
    PROVE  Exclusive(r, q)
BY DEF Exclusive

(* The rest of the invariant follows when client c's new record respects   *)
(* it on its own and beside those of the other clients.                    *)
LEMMA RecordStep ==
    ASSUME TxnInvariant, UNCHANGED <<project, session, segment, now>>,
           NEW c \in Clients, NEW r \in Txn, txn' = [txn EXCEPT ![c] = r],
           Shape(r), SessionKept(r), SegmentKept(r),
           \A d \in Clients \ {c} : Exclusive(r, txn[d])
    PROVE  TxnInvariant'
<1>1. TxnTypeOK' /\ RowsInvariant'
  BY DEF TxnInvariant, TxnTypeOK, TypeOK, RowsInvariant, SegmentsAreDisjoint,
         QuietSessionsAreClosed, OpenSegmentsOf, SegmentsOf, Live
<1>2. txn'[c] = r /\ \A d \in Clients \ {c} : txn'[d] = txn[d] /\ txn[d] \in Txn
  BY DEF TxnInvariant, TxnTypeOK
<1>3. ASSUME NEW d \in Clients
      PROVE  Shape(txn[d])' /\ SessionKept(txn[d])' /\ SegmentKept(txn[d])'
  <2>1. \E q : txn'[d] = q /\ Shape(q) /\ SessionKept(q) /\ SegmentKept(q)
    BY <1>2 DEF TxnInvariant
  <2> QED BY <2>1 DEF Shape, SessionKept, SegmentKept, HoldsSession, HoldsSegment, Subject,
          SegmentAdmitted, SegmentsOf, WritesCorrection, WritesBegin, WritesEnd, Live, Moves
<1>4. ASSUME NEW d \in Clients, NEW e \in Clients \ {d}
      PROVE  Exclusive(txn'[d], txn'[e])
  BY <1>2, ExclusiveIsSymmetric DEF TxnInvariant
<1>5. \A d \in Clients : \A e \in Clients \ {d} : Exclusive(txn[d], txn[e])'
  BY <1>4 DEF Exclusive, HoldsSession, HoldsSegment, Subject
<1> QED BY <1>1, <1>3, <1>5 DEF TxnInvariant

(* A request that holds nothing respects the others whatever it is at.     *)
LEMMA BareStep ==
    ASSUME TxnInvariant, UNCHANGED <<project, session, segment, now>>,
           NEW c \in Clients, NEW r \in Txn, txn' = [txn EXCEPT ![c] = r],
           r.row = NoRow, ~ HoldsSession(r), Shape(r)
    PROVE  TxnInvariant'
<1>1. SessionKept(r) /\ SegmentKept(r)
  BY DEF SessionKept, SegmentKept, HoldsSegment
<1>2. \A d \in Clients \ {c} : Exclusive(r, txn[d])
  BY DEF Exclusive, HoldsSegment
<1> QED BY <1>1, <1>2, RecordStep

LEMMA IdleLemma ==
    /\ Idle \in Txn /\ [Idle EXCEPT !.pc = "failed"] \in Txn
    /\ Idle.row = NoRow /\ Idle.pc = "idle" /\ Idle.todo = <<>>
    /\ Shape(Idle) /\ Shape([Idle EXCEPT !.pc = "failed"])
    /\ ~ HoldsSession(Idle) /\ ~ HoldsSession([Idle EXCEPT !.pc = "failed"])
<1>1. Idle \in Txn
  <2>1. <<>> \in Seq(Sessions) /\ {} \in SUBSET (Sessions \cup Segments)
        /\ NoBounds \in (Times \cup {Null}) \X (Times \cup {Null}) /\ 0 \in Times
    OBVIOUS
  <2> QED BY <2>1 DEF Idle, Txn
<1>2. [Idle EXCEPT !.pc = "failed"] \in Txn
  BY <1>1 DEF Txn
<1> QED BY <1>1, <1>2 DEF Idle, Shape, HoldsSession, HoldsSegment

LEMMA FailStep ==
    ASSUME TxnInvariant, NEW c \in Clients, Fail(c)
    PROVE  TxnInvariant'
<1>1. [Idle EXCEPT !.pc = "failed"].row = NoRow
  BY DEF Idle
<1> QED BY <1>1, IdleLemma, BareStep DEF Fail

LEMMA FinishStep ==
    ASSUME TxnInvariant, NEW c \in Clients, Finish(c), UnchangedTables
    PROVE  TxnInvariant'
BY IdleLemma, BareStep DEF Finish

LEMMA ReceiveStep ==
    ASSUME TxnInvariant, NEW c \in Clients, Receive(c)
    PROVE  TxnInvariant'
<1>1. ASSUME NEW op \in SingleOps \cup {"delete"}, NEW s \in Sessions, NEW at \in Times,
             Accept(c, op, [Idle EXCEPT !.pc = "lock", !.todo = <<s>>, !.at = at])
      PROVE  TxnInvariant'
  <2> DEFINE r == [[Idle EXCEPT !.pc = "lock", !.todo = <<s>>, !.at = at] EXCEPT !.op = op]
  <2>1. r \in Txn
    <3>1. op \in Requests /\ <<s>> \in Seq(Sessions) /\ Idle \in Txn
      BY <1>1, IdleLemma DEF Accept
    <3> QED BY <3>1 DEF Txn
  <2>2. r.pc = "lock" /\ r.todo # <<>> /\ r.row = NoRow /\ r.op = op
    BY DEF Idle
  <2>3. Shape(r) /\ ~ HoldsSession(r)
    BY <2>2 DEF Shape, HoldsSession, HoldsSegment, MoveOps
  <2>4. txn' = [txn EXCEPT ![c] = r] /\ UnchangedTables
    BY <1>1 DEF Accept
  <2> HIDE DEF r
  <2> QED BY <2>1, <2>2, <2>3, <2>4, BareStep
<1>2. ASSUME NEW op \in BulkOps, NEW at \in Times,
             Accept(c, op, [Idle EXCEPT !.pc = "list", !.at = at])
      PROVE  TxnInvariant'
  <2> DEFINE r == [[Idle EXCEPT !.pc = "list", !.at = at] EXCEPT !.op = op]
  <2>1. r \in Txn
    <3>1. op \in Requests /\ Idle \in Txn
      BY <1>2, IdleLemma DEF Accept
    <3> QED BY <3>1 DEF Txn
  <2>2. r.pc = "list" /\ r.row = NoRow /\ r.op = op
    BY DEF Idle
  <2>3. Shape(r) /\ ~ HoldsSession(r)
    BY <2>2 DEF Shape, HoldsSession, HoldsSegment
  <2>4. txn' = [txn EXCEPT ![c] = r] /\ UnchangedTables
    BY <1>2 DEF Accept
  <2> HIDE DEF r
  <2> QED BY <2>1, <2>2, <2>3, <2>4, BareStep
<1>3. ASSUME NEW s \in Sessions,
             Accept(c, "delete", [Idle EXCEPT !.pc = "lock", !.todo = <<s>>])
      PROVE  TxnInvariant'
  <2> DEFINE r == [[Idle EXCEPT !.pc = "lock", !.todo = <<s>>] EXCEPT !.op = "delete"]
  <2>1. r \in Txn
    <3>1. "delete" \in Requests /\ <<s>> \in Seq(Sessions) /\ Idle \in Txn
      BY <1>3, IdleLemma DEF Accept
    <3> QED BY <3>1 DEF Txn
  <2>2. r.pc = "lock" /\ r.todo # <<>> /\ r.row = NoRow /\ r.op = "delete"
    BY DEF Idle
  <2>3. Shape(r) /\ ~ HoldsSession(r)
    BY <2>2 DEF Shape, HoldsSession, HoldsSegment
  <2>4. txn' = [txn EXCEPT ![c] = r] /\ UnchangedTables
    BY <1>3 DEF Accept
  <2> HIDE DEF r
  <2> QED BY <2>1, <2>2, <2>3, <2>4, BareStep
<1>4. ASSUME NEW g \in Segments, Accept(c, "correct", [Idle EXCEPT !.pc = "take", !.g = g])
      PROVE  TxnInvariant'
  <2> DEFINE r == [[Idle EXCEPT !.pc = "take", !.g = g] EXCEPT !.op = "correct"]
  <2>1. r \in Txn
    <3>1. "correct" \in Requests /\ Idle \in Txn
      BY <1>4, IdleLemma DEF Accept
    <3> QED BY <3>1 DEF Txn
  <2>2. r.pc = "take" /\ r.row = NoRow /\ r.op = "correct" /\ r.g = g
    BY DEF Idle
  <2>3. Shape(r) /\ ~ HoldsSession(r)
    BY <2>2 DEF Shape, HoldsSession, HoldsSegment
  <2>4. txn' = [txn EXCEPT ![c] = r] /\ UnchangedTables
    BY <1>4 DEF Accept
  <2> HIDE DEF r
  <2> QED BY <2>1, <2>2, <2>3, <2>4, BareStep
<1> QED BY <1>1, <1>2, <1>3, <1>4 DEF Receive

LEMMA CheckProjectStep ==
    ASSUME TxnInvariant, NEW c \in Clients, CheckProject(c)
    PROVE  TxnInvariant'
<1>1. PICK p \in Projects, at \in Times :
          Accept(c, "start", [Idle EXCEPT !.pc = "insert", !.p = p, !.at = at])
  BY DEF CheckProject
<1> DEFINE r == [[Idle EXCEPT !.pc = "insert", !.p = p, !.at = at] EXCEPT !.op = "start"]
<1>2. r \in Txn
  <2>1. "start" \in Requests /\ Idle \in Txn
    BY <1>1, IdleLemma DEF Accept
  <2> QED BY <2>1 DEF Txn
<1>3. r.pc = "insert" /\ r.row = NoRow /\ r.op = "start" /\ r.p = p
  BY DEF Idle
<1>4. Shape(r) /\ ~ HoldsSession(r)
  BY <1>3 DEF Shape, HoldsSession, HoldsSegment
<1>5. txn' = [txn EXCEPT ![c] = r] /\ UnchangedTables
  BY <1>1 DEF Accept
<1> HIDE DEF r
<1> QED BY <1>2, <1>3, <1>4, <1>5, BareStep

-----------------------------------------------------------------------------
(* The statements before the commit. *)

LEMMA TxnFields ==
    ASSUME NEW r \in Txn
    PROVE  /\ r.todo \in Seq(Sessions) /\ r.at \in Times /\ r.p \in Projects \cup {NoRow}
           /\ r.g \in Segments \cup {NoRow} /\ r.row \in SegmentRow \cup {NoRow}
           /\ r.op \in Requests \cup {"none"} /\ r.locks \in SUBSET (Sessions \cup Segments)
           /\ r.bounds \in (Times \cup {Null}) \X (Times \cup {Null})
           /\ r.todo # <<>> => Subject(r) \in Sessions
BY HeadTailProperties DEF Txn, Subject

LEMMA ListStep ==
    ASSUME TxnInvariant, NEW c \in Clients, List(c)
    PROVE  TxnInvariant'
<1>1. PICK named \in SUBSET Sessions : \E todo \in SetToSeqs(named) :
          \/ todo = <<>> /\ Finish(c)
          \/ todo # <<>> /\ txn' = [txn EXCEPT ![c].todo = todo, ![c].pc = "lock"]
  BY DEF List, Listed
<1>2. PICK todo \in SetToSeqs(named) :
          \/ todo = <<>> /\ Finish(c)
          \/ todo # <<>> /\ txn' = [txn EXCEPT ![c].todo = todo, ![c].pc = "lock"]
  BY <1>1
<1>3. UnchangedTables /\ txn[c] \in Txn /\ txn[c].pc = "list"
  BY DEF List, TxnInvariant, TxnTypeOK
<1>4. CASE Finish(c)
  BY <1>3, <1>4, FinishStep
<1>5. CASE todo # <<>> /\ txn' = [txn EXCEPT ![c].todo = todo, ![c].pc = "lock"]
  <2>1. todo \in Seq(Sessions)
    <3>1. Cardinality(named) \in Nat
      BY SessionsAssumption, FS_Subset, FS_CardinalityType
    <3>2. todo \in [1 .. Cardinality(named) -> named]
      BY DEF SetToSeqs
    <3> QED BY <3>1, <3>2
  <2> DEFINE r == [txn[c] EXCEPT !.todo = todo, !.pc = "lock"]
  <2>2. r \in Txn /\ txn' = [txn EXCEPT ![c] = r]
    BY <1>3, <1>5, <2>1 DEF Txn
  <2>3. txn[c].row = NoRow /\ txn[c].op \in BulkOps
    BY <1>3 DEF TxnInvariant, Shape, HoldsSegment
  <2>4. r.pc = "lock" /\ r.row = NoRow /\ r.op = txn[c].op /\ r.todo # <<>>
    BY <1>3, <1>5, <2>3 DEF Txn
  <2>5. Shape(r) /\ ~ HoldsSession(r)
    BY <2>3, <2>4 DEF Shape, HoldsSession, HoldsSegment, MoveOps
  <2> HIDE DEF r
  <2> QED BY <1>3, <2>2, <2>4, <2>5, BareStep
<1> QED BY <1>2, <1>4, <1>5

LEMMA ReplyStep ==
    ASSUME TxnInvariant, NEW c \in Clients, Reply(c)
    PROVE  TxnInvariant'
<1>1. txn[c] \in Txn /\ txn[c].pc = "reply" /\ Shape(txn[c])
  BY DEF Reply, TxnInvariant, TxnTypeOK
<1>2. CASE Fail(c)
  BY <1>2, FailStep
<1>3. CASE Finish(c) /\ UnchangedTables
  BY <1>3, FinishStep
<1>4. CASE /\ Len(txn[c].todo) # 1 /\ UnchangedTables
           /\ txn' = [txn EXCEPT ![c].todo = Tail(@), ![c].pc = "lock"]
  <2>1. Tail(txn[c].todo) \in Seq(Sessions) /\ Tail(txn[c].todo) # <<>>
    <3>1. txn[c].todo \in Seq(Sessions) /\ txn[c].todo # <<>>
      BY <1>1, TxnFields DEF Shape
    <3>2. Tail(txn[c].todo) \in Seq(Sessions) /\ Len(Tail(txn[c].todo)) = Len(txn[c].todo) - 1
      BY <3>1, HeadTailProperties
    <3>3. Len(txn[c].todo) \in Nat /\ Len(txn[c].todo) # 0
      BY <3>1, EmptySeq
    <3>4. Len(Tail(txn[c].todo)) # 0
      BY <1>4, <3>2, <3>3
    <3> QED BY <3>2, <3>4, EmptySeq
  <2> DEFINE r == [txn[c] EXCEPT !.todo = Tail(@), !.pc = "lock"]
  <2>2. r \in Txn /\ txn' = [txn EXCEPT ![c] = r]
    BY <1>1, <1>4, <2>1 DEF Txn
  <2>3. r.pc = "lock" /\ r.row = NoRow /\ r.op = txn[c].op /\ r.todo # <<>>
        /\ txn[c].op \in MoveOps
    BY <1>1, <2>1 DEF Txn, Shape, HoldsSegment
  <2>4. Shape(r) /\ ~ HoldsSession(r)
    BY <2>3 DEF Shape, HoldsSession, HoldsSegment, MoveOps, SingleOps, BulkOps
  <2> HIDE DEF r
  <2> QED BY <1>4, <2>2, <2>3, <2>4, BareStep
<1> QED BY <1>2, <1>3, <1>4 DEF Reply

LEMMA LockSessionStep ==
    ASSUME TxnInvariant, NEW c \in Clients, LockSession(c)
    PROVE  TxnInvariant'
<1> DEFINE s == Subject(txn[c])
<1>1. /\ txn[c] \in Txn /\ txn[c].pc = "lock" /\ txn[c].row = NoRow /\ s \in Sessions
      /\ txn[c].todo # <<>> /\ txn[c].op \in MoveOps \cup {"delete"}
  <2>1. txn[c] \in Txn /\ txn[c].pc = "lock" /\ Shape(txn[c])
    BY DEF LockSession, TxnInvariant, TxnTypeOK
  <2> QED BY <2>1, TxnFields DEF Shape, HoldsSegment
<1>2. \A d \in Clients \ {c} : HoldsSession(txn[d]) => Subject(txn[d]) # s
  BY DEF LockSession, FreeFor, Holders, Current, Subject, TxnInvariant, Shape
<1>3. CASE Fail(c)
  BY <1>3, FailStep
<1>4. ASSUME NEW pc \in {"work", "cascade"},
             txn' = [txn EXCEPT ![c] = [[txn[c] EXCEPT !.locks = {s}] EXCEPT !.pc = pc]],
             UnchangedTables, Live(s), pc = "cascade" <=> txn[c].op = "delete",
             txn[c].op # "delete" => Moves(s, Verb(txn[c].op), Target(txn[c].op))
      PROVE  TxnInvariant'
  <2> DEFINE r == [[txn[c] EXCEPT !.locks = {s}] EXCEPT !.pc = pc]
  <2>1. r \in Txn
    BY <1>1 DEF Txn
  <2>2. /\ r.pc = pc /\ r.op = txn[c].op /\ r.row = NoRow /\ r.todo = txn[c].todo
        /\ r.locks = {s}
    BY <1>1 DEF Txn
  <2> HIDE DEF r
  <2>3. Subject(r) = s /\ ~ HoldsSegment(r)
    BY <2>2 DEF Subject, HoldsSegment
  <2>4. Shape(r)
    BY <1>1, <1>4, <2>2, <2>3 DEF Shape
  <2>5. SessionKept(r) /\ SegmentKept(r)
    BY <1>4, <2>2, <2>3 DEF SessionKept, SegmentKept
  <2>6. \A d \in Clients \ {c} : Exclusive(r, txn[d])
    BY <1>2, <2>3 DEF Exclusive
  <2>7. txn' = [txn EXCEPT ![c] = r]
    BY <1>4 DEF r
  <2> QED BY <1>4, <2>1, <2>4, <2>5, <2>6, <2>7, RecordStep
<1>5. CASE Live(s) /\ txn[c].op = "delete" /\ ~ Fail(c)
  BY <1>4, <1>5 DEF LockSession, Current, Subject
<1>6. CASE Live(s) /\ txn[c].op # "delete" /\ ~ Fail(c)
  BY <1>4, <1>6 DEF LockSession, Current, Subject
<1> QED BY <1>3, <1>5, <1>6 DEF LockSession, Current, Subject

(* Writing a row that nobody else writes, for whatever reason.             *)
LEMMA WriteStep ==
    ASSUME TxnInvariant, UNCHANGED <<project, session, segment, now>>,
           NEW c \in Clients, NEW g \in Segments, NEW row \in SegmentRow, Write(c, g, row),
           txn[c].pc \in {"work", "take"},
           \A d \in Clients \ {c} : HoldsSegment(txn[d]) => txn[d].g # g,
           txn[c].pc = "take" =>
               /\ segment[g] # NoRow /\ segment[g].session = row.session
               /\ row.ended # Null \/ row.ended = segment[g].ended,
           txn[c].pc = "work" /\ Verb(txn[c].op) = "resume" =>
               /\ segment[g] = NoRow
               /\ row = [session |-> Subject(txn[c]), started |-> txn[c].at, ended |-> Null],
           txn[c].pc = "work" /\ Verb(txn[c].op) # "resume" =>
               /\ session[Subject(txn[c])].status = "running"
               /\ segment[g] # NoRow /\ segment[g].session = Subject(txn[c])
               /\ segment[g].ended = Null /\ segment[g].started < txn[c].at
               /\ row = [segment[g] EXCEPT !.ended = txn[c].at]
    PROVE  TxnInvariant'
<1> DEFINE r == [txn[c] EXCEPT !.g = g, !.row = row, !.pc = "exclude", !.locks = @ \cup {g}]
<1>1. /\ txn[c] \in Txn /\ Shape(txn[c]) /\ SessionKept(txn[c])
      /\ txn[c].locks \in SUBSET (Sessions \cup Segments)
  BY TxnFields DEF TxnInvariant, TxnTypeOK
<1>2. r \in Txn
  BY <1>1 DEF Txn
<1>3. /\ r.pc = "exclude" /\ r.op = txn[c].op /\ r.row = row /\ r.g = g
      /\ r.todo = txn[c].todo /\ r.at = txn[c].at /\ r.locks = txn[c].locks \cup {g}
  BY <1>1 DEF Txn
<1>4. txn' = [txn EXCEPT ![c] = r]
  BY DEF Write
<1> HIDE DEF r
<1>5. Subject(r) = Subject(txn[c]) /\ HoldsSegment(r)
  BY <1>3 DEF Subject, HoldsSegment
<1>6. /\ txn[c].pc = "work" => txn[c].op \in MoveOps /\ HoldsSession(txn[c])
      /\ txn[c].pc = "take" => txn[c].op = "correct"
  BY <1>1 DEF Shape, HoldsSession
<1>7. "correct" \notin MoveOps /\ "delete" \notin MoveOps
  BY DEF MoveOps, SingleOps, BulkOps
<1>8. HoldsSession(r) => txn[c].pc = "work"
  BY <1>3, <1>6 DEF HoldsSession
<1>9. Shape(r)
  BY <1>1, <1>3, <1>5, <1>6, <1>7, <1>8 DEF Shape
<1>10. SessionKept(r)
  BY <1>1, <1>3, <1>5, <1>6, <1>7, <1>8 DEF SessionKept
<1>11. SegmentKept(r)
  BY <1>3, <1>5, <1>6, <1>7 DEF SegmentKept, WritesCorrection, WritesBegin, WritesEnd
<1>12. \A d \in Clients \ {c} : Exclusive(r, txn[d])
  <2>1. \A d \in Clients \ {c} : HoldsSession(txn[c]) /\ HoldsSession(txn[d])
            => Subject(txn[c]) # Subject(txn[d])
    BY DEF TxnInvariant, Exclusive
  <2> QED BY <1>3, <1>5, <1>6, <1>8, <2>1 DEF Exclusive
<1> QED BY <1>2, <1>4, <1>9, <1>10, <1>11, <1>12, RecordStep

LEMMA EndSegmentStep ==
    ASSUME TxnInvariant, NEW c \in Clients, EndSegment(c)
    PROVE  TxnInvariant'
<1>1. /\ txn[c] \in Txn /\ txn[c].pc = "work" /\ Shape(txn[c]) /\ SessionKept(txn[c])
      /\ session[Subject(txn[c])].status = "running"
  BY DEF EndSegment, Current, Subject, TxnInvariant, TxnTypeOK
<1>2. txn[c].op \in MoveOps /\ Verb(txn[c].op) # "resume"
  <2>1. txn[c].op \in MoveOps /\ txn[c].op # "delete"
        /\ Moves(Subject(txn[c]), Verb(txn[c].op), Target(txn[c].op))
    BY <1>1 DEF Shape, SessionKept, HoldsSession, MoveOps, SingleOps, BulkOps
  <2> QED BY <1>1, <2>1 DEF Moves, Transitions
<1>3. CASE Fail(c)
  BY <1>3, FailStep
<1>4. CASE ~ Fail(c)
  <2>1. PICK g \in Closable(Subject(txn[c]), txn[c].at) :
            Write(c, g, [segment[g] EXCEPT !.ended = txn[c].at])
    BY <1>4 DEF EndSegment, Current, Subject
  <2>2. UnchangedTables /\ Holders(c, g) = {}
    BY <1>1, <1>2, <1>4, <2>1 DEF EndSegment, Blockers, Current, Subject
  <2>3. /\ g \in Segments /\ segment[g] \in SegmentRow /\ segment[g] # NoRow
        /\ segment[g].session = Subject(txn[c])
        /\ segment[g].ended = Null /\ segment[g].started < txn[c].at
    BY <2>1 DEF Closable, OpenSegmentsOf, SegmentsOf, TxnInvariant, RowsInvariant, TypeOK
  <2>4. [segment[g] EXCEPT !.ended = txn[c].at] \in SegmentRow
    BY <1>1, <2>3, TxnFields DEF SegmentRow
  <2>5. \A d \in Clients \ {c} : HoldsSegment(txn[d]) => txn[d].g # g
    BY <2>2 DEF Holders, TxnInvariant, Shape
  <2> QED BY <1>1, <1>2, <2>1, <2>2, <2>3, <2>4, <2>5, WriteStep
<1> QED BY <1>3, <1>4

LEMMA BeginSegmentStep ==
    ASSUME TxnInvariant, NEW c \in Clients, BeginSegment(c)
    PROVE  TxnInvariant'
<1>1. /\ txn[c] \in Txn /\ txn[c].pc = "work" /\ Shape(txn[c])
      /\ Verb(txn[c].op) = "resume"
  BY DEF BeginSegment, TxnInvariant, TxnTypeOK
<1>2. CASE Fail(c)
  BY <1>2, FailStep
<1>3. CASE ~ Fail(c)
  <2>1. PICK g \in Segments :
            /\ Fresh(g)
            /\ Write(c, g, [session |-> Subject(txn[c]), started |-> txn[c].at, ended |-> Null])
    BY <1>3 DEF BeginSegment, Current, Subject
  <2>2. UnchangedTables
    BY <1>3 DEF BeginSegment
  <2>3. [session |-> Subject(txn[c]), started |-> txn[c].at, ended |-> Null] \in SegmentRow
    <3>1. Subject(txn[c]) \in Sessions /\ txn[c].at \in Times
      BY <1>1, TxnFields DEF Shape, HoldsSession
    <3> QED BY <3>1, SegmentRowIntro
  <2>4. segment[g] = NoRow /\ \A d \in Clients \ {c} : txn[d].g # g
    BY <2>1 DEF Fresh
  <2> QED BY <1>1, <2>1, <2>2, <2>3, <2>4, WriteStep
<1> QED BY <1>2, <1>3

LEMMA TakeSegmentStep ==
    ASSUME TxnInvariant, NEW c \in Clients, TakeSegment(c)
    PROVE  TxnInvariant'
<1> DEFINE g == txn[c].g
<1>1. /\ txn[c] \in Txn /\ txn[c].pc = "take" /\ Shape(txn[c])
      /\ g \in Segments /\ Holders(c, g) = {}
  BY DEF TakeSegment, TxnInvariant, TxnTypeOK, Shape, Blockers
<1>2. CASE Fail(c)
  BY <1>2, FailStep
<1>3. CASE ~ Fail(c)
  <2>1. segment[g] # NoRow /\ UnchangedTables
    BY <1>3 DEF TakeSegment
  <2>2. PICK from \in Times, to \in Times : \E row \in SegmentPatch(segment[g], from, to) :
            row.started < row.ended /\ Write(c, g, row)
    BY <1>3 DEF TakeSegment
  <2>3. PICK row \in SegmentPatch(segment[g], from, to) :
            row.started < row.ended /\ Write(c, g, row)
    BY <2>2
  <2>4. segment[g] \in SegmentRow
    BY <1>1, <2>1 DEF TxnInvariant, RowsInvariant, TypeOK
  <2>5. /\ row \in SegmentRow /\ row.session = segment[g].session
        /\ row.ended # Null \/ row.ended = segment[g].ended
    BY <2>3, <2>4, PatchLemma
  <2>6. \A d \in Clients \ {c} : HoldsSegment(txn[d]) => txn[d].g # g
    BY <1>1 DEF Holders, TxnInvariant, Shape
  <2> HIDE DEF g
  <2> QED BY <1>1, <2>1, <2>3, <2>5, <2>6, WriteStep
<1> QED BY <1>2, <1>3

(* A request that moves on and keeps what it holds.                        *)
LEMMA AdvanceStep ==
    ASSUME TxnInvariant, UNCHANGED <<project, session, segment, now>>,
           NEW c \in Clients, NEW r \in Txn, txn' = [txn EXCEPT ![c] = r],
           r.g = txn[c].g, r.row = txn[c].row, r.todo = txn[c].todo, r.op = txn[c].op,
           r.at = txn[c].at, r.p = txn[c].p, r.locks = txn[c].locks,
           HoldsSession(r) => HoldsSession(txn[c]), Shape(r),
           r.pc = "commit" /\ ~ HoldsSegment(r) =>
               Verb(r.op) = "stop" /\ session[Subject(r)].status = "paused",
           HoldsSegment(r) /\ r.pc # "exclude" => SegmentAdmitted(r.g, r.row),
           \A d \in Clients \ {c} :
               (/\ HoldsSegment(r) /\ HoldsSegment(txn[d])
                /\ r.pc # "exclude" /\ txn[d].pc # "exclude"
                /\ r.row.session = txn[d].row.session) => Disjoint(r.row, txn[d].row)
    PROVE  TxnInvariant'
<1>1. Subject(r) = Subject(txn[c]) /\ (HoldsSegment(r) <=> HoldsSegment(txn[c]))
  BY DEF Subject, HoldsSegment
<1>2. SessionKept(txn[c]) /\ SegmentKept(txn[c])
      /\ \A d \in Clients \ {c} : Exclusive(txn[c], txn[d])
  BY DEF TxnInvariant
<1>3. SessionKept(r)
  BY <1>1, <1>2 DEF SessionKept
<1>4. SegmentKept(r)
  BY <1>1, <1>2 DEF SegmentKept, WritesCorrection, WritesBegin, WritesEnd
<1>5. \A d \in Clients \ {c} : Exclusive(r, txn[d])
  BY <1>1, <1>2 DEF Exclusive
<1> QED BY <1>3, <1>4, <1>5, RecordStep

LEMMA SkipSegmentStep ==
    ASSUME TxnInvariant, NEW c \in Clients, SkipSegment(c)
    PROVE  TxnInvariant'
<1> DEFINE r == [txn[c] EXCEPT !.pc = "commit"]
<1>1. /\ txn[c] \in Txn /\ Shape(txn[c]) /\ txn[c].pc = "work"
      /\ session[Subject(txn[c])].status = "paused" /\ Verb(txn[c].op) = "stop"
  BY DEF SkipSegment, Current, Subject, TxnInvariant, TxnTypeOK
<1>2. r \in Txn /\ txn' = [txn EXCEPT ![c] = r] /\ UnchangedTables
  BY <1>1 DEF SkipSegment, Advance, Txn
<1>3. /\ r.pc = "commit" /\ r.g = txn[c].g /\ r.row = txn[c].row /\ r.todo = txn[c].todo
      /\ r.op = txn[c].op /\ r.at = txn[c].at /\ r.p = txn[c].p /\ r.locks = txn[c].locks
  BY <1>1 DEF Txn
<1> HIDE DEF r
<1>4. ~ HoldsSegment(r) /\ Subject(r) = Subject(txn[c]) /\ HoldsSession(txn[c])
  BY <1>1, <1>3 DEF Shape, HoldsSegment, HoldsSession, Subject
<1>5. Shape(r)
  BY <1>1, <1>3, <1>4 DEF Shape
<1> QED BY <1>1, <1>2, <1>3, <1>4, <1>5, AdvanceStep

(* The exclusion constraint compares the row with all the others there     *)
(* are, committed or not.                                                  *)
LEMMA ExcludeStep ==
    ASSUME TxnInvariant, NEW c \in Clients, Exclude(c)
    PROVE  TxnInvariant'
<1> DEFINE next == IF txn[c].op = "correct" THEN "bounds" ELSE "commit"
           r == [txn[c] EXCEPT !.pc = next]
<1>1. /\ txn[c] \in Txn /\ Shape(txn[c]) /\ txn[c].pc = "exclude" /\ HoldsSegment(txn[c])
      /\ txn[c].g \in Segments /\ txn[c].row \in SegmentRow
  BY TxnFields DEF Exclude, TxnInvariant, TxnTypeOK, Shape, HoldsSegment
<1>2. CASE Fail(c)
  BY <1>2, FailStep
<1>3. CASE ~ Fail(c)
  <2>1. Collisions(c) = {} /\ UnchangedTables /\ txn' = [txn EXCEPT ![c] = r]
    BY <1>3 DEF Exclude, Advance
  <2>2. r \in Txn
    BY <1>1 DEF Txn
  <2>3. /\ r.pc = next /\ r.g = txn[c].g /\ r.row = txn[c].row /\ r.todo = txn[c].todo
        /\ r.op = txn[c].op /\ r.at = txn[c].at /\ r.p = txn[c].p /\ r.locks = txn[c].locks
    BY <1>1 DEF Txn
  <2> HIDE DEF r
  <2>4. HoldsSegment(r) /\ (HoldsSession(r) => HoldsSession(txn[c]))
    BY <1>1, <2>3 DEF HoldsSegment, HoldsSession
  <2>5. Shape(r)
    <3>1. CASE txn[c].op = "correct"
      BY <1>1, <2>3, <2>4, <3>1 DEF Shape, HoldsSession
    <3>2. CASE txn[c].op # "correct"
      BY <1>1, <2>3, <2>4, <3>2 DEF Shape, HoldsSession, Subject
    <3> QED BY <3>1, <3>2
  <2>6. SegmentAdmitted(r.g, r.row)
    <3>1. \A h \in SegmentsOf(segment, r.row.session) \ {r.g} : Disjoint(r.row, segment[h])
      BY <2>1, <2>3 DEF Collisions, SegmentsOf
    <3> QED BY <1>1, <2>3, <3>1, SegmentRowFields DEF SegmentAdmitted
  <2>7. ASSUME NEW d \in Clients \ {c}, HoldsSegment(txn[d]),
               r.row.session = txn[d].row.session
        PROVE  Disjoint(r.row, txn[d].row)
    <3>1. txn[d].g \in Segments \ {txn[c].g}
      BY <1>1, <2>7 DEF TxnInvariant, Exclusive, Shape
    <3> QED BY <2>1, <2>3, <2>7, <3>1 DEF Collisions, HoldsSegment
  <2> QED BY <2>1, <2>2, <2>3, <2>4, <2>5, <2>6, <2>7, AdvanceStep
<1> QED BY <1>2, <1>3

LEMMA ReadBoundsStep ==
    ASSUME TxnInvariant, NEW c \in Clients, ReadBounds(c)
    PROVE  TxnInvariant'
<1>1. PICK first \in Times, last \in Times \cup {Null} :
          txn' = [txn EXCEPT ![c].bounds = <<first, last>>, ![c].pc = "session"]
  BY DEF ReadBounds
<1> DEFINE r == [txn[c] EXCEPT !.bounds = <<first, last>>, !.pc = "session"]
<1>2. /\ txn[c] \in Txn /\ Shape(txn[c]) /\ SegmentKept(txn[c]) /\ txn[c].pc = "bounds"
      /\ \A d \in Clients \ {c} : Exclusive(txn[c], txn[d])
  BY DEF ReadBounds, TxnInvariant, TxnTypeOK
<1>3. r \in Txn /\ txn' = [txn EXCEPT ![c] = r] /\ UnchangedTables
  <2>1. <<first, last>> \in (Times \cup {Null}) \X (Times \cup {Null})
    OBVIOUS
  <2>2. r \in Txn
    BY <1>2, <2>1 DEF Txn
  <2> QED BY <1>1, <2>2 DEF ReadBounds
<1>4. /\ r.pc = "session" /\ r.g = txn[c].g /\ r.row = txn[c].row /\ r.todo = txn[c].todo
      /\ r.op = txn[c].op /\ r.at = txn[c].at /\ r.p = txn[c].p /\ r.locks = txn[c].locks
      /\ r.bounds[1] = first
  BY <1>2 DEF Txn
<1> HIDE DEF r
<1>5. HoldsSegment(r) /\ HoldsSegment(txn[c]) /\ ~ HoldsSession(r)
  BY <1>2, <1>4 DEF Shape, HoldsSegment, HoldsSession
<1>6. Shape(r)
  BY <1>2, <1>4, <1>5 DEF Shape
<1>7. SegmentAdmitted(r.g, r.row)
  BY <1>2, <1>4, <1>5 DEF SegmentKept
<1>8. \A d \in Clients \ {c} :
          HoldsSegment(txn[d]) /\ txn[d].pc # "exclude" /\ r.row.session = txn[d].row.session
              => Disjoint(r.row, txn[d].row)
  BY <1>2, <1>4, <1>5 DEF Exclusive
<1> QED BY <1>3, <1>4, <1>5, <1>6, <1>7, <1>8, AdvanceStep

-----------------------------------------------------------------------------
(* Steps that commit. *)

(* What a commit has to show: the rows, and that the requests which go on  *)
(* still find what they hold as they left it.                              *)
LEMMA CommitStep ==
    ASSUME TxnInvariant, RowsInvariant', NEW D \in SUBSET Clients, txn' \in [Clients -> Txn],
           \A d \in D : txn'[d] = txn[d],
           \A d \in D : \A q \in Txn : q = txn[d] => SessionKept(q)' /\ SegmentKept(q)',
           \A d \in Clients \ D :
               Shape(txn'[d]) /\ txn'[d].row = NoRow /\ ~ HoldsSession(txn'[d])
    PROVE  TxnInvariant'
<1>1. TxnTypeOK'
  BY DEF TxnTypeOK, RowsInvariant
<1>2. ASSUME NEW d \in D
      PROVE  Shape(txn[d])' /\ SessionKept(txn[d])' /\ SegmentKept(txn[d])'
  <2>1. PICK q \in Txn : q = txn[d]
    BY DEF TxnInvariant, TxnTypeOK
  <2>2. Shape(q) /\ SessionKept(q)' /\ SegmentKept(q)' /\ txn'[d] = q
    BY <2>1 DEF TxnInvariant
  <2> QED BY <2>2 DEF Shape, SessionKept, SegmentKept, HoldsSession, HoldsSegment, Subject,
          SegmentAdmitted, SegmentsOf, WritesCorrection, WritesBegin, WritesEnd, Live, Moves
<1>3. ASSUME NEW d \in Clients \ D
      PROVE  Shape(txn[d])' /\ SessionKept(txn[d])' /\ SegmentKept(txn[d])'
  BY DEF Shape, SessionKept, SegmentKept, HoldsSession, HoldsSegment, Subject
<1>4. ASSUME NEW d \in Clients, NEW e \in Clients \ {d}
      PROVE  Exclusive(txn'[d], txn'[e])
  <2>1. CASE d \in D /\ e \in D
    BY <2>1 DEF TxnInvariant
  <2>2. CASE d \notin D \/ e \notin D
    BY <2>2 DEF Exclusive, HoldsSegment
  <2> QED BY <2>1, <2>2
<1>5. \A d \in Clients : \A e \in Clients \ {d} : Exclusive(txn[d], txn[e])'
  BY <1>4 DEF Exclusive, HoldsSession, HoldsSegment, Subject
<1> QED BY <1>1, <1>2, <1>3, <1>5 DEF TxnInvariant

(* The sessions and segments the other requests hold are not c's.          *)
LEMMA OthersKept ==
    ASSUME TxnInvariant, NEW c \in Clients, NEW q \in Txn, SessionKept(q), SegmentKept(q),
           Exclusive(txn[c], q), Shape(q), segment' = Seen(c),
           HoldsSegment(txn[c]) => txn[c].pc # "exclude",
           HoldsSession(q) => /\ session'[Subject(q)] # NoRow
                              /\ session'[Subject(q)].status = session[Subject(q)].status
    PROVE  SessionKept(q)' /\ SegmentKept(q)'
<1>1. SessionKept(q)'
  BY DEF SessionKept, HoldsSession, HoldsSegment, Subject, Live, Moves
<1>2. CASE ~ HoldsSegment(txn[c])
  <2>1. UNCHANGED segment
    BY <1>2 DEF Seen, HoldsSegment
  <2> QED BY <1>1, <2>1 DEF SegmentKept, HoldsSegment, Subject, SegmentAdmitted, SegmentsOf,
          WritesCorrection, WritesBegin, WritesEnd
<1>3. CASE HoldsSegment(txn[c]) /\ HoldsSegment(q)
  <2>1. /\ txn[c].g \in Segments /\ segment' = [segment EXCEPT ![txn[c].g] = txn[c].row]
        /\ txn[c].g # q.g /\ q.g \in Segments
    BY <1>3 DEF Seen, HoldsSegment, TxnInvariant, Shape, Exclusive
  <2>2. segment'[txn[c].g] = txn[c].row
        /\ \A h \in Segments \ {txn[c].g} : segment'[h] = segment[h]
    BY <2>1 DEF TxnInvariant, RowsInvariant, TypeOK
  <2>3. q.pc # "exclude" => SegmentAdmitted(q.g, q.row)'
    <3>1. SUFFICES ASSUME q.pc # "exclude", NEW h \in Segments \ {q.g}, segment'[h] # NoRow,
                          segment'[h].session = q.row.session
                   PROVE  Disjoint(q.row, segment'[h])
      BY <1>3 DEF SegmentKept, SegmentAdmitted, SegmentsOf
    <3>2. CASE h = txn[c].g
      BY <1>3, <2>2, <3>1, <3>2 DEF Exclusive
    <3>3. CASE h # txn[c].g
      BY <1>3, <2>2, <3>1, <3>3 DEF SegmentKept, SegmentAdmitted, SegmentsOf
    <3> QED BY <3>2, <3>3
  <2> QED BY <1>1, <1>3, <2>1, <2>2, <2>3
          DEF SegmentKept, HoldsSegment, Subject, WritesCorrection, WritesBegin, WritesEnd
<1>4. CASE ~ HoldsSegment(q)
  BY <1>1, <1>4 DEF SegmentKept, HoldsSegment
<1> QED BY <1>2, <1>3, <1>4

(* What a transition has when it commits, seen as the transaction of       *)
(* WorkSessions it stands for: an end of the open segment, a new segment   *)
(* behind the others, or the stop of a paused session.                     *)
EndsWork(s, at) == session[s].status = "running" /\ CloseOpenSegment(s, at)

BeginsWork(s, g, at) ==
    LET row == [session |-> s, started |-> at, ended |-> Null]
    IN  /\ session[s].status = "paused" /\ g \in Segments /\ segment[g] = NoRow
        /\ SegmentAdmitted(g, row) /\ segment' = [segment EXCEPT ![g] = row]

StopsQuietly(s) == session[s].status = "paused" /\ UNCHANGED segment

LEMMA CommitTransitionFacts ==
    ASSUME TxnInvariant, NEW c \in Clients, txn[c].pc = "commit", segment' = Seen(c)
    PROVE  LET s == Subject(txn[c])
               at == txn[c].at
           IN  /\ s \in Sessions /\ at \in Times /\ txn[c].op \in MoveOps
               /\ Live(s) /\ session[s] \in SessionRow
               /\ Moves(s, Verb(txn[c].op), Target(txn[c].op))
               /\ \/ Verb(txn[c].op) \in {"pause", "stop"} /\ EndsWork(s, at)
                  \/ Verb(txn[c].op) = "resume" /\ BeginsWork(s, txn[c].g, at)
                  \/ Verb(txn[c].op) = "stop" /\ StopsQuietly(s)
<1> DEFINE s == Subject(txn[c])
           at == txn[c].at
<1>1. /\ txn[c] \in Txn /\ Shape(txn[c]) /\ SessionKept(txn[c]) /\ SegmentKept(txn[c])
      /\ HoldsSession(txn[c]) /\ txn[c].op \in MoveOps
  BY DEF TxnInvariant, TxnTypeOK, Shape, HoldsSession
<1>2. txn[c].op # "correct" /\ txn[c].op # "delete"
      /\ Verb(txn[c].op) \in {"pause", "resume", "stop"}
  BY <1>1 DEF MoveOps, SingleOps, BulkOps, Verb
<1>3. s \in Sessions /\ at \in Times
  BY <1>1, TxnFields DEF Shape
<1>4. Live(s) /\ Moves(s, Verb(txn[c].op), Target(txn[c].op))
  BY <1>1, <1>2 DEF SessionKept
<1>5. session[s] \in SessionRow
  BY <1>3, <1>4 DEF Live, TxnInvariant, RowsInvariant, TypeOK
<1>6. CASE ~ HoldsSegment(txn[c])
  <2>1. UNCHANGED segment
    BY <1>6 DEF Seen, HoldsSegment
  <2>2. Verb(txn[c].op) = "stop" /\ session[s].status = "paused"
    BY <1>1, <1>6 DEF SessionKept
  <2> QED BY <1>1, <1>3, <1>4, <1>5, <2>1, <2>2 DEF StopsQuietly
<1>7. CASE HoldsSegment(txn[c]) /\ Verb(txn[c].op) = "resume"
  <2>1. /\ txn[c].g \in Segments /\ segment[txn[c].g] = NoRow
        /\ SegmentAdmitted(txn[c].g, txn[c].row)
        /\ txn[c].row = [session |-> s, started |-> at, ended |-> Null]
        /\ segment' = [segment EXCEPT ![txn[c].g] = txn[c].row]
    BY <1>1, <1>2, <1>7 DEF Shape, SegmentKept, WritesBegin, Seen, HoldsSegment
  <2>2. session[s].status = "paused"
    BY <1>4, <1>7 DEF Moves, Transitions
  <2> QED BY <1>1, <1>3, <1>4, <1>5, <1>7, <2>1, <2>2 DEF BeginsWork
<1>8. CASE HoldsSegment(txn[c]) /\ Verb(txn[c].op) # "resume"
  <2>1. /\ txn[c].g \in Segments /\ WritesEnd(txn[c])
        /\ segment' = [segment EXCEPT ![txn[c].g] = txn[c].row]
    BY <1>1, <1>2, <1>8 DEF Shape, SegmentKept, Seen, HoldsSegment
  <2>2. session[s].status = "running"
    BY <1>1, <1>8 DEF SessionKept
  <2>3. CloseOpenSegment(s, at)
    BY <2>1 DEF WritesEnd, CloseOpenSegment, OpenSegmentsOf, SegmentsOf
  <2> QED BY <1>1, <1>2, <1>3, <1>4, <1>5, <1>8, <2>2, <2>3 DEF EndsWork
<1> QED BY <1>6, <1>7, <1>8

(* Its own row afterwards. *)
LEMMA CommitTransitionRow ==
    ASSUME TxnInvariant, NEW c \in Clients, CommitTransition(c), ~ Fail(c)
    PROVE  LET s == Subject(txn[c])
           IN  /\ segment' = Seen(c) /\ txn[c].pc = "commit" /\ UNCHANGED <<project, now>>
               /\ session' \in [Sessions -> SessionRow \cup {NoRow}]
               /\ session'[s] \in SessionRow /\ session'[s].status = Target(txn[c].op)
               /\ \A t \in Sessions \ {s} : session'[t] = session[t]
<1> DEFINE s == Subject(txn[c])
<1>1. segment' = Seen(c) /\ txn[c].pc = "commit" /\ UNCHANGED <<project, now>>
  BY DEF CommitTransition
<1>2. /\ s \in Sessions /\ txn[c].at \in Times /\ txn[c].op \in MoveOps
      /\ session[s] \in SessionRow /\ Moves(s, Verb(txn[c].op), Target(txn[c].op))
  BY <1>1, CommitTransitionFacts
<1>3. session \in [Sessions -> SessionRow \cup {NoRow}]
  BY DEF TxnInvariant, RowsInvariant, TypeOK
<1>4. CASE Target(txn[c].op) = "stopped"
  <2>1. PICK reason \in Reasons :
            session' = [session EXCEPT ![s].status = "stopped", ![s].stopped = txn[c].at,
                                       ![s].reason = reason]
    BY <1>4 DEF CommitTransition, Current, Subject
  <2>2. session[s].started <= txn[c].at
    BY <1>4 DEF CommitTransition, Current, Subject
  <2>3. session'[s] = [session[s] EXCEPT !.status = "stopped", !.stopped = txn[c].at,
                                         !.reason = reason]
    BY <1>2, <1>3, <2>1
  <2>4. session'[s].status = "stopped"
    BY <1>2, <2>3 DEF SessionRow
  <2>5. session'[s] \in SessionRow
    <3>1. [session[s] EXCEPT !.status = "stopped", !.stopped = txn[c].at,
                             !.reason = reason] \in SessionRow
      BY <1>2, <2>2, StoppedRow
    <3> QED BY <2>3, <3>1
  <2> QED BY <1>1, <1>2, <1>3, <1>4, <2>1, <2>4, <2>5
<1>5. CASE Target(txn[c].op) # "stopped"
  <2>1. session' = [session EXCEPT ![s].status = Target(txn[c].op)]
    BY <1>5 DEF CommitTransition, Current, Subject
  <2>2. Target(txn[c].op) \in {"paused", "running"} /\ session[s].status # "stopped"
    BY <1>2, <1>5 DEF Moves, Transitions
  <2>3. session'[s] = [session[s] EXCEPT !.status = Target(txn[c].op)]
    BY <1>2, <1>3, <2>1
  <2>4. session'[s].status = Target(txn[c].op)
    BY <1>2, <2>3 DEF SessionRow
  <2>5. session'[s] \in SessionRow
    BY <1>2, <2>2, <2>3, MovedRow
  <2> QED BY <1>1, <1>2, <1>3, <2>1, <2>4, <2>5
<1> QED BY <1>4, <1>5

LEMMA CommitTransitionStep ==
    ASSUME TxnInvariant, NEW c \in Clients, CommitTransition(c)
    PROVE  TxnInvariant'
<1>1. CASE Fail(c)
  BY <1>1, FailStep
<1>2. CASE ~ Fail(c)
  <2> PICK s, at : s = Subject(txn[c]) /\ at = txn[c].at
    OBVIOUS
  <2> DEFINE r == [Idle EXCEPT !.pc = "reply", !.op = txn[c].op, !.at = txn[c].at,
                               !.todo = txn[c].todo]
  <2>1. /\ segment' = Seen(c) /\ txn[c].pc = "commit" /\ UNCHANGED <<project, now>>
        /\ session' \in [Sessions -> SessionRow \cup {NoRow}]
        /\ session'[s] \in SessionRow /\ session'[s].status = Target(txn[c].op)
        /\ \A t \in Sessions \ {s} : session'[t] = session[t]
    BY <1>2, CommitTransitionRow
  <2>2. /\ s \in Sessions /\ at \in Times /\ Live(s) /\ txn[c].op \in MoveOps
        /\ Moves(s, Verb(txn[c].op), Target(txn[c].op))
        /\ \/ Verb(txn[c].op) \in {"pause", "stop"} /\ EndsWork(s, at)
           \/ Verb(txn[c].op) = "resume" /\ BeginsWork(s, txn[c].g, at)
           \/ Verb(txn[c].op) = "stop" /\ StopsQuietly(s)
    BY <2>1, CommitTransitionFacts
  <2>3. txn[c] \in Txn /\ Shape(txn[c])
    BY DEF TxnInvariant, TxnTypeOK
  <2>0. RowsInvariant
    BY DEF TxnInvariant
  <2>4. RowsInvariant'
    <3>1. CASE EndsWork(s, at)
      <4>1. PICK g \in Segments, row \in SegmentRow :
                /\ segment[g].session = s /\ row.session = s /\ row.ended = at
                /\ segment' = [segment EXCEPT ![g] = row]
                /\ SegmentAdmitted(g, row) /\ OpenSegmentsOf(s) = {g}
        BY <2>2, <3>1, CloseOpenSegmentLemma DEF EndsWork, TxnInvariant, RowsInvariant
      <4>2. OpenSegmentsOf(s)' = {}
        <5>1. segment'[g] = row /\ \A h \in Segments \ {g} : segment'[h] = segment[h]
          BY <4>1 DEF TxnInvariant, RowsInvariant, TypeOK
        <5>2. row.ended # Null
          BY <2>2, <4>1
        <5>3. SegmentsOf(segment, s)' \subseteq SegmentsOf(segment, s) \cup {g}
          BY <5>1 DEF SegmentsOf
        <5>4. \A h \in SegmentsOf(segment, s) \ {g} : segment[h].ended # Null
          BY <4>1 DEF OpenSegmentsOf
        <5> QED BY <5>1, <5>2, <5>3, <5>4 DEF OpenSegmentsOf, SegmentsOf
      <4> QED BY <2>0, <2>1, <2>2, <4>1, <4>2, RowCommitted
    <3>2. CASE Verb(txn[c].op) = "resume" /\ BeginsWork(s, txn[c].g, at)
      <4>1. [session |-> s, started |-> at, ended |-> Null] \in SegmentRow
        BY <2>2, SegmentRowIntro
      <4>2. session'[s].status = "running"
        BY <2>1, <2>2, <3>2 DEF Target
      <4> QED BY <2>0, <2>1, <2>2, <3>2, <4>1, <4>2, RowCommitted DEF BeginsWork
    <3>3. CASE StopsQuietly(s)
      <4>1. OpenSegmentsOf(s) = {}
        BY <2>2, <3>3 DEF StopsQuietly, TxnInvariant, RowsInvariant, QuietSessionsAreClosed
      <4> QED BY <2>1, <2>2, <3>3, <4>1, SessionCommitted DEF StopsQuietly, TxnInvariant
    <3> QED BY <2>2, <3>1, <3>2, <3>3
  <2>5. r \in Txn
    <3>1. Idle \in Txn /\ txn[c].op \in Requests \cup {"none"} /\ txn[c].at \in Times
          /\ txn[c].todo \in Seq(Sessions)
      BY <2>3, IdleLemma, TxnFields
    <3> QED BY <3>1 DEF Txn
  <2>6. /\ r.pc = "reply" /\ r.row = NoRow /\ r.todo = txn[c].todo /\ r.op = txn[c].op
        /\ txn' = [txn EXCEPT ![c] = r]
    BY <1>2 DEF Idle, CommitTransition
  <2>7. txn[c].todo # <<>> /\ HoldsSession(txn[c])
    BY <2>1, <2>3 DEF Shape, HoldsSession
  <2> HIDE DEF r
  <2>8. Shape(r) /\ ~ HoldsSession(r)
    BY <2>2, <2>6, <2>7 DEF Shape, HoldsSession, HoldsSegment
  <2>9. txn' \in [Clients -> Txn] /\ txn'[c] = r
        /\ \A d \in Clients \ {c} : txn'[d] = txn[d]
    BY <2>5, <2>6 DEF TxnInvariant, TxnTypeOK
  <2>10. ASSUME NEW d \in Clients \ {c}, NEW q \in Txn, q = txn[d]
         PROVE  SessionKept(q)' /\ SegmentKept(q)'
    <3>1. SessionKept(q) /\ SegmentKept(q) /\ Exclusive(txn[c], q) /\ Shape(q)
      BY <2>10 DEF TxnInvariant
    <3>2. HoldsSession(q) =>
              Subject(q) \in Sessions \ {s} /\ Live(Subject(q))
      BY <2>7, <3>1, TxnFields DEF Exclusive, Shape, SessionKept
    <3>3. HoldsSession(q) => /\ session'[Subject(q)] # NoRow
                             /\ session'[Subject(q)].status = session[Subject(q)].status
      BY <2>1, <3>2 DEF Live
    <3> QED BY <2>1, <3>1, <3>3, OthersKept
  <2> QED BY <2>4, <2>6, <2>8, <2>9, <2>10, CommitStep
<1> QED BY <1>1, <1>2

(* The last statement of a correction writes the segment and the bounds.   *)
LEMMA WriteBoundsRow ==
    ASSUME TxnInvariant, NEW c \in Clients, WriteBounds(c), ~ Fail(c)
    PROVE  LET g == txn[c].g
               row == txn[c].row
               s == row.session
           IN  /\ g \in Segments /\ row \in SegmentRow /\ s \in Sessions /\ Live(s)
               /\ segment[g] # NoRow /\ segment[g].session = s
               /\ row.ended # Null \/ row.ended = segment[g].ended
               /\ SegmentAdmitted(g, row)
               /\ segment' = Seen(c) /\ segment' = [segment EXCEPT ![g] = row]
               /\ session' \in [Sessions -> SessionRow \cup {NoRow}]
               /\ session'[s] \in SessionRow /\ session'[s].status = session[s].status
               /\ \A t \in Sessions \ {s} : session'[t] = session[t]
               /\ HoldsSegment(txn[c]) /\ ~ HoldsSession(txn[c])
               /\ Finish(c) /\ UNCHANGED <<project, now>>
<1> DEFINE g == txn[c].g
           row == txn[c].row
           s == row.session
           first == txn[c].bounds[1]
           last == txn[c].bounds[2]
           stopped == session[s].status = "stopped"
<1>1. /\ txn[c] \in Txn /\ Shape(txn[c]) /\ SegmentKept(txn[c]) /\ txn[c].pc = "session"
  BY DEF WriteBounds, TxnInvariant, TxnTypeOK
<1>2. /\ HoldsSegment(txn[c]) /\ ~ HoldsSession(txn[c]) /\ txn[c].op = "correct"
      /\ g \in Segments /\ first \in Times /\ SegmentAdmitted(g, row)
      /\ segment[g] # NoRow /\ segment[g].session = s
      /\ row.ended # Null \/ row.ended = segment[g].ended
  BY <1>1 DEF Shape, HoldsSession, SegmentKept, WritesCorrection
<1>3. row \in SegmentRow /\ s \in Sessions /\ last \in Times \cup {Null}
  <2>1. row \in SegmentRow /\ txn[c].bounds \in (Times \cup {Null}) \X (Times \cup {Null})
    BY <1>1, <1>2, TxnFields DEF HoldsSegment
  <2> QED BY <2>1, SegmentRowFields
<1>4. Live(s) /\ session[s] \in SessionRow
      /\ session \in [Sessions -> SessionRow \cup {NoRow}]
  BY <1>2, <1>3 DEF TxnInvariant, RowsInvariant, SegmentsAreDisjoint, TypeOK, Live
<1>5. /\ ~ (stopped /\ (last = Null \/ last < first)) /\ segment' = Seen(c)
      /\ session' = [session EXCEPT ![s].started = first,
                                    ![s].stopped = IF stopped THEN last ELSE @]
      /\ Finish(c) /\ UNCHANGED <<project, now>>
  BY DEF WriteBounds
<1>6. segment' = [segment EXCEPT ![g] = row]
  BY <1>2, <1>5 DEF Seen, HoldsSegment
<1>7. /\ session'[s] = [session[s] EXCEPT !.started = first,
                                          !.stopped = IF stopped THEN last ELSE @]
      /\ \A t \in Sessions \ {s} : session'[t] = session[t]
  BY <1>3, <1>4, <1>5
<1>8. session'[s] \in SessionRow /\ session'[s].status = session[s].status
  <2>1. CASE stopped
    <3>1. last \in Times /\ first <= last
      BY <1>2, <1>3, <1>5, <2>1
    <3>2. session'[s] = [session[s] EXCEPT !.started = first, !.stopped = last]
      BY <1>7, <2>1
    <3>3. session'[s].status = session[s].status
      BY <1>4, <3>2 DEF SessionRow
    <3>4. last # Null
      BY <1>5, <2>1
    <3>5. [session[s] EXCEPT !.started = first, !.stopped = last] \in SessionRow
      BY <1>2, <1>3, <1>4, <2>1, <3>1, <3>4, BoundedRow
    <3> QED BY <3>2, <3>3, <3>5
  <2>2. CASE ~ stopped
    <3>1. session'[s] = [session[s] EXCEPT !.started = first, !.stopped = session[s].stopped]
      BY <1>7, <2>2
    <3>2. session'[s].status = session[s].status
      BY <1>4, <3>1 DEF SessionRow
    <3>3. session[s].stopped = Null /\ first <= Null
      BY <1>2, <1>4, <2>2, SessionRowFields
    <3>4. [session[s] EXCEPT !.started = first, !.stopped = session[s].stopped]
              \in SessionRow
      BY <1>2, <1>4, <2>2, <3>3, BoundedRow
    <3> QED BY <3>1, <3>2, <3>4
  <2> QED BY <2>1, <2>2
<1>9. session' \in [Sessions -> SessionRow \cup {NoRow}]
  BY <1>3, <1>4, <1>5, <1>7, <1>8
<1> QED BY <1>2, <1>3, <1>4, <1>5, <1>6, <1>7, <1>8, <1>9

LEMMA WriteBoundsStep ==
    ASSUME TxnInvariant, NEW c \in Clients, WriteBounds(c)
    PROVE  TxnInvariant'
<1>1. CASE Fail(c)
  BY <1>1, FailStep
<1>2. CASE ~ Fail(c)
  <2> PICK g, row, s : g = txn[c].g /\ row = txn[c].row /\ s = row.session
    OBVIOUS
  <2>1. /\ g \in Segments /\ row \in SegmentRow /\ s \in Sessions /\ Live(s)
        /\ segment[g] # NoRow /\ segment[g].session = s
        /\ row.ended # Null \/ row.ended = segment[g].ended
        /\ SegmentAdmitted(g, row)
        /\ segment' = Seen(c) /\ segment' = [segment EXCEPT ![g] = row]
        /\ session' \in [Sessions -> SessionRow \cup {NoRow}]
        /\ session'[s] \in SessionRow /\ session'[s].status = session[s].status
        /\ \A t \in Sessions \ {s} : session'[t] = session[t]
        /\ HoldsSegment(txn[c]) /\ ~ HoldsSession(txn[c])
        /\ Finish(c) /\ UNCHANGED <<project, now>>
    BY <1>2, WriteBoundsRow
  <2>2. segment'[g] = row /\ \A h \in Segments \ {g} : segment'[h] = segment[h]
    BY <2>1 DEF TxnInvariant, RowsInvariant, TypeOK
    <2>3. session'[s].status # "running" => OpenSegmentsOf(s)' = {}
    <3>1. SUFFICES ASSUME session[s].status # "running" PROVE OpenSegmentsOf(s)' = {}
      BY <2>1
    <3>2. OpenSegmentsOf(s) = {}
      BY <2>1, <3>1 DEF TxnInvariant, RowsInvariant, QuietSessionsAreClosed
    <3>3. segment[g].ended # Null
      BY <2>1, <3>2 DEF OpenSegmentsOf, SegmentsOf
    <3>4. row.ended # Null
      BY <2>1, <3>3
    <3>5. SegmentsOf(segment, s)' \subseteq SegmentsOf(segment, s)
      BY <2>1, <2>2 DEF SegmentsOf
    <3>6. \A h \in SegmentsOf(segment, s) : segment'[h].ended # Null
      BY <2>2, <3>2, <3>4 DEF OpenSegmentsOf, SegmentsOf
    <3> QED BY <3>5, <3>6 DEF OpenSegmentsOf
  <2>4. RowsInvariant'
    <3>1. RowsInvariant
      BY DEF TxnInvariant
    <3> QED BY <2>1, <2>3, <3>1, RowCommitted
  <2>5. txn' \in [Clients -> Txn] /\ txn'[c] = Idle
        /\ \A d \in Clients \ {c} : txn'[d] = txn[d]
    BY <2>1, IdleLemma DEF Finish, TxnInvariant, TxnTypeOK
  <2>6. txn[c].pc # "exclude"
    BY DEF WriteBounds
  <2>7. ASSUME NEW d \in Clients \ {c}, NEW q \in Txn, q = txn[d]
        PROVE  SessionKept(q)' /\ SegmentKept(q)'
    <3>1. SessionKept(q) /\ SegmentKept(q) /\ Exclusive(txn[c], q) /\ Shape(q)
      BY <2>7 DEF TxnInvariant
    <3>2. HoldsSession(q) => Subject(q) \in Sessions /\ Live(Subject(q))
      BY <3>1, TxnFields DEF Shape, SessionKept
    <3>3. HoldsSession(q) => /\ session'[Subject(q)] # NoRow
                             /\ session'[Subject(q)].status = session[Subject(q)].status
      <4>1. session'[s] # NoRow
        BY <2>1, NoRowAssumption
      <4> QED BY <2>1, <3>2, <4>1 DEF Live
    <3> QED BY <2>1, <2>6, <3>1, <3>3, OthersKept
  <2> QED BY <2>4, <2>5, <2>7, IdleLemma, CommitStep
<1> QED BY <1>1, <1>2

(* The cascade waits for every segment of the session that another request *)
(* writes, and nobody can have begun one while the session was locked.     *)
LEMMA CascadeStep ==
    ASSUME TxnInvariant, NEW c \in Clients, Cascade(c)
    PROVE  TxnInvariant'
<1> DEFINE s == Subject(txn[c])
<1>1. /\ txn[c] \in Txn /\ Shape(txn[c]) /\ txn[c].pc = "cascade" /\ HoldsSession(txn[c])
      /\ s \in Sessions
  <2>1. txn[c] \in Txn /\ Shape(txn[c]) /\ txn[c].pc = "cascade"
    BY DEF Cascade, TxnInvariant, TxnTypeOK
  <2> QED BY <2>1, TxnFields DEF Shape, HoldsSession
<1>2. Delete(s) /\ Finish(c)
  BY DEF Cascade, Current, Subject
<1>3. \A d \in Clients \ {c}, g \in SegmentsOf(segment, s) : g \notin txn[d].locks
  <2>1. Blockers(c) = UNION {Holders(c, g) : g \in SegmentsOf(segment, Current(c))}
    BY <1>1 DEF Blockers
  <2>2. Blockers(c) = {}
    BY DEF Cascade
  <2>3. \A g \in SegmentsOf(segment, s) : Holders(c, g) = {}
    BY <2>1, <2>2 DEF Current, Subject
  <2> QED BY <2>3 DEF Holders
<1>4. RowsInvariant'
  BY <1>1, <1>2, SessionDeleted DEF TxnInvariant
<1>5. txn' \in [Clients -> Txn] /\ txn'[c] = Idle
      /\ \A d \in Clients \ {c} : txn'[d] = txn[d]
  BY <1>2, IdleLemma DEF Finish, TxnInvariant, TxnTypeOK
<1>6. /\ \A t \in Sessions \ {s} : session'[t] = session[t]
      /\ \A g \in Segments :
            segment'[g] = IF g \in SegmentsOf(segment, s) THEN NoRow ELSE segment[g]
  BY <1>2 DEF Delete, TxnInvariant, RowsInvariant, TypeOK
<1>7. ASSUME NEW d \in Clients \ {c}, NEW q \in Txn, q = txn[d]
      PROVE  SessionKept(q)' /\ SegmentKept(q)'
  <2>1. SessionKept(q) /\ SegmentKept(q) /\ Exclusive(txn[c], q) /\ Shape(q)
    BY <1>7 DEF TxnInvariant
  <2>2. HoldsSession(q) => Subject(q) \in Sessions \ {s}
    BY <1>1, <2>1, TxnFields DEF Shape, Exclusive
  <2>3. HoldsSession(q) => session'[Subject(q)] = session[Subject(q)]
    BY <1>6, <2>2
  <2>4. SessionKept(q)'
    BY <2>1, <2>3 DEF SessionKept, HoldsSession, HoldsSegment, Subject, Live, Moves
  <2>5. HoldsSegment(q) => q.g \in Segments /\ segment'[q.g] = segment[q.g]
    BY <1>3, <1>6, <1>7, <2>1 DEF Shape
  <2>6. HoldsSegment(q) /\ SegmentAdmitted(q.g, q.row) => SegmentAdmitted(q.g, q.row)'
    BY <1>6 DEF SegmentAdmitted, SegmentsOf
  <2>7. SegmentKept(q)'
    BY <2>1, <2>5, <2>6
       DEF SegmentKept, HoldsSegment, Subject, WritesCorrection, WritesBegin, WritesEnd
  <2> QED BY <2>4, <2>7
<1> QED BY <1>4, <1>5, <1>7, IdleLemma, CommitStep

(* The two inserts of start take ids nobody refers to.                     *)
LEMMA InsertedRow ==
    ASSUME NEW p \in Projects, NEW at \in Times
    PROVE  [project |-> p, status |-> "running", started |-> at,
            stopped |-> Null, reason |-> NoReason] \in SessionRow
BY DEF SessionRow, Statuses

LEMMA InsertSessionStep ==
    ASSUME TxnInvariant, NEW c \in Clients, InsertSession(c)
    PROVE  TxnInvariant'
<1>1. PICK s \in Sessions, g \in Segments :
          /\ Unused(s) /\ Fresh(g)
          /\ session' = [session EXCEPT ![s] =
                [project |-> txn[c].p, status |-> "running", started |-> txn[c].at,
                 stopped |-> Null, reason |-> NoReason]]
          /\ segment' = [segment EXCEPT ![g] =
                [session |-> s, started |-> txn[c].at, ended |-> Null]]
  BY DEF InsertSession
<1>2. PICK row : row = [session |-> s, started |-> txn[c].at, ended |-> Null]
  OBVIOUS
<1>3. txn[c].p \in Projects /\ txn[c].at \in Times
  <2>1. txn[c] \in Txn /\ Shape(txn[c]) /\ txn[c].pc = "insert"
    BY DEF InsertSession, TxnInvariant, TxnTypeOK
  <2> QED BY <2>1, TxnFields DEF Shape
<1>4. /\ row \in SegmentRow /\ row.session = s /\ segment[g] = NoRow /\ ~ Live(s)
      /\ segment' = [segment EXCEPT ![g] = row]
      /\ \A d \in Clients : txn[d].g # g
  <2>1. row \in SegmentRow
    BY <1>2, <1>3, SegmentRowIntro
  <2> QED BY <1>1, <1>2, <2>1 DEF Fresh, Unused
<1>5. /\ session'[s] \in SessionRow /\ session'[s].status = "running"
      /\ session' \in [Sessions -> SessionRow \cup {NoRow}]
      /\ \A t \in Sessions \ {s} : session'[t] = session[t]
  BY <1>1, <1>3, InsertedRow DEF TxnInvariant, RowsInvariant, TypeOK
<1>6. segment'[g] = row /\ \A h \in Segments \ {g} : segment'[h] = segment[h]
  BY <1>4 DEF TxnInvariant, RowsInvariant, TypeOK
<1>7. RowsInvariant /\ UNCHANGED <<project, now>> /\ Finish(c)
  BY DEF TxnInvariant, InsertSession
<1>8. RowsInvariant'
  <2>1. SegmentsOf(segment, s) = {}
    BY <1>4 DEF TxnInvariant, RowsInvariant, SegmentsAreDisjoint, SegmentsOf
  <2>2. row.started < row.ended
    BY <1>4, SegmentRowFields
  <2>3. SegmentAdmitted(g, row)
    BY <1>4, <2>1, <2>2 DEF SegmentAdmitted
  <2> QED BY <1>4, <1>5, <1>7, <2>3, RowCommitted
<1>9. txn' \in [Clients -> Txn] /\ txn'[c] = Idle
      /\ \A d \in Clients \ {c} : txn'[d] = txn[d]
  BY <1>7, IdleLemma DEF Finish, TxnInvariant, TxnTypeOK
<1>10. ASSUME NEW d \in Clients \ {c}, NEW q \in Txn, q = txn[d]
       PROVE  SessionKept(q)' /\ SegmentKept(q)'
  <2>1. SessionKept(q) /\ SegmentKept(q) /\ Shape(q)
    BY <1>10 DEF TxnInvariant
  <2>2. HoldsSession(q) => Subject(q) \in Sessions \ {s} /\ Live(Subject(q))
    BY <1>4, <2>1, TxnFields DEF Shape, SessionKept
  <2>3. HoldsSession(q) => session'[Subject(q)] = session[Subject(q)]
    BY <1>5, <2>2
  <2>4. SessionKept(q)'
    BY <2>1, <2>3 DEF SessionKept, HoldsSession, HoldsSegment, Subject, Live, Moves
  <2>5. HoldsSegment(q) => q.g \in Segments \ {g} /\ segment'[q.g] = segment[q.g]
    BY <1>4, <1>6, <1>10, <2>1 DEF Shape
  <2>6. HoldsSegment(q) => q.row.session # s
    <3>1. CASE q.op = "correct"
      BY <1>4, <1>7, <2>1, <2>5, <3>1
         DEF SegmentKept, WritesCorrection, RowsInvariant, SegmentsAreDisjoint
    <3>2. CASE q.op # "correct" /\ HoldsSegment(q)
      <4>1. HoldsSession(q) /\ Subject(q) # s
        BY <2>1, <2>2, <3>2 DEF Shape, HoldsSession
      <4>2. q.row.session = Subject(q)
        <5>1. CASE WritesBegin(q)
          BY <5>1 DEF WritesBegin
        <5>2. CASE WritesEnd(q)
          <6>1. segment[q.g] \in SegmentRow
            BY <1>7, <2>5, <3>2, <5>2 DEF WritesEnd, RowsInvariant, TypeOK
          <6> QED BY <5>2, <6>1 DEF WritesEnd, SegmentRow
        <5> QED BY <2>1, <3>2, <5>1, <5>2 DEF SegmentKept
      <4> QED BY <4>1, <4>2
    <3> QED BY <3>1, <3>2
  <2>7. HoldsSegment(q) /\ SegmentAdmitted(q.g, q.row) => SegmentAdmitted(q.g, q.row)'
    BY <1>4, <1>6, <2>6 DEF SegmentAdmitted, SegmentsOf
  <2>8. SegmentKept(q)'
    BY <2>1, <2>5, <2>7
       DEF SegmentKept, HoldsSegment, Subject, WritesCorrection, WritesBegin, WritesEnd
  <2> QED BY <2>4, <2>8
<1> QED BY <1>8, <1>9, <1>10, IdleLemma, CommitStep

(* The requests of one statement leave every status and segment as it is.  *)
LEMMA PlainStep ==
    ASSUME TxnInvariant, RowsInvariant', UNCHANGED <<segment, txn>>,
           \A t \in Sessions : Live(t) =>
               session'[t] # NoRow /\ session'[t].status = session[t].status
    PROVE  TxnInvariant'
<1>1. txn' \in [Clients -> Txn] /\ \A d \in Clients : txn'[d] = txn[d]
  BY DEF TxnInvariant, TxnTypeOK
<1>2. ASSUME NEW d \in Clients, NEW q \in Txn, q = txn[d]
      PROVE  SessionKept(q)' /\ SegmentKept(q)'
  <2>1. SessionKept(q) /\ SegmentKept(q) /\ Shape(q)
    BY <1>2 DEF TxnInvariant
  <2>2. HoldsSession(q) => /\ session'[Subject(q)] # NoRow
                           /\ session'[Subject(q)].status = session[Subject(q)].status
    BY <2>1, TxnFields DEF Shape, SessionKept
  <2>3. SessionKept(q)'
    BY <2>1, <2>2 DEF SessionKept, HoldsSession, HoldsSegment, Subject, Live, Moves
  <2> QED BY <2>1, <2>3 DEF SegmentKept, HoldsSegment, Subject, SegmentAdmitted, SegmentsOf,
          WritesCorrection, WritesBegin, WritesEnd
<1> QED BY <1>1, <1>2, CommitStep

LEMMA UpdatedRow ==
    ASSUME RowsInvariant, NEW s \in Sessions, NEW p \in Projects, Update(s, p)
    PROVE  /\ Live(s) /\ session'[s] \in SessionRow
           /\ session'[s].status = session[s].status
           /\ session' \in [Sessions -> SessionRow \cup {NoRow}]
           /\ \A t \in Sessions \ {s} : session'[t] = session[t]
           /\ UNCHANGED <<project, segment, now>>
<1>1. /\ session' = [session EXCEPT ![s].project = p] /\ session[s] \in SessionRow
      /\ session \in [Sessions -> SessionRow \cup {NoRow}] /\ Live(s)
      /\ UNCHANGED <<project, segment, now>>
  BY DEF Update, Live, RowsInvariant, TypeOK
<1>2. session'[s] \in SessionRow /\ session'[s].status = session[s].status
  BY <1>1 DEF SessionRow
<1> QED BY <1>1, <1>2

LEMMA UpdateSessionStep ==
    ASSUME TxnInvariant, NEW c \in Clients, UpdateSession(c)
    PROVE  TxnInvariant'
<1>1. PICK s \in Sessions, p \in Projects : Update(s, p)
  BY DEF UpdateSession
<1>2. RowsInvariant /\ UNCHANGED txn
  BY DEF TxnInvariant, UpdateSession
<1>3. /\ Live(s) /\ session'[s] \in SessionRow
      /\ session'[s].status = session[s].status
      /\ session' \in [Sessions -> SessionRow \cup {NoRow}]
      /\ \A t \in Sessions \ {s} : session'[t] = session[t]
      /\ UNCHANGED <<project, segment, now>>
  BY <1>1, <1>2, UpdatedRow
<1>4. RowsInvariant'
  BY <1>2, <1>3, SessionCommitted DEF RowsInvariant, QuietSessionsAreClosed
<1>5. \A t \in Sessions : Live(t) =>
          session'[t] # NoRow /\ session'[t].status = session[t].status
  BY <1>3 DEF Live
<1> QED BY <1>2, <1>3, <1>4, <1>5, PlainStep

LEMMA ProjectStep ==
    ASSUME TxnInvariant, UNCHANGED <<session, segment, now, txn>>,
           project' \in [Projects -> {"absent", "active", "inactive"}]
    PROVE  TxnInvariant'
<1>1. RowsInvariant'
  BY DEF TxnInvariant, RowsInvariant, TypeOK, SegmentsAreDisjoint, QuietSessionsAreClosed,
         OpenSegmentsOf, SegmentsOf, Live
<1> QED BY <1>1, PlainStep DEF Live

-----------------------------------------------------------------------------

LEMMA TxnInitLemma == TxnInit => TxnInvariant
<1> SUFFICES ASSUME TxnInit PROVE TxnInvariant
  OBVIOUS
<1>1. RowsInvariant
  BY DEF TxnInit, Init, RowsInvariant, TypeOK, SegmentsAreDisjoint, QuietSessionsAreClosed, Live
<1>2. \A c \in Clients : txn[c] = Idle
  BY DEF TxnInit
<1>3. TxnTypeOK
  BY <1>1, IdleLemma DEF TxnInit, TxnTypeOK, RowsInvariant
<1>4. \A c \in Clients : Shape(txn[c]) /\ SessionKept(txn[c]) /\ SegmentKept(txn[c])
  BY <1>2, IdleLemma DEF SessionKept, SegmentKept, HoldsSegment
<1>5. \A c \in Clients : \A d \in Clients \ {c} : Exclusive(txn[c], txn[d])
  BY <1>2, IdleLemma DEF Exclusive, HoldsSegment
<1> QED BY <1>1, <1>3, <1>4, <1>5 DEF TxnInvariant

LEMMA TxnNextLemma == TxnInvariant /\ [TxnNext]_txnVars => TxnInvariant'
<1> SUFFICES ASSUME TxnInvariant, [TxnNext]_txnVars PROVE TxnInvariant'
  OBVIOUS
<1>1. CASE UNCHANGED txnVars
  BY <1>1, ProjectStep DEF txnVars, TxnInvariant, RowsInvariant, TypeOK
<1>2. ASSUME NEW c \in Clients, Arrival(c)
      PROVE  TxnInvariant'
  <2>1. CASE CreateNewProject(c)
    BY <2>1, ProjectStep
       DEF CreateNewProject, CreateProject, TxnInvariant, RowsInvariant, TypeOK
  <2>2. CASE ArchiveProject(c)
    BY <2>2, ProjectStep
       DEF ArchiveProject, PatchProject, TxnInvariant, RowsInvariant, TypeOK
  <2> QED BY <1>2, <2>1, <2>2, ReceiveStep, CheckProjectStep, UpdateSessionStep DEF Arrival
<1>3. ASSUME NEW c \in Clients, Statement(c)
      PROVE  TxnInvariant'
  BY <1>3, InsertSessionStep, ListStep, LockSessionStep, EndSegmentStep, SkipSegmentStep,
     BeginSegmentStep, ExcludeStep, CommitTransitionStep, ReplyStep, CascadeStep,
     TakeSegmentStep, ReadBoundsStep, WriteBoundsStep
     DEF Statement
<1>4. ASSUME NEW c \in Clients, BreakDeadlock(c)
      PROVE  TxnInvariant'
  BY <1>4, FailStep DEF BreakDeadlock
<1> QED BY <1>1, <1>2, <1>3, <1>4 DEF TxnNext

(* Whatever requests run side by side, and wherever they are broken off:   *)
(* what a request read under its lock is still true when it commits.       *)
THEOREM TxnTheorem == TxnSpec => []TxnInvariant
<1>1. TxnInit => TxnInvariant
  BY TxnInitLemma
<1>2. TxnInvariant /\ [TxnNext]_txnVars => TxnInvariant'
  BY TxnNextLemma
<1> QED BY <1>1, <1>2, PTL DEF TxnSpec

(* Rows and the transactions' own state keep their types, for any number   *)
(* of clients.                                                             *)
THEOREM TxnTypeTheorem == TxnSpec => []TxnTypeOK
<1>1. TxnInvariant => TxnTypeOK
  BY DEF TxnInvariant
<1> QED BY <1>1, TxnTheorem, PTL

(* Under any mixture of requests the segments of a session stay apart, and *)
(* a session at rest has none open: what WorkSessions shows for whole      *)
(* transactions holds for their statements, interleaved.                   *)
THEOREM TxnRowsTheorem == TxnSpec => [](SegmentsAreDisjoint /\ QuietSessionsAreClosed)
<1>1. TxnInvariant => SegmentsAreDisjoint /\ QuietSessionsAreClosed
  BY DEF TxnInvariant, RowsInvariant
<1> QED BY <1>1, TxnTheorem, PTL

-----------------------------------------------------------------------------
(* What the steps of requests commit. *)

(* The steps that write a table; all others leave every table unchanged.   *)
Commits(c) ==
    \/ CreateNewProject(c) \/ ArchiveProject(c) \/ UpdateSession(c)
    \/ InsertSession(c) \/ Cascade(c)
    \/ CommitTransition(c) /\ ~ Fail(c)
    \/ WriteBounds(c) /\ ~ Fail(c)

LEMMA CommitsOrNot ==
    ASSUME [TxnNext]_txnVars
    PROVE  UnchangedTables \/ \E c \in Clients : Commits(c)
<1>1. CASE UNCHANGED txnVars
  BY <1>1 DEF txnVars
<1>2. ASSUME NEW c \in Clients, Arrival(c)
      PROVE  UnchangedTables \/ Commits(c)
  BY <1>2 DEF Arrival, Receive, CheckProject, Accept, Commits
<1>3. ASSUME NEW c \in Clients, Statement(c)
      PROVE  UnchangedTables \/ Commits(c)
  <2>1. Fail(c) => UnchangedTables
    BY DEF Fail
  <2>2. CASE List(c) \/ LockSession(c) \/ EndSegment(c) \/ SkipSegment(c) \/ BeginSegment(c)
    BY <2>1, <2>2 DEF List, LockSession, EndSegment, SkipSegment, BeginSegment
  <2>3. CASE Exclude(c) \/ Reply(c) \/ TakeSegment(c) \/ ReadBounds(c)
    BY <2>1, <2>3 DEF Exclude, Reply, TakeSegment, ReadBounds
  <2> QED BY <1>3, <2>1, <2>2, <2>3 DEF Statement, Commits
<1>4. ASSUME NEW c \in Clients, BreakDeadlock(c)
      PROVE  UnchangedTables
  BY <1>4 DEF BreakDeadlock, Fail
<1> QED BY <1>1, <1>2, <1>3, <1>4 DEF TxnNext

(* A segment the exclusion constraint admits open begins after the others. *)
LEMMA BeginsInOrder ==
    ASSUME RowsInvariant, NEW s \in Sessions, NEW g \in Segments, NEW at \in Times,
           BeginsWork(s, g, at)
    PROVE  NotBeforeLastEnd(segment, s, at)
<1> DEFINE row == [session |-> s, started |-> at, ended |-> Null]
<1>1. ASSUME NEW h \in SegmentsOf(segment, s), segment[h].ended # Null
      PROVE  segment[h].ended <= at
  <2>1. h # g /\ segment[h] \in SegmentRow
    BY DEF BeginsWork, SegmentsOf, RowsInvariant, TypeOK
  <2>2. row.session = s /\ row.started = at /\ row.ended = Null
    OBVIOUS
  <2>3. Disjoint(row, segment[h])
    BY <2>1, <2>2 DEF BeginsWork, SegmentAdmitted
  <2>4. segment[h].started \in Times
    BY <2>1, SegmentRowFields
  <2> QED BY <2>2, <2>3, <2>4
<1> QED BY <1>1 DEF NotBeforeLastEnd

LEMMA CommitIsLedgerStep ==
    ASSUME TxnInvariant, NEW c \in Clients, CommitTransition(c), ~ Fail(c)
    PROVE  Ledger!Next
<1> PICK s, at, g : s = Subject(txn[c]) /\ at = txn[c].at /\ g = txn[c].g
  OBVIOUS
<1>1. RowsInvariant
  BY DEF TxnInvariant
<1>2. /\ segment' = Seen(c) /\ txn[c].pc = "commit"
      /\ session'[s] \in SessionRow /\ session'[s].status = Target(txn[c].op)
      /\ \A t \in Sessions \ {s} : session'[t] = session[t]
  BY CommitTransitionRow
<1>3. /\ s \in Sessions /\ at \in Times /\ txn[c].op \in MoveOps /\ Live(s)
      /\ \/ Verb(txn[c].op) \in {"pause", "stop"} /\ EndsWork(s, at)
         \/ Verb(txn[c].op) = "resume" /\ BeginsWork(s, g, at)
         \/ Verb(txn[c].op) = "stop" /\ StopsQuietly(s)
  BY <1>2, CommitTransitionFacts
<1>4. session'[s] # NoRow
  BY <1>2
<1>5. CASE Verb(txn[c].op) \in {"pause", "stop"} /\ EndsWork(s, at)
  <2>1. Target(txn[c].op) \in {"paused", "stopped"}
    BY <1>5 DEF Target
  <2>2. Ledger!Closing(s, at, Target(txn[c].op))
    BY <1>1, <1>2, <1>3, <1>4, <1>5, ClosingIsLedgerClosing DEF EndsWork
  <2> QED BY <1>3, <2>1, <2>2, LedgerMoves DEF Ledger!Pause, Ledger!Stop
<1>6. CASE Verb(txn[c].op) = "resume" /\ BeginsWork(s, g, at)
  <2>1. g \in Segments /\ NotBeforeLastEnd(segment, s, at)
    BY <1>1, <1>3, <1>6, BeginsInOrder DEF BeginsWork
  <2>2. session'[s].status = "running"
    BY <1>2, <1>6 DEF Target
  <2>3. Ledger!Resume(s, at)
    BY <1>1, <1>2, <1>3, <1>4, <1>6, <2>1, <2>2, ResumeIsLedgerResume DEF BeginsWork
  <2> QED BY <1>3, <2>3, LedgerMoves
<1>7. CASE Verb(txn[c].op) = "stop" /\ StopsQuietly(s)
  <2>1. session'[s].status = "stopped"
    BY <1>2, <1>7 DEF Target
  <2>2. Ledger!Stop(s, at)
    BY <1>1, <1>2, <1>3, <1>4, <1>7, <2>1, QuietStopIsLedgerStop DEF StopsQuietly
  <2> QED BY <1>3, <2>2, LedgerMoves
<1> QED BY <1>3, <1>5, <1>6, <1>7

(* The session and segment a start inserts. *)
LEMMA InsertSessionFacts ==
    ASSUME TxnInvariant, NEW c \in Clients, InsertSession(c)
    PROVE  \E s \in Sessions, g \in Segments :
              /\ txn[c].p \in Projects /\ txn[c].at \in Times
              /\ ~ Live(s) /\ segment[g] = NoRow
              /\ session' = [session EXCEPT ![s] =
                    [project |-> txn[c].p, status |-> "running", started |-> txn[c].at,
                     stopped |-> Null, reason |-> NoReason]]
              /\ segment' = [segment EXCEPT ![g] =
                    [session |-> s, started |-> txn[c].at, ended |-> Null]]
<1>1. txn[c] \in Txn /\ Shape(txn[c]) /\ txn[c].pc = "insert"
  BY DEF InsertSession, TxnInvariant, TxnTypeOK
<1>2. txn[c].p \in Projects /\ txn[c].at \in Times
  BY <1>1, TxnFields DEF Shape
<1> QED BY <1>2 DEF InsertSession, Unused, Fresh

LEMMA CommitsFollowLedger ==
    ASSUME TxnInvariant, NEW c \in Clients, Commits(c)
    PROVE  [Ledger!Next]_<<LedgerStatus, LedgerWork>>
<1>1. RowsInvariant
  BY DEF TxnInvariant
<1>2. CASE CreateNewProject(c) \/ ArchiveProject(c)
  <2>1. UNCHANGED <<session, segment>>
    BY <1>2 DEF CreateNewProject, CreateProject, ArchiveProject, PatchProject
  <2> QED BY <2>1, LedgerStutters
<1>3. CASE UpdateSession(c)
  <2>1. PICK s \in Sessions, p \in Projects : Update(s, p)
    BY <1>3 DEF UpdateSession
  <2>2. /\ Live(s) /\ session'[s] \in SessionRow
        /\ session'[s].status = session[s].status
        /\ \A t \in Sessions \ {s} : session'[t] = session[t]
        /\ UNCHANGED segment
    BY <1>1, <2>1, UpdatedRow
  <2> QED BY <2>2, LedgerStutters
<1>4. CASE InsertSession(c)
  <2>1. PICK s \in Sessions, g \in Segments :
              /\ txn[c].p \in Projects /\ txn[c].at \in Times
              /\ ~ Live(s) /\ segment[g] = NoRow
              /\ session' = [session EXCEPT ![s] =
                    [project |-> txn[c].p, status |-> "running", started |-> txn[c].at,
                     stopped |-> Null, reason |-> NoReason]]
              /\ segment' = [segment EXCEPT ![g] =
                    [session |-> s, started |-> txn[c].at, ended |-> Null]]
    BY <1>4, InsertSessionFacts
  <2>2. session'[s] \in SessionRow /\ session'[s].status = "running"
        /\ \A t \in Sessions \ {s} : session'[t] = session[t]
    BY <1>1, <2>1, InsertedRow DEF RowsInvariant, TypeOK
  <2>3. Ledger!Start(s, txn[c].at)
    BY <1>1, <2>1, <2>2, StartIsLedgerStart
  <2> QED BY <2>1, <2>3, LedgerMoves
<1>5. CASE Cascade(c)
  <2>1. txn[c] \in Txn /\ Shape(txn[c]) /\ txn[c].pc = "cascade"
    BY <1>5 DEF Cascade, TxnInvariant, TxnTypeOK
  <2>2. Subject(txn[c]) \in Sessions
    BY <2>1, TxnFields DEF Shape, HoldsSession
  <2>3. Delete(Subject(txn[c]))
    BY <1>5 DEF Cascade, Current, Subject
  <2> QED BY <1>1, <2>2, <2>3, DeleteIsLedgerDelete DEF Ledger!Next
<1>6. CASE CommitTransition(c) /\ ~ Fail(c)
  BY <1>6, CommitIsLedgerStep
<1>7. CASE WriteBounds(c) /\ ~ Fail(c)
  <2> PICK g, row, s : g = txn[c].g /\ row = txn[c].row /\ s = row.session
    OBVIOUS
  <2>1. /\ g \in Segments /\ row \in SegmentRow /\ Live(s) /\ segment[g] # NoRow
        /\ segment[g].session = row.session
        /\ row.ended # Null \/ row.ended = segment[g].ended
        /\ SegmentAdmitted(g, row) /\ segment' = [segment EXCEPT ![g] = row]
        /\ session'[s] \in SessionRow /\ session'[s].status = session[s].status
        /\ \A t \in Sessions \ {s} : session'[t] = session[t]
    BY <1>7, WriteBoundsRow
  <2>2. session'[row.session] # NoRow
    BY <2>1
  <2>3. PICK t \in Sessions : \E w \in LedgerWork[t], v \in Ledger!Stretches :
            Ledger!Correct(t, w, v)
    BY <1>1, <2>1, <2>2, CorrectionIsLedgerCorrect
  <2> QED BY <2>3 DEF Ledger!Next
<1> QED BY <1>2, <1>3, <1>4, <1>5, <1>6, <1>7 DEF Commits

(* Every interleaving of requests, corrections among them, drives every    *)
(* session through the ledger, one transition or correction at a time.     *)
THEOREM LedgerTheorem == TxnSpec => FollowsLedger
<1>1. TxnInit => Ledger!Init
  BY LedgerInit DEF TxnInit
<1>2. TxnInvariant /\ [TxnNext]_txnVars => [Ledger!Next]_(Ledger!vars)
  <2> SUFFICES ASSUME TxnInvariant, [TxnNext]_txnVars
               PROVE  [Ledger!Next]_<<LedgerStatus, LedgerWork>>
    BY DEF Ledger!vars
  <2>1. CASE UnchangedTables
    BY <2>1, LedgerStutters
  <2>2. ASSUME NEW c \in Clients, Commits(c)
        PROVE  [Ledger!Next]_<<LedgerStatus, LedgerWork>>
    BY <2>2, CommitsFollowLedger
  <2> QED BY <2>1, <2>2, CommitsOrNot
<1> QED BY <1>1, <1>2, TxnTheorem, PTL DEF TxnSpec, FollowsLedger, Ledger!Spec

-----------------------------------------------------------------------------
(* Serializability. *)

(* What a request that starts a session has read is still true when no     *)
(* project can be archived.                                                *)
StartsAreCurrent ==
    \A c \in Clients : txn[c].pc = "insert" => project[txn[c].p] = "active"

LEMMA CurrentStep ==
    ASSUME TxnInvariant, [TxnNext]_txnVars, "patch_project" \notin Requests, StartsAreCurrent
    PROVE  StartsAreCurrent'
<1>1. \A p \in Projects : project[p] = "active" => project'[p] = "active"
  <2>1. UNCHANGED project \/ \E p \in Projects : CreateProject(p)
    <3>1. ASSUME NEW c \in Clients, Commits(c)
          PROVE  UNCHANGED project \/ \E p \in Projects : CreateProject(p)
      BY <3>1 DEF Commits, CreateNewProject, ArchiveProject, UpdateSession, Update,
              InsertSession, Cascade, Delete, CommitTransition, WriteBounds
    <3> QED BY <3>1, CommitsOrNot
  <2> QED BY <2>1 DEF CreateProject, TxnInvariant, RowsInvariant, TypeOK
<1>2. ASSUME NEW d \in Clients
      PROVE  \/ txn'[d] = txn[d]
             \/ txn'[d].pc # "insert"
             \/ txn'[d].p \in Projects /\ project[txn'[d].p] = "active" /\ UNCHANGED project
  <2>1. txn \in [Clients -> Txn] /\ txn[d] \in Txn
    BY DEF TxnInvariant, TxnTypeOK
  <2>2. ASSUME NEW c \in Clients, NEW r, r.pc # "insert", txn' = [txn EXCEPT ![c] = r]
        PROVE  txn'[d] = txn[d] \/ txn'[d].pc # "insert"
    BY <2>1, <2>2
  <2>3. ASSUME NEW c \in Clients, Fail(c) \/ Finish(c)
        PROVE  txn'[d] = txn[d] \/ txn'[d].pc # "insert"
    BY <2>2, <2>3 DEF Fail, Finish, Idle
  <2>4. ASSUME NEW c \in Clients, Receive(c)
        PROVE  txn'[d] = txn[d] \/ txn'[d].pc # "insert"
    BY <2>2, <2>4 DEF Receive, Accept, Idle
  <2>5. ASSUME NEW c \in Clients, CheckProject(c)
        PROVE  \/ txn'[d] = txn[d]
               \/ txn'[d].p \in Projects /\ project[txn'[d].p] = "active" /\ UNCHANGED project
    <3>1. PICK p \in Projects, at \in Times :
              /\ project[p] = "active" /\ UNCHANGED project
              /\ txn' = [txn EXCEPT ![c] =
                    [[Idle EXCEPT !.pc = "insert", !.p = p, !.at = at] EXCEPT !.op = "start"]]
      BY <2>5 DEF CheckProject, Accept
    <3>2. [[Idle EXCEPT !.pc = "insert", !.p = p, !.at = at] EXCEPT !.op = "start"].p = p
      BY DEF Idle
    <3> QED BY <2>1, <3>1, <3>2
  <2>6. ASSUME NEW c \in Clients, Statement(c)
        PROVE  txn'[d] = txn[d] \/ txn'[d].pc # "insert"
    <3>1. txn[c] \in Txn
      BY <2>1
    <3>2. CASE d # c
      BY <2>1, <2>6, <3>2 DEF Statement, InsertSession, List, LockSession, EndSegment,
         SkipSegment, BeginSegment, Exclude, CommitTransition, Reply, Cascade, TakeSegment,
         ReadBounds, WriteBounds, Fail, Finish, Advance, Write
    <3>3. CASE d = c
      <4>1. CASE InsertSession(c) \/ Cascade(c) \/ WriteBounds(c)
        BY <2>3, <4>1 DEF InsertSession, Cascade, WriteBounds
      <4>2. CASE List(c)
        BY <2>1, <2>3, <3>3, <4>2 DEF List, Txn
      <4>3. CASE LockSession(c)
        <5>1. PICK r \in {[txn[c] EXCEPT !.locks = {Current(c)}]} :
                  \/ Fail(c)
                  \/ txn' = [txn EXCEPT ![c] = [r EXCEPT !.pc = "cascade"]]
                  \/ txn' = [txn EXCEPT ![c] = [r EXCEPT !.pc = "work"]]
          BY <4>3 DEF LockSession
        <5>2. [r EXCEPT !.pc = "cascade"].pc # "insert" /\ [r EXCEPT !.pc = "work"].pc # "insert"
          BY <3>1, <5>1 DEF Txn
        <5> QED BY <2>2, <2>3, <5>1, <5>2
      <4>4. CASE EndSegment(c) \/ BeginSegment(c) \/ TakeSegment(c)
        <5>1. ASSUME NEW g, NEW row, Write(c, g, row)
              PROVE  txn'[d].pc # "insert"
          <6>1. txn'[c] = [txn[c] EXCEPT !.g = g, !.row = row, !.pc = "exclude",
                                         !.locks = @ \cup {g}]
            BY <2>1, <5>1 DEF Write
          <6> QED BY <3>1, <3>3, <6>1 DEF Txn
        <5>2. CASE EndSegment(c)
          BY <2>3, <5>1, <5>2 DEF EndSegment
        <5>3. CASE BeginSegment(c)
          BY <2>3, <5>1, <5>3 DEF BeginSegment
        <5>4. CASE TakeSegment(c)
          BY <2>3, <5>1, <5>4 DEF TakeSegment
        <5> QED BY <4>4, <5>2, <5>3, <5>4
      <4>5. CASE SkipSegment(c) \/ Exclude(c)
        BY <2>1, <2>3, <3>3, <4>5 DEF SkipSegment, Exclude, Advance, Txn
      <4>6. CASE CommitTransition(c)
        <5> PICK r : r = [Idle EXCEPT !.pc = "reply", !.op = txn[c].op, !.at = txn[c].at,
                                      !.todo = txn[c].todo]
          OBVIOUS
        <5>1. Fail(c) \/ txn' = [txn EXCEPT ![c] = r]
          BY <4>6 DEF CommitTransition
        <5>2. r.pc = "reply"
          BY DEF Idle
        <5> QED BY <2>2, <2>3, <5>1, <5>2
      <4>7. CASE Reply(c) \/ ReadBounds(c)
        <5>1. CASE Reply(c)
          <6> PICK r : r = [txn[c] EXCEPT !.todo = Tail(@), !.pc = "lock"]
            OBVIOUS
          <6>1. r.pc = "lock"
            BY <3>1 DEF Txn
          <6>2. Fail(c) \/ Finish(c) \/ txn' = [txn EXCEPT ![c] = r]
            BY <5>1 DEF Reply
          <6> QED BY <2>2, <2>3, <6>1, <6>2
        <5>2. CASE ReadBounds(c)
          <6>1. PICK first, last :
                    txn' = [txn EXCEPT ![c].bounds = <<first, last>>, ![c].pc = "session"]
            BY <5>2 DEF ReadBounds
          <6>2. txn'[c] = [txn[c] EXCEPT !.bounds = <<first, last>>, !.pc = "session"]
            BY <2>1, <6>1
          <6>3. txn'[c].pc = "session"
            BY <3>1, <6>2 DEF Txn
          <6> QED BY <3>3, <6>3
        <5> QED BY <4>7, <5>1, <5>2
      <4> QED BY <2>6, <4>1, <4>2, <4>3, <4>4, <4>5, <4>6, <4>7 DEF Statement
    <3> QED BY <3>2, <3>3
  <2>7. ASSUME NEW c \in Clients,
               CreateNewProject(c) \/ ArchiveProject(c) \/ UpdateSession(c)
        PROVE  txn'[d] = txn[d]
    BY <2>7 DEF CreateNewProject, ArchiveProject, UpdateSession
  <2>8. CASE UNCHANGED txnVars
    BY <2>8 DEF txnVars
  <2> QED BY <2>3, <2>4, <2>5, <2>6, <2>7, <2>8 DEF TxnNext, Arrival, BreakDeadlock
<1>3. ASSUME NEW d \in Clients, txn'[d].pc = "insert"
      PROVE  project'[txn'[d].p] = "active"
  <2>1. CASE txn'[d] = txn[d]
    <3>1. txn[d].p \in Projects
      BY <1>3, <2>1 DEF TxnInvariant, Shape
    <3> QED BY <1>1, <1>3, <2>1, <3>1 DEF StartsAreCurrent
  <2> QED BY <1>2, <1>3, <2>1
<1> QED BY <1>3 DEF StartsAreCurrent

(* A transition that commits is the transaction of WorkSessions.           *)
LEMMA CommitIsTransition ==
    ASSUME TxnInvariant, Requestable = Times, NEW c \in Clients,
           CommitTransition(c), ~ Fail(c)
    PROVE  Next
<1> PICK s, at, g : s = Subject(txn[c]) /\ at = txn[c].at /\ g = txn[c].g
  OBVIOUS
<1>1. RowsInvariant
  BY DEF TxnInvariant
<1>2. segment' = Seen(c) /\ txn[c].pc = "commit" /\ UNCHANGED <<project, now>>
  BY CommitTransitionRow
<1>3. /\ s \in Sessions /\ at \in Requestable /\ txn[c].op \in MoveOps /\ Live(s)
      /\ Moves(s, Verb(txn[c].op), Target(txn[c].op))
      /\ \/ Verb(txn[c].op) \in {"pause", "stop"} /\ EndsWork(s, at)
         \/ Verb(txn[c].op) = "resume" /\ BeginsWork(s, g, at)
         \/ Verb(txn[c].op) = "stop" /\ StopsQuietly(s)
  BY <1>2, CommitTransitionFacts
<1>4. CASE Verb(txn[c].op) = "pause"
  <2>1. Target(txn[c].op) = "paused"
    BY <1>4 DEF Target
  <2>2. session' = [session EXCEPT ![s].status = "paused"]
    BY <2>1 DEF CommitTransition, Current, Subject
  <2>3. CloseOpenSegment(s, at)
    BY <1>3, <1>4 DEF EndsWork
  <2>4. Pause(s, at)
    BY <1>2, <1>3, <1>4, <2>1, <2>2, <2>3 DEF Pause
  <2> QED BY <1>3, <2>4 DEF Next
<1>5. CASE Verb(txn[c].op) = "resume"
  <2>1. Target(txn[c].op) = "running"
    BY <1>5 DEF Target
  <2>2. session' = [session EXCEPT ![s].status = "running"]
    BY <2>1 DEF CommitTransition, Current, Subject
  <2>3. BeginsWork(s, g, at) /\ g \in Segments
    BY <1>3, <1>5 DEF BeginsWork
  <2>4. NotBeforeLastEnd(segment, s, at)
    BY <1>1, <1>3, <2>3, BeginsInOrder
  <2>5. Resume(s, g, at)
    BY <1>2, <1>3, <1>5, <2>1, <2>2, <2>3, <2>4 DEF Resume, BeginsWork, OpenSegment
  <2> QED BY <1>3, <2>3, <2>5 DEF Next
<1>6. CASE Verb(txn[c].op) = "stop"
  <2>1. Target(txn[c].op) = "stopped"
    BY <1>6 DEF Target
  <2>2. PICK reason \in Reasons : session' = StopRow(s, at, reason)
    BY <2>1 DEF CommitTransition, Current, Subject
  <2>3. NotBeforeLastEnd(segment', s, at) /\ session[s].started <= at
    BY <1>2, <2>1 DEF CommitTransition, StopInOrder, Current, Subject
  <2>4. EndWork(s, at)
    BY <1>3, <1>6 DEF EndsWork, StopsQuietly, EndWork
  <2>5. Stop(s, at, reason)
    BY <1>2, <1>3, <1>6, <2>1, <2>2, <2>3, <2>4 DEF Stop
  <2> QED BY <1>3, <2>5 DEF Next
<1> QED BY <1>3, <1>4, <1>5, <1>6

LEMMA CommitsAreTransactions ==
    ASSUME TxnInvariant, StartsAreCurrent, Requestable = Times,
           "patch_project" \notin Requests, "correct" \notin Requests,
           NEW c \in Clients, Commits(c)
    PROVE  Next
<1>1. txn[c] \in Txn /\ Shape(txn[c])
  BY DEF TxnInvariant, TxnTypeOK
<1>2. CASE CreateNewProject(c)
  BY <1>2 DEF CreateNewProject, Next
<1>3. ~ ArchiveProject(c)
  BY DEF ArchiveProject
<1>4. CASE UpdateSession(c)
  BY <1>4 DEF UpdateSession, Next
<1>5. CASE InsertSession(c)
  <2>1. PICK s \in Sessions, g \in Segments :
              /\ txn[c].p \in Projects /\ txn[c].at \in Times
              /\ ~ Live(s) /\ segment[g] = NoRow
              /\ session' = [session EXCEPT ![s] =
                    [project |-> txn[c].p, status |-> "running", started |-> txn[c].at,
                     stopped |-> Null, reason |-> NoReason]]
              /\ segment' = [segment EXCEPT ![g] =
                    [session |-> s, started |-> txn[c].at, ended |-> Null]]
    BY <1>5, InsertSessionFacts
  <2>2. project[txn[c].p] = "active" /\ UNCHANGED <<project, now>>
    BY <1>5 DEF InsertSession, StartsAreCurrent
  <2>3. Start(s, g, txn[c].p, txn[c].at)
    BY <2>1, <2>2 DEF Start
  <2> QED BY <2>1, <2>3 DEF Next
<1>6. CASE Cascade(c)
  <2>1. Subject(txn[c]) \in Sessions
    BY <1>1, <1>6, TxnFields DEF Shape, HoldsSession, Cascade
  <2>2. Delete(Subject(txn[c]))
    BY <1>6 DEF Cascade, Current, Subject
  <2> QED BY <2>1, <2>2 DEF Next
<1>7. CASE CommitTransition(c) /\ ~ Fail(c)
  BY <1>7, CommitIsTransition
<1>8. ~ WriteBounds(c)
  <2>1. txn[c].op \in Requests \cup {"none"}
    BY <1>1, TxnFields
  <2> QED BY <1>1, <2>1 DEF WriteBounds, Shape
<1> QED BY <1>2, <1>3, <1>4, <1>5, <1>6, <1>7, <1>8 DEF Commits

(* Without corrections and archiving, and with a clock that accepts any    *)
(* time a request may carry, the tables change as if the requests'         *)
(* transactions ran one after another, in the order of their commits.      *)
THEOREM SerializableTheorem ==
    ASSUME Horizon >= MaxTime, "patch_project" \notin Requests, "correct" \notin Requests
    PROVE  TxnSpec => Serializable
<1>1. TxnInit => Init /\ StartsAreCurrent
  BY DEF TxnInit, StartsAreCurrent, Idle
<1>2. TxnInvariant /\ StartsAreCurrent /\ [TxnNext]_txnVars => StartsAreCurrent'
  BY CurrentStep
<1>3. TxnInvariant /\ StartsAreCurrent /\ [TxnNext]_txnVars => [Next]_vars
  <2> SUFFICES ASSUME TxnInvariant, StartsAreCurrent, [TxnNext]_txnVars
               PROVE  [Next]_vars
    OBVIOUS
  <2>1. CASE UnchangedTables
    BY <2>1 DEF vars
  <2>2. ASSUME NEW c \in Clients, Commits(c)
        PROVE  Next
    <3>1. now \in Times
      BY DEF TxnInvariant, RowsInvariant, TypeOK
    <3>2. Requestable = Times
      BY <3>1 DEF Requestable
    <3> QED BY <2>2, <3>2, CommitsAreTransactions
  <2> QED BY <2>1, <2>2, CommitsOrNot
<1> QED BY <1>1, <1>2, <1>3, TxnTheorem, PTL DEF TxnSpec, Serializable, Spec

=============================================================================
