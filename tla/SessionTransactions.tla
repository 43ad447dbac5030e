------------------------- MODULE SessionTransactions -------------------------
(***************************************************************************)
(* Concurrent requests to the session endpoints, statement by statement.   *)
(* Each request runs on a connection of its own as one READ COMMITTED      *)
(* transaction (a bulk request as one for each session it lists): a        *)
(* statement sees what is committed and what its own transaction wrote,    *)
(* row locks are held to the end, a statement that needs a row another     *)
(* transaction holds waits for it, and PostgreSQL breaks a cycle of        *)
(* waiting transactions by aborting one.                                   *)
(*                                                                         *)
(* The tables of WorkSessions are the committed rows; what a transaction   *)
(* has written and not committed is in txn.  The clock stands still:       *)
(* requests carry their times, and a Horizon of MaxTime lets them be any.  *)
(***************************************************************************)
EXTENDS WorkSessions, SequencesExt, Relation

CONSTANTS
    Clients,    \* the connections requests arrive on
    Requests    \* the endpoints in use

SingleOps == {"pause", "resume", "stop"}
BulkOps == {"pause_all", "resume_all", "resume_selected", "stop_all"}
OtherOps == {"create_project", "patch_project", "start", "update", "correct", "delete"}

ASSUME RequestsAssumption == Requests \subseteq SingleOps \cup BulkOps \cup OtherOps
ASSUME SessionsAssumption == IsFiniteSet(Sessions)

VARIABLE txn    \* the request each client has in progress

txnVars == <<project, session, segment, now, txn>>

NoBounds == <<Null, Null>>

(* pc is the statement to execute next; todo the sessions still to be      *)
(* acted on; p the project of a start; g and row the segment written and   *)
(* its new value; bounds what a correction has read; locks the rows held.  *)
Idle ==
    [pc |-> "idle", op |-> "none", todo |-> <<>>, at |-> 0, p |-> NoRow,
     g |-> NoRow, row |-> NoRow, bounds |-> NoBounds, locks |-> {}]

Txn ==
    [pc : {"idle", "failed", "list", "lock", "work", "exclude", "commit", "reply",
           "insert", "take", "bounds", "session", "cascade"},
     op : Requests \cup {"none"},
     todo : Seq(Sessions), at : Times, p : Projects \cup {NoRow},
     g : Segments \cup {NoRow}, row : SegmentRow \cup {NoRow},
     bounds : (Times \cup {Null}) \X (Times \cup {Null}),
     locks : SUBSET (Sessions \cup Segments)]

TxnTypeOK == TypeOK /\ txn \in [Clients -> Txn]

(* The service's verb behind an endpoint and the status it leads to.       *)
Verb(op) ==
    CASE op \in {"pause", "pause_all"} -> "pause"
      [] op \in {"resume", "resume_all", "resume_selected"} -> "resume"
      [] op \in {"stop", "stop_all"} -> "stop"

Target(op) ==
    CASE Verb(op) = "pause" -> "paused"
      [] Verb(op) = "resume" -> "running"
      [] Verb(op) = "stop" -> "stopped"

Current(c) == Head(txn[c].todo)

(* The request is over: answered with its result, or with an error. *)
Over(c) == txn[c].pc \in {"idle", "failed"}

-----------------------------------------------------------------------------
(* Locks. *)

Holders(c, x) == {d \in Clients \ {c} : x \in txn[d].locks}
FreeFor(c, x) == Holders(c, x) = {}

(* The segment table as client c sees it: committed, with its own write.   *)
Seen(c) ==
    IF txn[c].row = NoRow THEN segment ELSE [segment EXCEPT ![txn[c].g] = txn[c].row]

(* Mutant: only committed rows are looked at, as a check by query would.   *)
CommittedCollisions(c) ==
    {h \in SegmentsOf(segment, txn[c].row.session) \ {txn[c].g} :
        ~ Disjoint(txn[c].row, segment[h])}

(* Segments whose committed or uncommitted range collides with the row     *)
(* client c has written.                                                   *)
Collisions(c) ==
    {h \in Segments \ {txn[c].g} :
        \/ h \in SegmentsOf(segment, txn[c].row.session) /\ ~ Disjoint(txn[c].row, segment[h])
        \/ \E d \in Clients \ {c} :
              /\ txn[d].row # NoRow /\ txn[d].g = h
              /\ txn[d].row.session = txn[c].row.session
              /\ ~ Disjoint(txn[c].row, txn[d].row)}

(* Open segments the UPDATE of pause and stop applies to. *)
Closable(s, at) == {g \in OpenSegmentsOf(s) : segment[g].started < at}

(* The clients whose transactions the next statement of c has to wait for. *)
Blockers(c) ==
    CASE txn[c].pc = "lock" -> Holders(c, Current(c))
      [] txn[c].pc = "work" ->
            IF Verb(txn[c].op) = "resume" THEN {}
            ELSE UNION {Holders(c, g) : g \in Closable(Current(c), txn[c].at)}
      [] txn[c].pc = "exclude" -> UNION {Holders(c, h) : h \in Collisions(c)}
      [] txn[c].pc = "take" -> Holders(c, txn[c].g)
      [] txn[c].pc = "session" -> Holders(c, txn[c].row.session)
      [] txn[c].pc = "cascade" ->
            UNION {Holders(c, g) : g \in SegmentsOf(segment, Current(c))}
      [] OTHER -> {}

Deadlocked(c) ==
    /\ Blockers(c) # {}
    /\ TransitiveClosure([x, y \in Clients |-> y \in Blockers(x)], Clients)[c, c]

-----------------------------------------------------------------------------
(* Outcomes. *)

UnchangedTables == UNCHANGED <<project, session, segment, now>>

(* Mutant: an error leaves the transaction open, and its locks held.       *)
FailWithoutRollback(c) ==
    /\ txn' = [txn EXCEPT ![c].pc = "failed"]
    /\ UnchangedTables

(* Rolled back, with a 404, 409 or 503: nothing of this transaction stays. *)
Fail(c) ==
    /\ txn' = [txn EXCEPT ![c] = [Idle EXCEPT !.pc = "failed"]]
    /\ UnchangedTables

Finish(c) == txn' = [txn EXCEPT ![c] = Idle]

Advance(c, pc) == txn' = [txn EXCEPT ![c].pc = pc]

(* Client c writes row as segment g, to be checked for exclusion next. *)
Write(c, g, row) ==
    txn' = [txn EXCEPT ![c].g = g, ![c].row = row, ![c].pc = "exclude",
                       ![c].locks = @ \cup {g}]

(* Ids no row has and no request in progress refers to. *)
Unused(s) ==
    ~ Live(s) /\ \A c \in Clients : ~ Over(c) => s \notin Range(txn[c].todo)

Fresh(g) == segment[g] = NoRow /\ \A c \in Clients : txn[c].g # g

-----------------------------------------------------------------------------
(* A request arrives. *)

(* Bound: a request that inserts rows is only made while ids are left for  *)
(* it and for the other requests in progress.                              *)
Inserts(op) ==
    CASE op \in {"start", "resume"} -> 1
      [] op \in {"resume_all", "resume_selected"} -> Cardinality(Sessions)
      [] OTHER -> 0

RoomFor(op) ==
    LET busy == {c \in Clients : ~ Over(c)}
        starting == {c \in busy : txn[c].op = "start"}
    IN  /\ Inserts(op) > 0 =>
             Inserts(op) + MapThenSumSet(LAMBDA c : Inserts(txn[c].op), busy)
                <= Cardinality({g \in Segments : segment[g] = NoRow})
        /\ op = "start" =>
             Cardinality(starting) < Cardinality({s \in Sessions : ~ Live(s)})

Accept(c, op, request) ==
    /\ Over(c) /\ op \in Requests /\ RoomFor(op)
    /\ txn' = [txn EXCEPT ![c] = [request EXCEPT !.op = op]]
    /\ UnchangedTables

Receive(c) ==
    \/ \E op \in SingleOps, s \in Sessions, at \in Times :
          Live(s) /\ Accept(c, op, [Idle EXCEPT !.pc = "lock", !.todo = <<s>>, !.at = at])
    \/ \E op \in BulkOps, at \in Times :
          Accept(c, op, [Idle EXCEPT !.pc = "list", !.at = at])
    \/ \E s \in Sessions :
          Live(s) /\ Accept(c, "delete", [Idle EXCEPT !.pc = "lock", !.todo = <<s>>])
    \/ \E g \in Segments :
          /\ segment[g] # NoRow
          /\ Accept(c, "correct", [Idle EXCEPT !.pc = "take", !.g = g])

(* Requests whose statements change one row, once. *)
CreateNewProject(c) ==
    /\ "create_project" \in Requests /\ Over(c)
    /\ \E p \in Projects : CreateProject(p)
    /\ UNCHANGED txn

ArchiveProject(c) ==
    /\ "patch_project" \in Requests /\ Over(c)
    /\ \E p \in Projects, active \in BOOLEAN : PatchProject(p, active)
    /\ UNCHANGED txn

UpdateSession(c) ==
    /\ "update" \in Requests /\ Over(c)
    /\ \E s \in Sessions, p \in Projects : FreeFor(c, s) /\ Update(s, p)
    /\ UNCHANGED txn

(* start: the project is read, and nothing keeps it from being archived    *)
(* before the two inserts.                                                 *)
CheckProject(c) ==
    \E p \in Projects, at \in Times :
        /\ project[p] = "active"
        /\ Accept(c, "start", [Idle EXCEPT !.pc = "insert", !.p = p, !.at = at])

InsertSession(c) ==
    /\ txn[c].pc = "insert"
    /\ \E s \in Sessions, g \in Segments :
          /\ Unused(s) /\ Fresh(g)
          /\ session' = [session EXCEPT ![s] =
                [project |-> txn[c].p, status |-> "running", started |-> txn[c].at,
                 stopped |-> Null, reason |-> NoReason]]
          /\ segment' = [segment EXCEPT ![g] =
                [session |-> s, started |-> txn[c].at, ended |-> Null]]
    /\ Finish(c)
    /\ UNCHANGED <<project, now>>

-----------------------------------------------------------------------------
(* Pause, resume and stop, one session or several. *)

(* The statuses a bulk request lists, and in which order: stop_all the     *)
(* earliest started first, the others the latest.  resume_selected acts on *)
(* those of the paused sessions that the request names.                    *)
Listed(op) ==
    {s \in Sessions : Live(s) /\ session[s].status \in
        CASE op = "pause_all" -> {"running"}
          [] op \in {"resume_all", "resume_selected"} -> {"paused"}
          [] op = "stop_all" -> {"running", "paused"}}

InOrder(op, s, t) ==
    IF op = "stop_all" THEN session[s].started <= session[t].started
                       ELSE session[t].started <= session[s].started

List(c) ==
    /\ txn[c].pc = "list"
    /\ \E named \in SUBSET Listed(txn[c].op) : \E todo \in SetToSeqs(named) :
          /\ txn[c].op # "resume_selected" => named = Listed(txn[c].op)
          /\ \A i \in 1 .. Len(todo) - 1 : InOrder(txn[c].op, todo[i], todo[i + 1])
          /\ IF todo = <<>> THEN Finish(c)
             ELSE txn' = [txn EXCEPT ![c].todo = todo, ![c].pc = "lock"]
    /\ UnchangedTables

(* SELECT status ... FOR UPDATE, then next_status. *)
LockSession(c) ==
    /\ txn[c].pc = "lock" /\ FreeFor(c, Current(c))
    /\ LET s == Current(c)
           locked == [txn[c] EXCEPT !.locks = {s}]
       IN  IF ~ Live(s) THEN Fail(c)
           ELSE IF txn[c].op = "delete"
           THEN txn' = [txn EXCEPT ![c] = [locked EXCEPT !.pc = "cascade"]] /\ UnchangedTables
           ELSE IF Moves(s, Verb(txn[c].op), Target(txn[c].op))
           THEN txn' = [txn EXCEPT ![c] = [locked EXCEPT !.pc = "work"]] /\ UnchangedTables
           ELSE Fail(c)

(* The UPDATE that ends the open segment, in pause and in a stop while     *)
(* running.                                                                *)
EndSegment(c) ==
    /\ txn[c].pc = "work" /\ session[Current(c)].status = "running"
    /\ LET closable == Closable(Current(c), txn[c].at)
       IN  IF closable = {} THEN Fail(c)
           ELSE /\ Blockers(c) = {}
                /\ \E g \in closable : Write(c, g, [segment[g] EXCEPT !.ended = txn[c].at])
                /\ UnchangedTables

(* A stop while paused has no segment to end. *)
SkipSegment(c) ==
    /\ txn[c].pc = "work" /\ session[Current(c)].status = "paused"
    /\ Verb(txn[c].op) = "stop"
    /\ Advance(c, "commit")
    /\ UnchangedTables

(* SELECT MAX(ended_at), compared with the resume time; INSERT. *)
BeginSegment(c) ==
    /\ txn[c].pc = "work" /\ Verb(txn[c].op) = "resume"
    /\ IF NotBeforeLastEnd(segment, Current(c), txn[c].at)
       THEN /\ \E g \in Segments :
                  /\ Fresh(g)
                  /\ Write(c, g, [session |-> Current(c), started |-> txn[c].at,
                                  ended |-> Null])
            /\ UnchangedTables
       ELSE Fail(c)

(* The exclusion constraint: a committed collision is an error, one with a *)
(* row another transaction holds is waited for.                            *)
Exclude(c) ==
    /\ txn[c].pc = "exclude" /\ Blockers(c) = {}
    /\ IF Collisions(c) # {} THEN Fail(c)
       ELSE /\ Advance(c, IF txn[c].op = "correct" THEN "bounds" ELSE "commit")
            /\ UnchangedTables

(* Mutant: the last end is looked up only when the stop ended a segment. *)
StopInOrderWhileRunning(c) ==
    txn[c].row # NoRow => NotBeforeLastEnd(Seen(c), Current(c), txn[c].at)

StopInOrder(c) == NotBeforeLastEnd(Seen(c), Current(c), txn[c].at)

(* The UPDATE of the session's status, and COMMIT.  Nobody can have changed *)
(* the session since it was locked, so the SELECT MAX(ended_at) of stop    *)
(* is part of this step.                                                   *)
CommitTransition(c) ==
    /\ txn[c].pc = "commit"
    /\ LET s == Current(c)
           stops == Target(txn[c].op) = "stopped"
       IN  IF stops /\ ~ (StopInOrder(c) /\ session[s].started <= txn[c].at)
           THEN Fail(c)
           ELSE /\ segment' = Seen(c)
                /\ IF stops
                   THEN \E reason \in Reasons : session' = StopRow(s, txn[c].at, reason)
                   ELSE session' = [session EXCEPT ![s].status = Target(txn[c].op)]
                /\ txn' = [txn EXCEPT ![c] =
                      [Idle EXCEPT !.pc = "reply", !.op = txn[c].op, !.at = txn[c].at,
                                   !.todo = txn[c].todo]]
                /\ UNCHANGED <<project, now>>

(* The session is read back after the commit, and may be gone by then; a   *)
(* bulk request goes on with the next session it listed.                   *)
Reply(c) ==
    /\ txn[c].pc = "reply"
    /\ IF ~ Live(Current(c)) THEN Fail(c)
       ELSE /\ IF Len(txn[c].todo) = 1 THEN Finish(c)
               ELSE txn' = [txn EXCEPT ![c].todo = Tail(@), ![c].pc = "lock"]
            /\ UnchangedTables

(* The foreign key's ON DELETE CASCADE, and COMMIT. *)
Cascade(c) ==
    /\ txn[c].pc = "cascade" /\ Blockers(c) = {}
    /\ Delete(Current(c))
    /\ Finish(c)

-----------------------------------------------------------------------------
(* correct_segment: the segment first, without the session's lock. *)

TakeSegment(c) ==
    /\ txn[c].pc = "take" /\ Blockers(c) = {}
    /\ LET g == txn[c].g
       IN  IF segment[g] = NoRow THEN Fail(c)
           ELSE /\ \E from, to \in Times : \E row \in SegmentPatch(segment[g], from, to) :
                      row.started < row.ended /\ Write(c, g, row)
                /\ UnchangedTables

(* The bounds subquery of the second UPDATE, on the statement's snapshot. *)
ReadBounds(c) ==
    /\ txn[c].pc = "bounds"
    /\ \E first \in Times, last \in Times \cup {Null} :
          /\ IsBounds(Seen(c), txn[c].row.session, first, last)
          /\ txn' = [txn EXCEPT ![c].bounds = <<first, last>>, ![c].pc = "session"]
    /\ UnchangedTables

(* The second UPDATE gets the session's row, waiting for it if need be:    *)
(* then the row's latest version is read again, but the subquery is not.   *)
WriteBounds(c) ==
    /\ txn[c].pc = "session" /\ Blockers(c) = {}
    /\ LET s == txn[c].row.session
           first == txn[c].bounds[1]
           last == txn[c].bounds[2]
           stopped == session[s].status = "stopped"
       IN  IF stopped /\ (last = Null \/ last < first) THEN Fail(c)
           ELSE /\ segment' = Seen(c)
                /\ session' = [session EXCEPT
                      ![s].started = first, ![s].stopped = IF stopped THEN last ELSE @]
                /\ Finish(c)
                /\ UNCHANGED <<project, now>>

-----------------------------------------------------------------------------

Statement(c) ==
    \/ InsertSession(c) \/ List(c) \/ LockSession(c) \/ EndSegment(c) \/ SkipSegment(c)
    \/ BeginSegment(c) \/ Exclude(c) \/ CommitTransition(c) \/ Reply(c) \/ Cascade(c)
    \/ TakeSegment(c) \/ ReadBounds(c) \/ WriteBounds(c)

(* PostgreSQL's deadlock detector aborts a transaction of the cycle. *)
BreakDeadlock(c) == ~ Over(c) /\ Deadlocked(c) /\ Fail(c)

Arrival(c) ==
    \/ Receive(c) \/ CheckProject(c) \/ CreateNewProject(c) \/ ArchiveProject(c)
    \/ UpdateSession(c)

TxnInit == Init /\ txn = [c \in Clients |-> Idle]

TxnNext == \E c \in Clients : Arrival(c) \/ Statement(c) \/ BreakDeadlock(c)

TxnSpec == TxnInit /\ [][TxnNext]_txnVars

(* PostgreSQL hands a released row to its waiters in turn, and looks for   *)
(* deadlocks whenever a wait lasts longer than deadlock_timeout.           *)
Fairness ==
    \A c \in Clients : SF_txnVars(Statement(c)) /\ WF_txnVars(BreakDeadlock(c))

FairTxnSpec == TxnSpec /\ Fairness

-----------------------------------------------------------------------------

(* Without corrections and archiving, concurrent requests leave the tables *)
(* as some order of their transactions one at a time would: pause, resume, *)
(* stop, update and delete lock the session before anything else.          *)
Serializable == Spec

(* With corrections among them, which lock the segment first, every        *)
(* session still follows the ledger: locks, the re-check after a wait and  *)
(* the exclusion constraint keep its stretches disjoint and its status in  *)
(* step with them, even where the session's own bounds go stale.           *)
FollowsLedger == Ledger!Spec

(* Every request is answered: whatever waits is woken, or broken off as a  *)
(* deadlock.                                                               *)
EveryRequestEnds == \A c \in Clients : ~ Over(c) ~> Over(c)

=============================================================================
