----------------------------- MODULE TaskStream -----------------------------
(***************************************************************************)
(* The timeline of one task as a browser follows it:                       *)
(* handleTaskStream and streamDrain of apps/api/internal/httpapi/stream.go *)
(* over EventsAfter of task/store.go, and the page's useTaskStream.ts,     *)
(* while the task store keeps writing.  The store's own actions are those  *)
(* of TaskStore; the ones that neither move the status nor append an event *)
(* are invisible here and left out.                                        *)
(*                                                                         *)
(* A position is <<attempt_number, sequence_number>>, the id of a frame.   *)
(***************************************************************************)
EXTENDS TaskStore

CONSTANTS
  Streamed,    \* the task that is followed
  Passed,      \* the statuses it has passed when the page is opened
  Targets,     \* the statuses that callers of Transition ask for
  BatchLimit,  \* streamBatchLimit
  MaxEvents,   \* bound on the events of the task
  MaxNotes,    \* bound on those that are not status changes
  MaxDrops     \* bound on broken connections

ASSUME StreamAssumption ==
  /\ Streamed \in TaskIds /\ Targets \subseteq AllStatuses
  /\ Passed \in Seq(AllStatuses)
  /\ \A n \in 1..Len(Passed) :
       CanTransition(IF n = 1 THEN "queued" ELSE Passed[n - 1], Passed[n])
  /\ BatchLimit \in Nat \ {0} /\ {MaxEvents, MaxNotes, MaxDrops} \subseteq Nat

VARIABLES
  handler,  \* the request in the server: where it is, its cursor, the status it
            \* read last, and whether this round wrote an event
  wire,     \* frames written and not yet received
  page,     \* the browser: its EventSource, its cursors and what it shows
  drops     \* connections broken so far

streamVars == <<handler, wire, page, drops>>
allVars == <<tasks, handler, wire, page, drops>>

Start == <<0, 0>>
Row1 == tasks[Streamed]

\* A server-sent frame: an event at its position, or the end with the status.
Frame(p) == [at |-> p, done |-> "none"]
DoneFrame(status) == [at |-> Start, done |-> status]

\* (attempt_number, sequence_number) compared as SQL compares row values.
Before(p, q) == p[1] < q[1] \/ (p[1] = q[1] /\ p[2] < q[2])

Position(i) == <<Row1.attempts[Row1.log[i].attempt].number, Row1.log[i].seq>>

NoRequest == [pc |-> "none", cursor |-> Start, status |-> "created", wrote |-> FALSE]

\* A created task that has gone on to the n-th status of Passed.
Advanced[n \in 0..Len(Passed)] ==
  IF n = 0 THEN CreatedRow(NoIssue, NoValue)
  ELSE applyTransition(Advanced[n - 1], Params(Passed[n], NoKey, 0))

\* The page is opened on a task that is under way.
StreamInit ==
  /\ tasks = [t \in {Streamed} |-> Advanced[Len(Passed)]]
  /\ handler = NoRequest /\ wire = << >>
  /\ page = [source |-> "connecting", url |-> Start, header |-> Start,
             shown |-> {}, final |-> "none"]
  /\ drops = 0

-----------------------------------------------------------------------------
(* The store.                                                              *)

Notes == Cardinality({i \in DOMAIN Row1.log : Row1.log[i].type = "note"})

StatusChanges ==
  /\ \/ \E to \in Targets : Transition(Streamed, to, NoKey, 0)
     \/ \E key \in Keys, comment \in Values, base \in Values :
          RequestRevision(Streamed, key, comment, base)
     \/ Cancel(Streamed)
  /\ Len(tasks'[Streamed].log) <= MaxEvents
  /\ UNCHANGED streamVars

\* Agents, runners and controllers append to any attempt, also to one that a
\* revision has superseded.
EventAppended ==
  /\ Notes < MaxNotes /\ Len(Row1.log) < MaxEvents
  /\ \/ \E a \in DOMAIN Row1.attempts : AppendAttemptEvent(Streamed, a)
     \/ AppendEvent(Streamed)
  /\ UNCHANGED streamVars

-----------------------------------------------------------------------------
(* The server.                                                             *)

\* Mutant of TimelineOrder: ordered by sequence number alone.
SequenceOrder(p, q) == p[2] < q[2] \/ (p[2] = q[2] /\ p[1] < q[1])

\* ORDER BY a.attempt_number, e.sequence_number.
TimelineOrder(p, q) == Before(p, q)

\* The first limit events after the cursor, in the order of the timeline: what
\* the query may answer, which is one sequence.
EventsAfter(cursor, limit) ==
  LET later == {p \in {Position(i) : i \in DOMAIN Row1.log} : Before(cursor, p)}
      InOrder(s) == \A i, j \in DOMAIN s : i < j => TimelineOrder(s[i], s[j])
      First(s) == \A p \in later :
        \/ \E i \in DOMAIN s : s[i] = p
        \/ Len(s) = limit /\ \A i \in DOMAIN s : TimelineOrder(s[i], p)
  IN {s \in UNION {[1..n -> later] : n \in 0..limit} : InOrder(s) /\ First(s)}

\* requestCursor: the Last-Event-ID header, else the query parameter.
requestCursor == IF page.header # Start THEN page.header ELSE page.url

\* The handler starts: it parses the cursor and reads the task.
Connect ==
  /\ page.source = "connecting" /\ handler.pc = "none"
  /\ handler' = [pc |-> "drain", cursor |-> requestCursor,
                 status |-> Row1.status, wrote |-> FALSE]
  /\ page' = [page EXCEPT !.source = "open"]
  /\ UNCHANGED <<tasks, wire, drops>>

\* One batch of streamDrain; a full batch is followed by another.
Drain ==
  /\ handler.pc = "drain"
  /\ \E events \in EventsAfter(handler.cursor, BatchLimit) :
       LET n == Len(events)
       IN /\ wire' = wire \o [k \in 1..n |-> Frame(events[k])]
          /\ handler' = [handler EXCEPT
                           !.cursor = IF n = 0 THEN @ ELSE events[n],
                           !.wrote = @ \/ n > 0,
                           !.pc = IF n < BatchLimit THEN "drained" ELSE "drain"]
  /\ UNCHANGED <<tasks, page, drops>>

\* Mutant of RoundEnds: the task is read after the drain, not before.
RoundEndsLate ==
  /\ handler.pc = "drained"
  /\ IF Terminal(Row1.status) /\ ~handler.wrote
     THEN /\ wire' = Append(wire, DoneFrame(Row1.status))
          /\ handler' = [handler EXCEPT !.pc = "returned"]
     ELSE /\ handler' = [handler EXCEPT !.pc = "wait"]
          /\ UNCHANGED wire
  /\ UNCHANGED <<tasks, page, drops>>

\* A terminal task whose round wrote nothing is done; else wait for a tick.
RoundEnds ==
  /\ handler.pc = "drained"
  /\ IF Terminal(handler.status) /\ ~handler.wrote
     THEN /\ wire' = Append(wire, DoneFrame(handler.status))
          /\ handler' = [handler EXCEPT !.pc = "returned"]
     ELSE /\ handler' = [handler EXCEPT !.pc = "wait"]
          /\ UNCHANGED wire
  /\ UNCHANGED <<tasks, page, drops>>

\* A poll or heartbeat tick: the task is read again and the next round starts.
Tick ==
  /\ handler.pc = "wait"
  /\ handler' = [handler EXCEPT !.pc = "drain", !.status = Row1.status, !.wrote = FALSE]
  /\ UNCHANGED <<tasks, wire, page, drops>>

\* The connection breaks, or the handler gives up on a failed call or write:
\* what was written and not received is lost.  The browser tries again by
\* itself, or gives up.
Drop ==
  /\ page.source = "open" /\ drops < MaxDrops
  /\ drops' = drops + 1
  /\ handler' = NoRequest /\ wire' = << >>
  /\ \E s \in {"connecting", "gave_up"} : page' = [page EXCEPT !.source = s]
  /\ UNCHANGED tasks

-----------------------------------------------------------------------------
(* The page.                                                               *)

\* The cursor the page keeps itself: that of the last event it was given.
LastCursor ==
  IF page.header # Start THEN page.header ELSE page.url

\* onmessage, and the done listener, which closes the EventSource.
Receive ==
  /\ page.source = "open" /\ wire # << >>
  /\ LET frame == Head(wire)
     IN IF frame.done # "none"
        THEN /\ page' = [page EXCEPT !.source = "closed", !.final = frame.done]
             /\ handler' = NoRequest /\ wire' = << >>
        ELSE /\ page' = [page EXCEPT !.header = frame.at, !.shown = @ \cup {frame.at}]
             /\ wire' = Tail(wire)
             /\ UNCHANGED handler
  /\ UNCHANGED <<tasks, drops>>

\* Mutant of Reopen: the page leaves reconnecting to the browser.
NoReopen == FALSE /\ UNCHANGED allVars

\* The browser gave up: after a delay a new EventSource is opened from the
\* page's own cursor; it has no Last-Event-ID of its own.
Reopen ==
  /\ page.source = "gave_up"
  /\ page' = [page EXCEPT !.source = "connecting", !.url = LastCursor, !.header = Start]
  /\ UNCHANGED <<tasks, handler, wire, drops>>

StreamNext ==
  \/ StatusChanges \/ EventAppended
  \/ Connect \/ Drain \/ RoundEnds \/ Tick \/ Drop
  \/ Receive \/ Reopen

\* The handler's loop, the network and the browser go on; nothing is assumed of
\* the store or of the network's faults.
Fairness ==
  /\ WF_allVars(Connect) /\ WF_allVars(Drain) /\ WF_allVars(RoundEnds)
  /\ WF_allVars(Tick) /\ WF_allVars(Receive) /\ WF_allVars(Reopen)

StreamSpec == StreamInit /\ [][StreamNext]_allVars /\ Fairness

-----------------------------------------------------------------------------
(* Properties.                                                             *)

\* An event is late when the timeline had moved on to a newer attempt before it
\* was appended to its own.
Late(i) == \E j \in 1..(i - 1) : Position(j)[1] > Position(i)[1]

\* task/store.go, EventsAfter, with stream.go, streamDrain: whatever the page
\* has been shown last, it was shown every event up to there, across batches,
\* broken connections and revisions.  Only an event that is appended to an
\* attempt after a newer one has begun may be missed.
NothingSkipped ==
  \A i \in DOMAIN Row1.log :
    \/ Position(i) \in page.shown
    \/ Before(LastCursor, Position(i))
    \/ Late(i)

\* stream.go, handleTaskStream: done is sent by a round that read a terminal
\* status first and then found nothing new, so a page that was told the task is
\* done shows every status change of it and the status it ended in.
DoneMeansComplete ==
  page.source = "closed" =>
    /\ page.final = Row1.status
    /\ \A i \in DOMAIN Row1.log :
         Row1.log[i].type \in AllStatuses => Position(i) \in page.shown

\* stream.go, handleTaskStream, with useTaskStream.ts: once the task is finished
\* every open page learns of it, however often its connection broke.
PageLearnsTheEnd == Terminal(Row1.status) ~> page.source = "closed"
=============================================================================
