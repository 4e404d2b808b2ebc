------------------------------ MODULE TaskRow -------------------------------
(***************************************************************************)
(* One task as PostgreSQL holds it, and what each transaction of           *)
(* apps/api/internal/task/store.go writes to it: the tasks row, its        *)
(* task_attempts rows and its activity_events rows.  Every operation of    *)
(* the store first takes the row lock of the one task it touches, so a     *)
(* committed transaction is a function from a row to a row; the functions  *)
(* are here, and the modules that share tasks apply them.                  *)
(*                                                                         *)
(* An attempt is identified by its position in r.attempts (its primary     *)
(* key); attempt_number is a column.  r.log is activity_events in commit   *)
(* order.  A timestamp column is 0 while NULL and 1 once written.          *)
(***************************************************************************)
EXTENDS Integers, Sequences, FiniteSetsExt, TaskStatus

CONSTANTS
  NoKey,      \* the empty idempotency key
  NoIssue,    \* source_issue_number IS NULL
  NoValue     \* any other NULL column

\* An activity_events row.  A transition event has type TransitionEventType(to),
\* written here as the status itself; every other type is a "note".
Event(a, seq, from, type, key) ==
  [attempt |-> a, seq |-> seq, from |-> from, type |-> type, key |-> key]

\* A task_attempts row as insertRevisionAttempt and Create insert it.
NewAttempt(number, comment, base) ==
  [number |-> number, status |-> "active", comment |-> comment, base |-> base,
   startedAt |-> 0, checkRun |-> NoValue, checkRunCompletedAt |-> 0]

-----------------------------------------------------------------------------
(* Reading a row.                                                          *)

ActiveAttempts(r) == {a \in DOMAIN r.attempts : r.attempts[a].status = "active"}

\* SELECT id FROM task_attempts WHERE task_id = $1 AND status = 'active'.
ActiveAttempt(r) == CHOOSE a \in ActiveAttempts(r) : TRUE

\* Mutant of KeySeen: only the active attempt's events are searched.
KeySeenOnActive(r, key) ==
  key # NoKey /\ \E i \in DOMAIN r.log :
    r.log[i].key = key /\ r.log[i].attempt \in ActiveAttempts(r)

\* SELECT EXISTS (... idempotency_key = $2), over every attempt of the task.
KeySeen(r, key) == key # NoKey /\ \E i \in DOMAIN r.log : r.log[i].key = key

SequenceNumbers(log, a) ==
  {log[i].seq : i \in {j \in DOMAIN log : log[j].attempt = a}}

-----------------------------------------------------------------------------
(* Writing a row.                                                          *)

\* Mutant of insertEvent: numbered over the task, not the attempt.
insertEventPerTask(r, a, from, type, key) ==
  [r EXCEPT !.log = Append(r.log, Event(a, Len(r.log) + 1, from, type, key))]

\* COALESCE(MAX(sequence_number), 0) + 1 over the events of the attempt.
insertEvent(r, a, from, type, key) ==
  LET seq == Max(SequenceNumbers(r.log, a) \cup {0}) + 1
  IN [r EXCEPT !.log = Append(r.log, Event(a, seq, from, type, key))]

\* TransitionParams: status to reach, idempotency key, version the caller read
\* (0: it does not care), and for a revision the new attempt's columns.
Params(to, key, expect) ==
  [to |-> to, key |-> key, expect |-> expect,
   comment |-> NoValue, base |-> NoValue]

RevisionParams(comment, base) ==
  [to |-> "queued", key |-> NoKey, expect |-> 0,
   comment |-> comment, base |-> base]

\* What applyTransition answers; only "applied" writes.
TransitionOutcome(r, p) ==
  IF KeySeen(r, p.key) THEN "replayed"
  ELSE IF p.expect \notin {0, r.version} THEN "version_conflict"
  ELSE IF ~CanTransition(r.status, p.to) THEN "invalid_transition"
  ELSE IF ActiveAttempts(r) = {} THEN "no_active_attempt"
  ELSE "applied"

\* Mutant of MoveAttempts: the old attempt of a revision stays active.
MoveAttemptsNotSuperseding(r, p, a) ==
  IF Terminal(p.to)
  THEN [r.attempts EXCEPT ![a].status = p.to]
  ELSE IF r.status = "revision_requested" /\ p.to = "queued"
  THEN Append(r.attempts,
              NewAttempt(r.attempts[a].number + 1, p.comment, p.base))
  ELSE r.attempts

\* Finish the attempt, supersede it and insert its successor, or start it.
MoveAttempts(r, p, a) ==
  IF Terminal(p.to)
  THEN [r.attempts EXCEPT ![a].status = p.to]
  ELSE IF r.status = "revision_requested" /\ p.to = "queued"
  THEN Append([r.attempts EXCEPT ![a].status = "superseded"],
              NewAttempt(r.attempts[a].number + 1, p.comment, p.base))
  ELSE IF p.to = "provisioning"
  THEN [r.attempts EXCEPT ![a].startedAt = 1]
  ELSE r.attempts

\* The attempt the transition's event is filed under.
EventAttempt(r, p, a) ==
  IF r.status = "revision_requested" /\ p.to = "queued"
  THEN Len(r.attempts) + 1 ELSE a

\* Mutant of applyTransition: the event reads its from status after the update.
applyTransitionLateFrom(r, p) ==
  LET a == ActiveAttempt(r)
      moved == [r EXCEPT !.status = p.to, !.version = @ + 1,
                         !.attempts = MoveAttempts(r, p, a)]
  IN insertEvent(moved, EventAttempt(r, p, a), moved.status, p.to, p.key)

\* The row applyTransition leaves when its outcome is "applied".
applyTransition(r, p) ==
  LET a == ActiveAttempt(r)
      moved == [r EXCEPT
                  !.status = p.to,
                  !.version = @ + 1,
                  !.startedAt = IF p.to = "provisioning" THEN 1 ELSE @,
                  !.attempts = MoveAttempts(r, p, a)]
  IN insertEvent(moved, EventAttempt(r, p, a), r.status, p.to, p.key)

\* The row before Create's transaction moves it to queued: the tasks row with
\* its defaults, attempt 1 and the task.created event.
InsertedRow(issue, comment) ==
  LET bare == [status |-> "created", version |-> 1, issue |-> issue,
               base |-> NoValue, branch |-> NoValue, startedAt |-> 0,
               attempts |-> <<NewAttempt(1, comment, NoValue)>>, log |-> <<>>]
  IN insertEvent(bare, 1, "none", "created", NoKey)

\* Create, as one transaction.
CreatedRow(issue, comment) ==
  applyTransition(InsertedRow(issue, comment), Params("queued", NoKey, 0))

\* Mutant of RevisionOutcome: off by one at the limit.
RevisionOutcomeOffByOne(r, maxAttempts, key) ==
  IF KeySeen(r, key) THEN "replayed"
  ELSE IF Len(r.attempts) > maxAttempts THEN "revision_limit"
  ELSE TransitionOutcome(r, Params("revision_requested", key, 0))

\* Mutant of RevisionOutcome: the replay check comes after the other guards.
RevisionOutcomeReplayLast(r, maxAttempts, key) ==
  IF Len(r.attempts) >= maxAttempts THEN "revision_limit"
  ELSE IF ~CanTransition(r.status, "revision_requested") THEN "invalid_transition"
  ELSE TransitionOutcome(r, Params("revision_requested", key, 0))

\* RequestRevision: the replay check, the limit and both transitions share one
\* row lock and one transaction.
RevisionOutcome(r, maxAttempts, key) ==
  IF KeySeen(r, key) THEN "replayed"
  ELSE IF Len(r.attempts) >= maxAttempts THEN "revision_limit"
  ELSE TransitionOutcome(r, Params("revision_requested", key, 0))

RevisedRow(r, key, comment, base) ==
  applyTransition(applyTransition(r, Params("revision_requested", key, 0)),
                  RevisionParams(comment, base))

\* EnsureGitContext: first writer wins, in any status.
EnsuredRow(r, base, branch) ==
  [r EXCEPT !.base    = IF @ = NoValue THEN base ELSE @,
            !.branch  = IF @ = NoValue THEN branch ELSE @,
            !.version = @ + 1]

\* RecordAttemptBase: first writer wins, on any attempt.
AttemptBaseRow(r, a, base) ==
  [r EXCEPT !.attempts[a].base = IF @ = NoValue THEN base ELSE @]

\* RecordTriggerCheckRun: first writer wins on whatever attempt is active now.
CheckRunRow(r, id) ==
  [r EXCEPT !.attempts = [a \in DOMAIN r.attempts |->
     IF r.attempts[a].status = "active" /\ r.attempts[a].checkRun = NoValue
     THEN [r.attempts[a] EXCEPT !.checkRun = id] ELSE r.attempts[a]]]

\* MarkTriggerCheckRunCompleted, of one attempt in any status.
CheckRunDoneRow(r, a) ==
  [r EXCEPT !.attempts[a].checkRunCompletedAt =
     IF r.attempts[a].checkRun # NoValue THEN 1 ELSE @]
=============================================================================
