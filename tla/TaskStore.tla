----------------------------- MODULE TaskStore ------------------------------
(***************************************************************************)
(* The task store: every operation of apps/api/internal/task/store.go that *)
(* commits, and RecordAttemptBase of runner/store.go, as one atomic step   *)
(* on the tasks it has created.  An operation that is refused rolls its    *)
(* transaction back and is a stuttering step.                              *)
(* The callers are unconstrained: the HTTP API, the webhook processor and  *)
(* any number of runners may issue any operation at any time.              *)
(***************************************************************************)
EXTENDS TaskRow

CONSTANTS
  TaskIds,    \* primary keys of tasks
  Issues,     \* (repository, issue number) pairs
  Keys,       \* idempotency keys
  Values,     \* comment ids, commit ids, branches and check run ids
  MaxAttempts \* the repository's revision limit

ASSUME ConstantsAssumption ==
  /\ NoIssue \notin Issues
  /\ NoKey \notin Keys
  /\ NoValue \notin Values
  /\ MaxAttempts \in Nat \ {0}

VARIABLE tasks   \* the created tasks, by id

vars == <<tasks>>

AttemptStatuses == {"active", "superseded"} \cup PhaseTerminal

Attempt ==
  [number : Nat, status : AttemptStatuses, comment : Values \cup {NoValue},
   base : Values \cup {NoValue}, startedAt : {0, 1},
   checkRun : Values \cup {NoValue}, checkRunCompletedAt : {0, 1}]

ActivityEvent ==
  [attempt : Nat, seq : Nat, from : AllStatuses \cup {"none"},
   type : AllStatuses \cup {"note"}, key : Keys \cup {NoKey}]

Row ==
  [status : AllStatuses, version : Nat, issue : Issues \cup {NoIssue},
   base : Values \cup {NoValue}, branch : Values \cup {NoValue},
   startedAt : {0, 1}, attempts : Seq(Attempt), log : Seq(ActivityEvent)]

-----------------------------------------------------------------------------
Init == tasks = << >>

\* Mutant of IssueFree: the index leaves pending tasks out.
IssueFreeOfRunning(issue) ==
  issue = NoIssue \/ \A t \in DOMAIN tasks :
    tasks[t].issue = issue => tasks[t].status \notin PhaseRunning \cup PhaseReview

\* tasks_one_active_per_issue_idx: no other non-terminal task of this issue.
IssueFree(issue) ==
  issue = NoIssue \/ \A t \in DOMAIN tasks :
    tasks[t].issue = issue => Terminal(tasks[t].status)

\* Commit the new state r of task t.
Put(t, r) ==
  tasks' = [u \in DOMAIN tasks \cup {t} |-> IF u = t THEN r ELSE tasks[u]]

Create(t, issue, comment) ==
  /\ t \notin DOMAIN tasks
  /\ IssueFree(issue)
  /\ Put(t, CreatedRow(issue, comment))

Transition(t, to, key, expect) ==
  /\ TransitionOutcome(tasks[t], Params(to, key, expect)) = "applied"
  /\ Put(t, applyTransition(tasks[t], Params(to, key, expect)))

RequestRevision(t, key, comment, base) ==
  /\ RevisionOutcome(tasks[t], MaxAttempts, key) = "applied"
  /\ Put(t, RevisedRow(tasks[t], key, comment, base))

\* Mutant of Cancel: the status is written without asking the status machine.
CancelUnchecked(t) ==
  /\ tasks[t].status # "cancelled"
  /\ Put(t, [tasks[t] EXCEPT !.status = "cancelled", !.version = @ + 1])

\* An already cancelled task answers without writing.
Cancel(t) ==
  /\ tasks[t].status # "cancelled"
  /\ TransitionOutcome(tasks[t], Params("cancelled", NoKey, 0)) = "applied"
  /\ Put(t, applyTransition(tasks[t], Params("cancelled", NoKey, 0)))

EnsureGitContext(t, base, branch) == Put(t, EnsuredRow(tasks[t], base, branch))

RecordAttemptBase(t, a, base) ==
  /\ a \in DOMAIN tasks[t].attempts
  /\ Put(t, AttemptBaseRow(tasks[t], a, base))

\* Any attempt, superseded and finished ones included.
AppendAttemptEvent(t, a) ==
  /\ a \in DOMAIN tasks[t].attempts
  /\ Put(t, insertEvent(tasks[t], a, "none", "note", NoKey))

AppendEvent(t) ==
  /\ ActiveAttempts(tasks[t]) # {}
  /\ Put(t, insertEvent(tasks[t], ActiveAttempt(tasks[t]),
                        "none", "note", NoKey))

RecordTriggerCheckRun(t, id) ==
  /\ ActiveAttempts(tasks[t]) # {}
  /\ Put(t, CheckRunRow(tasks[t], id))

MarkTriggerCheckRunCompleted(t, a) ==
  /\ a \in DOMAIN tasks[t].attempts
  /\ Put(t, CheckRunDoneRow(tasks[t], a))

Next ==
  \/ \E t \in TaskIds, issue \in Issues \cup {NoIssue},
        comment \in Values \cup {NoValue} : Create(t, issue, comment)
  \/ \E t \in DOMAIN tasks :
       \/ \E to \in AllStatuses, key \in Keys \cup {NoKey},
             expect \in {0, tasks[t].version, tasks[t].version - 1} :
            Transition(t, to, key, expect)
       \/ \E key \in Keys, comment \in Values, base \in Values :
            RequestRevision(t, key, comment, base)
       \/ Cancel(t)
       \/ \E base \in Values, branch \in Values :
            EnsureGitContext(t, base, branch)
       \/ \E a \in DOMAIN tasks[t].attempts, base \in Values :
            RecordAttemptBase(t, a, base)
       \/ \E a \in DOMAIN tasks[t].attempts : AppendAttemptEvent(t, a)
       \/ AppendEvent(t)
       \/ \E id \in Values : RecordTriggerCheckRun(t, id)
       \/ \E a \in DOMAIN tasks[t].attempts : MarkTriggerCheckRunCompleted(t, a)

Spec == Init /\ [][Next]_vars
-----------------------------------------------------------------------------
(* What a single row must always look like.                                *)

\* Indices of the status events of r, task.created included.
StatusEvents(r) == {i \in DOMAIN r.log : r.log[i].type \in AllStatuses}

\* The newest attempt is the only one that can be active; it is active exactly
\* while the task is not terminal and ends in the task's own terminal status;
\* every older attempt was superseded, and attempt_number counts them.
AttemptsOK(r) ==
  LET n == Len(r.attempts)
  IN /\ n >= 1
     /\ \A a \in 1..n : r.attempts[a].number = a
     /\ \A a \in 1..(n - 1) : r.attempts[a].status = "superseded"
     /\ r.attempts[n].status = IF Terminal(r.status) THEN r.status ELSE "active"

\* Sequence numbers of an attempt are 1, 2, 3 ... in commit order.
SequencesOK(r) ==
  /\ \A i \in DOMAIN r.log : r.log[i].attempt \in DOMAIN r.attempts
  /\ \A a \in DOMAIN r.attempts :
       \E n \in 0..Len(r.log) : SequenceNumbers(r.log, a) = 1..n
  /\ \A i, j \in DOMAIN r.log :
       i < j /\ r.log[i].attempt = r.log[j].attempt
         => r.log[i].seq < r.log[j].seq

\* No idempotency key is applied twice to a task.
KeysOK(r) ==
  \A i, j \in DOMAIN r.log :
    i # j /\ r.log[i].key # NoKey => r.log[i].key # r.log[j].key

\* The timeline replays to the row: each status event starts where the one
\* before it ended, along an edge of the status machine, and the last one is
\* the status of the row.
ReplayOK(r) ==
  /\ \E i \in StatusEvents(r) :
       /\ r.log[i].type = r.status
       /\ \A j \in StatusEvents(r) : j <= i
  /\ \A j \in StatusEvents(r) : j # 1 =>
       /\ CanTransition(r.log[j].from, r.log[j].type)
       /\ \E i \in StatusEvents(r) :
            /\ i < j
            /\ r.log[i].type = r.log[j].from
            /\ \A k \in StatusEvents(r) : ~(i < k /\ k < j)

\* Reading the timeline by (attempt_number, sequence_number), as Events and
\* EventsAfter do, gives the status events in the order they were committed.
TimelineOK(r) ==
  \A i, j \in StatusEvents(r) : i < j =>
    \/ r.log[i].attempt < r.log[j].attempt
    \/ r.log[i].attempt = r.log[j].attempt /\ r.log[i].seq < r.log[j].seq

\* An attempt enters a status at most once, so a key built from an attempt and
\* a status names one transition.
StatusOncePerAttempt(r) ==
  \A i, j \in StatusEvents(r) :
    i # j /\ r.log[i].attempt = r.log[j].attempt
      => r.log[i].type # r.log[j].type

\* The attempts RequestRevision inserted: they carry the comment that asked.
RevisionAttempts(r) ==
  {a \in DOMAIN r.attempts : a # 1 /\ r.attempts[a].comment # NoValue}

-----------------------------------------------------------------------------
(* Invariants.                                                             *)

\* Rows, attempts and events have the columns the migrations declare.
TypeOK ==
  /\ DOMAIN tasks \subseteq TaskIds
  /\ tasks \in [DOMAIN tasks -> Row]

\* task/store.go, applyTransition: a terminal transition closes the active
\* attempt and a revision supersedes it, so exactly the newest attempt of a live
\* task is active and no attempt of a finished task is.
OneActiveAttempt == \A t \in DOMAIN tasks : AttemptsOK(tasks[t])

\* task/store.go, insertEvent: MAX + 1 under the row lock numbers the events of
\* every attempt without a gap or a duplicate, whoever appends.
SequencesContiguous == \A t \in DOMAIN tasks : SequencesOK(tasks[t])

\* task/store.go, applyTransition and RequestRevision: a replayed command or
\* transition is recognised on every attempt of the task, not only the newest.
KeysAppliedOnce == \A t \in DOMAIN tasks : KeysOK(tasks[t])

\* task/store.go, applyTransition: the row and its event are one transaction, so
\* the append-only timeline always replays to the row's status.
TimelineReplays == \A t \in DOMAIN tasks : ReplayOK(tasks[t])

\* task/store.go, Events and EventsAfter order by attempt and sequence number;
\* that order is chronological for status changes across revisions.
TimelineChronological == \A t \in DOMAIN tasks : TimelineOK(tasks[t])

\* runner/executor.go keys transitions by attempt and status: no attempt ever
\* enters the same status twice.
StatusOnce == \A t \in DOMAIN tasks : StatusOncePerAttempt(tasks[t])

\* tasks_one_active_per_issue_idx with a status machine that never leaves a
\* terminal status: an issue has at most one unfinished task.
OneActiveTaskPerIssue ==
  \A t, u \in DOMAIN tasks :
    /\ t # u
    /\ tasks[t].issue # NoIssue
    /\ tasks[t].issue = tasks[u].issue
    => Terminal(tasks[t].status) \/ Terminal(tasks[u].status)

\* RequestRevision checks the limit under the lock it inserts under, so
\* concurrent revise commands never take a task past MaxAttempts.
RevisionLimit ==
  \A t \in DOMAIN tasks : Cardinality(RevisionAttempts(tasks[t])) < MaxAttempts

-----------------------------------------------------------------------------
(* Action properties.                                                      *)

\* What may happen to a finished task: its status and its attempts' statuses
\* never change again, whatever is still in flight against it.
FinishedStays(r, s) ==
  Terminal(r.status) =>
    /\ s.status = r.status
    /\ Len(s.attempts) = Len(r.attempts)
    /\ \A a \in DOMAIN r.attempts : s.attempts[a].status = r.attempts[a].status

\* task/status.go, CanTransition: a terminal status is final, and with it the
\* outcome of every attempt.
TerminalFinal ==
  [][\A t \in DOMAIN tasks :
       t \in DOMAIN tasks' /\ FinishedStays(tasks[t], tasks'[t])]_vars

\* activity_events is append-only: no operation rewrites or drops an event, and
\* one transaction that changes the status appends the event that says so.
AppendOnly(r, s) ==
  /\ Len(s.log) >= Len(r.log)
  /\ \A i \in DOMAIN r.log : s.log[i] = r.log[i]
  /\ s.status # r.status => /\ Len(s.log) > Len(r.log)
                            /\ s.version > r.version

\* The timeline only grows, and a status change is never silent: readers that
\* poll by version or by cursor both see it.
TimelineAppendOnly ==
  [][\A t \in DOMAIN tasks : AppendOnly(tasks[t], tasks'[t])]_vars

\* First writer wins for the git context of a task and the base and trigger
\* check run of an attempt: later owners keep what they find.
FirstWriterWins(r, s) ==
  /\ r.base # NoValue => s.base = r.base
  /\ r.branch # NoValue => s.branch = r.branch
  /\ \A a \in DOMAIN r.attempts :
       /\ r.attempts[a].base # NoValue =>
            s.attempts[a].base = r.attempts[a].base
       /\ r.attempts[a].checkRun # NoValue =>
            s.attempts[a].checkRun = r.attempts[a].checkRun

\* EnsureGitContext, RecordAttemptBase and RecordTriggerCheckRun are COALESCE
\* updates: a recovered or delayed writer never replaces what is recorded.
GitContextStable ==
  [][\A t \in DOMAIN tasks : FirstWriterWins(tasks[t], tasks'[t])]_vars
=============================================================================
