-------------------------- MODULE AttemptExecutor ---------------------------
(***************************************************************************)
(* Runners driving attempts through the task store, under leases:          *)
(* apps/api/internal/runner/executor.go (Execute, drive, runAgentStages,   *)
(* transition, failTask, timeoutTask, the heartbeat and the cancellation   *)
(* watcher), runner/store.go (claim, ExtendLease, ReleaseLease) and the    *)
(* callers that move a task meanwhile (HTTP cancel, revise command, closed *)
(* pull request).                                                          *)
(*                                                                         *)
(* Each database call of a runner is a step of its own.  A lease is live   *)
(* until ExpireLease; real time appears only there and in DeadlinePasses.  *)
(* Faults (a failed call, a lost acknowledgement, a crash, a shutdown, a   *)
(* lease that expires under a running owner) draw on a budget.             *)
(***************************************************************************)
EXTENDS TaskRow

CONSTANTS
  TaskIds, Issues, Keys, Values, MaxAttempts, \* as in TaskStore
  Runners,
  NoRunner,
  LocalTasks,   \* the tasks without a repository
  Configured,   \* this deployment can publish
  FenceCovers,  \* an operation ends before the lease its fence renewed does
  MaxTasks,     \* bound on created tasks
  MaxFaults,    \* bound on faults
  MaxOverdue,   \* bound on attempts that exceed their runtime
  MaxCommands,  \* bound on cancel, revise and pull request commands
  MaxNotes      \* bound on the stage events kept in a task's timeline

ASSUME ExecutorAssumption ==
  /\ NoRunner \notin Runners
  /\ LocalTasks \subseteq TaskIds
  /\ Configured \in BOOLEAN
  /\ FenceCovers \in BOOLEAN
  /\ MaxTasks \in Nat /\ MaxFaults \in Nat /\ MaxOverdue \in Nat /\ MaxCommands \in Nat
  /\ MaxNotes \in Nat
  /\ MaxAttempts \in Nat \ {0}
  /\ NoValue \notin Values

VARIABLES
  tasks,      \* the task store
  leases,     \* lease_owner and whether lease_expires_at is still ahead
  exec,       \* what each runner process is doing
  overdue,    \* attempts whose runtime limit has passed
  evidence,   \* attempts with an evidence report
  published,  \* attempts whose pull request is open
  faults, commands

vars == <<tasks, leases, exec, overdue, evidence, published, faults, commands>>

AttemptIds == TaskIds \X (1..MaxAttempts)

\* A runner keys a transition by the attempt it claimed and the status.
RunnerKeys ==
  AttemptIds \X ((PhaseRunning \cup PhaseTerminal \cup {"awaiting_review"})
                  \ {"cancelled"})

ASSUME NoKeyAssumption == NoKey \notin Keys \cup RunnerKeys

Store == INSTANCE TaskStore WITH Keys <- Keys \cup RunnerKeys

NoLease == [owner |-> NoRunner, live |-> FALSE]

Idle == [pc |-> "idle", at |-> <<>>, status |-> "none", to |-> "none",
         ws |-> "none", cause |-> "none", lost |-> FALSE, err |-> "none"]

Init ==
  /\ tasks = << >>
  /\ leases = [x \in AttemptIds |-> NoLease]
  /\ exec = [r \in Runners |-> Idle]
  /\ overdue = {} /\ evidence = {} /\ published = {}
  /\ faults = 0 /\ commands = 0

HasRepository(t) == t \notin LocalTasks

\* pub # nil in drive: the attempts of t are published to GitHub.
Publishes(t) == HasRepository(t) /\ Configured

-----------------------------------------------------------------------------
(* The other callers of the store.                                         *)

env == <<leases, exec, overdue, evidence, published, faults>>

CreateTask(t) ==
  /\ Cardinality(DOMAIN tasks) < MaxTasks
  /\ Store!Create(t, NoIssue, NoValue)
  /\ UNCHANGED <<env, commands>>

Command == commands < MaxCommands /\ commands' = commands + 1

ApiCancel(t) == Command /\ Store!Cancel(t) /\ UNCHANGED env

Revise(t, key) ==
  /\ Command
  /\ HasRepository(t)
  /\ \E v \in Values : Store!RequestRevision(t, key, v, v)
  /\ UNCHANGED env

\* A merged or closed pull request moves a task in review; its lookup and its
\* transition are one step here.  Both targets are terminal, so the delivery's
\* idempotency key never decides the outcome.
PullRequestClosed(t, to) ==
  /\ Command
  /\ Publishes(t)
  /\ tasks[t].status \in PhaseReview
  /\ Store!Transition(t, to, NoKey, 0)
  /\ UNCHANGED env

-----------------------------------------------------------------------------
(* Leases and time.                                                        *)

Fault == faults < MaxFaults /\ faults' = faults + 1

Holds(r, x) == leases[x] = [owner |-> r, live |-> TRUE]

\* Mutant of Claimable: a repositoryless task in review is not recovered.
ClaimableBeforeReview(t) == tasks[t].status \in {"queued"} \cup PhaseRunning

\* What claimableWhere admits.
Claimable(t) ==
  \/ tasks[t].status \in {"queued"} \cup PhaseRunning
  \/ tasks[t].status = "awaiting_review" /\ ~HasRepository(t)

Executing(r) == exec[r].pc # "idle"

\* A runner between a fence and the commit it protects.
Committing(r) == exec[r].pc \in {"commit", "timeout_read", "timeout_commit"}

Attended(x) == \E r \in Runners : Executing(r) /\ exec[r].at = x
                                  /\ leases[x].owner = r

\* lease_expires_at passes and nobody renews the lease.
ExpireLease(x) ==
  /\ leases[x].live /\ ~Attended(x)
  /\ leases' = [leases EXCEPT ![x].live = FALSE]
  /\ UNCHANGED <<tasks, exec, overdue, evidence, published, faults, commands>>

\* It passes under a running owner whose heartbeats are late by a whole lease;
\* if FenceCovers, not in the middle of a fenced operation.
LeaseLapses(x) ==
  /\ leases[x].live /\ Attended(x) /\ Fault
  /\ FenceCovers => ~Committing(leases[x].owner)
  /\ leases' = [leases EXCEPT ![x].live = FALSE]
  /\ UNCHANGED <<tasks, exec, overdue, evidence, published, commands>>

\* started_at plus the runtime limit is behind us.
DeadlinePasses(x) ==
  /\ Cardinality(overdue) < MaxOverdue
  /\ x[1] \in DOMAIN tasks /\ x[2] \in DOMAIN tasks[x[1]].attempts
  /\ tasks[x[1]].attempts[x[2]].startedAt = 1
  /\ overdue' = overdue \cup {x}
  /\ UNCHANGED <<tasks, leases, exec, evidence, published, faults, commands>>

-----------------------------------------------------------------------------
(* A runner process.                                                       *)

db == <<tasks, leases, overdue, evidence, published, commands>>

\* The local state of r after a step.
Goto(r, e) == exec' = [exec EXCEPT ![r] = e]

\* Mutant of Claim: the lease of an attempt that is publishing is not looked at.
ClaimPublishing(r, t) ==
  LET a == ActiveAttempt(tasks[t])
  IN /\ exec[r].pc = "idle"
     /\ ActiveAttempts(tasks[t]) # {}
     /\ ~leases[<<t, a>>].live \/ tasks[t].status = "publishing"
     /\ Claimable(t)
     /\ leases' = [leases EXCEPT ![<<t, a>>] = [owner |-> r, live |-> TRUE]]
     /\ Goto(r, [Idle EXCEPT !.pc = "claimed", !.at = <<t, a>>,
                             !.status = tasks[t].status])
     /\ UNCHANGED <<tasks, overdue, evidence, published, faults, commands>>

\* claim: an active attempt of a claimable task whose lease is free; the task
\* status is a snapshot the runner keeps.
Claim(r, t) ==
  LET a == ActiveAttempt(tasks[t])
  IN /\ exec[r].pc = "idle"
     /\ ActiveAttempts(tasks[t]) # {}
     /\ ~leases[<<t, a>>].live
     /\ Claimable(t)
     /\ leases' = [leases EXCEPT ![<<t, a>>] = [owner |-> r, live |-> TRUE]]
     /\ Goto(r, [Idle EXCEPT !.pc = "claimed", !.at = <<t, a>>,
                             !.status = tasks[t].status])
     /\ UNCHANGED <<tasks, overdue, evidence, published, faults, commands>>

\* Execute up to drive: fence, then derive the deadline.  The context of an
\* attempt that is already overdue is done from the start.
Start(r) ==
  /\ exec[r].pc = "claimed"
  /\ IF Holds(r, exec[r].at)
     THEN Goto(r, [exec[r] EXCEPT !.pc = "work",
                     !.cause = IF exec[r].at \in overdue THEN "deadline" ELSE "none"])
     ELSE Goto(r, Idle)
  /\ UNCHANGED <<db, faults>>

\* The fence fails (the lease stays until it expires) or the deadline cannot be
\* read (it is released).
StartFails(r) ==
  /\ exec[r].pc = "claimed"
  /\ Fault
  /\ Goto(r, Idle)
  /\ \/ UNCHANGED leases
     \/ /\ leases[exec[r].at].owner = r
        /\ leases' = [leases EXCEPT ![exec[r].at] = NoLease]
  /\ UNCHANGED <<tasks, overdue, evidence, published, commands>>

\* The transition drive attempts from a local status.
NextStatus(s) ==
  CASE s = "queued"          -> "provisioning"
    [] s = "provisioning"    -> "planning"
    [] s = "planning"        -> "executing"
    [] s = "executing"       -> "validating"
    [] s = "validating"      -> "publishing"
    [] s = "publishing"      -> "awaiting_review"
    [] s = "awaiting_review" -> "completed"

AgentStages == {"provisioning", "planning", "executing"}

\* drive has nothing left to do: e is the local state of a runner.
DriveDone(e) ==
  e.status = "completed" \/ (e.status = "awaiting_review" /\ Publishes(e.at[1]))

\* provisionWorkspace: the first owner records base and branch; a revision
\* attempt works on the recorded branch.
Provision(r) ==
  LET t == exec[r].at[1]
  IN /\ exec[r].pc = "work" /\ exec[r].cause = "none"
     /\ exec[r].status \in AgentStages /\ exec[r].ws = "none"
     /\ \/ /\ Publishes(t) /\ exec[r].at[2] = 1
           /\ \E v \in Values : Store!EnsureGitContext(t, v, v)
           /\ Goto(r, [exec[r] EXCEPT !.ws = "context"])
        \/ /\ ~(Publishes(t) /\ exec[r].at[2] = 1)
           /\ Goto(r, [exec[r] EXCEPT !.ws = "ready"])
           /\ UNCHANGED tasks
     /\ UNCHANGED <<leases, overdue, evidence, published, faults, commands>>

\* RecordAttemptBase with the base EnsureGitContext answered.
RecordBase(r) ==
  LET t == exec[r].at[1]
  IN /\ exec[r].pc = "work" /\ exec[r].cause = "none"
     /\ exec[r].ws = "context"
     /\ Store!RecordAttemptBase(t, exec[r].at[2], tasks[t].base)
     /\ Goto(r, [exec[r] EXCEPT !.ws = "ready"])
     /\ UNCHANGED <<leases, overdue, evidence, published, faults, commands>>

Notes(r) == {i \in DOMAIN r.log : r.log[i].type = "note"}

\* The activity events of a stage, as one event of the attempt; the stage that
\* starts an attempt and the one that completes it append none.  No step reads
\* them, so those past MaxNotes are left out.
StageEvents(r) ==
  LET t == exec[r].at[1]
  IN IF exec[r].status \notin {"queued", "awaiting_review"}
          /\ Cardinality(Notes(tasks[t])) < MaxNotes
     THEN Store!AppendAttemptEvent(t, exec[r].at[2])
     ELSE UNCHANGED tasks

\* Mutant of Evidenced: an owner that recovers in validating skips the report.
EvidencedByFirstOwner(e) ==
  IF e.status = "validating" /\ e.ws = "ready" THEN evidence \cup {e.at} ELSE evidence

\* generateEvidence, at the end of validation; an owner that recovers there
\* reports the lost workspace.
Evidenced(e) == IF e.status = "validating" THEN evidence \cup {e.at} ELSE evidence

\* Mutant of PublishedNow: an owner that recovers in publishing skips it.
PublishedByFirstOwner(e) ==
  IF e.status = "publishing" /\ Publishes(e.at[1]) /\ e.ws = "ready"
  THEN published \cup {e.at} ELSE published

\* publishFromWorkspace, or publishRecovered, ending in publishToGitHub.
PublishedNow(e) ==
  IF e.status = "publishing" /\ Publishes(e.at[1])
  THEN published \cup {e.at} ELSE published

\* The work of a stage succeeds: the agent session, trusted validation and the
\* evidence report, publishing; the next transition is due.
Work(r) ==
  LET e == exec[r]
  IN /\ e.pc = "work" /\ e.cause = "none" /\ ~DriveDone(e)
     /\ e.status \in AgentStages => e.ws = "ready"
     /\ evidence' = Evidenced(e)
     /\ published' = PublishedNow(e)
     /\ StageEvents(r)
     /\ Goto(r, [e EXCEPT !.pc = "fence", !.to = NextStatus(e.status)])
     /\ UNCHANGED <<leases, overdue, faults, commands>>

\* failTask is called: the workspace, the agent or publishing failed for good, or
\* there was no change to publish.
WorkFails(r) ==
  LET e == exec[r]
  IN /\ e.pc = "work" /\ e.cause = "none"
     /\ e.status \in IF Publishes(e.at[1]) THEN PhaseRunning ELSE AgentStages
     /\ Fault
     /\ Goto(r, [e EXCEPT !.pc = "fence", !.to = "failed"])
     /\ UNCHANGED db

Errored(r) == [exec[r] EXCEPT !.pc = "driven", !.err = "error"]

\* The context is done: whatever drive calls next fails.
Abandon(r) ==
  /\ exec[r].pc = "work" /\ exec[r].cause # "none"
  /\ ~DriveDone(exec[r])
  /\ Goto(r, Errored(r))
  /\ UNCHANGED <<db, faults>>

\* A database or GitHub call fails, or the fence cannot reach the database.
WorkErrors(r) ==
  /\ \/ exec[r].pc = "fence"
     \/ /\ exec[r].pc = "work" /\ exec[r].cause = "none"
        /\ ~DriveDone(exec[r])
  /\ Fault
  /\ Goto(r, Errored(r))
  /\ UNCHANGED db

DriveReturns(r) ==
  /\ exec[r].pc = "work" /\ DriveDone(exec[r])
  /\ Goto(r, [exec[r] EXCEPT !.pc = "driven"])
  /\ UNCHANGED <<db, faults>>

\* Mutant of Fenced: only a lease already known lost is refused.
FencedFromMemory(r, pc) ==
  ~exec[r].lost /\ Goto(r, [exec[r] EXCEPT !.pc = pc])

\* fenceLeaseOwnership: renew the lease or learn that it is lost.  It ignores
\* the context, and a lease already known lost is not asked for again.
Fenced(r, pc) == ~exec[r].lost /\ Holds(r, exec[r].at)
                   /\ Goto(r, [exec[r] EXCEPT !.pc = pc])

FenceRefused(r, pc) ==
  /\ exec[r].lost \/ ~Holds(r, exec[r].at)
  /\ Goto(r, [exec[r] EXCEPT !.pc = pc, !.lost = TRUE, !.err = "lost"])

Fence(r) ==
  /\ exec[r].pc = "fence"
  /\ Fenced(r, "commit") \/ FenceRefused(r, "driven")
  /\ UNCHANGED <<db, faults>>

Key(r) == <<exec[r].at, exec[r].to>>

Outcome(r) ==
  TransitionOutcome(tasks[exec[r].at[1]], Params(exec[r].to, Key(r), 0))

\* Where r is once its transition has been acknowledged.
Acknowledged(r) ==
  IF exec[r].to = "failed"
  THEN [exec[r] EXCEPT !.pc = "driven", !.err = "failed"]
  ELSE [exec[r] EXCEPT !.pc = "work", !.status = exec[r].to]

\* Mutant of Commit: the status is written without the row's own check.
CommitUnchecked(r) ==
  /\ exec[r].pc = "commit" /\ exec[r].cause = "none"
  /\ tasks' = [tasks EXCEPT ![exec[r].at[1]].status = exec[r].to]
  /\ Goto(r, Acknowledged(r))
  /\ UNCHANGED <<leases, overdue, evidence, published, faults, commands>>

\* Store.Transition under a live context: applied or replayed, the runner goes
\* on; refused, it stops.
Commit(r) ==
  /\ exec[r].pc = "commit" /\ exec[r].cause = "none"
  /\ \/ /\ Store!Transition(exec[r].at[1], exec[r].to, Key(r), 0)
        /\ Goto(r, Acknowledged(r))
     \/ /\ Outcome(r) = "replayed"
        /\ Goto(r, Acknowledged(r))
        /\ UNCHANGED tasks
     \/ /\ Outcome(r) \notin {"applied", "replayed"}
        /\ Goto(r, Errored(r))
        /\ UNCHANGED tasks
  /\ UNCHANGED <<leases, overdue, evidence, published, faults, commands>>

\* The call returns an error: nothing was committed, or the transaction was and
\* its acknowledgement is lost.
CommitUnknown(r) ==
  /\ exec[r].pc = "commit"
  /\ UNCHANGED tasks \/ Store!Transition(exec[r].at[1], exec[r].to, Key(r), 0)
  /\ Goto(r, Errored(r))
  /\ UNCHANGED <<leases, overdue, evidence, published, commands>>

\* The context ends under the call, or before it.
CommitCut(r) == exec[r].cause # "none" /\ CommitUnknown(r) /\ UNCHANGED faults

\* The database fails it.
CommitFails(r) == exec[r].cause = "none" /\ Fault /\ CommitUnknown(r)

-----------------------------------------------------------------------------
(* The goroutines beside drive, while the context can still change.        *)

Driving(r) == exec[r].pc \in {"work", "fence", "commit", "driven"}

\* The deadline context expires.
DeadlineFires(r) ==
  /\ Driving(r) /\ exec[r].cause = "none" /\ exec[r].at \in overdue
  /\ Goto(r, [exec[r] EXCEPT !.cause = "deadline"])
  /\ UNCHANGED <<db, faults>>

\* watchTaskCancellation sees a terminal task.
WatchCancels(r) ==
  /\ Driving(r) /\ exec[r].cause = "none"
  /\ Terminal(tasks[exec[r].at[1]].status)
  /\ Goto(r, [exec[r] EXCEPT !.cause = "stopped"])
  /\ UNCHANGED <<db, faults>>

\* The heartbeat is refused: another runner may own the attempt.
HeartbeatLost(r) ==
  /\ Driving(r) /\ ~exec[r].lost /\ ~Holds(r, exec[r].at)
  /\ Goto(r, [exec[r] EXCEPT !.lost = TRUE,
                !.cause = IF @ = "none" THEN "stopped" ELSE @])
  /\ UNCHANGED <<db, faults>>

\* The heartbeat cannot reach the database, or the process is asked to stop.
Interrupted(r) ==
  /\ Driving(r) /\ exec[r].cause = "none" /\ Fault
  /\ Goto(r, [exec[r] EXCEPT !.cause = "stopped"])
  /\ UNCHANGED db

Crash(r) ==
  /\ Executing(r) /\ Fault
  /\ Goto(r, Idle)
  /\ UNCHANGED db

-----------------------------------------------------------------------------
(* Execute after drive.                                                    *)

\* The cause is read once; only a deadline that did not end in failTask or a
\* lost lease times the task out.
EndDrive(r) ==
  LET e == exec[r]
      timedOut == e.cause = "deadline" /\ ~e.lost /\ e.err # "failed"
  IN /\ e.pc = "driven"
     /\ Goto(r, [e EXCEPT !.pc = IF timedOut THEN "timeout_fence" ELSE "settle",
                          !.err = IF e.lost THEN "lost" ELSE @])
     /\ UNCHANGED <<db, faults>>

TimeoutFence(r) ==
  /\ exec[r].pc = "timeout_fence"
  /\ Fenced(r, "timeout_read") \/ FenceRefused(r, "settle")
  /\ UNCHANGED <<db, faults>>

\* timeoutTask reads the task first and leaves a finished one alone.
TimeoutRead(r) ==
  /\ exec[r].pc = "timeout_read"
  /\ Goto(r, [exec[r] EXCEPT !.to = "timed_out",
                !.pc = IF Terminal(tasks[exec[r].at[1]].status)
                       THEN "settle" ELSE "timeout_commit"])
  /\ UNCHANGED <<db, faults>>

TimeoutCommit(r) ==
  /\ exec[r].pc = "timeout_commit"
  /\ \/ Store!Transition(exec[r].at[1], "timed_out", Key(r), 0)
     \/ Outcome(r) # "applied" /\ UNCHANGED tasks
  /\ Goto(r, [exec[r] EXCEPT !.pc = "settle"])
  /\ UNCHANGED <<leases, overdue, evidence, published, faults, commands>>

TimeoutFails(r) ==
  /\ exec[r].pc \in {"timeout_fence", "timeout_read", "timeout_commit"} /\ Fault
  /\ Goto(r, [exec[r] EXCEPT !.pc = "settle"])
  /\ UNCHANGED db

\* The fences of settleTriggerCheckRun and cleanupTerminalRecovery.
Settle(r) ==
  /\ exec[r].pc = "settle"
  /\ \/ exec[r].err = "lost" /\ Goto(r, Idle)
     \/ exec[r].err # "lost" /\ (Fenced(r, "release") \/ FenceRefused(r, "settle"))
  /\ UNCHANGED <<db, faults>>

\* ReleaseLease; failing to release is a Crash here: the lease is left to expire.
Release(r) ==
  /\ exec[r].pc = "release"
  /\ leases' = IF leases[exec[r].at].owner = r
               THEN [leases EXCEPT ![exec[r].at] = NoLease] ELSE leases
  /\ Goto(r, Idle)
  /\ UNCHANGED <<tasks, overdue, evidence, published, faults, commands>>

-----------------------------------------------------------------------------
Run(r) ==
  \/ \E t \in DOMAIN tasks : Claim(r, t)
  \/ Start(r) \/ Provision(r) \/ RecordBase(r) \/ Work(r) \/ Abandon(r) \/ DriveReturns(r)
  \/ Fence(r) \/ Commit(r) \/ CommitCut(r) \/ EndDrive(r)
  \/ TimeoutFence(r) \/ TimeoutRead(r) \/ TimeoutCommit(r)
  \/ Settle(r) \/ Release(r)

Observe(r) == DeadlineFires(r) \/ WatchCancels(r) \/ HeartbeatLost(r)

Disturb(r) ==
  \/ StartFails(r) \/ WorkFails(r) \/ WorkErrors(r) \/ CommitFails(r)
  \/ TimeoutFails(r) \/ Interrupted(r) \/ Crash(r)

Next ==
  \/ \E t \in TaskIds : CreateTask(t)
  \/ \E t \in DOMAIN tasks :
       \/ ApiCancel(t)
       \/ \E key \in Keys : Revise(t, key)
       \/ \E to \in {"completed", "cancelled"} : PullRequestClosed(t, to)
  \/ \E x \in AttemptIds : ExpireLease(x) \/ LeaseLapses(x) \/ DeadlinePasses(x)
  \/ \E r \in Runners : Run(r) \/ Observe(r) \/ Disturb(r)

\* Runner processes keep polling and executing, and the clock expires a lease
\* nobody renews; nothing is assumed of callers, deadlines or faults.
Fairness ==
  /\ \A r \in Runners : WF_vars(Run(r))
  /\ \A x \in AttemptIds : WF_vars(ExpireLease(x))

Spec == Init /\ [][Next]_vars /\ Fairness

-----------------------------------------------------------------------------
(* Properties.                                                             *)

Causes == {"none", "deadline", "stopped"}

ProgramCounters ==
  {"idle", "claimed", "work", "fence", "commit", "driven", "timeout_fence",
   "timeout_read", "timeout_commit", "settle", "release"}

\* Runner, lease and bookkeeping state is well formed.
TypeOK ==
  /\ Store!TypeOK
  /\ leases \in [AttemptIds -> [owner : Runners \cup {NoRunner}, live : BOOLEAN]]
  /\ \A r \in Runners :
       /\ exec[r].pc \in ProgramCounters
       /\ exec[r].at \in AttemptIds \cup {<<>>}
       /\ exec[r].cause \in Causes
       /\ exec[r].err \in {"none", "error", "failed", "lost"}
  /\ overdue \cup evidence \cup published \subseteq AttemptIds

\* runner/executor.go, fenceLeaseOwnership: while operations end within the lease
\* their fence renewed, no two runners are inside a fenced operation on one
\* attempt, whatever expired, crashed or was reclaimed.
OneCommitter ==
  \A r, q \in Runners :
    r # q /\ Committing(r) /\ Committing(q) => exec[r].at # exec[q].at

EvidenceBeforePublishing ==
  \A t \in DOMAIN tasks :
    tasks[t].status \in {"publishing", "awaiting_review"} =>
      <<t, Len(tasks[t].attempts)>> \in evidence

PublishedBeforeReview ==
  \A t \in DOMAIN tasks :
    Publishes(t) /\ tasks[t].status = "awaiting_review" =>
      <<t, Len(tasks[t].attempts)>> \in published

\* runner/executor.go, runAgentStages and drive: no owner, original or recovered,
\* lets an attempt reach publishing without its evidence report, or a repository
\* task wait for review without a pull request for its current attempt.
NoStageSkipped == EvidenceBeforePublishing /\ PublishedBeforeReview

\* runner/executor.go, transition and failTask: a transition that drive commits for
\* a superseded attempt never moves the task, which belongs to its successor: the
\* fence stops it or its key is a replay.  Of drive's transitions only: timeoutTask
\* does move the successor's task (its key is new and its fence is the old
\* attempt's, see PublishedAwaitsReview), and so may a transition that a stall
\* separates from its fence, which FenceCovers assumes away.
SupersededOwnerHarmless ==
  [][\A r \in Runners :
       exec[r].pc = "commit" /\ exec'[r] # exec[r] =>
         LET t == exec[r].at[1]
         IN tasks'[t].status # tasks[t].status =>
              exec[r].at[2] = Len(tasks[t].attempts)]_vars

\* runner/executor.go, drive: "published tasks wait for human review"; no runner
\* takes a published task out of awaiting_review.
PublishedAwaitsReview ==
  [][\A t \in DOMAIN tasks :
       Publishes(t) /\ tasks[t].status = "awaiting_review" =>
         tasks'[t].status # "timed_out"]_vars

\* The executor drives tasks through the store's operations only: the invariants
\* proved of TaskStore hold here.
StoreSpec == Store!Spec

\* The task needs no runner any more: it ended, or a human reviews it.
Settled(t) ==
  \/ Terminal(tasks[t].status)
  \/ Publishes(t) /\ tasks[t].status = "awaiting_review"

\* runner/store.go, claim and lease expiry, and runner/executor.go, Execute: after
\* finitely many crashes, lost leases, failed calls and commands, a task is settled
\* and no runner holds a lease on any of its attempts.
EventuallySettled ==
  []<>(\A t \in DOMAIN tasks :
         Settled(t) /\ \A a \in 1..MaxAttempts : ~leases[<<t, a>>].live)
=============================================================================
