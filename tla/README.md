# Agent Trail: a TLA+ verification project

Agent Trail runs coding agents on GitHub issues. A maintainer comments
`/agent-trail run` on an issue; a task is created, a runner claims it, an agent
works in a git worktree, trusted validation runs, an evidence report is written,
a pull request is opened and the task waits for review. A `revise` comment on the
pull request starts another attempt of the same task; merging or closing the pull
request ends it. All durable state is in PostgreSQL, and every process (the HTTP
API with its webhook handlers, any number of worker processes, Kubernetes Jobs)
meets the others only there and on GitHub.

This directory holds modules that model the parts of that system which decide
what happens to a task, TLC configurations that check them on small instances,
and proofs, checked by TLAPS, of what the components promise each other for any
number of tasks, runners, deliveries and faults. Paths below are relative to `apps/api/internal/` unless they start with `apps/`.

## 1. Inventory

| component | state it keeps | operations | who calls it |
|---|---|---|---|
| task store (`task/`) | `tasks`, `task_attempts`, `activity_events` rows; status machine | Create, Transition, RequestRevision, Cancel, EnsureGitContext, AppendEvent, AppendAttemptEvent, RecordTriggerCheckRun, MarkTriggerCheckRunCompleted; reads | all others |
| lease store (`runner/store.go`) | `lease_owner`, `lease_expires_at` of an attempt; `runners` rows | claim, ExtendLease, ReleaseLease, RecordAttemptBase; Register, Heartbeat, MarkOffline, MarkLost, DispatchableAttempts | runners |
| attempt executor (`runner/executor.go`) | the local task status, workspace, lost-lease flag, context cause of one execution | Execute: fence, drive through the stages, heartbeat, cancellation watcher, failTask, timeoutTask, settle, release | runner host, Kubernetes Job |
| publishing (`runner/publish.go`) | pull request and branch on GitHub | provisionWorkspace, publishFromWorkspace, publishRecovered, publishToGitHub | executor |
| runner host (`runner/host.go`), Kubernetes backend | registered runner, claim loop; the `observed` map of Jobs | Run; dispatch, reap | process main |
| webhook processor (`github/webhook.go`, `process.go`, `revise.go`) | one goroutine per delivery; the delivery ledger | ServeHTTP, Dispatch, process, handleIssueComment, handleRevise, handlePullRequest | GitHub |
| GitHub store (`github/store.go`) | `github_installations`, `repositories`: a copy of what GitHub says; the delivery ledger | UpsertInstallation, SetInstallationSuspended, DeleteInstallation, SyncRepositories; RecordDelivery, MarkDelivery; reads | webhook processor, publishing |
| trigger check runs (`github/checkrun.go`, `settleTriggerCheckRun`) | the check run on the triggering issue's commit | create, record, complete | webhook handler, API, executor |
| task stream (`httpapi/stream.go`) | a cursor per SSE client | poll by (attempt, sequence) | browsers |
| conflict detection (`conflict/`) | `task_conflicts` rows | detect, reconcile | executor |
| git workspaces (`gitworkspace/`) | on each host a mirror of the repository, its branches and worktrees | EnsureMirror, CreateWorktree, CleanupStale, Lookup, Commit, Push, Remove | executor, publishing |
| agent sessions (`agent/`) | child process, event channel | start, stream, cancel | executor |
| validation, evidence | result rows, one report per attempt | run, generate | executor |
| HTTP API, auth, repository settings, dashboard, insights, observability, web | sessions, settings; otherwise read-only | create, cancel, login, queries | browsers |

How the parts interact. The task store is shared memory: each operation locks one
`tasks` row for the length of its transaction. A runner claims an attempt by
taking its lease, renews it by heartbeat, and *fences* (renews the lease again)
before each transition, but the transition itself does not look at the lease, so
a lease is advice and the row's own status machine and idempotency keys are what
protects the task. Webhook handlers read a task in one query and write it in
another; GitHub redelivers, two deliveries may carry one comment, and a handler
has 30 seconds before its context ends. Users cancel at any time. Nothing is
retried inside a process: recovery is another runner claiming an expired lease,
or a human commenting again.

What is hard here, and what each part must get right:

* **Task store.** Interleavings of callers that know nothing of each other; a
  command replayed after its attempt was superseded; events appended to attempts
  that ended. Correct means: one active attempt, exactly while the task is
  unfinished; a timeline without gaps that replays to the row's status; no key
  applied twice; a finished task stays as it is; one unfinished task per issue;
  the revision limit holds under races.
* **Executor and leases.** A runner that stalls, crashes, loses its lease or the
  acknowledgement of its own commit, while the task is cancelled, revised or
  closed, and a deadline that fires at the worst moment. Correct means: one
  runner at a time inside a fenced operation; the stages of an owner left over from
  an old attempt do not move the task; no attempt is published without evidence or
  reviewed without a pull request, whoever recovered it; every task is settled in
  the end and no lease outlives it.
* **Webhook processor.** Stale reads, redeliveries, races for one issue, failing
  side effects, death half way. Correct means: a command takes effect once, is
  answered once, and its ledger row leaves `pending` unless the process died, could
  not write, or never knew that the row was inserted.
* **Installations.** Events that overtake each other, handlers that read a list from
  GitHub and write it later. Correct means: the newest event puts the tables right
  whatever happened before, and a suspended or removed installation is not used.
* **Publishing, trigger check runs.** An owner that dies between two GitHub calls,
  a call that failed but was carried out, a successor without the worktree, a
  branch others push to, a check run two processes complete. Correct means: what
  reaches review is complete, owners that follow one another do each thing once,
  and no work is removed before it is pushed.
* **Git workspaces.** Disks that outlive the owners that wrote to them: worktrees and
  branches left by runs that were cut off, on hosts that meet the task again later,
  and one branch name for all attempts. Correct means: a run starts from its base and
  never from leftovers, what an owner of the same attempt left is cleared, and what is published is
  the work that was validated.
* **Agent sessions.** A provider process that blocks on a full pipe, ends in the
  middle of a line or leaves a tool behind that holds its stdout, under an executor
  whose context may end at any moment. Correct means: the executor always gets out,
  only after the provider is gone, and the error it is given agrees with the events
  it was sent.
* **Trusted validation and evidence.** Checks interrupted between two inserts, a
  report that a second owner generates again, conclusions drawn from what the first
  one stored. Correct means: a pass is announced and shown only if every check
  passed, and a pull request never shows two conclusions.
* **Runner fleet.** Two controllers during a rollout, caches of Job names that are
  reused, Jobs deleted under their pods, runners declared lost while they work.
  Correct means: nothing but a lease that ran out under its owner lets a second pod
  execute an attempt, a loss is found once, and every attempt is executed to its end.
* **Conflict detection.** Two owners that detect each other's commits at the same
  time over one table. Correct means: of two conflicting commits somebody is warned,
  and the table says what the diffs say.
* **Task stream.** A cursor over attempts and sequence numbers, batches, connections
  that break, a task that ends between two reads. Correct means: nothing is skipped,
  and every page learns the end after it has seen everything.

`PROJECT.json` lists every hazard with its line and the properties that would
catch it.

## 2. Modules

| module | models | extends / instantiates |
|---|---|---|
| `TaskStatus` | `task/status.go`: statuses, phases, `CanTransition` | |
| `TaskRow` | what each transaction of `task/store.go` writes to the row it locked: `applyTransition`, `insertEvent`, `CreatedRow`, `RevisedRow`, ... as functions from a row to a row | `TaskStatus` |
| `TaskStore` | the store: one atomic action per committing operation, unconstrained callers. **The abstract specification** of what tasks may do | `TaskRow` |
| `TaskStoreProofs`, `AttemptExecutorProofs`, `PublishProofs`, `TrustedValidationProofs`, `RunnerFleetProofs`, `AgentSessionProofs`, `WebhookProcessorProofs`, `ConflictDetectionProofs` | theorems about the module each is named after; `TaskStoreProofs` also about `TaskStream`, `RunnerFleetProofs` about `GitWorkspace`, `WebhookProcessorProofs` about `InstallationSync` | the modules they are about, TLAPS |
| `AttemptExecutor` | runners, leases, deadlines, faults and the callers beside them, over the store | `TaskRow`; `Store == INSTANCE TaskStore` |
| `WebhookProcessor` | deliveries, their handlers, the ledger, replies and pull requests, over the store | `TaskRow`; `Store == INSTANCE TaskStore` |
| `AgentSession` | one provider session: CLI, tools, scanning goroutine, event channel, the executor's loop and its shutdown: `Work` of the agent stages opened up | |
| `TrustedValidation` | the checks, their rows, the evidence report and the conclusion drawn from it, over successive owners | |
| `RunnerFleet` | Kubernetes controllers, Jobs, the hosts in their pods, the runner registry and the claims | |
| `ConflictDetection` | detection between the tasks of a repository: what a diff overlaps, the order of record, push and detect, `Reconcile` and its locks | |
| `TaskStream` | the SSE handler and the page that follows a task, over the store's own actions | `TaskStore` |
| `Publish` | publishing one attempt call by call, its recovery by the next owner, the trigger check run and the worktree: the `publishing` stage of `AttemptExecutor` opened up | `TaskStatus` |
| `InstallationSync` | the installation and repository tables of one account, the handlers that keep them and GitHub moving on meanwhile | |
| `GitWorkspace` | the mirrors, branches and worktrees of one task on several hosts: provisioning, publication, recovery and cleanup of its attempts, as far as they touch a disk | |
| `MCTaskStore`, `MCAttemptExecutor`, `MCWebhookProcessor`, `MCPublish`, `MCConflictDetection`, `MCTaskStream` | TLC instances: bounds, symmetry, which delivery carries what, which diffs there are; `MCWebhookProcessor` also runs `InstallationSync` in the history without commands | the module they are named after; `MCWebhookProcessor` also `InstallationSync` |

### TaskRow and TaskStore

A task is a record: the `tasks` columns a decision depends on (`status`,
`version`, `issue`, `base`, `branch`, `startedAt`), its attempts in insertion
order and its activity events in commit order. A refused operation rolls back and
is a stuttering step; the outcome operators (`TransitionOutcome`,
`RevisionOutcome`) keep the order of the code's checks: replayed key, expected
version, status machine, active attempt. Free text (reasons, messages, payloads)
is left out, a timestamp is 0 or 1 (NULL or set), and the events that are not
status changes are one type, `"note"`. Transactions are atomic because every
operation takes the row lock first (`SELECT ... FOR UPDATE`) and touches one task;
the only cross-task condition, the partial unique index
`tasks_one_active_per_issue_idx`, is `IssueFree`.

### AttemptExecutor

`exec[r]` is the execution of runner process `r`: where it is (`pc`), the attempt
it claimed, the *local* status `drive` works from (which may be behind the row),
the workspace, the context's cause, the lost-lease flag and the error it will
return. Every database call is a step: claim, the opening fence, EnsureGitContext
and RecordAttemptBase, the stage's own work, the fence before a transition, the
transition, the fence, read and write of `timeoutTask`, the closing fence,
ReleaseLease. The goroutines beside `drive` are `DeadlineFires`, `WatchCancels`,
`HeartbeatLost` and `Interrupted`. `CommitCut` and `CommitFails` leave it open
whether the transaction was committed. Real time appears only in `ExpireLease` (a
lease nobody renews), `LeaseLapses` (one that expires under a running owner, a
fault) and `DeadlinePasses`. `FenceCovers` states the assumption the lease
durations are chosen for: an operation ends before the lease its fence renewed
does. Runs are made with and without it.

Abstractions: the agent session, validation and the evidence report of a stage
are one step, `Work`, with its failure (`WorkFails`), its error (`WorkErrors`) and
its abandonment under a finished context (`Abandon`); the activity events of a
stage are one note, kept up to `MaxNotes`, since no step reads them; the opening
of a pull request is membership in `published`.

### WebhookProcessor

`Init` chooses one of `Histories`, the sets of deliveries that occur together
(`sent`). `proc[d]` is the goroutine of delivery `d`; each query, write and GitHub call is a
step, so a handler holds a row it read earlier while others move the task.
`CommandOf` says what each delivery carries (signature check and payload parsing
are abstracted to that); `allowed` is FALSE for a comment that is answered before
any task is looked at. `Happened` and `CloseRequest` are GitHub. A branch is
named after its task, as `branchLabel` does by its suffix. The runner is two
steps here (`RunnerDrives` to `publishing` with an open pull request, then
`RunnerFinishes`): a handler tells apart only queued, publishing and review.
`RecordFails`, `CallFails`, `AckLost`, `ReplyLost`, `MarkFails` and `Crash` are the ways
a call or the process can fail; a panic that `Dispatch` recovers has the outcome of
`Crash` for its delivery. `RecordFails` is the insert into the ledger that returns an
error: it may have committed, and then the row is pending (`Lost`), no goroutine was
started, and every redelivery is a duplicate.

### InstallationSync

`gh` is GitHub's side (installation number, suspension, repositories) and every change
of it a delivery in `events`; `handlers[i]` is the goroutine of delivery `i`. `inst` and
`repos` are the tables. A handler that syncs takes four steps (`UpsertInstallation`,
`ListInstallationRepositories`, `SelectInstallation`, `SyncRepositories`), which
handlers of other deliveries and GitHub may come between; a comment goes the same way
if its repository has no row. `solo` remembers the newest handler as long as it has
met no other. `HandlerStops` is a failed call, a panic, the 30 seconds or a death. The
writes of `SyncRepositories` are one step: two transactions that write at once are
beyond what the properties promise. Redelivery is `WebhookProcessor`'s.

### Publish

One attempt, from the moment its owner moved the task to `publishing`. `row` holds
the columns and events publishing reads and writes (final commit, pull request,
trigger check run and its completion marker, comments recorded), `tree` the
worktree and the host it is on (`shared` says whether the workers share a disk,
so whether a successor finds it), `site` what is on GitHub, `exec[r]` the local
variables of each runner, and `api` the goroutine of `TaskCancelled`. `Init`
chooses a first attempt or a revision, with or without an issue, changes and a
recorded trigger check run.

Each call to GitHub, git or the database is a step. A call that fails may have been
carried out (`PublishFailure`, `TriggerUnreachable`, `StoreFails`), and a crash
may fall between any two. A successor starts over in `publishRecovered` from what is
left. The end of `Execute` is here too, since it settles the trigger check run and
removes the worktree: `CleanupDeferred`, `TimeoutTask`, `SettleRead`,
`SettleFence`, `CleanupTerminal`, `Release`.

Abstractions: a fence and the write it protects are one step (`AttemptExecutor`
separates them); commits are the base, the attempt's work and somebody else's
commit on top; a check run is its number on a commit, and the conclusion of the
evidence report is one value, distinct from those of a failed, cancelled or timed
out task. Conflict detection and the notes of the timeline are left out: no step
here reads them.

### GitWorkspace

`disk[h]` is what is under `WORKSPACE_ROOT` on host `h`: whether the mirror exists, the
remote-tracking ref and the local branch of the task, and a worktree per attempt with
the edits it holds; `origin` is the branch on GitHub. A commit is the sequence of
changes on top of the task's base, and `<<attempt, run>>` is what one run of the agent
did, so the question whose work is where can be asked of any state. `own[h]` is the
execution on `h`, from `provisionWorkspace` to the release; the long-lived worker
executes one attempt at a time, so there is one per host. `Mirrored` tells the clone of a new
mirror (every ref as it is on GitHub, no remote-tracking refs) from the fetch of an
existing one (the agent branches go to remote-tracking refs only); `Occupied`,
`Added` and `Cleared` are what `git worktree add -b`, and removal with `branch -D`, do:
git refuses an existing branch, and refuses to delete one that is checked out.
`Crash`, `AddCut`, `Interrupt`, `ProvisionFails` and `LeaseLapses` may fall anywhere; a
disk is as the last step left it. git runs under the context of its call and is killed
with it, so a worktree add may end anywhere (`Leftovers`): with nothing, the branch, the
branch and its worktree, or, killed in the checkout, these and an entry that is still
*locked* ("initializing"). A single `--force` does not remove a locked entry, `prune`
skips it and `branch -D` refuses its branch, so `Cleared` takes the directory and leaves
the branch in the way for good.

Abstractions: a fence and what it protects are one step; every run changes something
(a run without changes is `Publish`'s); the calls to GitHub between push and removal
are `Publish`'s; `Finish` is any end of the task by others. The worktree of a killed add is
taken for clean, though its checkout may be half done: no run is started in it, and what
a recovery would commit from it is no work. The moment before a new entry names its
branch, when it locks the path only, is left out.

### AgentSession

`cli` is the CLI process with its tool subprocess, `pipe` its stdout, `sess` the
goroutine of `claudeSession.run` (or of the scripted adapter), `exec` the event loop
of `runAgentStages`. The events channel is unbuffered, so `Receive` moves both ends
in one step, and a session whose event nobody takes is stuck until `stopSession`
drains it. `KillGroup` and `WaitDelayPasses` are what `exec.CommandContext` with
`Setpgid` and `WaitDelay` does: the group is killed, and five seconds later the read
end is closed under the scanner, even if an escaped tool still holds the pipe. A line
is one of the kinds `normalize` tells apart, mapped by `Normalized` to the events it
becomes; `"oversized"` is a line the scanner refuses. `AppendEvent` may fail, which
sends the executor to `StopSession` with the provider still talking.

### TrustedValidation

`own[o]` is an owner in the `validating` or `publishing` part of `drive`, with the
results it holds in memory; `rows` and `report` are the two tables, both first writer
wins; `completed` the `validation.completed` events, `posted` what a pull request was
shown. `RunCheck` and `InsertCheck` are separate, so a lapse, an interruption
(`CtxDone`) or a death (`Abandon`) can fall between any two; a claim takes up where
the status says (`Recover` for a task found in `validating`). Transitions are fenced;
the inserts, the read of the stored report (`storedReport`) and the posting of its
conclusion (`Conclude`) are not, as in the code, so an owner whose lease has lapsed posts
beside its successor. `claimed` holds the outcomes the agent
claimed for its own commands: they enter the report and must not decide.

### RunnerFleet

One Job per attempt, named after it. A controller lists Jobs and compares them with
its `observed` map (`ListJobs`, `ObserveListed`), queries dispatchable attempts,
creates Jobs one by one (a Job that exists already is skipped), then watches until
the watch ends. `Observe` deletes a Job it finds failed, by
name. A pod claims the attempt of its Job, executes it and exits; it beats and reaps
beside that. The Job controller (`StartPod`, `PodKilled`), an unreachable node and
the TTL controller are external. What happens inside `Execute` is reduced to
`Proceed`, which needs the lease, and `ExecuteReturns`, with or without a settled
task; settling is fenced. A lease ends by the clock alone: `LeaseExpires` is the end of
one whose owner does not execute, `LeaseRunsOut` of one under an executing owner whose
renewals stall or fail. That pod goes on beside whoever claims next, and
`lapsed` remembers it until it returns. Pod numbers are reused once nothing names the old pod, so the state space is
finite while attempts go through any number of pods.

### ConflictDetection

A commit is `<<task, attempt>>` and a diff a function from paths to hunks. `Overlap`,
`rangesAdjacent` and `parseHunks` are translated from the code; `Expected` is the
reference definition over sets of changed lines, which `PairKindsTrue` compares them
with on diffs at every threshold. An owner records its commit, pushes it, lists the
others, compares, locks its pairs, reconciles and appends its events, one step each;
`LockPairs` waits for pairs another transaction holds. The assessor gives an arbitrary
one of `Answers`, which `validateVerdict` and the table's check constraint
(`SemanticFieldsOK`) then sift. `raced` remembers whether an owner ever recorded a
commit while another had recorded its own and was not done with it, or when the task had
been revised since (`WindowOpen`).

### TaskStream

The store's actions are `TaskStore`'s own, restricted to the ones a page can see, on a
task that waits for review when the page is opened. `handler` is the request (read the
status, drain in batches, write `done` or wait for the tick), `wire` the frames under
way, `page` the `EventSource` of `useTaskStream.ts` with its two cursors (the URL's
and `Last-Event-ID`), which reopens after a broken connection. `EventsAfter` is defined
by what its query promises (ordered, and the first of those after the cursor), which is
one sequence. `Passed` must be a path of the status machine from `queued`, so that the
page is opened on a task the program can have.

## 3. Plan

The modules were written in the order of the table above, each with its run before its
proofs: the store, then the executor that implements it, then publishing, deliveries,
sessions, validation and the fleet, then conflicts, the stream, the disks and the
installation tables. All are modelled, and every safety property of their runs is proved.

What could be added:

* `Publish` shown to implement the step `PublishedNow` of `AttemptExecutor`, and
  `WebhookProcessor` shown to implement `Store!Spec`, as `AttemptExecutor` is.
* `Auth` (login state and sessions), as a model.
* `TaskTxn`: the store's transactions as lock, read, write and commit steps, refining
  `TaskStore`.

## 4. What the runs check

Deadlock checking is off everywhere: a bounded instance stops when its bounds are
used up, and so does the system when nobody asks anything of it.

| run | cfg | properties | shows |
|---|---|---|---|
| `task_store` | `TaskStore.cfg` | `OneActiveAttempt`, `SequencesContiguous`, `TimelineReplays`, `OneActiveTaskPerIssue`, `RevisionLimit`, `TerminalFinal` | any callers in any order keep the store's promises |
| `executor_paused` | `AttemptExecutor_paused.cfg` | `NoStageSkipped`, `StoreSpec` | owners that stall past their lease, so that two drive one attempt: still nothing is published without evidence or reviewed without a pull request, and every step implements `TaskStore` |
| `executor_recovery` | `AttemptExecutor_recovery.cfg` | `EventuallySettled`, `SupersededOwnerHarmless`, `OneCommitter` | with leases that cover fenced operations: two runners never commit on one attempt, what `drive` commits for a superseded attempt does not move the task, and after a fault, a command and a deadline every task is settled |
| `publish_recovery` | `Publish_recovery.cfg` | `ReviewComplete`, `OneCheckRun`, `LostMeansUnpushed`, `WorkKept`, `SummaryNotRepeated`, `OwnersCompleteOnce`, `PublishingEnds` | interrupted twice at any call, or with two owners at once, what reaches review is complete, successive owners do each thing once, no work is removed before it is pushed, and publishing ends |
| `webhook` | `WebhookProcessor.cfg` | `RedeliveryHarmless`, `PendingIsHandled`, `OneAttemptPerComment`, `AcceptedNotRefused`, `LastEventRestores` | two run commands race for an issue and a merge follows, or one revise comment comes in two deliveries while the task moves: each command takes effect and is answered once, and a delivery stays pending only if its handler died or could not write, or if it was inserted for nobody; or installation events instead: whatever earlier handlers left undone, did out of order or at once, the newest event handled last makes the tables say what GitHub says |
| `agent_session` | `AgentSession.cfg` | `NoProviderLeft`, `OutcomeMatchesEvents`, `SessionEnds` | whatever the provider does and wherever the context ends, the executor gets out, after the provider, with an outcome that matches the events |
| `trusted_validation` | `TrustedValidation.cfg` | `PassedMeansAllPassed`, `VerdictPublished`, `OneConclusion` | over lapses, interruptions and deaths, a pass means every check passed, and a pull request shows the verdict announced and never two, with owners that post after they lost the lease |
| `runner_fleet` | `RunnerFleet.cfg` | `NoDuplicateExecution`, `LossDetectedOnce`, `EveryAttemptSettles` | two controllers and dying, hanging or unreachable pods, and leases that run out under executing ones: two executions at once only after that, one loss per silence, and every attempt ends |
| `workspaces` | `GitWorkspace.cfg` | `OneRunPerAttempt`, `LeftoversCleared`, `HostPublishesItsRun` | over two hosts, lapses, deaths and failed git calls, no run builds on what an earlier one of its attempt left, leftovers of the attempt are cleared except for the locked entry of a killed worktree add, and a host that is alone publishes what it validated |
| `workspace_fresh_host` | `GitWorkspace_fresh_host.cfg` | `OnlyMovedTipRefused` | **violated**, see Findings |
| `conflicts` | `ConflictDetection.cfg` | `SomeoneIsWarned`, `TableTrue` | detections that interleave warn at least one of two owners, detections that do not keep the table exact, and a stored pair has the kinds its diffs call for |
| `task_stream` | `TaskStream.cfg` | `NothingSkipped`, `DoneMeansComplete`, `PageLearnsTheEnd` | over batches, broken connections and a revision the page skips nothing in order and learns the end last |

### Bounds, and why they are enough

* `TaskStore`: `Init` of `MCTaskStore` chooses a *shape*, a record of bounds on
  tasks, keys, values, events, notes, EnsureGitContext calls and check runs, so
  that one run explores five kinds of history as far as each needs. `Revisions`:
  one task and 18 events, which is two full passes of the status machine with a
  revision between them and a refused third. `Timeline`: notes appended
  before, during and after a revision. `Writers` and `Recorded`: two values, so
  that a second writer differs from the first, on one attempt and across a
  revision. `Competing`: two tasks for one issue.
  `MaxAttempts = 2` makes the limit bite at the second revise.
* `AttemptExecutor`: two runners (a superseded owner and its successor; a third
  adds no new relation to one attempt), `MaxAttempts = 2` (one supersession),
  `MaxFaults` (lapses, crashes, failed calls), `MaxOverdue`, `MaxCommands` and
  `MaxTasks` 1: one fault together with a deadline and a command puts a dead or stalled
  owner, its successor and a caller on one task. `executor_recovery` has a task with
  and one without a repository.
* `WebhookProcessor`: five deliveries in two histories of three, enough for two
  commands and the event they race with; `MaxTrouble = 1` counts redeliveries,
  cancellations, failed calls and inserts, lost answers and crashes together. Handlers' notes
  are kept up to `MaxNotes = 1`, since no step reads them. A third history has no
  command: there `MCWebhookProcessor` runs `InstallationSync`. The two kinds of handlers
  write different tables, so mixing them would only multiply the states.
* `Publish`: two runners, `MaxTrouble = 2` in any combination: a crash of the owner
  and of its successor, a lost answer followed by a crash, a foreign push followed
  by a recovery, a cancellation that races a failing call. Three owners in turn are
  reached. A lease that lapses under a running owner starts two owners at once,
  and their interleavings multiply the states; `LeaseLapses` is therefore the only
  trouble of its behaviour. `OneCheckRun`, `LostMeansUnpushed`,
  `SummaryNotRepeated`, `OwnersCompleteOnce` and one conjunct of `ReviewComplete`
  are promised only of owners that follow one another (`~lapsed`): GitHub has no
  fence, so two owners at once do repeat calls.
* `AgentSession`: three lines, so that a result can be followed by something else and
  preceded by something else, over a pipe that holds one, so that the CLI blocks.
* `TrustedValidation`: two checks (one that ran and one that did not), two owners, and
  three faults, which lets an owner lapse, its successor die and the first come back.
* `RunnerFleet`: one attempt, since Jobs, leases and pods of different attempts share
  nothing but the loops that visit them; two controllers; two pods at once under one
  name, an old one and its replacement, which also execute at once after a lease ran out;
  two faults.
* `ConflictDetection`: two tasks and two owners (a pair is what a row is about), three
  commits, so one revision; diffs on both sides of each threshold, as `MCConflictDetection`
  describes; one lapse, death or failed call.
* `GitWorkspace`: two hosts (one with leftovers and one that took over), two attempts
  that share the branch, three runs of the agent (one that is cut off, one that ends,
  one for the revision), three faults.
* `InstallationSync`: two repositories (one that stays and one that comes or goes), two
  installations in turn, three deliveries, so that two precede or overlap the newest
  (installed, removed and installed again; suspended and reinstated), one handler that
  stops.
* `TaskStream`: batches of two over up to twelve events, so a page opened late needs
  several batches; one revision, two notes (one may be late), two broken connections.

Symmetry is used for interchangeable tasks, issues, keys, values, runners, owners and the
two deliveries of one comment, and never with a liveness property.

### Fairness

All fairness is weak. `AttemptExecutor` and `Publish` assume it of `Run(r)` for each runner
(a worker process polls for work in a loop and the Go scheduler runs it; a crashed
one is restarted and is `idle` again) and of `ExpireLease(x)` (the clock passes
`lease_expires_at` when nobody renews). Nothing is assumed of callers, deadlines,
faults or the watcher goroutines. Faults are finite by `MaxFaults` and
`MaxTrouble`: a database that fails for ever settles nothing.

`AgentSession` assumes it of the session goroutine, the channel, the executor's loop
and the watcher of `os/exec` (`KillGroup`, `WaitDelayPasses`), which the Go runtime
runs; the CLI and its tools may stop at any point and stay there, and nobody need
end the context. `RunnerFleet` assumes it of each controller's loop, each host's
work, the clock for leases nobody renews (`LeaseExpires`; none of `LeaseRunsOut`, which
is a fault), and two promises of the cluster: a Job without a pod gets one
and a finished Job is removed after its TTL. Heartbeats, the reaper, watch events and
faults are free. `TaskStream` assumes it of the handler's rounds, the delivery of
frames and the browser's reconnection; the store may stop at any point.

### Mutants

Each property of a passing run has a mutant in `PROJECT.json`: an operator defined
just before the one it replaces, a plausible bug of that code (a dropped filter,
an off-by-one, last writer wins, a fence that trusts its memory), under which TLC
finds the property violated.

## 5. What is proved

Every theorem is about the `Spec` the runs check, for every value of the module's
constants: any sets of tasks, runners, owners, deliveries, attempts, and any bounds on
faults, which are then no bounds at all. The assumptions named below are about constants
alone; unless the text says otherwise they stand in the modelled module, so that TLC
evaluates them in its run. Most modules have one inductive invariant, from which all
their theorems follow; `AttemptExecutor`, `ConflictDetection` and `GitWorkspace` have a
second one for a property that needs more. Each was first checked by TLC as an invariant
of the run of its module.

### TaskStore (`TaskStoreProofs`)

Assumption: `ConstantsAssumption` (the null values are not members of the sets they
complete, `MaxAttempts` is a positive natural number).

| theorem | statement |
|---|---|
| `StoreInvariant` | `Spec => []StoreInv`, the inductive invariant |
| `TypeCorrect` | `Spec => []TypeOK` |
| `ExactlyOneActiveAttempt` | `Spec => []OneActiveAttempt` |
| `EventsNumbered` | `Spec => []SequencesContiguous` |
| `HistoryCorrect` | keys applied once, the timeline replays, is chronological, and no attempt enters a status twice |
| `IssueExclusive` | `Spec => []OneActiveTaskPerIssue` |
| `RevisionsBounded` | `Spec => []RevisionLimit` |
| `FinishedIsFinal`, `TimelineGrows`, `FirstWriterStays` | the three action properties |

The argument. `StoreInv` says that the created tasks are known ids, that every row
satisfies `RowInv`, and `OneActiveTaskPerIssue`. `RowInv` is the conjunction of
the row's type and the parts of the invariants, strengthened: none of them is
inductive alone. That a transition closes *the newest* attempt needs
`AttemptsOK` (the active attempt is unique, so the `CHOOSE` in `ActiveAttempt`
finds the last one, lemma `ActiveIsNewest`); that an event gets the next number
needs `SequencesOK` (the numbers used are an interval, so MAX + 1 is the next,
lemmas `MaxOfInterval` and `LogOKAppend`); that no attempt enters a status twice
needs a rank of statuses that grows along every edge inside an attempt
(`RankGrows`) and that the newest status event belongs to the newest attempt; and
the revision limit needs that attempts beyond the first were inserted by a command
that carried a comment. The proof has a lemma per row function
(`ApplyTransitionOK`, `TransitionKeepsHistory`, `EnsureStep`, `CheckRunStep`, ...),
each giving that `RowInv` is kept and that `RowStep`, the action properties'
relation of the old row to the new, holds; `NextStep` collects one case per action.

`TypeOK` (in `TypeCorrect`), `KeysAppliedOnce`, `TimelineChronological` and `StatusOnce`
(in `HistoryCorrect`), `TimelineAppendOnly` and `GitContextStable` (in `TimelineGrows` and `FirstWriterStays`)
are proved and are therefore in no run.

### TaskStream (`TaskStoreProofs`)

Assumptions: `ConstantsAssumption` and `StreamAssumption` (the followed task exists, the
statuses it has passed are a path of the status machine, a batch holds at least one event).

| theorem | statement |
|---|---|
| `StreamInvariant` | `StreamSpec => []StreamInv`, the inductive invariant |
| `NothingIsSkipped` | `StreamSpec => []NothingSkipped` |
| `DoneIsComplete` | `StreamSpec => []DoneMeansComplete` |

`StreamInv` takes `RowInv` over from the store, since the cursor is only as good as the
numbering it walks along, and adds that a status event is filed under the newest attempt
(`StatusInOrder`), which is why a terminal status is never behind a cursor. The rest ties
the three cursors together: the page is not ahead of the request, the frames between them
are in order (`ConnectionOK`, `WireOK`), and every event that did not come late is shown,
under way or still to be read (`CoverageOK`). `RoundOK` is the reason for `done`: the
handler reads the status *before* it drains, so a terminal status and an empty round mean
that every status event was written out; `DoneOK` and `EndOK` carry that to the page. A
revision does not break it, since the status machine has none from a terminal status.

That the initial row satisfies `RowInv` is a fact about the recursive function `Advanced`,
for a path of any length, and is proved by the least counterexample (`LeastOf`, from the
library's theorem that the natural numbers are well founded, which takes a set, not an
operator).

### AttemptExecutor (`AttemptExecutorProofs`)

Assumptions: `ExecutorAssumption` (among others that the null runner and the null value
are no runner and no value) and `NoKeyAssumption` (the empty idempotency key is no key).

| theorem | statement |
|---|---|
| `ExecutorInvariant` | `Spec => []ExecutorInv`, the inductive invariant |
| `StagesAreNotSkipped` | `Spec => []NoStageSkipped` |
| `CommittersAreAlone` | `FenceCovers` implies `Spec => []OneCommitter` |
| `ExecutorImplementsStore` | `Spec => StoreSpec`: the executor implements `TaskStore` |
| `SupersededOwnersAreHarmless` | `FenceCovers` and `Configured` imply `Spec => SupersededOwnerHarmless` |

`NoStageSkipped` speaks of tasks, but an owner moves a task by the status it remembers,
which may be behind. It is kept because of the idempotency keys: `ExecutorInv` says that
every stage an attempt has been through has left its key in the timeline (`KeysLeft`), so
the transition of an owner that is behind is a replay; and that an owner about to ask for
`publishing` or `awaiting_review` has the report or the pull request on record
(`LocalOK`), which only grow. `OneCommitter` follows from `FencesHold`: who is inside a
fenced operation is the owner in the lease, and a lease has one owner. That is inductive
only under `FenceCovers`, which is why the theorem has that hypothesis; it is
what `LeaseDuration` is chosen for, and `executor_paused` runs without it.

The refinement. `Store` is `TaskStore` over the executor's own `tasks`, so the mapping is
the identity on tasks and forgets everything else. Every action either leaves `tasks` or
is one operation of the store; what is to be shown (`StepIsStoreStep`) is that
its arguments are ones `Store!Next` quantifies over: the task exists, the attempt is among
the row's attempts, the target is a status of the machine, and the key is one of `Keys \cup
RunnerKeys`. The first two need `LocalOK`, since an owner writes to the attempt it claimed
some time ago. What `TaskStoreProofs` proves of `Store!Spec` therefore holds of the
executor; TLAPS cannot cite a theorem through an `INSTANCE` with substitutions, so the two
halves are stated apart.

`SupersededOwnerHarmless` is about the transitions `drive` commits, failures of the task
among them. It says nothing of `timeoutTask`, which does move the task of a successor
(section 6), and by `FenceCovers` nothing of an owner that stalls between its fence and
its transition for longer than the lease. It needs a second invariant (`OwnersInv`): an owner that still holds
its lease and whose attempt may be superseded has seen it reach review, and then it asks
for nothing. A worker that cannot publish (`~Configured`) completes a task from review, which
is why the theorem is about deployments that publish.

### Publish (`PublishProofs`)

Assumption: `PublishAssumption` (`FirstOwner` is a runner, the null runner is none).

| theorem | statement |
|---|---|
| `PublishInvariant` | `Spec => []PublishInv`, the inductive invariant |
| `ReviewIsComplete` | `Spec => []ReviewComplete` |
| `CheckRunIsSingle` | `Spec => []OneCheckRun` |
| `LostIsUnpushed` | `Spec => []LostMeansUnpushed` |
| `WorkIsKept` | `Spec => WorkKept` |
| `SummaryIsNotRepeated` | `Spec => SummaryNotRepeated` |
| `OwnersCompleteItOnce` | `Spec => OwnersCompleteOnce` |

`PublishInv` has two halves for each owner. `Progress` lists the marks an owner
has left by the time it is at a call: the final commit on the row, the push, the pull
request, the comment. Nobody takes one of them back (`Grows`), so this half needs no lease
and survives crashes, foreign pushes and owners that meet. `Alone` lists what an owner has
read and now relies on: that the pull request names its commit, whether that commit has a
check run, that the trigger check run is not completed yet. That holds only while it is the only one at work,
which the lease gives (`OnlyOwner`) until it lapses under a running owner (`lapsed`). The
promises that need `Alone` are the ones whose definitions excuse `lapsed`.

### TrustedValidation (`TrustedValidationProofs`)

Assumption: `ValidationAssumption` (there is a check; the null owner is no owner).

| theorem | statement |
|---|---|
| `ValidationInvariant` | `Spec => []ValidationInv`, the inductive invariant |
| `PassedIsEarned` | `Spec => []PassedMeansAllPassed` |
| `VerdictIsPublished` | `Spec => []VerdictPublished` |
| `ConclusionIsStable` | `Spec => []OneConclusion` |

A verdict is computed from what an owner has in memory, and its inserts are not fenced, so
the rows might be a mixture. They are not: `RunOK` says that only one owner ever runs checks
(the one whose transition to `validating` was applied), that its memory is the rows
stored so far, and that nobody has reported meanwhile. None of it speaks of who posts:
whoever is about to has read the stored report, which never changes. When it announces, the rows are
complete and never change again (`AnnouncedOK`), and every later report is read from them.
`OverallAgrees` is the lemma that `Overall` and `checkConclusion`, two functions of the
code, read complete rows the same way.

### RunnerFleet (`RunnerFleetProofs`)

| theorem | statement |
|---|---|
| `FleetInvariant` | `Spec => []FleetInv`, the inductive invariant |
| `OneExecutor` | `Spec => []NoDuplicateExecution` |
| `OneLoss` | `Spec => []LossDetectedOnce` |

A pod that executes holds the live lease of its attempt, which is not settled
(`Rightful`), unless that lease ran out under it; a claim needs a lease that is not live.
So of two pods that execute one attempt, one at least has let its lease run out, and no
theorem could say more: the code does execute twice then, and what the two may do to each
other is the subject of `AttemptExecutor`, `TrustedValidation` and `GitWorkspace`. Nothing that the controllers believe
enters the invariant, which is the point: whatever their caches say, Jobs are duplicated
harmlessly.

### GitWorkspace (`RunnerFleetProofs`)

Assumption: `WorkspaceAssumption` (there is a first attempt; the null host is no host).

| theorem | statement |
|---|---|
| `OneRunOfEachAttempt` | `GitSpec => []OneRunPerAttempt` |
| `LeftoversNeverCost` | `GitSpec => []LeftoversCleared` |
| `HostPublishesWhatItValidated` | `GitSpec => []HostPublishesItsRun` |

`WorkInv` says of each disk whose work it holds (`DiskOK`): at most one worktree has the
branch checked out, and either nothing has been done in it, or it holds the edits of one
run on the attempt's base, or that run is committed on top of that base. An execution at
the agent stands on an untouched worktree (`OwnOK`), because `git worktree add -b` refuses
a branch that exists and `CleanupStale` removes both; that is where one run per attempt
comes from, and it holds of every host separately, whoever has the lease. What is on
GitHub has at most one run of each attempt (`OneEach`) because a push is fast-forward only
and the base of an attempt never holds work of that attempt. `LeftOK` is the second
theorem's half: after `CleanupStale` the branch is in the way only if an older attempt's
worktree, or a locked entry, holds it.

`HostPublishesItsRun` is about *which* run, which `WorkInv` does not know. `HostInv` adds
that while one host has claimed the task, that host's worktree holds the run that took
the task to validating (`SoloInv`), and that the disks of all others hold no worktree
(`SeenInv`). With a second host the property promises nothing, see Findings.

### AgentSession (`AgentSessionProofs`)

| theorem | statement |
|---|---|
| `SessionInvariant` | `Spec => []SessionInv`, the inductive invariant |
| `NoProviderIsLeft` | `Spec => []NoProviderLeft` |
| `OutcomesMatch` | `Spec => []OutcomeMatchesEvents` |

The properties speak of the end; the invariant says for each place of the goroutine what
has been *announced*: received by the executor, or on offer in the channel. `Receive`
moves an event from one to the other and so changes nothing (`ClosingOfTail`). The flags of
the goroutine agree with what it announced until it ends, and its error is fixed then.

### WebhookProcessor (`WebhookProcessorProofs`)

Assumptions: `WebhookAssumption`, and `CommandKeysAssumption` (the empty idempotency key is no
command's key).

| theorem | statement |
|---|---|
| `WebhookInvariant` | `Spec => []WebhookInv`, the inductive invariant |
| `OneAttemptForAComment` | `Spec => []OneAttemptPerComment` |
| `PendingIsAlwaysHandled` | `Spec => []PendingIsHandled` |
| `RedeliveriesAreHarmless` | `RunsDistinct` implies `Spec => []RedeliveryHarmless` |
| `AcceptedIsNotRefused` | `Spec => AcceptedNotRefused` |

Two handlers with the same revise comment may both pass the check of `Attempts`, so that no
comment has two attempts rests on the store: every attempt beyond the first has left
the key of its comment in the timeline (`RevisionsOK`), and `RequestRevision` replays a key
it finds. The attempts' comments differ because the handler has seen, before it got there,
that the first attempt was not asked for by its comment (`HandlerOK`), and the first
attempt never changes its comment. `LedgerOK` and `Silent` say when a reply may still
come. `PendingIsHandled` is an equivalence: rows that stay pending with nobody at work
are exactly those of handlers that died or could not write, and of inserts whose answer
was lost. A *run* command has no such key: nothing but the ledger, which admits a delivery
once, keeps it from starting a second task after the first has ended. `RunsDistinct` says what that needs: GitHub announces a
run comment by one delivery, and redelivers under the same id.

### InstallationSync (`WebhookProcessorProofs`)

Assumption: `SyncAssumption` (the bounds are natural numbers).

| theorem | statement |
|---|---|
| `LastEventAlwaysRestores` | `SyncSpec => []LastEventRestores` |

`SyncInv` says nothing of what the tables hold after earlier handlers, which may be
anything. It says that the newest event reports GitHub as it is now (`NewestReports`: each
change of GitHub's sends one), that a handler which has met no other runs alone
(`SoloAlone`), and stage by stage what the handler of the newest event has put right by
then (`SoloRight`): the installation active, the list as GitHub has it, and at the end the
tables true. No handler of an older event can undo it without having met this one.

### ConflictDetection (`ConflictDetectionProofs`)

Assumption: `ConflictAssumption` (a diff is a function from paths to sequences of hunks, the
null owner is no owner).

| theorem | statement |
|---|---|
| `SomeoneIsAlwaysWarned` | `Spec => []SomeoneIsWarned` |
| `TableIsTrue` | `NoPlusLookalike` implies `Spec => []TableTrue` |

The first is an argument about two owners that need not know of each other. Each
records its commit, pushes it, and only then lists the others. `NeverBothBlind` says that
of two live commits in conflict the detections are never both *blind*: to have missed the
other, each would have had to list before the other recorded. The invariant must speak of
detections under way as well as of finished ones, since a list stays in an owner's memory
while the other owner goes on, and the owner may be replaced meanwhile.

The second has two halves. `TruthInv`: whatever is found or stored is about two recorded
commits and has the kinds their diffs call for; this needs that the ranges `parseHunks`
files are the lines a diff changes (lemmas `ParsedWhole`, `AdjacentIsNear`). `SerialInv`: unless windows
overlapped, one owner at most is in its window, and by its stage its siblings, its
findings and the rows it read cover every commit that was checked (`WindowInv`), so that
the table is exact again when it leaves.

`NoPlusLookalike` is a hypothesis on the diffs: no changed line reads `+++ x` in the
patch. `parseHunks` takes such a line for the header of another file and files the hunks
that follow it there (`gitworkspace/conflictops.go:152`), so that the kinds may not be
what the lines call for. The other look-alike, `--- x`, is followed by an error at the
next hunk of its file, which ends the comparison; it is among the diffs of the run and needs
no hypothesis.

### Only model-checked

* Liveness under fairness, which is out of this prover's reach: `EventuallySettled`,
  `PublishingEnds`, `SessionEnds`, `EveryAttemptSettles`, `PageLearnsTheEnd`.

Every safety invariant and safety action property of the passing runs, and the
refinement, is stated by a theorem. The theorems about `TaskStore` do not transfer to
`AttemptExecutor` inside the prover (see there), and what recursive functions compute for
every input is proved only where a least counterexample reaches it (`Advanced`).

## 6. Findings

**A revision on a host without a mirror is refused** (`workspace_fresh_host`).
`EnsureMirror` returns right after `git clone --mirror`
(`gitworkspace/gitworkspace.go:112`), which makes the local branch and no
remote-tracking ref. `verifyBranchTip` reads the remote-tracking ref ("mirror was just
fetched, so the remote-tracking ref is origin's tip", `gitworkspace/workspace.go:152`),
finds none, and the task fails with `base_mismatch` though nobody moved the branch. A
Kubernetes Job starts with an empty volume (`deploy/k8s/runner/job.yaml:118`), so every
revision executed by a Job ends this way. The existing test
(`gitworkspace/manager_test.go:421`) revises on the host of the first attempt.

Other sentences of the code's comments that the code does not keep. Each is a property
of its module with a configuration of its own, named here, which TLC refutes in seconds;
they are not among the runs above.

* **A published task can be timed out while it waits for review**
  (`AttemptExecutor_overdue_review.cfg`). `Execute` reads the context's cause after `drive`
  returned (`runner/executor.go:187-205`) and calls `timeoutTask` (441-469) whenever it
  is `DeadlineExceeded`, also when the transition to `awaiting_review` is already
  committed. The comments say "published tasks wait for human review"
  (`runner/executor.go:543`) and "published task rests there for a human"
  (`runner/store.go:56`). In the same window a revise command may be accepted; the owner
  of attempt 1 then times out attempt 2, because `ExtendLease` renews the lease of a
  superseded attempt. For this reason `SupersededOwnerHarmless` speaks of transitions of
  `drive` only.
* **A validation that was cut off can be shown as a success** (`TrustedValidation_lost.cfg`).
  `drive` finds a `validating` task whose owner died: "record error, never a pass"
  (`runner/executor.go:503`). The `validation.completed` event does say error, but
  `generateEvidence` (510) reports the rows the dead owner had stored, and
  `checkConclusion` (`runner/publish.go:710`) counts only those: if the checks that
  finished passed, the check run says success although the others never ran. The
  successor must still be able to publish, from the worktree an interrupted attempt
  keeps on its host (`runner/executor.go:737`).
* **Recovery can publish the wrong run** (`GitWorkspace_survivor.cfg`). "surviving worktree or
  pushed branch carries the work" (`runner/executor.go:533`), but `Lookup`
  (`gitworkspace/workspace.go:135`) takes any worktree of the attempt. When a run was
  cut off on host A, the next one ended on host B, and B died before its push, then A
  publishes the run that was cut off, under the evidence of the other.
* **Two kinds of leftovers are not cleared** (`GitWorkspace_leftover.cfg`): "clear both,
  retry once" (`runner/publish.go:134`). A `worktree add` killed in its checkout leaves a
  locked entry, which `worktree remove --force` (`gitworkspace/workspace.go:106`) and
  `prune` leave alone; and if attempt 1 was cut off on a host and finished on another, its
  worktree is there still when the revision comes. Either keeps the branch of the task
  checked out; `branch -D` is refused, its error dropped (`gitworkspace/workspace.go:110`),
  and the attempt fails as `workspace_failed`. TLC refutes the property with the first;
  `LeftoversCleared` says that there is no third.
* **A late event makes a suspended or removed installation usable again**
  (`InstallationSync_overtaken.cfg`). `UpsertInstallation` sets `suspended_at = NULL`
  (`github/store.go:122`), or inserts the row, before its handler has asked GitHub
  anything. If a `created` or `installation_repositories` event is overtaken by
  `suspend` or `deleted`, the row ends up active, the list call fails, and nothing takes
  it back: "suspended/missing installation -> ErrNoInstallation: publishing must not
  mint tokens for it" (`github/store.go:283`).

Observations. What follows was met while reading and modelling; no property is about it, and
where a property had to make room for it, the property's comment says so.

* `claimableWhere` recovers `awaiting_review` only for `repository_id IS NULL`
  (`runner/store.go:60`), but `drive` also auto-completes a task *with* a repository
  when the worker cannot publish (`runner/publish.go:46`): if its owner dies first,
  nobody claims it.
* If the insert into the delivery ledger commits and its answer is lost, the handler
  returns 500 without `Dispatch` (`github/webhook.go:92`): the row stays `pending` for
  ever, the redelivery is dropped as a duplicate, and the command is lost (`RecordFails`).
  Nothing reads `pending` rows again.
* `handlePullRequest` checks the phase of a row it read (`github/process.go:482`) and
  transitions without `ExpectedVersion` (498): a pull request closed without merge can
  cancel a task that a revise command has requeued meanwhile (437: "only review-phase
  tasks move").
* `TaskCancelled` and a runner each read `trigger_check_run_completed_at` once and
  decide by that copy (`github/checkrun.go:47`, `runner/publish.go:205`, 529), so both
  can complete one check run. Between runners alone this does not happen
  (`OwnersCompleteOnce`).
* `publishRecovered` accepts any tip of a revision's branch other than the base
  (`runner/publish.go:329`): a foreign commit pushed after the owner died is taken for
  the attempt's work.
* An assessor that answers `conflicts: false` with a severity or evidence violates
  `task_conflicts_semantic_fields_check` (`apps/api/migrations/00008`), and the whole
  `Reconcile` rolls back, the deterministic detections with it.
* A detector that works from a stale list may delete the pair another task has just
  recorded; and a revision's diff starts at the head it revises, so an overlap with the
  first attempt's lines disappears. `SerialTableExact` is promised of detections that do
  not overlap, and of the newest commits only.
* Two handlers of `installation_repositories` may write their lists in the other order,
  and a deletion may fall between the two statements of `SyncRepositories`; the stale
  state stays until the next event. `DeleteInstallation` disables every repository of
  the account (`github/store.go:192`), also those of a new installation whose event
  came first. `LastEventRestores` speaks of the newest event handled last.
* `parseHunks` takes a removed line `-- x` or an added `++ x` for a file header. A
  removed one makes the next hunk an error; after an added one, ranges go to another
  path.
* Three tasks can lock pairs in orders that deadlock; PostgreSQL aborts one. Detection
  of that attempt then fails and publishing goes on.
* An oversized line ends the scan, and the CLI stays blocked on its pipe until the
  context ends, although `agent/claude.go:234` says that stdout was drained. A tool that
  detached itself and closed stdout survives the session.
* A controller deletes a failed Job by name from a snapshot, and may delete a newer Job
  of the same name; its `observed` map hides a replacement that failed in the same way
  until the TTL removes it. Neither loses an attempt (`EveryAttemptSettles`).
* An event appended to an attempt after a newer one has begun is missed by a page
  whose cursor is past it (`Late` in `TaskStream`).

## 7. What is not modelled

* Authentication: OAuth login and sessions are independent of tasks, and each request
  is one row read.
* `reportLoss`, which only appends notes and counts. A clone that is killed half way (`EnsureMirror` takes any directory with
  a `HEAD` for a mirror), symbolic links, branch names.
* The HTTP side of the GitHub client (requests, token cache), payload parsing, the
  signature check, HTTP routing.
* Dashboards, insights and most of the web user interface (read-only); telemetry;
  process wiring and configuration.
* The layout of reports, comments and pull request bodies, the flags, environment and
  redaction of the CLI.
* The seed, slice, fixture and benchmark programs, which are development tools.

PostgreSQL is taken at its word: row locks, unique indexes and atomic transactions hold.
So are the Go runtime, `os/exec` and the Kubernetes Job controller, as far as the modules
above use them.
