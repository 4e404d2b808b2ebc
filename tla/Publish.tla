------------------------------ MODULE Publish -------------------------------
(***************************************************************************)
(* Publishing one attempt to GitHub, call by call:                         *)
(* apps/api/internal/runner/publish.go (publishFromWorkspace,              *)
(* publishRecovered, publishToGitHub, publishNoChange), executor.go        *)
(* (cleanupGitWorkspace, settleTriggerCheckRun, cleanupTerminalRecovery),  *)
(* gitworkspace (Commit, Push, Lookup, Remove) and github/checkrun.go      *)
(* (TaskCancelled).  This is the step Work of AttemptExecutor in the       *)
(* status publishing, opened up.                                           *)
(*                                                                         *)
(* An owner may stop between any two calls and another runner starts over  *)
(* from what is left: the row, the worktree if it can see it, and GitHub.  *)
(* A call that fails may have been carried out.  A fence and the database  *)
(* operation it protects are one step here; AttemptExecutor separates them.*)
(***************************************************************************)
EXTENDS TaskStatus, Naturals

CONSTANTS
  Runners,
  NoRunner,
  FirstOwner,  \* the runner that ran the agent
  MaxTrouble   \* bound on crashes, failed calls, interruptions, lapsed leases,
               \* deadlines, cancellations and commits other people push

ASSUME PublishAssumption ==
  /\ NoRunner \notin Runners /\ FirstOwner \in Runners
  /\ MaxTrouble \in Nat

VARIABLES
  job,     \* the attempt: its number, its task's issue, and the deployment
  row,     \* columns and events of the attempt and the status of its task
  lease,   \* lease_owner and whether lease_expires_at is still ahead
  tree,    \* the attempt's worktree: the host it is on and what it holds
  site,    \* the repository on GitHub
  exec,    \* what each runner process is doing
  api,     \* the cancel handler's trigger check run completion
  trouble, \* how much of MaxTrouble has happened
  lapsed   \* a lease has expired under a running owner, who may go on beside the next

vars == <<job, row, lease, tree, site, exec, api, trouble, lapsed>>

\* base: where the attempt started; work: the commit made of its worktree;
\* other: a commit somebody else put on top of the branch.
Commits == {"base", "work", "other"}

Kinds == {"published", "revision_summary", "no_change"}

NoLease == [owner |-> NoRunner, live |-> FALSE]

NoTree == [host |-> NoRunner, holds |-> "nothing"]

Idle == [pc |-> "idle", ws |-> FALSE, sha |-> "none", pending |-> FALSE,
         found |-> FALSE, concl |-> "none", code |-> "none",
         ctx |-> "live", lost |-> FALSE, err |-> "none"]

\* The first owner has just moved the task to publishing; an agent that changed
\* nothing left a clean tree.  A revision works on the pushed branch of an open
\* pull request.  The trigger check run is queued on GitHub and its id may not be
\* recorded yet.
Init ==
  \E number \in {1, 2}, issue \in BOOLEAN, shared \in BOOLEAN,
     holds \in {"changes", "no_changes"}, recorded \in BOOLEAN :
    /\ number > 1 => issue  \* a revision does not look at it
    /\ job = [number |-> number, issue |-> issue, shared |-> shared]
    /\ row = [status |-> "publishing", final |-> "none", pr |-> FALSE, code |-> "none",
              trigger |-> recorded, completed |-> FALSE, comments |-> {}]
    /\ lease = [owner |-> FirstOwner, live |-> TRUE]
    /\ tree = [host |-> FirstOwner, holds |-> holds]
    /\ site = [branch |-> IF number = 1 THEN "none" ELSE "base",
               pushed |-> FALSE,
               body |-> IF number = 1 THEN "none" ELSE "base",
               checks |-> [c \in Commits |-> 0],
               trigger |-> "queued",
               posted |-> [k \in Kinds |-> 0]]
    /\ exec = [r \in Runners |-> IF r = FirstOwner
                                 THEN [Idle EXCEPT !.pc = "read", !.ws = TRUE] ELSE Idle]
    /\ api = "idle"
    /\ trouble = 0 /\ lapsed = FALSE

-----------------------------------------------------------------------------
(* Leases, time, and the others who touch the task or the branch.          *)

Trouble == trouble < MaxTrouble /\ trouble' = trouble + 1

Holds(r) == lease = [owner |-> r, live |-> TRUE]

Attended == lease.live /\ exec[lease.owner].pc # "idle"

ExpireLease ==
  /\ lease.live /\ ~Attended
  /\ lease' = [lease EXCEPT !.live = FALSE]
  /\ UNCHANGED <<job, row, tree, site, exec, api, trouble, lapsed>>

\* A late heartbeat; in a bounded behaviour it is the only trouble.
LeaseLapses ==
  /\ Attended /\ trouble = 0 /\ trouble' = MaxTrouble
  /\ lapsed' = TRUE
  /\ lease' = [lease EXCEPT !.live = FALSE]
  /\ UNCHANGED <<job, row, tree, site, exec, api>>

\* Somebody else pushes to the working branch.
OthersPush ==
  /\ site.branch \in {"base", "work"} /\ Trouble
  /\ site' = [site EXCEPT !.branch = "other"]
  /\ UNCHANGED <<job, row, lease, tree, exec, api, lapsed>>

\* The attempt still runs: a terminal status closes it.
Active == ~Terminal(row.status)

\* The webhook processor records the check run it queued for this attempt.
RecordTriggerCheckRun ==
  /\ ~row.trigger /\ Active
  /\ row' = [row EXCEPT !.trigger = TRUE]
  /\ UNCHANGED <<job, lease, tree, site, exec, api, trouble, lapsed>>

\* Mutant of Pending: a completed check run is completed again.
PendingWhileRecorded == row.trigger

\* trigger_check_run_id is set and trigger_check_run_completed_at is not.
Pending == row.trigger /\ ~row.completed

\* handleCancelTask, then its observer TaskCancelled, which reads the attempt.
ApiCancel ==
  /\ Active /\ Trouble
  /\ row' = [row EXCEPT !.status = "cancelled"]
  /\ api' = "read"
  /\ UNCHANGED <<job, lease, tree, site, exec, lapsed>>

ApiRead ==
  /\ api = "read"
  /\ api' = IF Pending THEN "update" ELSE "done"
  /\ UNCHANGED <<job, row, lease, tree, site, exec, trouble, lapsed>>

ApiUpdate ==
  /\ api = "update"
  /\ site' = [site EXCEPT !.trigger = "cancelled"]
  /\ api' = "mark"
  /\ UNCHANGED <<job, row, lease, tree, exec, trouble, lapsed>>

ApiMark ==
  /\ api = "mark"
  /\ row' = [row EXCEPT !.completed = TRUE]
  /\ api' = "done"
  /\ UNCHANGED <<job, lease, tree, site, exec, trouble, lapsed>>

\* Every failure only logs; the update may have been carried out.
ApiFails ==
  /\ api \in {"read", "update", "mark"} /\ Trouble
  /\ api' = "done"
  /\ \/ UNCHANGED site
     \/ api = "update" /\ site' = [site EXCEPT !.trigger = "cancelled"]
  /\ UNCHANGED <<job, row, lease, tree, exec, lapsed>>
-----------------------------------------------------------------------------
(* An owner, up to the pull request.                                       *)

Goto(r, e) == exec' = [exec EXCEPT ![r] = e]

\* r is about to make the call pc under a live context.
At(r, pc) == exec[r].pc = pc /\ exec[r].ctx = "live"

\* What outlives the calls of publishing.
Outlives(e) == [Idle EXCEPT !.ws = e.ws, !.ctx = e.ctx, !.lost = e.lost, !.err = e.err]

\* failTask is due with a failure code.
Failing(e, code) == [Outlives(e) EXCEPT !.pc = "fail", !.code = code]

Errored(e) == [Outlives(e) EXCEPT !.pc = "defer", !.err = "error"]

\* COALESCE: the first value recorded stays.
Coalesce(old, none, new) == IF old = none THEN new ELSE old

\* Mutant of Claim: only tasks that still run the agent are recovered.
ClaimBeforePublishing(r) ==
  /\ exec[r].pc = "idle" /\ ~lease.live
  /\ row.status \in PhaseRunning \ {"publishing"}
  /\ lease' = [owner |-> r, live |-> TRUE]
  /\ Goto(r, [Idle EXCEPT !.pc = "recover"])
  /\ UNCHANGED <<job, row, tree, site, api, trouble, lapsed>>

\* claim and the first fence of Execute; drive goes to publishRecovered.
Claim(r) ==
  /\ exec[r].pc = "idle" /\ ~lease.live
  /\ row.status \in PhaseRunning
  /\ lease' = [owner |-> r, live |-> TRUE]
  /\ Goto(r, [Idle EXCEPT !.pc = "recover"])
  /\ UNCHANGED <<job, row, tree, site, api, trouble, lapsed>>

\* Lookup: the worktree exists on a host r can see.
Lookup(r) == tree # NoTree /\ (job.shared \/ tree.host = r)

\* publishRecovered: read the attempt, then work in the surviving worktree or
\* from the pushed branch.
publishRecovered(r) ==
  /\ At(r, "recover")
  /\ Goto(r, IF Lookup(r) THEN [exec[r] EXCEPT !.pc = "read", !.ws = TRUE]
                          ELSE [exec[r] EXCEPT !.pc = "resolve", !.pending = Pending])
  /\ UNCHANGED <<job, row, lease, tree, site, api, trouble, lapsed>>

\* Mutant of ResolveBranch: only the recorded final commit counts as pushed.
ResolveRecorded(r) ==
  /\ At(r, "resolve")
  /\ Goto(r, IF site.branch \in {"none", "base"} \/ site.branch # row.final
             THEN Failing(exec[r], "workspace_lost")
             ELSE [exec[r] EXCEPT !.pc = "final", !.sha = site.branch,
                                  !.concl = "evidence"])
  /\ UNCHANGED <<job, row, lease, tree, site, api, trouble, lapsed>>

\* BranchHeadSHA: a branch that is missing or still at the base was not pushed.
ResolveBranch(r) ==
  /\ At(r, "resolve")
  /\ Goto(r, IF site.branch \in {"none", "base"}
             THEN Failing(exec[r], "workspace_lost")
             ELSE [exec[r] EXCEPT !.pc = "final", !.sha = site.branch,
                                  !.concl = "evidence"])
  /\ UNCHANGED <<job, row, lease, tree, site, api, trouble, lapsed>>

\* publishFromWorkspace reads the attempt once; what it saw of the trigger check
\* run is used after every later call.
ReadAttempt(r) ==
  /\ At(r, "read")
  /\ Goto(r, [exec[r] EXCEPT !.pc = "commit", !.pending = Pending])
  /\ UNCHANGED <<job, row, lease, tree, site, api, trouble, lapsed>>

\* Commit: changes become the commit; a clean tree whose head moved holds a former
\* owner's commit, and one still at the base has no change to publish.
Commit(r) ==
  LET e == exec[r]
  IN /\ At(r, "commit")
     /\ \/ /\ tree.holds \in {"changes", "commit"}
           /\ tree' = [tree EXCEPT !.holds = "commit"]
           /\ Goto(r, [e EXCEPT !.pc = "final", !.sha = "work", !.concl = "evidence"])
        \/ /\ tree.holds = "no_changes"
           /\ Goto(r, [e EXCEPT !.pc = "list", !.sha = "base", !.concl = "neutral"])
           /\ UNCHANGED tree
        \/ /\ tree.holds = "nothing"
           /\ Goto(r, Failing(e, "publish_failed"))
           /\ UNCHANGED tree
     /\ UNCHANGED <<job, row, lease, site, api, trouble, lapsed>>

\* Mutant of RecordFinalCommit: a final commit on record is taken as published.
RecordFinalSkips(r) ==
  /\ At(r, "final")
  /\ row' = [row EXCEPT !.final = Coalesce(@, "none", exec[r].sha)]
  /\ Goto(r, [exec[r] EXCEPT !.pc = IF exec[r].ws THEN "push"
                                    ELSE IF row.final # "none" THEN "list" ELSE "find"])
  /\ UNCHANGED <<job, lease, tree, site, api, trouble, lapsed>>

\* RecordFinalCommit, and the event commit.created.
RecordFinalCommit(r) ==
  /\ At(r, "final")
  /\ row' = [row EXCEPT !.final = Coalesce(@, "none", exec[r].sha)]
  /\ Goto(r, [exec[r] EXCEPT !.pc = IF exec[r].ws THEN "push" ELSE "find"])
  /\ UNCHANGED <<job, lease, tree, site, api, trouble, lapsed>>

\* A push without force is refused once the branch holds somebody else's commit.
Pushable == site.branch # "other"

PushedSite == [site EXCEPT !.branch = "work", !.pushed = TRUE]

Push(r) ==
  /\ At(r, "push")
  /\ \/ /\ Pushable
        /\ site' = PushedSite
        /\ Goto(r, [exec[r] EXCEPT !.pc = "find"])
     \/ /\ ~Pushable
        /\ Goto(r, Failing(exec[r], "publish_failed"))
        /\ UNCHANGED site
  /\ UNCHANGED <<job, row, lease, tree, api, trouble, lapsed>>

\* FindPullRequestByHead, in any state, after conflict detection (whose failures
\* only log).  publishNoChange asks too, for a revision.
FindPullRequest(r) ==
  LET e == exec[r]
      found == site.body # "none"
  IN /\ At(r, "find")
     /\ Goto(r, IF e.concl = "evidence" THEN [e EXCEPT !.pc = "body", !.found = found]
                ELSE IF found THEN [e EXCEPT !.pc = "number"]
                ELSE Failing(e, "no_change"))
     /\ UNCHANGED <<job, row, lease, tree, site, api, trouble, lapsed>>

\* GitHub refuses a second open pull request for one head.
Openable(e) == e.found \/ site.body = "none"

BodySite(e) == [site EXCEPT !.body = e.sha]

\* CreateDraftPullRequest or UpdatePullRequestBody, naming the final commit.
PutPullRequest(r) ==
  LET e == exec[r]
  IN /\ At(r, "body")
     /\ \/ /\ Openable(e)
           /\ site' = BodySite(e)
           /\ Goto(r, [e EXCEPT !.pc = "number", !.found = FALSE])
        \/ /\ ~Openable(e)
           /\ Goto(r, Failing(e, "publish_failed"))
           /\ UNCHANGED site
     /\ UNCHANGED <<job, row, lease, tree, api, trouble, lapsed>>

\* RecordPullRequest.
RecordPullRequest(r) ==
  LET e == exec[r]
  IN /\ At(r, "number")
     /\ row' = [row EXCEPT !.pr = TRUE]
     /\ Goto(r, [e EXCEPT !.pc = IF e.concl = "evidence" THEN "list" ELSE "comment"])
     /\ UNCHANGED <<job, lease, tree, site, api, trouble, lapsed>>

-----------------------------------------------------------------------------
(* Check runs and comments.                                                *)

\* Mutant of ListCheckRuns: the listing is not searched for the attempt.
ListNothing(r) ==
  /\ At(r, "list")
  /\ Goto(r, [exec[r] EXCEPT !.pc = "check", !.found = FALSE])
  /\ UNCHANGED <<job, row, lease, tree, site, api, trouble, lapsed>>

\* upsertCheckRun lists the runs on the commit and looks for the attempt's.
ListCheckRuns(r) ==
  /\ At(r, "list")
  /\ Goto(r, [exec[r] EXCEPT !.pc = "check", !.found = site.checks[exec[r].sha] > 0])
  /\ UNCHANGED <<job, row, lease, tree, site, api, trouble, lapsed>>

CheckSite(e) ==
  IF e.found THEN site ELSE [site EXCEPT !.checks[e.sha] = @ + 1]

\* It updates the one it found or creates one.
PutCheckRun(r) ==
  LET e == exec[r]
  IN /\ At(r, "check")
     /\ site' = CheckSite(e)
     /\ Goto(r, [e EXCEPT !.pc = "trigger", !.sha = "none", !.found = FALSE])
     /\ UNCHANGED <<job, row, lease, tree, api, trouble, lapsed>>

\* Conclusions given while publishing; the others come from settleTriggerCheckRun.
PublishConclusions == {"evidence", "neutral"}

\* After completeTriggerCheckRun: the comment of this kind of attempt, if any.
AfterTrigger(e) ==
  IF e.concl \notin PublishConclusions THEN [Outlives(e) EXCEPT !.pc = "clean"]
  ELSE IF job.number > 1
       THEN [e EXCEPT !.pc = IF e.concl = "evidence" THEN "posted" ELSE "find"]
       ELSE IF job.issue THEN [e EXCEPT !.pc = "comment"]
       ELSE IF e.concl = "evidence" THEN [e EXCEPT !.pc = "cleanup"]
       ELSE Failing(e, "no_change")

\* The context of settleTriggerCheckRun is its own.
TriggerContext(r) ==
  exec[r].ctx = "live" \/ exec[r].concl \notin PublishConclusions

TriggerSite(e) == [site EXCEPT !.trigger = e.concl]

\* completeTriggerCheckRun decides by the attempt as it was read.
CompleteTriggerCheckRun(r) ==
  LET e == exec[r]
  IN /\ e.pc = "trigger" /\ TriggerContext(r)
     /\ \/ /\ e.pending
           /\ site' = TriggerSite(e)
           /\ Goto(r, [e EXCEPT !.pc = "mark", !.pending = FALSE])
        \/ /\ ~e.pending
           /\ Goto(r, AfterTrigger(e))
           /\ UNCHANGED site
     /\ UNCHANGED <<job, row, lease, tree, api, trouble, lapsed>>

\* MarkTriggerCheckRunCompleted.
MarkTriggerCheckRunCompleted(r) ==
  /\ exec[r].pc = "mark" /\ TriggerContext(r)
  /\ row' = [row EXCEPT !.completed = TRUE]
  /\ Goto(r, AfterTrigger(exec[r]))
  /\ UNCHANGED <<job, lease, tree, site, api, trouble, lapsed>>

Kind(e) ==
  IF e.concl = "neutral" THEN "no_change"
  ELSE IF job.number > 1 THEN "revision_summary" ELSE "published"

\* Mutant of CommentPosted: the timeline is not consulted.
CommentNeverPosted(r) ==
  /\ At(r, "posted")
  /\ Goto(r, [exec[r] EXCEPT !.pc = "comment"])
  /\ UNCHANGED <<job, row, lease, tree, site, api, trouble, lapsed>>

\* commentPosted, asked for a revision's summary only.
CommentPosted(r) ==
  /\ At(r, "posted")
  /\ Goto(r, [exec[r] EXCEPT
                !.pc = IF Kind(exec[r]) \in row.comments THEN "cleanup" ELSE "comment"])
  /\ UNCHANGED <<job, row, lease, tree, site, api, trouble, lapsed>>

CommentSite(e) == [site EXCEPT !.posted[Kind(e)] = @ + 1]

\* CreateIssueComment on the issue or on the pull request.
PostComment(r) ==
  /\ At(r, "comment")
  /\ site' = CommentSite(exec[r])
  /\ Goto(r, [exec[r] EXCEPT !.pc = "event"])
  /\ UNCHANGED <<job, row, lease, tree, api, trouble, lapsed>>

\* The event github.comment.posted.
RecordComment(r) ==
  LET e == exec[r]
  IN /\ At(r, "event")
     /\ row' = [row EXCEPT !.comments = @ \cup {Kind(e)}]
     /\ Goto(r, IF e.concl = "evidence" THEN [e EXCEPT !.pc = "cleanup"]
                ELSE Failing(e, "no_change"))
     /\ UNCHANGED <<job, lease, tree, site, api, trouble, lapsed>>

-----------------------------------------------------------------------------
(* The end of an attempt.                                                  *)

Lost(e, pc) == [Outlives(e) EXCEPT !.pc = pc, !.lost = TRUE, !.err = "lost"]

Owns(r) == ~exec[r].lost /\ Holds(r)

\* cleanupGitWorkspace after a complete publication; it ignores the context.
CleanupPublished(r) ==
  LET e == exec[r]
  IN /\ e.pc = "cleanup"
     /\ \/ /\ e.ws /\ Owns(r)
           /\ tree' = NoTree
           /\ Goto(r, [e EXCEPT !.pc = "review", !.ws = FALSE])
        \/ /\ e.ws /\ ~Owns(r)
           /\ Goto(r, Lost(e, "defer"))
           /\ UNCHANGED tree
        \/ /\ ~e.ws
           /\ Goto(r, [e EXCEPT !.pc = "review"])
           /\ UNCHANGED tree
     /\ UNCHANGED <<job, row, lease, site, api, trouble, lapsed>>

\* Fenced transition of the row; one that has its idempotency key is a replay.
Moves(to) == CanTransition(row.status, to) \/ row.status = to

MovedRow(to, code) ==
  IF CanTransition(row.status, to)
  THEN [row EXCEPT !.status = to, !.code = code] ELSE row

\* transition to awaiting_review.
Review(r) ==
  LET e == exec[r]
  IN /\ At(r, "review")
     /\ row' = IF Owns(r) THEN MovedRow("awaiting_review", "none") ELSE row
     /\ Goto(r, IF ~Owns(r) THEN Lost(e, "defer")
                ELSE IF Moves("awaiting_review") THEN [Outlives(e) EXCEPT !.pc = "end"]
                ELSE Errored(e))
     /\ UNCHANGED <<job, lease, tree, site, api, trouble, lapsed>>

\* failTask.
FailTask(r) ==
  LET e == exec[r]
  IN /\ At(r, "fail")
     /\ row' = IF Owns(r) THEN MovedRow("failed", e.code) ELSE row
     /\ Goto(r, IF ~Owns(r) THEN Lost(e, "defer")
                ELSE IF Moves("failed")
                THEN [Outlives(e) EXCEPT !.pc = "defer", !.err = "failed"]
                ELSE Errored(e))
     /\ UNCHANGED <<job, lease, tree, site, api, trouble, lapsed>>

\* Mutant of KeepsWorktree: an interrupted publication cleans up too.
KeepsNothing(e) == FALSE

\* An error other than failTask's keeps the worktree of a task that may go on.
KeepsWorktree(e) == e.err # "failed" /\ Active

\* The deferred cleanupGitWorkspace of a publication that did not complete.
CleanupDeferred(r) ==
  LET e == exec[r]
      done == [e EXCEPT !.pc = "end", !.ws = FALSE]
  IN /\ e.pc = "defer"
     /\ \/ /\ e.ws /\ Owns(r) /\ ~KeepsWorktree(e)
           /\ tree' = NoTree
           /\ Goto(r, done)
        \/ /\ e.ws /\ Owns(r) /\ KeepsWorktree(e)
           /\ Goto(r, done)
           /\ UNCHANGED tree
        \/ /\ e.ws /\ ~Owns(r)
           /\ Goto(r, Lost(done, "end"))
           /\ UNCHANGED tree
        \/ /\ ~e.ws
           /\ Goto(r, done)
           /\ UNCHANGED tree
     /\ UNCHANGED <<job, row, lease, site, api, trouble, lapsed>>

\* Execute after drive: a deadline that failTask did not precede times it out.
EndDrive(r) ==
  LET e == exec[r]
      timedOut == e.ctx = "deadline" /\ ~e.lost /\ e.err # "failed"
  IN /\ e.pc = "end"
     /\ Goto(r, [e EXCEPT !.pc = IF timedOut THEN "timeout" ELSE "settle"])
     /\ UNCHANGED <<job, row, lease, tree, site, api, trouble, lapsed>>

TimeoutTask(r) ==
  LET e == exec[r]
  IN /\ e.pc = "timeout"
     /\ row' = IF Owns(r) THEN MovedRow("timed_out", "task_runtime_exceeded") ELSE row
     /\ Goto(r, IF Owns(r) THEN [e EXCEPT !.pc = "settle"] ELSE Lost(e, "settle"))
     /\ UNCHANGED <<job, lease, tree, site, api, trouble, lapsed>>

\* The conclusion a task's end gives its trigger check run.
terminalCheckConclusion(s) ==
  CASE s = "failed" -> "failure" [] s = "cancelled" -> "cancelled"
    [] s = "timed_out" -> "timed_out" [] OTHER -> "none"

\* settleTriggerCheckRun reads the attempt again ...
SettleRead(r) ==
  LET e == exec[r]
  IN /\ e.pc = "settle"
     /\ Goto(r, IF e.lost THEN Idle
                ELSE [e EXCEPT !.pc = IF Pending THEN "settle_fence" ELSE "clean"])
     /\ UNCHANGED <<job, row, lease, tree, site, api, trouble, lapsed>>

\* ... and, fenced, completes the check run of a task that ended.
SettleFence(r) ==
  LET e == exec[r]
      concl == terminalCheckConclusion(row.status)
  IN /\ e.pc = "settle_fence"
     /\ Goto(r, IF concl = "none" THEN [e EXCEPT !.pc = "clean"]
                ELSE IF ~Owns(r) THEN Idle
                ELSE [e EXCEPT !.pc = "trigger", !.concl = concl, !.pending = TRUE])
     /\ UNCHANGED <<job, row, lease, tree, site, api, trouble, lapsed>>

\* cleanupTerminalRecovery: a task that ended needs no worktree.
CleanupTerminal(r) ==
  LET e == exec[r]
  IN /\ e.pc = "clean"
     /\ tree' = IF Owns(r) /\ Terminal(row.status) /\ Lookup(r) THEN NoTree ELSE tree
     /\ Goto(r, IF Owns(r) THEN [e EXCEPT !.pc = "release"] ELSE Idle)
     /\ UNCHANGED <<job, row, lease, site, api, trouble, lapsed>>

Release(r) ==
  /\ exec[r].pc = "release"
  /\ lease' = IF lease.owner = r THEN NoLease ELSE lease
  /\ Goto(r, Idle)
  /\ UNCHANGED <<job, row, tree, site, api, trouble, lapsed>>

-----------------------------------------------------------------------------
(* What disturbs an owner.                                                 *)

GitHubCalls == {"resolve", "commit", "push", "find", "body", "list", "check", "comment"}

\* Calls to the database or to git whose failure is returned as it is.
StoreCalls == {"recover", "read", "final", "number", "posted", "event", "review", "fail"}

\* The calls made under the context of the attempt.
ContextCalls(e) ==
  \/ e.pc \in GitHubCalls \cup StoreCalls
  \/ e.pc \in {"trigger", "mark"} /\ e.concl \in PublishConclusions

\* The GitHub state a call leaves behind.
SiteAfter(e) ==
  CASE e.pc = "push"    -> IF Pushable THEN PushedSite ELSE site
    [] e.pc = "body"    -> IF Openable(e) THEN BodySite(e) ELSE site
    [] e.pc = "check"   -> CheckSite(e)
    [] e.pc = "trigger" -> IF e.pending THEN TriggerSite(e) ELSE site
    [] e.pc = "comment" -> CommentSite(e)
    [] OTHER            -> site

\* publishFailure under a live context: the task fails, whether or not the call
\* was carried out.
PublishFailure(r) ==
  /\ \E pc \in GitHubCalls : At(r, pc)
  /\ Trouble
  /\ site' \in {site, SiteAfter(exec[r])}
  /\ Goto(r, Failing(exec[r], "publish_failed"))
  /\ UNCHANGED <<job, row, lease, tree, api, lapsed>>

\* The trigger check run cannot be updated: logged, never blocking.
TriggerUnreachable(r) ==
  /\ exec[r].pc = "trigger" /\ exec[r].pending /\ TriggerContext(r)
  /\ Trouble
  /\ site' \in {site, SiteAfter(exec[r])}
  /\ Goto(r, AfterTrigger([exec[r] EXCEPT !.pending = FALSE]))
  /\ UNCHANGED <<job, row, lease, tree, api, lapsed>>

\* The row a write leaves behind.
RowAfter(r) ==
  LET e == exec[r]
  IN CASE e.pc = "final"  -> [row EXCEPT !.final = Coalesce(@, "none", e.sha)]
       [] e.pc = "number" -> [row EXCEPT !.pr = TRUE]
       [] e.pc = "mark"   -> [row EXCEPT !.completed = TRUE]
       [] e.pc = "event"  -> [row EXCEPT !.comments = @ \cup {Kind(e)}]
       [] e.pc = "review" /\ Owns(r) -> MovedRow("awaiting_review", "none")
       [] e.pc = "fail" /\ Owns(r)   -> MovedRow("failed", e.code)
       [] OTHER -> row

\* Calls preceded by an event to append, a report to load or a head to read.
AfterAppend == {"commit", "push", "find", "list", "comment"}

\* The database fails a call, whether or not it was carried out, or the worktree
\* cannot be removed; the attempt stays recoverable.
StoreFails(r) ==
  LET e == exec[r]
  IN /\ \/ \E pc \in StoreCalls \cup AfterAppend : At(r, pc)
        \/ At(r, "trigger") /\ e.concl \in PublishConclusions
        \/ e.pc = "mark" /\ TriggerContext(r)
        \/ e.pc = "cleanup" /\ e.ws
     /\ Trouble
     /\ row' \in {row, RowAfter(r)}
     /\ Goto(r, IF e.pc = "mark" /\ e.concl \notin PublishConclusions
                THEN [Outlives(e) EXCEPT !.pc = "clean"] ELSE Errored(e))
     /\ UNCHANGED <<job, lease, tree, site, api, lapsed>>

\* One step of the end of Execute fails and the next ones still run.
EndFails(r) ==
  LET e == exec[r]
      next == CASE e.pc = "defer" -> "end" [] e.pc = "timeout" -> "settle"
                [] e.pc \in {"settle", "settle_fence"} -> "clean"
                [] e.pc = "clean" -> "release"
  IN /\ e.pc \in {"defer", "timeout", "settle", "settle_fence", "clean"} /\ ~e.lost
     /\ Trouble
     /\ Goto(r, [e EXCEPT !.pc = next, !.ws = FALSE])
     /\ UNCHANGED <<job, row, lease, tree, site, api, lapsed>>

\* The context is done: whatever is called next under it fails.
Abandon(r) ==
  /\ exec[r].ctx # "live" /\ ContextCalls(exec[r])
  /\ Goto(r, Errored(exec[r]))
  /\ UNCHANGED <<job, row, lease, tree, site, api, trouble, lapsed>>

\* drive has not returned: the context still follows the heartbeat, the watcher
\* and the deadline.
Driving(e) == e.pc \in {"cleanup", "defer", "end"} \/ ContextCalls(e)

WatchCancels(r) ==
  /\ Driving(exec[r]) /\ exec[r].ctx = "live" /\ Terminal(row.status)
  /\ Goto(r, [exec[r] EXCEPT !.ctx = "stopped"])
  /\ UNCHANGED <<job, row, lease, tree, site, api, trouble, lapsed>>

HeartbeatLost(r) ==
  /\ Driving(exec[r]) /\ ~exec[r].lost /\ ~Holds(r)
  /\ Goto(r, [exec[r] EXCEPT !.lost = TRUE, !.ctx = IF @ = "live" THEN "stopped" ELSE @])
  /\ UNCHANGED <<job, row, lease, tree, site, api, trouble, lapsed>>

DeadlineFires(r) ==
  /\ Driving(exec[r]) /\ exec[r].ctx = "live" /\ Trouble
  /\ Goto(r, [exec[r] EXCEPT !.ctx = "deadline"])
  /\ UNCHANGED <<job, row, lease, tree, site, api, lapsed>>

\* The heartbeat cannot reach the database, or the process is asked to stop.
Interrupted(r) ==
  /\ Driving(exec[r]) /\ exec[r].ctx = "live" /\ Trouble
  /\ Goto(r, [exec[r] EXCEPT !.ctx = "stopped"])
  /\ UNCHANGED <<job, row, lease, tree, site, api, lapsed>>

Crash(r) ==
  /\ exec[r].pc # "idle" /\ Trouble
  /\ Goto(r, Idle)
  /\ UNCHANGED <<job, row, lease, tree, site, api, lapsed>>

-----------------------------------------------------------------------------
Run(r) ==
  \/ Claim(r) \/ publishRecovered(r) \/ ResolveBranch(r) \/ ReadAttempt(r)
  \/ Commit(r) \/ RecordFinalCommit(r) \/ Push(r) \/ FindPullRequest(r)
  \/ PutPullRequest(r) \/ RecordPullRequest(r) \/ ListCheckRuns(r) \/ PutCheckRun(r)
  \/ CompleteTriggerCheckRun(r) \/ MarkTriggerCheckRunCompleted(r)
  \/ CommentPosted(r) \/ PostComment(r) \/ RecordComment(r)
  \/ CleanupPublished(r) \/ Review(r) \/ FailTask(r) \/ CleanupDeferred(r)
  \/ EndDrive(r) \/ TimeoutTask(r) \/ SettleRead(r) \/ SettleFence(r)
  \/ CleanupTerminal(r) \/ Release(r) \/ Abandon(r)

Disturb(r) ==
  \/ PublishFailure(r) \/ TriggerUnreachable(r) \/ StoreFails(r) \/ EndFails(r)
  \/ WatchCancels(r) \/ HeartbeatLost(r) \/ DeadlineFires(r) \/ Interrupted(r)
  \/ Crash(r)

Observer == ApiRead \/ ApiUpdate \/ ApiMark \/ ApiFails

Next ==
  \/ \E r \in Runners : Run(r) \/ Disturb(r)
  \/ Observer
  \/ ExpireLease \/ LeaseLapses \/ OthersPush \/ RecordTriggerCheckRun \/ ApiCancel

\* Runner processes keep polling and executing, and the clock expires a lease
\* nobody renews; nothing is assumed of the others.
Fairness == WF_vars(ExpireLease) /\ \A r \in Runners : WF_vars(Run(r))

Spec == Init /\ [][Next]_vars /\ Fairness

-----------------------------------------------------------------------------
(* Properties.                                                             *)

EndCalls == {"defer", "end", "timeout", "settle", "settle_fence", "clean", "release"}

\* The recorded and remote state is well formed, and a call about a commit has one.
TypeOK ==
  /\ row.status \in AllStatuses
  /\ row.final \in Commits \cup {"none"} /\ row.comments \subseteq Kinds
  /\ site.branch \in Commits \cup {"none"} /\ site.body \in Commits \cup {"none"}
  /\ tree.holds \in {"changes", "no_changes", "commit", "nothing"}
  /\ \A r \in Runners :
       /\ exec[r].pc \in {"idle", "trigger", "mark", "cleanup"} \cup GitHubCalls
                           \cup StoreCalls \cup EndCalls
       /\ exec[r].pc \in {"final", "push", "body", "list", "check"} =>
            exec[r].sha \in Commits

\* publish.go, publishToGitHub: however many owners it took, a task reaches review
\* only with its pull request recorded, the body and an evidence check run on the
\* same commit, and the issue or the pull request told about it.
ReviewComplete ==
  row.status = "awaiting_review" =>
    /\ row.pr /\ row.final # "none"
    /\ site.body # "none" /\ (lapsed \/ site.checks[site.body] > 0)
    /\ job.number > 1 => site.posted["revision_summary"] > 0
    /\ job.number = 1 /\ job.issue => site.posted["published"] > 0

\* publish.go, upsertCheckRun ("check run by external id"): owners that follow one
\* another leave one evidence check run on a commit.
OneCheckRun == ~lapsed => \A c \in Commits : site.checks[c] <= 1

\* publish.go, publishRecovered: workspace_lost ("the workspace was lost before its
\* work was pushed") is never said of work that was pushed, whatever others pushed
\* on top of it.
LostMeansUnpushed == ~lapsed /\ row.code = "workspace_lost" => ~site.pushed

\* executor.go, cleanupGitWorkspace, and gitworkspace/workspace.go, Remove
\* ("committed work already pushed"): a worktree with work in it is removed only
\* once the work is on the branch or the task has ended.
WorkKept ==
  [][tree.holds \in {"changes", "commit"} /\ tree'.holds = "nothing" =>
       site.pushed \/ Terminal(row.status)]_vars

\* publish.go, postRevisionSummary: a summary the timeline records is not posted
\* again by a later owner.
SummaryNotRepeated ==
  [][site'.posted["revision_summary"] # site.posted["revision_summary"] =>
       lapsed \/ "revision_summary" \notin row.comments]_vars

\* publish.go, completeTriggerCheckRun: as long as the API does not interfere, a
\* trigger check run marked completed keeps its conclusion under every later owner.
OwnersCompleteOnce ==
  [][~lapsed /\ api' = "idle" /\ row.completed => site'.trigger = site.trigger]_vars

\* runner/store.go, claimableWhere, and publishRecovered: after finitely many
\* faults an attempt leaves publishing and no runner holds its lease.
PublishingEnds == <>[](row.status # "publishing" /\ ~lease.live)
=============================================================================
