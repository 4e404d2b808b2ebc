---------------------------- MODULE GitWorkspace ----------------------------
(***************************************************************************)
(* The worktrees of one task on the hosts that work on it:                 *)
(* apps/api/internal/gitworkspace (EnsureMirror, CreateWorktree,           *)
(* CleanupStale, Lookup, Remove, Commit, Push) as runner/publish.go and    *)
(* runner/executor.go use them to provision an attempt, to publish it, to  *)
(* recover it and to clean up.                                             *)
(*                                                                         *)
(* Every host has a disk of its own and executes one attempt at a time (a  *)
(* mirror is not shared by processes).  A host that lost its lease goes on *)
(* until its next fence; one that died finds its disk as it left it.       *)
(*                                                                         *)
(* A commit is the sequence of changes it holds on top of the task's base: *)
(* <<attempt, run>> is what one run of the agent did.                      *)
(***************************************************************************)
EXTENDS Naturals
LOCAL INSTANCE SequencesExt

CONSTANTS
  Hosts, NoHost,
  MaxAttempts,  \* attempts of the task
  MaxRuns,      \* bound on runs of the agent
  MaxMishaps     \* bound on lapses, deaths, failed calls and foreign pushes

ASSUME WorkspaceAssumption ==
  /\ NoHost \notin Hosts
  /\ MaxAttempts \in Nat \ {0} /\ {MaxRuns, MaxMishaps} \subseteq Nat

VARIABLES
  task,    \* status, newest attempt, the base of each attempt, and the run that
           \* took it to validating
  lease,   \* the host whose lease on the newest attempt is live
  disk,    \* the mirror of each host and the worktrees it holds
  own,     \* what each host is doing
  origin,  \* the working branch on GitHub, << >> before its first push
  runs,    \* runs of the agent so far
  seen,    \* history: the hosts that have claimed the task
  mishaps

gitVars == <<task, lease, disk, own, origin, runs, seen, mishaps>>

AttemptNumbers == 1..MaxAttempts
Foreign == <<0, 0>>

NoBranch == [exists |-> FALSE, at |-> << >>]
NoTree == [exists |-> FALSE, edits |-> << >>]

\* mirror: the clone of the repository; tip: the remote-tracking ref of the branch;
\* branch: the local branch; edits: what a worktree, which has the branch checked
\* out, holds on top of it; locked: a worktree add that was killed has left its
\* entry in the mirror locked ("initializing"), and the entry keeps the branch
\* checked out, whether its worktree is there or not.
EmptyDisk == [mirror |-> FALSE, tip |-> NoBranch, branch |-> NoBranch, locked |-> FALSE,
              trees |-> [a \in AttemptNumbers |-> NoTree]]

\* ws: the execution has a worktree to clean up; again: CleanupStale was tried;
\* hit: a call of the provisioning failed by itself.
Idle == [pc |-> "idle", attempt |-> 0, ws |-> FALSE, again |-> FALSE, hit |-> FALSE,
         code |-> "none"]

GitInit ==
  /\ task = [status |-> "running", attempt |-> 1,
             base |-> [a \in AttemptNumbers |-> << >>],
             kept |-> [a \in AttemptNumbers |-> 0]]
  /\ lease = NoHost
  /\ disk = [h \in Hosts |-> EmptyDisk]
  /\ own = [h \in Hosts |-> Idle]
  /\ origin = << >> /\ runs = 0 /\ seen = {} /\ mishaps = 0

Mishap == mishaps < MaxMishaps /\ mishaps' = mishaps + 1

At(h, pc) == own[h].pc = pc
Goto(h, e) == own' = [own EXCEPT ![h] = e]
GoTo(h, pc) == Goto(h, [own[h] EXCEPT !.pc = pc])

\* Task.Status.Terminal; "running" is provisioning, planning or executing.
Active == task.status \in {"running", "validating", "publishing", "review"}

\* The lease is the one of the attempt that h works on.
HoldsLease(h) == lease = h /\ own[h].attempt = task.attempt

Failing(e, code) == [e EXCEPT !.pc = "fail", !.code = code]

-----------------------------------------------------------------------------
(* The task, its leases and its branch, as others see and move them.       *)

\* Mutant of Stage: a surviving worktree is published whatever the status.
StageReattaching(h) ==
  CASE disk[h].trees[task.attempt].exists -> "commit"
    [] task.status = "running" -> "mirror"
    [] task.status = "validating" -> "validated"
    [] OTHER -> "recover"

\* Where drive takes a claimed task up.
Stage(h) ==
  CASE task.status = "running" -> "mirror"
    [] task.status = "validating" -> "validated"
    [] OTHER -> "recover"

Claim(h) ==
  /\ At(h, "idle") /\ lease = NoHost
  /\ task.status \in {"running", "validating", "publishing"}
  /\ lease' = h /\ seen' = seen \cup {h}
  /\ Goto(h, [Idle EXCEPT !.attempt = task.attempt, !.pc = Stage(h)])
  /\ UNCHANGED <<task, disk, origin, runs, mishaps>>

LeaseLapses ==
  /\ Mishap /\ lease # NoHost
  /\ lease' = NoHost
  /\ UNCHANGED <<task, disk, own, origin, runs, seen>>

\* A heartbeat or a fence tells an owner that its lease is gone: it leaves
\* everything as it is.
FenceLost(h) ==
  /\ ~At(h, "idle") /\ ~HoldsLease(h)
  /\ Goto(h, Idle)
  /\ UNCHANGED <<task, lease, disk, origin, runs, seen, mishaps>>

\* The process dies, and its lease expires before anybody claims again.
Crash(h) ==
  /\ ~At(h, "idle") /\ Mishap
  /\ Goto(h, Idle)
  /\ lease' = IF lease = h THEN NoHost ELSE lease
  /\ UNCHANGED <<task, disk, origin, runs, seen>>

\* RequestRevision: the base is the head of the pull request.
Revise ==
  /\ task.status = "review" /\ task.attempt < MaxAttempts
  /\ task' = [task EXCEPT !.status = "running", !.attempt = @ + 1,
                          !.base[task.attempt + 1] = origin]
  /\ lease' = NoHost
  /\ UNCHANGED <<disk, own, origin, runs, seen, mishaps>>

\* The task is cancelled, merged, closed or timed out.
Finish ==
  /\ Active
  /\ task' = [task EXCEPT !.status = "finished"]
  /\ UNCHANGED <<lease, disk, own, origin, runs, seen, mishaps>>

ForeignPush ==
  /\ origin # << >> /\ Mishap
  /\ origin' = Append(origin, Foreign)
  /\ UNCHANGED <<task, lease, disk, own, runs, seen>>

-----------------------------------------------------------------------------
(* Provisioning.                                                           *)

Ref(commit) == [exists |-> commit # << >>, at |-> commit]

\* clone --mirror copies every ref as it is; a later fetch takes the agent branches
\* to remote-tracking refs and leaves the local ones alone.
Mirrored(d) ==
  IF d.mirror THEN [d EXCEPT !.tip = Ref(origin)]
  ELSE [d EXCEPT !.mirror = TRUE, !.branch = Ref(origin)]

EnsureMirror(h) ==
  /\ At(h, "mirror")
  /\ disk' = [disk EXCEPT ![h] = Mirrored(@)]
  /\ GoTo(h, "add")
  /\ UNCHANGED <<task, lease, origin, runs, seen, mishaps>>

\* createWorktreeRetryingStale: the first failure is taken for a leftover.
Retry(e) == IF e.again THEN Failing(e, "workspace_failed") ELSE [e EXCEPT !.pc = "stale"]

\* verifyBranchTip, for a revision.
TipMoved(h) ==
  own[h].attempt > 1 /\ disk[h].tip # Ref(task.base[own[h].attempt])

\* Mutant of Occupied: an existing worktree is taken over as it is.
OccupiedByBranch(d, a) == d.branch.exists /\ ~d.trees[a].exists

\* The path is taken, or git worktree add -b finds the branch.
Occupied(d, a) == d.trees[a].exists \/ d.branch.exists

\* The disk with a fresh branch and worktree at the attempt's base.
Added(d, a) ==
  [d EXCEPT !.branch = [exists |-> TRUE, at |-> IF @.exists THEN @.at ELSE task.base[a]],
            !.trees[a].exists = TRUE]

\* CreateWorktree under the lock of the repository.
CreateWorktree(h) ==
  LET a == own[h].attempt
      e == own[h]
  IN /\ At(h, "add")
     /\ \/ /\ TipMoved(h)
           /\ Goto(h, Failing(e, "base_mismatch"))
           /\ UNCHANGED disk
        \/ /\ ~TipMoved(h) /\ Occupied(disk[h], a)
           /\ Goto(h, Retry(e))
           /\ UNCHANGED disk
        \/ /\ ~TipMoved(h) /\ ~Occupied(disk[h], a)
           /\ disk' = [disk EXCEPT ![h] = Added(@, a)]
           /\ Goto(h, [e EXCEPT !.pc = "agent", !.ws = TRUE])
     /\ UNCHANGED <<task, lease, origin, runs, seen, mishaps>>

\* What a worktree add that did not end leaves: nothing, the branch, the branch and
\* the worktree, or, killed in its checkout, those with the entry still locked.
Leftovers(d, a) ==
  LET whole == Added(d, a)
  IN {d, [d EXCEPT !.branch = whole.branch], whole, [whole EXCEPT !.locked = TRUE]}

AddLeaves(h) ==
  IF TipMoved(h) \/ Occupied(disk[h], own[h].attempt) THEN {disk[h]}
  ELSE Leftovers(disk[h], own[h].attempt)

\* A fetch or a worktree add fails, or is killed with the context of the call.
ProvisionFails(h) ==
  /\ own[h].pc \in {"mirror", "add"} /\ Mishap
  /\ \/ UNCHANGED disk
     \/ At(h, "add") /\ \E d \in AddLeaves(h) : disk' = [disk EXCEPT ![h] = d]
  /\ Goto(h, Retry([own[h] EXCEPT !.hit = TRUE]))
  /\ UNCHANGED <<task, lease, origin, runs, seen>>

\* The process dies in the middle of a worktree add.
AddCut(h) ==
  /\ At(h, "add") /\ Mishap
  /\ \E d \in AddLeaves(h) : disk' = [disk EXCEPT ![h] = d]
  /\ Goto(h, Idle)
  /\ lease' = IF lease = h THEN NoHost ELSE lease
  /\ UNCHANGED <<task, origin, runs, seen>>

\* Mutant of Cleared: the worktree goes and its branch stays.
ClearedKeepingBranch(d, a) == [d EXCEPT !.trees[a] = NoTree]

\* worktree remove, RemoveAll, branch -D and prune; git refuses to delete a branch
\* that another worktree or a locked entry has checked out, and neither remove
\* --force nor prune takes a locked entry away.  The refusals are dropped.
Cleared(d, a) ==
  [d EXCEPT !.trees[a] = NoTree,
            !.branch = IF d.locked \/ \E b \in AttemptNumbers \ {a} : d.trees[b].exists
                       THEN @ ELSE NoBranch]

\* The fence and CleanupStale, then the second try; prune needs the mirror.
CleanupStale(h) ==
  LET e == own[h]
  IN /\ At(h, "stale") /\ HoldsLease(h)
     /\ \/ /\ disk[h].mirror
           /\ disk' = [disk EXCEPT ![h] = Cleared(@, e.attempt)]
           /\ Goto(h, [e EXCEPT !.pc = "mirror", !.again = TRUE])
           /\ UNCHANGED mishaps
        \/ /\ IF disk[h].mirror THEN Mishap ELSE UNCHANGED mishaps
           /\ Goto(h, Failing([e EXCEPT !.hit = TRUE], "workspace_failed"))
           /\ UNCHANGED disk
     /\ UNCHANGED <<task, lease, origin, runs, seen>>

-----------------------------------------------------------------------------
(* Work and publication.                                                   *)

\* A run of the agent; Crash or Interrupt afterwards is one that was cut off.
RunAgent(h) ==
  LET a == own[h].attempt
  IN /\ At(h, "agent") /\ runs < MaxRuns
     /\ runs' = runs + 1
     /\ disk' = [disk EXCEPT ![h].trees[a].edits = Append(@, <<a, runs + 1>>)]
     /\ GoTo(h, "advance")
     /\ UNCHANGED <<task, lease, origin, seen, mishaps>>

\* The session ended: the fenced transition to validating.
ToValidating(h) ==
  LET a == own[h].attempt
      edits == disk[h].trees[a].edits
  IN /\ At(h, "advance") /\ HoldsLease(h)
     /\ task.status = "running"
     /\ task' = [task EXCEPT !.status = "validating",
                             !.kept[a] = edits[Len(edits)][2]]
     /\ GoTo(h, "validated")
     /\ UNCHANGED <<lease, disk, origin, runs, seen, mishaps>>

\* Validation and evidence, or the error recorded by an owner that finds the task
\* validating, and the fenced transition to publishing.
ToPublishing(h) ==
  /\ At(h, "validated") /\ HoldsLease(h)
  /\ task.status = "validating"
  /\ task' = [task EXCEPT !.status = "publishing"]
  /\ GoTo(h, IF own[h].ws THEN "commit" ELSE "recover")
  /\ UNCHANGED <<lease, disk, origin, runs, seen, mishaps>>

\* publishRecovered: Lookup asks only whether the attempt has a worktree here.
publishRecovered(h) ==
  LET a == own[h].attempt
      found == disk[h].trees[a].exists
  IN /\ At(h, "recover")
     /\ disk' = IF found THEN [disk EXCEPT ![h] = Mirrored(@)] ELSE disk
     /\ Goto(h, IF found
                THEN [own[h] EXCEPT !.pc = "commit", !.ws = TRUE]
                ELSE IF origin = task.base[a] THEN Failing(own[h], "workspace_lost")
                ELSE [own[h] EXCEPT !.pc = "review"])
     /\ UNCHANGED <<task, lease, origin, runs, seen, mishaps>>

\* Commit; a clean worktree still at its base is a run that changed nothing.
Commit(h) ==
  LET a == own[h].attempt
      d == disk[h]
      head == d.branch.at \o d.trees[a].edits
  IN /\ At(h, "commit")
     /\ disk' = [disk EXCEPT ![h].branch.at = head, ![h].trees[a].edits = << >>]
     /\ Goto(h, IF head = task.base[a] THEN Failing(own[h], "no_change")
                ELSE [own[h] EXCEPT !.pc = "push"])
     /\ UNCHANGED <<task, lease, origin, runs, seen, mishaps>>

\* Push, never forced and not fenced.
Push(h) ==
  LET head == disk[h].branch.at
  IN /\ At(h, "push")
     /\ \/ /\ IsPrefix(origin, head)
           /\ origin' = head
           /\ GoTo(h, "remove")
        \/ /\ ~IsPrefix(origin, head)
           /\ Goto(h, Failing(own[h], "publish_failed"))
           /\ UNCHANGED origin
     /\ UNCHANGED <<task, lease, disk, runs, seen, mishaps>>

\* cleanupGitWorkspace of a publication that is complete: the fence and Remove, which
\* fails on a locked worktree.
RemoveWorktree(h) ==
  /\ At(h, "remove") /\ HoldsLease(h) /\ ~disk[h].locked
  /\ disk' = [disk EXCEPT ![h] = Cleared(@, own[h].attempt)]
  /\ Goto(h, [own[h] EXCEPT !.pc = "review", !.ws = FALSE])
  /\ UNCHANGED <<task, lease, origin, runs, seen, mishaps>>

\* The fenced transition to awaiting_review.
Review(h) ==
  /\ At(h, "review") /\ HoldsLease(h)
  /\ task.status = "publishing"
  /\ task' = [task EXCEPT !.status = "review"]
  /\ GoTo(h, "end")
  /\ UNCHANGED <<lease, disk, origin, runs, seen, mishaps>>

-----------------------------------------------------------------------------
(* The end of an execution.                                                *)

\* A failed call or the end of the context, with which git is killed: drive returns
\* with an error.
Interrupt(h) ==
  /\ own[h].pc \in {"mirror", "add", "agent", "advance", "validated", "recover",
                    "commit", "push", "remove", "review"}
  /\ IF Active THEN Mishap ELSE UNCHANGED mishaps
  /\ \/ UNCHANGED disk
     \/ At(h, "add") /\ \E d \in AddLeaves(h) : disk' = [disk EXCEPT ![h] = d]
  /\ GoTo(h, "defer")
  /\ UNCHANGED <<task, lease, origin, runs, seen>>

\* failTask, fenced.
FailTask(h) ==
  /\ At(h, "fail") /\ HoldsLease(h)
  /\ task' = IF Active THEN [task EXCEPT !.status = "finished"] ELSE task
  /\ GoTo(h, "defer")
  /\ UNCHANGED <<lease, disk, origin, runs, seen, mishaps>>

\* The deferred cleanupGitWorkspace: work that may go on is kept, and so is a locked
\* worktree, on which Remove fails.
CleanupDeferred(h) ==
  /\ At(h, "defer") /\ HoldsLease(h)
  /\ disk' = IF own[h].ws /\ ~Active /\ ~disk[h].locked
             THEN [disk EXCEPT ![h] = Cleared(@, own[h].attempt)] ELSE disk
  /\ GoTo(h, "end")
  /\ UNCHANGED <<task, lease, origin, runs, seen, mishaps>>

\* cleanupTerminalRecovery: what earlier owners left of a task that ended.
CleanupTerminal(h) ==
  LET a == own[h].attempt
  IN /\ At(h, "end") /\ HoldsLease(h)
     /\ disk' = IF ~Active /\ disk[h].trees[a].exists
                THEN [disk EXCEPT ![h] = Cleared(@, a)] ELSE disk
     /\ GoTo(h, "release")
     /\ UNCHANGED <<task, lease, origin, runs, seen, mishaps>>

ReleaseLease(h) ==
  /\ At(h, "release") /\ HoldsLease(h)
  /\ lease' = NoHost
  /\ Goto(h, Idle)
  /\ UNCHANGED <<task, disk, origin, runs, seen, mishaps>>

-----------------------------------------------------------------------------
GitNext ==
  \/ LeaseLapses \/ Revise \/ Finish \/ ForeignPush
  \/ \E h \in Hosts :
       \/ Claim(h) \/ FenceLost(h) \/ Crash(h)
       \/ EnsureMirror(h) \/ CreateWorktree(h) \/ ProvisionFails(h) \/ AddCut(h)
       \/ CleanupStale(h) \/ RunAgent(h) \/ ToValidating(h) \/ ToPublishing(h)
       \/ publishRecovered(h) \/ Commit(h) \/ Push(h) \/ RemoveWorktree(h)
       \/ Review(h)
       \/ Interrupt(h) \/ FailTask(h) \/ CleanupDeferred(h) \/ CleanupTerminal(h)
       \/ ReleaseLease(h)

GitSpec == GitInit /\ [][GitNext]_gitVars

-----------------------------------------------------------------------------
(* Properties.                                                             *)

\* runner/publish.go, createWorktreeRetryingStale, with CreateWorktree and Lookup:
\* the branch on GitHub holds the work of at most one run of each attempt.  What
\* a run that was cut off left on a disk is never built upon by the next.
OneRunPerAttempt ==
  \A i, j \in DOMAIN origin :
    (i # j /\ origin[i] # Foreign) => origin[i][1] # origin[j][1]

\* An older attempt's worktree holds the branch on h.
HeldByOlder(h) ==
  \E a \in 1..(own[h].attempt - 1) : disk[h].trees[a].exists

\* runner/publish.go, createWorktreeRetryingStale ("clear both, retry once"): what a
\* dead owner of the same attempt left behind costs the attempt only where a
\* worktree add was killed in its checkout, whose locked entry CleanupStale cannot
\* clear.  The branch, the worktree and the work in it, of a worktree add that was
\* cut off elsewhere as of a run that was, are cleared and the second try succeeds.
LeftoversCleared ==
  \A h \in Hosts :
    own[h].code = "workspace_failed" => own[h].hit \/ HeldByOlder(h) \/ disk[h].locked

\* Every change an attempt put on GitHub is of the run that ended and took the
\* task to validating.
NewestRunOnly ==
  \A i \in DOMAIN origin :
    origin[i] # Foreign => origin[i][2] = task.kept[origin[i][1]]

\* runner/publish.go, publishRecovered, on one host: however often the worker dies
\* and takes its own task up again, what it publishes from the surviving worktree
\* is the work that was validated.
HostPublishesItsRun == (\A x, y \in seen : x = y) => NewestRunOnly

\* runner/executor.go, drive: "surviving worktree or pushed branch carries the
\* work", whichever host recovers the task.
SurvivorCarriesTheWork == NewestRunOnly

\* runner/publish.go: "dead prior owner may have left worktree/branch behind:
\* clear both, retry once"; leftovers alone fail no attempt.
LeftoversNeverFatal ==
  \A h \in Hosts : own[h].code = "workspace_failed" => own[h].hit

\* runner/publish.go, provisionRevision: "a moved tip fails the attempt", and a tip
\* that is where the trigger found it does not.
OnlyMovedTipRefused ==
  \A h \in Hosts : own[h].code = "base_mismatch" => origin # task.base[own[h].attempt]
=============================================================================
