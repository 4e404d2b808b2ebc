----------------------------- MODULE RunnerFleet ----------------------------
(***************************************************************************)
(* Kubernetes runners: the controller that creates one Job per attempt     *)
(* (apps/api/internal/runner/kubernetes_backend.go), the host process in   *)
(* each Job's pod (runner/host.go), and the runner registry, the claims    *)
(* and the dispatch query of runner/store.go.  The Job controller, the     *)
(* kubelet and the TTL controller are external.                            *)
(*                                                                         *)
(* A pod claims exactly the attempt of its Job, executes it once and exits *)
(* (AttemptExecutor has what happens inside Execute).  Two controllers     *)
(* overlap during a rollout.  Faults (a killed pod, an unreachable node, a *)
(* failed call, a controller restart, late heartbeats of a runner, renewals*)
(* that stall for the length of a lease) draw on a budget.                 *)
(***************************************************************************)
EXTENDS Naturals, FiniteSets

CONSTANTS
  Attempts, Controllers,
  MaxPods,    \* bound on the pods there are at once
  MaxFaults   \* bound on faults

ASSUME FleetAssumption ==
  /\ MaxPods \in Nat /\ MaxFaults \in Nat

\* A pod registers a runner of its own; the number of one that is gone, with its
\* lease and its Job, is used again for a later pod and its new runner.
Pods == 1..MaxPods
NoPod == 0

VARIABLES
  attempts,  \* the task behind each attempt: queued, in a running status, settled
  leases,    \* lease_owner while lease_expires_at is ahead (nothing reads the owner
             \* of an expired lease)
  jobs,      \* the Job object of each attempt and the pod it counts
  pods,      \* the host process of each pod; lapsed is history: its lease ran
             \* out under it and it still executes
  runners,   \* the runners table
  silent,    \* runners whose last heartbeat is older than LostAfter
  lossCount, \* history: times a runner was found lost since its last heartbeat
  ctl,       \* the controllers
  observed,  \* each controller's map of Job states
  faults

vars == <<attempts, leases, jobs, pods, runners, silent, lossCount, ctl,
          observed, faults>>

kube == <<jobs, pods>>
registry == <<runners, silent, lossCount>>
control == <<ctl, observed>>

NoJob == [state |-> "none", pod |-> NoPod]

Init ==
  /\ attempts = [a \in Attempts |-> "queued"]
  /\ leases = [a \in Attempts |-> NoPod]
  /\ jobs = [a \in Attempts |-> NoJob]
  /\ pods = [p \in Pods |-> [pc |-> "gone", at |-> NoPod, lapsed |-> FALSE]]
  /\ runners = [p \in Pods |-> "none"]
  /\ silent = {} /\ lossCount = [p \in Pods |-> 0]
  /\ ctl = [c \in Controllers |-> [pc |-> "list", snap |-> << >>, todo |-> {}]]
  /\ observed = [c \in Controllers |-> [a \in Attempts |-> "none"]]
  /\ faults = 0

Fault == faults < MaxFaults /\ faults' = faults + 1

-----------------------------------------------------------------------------
(* The controller.                                                         *)

\* claimableWhere with an expired or missing lease.
Claimable(a) == attempts[a] \in {"queued", "running"} /\ leases[a] = NoPod

\* Mutant of Dispatchable: only attempts nobody has worked on are dispatched.
DispatchableQueued(a) == attempts[a] = "queued" /\ leases[a] = NoPod

\* DispatchableAttempts: the same condition, read without claiming.
Dispatchable(a) == Claimable(a)

\* What observe ignores: a Job that has not started, and a state it has seen.
News(c, a, state) == state \notin {"none", "pending", observed[c][a]}

\* dispatch lists the Jobs ...
ListJobs(c) ==
  /\ ctl[c].pc = "list"
  /\ LET there == {a \in Attempts : jobs[a] # NoJob} IN
       ctl' = [ctl EXCEPT ![c] = [pc |-> "observe",
                                  todo |-> {a \in there : News(c, a, jobs[a].state)},
                                  snap |-> [a \in there |-> jobs[a].state]]]
  /\ UNCHANGED <<attempts, leases, kube, registry, observed, faults>>

\* observe: a state that is news is recorded, and a failed Job is deleted.  The
\* deletion is by name, so it hits the Job of that name that exists now; its pod
\* is orphaned or killed with it.
Observe(c, a, state) ==
  /\ observed' = [observed EXCEPT ![c][a] = state]
  /\ IF state # "failed" THEN UNCHANGED <<jobs, pods, faults>>
     ELSE \/ /\ jobs' = [jobs EXCEPT ![a] = NoJob]
             /\ \/ UNCHANGED pods
                \/ /\ jobs[a].pod \in Pods
                   /\ pods[jobs[a].pod].pc # "gone"
                   /\ pods' = [pods EXCEPT ![jobs[a].pod].pc = "gone"]
             /\ UNCHANGED faults
          \/ Fault /\ UNCHANGED <<jobs, pods>>

\* ... observes each of them as it was listed ...
ObserveListed(c, a) ==
  /\ ctl[c].pc = "observe" /\ a \in ctl[c].todo
  /\ Observe(c, a, ctl[c].snap[a])
  /\ ctl' = [ctl EXCEPT ![c].todo = @ \ {a}]
  /\ UNCHANGED <<attempts, leases, registry>>

\* ... reads the attempts that need a runner and have no Job ...
QueryAttempts(c) ==
  /\ ctl[c].pc = "observe" /\ ctl[c].todo = {}
  /\ LET missing == {a \in Attempts : Dispatchable(a)} \ DOMAIN ctl[c].snap IN
       ctl' = [ctl EXCEPT ![c] = [pc |-> IF missing = {} THEN "watch" ELSE "create",
                                  snap |-> << >>, todo |-> missing]]
  /\ UNCHANGED <<attempts, leases, kube, registry, observed, faults>>

\* ... and creates their Jobs; a Job that exists by now is left alone.
CreateJob(c, a) ==
  /\ ctl[c].pc = "create" /\ a \in ctl[c].todo
  /\ jobs' = IF jobs[a] = NoJob THEN [jobs EXCEPT ![a].state = "pending"] ELSE jobs
  /\ ctl' = [ctl EXCEPT ![c].todo = @ \ {a},
                        ![c].pc = IF ctl[c].todo = {a} THEN "watch" ELSE @]
  /\ UNCHANGED <<attempts, leases, pods, registry, observed, faults>>

Relist(c) == ctl' = [ctl EXCEPT ![c] = [pc |-> "list", snap |-> << >>, todo |-> {}]]

\* A failed query or Create ends the round.
DispatchFails(c) ==
  /\ ctl[c].pc \in {"observe", "create"}
  /\ Fault /\ Relist(c)
  /\ UNCHANGED <<attempts, leases, kube, registry, observed>>

\* watchOnce: events of the Jobs until the poll interval or the watch ends.
WatchEvent(c, a) ==
  /\ ctl[c].pc = "watch" /\ News(c, a, jobs[a].state)
  /\ Observe(c, a, jobs[a].state)
  /\ UNCHANGED <<attempts, leases, registry, ctl>>

WatchEnds(c) ==
  /\ ctl[c].pc = "watch"
  /\ Relist(c)
  /\ UNCHANGED <<attempts, leases, kube, registry, observed, faults>>

\* A new process knows nothing of the Jobs it saw before.
ControllerRestarts(c) ==
  /\ Fault /\ Relist(c)
  /\ observed' = [observed EXCEPT ![c] = [a \in Attempts |-> "none"]]
  /\ UNCHANGED <<attempts, leases, kube, registry>>

-----------------------------------------------------------------------------
(* The cluster (external).                                                 *)

Free(p) ==
  /\ pods[p].pc = "gone"
  /\ \A a \in Attempts : jobs[a].pod # p /\ leases[a] # p

\* The Job's pod starts and its host registers a new runner; one that dies
\* before it registers is PodKilled before it beats or claims.
StartPod(a, p) ==
  /\ jobs[a].state = "pending"
  /\ Free(p) /\ \A q \in 1..(p - 1) : ~Free(q)
  /\ jobs' = [jobs EXCEPT ![a] = [state |-> "running", pod |-> p]]
  /\ pods' = [pods EXCEPT ![p] = [pc |-> "claim", at |-> a, lapsed |-> FALSE]]
  /\ runners' = [runners EXCEPT ![p] = "online"]
  /\ silent' = silent \ {p}
  /\ lossCount' = [lossCount EXCEPT ![p] = 0]
  /\ UNCHANGED <<attempts, leases, control, faults>>

\* The Job's status follows its pod, if it is still this pod's Job.
JobBecomes(p, state) ==
  jobs' = [a \in Attempts |->
             IF jobs[a].pod = p /\ jobs[a].state = "running"
             THEN [jobs[a] EXCEPT !.state = state] ELSE jobs[a]]

Alive(p) == pods[p].pc # "gone"

\* Eviction, out of memory, the active deadline, a crash.
PodKilled(p) ==
  /\ Alive(p) /\ Fault
  /\ pods' = [pods EXCEPT ![p].pc = "gone"]
  /\ JobBecomes(p, "failed")
  /\ UNCHANGED <<attempts, leases, registry, control>>

\* The node is unreachable: its pod counts as failed and runs on.
PodUnreachable(p) ==
  /\ Alive(p) /\ Fault
  /\ \E a \in Attempts : jobs[a] = [state |-> "running", pod |-> p]
  /\ JobBecomes(p, "failed")
  /\ UNCHANGED <<attempts, leases, pods, registry, control>>

\* ttlSecondsAfterFinished.
TtlExpires(a) ==
  /\ jobs[a].state \in {"completed", "failed"}
  /\ jobs' = [jobs EXCEPT ![a] = NoJob]
  /\ UNCHANGED <<attempts, leases, pods, registry, control, faults>>

-----------------------------------------------------------------------------
(* The host.                                                               *)

\* ClaimAttempt; without a claim a Job's host stops.
ClaimAttempt(p) ==
  /\ pods[p].pc = "claim"
  /\ LET a == pods[p].at IN
       IF Claimable(a)
       THEN /\ leases' = [leases EXCEPT ![a] = p]
            /\ pods' = [pods EXCEPT ![p].pc = "execute"]
       ELSE /\ pods' = [pods EXCEPT ![p].pc = "stop"]
            /\ UNCHANGED leases
  /\ UNCHANGED <<attempts, jobs, registry, control, faults>>

Executing(p) == pods[p].pc = "execute"

Owns(p, a) == leases[a] = p

\* Execute starts by moving a queued task on.
Proceed(p) ==
  /\ Executing(p) /\ Owns(p, pods[p].at)
  /\ attempts[pods[p].at] = "queued"
  /\ attempts' = [attempts EXCEPT ![pods[p].at] = "running"]
  /\ UNCHANGED <<leases, kube, registry, control, faults>>

\* Execute returns; the task cap of one is reached.  A success or a failure
\* settles the attempt, which the fence allows the holder of the lease only; an
\* interruption, or the loss of the lease, leaves it.  A lease that is still the
\* runner's own is released, unless the call fails.
ExecuteReturns(p) ==
  LET a == pods[p].at
      Released == leases' = [leases EXCEPT ![a] = NoPod]
  IN
  /\ Executing(p)
  /\ \/ /\ Owns(p, a) /\ Released
        /\ attempts' = [attempts EXCEPT ![a] = "settled"]
        /\ UNCHANGED faults
     \/ /\ Owns(p, a) /\ Fault
        /\ UNCHANGED attempts \/ attempts' = [attempts EXCEPT ![a] = "settled"]
        /\ Released \/ UNCHANGED leases
     \/ ~Owns(p, a) /\ UNCHANGED <<attempts, leases, faults>>
  /\ pods' = [pods EXCEPT ![p].pc = "stop", ![p].lapsed = FALSE]
  /\ UNCHANGED <<jobs, registry, control>>

\* Beats are stopped and awaited, then MarkOffline; if that fails the process
\* exits with an error and the runner stays in the registry as it was.
Shutdown(p) ==
  /\ pods[p].pc = "stop"
  /\ pods' = [pods EXCEPT ![p].pc = "gone"]
  /\ \/ runners' = [runners EXCEPT ![p] = "offline"] /\ JobBecomes(p, "completed")
        /\ UNCHANGED faults
     \/ UNCHANGED runners /\ JobBecomes(p, "failed") /\ Fault
  /\ UNCHANGED <<attempts, leases, silent, lossCount, control>>

\* A lease expires when its time is over, whatever its owner does.  An owner that
\* does not execute, or is gone, renews nothing.
LeaseExpires(a) ==
  /\ leases[a] \in Pods /\ ~Executing(leases[a])
  /\ leases' = [leases EXCEPT ![a] = NoPod]
  /\ UNCHANGED <<attempts, kube, registry, control, faults>>

\* One that executes renews it, unless its renewals stall or fail for the length
\* of a lease; it goes on until it learns of the loss, and an expired lease is
\* never renewed.
LeaseRunsOut(a) ==
  /\ leases[a] \in Pods /\ Executing(leases[a]) /\ Fault
  /\ leases' = [leases EXCEPT ![a] = NoPod]
  /\ pods' = [pods EXCEPT ![leases[a]].lapsed = TRUE]
  /\ UNCHANGED <<attempts, jobs, registry, control>>

-----------------------------------------------------------------------------
(* Heartbeats and the reaper: a goroutine of every host.                   *)

Beating(p) == pods[p].pc \in {"claim", "execute"}

Heartbeat(p) ==
  /\ Beating(p) /\ runners[p] # "offline"
  /\ p \in silent
  /\ runners' = [runners EXCEPT ![p] = "online"]
  /\ silent' = silent \ {p}
  /\ lossCount' = [lossCount EXCEPT ![p] = 0]
  /\ UNCHANGED <<attempts, leases, kube, control, faults>>

\* LostAfter passes without a heartbeat: of a runner that is gone, or of one
\* whose heartbeats do not get through.
FallsSilent(p) ==
  /\ runners[p] = "online" /\ p \notin silent
  /\ IF Alive(p) THEN Fault ELSE UNCHANGED faults
  /\ silent' = silent \cup {p}
  /\ UNCHANGED <<attempts, leases, kube, runners, lossCount, control>>

Overdue == {r \in silent : runners[r] = "online"}

Detect(lost) ==
  lossCount' = [r \in Pods |-> lossCount[r] + IF r \in lost THEN 1 ELSE 0]

\* Mutant of MarkLost: the attempts of a lost runner are freed at once.
MarkLostFreeing(p) ==
  /\ Beating(p) /\ Overdue # {}
  /\ Detect(Overdue)
  /\ runners' = [r \in Pods |-> IF r \in Overdue THEN "lost" ELSE runners[r]]
  /\ leases' = [a \in Attempts |-> IF leases[a] \in Overdue THEN NoPod ELSE leases[a]]
  /\ UNCHANGED <<attempts, kube, silent, control, faults>>

\* Mutant of MarkLost: the runners found are not marked.
MarkLostReading(p) ==
  /\ Beating(p) /\ Overdue # {}
  /\ Detect(Overdue)
  /\ UNCHANGED <<attempts, leases, kube, runners, silent, control, faults>>

\* MarkLost: one statement finds and marks; leases are not touched.  What is
\* reported of it (reportLoss) is an event of the timeline and a metric.
MarkLost(p) ==
  /\ Beating(p) /\ Overdue # {}
  /\ Detect(Overdue)
  /\ runners' = [r \in Pods |-> IF r \in Overdue THEN "lost" ELSE runners[r]]
  /\ UNCHANGED <<attempts, leases, kube, silent, control, faults>>

-----------------------------------------------------------------------------

Controller(c) ==
  \/ ListJobs(c) \/ QueryAttempts(c) \/ WatchEnds(c)
  \/ \E a \in Attempts : ObserveListed(c, a) \/ CreateJob(c, a)

Host(p) ==
  ClaimAttempt(p) \/ Proceed(p) \/ ExecuteReturns(p) \/ Shutdown(p)

Beats(p) == Heartbeat(p) \/ MarkLost(p)

Next ==
  \/ \E c \in Controllers :
       \/ Controller(c) \/ DispatchFails(c) \/ ControllerRestarts(c)
       \/ \E a \in Attempts : WatchEvent(c, a)
  \/ \E a \in Attempts :
       \/ TtlExpires(a) \/ LeaseExpires(a) \/ LeaseRunsOut(a)
       \/ \E p \in Pods : StartPod(a, p)
  \/ \E p \in Pods :
       Host(p) \/ Beats(p) \/ FallsSilent(p) \/ PodKilled(p) \/ PodUnreachable(p)

\* Controllers and hosts run, the cluster starts pods and expires finished Jobs,
\* and time passes for leases that nobody renews.
Fairness ==
  /\ \A c \in Controllers : WF_vars(Controller(c))
  /\ \A p \in Pods : WF_vars(Host(p))
  /\ \A a \in Attempts :
       /\ WF_vars(TtlExpires(a)) /\ WF_vars(LeaseExpires(a))
       /\ WF_vars(\E p \in Pods : StartPod(a, p))

Spec == Init /\ [][Next]_vars /\ Fairness

-----------------------------------------------------------------------------
(* Properties.                                                             *)

\* runner/store.go, MarkLost ("expiry, not runner status, makes an attempt
\* claimable, so no duplicate execution"): although runners are declared lost while
\* they work, Jobs are deleted under their pods and two controllers dispatch at
\* once, a second pod executes an attempt only beside one whose lease has run out
\* under it: at most one of them has kept its lease since it claimed.
NoDuplicateExecution ==
  \A p, q \in Pods :
    (Executing(p) /\ Executing(q) /\ pods[p].at = pods[q].at /\ p # q) =>
      pods[p].lapsed \/ pods[q].lapsed

\* runner/host.go, beatAndReap ("MarkLost is atomic, a loss is detected once"):
\* however many hosts reap, a runner is found lost at most once between two of
\* its heartbeats.
LossDetectedOnce == \A r \in Pods : lossCount[r] <= 1

\* runner/kubernetes_backend.go with runner/store.go, DispatchableAttempts: every
\* attempt is executed to its end, although pods die, Jobs finish without
\* settling it, failed Jobs are not deleted and controllers forget what they saw.
EveryAttemptSettles == \A a \in Attempts : <>(attempts[a] = "settled")
=============================================================================
