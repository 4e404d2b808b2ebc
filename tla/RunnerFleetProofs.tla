-------------------------- MODULE RunnerFleetProofs -------------------------
(***************************************************************************)
(* Proofs about RunnerFleet, for every set of attempts and controllers and *)
(* every number of pods and faults; then about GitWorkspace, the disks its *)
(* hosts work on, for every set of hosts and every number of mishaps.      *)
(***************************************************************************)
EXTENDS RunnerFleet, GitWorkspace, Sequences, TLAPS

-----------------------------------------------------------------------------
(* The inductive invariant.                                                *)

JobStates == {"none", "pending", "running", "completed", "failed"}

Jobs == [state : JobStates, pod : Pods \cup {NoPod}]

HostStates ==
  [pc : {"gone", "claim", "execute", "stop"}, at : Attempts \cup {NoPod},
   lapsed : BOOLEAN]

Snapshots == UNION {[S -> JobStates] : S \in SUBSET Attempts}

\* What is still to be observed has been listed.
CtlStates ==
  {s \in [pc : {"list", "observe", "create", "watch"}, snap : Snapshots,
          todo : SUBSET Attempts] :
     s.pc = "observe" => s.todo \subseteq DOMAIN s.snap}

TypeOK ==
  /\ attempts \in [Attempts -> {"queued", "running", "settled"}]
  /\ leases \in [Attempts -> Pods \cup {NoPod}]
  /\ jobs \in [Attempts -> Jobs]
  /\ pods \in [Pods -> HostStates]
  /\ runners \in [Pods -> {"none", "online", "offline", "lost"}]
  /\ silent \in SUBSET Pods
  /\ lossCount \in [Pods -> Nat]
  /\ ctl \in [Controllers -> CtlStates]
  /\ observed \in [Controllers -> [Attempts -> JobStates]]
  /\ faults \in Nat

\* A pod that executes, and whose lease has not run out under it, holds the live
\* lease of its attempt, which is not settled.
Rightful(p) ==
  /\ Alive(p) => pods[p].at \in Attempts
  /\ Executing(p) => \/ pods[p].lapsed
                     \/ Owns(p, pods[p].at) /\ attempts[pods[p].at] # "settled"

HostsOK == \A p \in Pods : Rightful(p)

\* A runner found lost stays marked until it beats again.
LossOK ==
  \A r \in Pods :
    lossCount[r] = 0 \/ (lossCount[r] = 1 /\ runners[r] # "online")

FleetInv == TypeOK /\ HostsOK /\ LossOK

-----------------------------------------------------------------------------
(* The parts of the steps.                                                 *)

\* A controller that has listed nothing has nothing to observe.
LEMMA EmptySnapshot == << >> \in Snapshots /\ DOMAIN << >> = {}
<1>1. << >> \in [{} -> JobStates]
  OBVIOUS
<1> QED
  BY <1>1 DEF Snapshots

\* A controller that starts over, and what a pod makes of its Job.
LEMMA RelistType ==
  ASSUME TypeOK, NEW c \in Controllers, Relist(c)
  PROVE  ctl' \in [Controllers -> CtlStates]
<1>1. [pc |-> "list", snap |-> << >>, todo |-> {}] \in CtlStates
  BY EmptySnapshot DEF CtlStates
<1> QED
  BY <1>1 DEF Relist, TypeOK

LEMMA JobBecomesType ==
  ASSUME TypeOK, NEW p \in Pods, NEW state \in JobStates, JobBecomes(p, state)
  PROVE  jobs' \in [Attempts -> Jobs]
<1>1. \A a \in Attempts : jobs[a] \in Jobs /\ [jobs[a] EXCEPT !.state = state] \in Jobs
  BY DEF TypeOK, Jobs
<1> QED
  BY <1>1 DEF JobBecomes

\* A host that moves on, and one that is gone.
LEMMA HostMoves ==
  ASSUME TypeOK, NEW p \in Pods, NEW pc \in {"gone", "claim", "execute", "stop"},
         NEW lapsed \in BOOLEAN
  PROVE  [pods EXCEPT ![p].pc = pc, ![p].lapsed = lapsed] \in [Pods -> HostStates]
<1> DEFINE next == [pods[p] EXCEPT !.pc = pc, !.lapsed = lapsed]
<1>1. next \in HostStates
  BY DEF TypeOK, HostStates
<1>2. [pods EXCEPT ![p].pc = pc, ![p].lapsed = lapsed] = [pods EXCEPT ![p] = next]
  BY DEF TypeOK, HostStates
<1> HIDE DEF next
<1> QED
  BY <1>1, <1>2 DEF TypeOK

LEMMA HostGoes ==
  ASSUME TypeOK, NEW p \in Pods, NEW pc \in {"gone", "claim", "execute", "stop"}
  PROVE  [pods EXCEPT ![p].pc = pc] \in [Pods -> HostStates]
<1> DEFINE next == [pods[p] EXCEPT !.pc = pc]
<1>1. next \in HostStates
  BY DEF TypeOK, HostStates
<1>2. [pods EXCEPT ![p].pc = pc] = [pods EXCEPT ![p] = next]
  BY DEF TypeOK, HostStates
<1> HIDE DEF next
<1> QED
  BY <1>1, <1>2 DEF TypeOK

\* A pod that disappears holds nobody up, whatever lease it leaves behind.
LEMMA PodGone ==
  ASSUME TypeOK, HostsOK, NEW p, pods' = [pods EXCEPT ![p].pc = "gone"],
         UNCHANGED <<attempts, leases>>
  PROVE  pods' \in [Pods -> HostStates] /\ HostsOK'
<1>1. pods' \in [Pods -> HostStates]
  <2>1. CASE p \in Pods
    BY <2>1, HostGoes
  <2>2. CASE p \notin Pods
    BY <2>2 DEF TypeOK
  <2> QED
    BY <2>1, <2>2
<1>2. ASSUME NEW q \in Pods
      PROVE  Rightful(q)'
  <2>1. pods'[q] = pods[q] \/ pods'[q].pc = "gone"
    BY DEF TypeOK, HostStates
  <2> QED
    BY <2>1 DEF HostsOK, Rightful, Alive, Executing, Owns
<1> QED
  BY <1>1, <1>2 DEF HostsOK

\* HostStates are as they were if neither pods nor leases nor attempts move.
LEMMA HostsKept ==
  ASSUME HostsOK, UNCHANGED <<attempts, leases, pods>>
  PROVE  HostsOK'
BY DEF HostsOK, Rightful, Alive, Executing, Owns

\* What a controller does with a Job's state, listed or watched.
LEMMA ObserveStep ==
  ASSUME TypeOK, HostsOK, NEW c \in Controllers, NEW a \in Attempts,
         NEW state \in JobStates, Observe(c, a, state), UNCHANGED <<attempts, leases>>
  PROVE  /\ observed' \in [Controllers -> [Attempts -> JobStates]]
         /\ jobs' \in [Attempts -> Jobs]
         /\ pods' \in [Pods -> HostStates]
         /\ faults' \in Nat
         /\ HostsOK'
<1>1. observed' \in [Controllers -> [Attempts -> JobStates]]
  BY DEF Observe, TypeOK
<1>2. jobs' \in [Attempts -> Jobs] /\ faults' \in Nat
  <2>1. NoJob \in Jobs
    BY DEF NoJob, Jobs, JobStates
  <2>2. jobs' = jobs \/ jobs' = [jobs EXCEPT ![a] = NoJob]
    BY DEF Observe
  <2>3. faults' = faults \/ faults' = faults + 1
    BY DEF Observe, Fault
  <2> QED
    BY <2>1, <2>2, <2>3 DEF TypeOK
<1>3. pods' \in [Pods -> HostStates] /\ HostsOK'
  <2>1. CASE pods' = pods
    BY <2>1, HostsKept DEF TypeOK
  <2>2. CASE pods' = [pods EXCEPT ![jobs[a].pod].pc = "gone"]
    BY <2>2, PodGone
  <2> QED
    BY <2>1, <2>2 DEF Observe
<1> QED
  BY <1>1, <1>2, <1>3

-----------------------------------------------------------------------------
(* Every step keeps the invariant.                                         *)

\* The steps of a controller: they touch Jobs and what it knows of them.
LEMMA ListJobsStep ==
  ASSUME FleetInv, NEW c \in Controllers, ListJobs(c)
  PROVE  FleetInv'
<1> USE DEF FleetInv
<1> DEFINE there == {a \in Attempts : jobs[a] # NoJob}
           listed == [pc |-> "observe",
                    todo |-> {a \in there : News(c, a, jobs[a].state)},
                    snap |-> [a \in there |-> jobs[a].state]]
<1>1. listed \in CtlStates
  <2>1. [a \in there |-> jobs[a].state] \in [there -> JobStates]
    BY DEF TypeOK, Jobs
  <2>2. [a \in there |-> jobs[a].state] \in Snapshots
    BY <2>1 DEF Snapshots
  <2> QED
    BY <2>2 DEF CtlStates
<1>2. ctl' = [ctl EXCEPT ![c] = listed]
  BY DEF ListJobs
<1> HIDE DEF listed
<1>3. TypeOK'
  BY <1>1, <1>2 DEF ListJobs, TypeOK, kube, registry
<1>4. HostsOK' /\ LossOK'
  BY HostsKept DEF ListJobs, kube, registry, LossOK
<1> QED
  BY <1>3, <1>4

LEMMA ObserveListedStep ==
  ASSUME FleetInv, NEW c \in Controllers, NEW a \in Attempts, ObserveListed(c, a)
  PROVE  FleetInv'
<1> USE DEF FleetInv
<1>1. ctl[c] \in CtlStates /\ ctl[c].pc = "observe" /\ a \in ctl[c].todo
  BY DEF TypeOK, ObserveListed
<1>2. ctl[c].snap[a] \in JobStates
  BY <1>1 DEF CtlStates, Snapshots
<1>3. Observe(c, a, ctl[c].snap[a])
  BY DEF ObserveListed
<1>4. ctl' \in [Controllers -> CtlStates]
  <2>1. ctl' = [ctl EXCEPT ![c] = [ctl[c] EXCEPT !.todo = ctl[c].todo \ {a}]]
    BY DEF ObserveListed, TypeOK, CtlStates
  <2>2. [ctl[c] EXCEPT !.todo = ctl[c].todo \ {a}] \in CtlStates
    BY <1>1 DEF CtlStates
  <2> QED
    BY <2>1, <2>2 DEF TypeOK
<1>5. UNCHANGED <<attempts, leases, runners, silent, lossCount>>
  BY DEF ObserveListed, registry
<1>6. TypeOK' /\ HostsOK'
  BY <1>2, <1>3, <1>4, <1>5, ObserveStep DEF TypeOK
<1>7. LossOK'
  BY <1>5 DEF LossOK
<1> QED
  BY <1>6, <1>7

LEMMA WatchEventStep ==
  ASSUME FleetInv, NEW c \in Controllers, NEW a \in Attempts, WatchEvent(c, a)
  PROVE  FleetInv'
<1> USE DEF FleetInv
<1>1. jobs[a].state \in JobStates /\ Observe(c, a, jobs[a].state)
  BY DEF TypeOK, Jobs, WatchEvent
<1>2. UNCHANGED <<attempts, leases, runners, silent, lossCount, ctl>>
  BY DEF WatchEvent, registry
<1>3. TypeOK' /\ HostsOK'
  BY <1>1, <1>2, ObserveStep DEF TypeOK
<1>4. LossOK'
  BY <1>2 DEF LossOK
<1> QED
  BY <1>3, <1>4

LEMMA QueryAttemptsStep ==
  ASSUME FleetInv, NEW c \in Controllers, QueryAttempts(c)
  PROVE  FleetInv'
<1> USE DEF FleetInv
<1>1. PICK next \in CtlStates : ctl' = [ctl EXCEPT ![c] = next]
  <2> DEFINE missing == {a \in Attempts : Dispatchable(a)} \ DOMAIN ctl[c].snap
  <2>1. [pc |-> IF missing = {} THEN "watch" ELSE "create", snap |-> << >>,
         todo |-> missing] \in CtlStates
    BY EmptySnapshot DEF CtlStates
  <2> QED
    BY <2>1 DEF QueryAttempts
<1>2. TypeOK'
  BY <1>1 DEF QueryAttempts, TypeOK, kube, registry
<1>3. HostsOK' /\ LossOK'
  BY HostsKept DEF QueryAttempts, kube, registry, LossOK
<1> QED
  BY <1>2, <1>3

LEMMA CreateJobStep ==
  ASSUME FleetInv, NEW c \in Controllers, NEW a \in Attempts, CreateJob(c, a)
  PROVE  FleetInv'
<1> USE DEF FleetInv
<1>1. PICK next \in CtlStates : ctl' = [ctl EXCEPT ![c] = next]
  <2> DEFINE pc == IF ctl[c].todo = {a} THEN "watch" ELSE ctl[c].pc
             next == [ctl[c] EXCEPT !.todo = ctl[c].todo \ {a}, !.pc = pc]
  <2>1. ctl' = [ctl EXCEPT ![c] = next]
    BY DEF CreateJob, TypeOK, CtlStates
  <2>2. ctl[c] \in CtlStates /\ ctl[c].pc = "create"
    BY DEF CreateJob, TypeOK
  <2>3. next \in CtlStates
    BY <2>2 DEF CtlStates
  <2> QED
    BY <2>1, <2>3
<1>2. jobs' \in [Attempts -> Jobs]
  <2>1. [jobs[a] EXCEPT !.state = "pending"] \in Jobs
    BY DEF TypeOK, Jobs, JobStates
  <2>2. jobs' = jobs \/ jobs' = [jobs EXCEPT ![a] = [jobs[a] EXCEPT !.state = "pending"]]
    BY DEF CreateJob, TypeOK, Jobs
  <2> QED
    BY <2>1, <2>2 DEF TypeOK
<1>3. TypeOK'
  BY <1>1, <1>2 DEF CreateJob, TypeOK, registry
<1>4. HostsOK' /\ LossOK'
  BY HostsKept DEF CreateJob, registry, LossOK
<1> QED
  BY <1>3, <1>4

LEMMA ControllerFaultStep ==
  ASSUME FleetInv, NEW c \in Controllers,
         DispatchFails(c) \/ WatchEnds(c) \/ ControllerRestarts(c)
  PROVE  FleetInv'
<1> USE DEF FleetInv
<1>1. ctl' \in [Controllers -> CtlStates]
  BY RelistType DEF DispatchFails, WatchEnds, ControllerRestarts
<1>2. observed' \in [Controllers -> [Attempts -> JobStates]]
  BY DEF DispatchFails, WatchEnds, ControllerRestarts, TypeOK, JobStates
<1>3. /\ UNCHANGED <<attempts, leases, jobs, pods, runners, silent, lossCount>>
      /\ faults' = faults \/ faults' = faults + 1
  BY DEF DispatchFails, WatchEnds, ControllerRestarts, kube, registry, Fault
<1>4. TypeOK'
  BY <1>1, <1>2, <1>3 DEF TypeOK
<1>5. HostsOK' /\ LossOK'
  BY <1>3, HostsKept DEF LossOK
<1> QED
  BY <1>4, <1>5


\* The new host has claimed nothing yet.
LEMMA StartPodStep ==
  ASSUME FleetInv, NEW a \in Attempts, NEW p \in Pods, StartPod(a, p)
  PROVE  FleetInv'
<1> USE DEF FleetInv
<1>1. /\ [state |-> "running", pod |-> p] \in Jobs
      /\ [pc |-> "claim", at |-> a, lapsed |-> FALSE] \in HostStates
  BY DEF Jobs, JobStates, HostStates
<1>2. TypeOK'
  BY <1>1 DEF StartPod, TypeOK, control
<1>3. HostsOK'
  <2> SUFFICES ASSUME NEW q \in Pods
               PROVE  Rightful(q)'
    BY DEF HostsOK
  <2>1. /\ UNCHANGED <<attempts, leases>>
        /\ pods' = [pods EXCEPT ![p] = [pc |-> "claim", at |-> a, lapsed |-> FALSE]]
    BY DEF StartPod
  <2>2. CASE q = p
    BY <2>1, <2>2 DEF TypeOK, Rightful, Alive, Executing
  <2>3. CASE q # p
    BY <2>1, <2>3 DEF TypeOK, HostsOK, Rightful, Alive, Executing, Owns
  <2> QED
    BY <2>2, <2>3
<1>4. LossOK'
  BY DEF StartPod, LossOK, TypeOK
<1> QED
  BY <1>2, <1>3, <1>4

\* A pod that is killed, or unreachable, or removed with its Job.
LEMMA PodKilledStep ==
  ASSUME FleetInv, NEW p \in Pods, PodKilled(p)
  PROVE  FleetInv'
<1> USE DEF FleetInv
<1>1. /\ UNCHANGED <<attempts, leases, runners, silent, lossCount, ctl, observed>>
      /\ faults' = faults + 1
  BY DEF PodKilled, registry, control, Fault
<1>2. jobs' \in [Attempts -> Jobs]
  BY JobBecomesType DEF PodKilled, JobStates
<1>3. pods' \in [Pods -> HostStates] /\ HostsOK'
  BY <1>1, PodGone DEF PodKilled
<1>4. TypeOK'
  BY <1>1, <1>2, <1>3 DEF TypeOK
<1> QED
  BY <1>1, <1>3, <1>4 DEF LossOK

LEMMA PodUnreachableStep ==
  ASSUME FleetInv, NEW p \in Pods, PodUnreachable(p)
  PROVE  FleetInv'
<1> USE DEF FleetInv
<1>1. /\ UNCHANGED <<attempts, leases, pods, runners, silent, lossCount, ctl, observed>>
      /\ faults' = faults + 1
  BY DEF PodUnreachable, registry, control, Fault
<1>2. jobs' \in [Attempts -> Jobs]
  BY JobBecomesType DEF PodUnreachable, JobStates
<1>3. TypeOK'
  BY <1>1, <1>2 DEF TypeOK
<1> QED
  BY <1>1, <1>3, HostsKept DEF LossOK

LEMMA TtlExpiresStep ==
  ASSUME FleetInv, NEW a \in Attempts, TtlExpires(a)
  PROVE  FleetInv'
<1> USE DEF FleetInv
<1>1. NoJob \in Jobs
  BY DEF NoJob, Jobs, JobStates
<1>2. TypeOK'
  BY <1>1 DEF TtlExpires, TypeOK, registry, control
<1> QED
  BY <1>2, HostsKept DEF TtlExpires, registry, LossOK

\* Whoever executes an attempt that has no live lease has let it run out.
LEMMA ClaimAttemptStep ==
  ASSUME FleetInv, NEW p \in Pods, ClaimAttempt(p)
  PROVE  FleetInv'
<1> USE DEF FleetInv
<1> DEFINE a == pods[p].at
<1>1. a \in Attempts /\ pods[p] \in HostStates
  BY DEF HostsOK, Rightful, Alive, ClaimAttempt, TypeOK
<1>2. UNCHANGED <<attempts, jobs, runners, silent, lossCount, ctl, observed, faults>>
  BY DEF ClaimAttempt, registry, control
<1>3. CASE /\ Claimable(a)
           /\ leases' = [leases EXCEPT ![a] = p]
           /\ pods' = [pods EXCEPT ![p].pc = "execute"]
  <2>1. leases' \in [Attempts -> Pods \cup {NoPod}] /\ pods' \in [Pods -> HostStates]
    BY <1>3, HostGoes DEF TypeOK
  <2>2. TypeOK' /\ LossOK'
    BY <1>2, <2>1 DEF TypeOK, LossOK
  <2>3. attempts[a] # "settled" /\ leases[a] = NoPod /\ NoPod \notin Pods
    BY <1>3 DEF Claimable, NoPod, Pods
  <2>4. pods'[p].pc = "execute" /\ pods'[p].at = a
    BY <1>3 DEF TypeOK, HostStates
  <2>5. Rightful(p)'
    BY <1>1, <1>2, <1>3, <2>3, <2>4 DEF Rightful, Alive, Owns, TypeOK
  <2>6. ASSUME NEW q \in Pods, q # p
        PROVE  Rightful(q)'
    <3>1. Rightful(q) /\ pods'[q] = pods[q]
      BY <1>3, <2>6 DEF HostsOK, TypeOK
    <3>2. CASE Executing(q) /\ ~pods[q].lapsed
      <4>1. leases'[pods[q].at] = leases[pods[q].at]
        BY <1>3, <2>3, <3>1, <3>2 DEF Rightful, Owns, Alive, Executing, TypeOK
      <4> QED
        BY <1>2, <3>1, <4>1 DEF Rightful, Alive, Executing, Owns
    <3> QED
      BY <3>1, <3>2 DEF Rightful, Alive, Executing
  <2> QED
    BY <2>2, <2>5, <2>6 DEF HostsOK
<1>4. CASE pods' = [pods EXCEPT ![p].pc = "stop"] /\ leases' = leases
  <2>1. pods' \in [Pods -> HostStates]
    BY <1>4, HostGoes
  <2>2. TypeOK' /\ LossOK'
    BY <1>2, <1>4, <2>1 DEF TypeOK, LossOK
  <2>3. ASSUME NEW q \in Pods
        PROVE  Rightful(q)'
    <3>1. pods'[q] = pods[q] \/ (pods'[q].pc = "stop" /\ pods'[q].at = pods[q].at /\ q = p)
      BY <1>4 DEF TypeOK, HostStates
    <3> QED
      BY <1>1, <1>2, <1>4, <3>1 DEF HostsOK, Rightful, Alive, Executing, Owns
  <2> QED
    BY <2>2, <2>3 DEF HostsOK
<1> QED
  BY <1>3, <1>4 DEF ClaimAttempt

\* The owner of the live lease works on.
LEMMA ProceedStep ==
  ASSUME FleetInv, NEW p \in Pods, Proceed(p)
  PROVE  FleetInv'
<1> USE DEF FleetInv
<1>1. /\ UNCHANGED <<leases, jobs, pods, runners, silent, lossCount, ctl, observed, faults>>
      /\ attempts' = [attempts EXCEPT ![pods[p].at] = "running"]
  BY DEF Proceed, kube, registry, control
<1>2. TypeOK' /\ LossOK'
  BY <1>1 DEF TypeOK, LossOK
<1>3. \A a \in Attempts : attempts'[a] = attempts[a] \/ attempts'[a] = "running"
  BY <1>1 DEF TypeOK
<1>4. HostsOK'
  BY <1>1, <1>3 DEF HostsOK, Rightful, Alive, Executing, Owns
<1> QED
  BY <1>2, <1>4

\* Whoever else executes does so for another attempt, or has lost its lease of
\* this one.
LEMMA ExecuteReturnsStep ==
  ASSUME FleetInv, NEW p \in Pods, ExecuteReturns(p)
  PROVE  FleetInv'
<1> USE DEF FleetInv
<1> DEFINE a == pods[p].at
<1>1. a \in Attempts /\ pods[p] \in HostStates
  BY DEF HostsOK, Rightful, Alive, Executing, ExecuteReturns, TypeOK
<1>2. /\ UNCHANGED <<jobs, runners, silent, lossCount, ctl, observed>>
      /\ faults' = faults \/ faults' = faults + 1
      /\ attempts' = attempts \/ attempts' = [attempts EXCEPT ![a] = "settled"]
      /\ leases' = leases \/ leases' = [leases EXCEPT ![a] = NoPod]
      /\ (attempts' # attempts \/ leases' # leases) => Owns(p, a)
      /\ pods' = [pods EXCEPT ![p].pc = "stop", ![p].lapsed = FALSE]
  BY <1>1 DEF ExecuteReturns, registry, control, Fault
<1>3. TypeOK'
  <2>1. pods' \in [Pods -> HostStates]
    BY <1>2, HostMoves
  <2>2. leases' \in [Attempts -> Pods \cup {NoPod}]
    BY <1>2 DEF TypeOK
  <2>3. attempts' \in [Attempts -> {"queued", "running", "settled"}] /\ faults' \in Nat
    BY <1>2 DEF TypeOK
  <2> QED
    BY <1>2, <2>1, <2>2, <2>3 DEF TypeOK
<1>4. HostsOK'
  <2> SUFFICES ASSUME NEW q \in Pods
               PROVE  Rightful(q)'
    BY DEF HostsOK
  <2>1. CASE q = p
    <3>1. pods'[p].pc = "stop" /\ pods'[p].at = a
      BY <1>2 DEF TypeOK, HostStates
    <3> QED
      BY <1>1, <2>1, <3>1 DEF Rightful, Alive, Executing
  <2>2. CASE q # p
    <3>1. Rightful(q) /\ pods'[q] = pods[q]
      BY <1>2, <2>2 DEF HostsOK, TypeOK
    <3>2. CASE Executing(q) /\ ~pods[q].lapsed
      <4>1. pods[q].at \in Attempts /\ Owns(q, pods[q].at)
        BY <3>1, <3>2 DEF Rightful, Alive, Executing
      <4>2. Owns(p, a) => pods[q].at # a
        BY <2>2, <4>1 DEF Owns
      <4>3. /\ leases'[pods[q].at] = leases[pods[q].at]
            /\ attempts'[pods[q].at] = attempts[pods[q].at]
        BY <1>2, <4>1, <4>2 DEF TypeOK
      <4> QED
        BY <3>1, <4>3 DEF Rightful, Alive, Executing, Owns
    <3> QED
      BY <3>1, <3>2 DEF Rightful, Alive, Executing
  <2> QED
    BY <2>1, <2>2
<1> QED
  BY <1>2, <1>3, <1>4 DEF LossOK

\* A host that stops executes nothing.
LEMMA ShutdownStep ==
  ASSUME FleetInv, NEW p \in Pods, Shutdown(p)
  PROVE  FleetInv'
<1> USE DEF FleetInv
<1>1. /\ UNCHANGED <<attempts, leases, silent, lossCount, ctl, observed>>
      /\ faults' = faults \/ faults' = faults + 1
      /\ runners' = runners \/ runners' = [runners EXCEPT ![p] = "offline"]
  BY DEF Shutdown, control, Fault
<1>2. jobs' \in [Attempts -> Jobs]
  BY JobBecomesType DEF Shutdown, JobStates
<1>3. pods' \in [Pods -> HostStates] /\ HostsOK'
  BY <1>1, PodGone DEF Shutdown
<1>4. TypeOK'
  BY <1>1, <1>2, <1>3 DEF TypeOK
<1>5. LossOK'
  BY <1>1 DEF LossOK, TypeOK
<1> QED
  BY <1>3, <1>4, <1>5

\* A lease that expires is nobody's who executes ...
LEMMA LeaseExpiresStep ==
  ASSUME FleetInv, NEW a \in Attempts, LeaseExpires(a)
  PROVE  FleetInv'
<1> USE DEF FleetInv
<1>1. /\ UNCHANGED <<attempts, jobs, pods, runners, silent, lossCount, ctl, observed, faults>>
      /\ leases' = [leases EXCEPT ![a] = NoPod]
  BY DEF LeaseExpires, kube, registry, control
<1>2. TypeOK' /\ LossOK'
  BY <1>1 DEF TypeOK, LossOK
<1>3. ASSUME NEW q \in Pods
      PROVE  Rightful(q)'
  <2>1. CASE Executing(q) /\ ~pods[q].lapsed
    <3>1. Rightful(q) /\ pods[q].at \in Attempts /\ Owns(q, pods[q].at)
      BY <2>1 DEF HostsOK, Rightful, Alive, Executing
    <3>2. pods[q].at # a
      BY <2>1, <3>1 DEF LeaseExpires, Owns
    <3>3. leases'[pods[q].at] = leases[pods[q].at]
      BY <1>1, <3>1, <3>2 DEF TypeOK
    <3> QED
      BY <1>1, <3>1, <3>3 DEF Rightful, Alive, Executing, Owns
  <2> QED
    BY <1>1, <2>1 DEF HostsOK, Rightful, Alive, Executing
<1> QED
  BY <1>2, <1>3 DEF HostsOK

\* ... or runs out under its owner, which goes on without it.
LEMMA LeaseRunsOutStep ==
  ASSUME FleetInv, NEW a \in Attempts, LeaseRunsOut(a)
  PROVE  FleetInv'
<1> USE DEF FleetInv
<1> DEFINE p == leases[a]
<1>1. /\ UNCHANGED <<attempts, jobs, runners, silent, lossCount, ctl, observed>>
      /\ faults' = faults + 1 /\ p \in Pods
      /\ leases' = [leases EXCEPT ![a] = NoPod]
      /\ pods' = [pods EXCEPT ![p].lapsed = TRUE]
  BY DEF LeaseRunsOut, registry, control, Fault
<1>2. pods' \in [Pods -> HostStates]
  <2>1. pods \in [Pods -> HostStates] /\ p \in Pods
    BY <1>1 DEF TypeOK
  <2>2. pods[p] \in HostStates /\ [pods[p] EXCEPT !.lapsed = TRUE] \in HostStates
    BY <2>1 DEF HostStates
  <2>3. pods' = [pods EXCEPT ![p] = [pods[p] EXCEPT !.lapsed = TRUE]]
    BY <1>1
  <2> QED
    BY <2>1, <2>2, <2>3
<1>3. TypeOK' /\ LossOK'
  BY <1>1, <1>2 DEF TypeOK, LossOK
<1>4. ASSUME NEW q \in Pods
      PROVE  Rightful(q)'
  <2>1. CASE q = p
    <3>1. pods'[q].lapsed /\ pods'[q].pc = pods[q].pc /\ pods'[q].at = pods[q].at
      BY <1>1, <2>1 DEF TypeOK, HostStates
    <3> QED
      BY <3>1 DEF HostsOK, Rightful, Alive, Executing
  <2>2. CASE q # p
    <3>1. Rightful(q) /\ pods'[q] = pods[q]
      BY <1>1, <2>2 DEF HostsOK, TypeOK
    <3>2. Owns(q, pods[q].at) => leases'[pods[q].at] = leases[pods[q].at]
      BY <1>1, <2>2 DEF Owns, TypeOK
    <3> QED
      BY <1>1, <3>1, <3>2 DEF Rightful, Alive, Executing, Owns
  <2> QED
    BY <2>1, <2>2
<1> QED
  BY <1>3, <1>4 DEF HostsOK

\* Heartbeats, silence and the reaper touch the registry only.
LEMMA BeatsStep ==
  ASSUME FleetInv, NEW p \in Pods, Heartbeat(p) \/ FallsSilent(p) \/ MarkLost(p)
  PROVE  FleetInv'
<1> USE DEF FleetInv
<1>1. /\ UNCHANGED <<attempts, leases, jobs, pods, ctl, observed>>
      /\ faults' = faults \/ faults' = faults + 1
  BY DEF Heartbeat, FallsSilent, MarkLost, kube, control, Fault
<1>2. /\ runners' \in [Pods -> {"none", "online", "offline", "lost"}]
      /\ silent' \in SUBSET Pods
      /\ lossCount' \in [Pods -> Nat]
  BY DEF Heartbeat, FallsSilent, MarkLost, Detect, TypeOK
<1>3. TypeOK' /\ HostsOK'
  BY <1>1, <1>2, HostsKept DEF TypeOK
<1>4. LossOK'
  <2>1. CASE Heartbeat(p)
    BY <2>1 DEF Heartbeat, LossOK, TypeOK
  <2>2. CASE FallsSilent(p)
    BY <2>2 DEF FallsSilent, LossOK
  <2>3. CASE MarkLost(p)
    BY <2>3 DEF MarkLost, Detect, Overdue, LossOK, TypeOK
  <2> QED
    BY <2>1, <2>2, <2>3
<1> QED
  BY <1>3, <1>4

\* At first there are no pods.
LEMMA InitHolds ==
  ASSUME Init
  PROVE  FleetInv
<1> USE DEF Init
<1>1. /\ NoJob \in Jobs
      /\ [pc |-> "gone", at |-> NoPod, lapsed |-> FALSE] \in HostStates
      /\ [pc |-> "list", snap |-> << >>, todo |-> {}] \in CtlStates
  BY EmptySnapshot DEF NoJob, Jobs, JobStates, HostStates, CtlStates
<1>2. TypeOK
  BY <1>1 DEF TypeOK, JobStates
<1>3. HostsOK /\ LossOK
  BY DEF HostsOK, Rightful, Alive, Executing, LossOK
<1> QED
  BY <1>2, <1>3 DEF FleetInv

-----------------------------------------------------------------------------
(* The theorems.                                                           *)

\* Every host that executes holds the live lease of its attempt, which is not
\* settled, unless that lease has run out under it; and a runner found lost stays
\* marked until it beats.  It holds whatever the controllers, the cluster, the
\* clock and the reapers do (runner/store.go, ClaimAttempt; runner/host.go).
THEOREM FleetInvariant == Spec => []FleetInv
<1>1. Init => FleetInv
  BY InitHolds
<1>2. FleetInv /\ [Next]_vars => FleetInv'
  <2> SUFFICES ASSUME FleetInv, [Next]_vars
               PROVE  FleetInv'
    OBVIOUS
  <2>1. ASSUME NEW c \in Controllers,
               Controller(c) \/ DispatchFails(c) \/ ControllerRestarts(c)
        PROVE  FleetInv'
    BY <2>1, ListJobsStep, ObserveListedStep, QueryAttemptsStep, CreateJobStep,
       ControllerFaultStep DEF Controller
  <2>2. ASSUME NEW c \in Controllers, NEW a \in Attempts, WatchEvent(c, a)
        PROVE  FleetInv'
    BY <2>2, WatchEventStep
  <2>3. ASSUME NEW a \in Attempts,
               \/ TtlExpires(a) \/ LeaseExpires(a) \/ LeaseRunsOut(a)
               \/ \E p \in Pods : StartPod(a, p)
        PROVE  FleetInv'
    BY <2>3, TtlExpiresStep, LeaseExpiresStep, LeaseRunsOutStep, StartPodStep
  <2>4. ASSUME NEW p \in Pods,
               Host(p) \/ Beats(p) \/ FallsSilent(p) \/ PodKilled(p) \/ PodUnreachable(p)
        PROVE  FleetInv'
    BY <2>4, ClaimAttemptStep, ProceedStep, ExecuteReturnsStep, ShutdownStep, BeatsStep,
       PodKilledStep, PodUnreachableStep DEF Host, Beats
  <2>5. CASE UNCHANGED vars
    BY <2>5, HostsKept DEF vars, FleetInv, TypeOK, LossOK
  <2> QED
    BY <2>1, <2>2, <2>3, <2>4, <2>5 DEF Next
<1> QED
  BY <1>1, <1>2, PTL DEF Spec

\* Of two pods that execute one attempt, one at least has let its lease run out:
\* declaring runners lost while they work, deleting Jobs under their pods and
\* dispatching twice let nobody in (runner/store.go, MarkLost: expiry, not runner
\* status, makes an attempt claimable).
THEOREM OneExecutor == Spec => []NoDuplicateExecution
<1>1. FleetInv => NoDuplicateExecution
  <2> SUFFICES ASSUME FleetInv, NEW p \in Pods, NEW q \in Pods,
                      Executing(p), Executing(q), pods[p].at = pods[q].at,
                      ~pods[p].lapsed, ~pods[q].lapsed
               PROVE  p = q
    BY DEF NoDuplicateExecution
  <2>1. Owns(p, pods[p].at) /\ Owns(q, pods[p].at)
    BY DEF FleetInv, HostsOK, Rightful
  <2> QED
    BY <2>1 DEF Owns
<1> QED
  BY <1>1, FleetInvariant, PTL

\* A runner is found lost at most once between two of its heartbeats, however
\* many hosts reap (runner/host.go, beatAndReap).
THEOREM OneLoss == Spec => []LossDetectedOnce
<1>1. FleetInv => LossDetectedOnce
  BY DEF FleetInv, LossOK, LossDetectedOnce
<1> QED
  BY <1>1, FleetInvariant, PTL
-----------------------------------------------------------------------------
(* The machines' disks (GitWorkspace): the worktrees of one task, for any  *)
(* machines and any number of attempts, runs and mishaps.                  *)

Commits == Seq(Nat \X Nat)

Trees == [exists : BOOLEAN, edits : Commits]

Refs == [exists : BOOLEAN, at : Commits]

Disks == [mirror : BOOLEAN, tip : Refs, branch : Refs, locked : BOOLEAN,
          trees : [AttemptNumbers -> Trees]]

Stages ==
  {"idle", "mirror", "add", "stale", "agent", "advance", "validated", "recover", "commit",
   "push", "remove", "review", "fail", "defer", "end", "release"}

Codes ==
  {"none", "workspace_failed", "base_mismatch", "workspace_lost", "no_change", "publish_failed"}

Executions ==
  [pc : Stages, attempt : Nat, ws : BOOLEAN, again : BOOLEAN, hit : BOOLEAN, code : Codes]

Tasks ==
  [status : {"running", "validating", "publishing", "review", "finished"},
   attempt : AttemptNumbers, base : [AttemptNumbers -> Commits],
   kept : [AttemptNumbers -> Nat]]

\* A commit holds work of attempts up to n, and of one run of each at most.
OneEach(c, n) ==
  /\ c \in Commits /\ n \in Nat
  /\ \A i \in DOMAIN c : c[i] = Foreign \/ c[i][1] \in 1..n
  /\ \A i, j \in DOMAIN c : (i # j /\ c[i] # Foreign) => c[i][1] # c[j][1]

\* The worktree of attempt a has nothing of a run yet, holds the edits of run r, or
\* has committed them.
Untouched(d, a, t) == d.branch.at = t.base[a] /\ d.trees[a].edits = << >>

Edited(d, a, t, r) == d.branch.at = t.base[a] /\ d.trees[a].edits = << <<a, r>> >>

Committed(d, a, t, r) ==
  d.branch.at = Append(t.base[a], <<a, r>>) /\ d.trees[a].edits = << >>

\* One worktree at most has the branch checked out, and its work is of one run.
DiskOK(d, t) ==
  /\ d \in Disks
  /\ d.branch.exists => d.mirror
  /\ d.locked => d.branch.exists
  /\ \A a \in AttemptNumbers : ~d.trees[a].exists => d.trees[a].edits = << >>
  /\ \A a \in AttemptNumbers : d.trees[a].exists =>
       /\ d.branch.exists /\ a \leq t.attempt
       /\ \A b \in AttemptNumbers : d.trees[b].exists => a = b
       /\ \/ Untouched(d, a, t)
          \/ \E r \in Nat : Edited(d, a, t, r) \/ Committed(d, a, t, r)

Publishing == {"validated", "recover", "commit", "push", "remove", "review"}

\* Stage by stage, what an execution has under it.
OwnOK(d, e, t) ==
  /\ e \in Executions
  /\ e.pc # "idle" =>
       LET a == e.attempt
       IN /\ a \in 1..t.attempt
          /\ e.pc \in {"add", "agent", "advance", "commit", "push"} => d.mirror
          /\ e.pc \in {"agent", "advance", "commit", "push"} => d.trees[a].exists
          /\ e.pc \in {"agent", "advance"} => e.ws
          /\ e.pc = "validated" /\ e.ws => d.trees[a].exists
          /\ e.pc = "agent" => Untouched(d, a, t)
          /\ e.pc = "advance" => \E r \in Nat : Edited(d, a, t, r)
          /\ e.pc = "push" => d.trees[a].edits = << >>
          /\ e.pc \in Publishing /\ a = t.attempt => t.status # "running"

\* A worktree of an older attempt is in the way of e.
OlderThere(d, e) == \E b \in 1..(e.attempt - 1) : b \in AttemptNumbers /\ d.trees[b].exists

\* After CleanupStale only an older attempt's worktree or a locked entry keeps the
\* branch.
LeftOK(d, e) ==
  /\ e.code = "workspace_failed" => e.hit \/ OlderThere(d, e) \/ d.locked
  /\ e.again /\ e.pc \in {"mirror", "add"} =>
       /\ d.mirror /\ ~d.trees[e.attempt].exists
       /\ d.branch.exists => e.hit \/ OlderThere(d, e) \/ d.locked

MachineOK(d, e, t) == DiskOK(d, t) /\ OwnOK(d, e, t) /\ LeftOK(d, e)

TaskOK(t, o) ==
  /\ t \in Tasks
  /\ t.attempt \in Nat /\ 1..t.attempt \subseteq AttemptNumbers
  /\ OneEach(o, t.attempt)
  /\ \A b \in 1..t.attempt : OneEach(t.base[b], b - 1)
  /\ t.status = "running" => OneEach(o, t.attempt - 1)

WorkInv ==
  /\ TaskOK(task, origin)
  /\ disk \in [Hosts -> Disks] /\ own \in [Hosts -> Executions]
  /\ runs \in Nat
  /\ \A h \in Hosts : \A d, e, t :
       d = disk[h] /\ e = own[h] /\ t = task => MachineOK(d, e, t)

-----------------------------------------------------------------------------
(* What git does to a commit and to a disk.                                *)

LEMMA OneEachLater ==
  ASSUME NEW c, NEW n, OneEach(c, n), NEW m \in Nat, n \leq m
  PROVE  OneEach(c, m)
BY DEF OneEach

LEMMA OneEachAppend ==
  ASSUME NEW c, NEW n \in Nat \ {0}, OneEach(c, n - 1), NEW r \in Nat
  PROVE  OneEach(Append(c, <<n, r>>), n)
<1> DEFINE k == Len(c) + 1
           s == Append(c, <<n, r>>)
<1>1. c \in Commits /\ <<n, r>> \in Nat \X Nat
  BY DEF OneEach
<1>2. /\ s \in Commits /\ k \in Nat /\ DOMAIN s = 1..k /\ DOMAIN c = 1..(k - 1)
      /\ s[k] = <<n, r>> /\ \A i \in DOMAIN c : s[i] = c[i]
  BY <1>1 DEF Commits
<1>3. \A i \in DOMAIN s : s[i] = Foreign \/ s[i][1] \in 1..n
  BY <1>2 DEF OneEach
<1>4. ASSUME NEW i \in DOMAIN s, NEW j \in DOMAIN s, i # j, s[i] # Foreign
      PROVE  s[i][1] # s[j][1]
  <2>0. Foreign[1] = 0 /\ s[k][1] = n
    BY <1>2 DEF Foreign
  <2> HIDE DEF s, k
  <2>1. CASE i = k
    <3>1. j \in DOMAIN c /\ s[j] = c[j]
      BY <1>2, <1>4, <2>1
    <3>2. c[j] = Foreign \/ c[j][1] \in 1..(n - 1)
      BY <3>1 DEF OneEach
    <3> QED
      BY <2>0, <2>1, <3>1, <3>2
  <2>2. CASE j = k
    <3>1. i \in DOMAIN c /\ s[i] = c[i]
      BY <1>2, <1>4, <2>2
    <3>2. c[i][1] \in 1..(n - 1)
      BY <1>4, <3>1 DEF OneEach
    <3> QED
      BY <2>0, <2>2, <3>1, <3>2
  <2>3. CASE i # k /\ j # k
    <3>1. i \in DOMAIN c /\ j \in DOMAIN c /\ s[i] = c[i] /\ s[j] = c[j]
      BY <1>2, <2>3
    <3> QED
      BY <1>4, <3>1 DEF OneEach
  <2> QED
    BY <2>1, <2>2, <2>3
<1> QED
  BY <1>2, <1>3, <1>4 DEF OneEach

LEMMA OneEachForeign ==
  ASSUME NEW c, NEW n, OneEach(c, n)
  PROVE  OneEach(Append(c, Foreign), n)
<1> DEFINE k == Len(c) + 1
           s == Append(c, Foreign)
<1>1. c \in Commits /\ Foreign \in Nat \X Nat /\ Foreign[1] = 0
  BY DEF OneEach, Foreign
<1>2. /\ s \in Commits /\ k \in Nat /\ DOMAIN s = 1..k /\ DOMAIN c = 1..(k - 1)
      /\ s[k] = Foreign /\ \A i \in DOMAIN c : s[i] = c[i]
  BY <1>1 DEF Commits
<1>3. \A i \in DOMAIN c : c[i] = Foreign \/ c[i][1] \in 1..n
  BY DEF OneEach
<1> HIDE DEF s, k
<1>4. \A i \in DOMAIN s : s[i] = Foreign \/ s[i][1] \in 1..n
  BY <1>2, <1>3
<1>5. ASSUME NEW i \in DOMAIN s, NEW j \in DOMAIN s, i # j, s[i] # Foreign
      PROVE  s[i][1] # s[j][1]
  <2>1. i \in DOMAIN c /\ s[i] = c[i]
    BY <1>2, <1>5
  <2>2. CASE j = k
    BY <1>1, <1>2, <1>3, <1>5, <2>1, <2>2 DEF OneEach
  <2>3. CASE j # k
    <3>1. j \in DOMAIN c /\ s[j] = c[j]
      BY <1>2, <2>3
    <3> QED
      BY <1>5, <2>1, <3>1 DEF OneEach
  <2> QED
    BY <2>2, <2>3
<1> USE DEF s
<1> QED
  BY <1>2, <1>4, <1>5 DEF OneEach

\* A branch with nothing uncommitted on it may go to GitHub.
LEMMA BranchOneEach ==
  ASSUME NEW d, NEW t, NEW o, TaskOK(t, o), DiskOK(d, t), NEW a \in 1..t.attempt,
         d.trees[a].exists, d.trees[a].edits = << >>
  PROVE  OneEach(d.branch.at, a)
<1>2. a \in AttemptNumbers /\ a \in Nat \ {0}
  BY DEF TaskOK
<1>3. OneEach(t.base[a], a - 1)
  BY DEF TaskOK
<1>4. d.branch.at = t.base[a] \/ \E r \in Nat : d.branch.at = Append(t.base[a], <<a, r>>)
  <2>1. \A r : << <<a, r>> >> # << >>
    OBVIOUS
  <2> QED
    BY <1>2, <2>1 DEF DiskOK, Untouched, Edited, Committed
<1>5. CASE d.branch.at = t.base[a]
  BY <1>2, <1>3, <1>5, OneEachLater
<1>6. CASE \E r \in Nat : d.branch.at = Append(t.base[a], <<a, r>>)
  BY <1>2, <1>3, <1>6, OneEachAppend
<1> QED
  BY <1>4, <1>5, <1>6

LEMMA ClearedOK ==
  ASSUME NEW d, NEW t, DiskOK(d, t), NEW a \in AttemptNumbers
  PROVE  LET c == Cleared(d, a)
         IN /\ DiskOK(c, t)
            /\ ~c.trees[a].exists /\ c.mirror = d.mirror /\ c.locked = d.locked
            /\ \A b \in AttemptNumbers \ {a} : c.trees[b] = d.trees[b]
            /\ c.branch = d.branch \/ ~c.branch.exists
            /\ c.branch.exists =>
                 d.locked \/ \E b \in AttemptNumbers \ {a} : d.trees[b].exists
<1> DEFINE B == d.locked \/ \E b \in AttemptNumbers \ {a} : d.trees[b].exists
           c == Cleared(d, a)
<1>1. d \in Disks
  BY DEF DiskOK
<1>2. NoTree \in Trees /\ ~NoTree.exists /\ NoTree.edits = << >>
      /\ NoBranch \in Refs /\ ~NoBranch.exists
  BY DEF Trees, Refs, Commits, NoTree, NoBranch
<1> DEFINE T == [d.trees EXCEPT ![a] = NoTree]
           R == IF B THEN d.branch ELSE NoBranch
<1>3. /\ c = [d EXCEPT !.trees = T, !.branch = R]
      /\ d.trees \in [AttemptNumbers -> Trees] /\ d.branch \in Refs
  BY <1>1 DEF Cleared, Disks
<1>4. /\ T \in [AttemptNumbers -> Trees] /\ R \in Refs
      /\ T[a] = NoTree
      /\ \A b \in AttemptNumbers \ {a} : T[b] = d.trees[b]
      /\ (B => R = d.branch) /\ (~B => ~R.exists)
  BY <1>2, <1>3
<1> HIDE DEF T, R, c
<1>5. /\ c \in Disks /\ c.trees = T /\ c.branch = R /\ c.mirror = d.mirror
      /\ c.locked = d.locked
  BY <1>1, <1>3, <1>4 DEF Disks
<1>6. \A b \in AttemptNumbers : T[b].exists => b # a /\ B
  BY <1>2, <1>4
<1>7. DiskOK(c, t)
  <2>1. (c.branch.exists => c.mirror) /\ (c.locked => c.branch.exists)
    <3>1. (d.branch.exists => d.mirror) /\ (d.locked => d.branch.exists)
      BY DEF DiskOK
    <3> QED
      BY <1>4, <1>5, <3>1
  <2>2. \A b \in AttemptNumbers : ~c.trees[b].exists => c.trees[b].edits = << >>
    BY <1>2, <1>4, <1>5 DEF DiskOK
  <2>3. ASSUME NEW b \in AttemptNumbers, c.trees[b].exists
        PROVE  /\ c.branch.exists /\ b \leq t.attempt
               /\ \A x \in AttemptNumbers : c.trees[x].exists => b = x
               /\ \/ Untouched(c, b, t)
                  \/ \E r \in Nat : Edited(c, b, t, r) \/ Committed(c, b, t, r)
    <3>1. b # a /\ d.trees[b].exists /\ c.trees[b] = d.trees[b] /\ c.branch = d.branch
      BY <1>4, <1>5, <1>6, <2>3
    <3>2. \A x \in AttemptNumbers : c.trees[x].exists => d.trees[x].exists
      BY <1>4, <1>5, <1>6
    <3> QED
      BY <3>1, <3>2 DEF DiskOK, Untouched, Edited, Committed
  <2> QED
    BY <1>5, <2>1, <2>2, <2>3 DEF DiskOK
<1>8. /\ ~c.trees[a].exists
      /\ \A b \in AttemptNumbers \ {a} : c.trees[b] = d.trees[b]
  BY <1>2, <1>4, <1>5
<1>9. /\ c.branch = d.branch \/ ~c.branch.exists
      /\ c.branch.exists => B
  BY <1>4, <1>5
<1> USE DEF c
<1> QED
  BY <1>5, <1>7, <1>8, <1>9

LEMMA MirroredOK ==
  ASSUME NEW d, NEW t, DiskOK(d, t), origin \in Commits
  PROVE  LET m == Mirrored(d)
         IN /\ DiskOK(m, t)
            /\ m.mirror /\ m.trees = d.trees /\ m.locked = d.locked
            /\ d.mirror => m.branch = d.branch
<1> DEFINE m == Mirrored(d)
<1>1. d \in Disks /\ Ref(origin) \in Refs
  BY DEF DiskOK, Ref, Refs
<1>2. CASE d.mirror
  <2>1. /\ m \in Disks /\ m.trees = d.trees /\ m.branch = d.branch /\ m.mirror
        /\ m.locked = d.locked
    BY <1>1, <1>2 DEF Mirrored, Disks
  <2> HIDE DEF m
  <2>2. DiskOK(m, t)
    BY <2>1 DEF DiskOK, Untouched, Edited, Committed
  <2> USE DEF m
  <2> QED
    BY <2>1, <2>2
<1>3. CASE ~d.mirror
  <2>1. m \in Disks /\ m.trees = d.trees /\ m.mirror /\ m.locked = d.locked
    BY <1>1, <1>3 DEF Mirrored, Disks
  <2>2. ~d.locked /\ \A a \in AttemptNumbers : ~d.trees[a].exists
    BY <1>3 DEF DiskOK
  <2> HIDE DEF m
  <2>3. DiskOK(m, t)
    BY <2>1, <2>2 DEF DiskOK
  <2> USE DEF m
  <2> QED
    BY <1>3, <2>1, <2>3
<1> QED
  BY <1>2, <1>3

LEMMA AddedOK ==
  ASSUME NEW d, NEW o, DiskOK(d, task), TaskOK(task, o), NEW a \in 1..task.attempt,
         ~Occupied(d, a), d.mirror
  PROVE  LET n == Added(d, a)
         IN /\ DiskOK(n, task) /\ n.trees[a].exists /\ n.mirror /\ Untouched(n, a, task)
            /\ n.locked = d.locked
            /\ \A x \in Leftovers(d, a) :
                 /\ DiskOK(x, task) /\ x.mirror
                 /\ \A b \in AttemptNumbers \ {a} : x.trees[b] = d.trees[b]
<1> DEFINE n == Added(d, a)
           ref == [exists |-> TRUE, at |-> task.base[a]]
           T == [d.trees EXCEPT ![a].exists = TRUE]
           half == [d EXCEPT !.branch = n.branch]
           lock == [n EXCEPT !.locked = TRUE]
<1>1. /\ a \in AttemptNumbers /\ a \leq task.attempt
      /\ task.base[a] \in Commits /\ d \in Disks
  <2>1. a \in AttemptNumbers /\ task.base \in [AttemptNumbers -> Commits]
    BY DEF TaskOK, Tasks
  <2>2. task.attempt \in Nat /\ d \in Disks
    BY DEF TaskOK, DiskOK
  <2> QED
    BY <2>1, <2>2
<1>2. ~d.branch.exists /\ ~d.trees[a].exists /\ ~d.locked
  BY DEF Occupied, DiskOK
<1>3. \A b \in AttemptNumbers : ~d.trees[b].exists /\ d.trees[b].edits = << >>
  BY <1>2 DEF DiskOK
<1>4. ref \in Refs /\ ref.exists /\ ref.at = task.base[a]
  BY <1>1 DEF Refs
<1>5. n = [d EXCEPT !.branch = ref, !.trees = T]
  BY <1>1, <1>2 DEF Added, Disks
<1>6. d.trees \in [AttemptNumbers -> Trees]
  BY <1>1 DEF Disks
<1>7. /\ T \in [AttemptNumbers -> Trees] /\ T[a].exists /\ T[a].edits = << >>
      /\ \A b \in AttemptNumbers \ {a} : T[b] = d.trees[b]
  BY <1>1, <1>3, <1>6 DEF Trees
<1> HIDE DEF ref, T
<1>8. n \in Disks /\ n.trees = T /\ n.branch = ref /\ n.mirror /\ n.locked = d.locked
  BY <1>1, <1>4, <1>5, <1>7 DEF Disks
<1> HIDE DEF n
<1>9. half \in Disks /\ half.trees = d.trees /\ half.branch = ref /\ half.mirror
      /\ ~half.locked
  BY <1>1, <1>2, <1>4, <1>8 DEF Disks
<1>10. lock \in Disks /\ lock.trees = T /\ lock.branch = ref /\ lock.mirror
  BY <1>4, <1>7, <1>8 DEF Disks
<1> HIDE DEF half, lock
<1>11. Untouched(n, a, task) /\ Untouched(lock, a, task)
  BY <1>4, <1>7, <1>8, <1>10 DEF Untouched
<1>12. DiskOK(n, task)
  BY <1>1, <1>2, <1>3, <1>4, <1>7, <1>8, <1>11 DEF DiskOK
<1>13. DiskOK(half, task)
  BY <1>3, <1>4, <1>9 DEF DiskOK
<1>14. DiskOK(lock, task)
  BY <1>1, <1>3, <1>4, <1>7, <1>10, <1>11 DEF DiskOK
<1>15. Leftovers(d, a) = {d, half, n, lock}
  BY DEF Leftovers, half, lock, n
<1>16. ASSUME NEW x \in Leftovers(d, a)
       PROVE  /\ DiskOK(x, task) /\ x.mirror
              /\ \A b \in AttemptNumbers \ {a} : x.trees[b] = d.trees[b]
  BY <1>7, <1>8, <1>9, <1>10, <1>12, <1>13, <1>14, <1>15, <1>16
<1>17. n.trees[a].exists
  BY <1>7, <1>8
<1> USE DEF n
<1> QED
  BY <1>8, <1>11, <1>12, <1>16, <1>17
-----------------------------------------------------------------------------
(* Steps of one machine, and steps of the task under all of them.          *)

\* The task goes on: within an attempt, never back to running; or to the next attempt.
Follows(t, u) ==
  /\ u.attempt \in Nat
  /\ \/ u.attempt = t.attempt /\ (u.status = "running" => t.status = "running")
     \/ u.attempt = t.attempt + 1
  /\ \A b \in 1..t.attempt : u.base[b] = t.base[b]

LEMMA MachineFollows ==
  ASSUME NEW t, NEW u, NEW o, NEW d, NEW e,
         TaskOK(t, o), Follows(t, u), MachineOK(d, e, t)
  PROVE  MachineOK(d, e, u)
<1>1. /\ t.attempt \in Nat /\ u.attempt \in Nat /\ t.attempt \leq u.attempt
      /\ \A b \in 1..t.attempt : u.base[b] = t.base[b]
      /\ u.attempt = t.attempt => (u.status = "running" => t.status = "running")
  BY DEF TaskOK, Follows
<1>2. \A a \in AttemptNumbers : a \leq t.attempt => a \in 1..t.attempt
  BY <1>1 DEF AttemptNumbers
<1>3. DiskOK(d, u)
  <2>1. \A a \in AttemptNumbers : d.trees[a].exists => a \leq t.attempt /\ a \in Nat
    BY DEF MachineOK, DiskOK, AttemptNumbers
  <2>2. \A a \in AttemptNumbers : d.trees[a].exists =>
          a \leq u.attempt /\ u.base[a] = t.base[a]
    BY <1>1, <1>2, <2>1
  <2> QED
    BY <2>2 DEF MachineOK, DiskOK, Untouched, Edited, Committed
<1>4. OwnOK(d, e, u)
  <2>1. CASE e.pc = "idle"
    BY <2>1 DEF MachineOK, OwnOK
  <2>2. CASE e.pc # "idle"
    <3>1. e.attempt \in 1..t.attempt
      BY <2>2 DEF MachineOK, OwnOK
    <3>2. e.attempt \in 1..u.attempt /\ u.base[e.attempt] = t.base[e.attempt]
      BY <1>1, <3>1
    <3>3. e.attempt = u.attempt => u.attempt = t.attempt
      BY <1>1, <3>1
    <3> QED
      BY <1>1, <2>2, <3>1, <3>2, <3>3 DEF MachineOK, OwnOK, Untouched, Edited
  <2> QED
    BY <2>1, <2>2
<1> QED
  BY <1>3, <1>4 DEF MachineOK

LEMMA MachineKnown ==
  ASSUME WorkInv, NEW h \in Hosts
  PROVE  /\ MachineOK(disk[h], own[h], task) /\ TaskOK(task, origin)
         /\ disk[h] \in Disks /\ own[h] \in Executions
BY DEF WorkInv

\* Machine h moves, and perhaps the task with it.
LEMMA MachineStep ==
  ASSUME WorkInv, NEW h \in Hosts, NEW d \in Disks, NEW e \in Executions,
         disk' = [disk EXCEPT ![h] = d], own' = [own EXCEPT ![h] = e],
         Follows(task, task'), TaskOK(task', origin'), MachineOK(d, e, task'), runs' \in Nat
  PROVE  WorkInv'
<1>1. /\ disk \in [Hosts -> Disks] /\ own \in [Hosts -> Executions]
  BY DEF WorkInv
<1>2. /\ disk' \in [Hosts -> Disks] /\ disk'[h] = d
      /\ own' \in [Hosts -> Executions] /\ own'[h] = e
      /\ \A k \in Hosts \ {h} : disk'[k] = disk[k] /\ own'[k] = own[k]
  BY <1>1
<1>3. ASSUME NEW k \in Hosts, NEW dd, NEW ee, NEW u,
             dd = disk'[k], ee = own'[k], u = task'
      PROVE  MachineOK(dd, ee, u)
  <2>1. CASE k = h
    BY <1>2, <1>3, <2>1
  <2>2. CASE k # h
    <3>1. PICK t : t = task
      OBVIOUS
    <3>2. MachineOK(dd, ee, t) /\ TaskOK(t, origin) /\ Follows(t, u)
      BY <1>2, <1>3, <2>2, <3>1, MachineKnown
    <3> QED
      BY <3>2, MachineFollows
  <2> QED
    BY <2>1, <2>2
<1>4. TaskOK(task, origin)'
  BY DEF TaskOK
<1> QED
  BY <1>2, <1>3, <1>4 DEF WorkInv

\* Only the task or the branch on GitHub moves.
LEMMA TaskStep ==
  ASSUME WorkInv, UNCHANGED <<disk, own, runs>>, Follows(task, task'), TaskOK(task', origin')
  PROVE  WorkInv'
<1>1. ASSUME NEW k \in Hosts, NEW d, NEW e, NEW u, d = disk'[k], e = own'[k], u = task'
      PROVE  MachineOK(d, e, u)
  <2>1. PICK t : t = task
    OBVIOUS
  <2>2. MachineOK(d, e, t) /\ TaskOK(t, origin) /\ Follows(t, u)
    BY <1>1, <2>1, MachineKnown
  <2> QED
    BY <2>2, MachineFollows
<1>2. TaskOK(task, origin)'
  BY DEF TaskOK
<1> QED
  BY <1>1, <1>2 DEF WorkInv

LEMMA SameTask ==
  ASSUME WorkInv, task' = task
  PROVE  Follows(task, task')
BY DEF WorkInv, TaskOK, Follows

LEMMA WorkInit == GitInit => WorkInv
<1> MaxAttempts \in Nat \ {0}
  BY WorkspaceAssumption
<1> SUFFICES ASSUME GitInit PROVE WorkInv
  OBVIOUS
<1>1. /\ task = [status |-> "running", attempt |-> 1,
                 base |-> [a \in AttemptNumbers |-> << >>],
                 kept |-> [a \in AttemptNumbers |-> 0]]
      /\ disk = [h \in Hosts |-> EmptyDisk] /\ own = [h \in Hosts |-> Idle]
      /\ origin = << >> /\ runs = 0
  BY DEF GitInit
<1>2. EmptyDisk \in Disks /\ Idle \in Executions
  BY DEF EmptyDisk, NoBranch, NoTree, Disks, Refs, Trees, Commits, Idle,
     Executions, Stages, Codes
<1>3. OneEach(<< >>, 0) /\ OneEach(<< >>, 1)
  BY DEF OneEach, Commits
<1>4. TaskOK(task, origin)
  <2>1. 1 \in AttemptNumbers /\ << >> \in Commits
    BY DEF AttemptNumbers, Commits
  <2>2. task \in Tasks
    BY <1>1, <2>1 DEF Tasks
  <2>3. task.attempt = 1 /\ origin = << >> /\ task.base[1] = << >>
    BY <1>1, <2>1
  <2> QED
    BY <1>3, <2>1, <2>2, <2>3 DEF TaskOK
<1>5. \A t : MachineOK(EmptyDisk, Idle, t)
  BY <1>2 DEF MachineOK, DiskOK, OwnOK, LeftOK, EmptyDisk, NoBranch, NoTree, Idle
<1> QED
  BY <1>1, <1>2, <1>4, <1>5 DEF WorkInv
LEMMA LocalStep ==
  ASSUME WorkInv, NEW h \in Hosts, NEW d \in Disks, NEW e \in Executions,
         disk' = [disk EXCEPT ![h] = d], own' = [own EXCEPT ![h] = e],
         UNCHANGED <<task, origin>>, runs' \in Nat, MachineOK(d, e, task)
  PROVE  WorkInv'
<1>1. Follows(task, task') /\ TaskOK(task', origin')
  BY SameTask, MachineKnown
<1>2. MachineOK(d, e, task')
  OBVIOUS
<1> QED
  BY <1>1, <1>2, MachineStep

\* h goes somewhere else and leaves its disk and the task alone.
LEMMA GoStep ==
  ASSUME WorkInv, NEW h \in Hosts, NEW e \in Executions, own' = [own EXCEPT ![h] = e],
         UNCHANGED <<disk, task, origin, runs>>, OwnOK(disk[h], e, task), LeftOK(disk[h], e)
  PROVE  WorkInv'
<1>1. disk' = [disk EXCEPT ![h] = disk[h]] /\ runs' \in Nat
  BY DEF WorkInv
<1>2. MachineOK(disk[h], e, task) /\ disk[h] \in Disks
  BY MachineKnown DEF MachineOK
<1> QED
  BY <1>1, <1>2, LocalStep

LEMMA Moved ==
  ASSUME NEW e \in Executions, NEW pc \in Stages
  PROVE  LET f == [e EXCEPT !.pc = pc]
         IN /\ f \in Executions
            /\ f.pc = pc /\ f.attempt = e.attempt /\ f.ws = e.ws /\ f.again = e.again
            /\ f.hit = e.hit /\ f.code = e.code
BY DEF Executions

LEMMA MovedFailing ==
  ASSUME NEW e \in Executions, NEW code \in Codes
  PROVE  LET f == Failing(e, code)
         IN /\ f \in Executions
            /\ f.pc = "fail" /\ f.attempt = e.attempt /\ f.ws = e.ws /\ f.again = e.again
            /\ f.hit = e.hit /\ f.code = code
BY DEF Executions, Failing, Stages

LEMMA IdleOK ==
  ASSUME NEW d, NEW t
  PROVE  Idle \in Executions /\ OwnOK(d, Idle, t) /\ LeftOK(d, Idle)
BY DEF Idle, Executions, Stages, Codes, OwnOK, LeftOK

\* An execution at its end, or that fails, needs nothing.
LEMMA RestingOK ==
  ASSUME NEW d, NEW e, NEW t, NEW f \in Executions, OwnOK(d, e, t), LeftOK(d, e),
         e.pc # "idle", f.attempt = e.attempt, f.code = e.code, f.hit = e.hit,
         f.pc \in {"stale", "fail", "defer", "end", "release"}
  PROVE  OwnOK(d, f, t) /\ LeftOK(d, f)
BY DEF OwnOK, LeftOK, OlderThere, Publishing

LEMMA ClaimWork ==
  ASSUME WorkInv, NEW h \in Hosts, Claim(h)
  PROVE  WorkInv'
<1> DEFINE pc == Stage(h)
           e == [Idle EXCEPT !.attempt = task.attempt, !.pc = Stage(h)]
<1>1. /\ own' = [own EXCEPT ![h] = e] /\ UNCHANGED <<disk, task, origin, runs>>
      /\ task.status \in {"running", "validating", "publishing"}
  BY DEF Claim, Goto
<1>2. task.attempt \in Nat \ {0} /\ task.attempt \in 1..task.attempt
  BY MachineKnown DEF TaskOK, Tasks, AttemptNumbers
<1>3. /\ pc \in {"mirror", "validated", "recover"}
      /\ pc \in Publishing => task.status # "running"
  BY <1>1 DEF Stage, Publishing
<1>4. /\ e \in Executions /\ e.attempt = task.attempt /\ e.pc = pc /\ ~e.ws /\ ~e.again
      /\ e.code = "none"
  BY <1>2, <1>3 DEF Idle, Executions, Stages, Codes
<1> HIDE DEF e, pc
<1>5. OwnOK(disk[h], e, task) /\ LeftOK(disk[h], e)
  BY <1>2, <1>3, <1>4 DEF OwnOK, LeftOK
<1> QED
  BY <1>1, <1>4, <1>5, GoStep

LEMMA LeavesWork ==
  ASSUME WorkInv, NEW h \in Hosts,
         FenceLost(h) \/ Crash(h) \/ ReleaseLease(h)
  PROVE  WorkInv'
<1>1. own' = [own EXCEPT ![h] = Idle] /\ UNCHANGED <<disk, task, origin, runs>>
  BY DEF FenceLost, Crash, ReleaseLease, Goto
<1> QED
  BY <1>1, IdleOK, GoStep

\* The worktrees of the other attempts on h are in d as they were, and so is a lock.
SameTrees(d, h) ==
  /\ disk[h].locked => d.locked
  /\ \A b \in AttemptNumbers \ {own[h].attempt} : d.trees[b] = disk[h].trees[b]

\* What a worktree add that did not end leaves.
LEMMA AddLeavesOK ==
  ASSUME WorkInv, NEW h \in Hosts, own[h].pc = "add", NEW d \in AddLeaves(h)
  PROVE  DiskOK(d, task) /\ d \in Disks /\ d.mirror /\ SameTrees(d, h)
<1>1. /\ MachineOK(disk[h], own[h], task) /\ TaskOK(task, origin)
      /\ own[h].attempt \in 1..task.attempt /\ disk[h].mirror
  BY MachineKnown DEF MachineOK, OwnOK
<1>2. CASE d = disk[h]
  BY <1>1, <1>2 DEF MachineOK, DiskOK, SameTrees
<1>3. CASE ~Occupied(disk[h], own[h].attempt) /\ d \in Leftovers(disk[h], own[h].attempt)
  <2>1. /\ DiskOK(d, task) /\ d.mirror
        /\ \A b \in AttemptNumbers \ {own[h].attempt} : d.trees[b] = disk[h].trees[b]
    BY <1>1, <1>3, AddedOK DEF MachineOK
  <2>2. ~disk[h].locked
    BY <1>1, <1>3 DEF MachineOK, DiskOK, Occupied
  <2> QED
    BY <2>1, <2>2 DEF DiskOK, SameTrees
<1> QED
  BY <1>2, <1>3 DEF AddLeaves

LEMMA InterruptWork ==
  ASSUME WorkInv, NEW h \in Hosts, Interrupt(h)
  PROVE  WorkInv'
<1> DEFINE e == [own[h] EXCEPT !.pc = "defer"]
<1>1. /\ own[h].pc # "idle" /\ own' = [own EXCEPT ![h] = e]
      /\ UNCHANGED <<task, origin, runs>>
  BY DEF Interrupt, GoTo, Goto
<1>2. /\ e \in Executions /\ e.pc = "defer" /\ e.attempt = own[h].attempt
      /\ e.code = own[h].code /\ e.hit = own[h].hit
  <2>1. own[h] \in Executions /\ "defer" \in Stages
    BY MachineKnown DEF Stages
  <2> QED
    BY <2>1, Moved
<1> HIDE DEF e
<1>3. OwnOK(disk[h], e, task) /\ LeftOK(disk[h], e)
  BY <1>1, <1>2, MachineKnown, RestingOK DEF MachineOK
<1>4. CASE UNCHANGED disk
  BY <1>1, <1>2, <1>3, <1>4, GoStep
<1>5. ASSUME NEW d \in AddLeaves(h), own[h].pc = "add", disk' = [disk EXCEPT ![h] = d]
      PROVE  WorkInv'
  <2>1. DiskOK(d, task) /\ d \in Disks /\ SameTrees(d, h) /\ runs' \in Nat
    BY <1>1, <1>5, AddLeavesOK DEF WorkInv
  <2>2. OwnOK(d, e, task)
    BY <1>2, <1>3 DEF OwnOK, Publishing
  <2>3. LeftOK(d, e)
    BY <1>2, <1>3, <2>1 DEF LeftOK, SameTrees, OlderThere
  <2> QED
    BY <1>1, <1>2, <1>5, <2>1, <2>2, <2>3, LocalStep DEF MachineOK
<1> QED
  BY <1>4, <1>5 DEF Interrupt, At

LEMMA EnsureMirrorWork ==
  ASSUME WorkInv, NEW h \in Hosts, EnsureMirror(h)
  PROVE  WorkInv'
<1> DEFINE e == [own[h] EXCEPT !.pc = "add"]
           d == Mirrored(disk[h])
<1>1. /\ own[h].pc = "mirror" /\ own' = [own EXCEPT ![h] = e]
      /\ disk' = [disk EXCEPT ![h] = d] /\ UNCHANGED <<task, origin, runs>>
  BY DEF EnsureMirror, GoTo, Goto, At
<1>2. /\ e \in Executions /\ e.pc = "add" /\ e.attempt = own[h].attempt /\ e.ws = own[h].ws
      /\ e.code = own[h].code /\ e.hit = own[h].hit /\ e.again = own[h].again
  <2>1. own[h] \in Executions /\ "add" \in Stages
    BY MachineKnown DEF Stages
  <2> QED
    BY <2>1, Moved
<1>3. /\ DiskOK(d, task) /\ d.mirror /\ d.trees = disk[h].trees
      /\ d.locked = disk[h].locked
      /\ disk[h].mirror => d.branch = disk[h].branch
  BY MachineKnown, MirroredOK DEF MachineOK, TaskOK, OneEach
<1> HIDE DEF e, d
<1>4. OwnOK(disk[h], own[h], task) /\ LeftOK(disk[h], own[h])
  BY MachineKnown DEF MachineOK
<1>5. OwnOK(d, e, task)
  BY <1>1, <1>2, <1>3, <1>4 DEF OwnOK, Publishing
<1>6. LeftOK(d, e)
  BY <1>1, <1>2, <1>3, <1>4 DEF LeftOK, OlderThere
<1>7. d \in Disks /\ runs' \in Nat
  BY <1>1, <1>3 DEF DiskOK, WorkInv
<1> QED
  BY <1>1, <1>2, <1>3, <1>5, <1>6, <1>7, LocalStep DEF MachineOK
LEMMA CreateWorktreeWork ==
  ASSUME WorkInv, NEW h \in Hosts, CreateWorktree(h)
  PROVE  WorkInv'
<1> DEFINE a == own[h].attempt
           d == disk[h]
           n == Added(disk[h], a)
           e == [own[h] EXCEPT !.pc = "agent", !.ws = TRUE]
<1>1. /\ own[h].pc = "add" /\ UNCHANGED <<task, origin, runs>>
      /\ MachineOK(d, own[h], task) /\ TaskOK(task, origin)
      /\ own[h] \in Executions /\ a \in 1..task.attempt
  BY MachineKnown DEF CreateWorktree, At, MachineOK, OwnOK
<1>2. d.mirror /\ a \in AttemptNumbers
  BY <1>1 DEF MachineOK, OwnOK, TaskOK
<1>3. CASE own' = [own EXCEPT ![h] = Failing(own[h], "base_mismatch")] /\ UNCHANGED disk
  <2> DEFINE f == Failing(own[h], "base_mismatch")
  <2>1. /\ f \in Executions /\ f.pc = "fail" /\ f.attempt = a /\ f.code = "base_mismatch"
    BY <1>1, MovedFailing DEF Codes
  <2> HIDE DEF f
  <2>2. OwnOK(d, f, task) /\ LeftOK(d, f)
    BY <1>1, <2>1 DEF OwnOK, LeftOK, Publishing
  <2> USE DEF f
  <2> QED
    BY <1>1, <1>3, <2>1, <2>2, GoStep
<1>4. CASE Occupied(d, a) /\ own' = [own EXCEPT ![h] = Retry(own[h])] /\ UNCHANGED disk
  <2> DEFINE f == Failing(own[h], "workspace_failed")
             g == [own[h] EXCEPT !.pc = "stale"]
  <2>1. CASE own[h].again
    <3>1. own' = [own EXCEPT ![h] = f]
      BY <1>4, <2>1 DEF Retry
    <3>2. /\ f \in Executions /\ f.pc = "fail" /\ f.attempt = a /\ f.hit = own[h].hit
      BY <1>1, MovedFailing DEF Codes
    <3>3. own[h].hit \/ OlderThere(d, own[h]) \/ d.locked
      BY <1>1, <1>4, <2>1 DEF MachineOK, LeftOK, Occupied
    <3> HIDE DEF f
    <3>4. OwnOK(d, f, task) /\ LeftOK(d, f)
      BY <1>1, <3>2, <3>3 DEF OwnOK, LeftOK, OlderThere, Publishing
    <3> QED
      BY <1>1, <1>4, <3>1, <3>2, <3>4, GoStep
  <2>2. CASE ~own[h].again
    <3>1. own' = [own EXCEPT ![h] = g]
      BY <1>4, <2>2 DEF Retry
    <3>2. "stale" \in Stages
      BY DEF Stages
    <3>3. /\ g \in Executions /\ g.pc = "stale" /\ g.attempt = a /\ g.hit = own[h].hit
          /\ g.code = own[h].code
      BY <1>1, <3>2, Moved
    <3> HIDE DEF g
    <3>4. OwnOK(d, g, task) /\ LeftOK(d, g)
      BY <1>1, <3>3, RestingOK DEF MachineOK
    <3> QED
      BY <1>1, <1>4, <3>1, <3>3, <3>4, GoStep
  <2> QED
    BY <2>1, <2>2
<1>5. CASE ~Occupied(d, a) /\ disk' = [disk EXCEPT ![h] = n] /\ own' = [own EXCEPT ![h] = e]
  <2>1. /\ DiskOK(n, task) /\ n.trees[a].exists /\ n.mirror /\ Untouched(n, a, task)
        /\ n.locked = d.locked
        /\ \A b \in AttemptNumbers \ {a} : n.trees[b] = d.trees[b]
    <3>1. n \in Leftovers(d, a)
      BY DEF Leftovers
    <3> QED
      BY <1>1, <1>2, <1>5, <3>1, AddedOK DEF MachineOK
  <2>2. /\ e \in Executions /\ e.pc = "agent" /\ e.attempt = a /\ e.ws
        /\ e.code = own[h].code /\ e.hit = own[h].hit
    BY <1>1 DEF Executions, Stages
  <2> HIDE DEF n, e
  <2>3. OwnOK(n, e, task)
    BY <1>1, <2>1, <2>2 DEF OwnOK, Publishing
  <2>4. LeftOK(n, e)
    <3>1. OlderThere(d, own[h]) => OlderThere(n, e)
      BY <1>1, <2>1, <2>2 DEF OlderThere
    <3> QED
      BY <1>1, <2>1, <2>2, <3>1 DEF LeftOK, MachineOK
  <2>5. n \in Disks /\ runs' \in Nat
    BY <1>1, <2>1 DEF DiskOK, WorkInv
  <2> QED
    BY <1>1, <1>5, <2>1, <2>2, <2>3, <2>4, <2>5, LocalStep DEF MachineOK
<1> QED
  BY <1>3, <1>4, <1>5 DEF CreateWorktree, Goto

LEMMA AddCutWork ==
  ASSUME WorkInv, NEW h \in Hosts, AddCut(h)
  PROVE  WorkInv'
<1>1. /\ own[h].pc = "add" /\ UNCHANGED <<task, origin, runs>>
      /\ own' = [own EXCEPT ![h] = Idle]
  BY DEF AddCut, At, Goto
<1>2. PICK d \in AddLeaves(h) : disk' = [disk EXCEPT ![h] = d]
  BY DEF AddCut
<1>3. DiskOK(d, task) /\ d \in Disks /\ runs' \in Nat
  BY <1>1, AddLeavesOK DEF WorkInv
<1>4. MachineOK(d, Idle, task) /\ Idle \in Executions
  BY <1>3, IdleOK DEF MachineOK
<1> QED
  BY <1>1, <1>2, <1>3, <1>4, LocalStep
LEMMA ProvisionFailsWork ==
  ASSUME WorkInv, NEW h \in Hosts, ProvisionFails(h)
  PROVE  WorkInv'
<1> DEFINE a == own[h].attempt
           e == [own[h] EXCEPT !.hit = TRUE]
           f == Retry(e)
<1>1. /\ own[h].pc \in {"mirror", "add"} /\ UNCHANGED <<task, origin, runs>>
      /\ own' = [own EXCEPT ![h] = f]
  BY DEF ProvisionFails, Goto
<1>2. /\ MachineOK(disk[h], own[h], task) /\ a \in 1..task.attempt
      /\ disk[h] \in Disks /\ own[h] \in Executions
  BY <1>1, MachineKnown DEF MachineOK, OwnOK
<1>3. e \in Executions /\ e.pc = own[h].pc /\ e.attempt = a /\ e.hit /\ e.code = own[h].code
  BY <1>2 DEF Executions
<1>4. /\ f \in Executions /\ f.pc \in {"fail", "stale"} /\ f.attempt = a /\ f.hit
  <2> HIDE DEF e
  <2>1. CASE e.again
    <3>1. f = Failing(e, "workspace_failed") /\ "workspace_failed" \in Codes
      BY <2>1 DEF Retry, Codes
    <3> QED
      BY <1>3, <3>1, MovedFailing
  <2>2. CASE ~e.again
    <3>1. f = [e EXCEPT !.pc = "stale"] /\ "stale" \in Stages
      BY <2>2 DEF Retry, Stages
    <3> QED
      BY <1>3, <3>1, Moved
  <2> QED
    BY <2>1, <2>2
<1> HIDE DEF e, f
<1>5. PICK d : /\ d = disk[h] \/ (d \in AddLeaves(h) /\ own[h].pc = "add")
               /\ disk' = [disk EXCEPT ![h] = d]
  <2>1. CASE UNCHANGED disk
    <3>1. disk' = [disk EXCEPT ![h] = disk[h]]
      BY <2>1 DEF WorkInv
    <3> QED
      BY <3>1
  <2> QED
    BY <2>1 DEF ProvisionFails, At
<1>6. DiskOK(d, task) /\ d \in Disks
  <2>1. CASE d = disk[h]
    BY <1>2, <2>1 DEF MachineOK
  <2>2. CASE d \in AddLeaves(h) /\ own[h].pc = "add"
    BY <2>2, AddLeavesOK
  <2> QED
    BY <1>5, <2>1, <2>2
<1>7. OwnOK(d, f, task) /\ LeftOK(d, f)
  BY <1>2, <1>4 DEF OwnOK, LeftOK, Publishing
<1>8. runs' \in Nat
  BY <1>1 DEF WorkInv
<1> QED
  BY <1>1, <1>4, <1>5, <1>6, <1>7, <1>8, LocalStep DEF MachineOK

\* What CleanupStale, Remove and the cleanups leave to an execution that goes on
\* without the worktree.
LEMMA ClearedStep ==
  ASSUME WorkInv, NEW h \in Hosts, own[h].pc # "idle", NEW f \in Executions,
         f.attempt = own[h].attempt, f.code = own[h].code, f.hit = own[h].hit,
         f.pc \in {"mirror", "review", "end", "release"},
         f.pc = "mirror" => disk[h].mirror /\ f.attempt = task.attempt,
         f.pc = "review" => task.status # "running" \/ f.attempt # task.attempt,
         disk' = [disk EXCEPT ![h] = Cleared(disk[h], own[h].attempt)],
         own' = [own EXCEPT ![h] = f], UNCHANGED <<task, origin, runs>>
  PROVE  WorkInv'
<1> DEFINE a == own[h].attempt
           d == disk[h]
           c == Cleared(disk[h], a)
<1>1. /\ MachineOK(d, own[h], task) /\ TaskOK(task, origin) /\ a \in 1..task.attempt
      /\ a \in AttemptNumbers /\ task.attempt \in Nat
  BY MachineKnown DEF MachineOK, OwnOK, TaskOK
<1>2. /\ DiskOK(c, task)
      /\ ~c.trees[a].exists /\ c.mirror = d.mirror /\ c.locked = d.locked
      /\ \A b \in AttemptNumbers \ {a} : c.trees[b] = d.trees[b]
      /\ c.branch.exists =>
           d.locked \/ \E b \in AttemptNumbers \ {a} : d.trees[b].exists
  BY <1>1, ClearedOK DEF MachineOK
<1> HIDE DEF c
<1>3. OlderThere(d, own[h]) => OlderThere(c, f)
  BY <1>1, <1>2 DEF OlderThere
<1>4. a = task.attempt /\ c.branch.exists => OlderThere(c, f) \/ c.locked
  <2> SUFFICES ASSUME a = task.attempt, c.branch.exists, ~d.locked PROVE OlderThere(c, f)
    BY <1>2
  <2>1. PICK b \in AttemptNumbers \ {a} : d.trees[b].exists
    BY <1>2
  <2>2. b \leq task.attempt /\ b \in Nat \ {0}
    BY <1>1, <2>1 DEF MachineOK, DiskOK, AttemptNumbers
  <2>3. b \in 1..(a - 1)
    BY <1>1, <2>1, <2>2
  <2> QED
    BY <1>2, <2>1, <2>3 DEF OlderThere
<1>5. LeftOK(c, f)
  BY <1>1, <1>2, <1>3, <1>4 DEF MachineOK, LeftOK
<1>6. OwnOK(c, f, task)
  BY <1>1 DEF OwnOK, Publishing
<1>7. c \in Disks /\ runs' \in Nat
  BY <1>2 DEF DiskOK, WorkInv
<1> USE DEF c
<1> QED
  BY <1>2, <1>5, <1>6, <1>7, LocalStep DEF MachineOK
LEMMA CleanupStaleWork ==
  ASSUME WorkInv, NEW h \in Hosts, CleanupStale(h)
  PROVE  WorkInv'
<1> DEFINE e == own[h]
           f == [e EXCEPT !.pc = "mirror", !.again = TRUE]
           x == [e EXCEPT !.hit = TRUE]
           g == Failing(x, "workspace_failed")
<1>1. /\ e.pc = "stale" /\ e.attempt = task.attempt /\ UNCHANGED <<task, origin, runs>>
      /\ e \in Executions
  BY MachineKnown DEF CleanupStale, At, HoldsLease
<1>2. CASE /\ disk[h].mirror /\ disk' = [disk EXCEPT ![h] = Cleared(disk[h], e.attempt)]
           /\ own' = [own EXCEPT ![h] = f]
  <2>1. /\ f \in Executions /\ f.attempt = e.attempt /\ f.code = e.code /\ f.hit = e.hit
        /\ f.pc = "mirror"
    BY <1>1 DEF Executions, Stages
  <2> HIDE DEF f
  <2> QED
    BY <1>1, <1>2, <2>1, ClearedStep
<1>3. CASE own' = [own EXCEPT ![h] = g] /\ UNCHANGED disk
  <2>1. x \in Executions /\ x.attempt = e.attempt /\ x.hit /\ "workspace_failed" \in Codes
    BY <1>1 DEF Executions, Codes
  <2> HIDE DEF x
  <2>2. /\ g \in Executions /\ g.pc = "fail" /\ g.attempt = e.attempt /\ g.hit
    BY <2>1, MovedFailing
  <2> HIDE DEF g
  <2>3. OwnOK(disk[h], g, task) /\ LeftOK(disk[h], g)
    BY <1>1, <2>2, MachineKnown DEF MachineOK, OwnOK, LeftOK, Publishing
  <2> USE DEF g
  <2> QED
    BY <1>1, <1>3, <2>2, <2>3, GoStep
<1> QED
  BY <1>2, <1>3 DEF CleanupStale, Goto

\* What a run of the agent leaves in its worktree.
LEMMA RunDisk ==
  ASSUME WorkInv, NEW h \in Hosts, RunAgent(h)
  PROVE  LET a == own[h].attempt
             d == disk[h]
         IN \E n \in Disks :
              /\ disk' = [disk EXCEPT ![h] = n]
              /\ n.branch = d.branch /\ n.mirror = d.mirror /\ n.locked = d.locked
              /\ n.trees[a].exists /\ n.trees[a].edits = << <<a, runs + 1>> >>
              /\ \A b \in AttemptNumbers \ {a} : n.trees[b] = d.trees[b]
<1> DEFINE a == own[h].attempt
           d == disk[h]
           r == runs + 1
           T == [d.trees EXCEPT ![a].edits = Append(@, <<a, r>>)]
           n == [d EXCEPT !.trees = T]
<1>1. /\ own[h].pc = "agent" /\ runs \in Nat
      /\ disk' = [disk EXCEPT ![h].trees[a].edits = Append(@, <<a, r>>)]
  BY DEF RunAgent, At, WorkInv
<1>2. /\ MachineOK(d, own[h], task) /\ a \in 1..task.attempt /\ d \in Disks
      /\ a \in AttemptNumbers /\ a \in Nat
      /\ d.trees[a].exists /\ Untouched(d, a, task)
  <2> HIDE DEF T, n
  <2>1. /\ MachineOK(d, own[h], task) /\ TaskOK(task, origin)
        /\ d \in Disks
    BY MachineKnown
  <2>2. a \in 1..task.attempt /\ d.trees[a].exists /\ Untouched(d, a, task)
    BY <1>1, <2>1 DEF MachineOK, OwnOK
  <2>3. 1..task.attempt \subseteq AttemptNumbers /\ task.attempt \in Nat
    BY <2>1 DEF TaskOK
  <2>4. a \in AttemptNumbers /\ a \in Nat
    BY <2>2, <2>3
  <2> QED
    BY <2>1, <2>2, <2>4
<1>3. d.trees \in [AttemptNumbers -> Trees] /\ d.trees[a].edits = << >>
  BY <1>2 DEF Disks, Untouched
<1>4. << <<a, r>> >> \in Commits /\ Append(<< >>, <<a, r>>) = << <<a, r>> >>
  BY <1>1, <1>2 DEF Commits
<1>5. disk' = [disk EXCEPT ![h] = n]
  BY <1>1, <1>2, <1>3 DEF Disks
<1>6. T = [d.trees EXCEPT ![a] = [exists |-> TRUE, edits |-> << <<a, r>> >>]]
  <2>1. d.trees[a] \in Trees
    BY <1>2, <1>3
  <2>2. \A x \in Trees : \A c : [x EXCEPT !.edits = c] = [exists |-> x.exists, edits |-> c]
    BY DEF Trees
  <2>3. [d.trees[a] EXCEPT !.edits = Append(@, <<a, r>>)]
          = [exists |-> TRUE, edits |-> << <<a, r>> >>]
    <3>1. d.trees[a].exists = TRUE
      BY <1>2, <2>1 DEF Trees
    <3>2. Append(d.trees[a].edits, <<a, r>>) = << <<a, r>> >>
      BY <1>3, <1>4
    <3> QED
      BY <2>1, <2>2, <3>1, <3>2
  <2> QED
    BY <1>3, <2>3
<1> HIDE DEF T
<1>7. /\ T \in [AttemptNumbers -> Trees] /\ T[a].exists /\ T[a].edits = << <<a, r>> >>
      /\ \A b \in AttemptNumbers \ {a} : T[b] = d.trees[b]
  BY <1>2, <1>3, <1>4, <1>6 DEF Trees
<1>8. /\ n \in Disks /\ n.trees = T /\ n.branch = d.branch /\ n.mirror = d.mirror
      /\ n.locked = d.locked
  BY <1>2, <1>7 DEF Disks
<1> QED
  BY <1>5, <1>7, <1>8

LEMMA RunAgentWork ==
  ASSUME WorkInv, NEW h \in Hosts, RunAgent(h)
  PROVE  WorkInv'
<1> DEFINE a == own[h].attempt
           d == disk[h]
           r == runs + 1
           e == [own[h] EXCEPT !.pc = "advance"]
<1>1. /\ own[h].pc = "agent" /\ UNCHANGED <<task, origin>> /\ runs' = r
      /\ own' = [own EXCEPT ![h] = e] /\ runs \in Nat
  BY DEF RunAgent, At, GoTo, Goto, WorkInv
<1>2. /\ MachineOK(d, own[h], task) /\ a \in 1..task.attempt
      /\ a \in AttemptNumbers /\ own[h] \in Executions
      /\ d.trees[a].exists /\ Untouched(d, a, task)
  BY <1>1, MachineKnown DEF MachineOK, OwnOK, TaskOK
<1>8. PICK n \in Disks :
        /\ disk' = [disk EXCEPT ![h] = n]
        /\ n.branch = d.branch /\ n.mirror = d.mirror /\ n.locked = d.locked
        /\ n.trees[a].exists /\ n.trees[a].edits = << <<a, r>> >>
        /\ \A b \in AttemptNumbers \ {a} : n.trees[b] = d.trees[b]
  BY RunDisk
<1>9. Edited(n, a, task, r) /\ r \in Nat
  BY <1>1, <1>2, <1>8 DEF Edited, Untouched
<1>10. \A b \in AttemptNumbers : n.trees[b].exists <=> d.trees[b].exists
  BY <1>2, <1>8
<1>11. DiskOK(n, task)
  <2>1. \A b \in AttemptNumbers : ~n.trees[b].exists => n.trees[b].edits = << >>
    BY <1>2, <1>8 DEF MachineOK, DiskOK
  <2>2. \A b \in AttemptNumbers : n.trees[b].exists => b = a
    BY <1>2, <1>10 DEF MachineOK, DiskOK
  <2>3. n.branch.exists /\ n.mirror /\ a \leq task.attempt
    BY <1>2, <1>8 DEF MachineOK, DiskOK
  <2> QED
    BY <1>8, <1>9, <2>1, <2>2, <2>3 DEF DiskOK
<1>12. e \in Executions /\ e.pc = "advance" /\ e.attempt = a /\ e.ws = own[h].ws
       /\ e.hit = own[h].hit /\ e.code = own[h].code
  <2>1. "advance" \in Stages
    BY DEF Stages
  <2> QED
    BY <1>2, <2>1, Moved
<1> HIDE DEF e
<1>13. OwnOK(n, e, task)
  <2>1. n.trees[a].exists /\ n.mirror /\ e.ws
    BY <1>1, <1>2, <1>8, <1>10, <1>12 DEF MachineOK, OwnOK
  <2> QED
    BY <1>2, <1>9, <1>12, <2>1 DEF OwnOK, Publishing
<1>14. LeftOK(n, e)
  <2>1. OlderThere(d, own[h]) => OlderThere(n, e)
    BY <1>10, <1>12 DEF OlderThere
  <2> QED
    BY <1>2, <1>8, <1>12, <2>1 DEF MachineOK, LeftOK
<1>15. r \in Nat
  BY <1>1
<1> QED
  BY <1>1, <1>8, <1>11, <1>12, <1>13, <1>14, <1>15, LocalStep DEF MachineOK

\* What Commit leaves of the branch and the worktree.
LEMMA CommitDisk ==
  ASSUME WorkInv, NEW h \in Hosts, Commit(h)
  PROVE  LET a == own[h].attempt
             d == disk[h]
         IN \E n \in Disks :
              /\ disk' = [disk EXCEPT ![h] = n]
              /\ n.branch.exists /\ n.mirror = d.mirror /\ n.locked = d.locked
              /\ n.branch.at = d.branch.at \o d.trees[a].edits
              /\ n.trees[a].exists /\ n.trees[a].edits = << >>
              /\ \A b \in AttemptNumbers \ {a} : n.trees[b] = d.trees[b]
<1> DEFINE a == own[h].attempt
           d == disk[h]
           head == d.branch.at \o d.trees[a].edits
           T == [d.trees EXCEPT ![a].edits = << >>]
           R == [d.branch EXCEPT !.at = head]
           n == [d EXCEPT !.branch = R, !.trees = T]
<1>1. /\ own[h].pc = "commit"
      /\ disk' = [disk EXCEPT ![h].branch.at = head, ![h].trees[a].edits = << >>]
  BY DEF Commit, At
<1>2. /\ MachineOK(d, own[h], task) /\ TaskOK(task, origin) /\ a \in 1..task.attempt
      /\ d \in Disks /\ a \in AttemptNumbers /\ own[h] \in Executions /\ a \in Nat
      /\ d.trees[a].exists
  <2>1. /\ MachineOK(d, own[h], task) /\ TaskOK(task, origin)
        /\ d \in Disks /\ own[h] \in Executions
    BY MachineKnown
  <2>2. a \in 1..task.attempt /\ d.trees[a].exists
    BY <1>1, <2>1 DEF MachineOK, OwnOK
  <2>3. a \in AttemptNumbers /\ a \in Nat
    BY <2>1, <2>2 DEF TaskOK
  <2> QED
    BY <2>1, <2>2, <2>3
<1>3. /\ d.trees \in [AttemptNumbers -> Trees] /\ d.branch \in Refs
      /\ d.trees[a] \in Trees /\ d.branch.exists /\ task.base[a] \in Commits
  BY <1>2 DEF Disks, MachineOK, DiskOK, TaskOK, Tasks
<1>4. head \in Commits
  BY <1>3 DEF Trees, Refs, Commits
<1> HIDE DEF head
<1>5. disk' = [disk EXCEPT ![h] = n]
  BY <1>1, <1>2, <1>3 DEF Disks
<1>6. R = [exists |-> TRUE, at |-> head]
      /\ T = [d.trees EXCEPT ![a] = [exists |-> TRUE, edits |-> << >>]]
  <2>1. \A x \in Trees : \A c : [x EXCEPT !.edits = c] = [exists |-> x.exists, edits |-> c]
    BY DEF Trees
  <2>2. \A x \in Refs : \A c : [x EXCEPT !.at = c] = [exists |-> x.exists, at |-> c]
    BY DEF Refs
  <2>3. [d.trees[a] EXCEPT !.edits = << >>] = [exists |-> d.trees[a].exists, edits |-> << >>]
    BY <1>3, <2>1
  <2>4. d.trees[a].exists = TRUE /\ d.branch.exists = TRUE
    BY <1>2, <1>3 DEF Trees, Refs
  <2>5. R = [exists |-> d.branch.exists, at |-> head]
    BY <1>3, <2>2
  <2>6. [d.trees[a] EXCEPT !.edits = << >>] = [exists |-> TRUE, edits |-> << >>]
    BY <2>3, <2>4
  <2>7. T = [d.trees EXCEPT ![a] = [exists |-> TRUE, edits |-> << >>]]
    BY <1>3, <2>6
  <2> QED
    BY <2>4, <2>5, <2>7
<1> HIDE DEF T, R
<1>7. /\ T \in [AttemptNumbers -> Trees] /\ T[a].exists /\ T[a].edits = << >>
      /\ \A b \in AttemptNumbers \ {a} : T[b] = d.trees[b]
      /\ R \in Refs /\ R.exists /\ R.at = head
  <2>1. << >> \in Commits
    BY DEF Commits
  <2> QED
    BY <1>2, <1>3, <1>4, <1>6, <2>1 DEF Trees, Refs
<1>8. /\ n \in Disks /\ n.trees = T /\ n.branch = R /\ n.mirror = d.mirror
      /\ n.locked = d.locked
  BY <1>2, <1>7 DEF Disks
<1> USE DEF head
<1> QED
  BY <1>5, <1>7, <1>8

LEMMA CommitWork ==
  ASSUME WorkInv, NEW h \in Hosts, Commit(h)
  PROVE  WorkInv'
<1> DEFINE a == own[h].attempt
           d == disk[h]
           head == d.branch.at \o d.trees[a].edits
<1>1. /\ own[h].pc = "commit" /\ UNCHANGED <<task, origin, runs>>
      /\ \/ own' = [own EXCEPT ![h] = Failing(own[h], "no_change")]
         \/ own' = [own EXCEPT ![h] = [own[h] EXCEPT !.pc = "push"]]
  BY DEF Commit, At, Goto
<1>2. /\ MachineOK(d, own[h], task) /\ TaskOK(task, origin) /\ a \in 1..task.attempt
      /\ d \in Disks /\ a \in AttemptNumbers /\ own[h] \in Executions /\ a \in Nat
      /\ d.trees[a].exists
  <2>1. /\ MachineOK(d, own[h], task) /\ TaskOK(task, origin)
        /\ d \in Disks /\ own[h] \in Executions
    BY MachineKnown
  <2>2. a \in 1..task.attempt /\ d.trees[a].exists
    BY <1>1, <2>1 DEF MachineOK, OwnOK
  <2>3. a \in AttemptNumbers /\ a \in Nat
    BY <2>1, <2>2 DEF TaskOK
  <2> QED
    BY <2>1, <2>2, <2>3
<1>3. task.base[a] \in Commits
  BY <1>2 DEF TaskOK, Tasks
<1>4. PICK n \in Disks :
        /\ disk' = [disk EXCEPT ![h] = n]
        /\ n.branch.exists /\ n.mirror = d.mirror /\ n.branch.at = head
        /\ n.locked = d.locked
        /\ n.trees[a].exists /\ n.trees[a].edits = << >>
        /\ \A b \in AttemptNumbers \ {a} : n.trees[b] = d.trees[b]
  BY CommitDisk
<1>5. head = task.base[a] \/ \E r \in Nat : head = Append(task.base[a], <<a, r>>)
  <2> DEFINE b == task.base[a]
  <2>1. /\ \A c \in Commits : c \o << >> = c
        /\ \A c \in Commits, p \in Nat \X Nat : c \o <<p>> = Append(c, p)
    BY DEF Commits
  <2>2. b \in Commits
    BY <1>3
  <2>3. \A r \in Nat : Append(b, <<a, r>>) \in Commits /\ <<a, r>> \in Nat \X Nat
    BY <1>2, <2>2 DEF Commits
  <2>4. \/ d.branch.at = b /\ d.trees[a].edits = << >>
        \/ \E r \in Nat : \/ d.branch.at = b /\ d.trees[a].edits = << <<a, r>> >>
                          \/ d.branch.at = Append(b, <<a, r>>) /\ d.trees[a].edits = << >>
    BY <1>2 DEF MachineOK, DiskOK, Untouched, Edited, Committed
  <2> HIDE DEF b, a, d
  <2>5. CASE d.branch.at = b /\ d.trees[a].edits = << >>
    BY <2>1, <2>2, <2>5 DEF b
  <2>6. ASSUME NEW r \in Nat, d.branch.at = b, d.trees[a].edits = << <<a, r>> >>
        PROVE  head = Append(b, <<a, r>>)
    BY <2>1, <2>2, <2>3, <2>6
  <2>7. ASSUME NEW r \in Nat, d.branch.at = Append(b, <<a, r>>), d.trees[a].edits = << >>
        PROVE  head = Append(b, <<a, r>>)
    BY <2>1, <2>3, <2>7
  <2> USE DEF b
  <2> QED
    BY <2>4, <2>5, <2>6, <2>7
<1> HIDE DEF head
<1>10. Untouched(n, a, task) \/ \E r \in Nat : Committed(n, a, task, r)
  BY <1>4, <1>5 DEF Untouched, Committed
<1>11. \A b \in AttemptNumbers : n.trees[b].exists <=> d.trees[b].exists
  BY <1>2, <1>4
<1>12. DiskOK(n, task)
  <2>1. \A b \in AttemptNumbers : ~n.trees[b].exists => n.trees[b].edits = << >>
    BY <1>2, <1>4 DEF MachineOK, DiskOK
  <2>2. \A b \in AttemptNumbers : n.trees[b].exists => b = a
    BY <1>2, <1>11 DEF MachineOK, DiskOK
  <2>3. n.branch.exists /\ n.mirror /\ a \leq task.attempt
    BY <1>2, <1>4 DEF MachineOK, DiskOK
  <2> QED
    BY <1>4, <1>10, <2>1, <2>2, <2>3 DEF DiskOK
<1>13. PICK e \in Executions :
         /\ own' = [own EXCEPT ![h] = e] /\ e.pc \in {"fail", "push"} /\ e.attempt = a
         /\ e.hit = own[h].hit /\ e.code \in {own[h].code, "no_change"}
  <2>1. "no_change" \in Codes /\ "push" \in Stages
    BY DEF Codes, Stages
  <2>2. CASE own' = [own EXCEPT ![h] = Failing(own[h], "no_change")]
    BY <1>2, <2>1, <2>2, MovedFailing
  <2>3. CASE own' = [own EXCEPT ![h] = [own[h] EXCEPT !.pc = "push"]]
    BY <1>2, <2>1, <2>3, Moved
  <2> QED
    BY <1>1, <2>2, <2>3
<1>14. OwnOK(n, e, task)
  <2>1. n.trees[a].exists /\ n.mirror /\ n.trees[a].edits = << >>
    BY <1>2, <1>4, <1>12 DEF DiskOK
  <2>2. a = task.attempt => task.status # "running"
    BY <1>1, <1>2 DEF MachineOK, OwnOK, Publishing
  <2> QED
    BY <1>2, <1>13, <2>1, <2>2 DEF OwnOK, Publishing
<1>15. LeftOK(n, e)
  <2>1. OlderThere(d, own[h]) => OlderThere(n, e)
    BY <1>11, <1>13 DEF OlderThere
  <2> QED
    BY <1>2, <1>4, <1>13, <2>1 DEF MachineOK, LeftOK
<1>16. runs' \in Nat
  BY <1>1 DEF WorkInv
<1> QED
  BY <1>1, <1>4, <1>12, <1>13, <1>14, <1>15, <1>16, LocalStep DEF MachineOK

LEMMA PushWork ==
  ASSUME WorkInv, NEW h \in Hosts, Push(h)
  PROVE  WorkInv'
<1> DEFINE a == own[h].attempt
           d == disk[h]
<1>1. /\ own[h].pc = "push" /\ UNCHANGED <<task, disk, runs>>
      /\ \/ /\ origin' = d.branch.at
            /\ own' = [own EXCEPT ![h] = [own[h] EXCEPT !.pc = "remove"]]
         \/ /\ origin' = origin
            /\ own' = [own EXCEPT ![h] = Failing(own[h], "publish_failed")]
  BY DEF Push, At, GoTo, Goto
<1>2. /\ MachineOK(d, own[h], task) /\ TaskOK(task, origin)
      /\ d \in Disks /\ own[h] \in Executions
  BY MachineKnown
<1>3. /\ a \in 1..task.attempt /\ d.trees[a].exists /\ d.trees[a].edits = << >>
      /\ a = task.attempt => task.status # "running"
  BY <1>1, <1>2 DEF MachineOK, OwnOK, Publishing
<1>4. OneEach(d.branch.at, a)
  BY <1>2, <1>3, BranchOneEach DEF MachineOK
<1>5. TaskOK(task, d.branch.at)
  <2>1. task.attempt \in Nat /\ a \in Nat
    BY <1>2, <1>3 DEF TaskOK
  <2>2. OneEach(d.branch.at, task.attempt)
    BY <1>3, <1>4, <2>1, OneEachLater
  <2>3. task.status = "running" => OneEach(d.branch.at, task.attempt - 1)
    BY <1>3, <1>4, <2>1, OneEachLater
  <2> QED
    BY <1>2, <2>2, <2>3 DEF TaskOK
<1>6. TaskOK(task', origin')
  BY <1>1, <1>2, <1>5
<1>7. PICK e \in Executions :
        /\ own' = [own EXCEPT ![h] = e] /\ e.pc \in {"remove", "fail"} /\ e.attempt = a
        /\ e.hit = own[h].hit /\ e.code \in {own[h].code, "publish_failed"}
  <2>1. "publish_failed" \in Codes /\ "remove" \in Stages
    BY DEF Codes, Stages
  <2>2. CASE own' = [own EXCEPT ![h] = Failing(own[h], "publish_failed")]
    BY <1>2, <2>1, <2>2, MovedFailing
  <2>3. CASE own' = [own EXCEPT ![h] = [own[h] EXCEPT !.pc = "remove"]]
    BY <1>2, <2>1, <2>3, Moved
  <2> QED
    BY <1>1, <2>2, <2>3
<1>8. OwnOK(d, e, task)
  BY <1>3, <1>7 DEF OwnOK, Publishing
<1>9. LeftOK(d, e)
  BY <1>2, <1>7 DEF MachineOK, LeftOK, OlderThere
<1>10. disk' = [disk EXCEPT ![h] = d] /\ runs' \in Nat
  BY <1>1 DEF WorkInv
<1>11. MachineOK(d, e, task') /\ Follows(task, task')
  BY <1>1, <1>2, <1>8, <1>9, SameTask DEF MachineOK
<1> QED
  BY <1>2, <1>6, <1>7, <1>10, <1>11, MachineStep

LEMMA RecoveredWork ==
  ASSUME WorkInv, NEW h \in Hosts, publishRecovered(h)
  PROVE  WorkInv'
<1> DEFINE a == own[h].attempt
           d == disk[h]
           m == Mirrored(disk[h])
           e == [own[h] EXCEPT !.pc = "commit", !.ws = TRUE]
<1>1. /\ own[h].pc = "recover" /\ UNCHANGED <<task, origin, runs>>
      /\ \/ /\ d.trees[a].exists /\ disk' = [disk EXCEPT ![h] = m]
            /\ own' = [own EXCEPT ![h] = e]
         \/ /\ disk' = disk
            /\ own' = [own EXCEPT ![h] = Failing(own[h], "workspace_lost")]
         \/ /\ disk' = disk
            /\ own' = [own EXCEPT ![h] = [own[h] EXCEPT !.pc = "review"]]
  BY DEF publishRecovered, At, Goto
<1>2. /\ MachineOK(d, own[h], task) /\ TaskOK(task, origin)
      /\ d \in Disks /\ own[h] \in Executions
  BY MachineKnown
<1>3. /\ a \in 1..task.attempt
      /\ a = task.attempt => task.status # "running"
  BY <1>1, <1>2 DEF MachineOK, OwnOK, Publishing
<1>4. CASE d.trees[a].exists /\ disk' = [disk EXCEPT ![h] = m] /\ own' = [own EXCEPT ![h] = e]
  <2>1. DiskOK(m, task) /\ m.mirror /\ m.trees = d.trees /\ m.locked = d.locked
    BY <1>2, MirroredOK DEF MachineOK, TaskOK, OneEach
  <2>2. /\ e \in Executions /\ e.pc = "commit" /\ e.attempt = a /\ e.hit = own[h].hit
        /\ e.code = own[h].code
    BY <1>2 DEF Executions, Stages
  <2> HIDE DEF m, e
  <2>3. OwnOK(m, e, task)
    BY <1>3, <1>4, <2>1, <2>2 DEF OwnOK, Publishing
  <2>4. LeftOK(m, e)
    BY <1>2, <2>1, <2>2 DEF MachineOK, LeftOK, OlderThere
  <2>5. m \in Disks /\ runs' \in Nat
    BY <1>1, <2>1 DEF DiskOK, WorkInv
  <2> QED
    BY <1>1, <1>4, <2>1, <2>2, <2>3, <2>4, <2>5, LocalStep DEF MachineOK
<1>5. ASSUME disk' = disk,
             \/ own' = [own EXCEPT ![h] = Failing(own[h], "workspace_lost")]
             \/ own' = [own EXCEPT ![h] = [own[h] EXCEPT !.pc = "review"]]
      PROVE  WorkInv'
  <2>1. PICK f \in Executions :
          /\ own' = [own EXCEPT ![h] = f] /\ f.pc \in {"review", "fail"} /\ f.attempt = a
          /\ f.hit = own[h].hit /\ f.code \in {own[h].code, "workspace_lost"}
    <3>1. "workspace_lost" \in Codes /\ "review" \in Stages
      BY DEF Codes, Stages
    <3>2. CASE own' = [own EXCEPT ![h] = Failing(own[h], "workspace_lost")]
      BY <1>2, <3>1, <3>2, MovedFailing
    <3>3. CASE own' = [own EXCEPT ![h] = [own[h] EXCEPT !.pc = "review"]]
      BY <1>2, <3>1, <3>3, Moved
    <3> QED
      BY <1>5, <3>2, <3>3
  <2>2. OwnOK(d, f, task)
    BY <1>3, <2>1 DEF OwnOK, Publishing
  <2>3. LeftOK(d, f)
    BY <1>2, <2>1 DEF MachineOK, LeftOK, OlderThere
  <2> QED
    BY <1>1, <1>5, <2>1, <2>2, <2>3, GoStep
<1> QED
  BY <1>1, <1>4, <1>5

LEMMA CleanupWork ==
  ASSUME WorkInv, NEW h \in Hosts,
         RemoveWorktree(h) \/ CleanupDeferred(h) \/ CleanupTerminal(h)
  PROVE  WorkInv'
<1> DEFINE c == Cleared(disk[h], own[h].attempt)
<1>1. own[h] \in Executions /\ MachineOK(disk[h], own[h], task)
  BY MachineKnown
<1>2. CASE RemoveWorktree(h)
  <2> DEFINE e == [own[h] EXCEPT !.pc = "review", !.ws = FALSE]
  <2>1. /\ own[h].pc = "remove" /\ own[h].attempt = task.attempt
        /\ UNCHANGED <<task, origin, runs>>
        /\ disk' = [disk EXCEPT ![h] = c] /\ own' = [own EXCEPT ![h] = e]
    BY <1>2 DEF RemoveWorktree, At, HoldsLease, Goto
  <2>2. /\ e \in Executions /\ e.pc = "review" /\ e.attempt = own[h].attempt
        /\ e.hit = own[h].hit /\ e.code = own[h].code
    BY <1>1 DEF Executions, Stages
  <2>3. task.status # "running"
    BY <1>1, <2>1 DEF MachineOK, OwnOK, Publishing
  <2> HIDE DEF e
  <2> QED
    BY <2>1, <2>2, <2>3, ClearedStep
<1>3. ASSUME NEW pc \in {"end", "release"}, own[h].pc # "idle",
             own' = [own EXCEPT ![h] = [own[h] EXCEPT !.pc = pc]],
             UNCHANGED <<task, origin, runs>>,
             UNCHANGED disk \/ disk' = [disk EXCEPT ![h] = c]
      PROVE  WorkInv'
  <2> DEFINE e == [own[h] EXCEPT !.pc = pc]
  <2>1. pc \in Stages
    BY DEF Stages
  <2>2. /\ e \in Executions /\ e.pc = pc /\ e.attempt = own[h].attempt
        /\ e.hit = own[h].hit /\ e.code = own[h].code
    BY <1>1, <2>1, Moved
  <2>3. own' = [own EXCEPT ![h] = e]
    BY <1>3
  <2> HIDE DEF e
  <2>4. CASE UNCHANGED disk
    <3>1. OwnOK(disk[h], e, task) /\ LeftOK(disk[h], e)
      BY <1>1, <1>3, <2>2, RestingOK DEF MachineOK
    <3> QED
      BY <1>3, <2>2, <2>3, <2>4, <3>1, GoStep
  <2>5. CASE disk' = [disk EXCEPT ![h] = c]
    BY <1>3, <2>2, <2>3, <2>5, ClearedStep
  <2> QED
    BY <1>3, <2>4, <2>5
<1>4. CASE CleanupDeferred(h)
  BY <1>3, <1>4 DEF CleanupDeferred, At, GoTo, Goto
<1>5. CASE CleanupTerminal(h)
  BY <1>3, <1>5 DEF CleanupTerminal, At, GoTo, Goto
<1> QED
  BY <1>2, <1>4, <1>5
\* Another status within the attempt, other work kept for it.
LEMMA StatusMoves ==
  ASSUME NEW t, NEW o, TaskOK(t, o), NEW u \in Tasks, u.attempt = t.attempt, u.base = t.base,
         u.status = "running" => t.status = "running"
  PROVE  TaskOK(u, o) /\ Follows(t, u)
BY DEF TaskOK, Follows

\* The execution of h moves the task.
LEMMA MoveStep ==
  ASSUME WorkInv, NEW h \in Hosts, NEW e \in Executions, own' = [own EXCEPT ![h] = e],
         UNCHANGED <<disk, origin, runs>>, NEW u \in Tasks, task' = u,
         u.attempt = task.attempt, u.base = task.base,
         u.status = "running" => task.status = "running",
         own[h].pc # "idle", e.attempt = own[h].attempt, e.code = own[h].code,
         e.hit = own[h].hit,
         \/ e.pc \in {"end", "defer"}
         \/ u.status # "running" /\ e.pc \in {"validated", "recover"}
         \/ u.status # "running" /\ e.pc = "commit" /\ disk[h].mirror,
         e.pc = "commit" \/ (e.pc = "validated" /\ e.ws) => disk[h].trees[e.attempt].exists
  PROVE  WorkInv'
<1>1. /\ MachineOK(disk[h], own[h], task) /\ TaskOK(task, origin) /\ disk[h] \in Disks
  BY MachineKnown
<1>2. TaskOK(u, origin) /\ Follows(task, u)
  BY <1>1, StatusMoves
<1>3. MachineOK(disk[h], own[h], u)
  BY <1>1, <1>2, MachineFollows
<1>4. OwnOK(disk[h], e, u) /\ LeftOK(disk[h], e)
  <2>1. e.attempt \in 1..u.attempt
    BY <1>3 DEF MachineOK, OwnOK
  <2>2. e.pc \in {"end", "defer", "validated", "recover", "commit"}
    OBVIOUS
  <2>3. OwnOK(disk[h], e, u)
    BY <2>1, <2>2 DEF OwnOK, Publishing
  <2> QED
    BY <1>1, <2>2, <2>3 DEF MachineOK, LeftOK, OlderThere
<1>5. disk' = [disk EXCEPT ![h] = disk[h]] /\ runs' \in Nat
  BY DEF WorkInv
<1> QED
  BY <1>1, <1>2, <1>3, <1>4, <1>5, MachineStep DEF MachineOK

LEMMA AdvanceWork ==
  ASSUME WorkInv, NEW h \in Hosts,
         ToValidating(h) \/ ToPublishing(h) \/ Review(h) \/ FailTask(h)
  PROVE  WorkInv'
<1> DEFINE a == own[h].attempt
           d == disk[h]
<1>1. /\ MachineOK(d, own[h], task) /\ TaskOK(task, origin)
      /\ d \in Disks /\ own[h] \in Executions /\ task \in Tasks
  BY MachineKnown DEF TaskOK
<1>2. CASE ToValidating(h)
  <2> DEFINE r == d.trees[a].edits[Len(d.trees[a].edits)][2]
             u == [task EXCEPT !.status = "validating", !.kept[a] = r]
             e == [own[h] EXCEPT !.pc = "validated"]
  <2>1. /\ own[h].pc = "advance" /\ a = task.attempt /\ UNCHANGED <<disk, origin, runs>>
        /\ task' = u /\ own' = [own EXCEPT ![h] = e]
    BY <1>2 DEF ToValidating, At, HoldsLease, GoTo, Goto
  <2>2. r \in Nat
    <3>1. PICK x \in Nat : Edited(d, a, task, x)
      BY <1>1, <2>1 DEF MachineOK, OwnOK
    <3>2. d.trees[a].edits = << <<a, x>> >> /\ Len(<< <<a, x>> >>) = 1
      BY <3>1 DEF Edited
    <3> QED
      BY <3>2
  <2>3. d.trees[a].exists /\ d.mirror
    BY <1>1, <2>1 DEF MachineOK, OwnOK
  <2> HIDE DEF r
  <2>4. u \in Tasks /\ u.attempt = task.attempt /\ u.base = task.base /\ u.status = "validating"
    BY <1>1, <2>1, <2>2 DEF Tasks
  <2>5. "validated" \in Stages
    BY DEF Stages
  <2>6. /\ e \in Executions /\ e.pc = "validated" /\ e.attempt = a
        /\ e.hit = own[h].hit /\ e.code = own[h].code
    BY <1>1, <2>5, Moved
  <2> HIDE DEF e, u
  <2> QED
    BY <2>1, <2>3, <2>4, <2>6, MoveStep
<1>3. CASE ToPublishing(h)
  <2> DEFINE u == [task EXCEPT !.status = "publishing"]
             pc == IF own[h].ws THEN "commit" ELSE "recover"
             e == [own[h] EXCEPT !.pc = pc]
  <2>1. /\ own[h].pc = "validated" /\ UNCHANGED <<disk, origin, runs>>
        /\ task' = u /\ own' = [own EXCEPT ![h] = e]
    BY <1>3 DEF ToPublishing, At, GoTo, Goto
  <2>2. u \in Tasks /\ u.attempt = task.attempt /\ u.base = task.base /\ u.status = "publishing"
    BY <1>1 DEF Tasks
  <2>3. pc \in Stages /\ pc \in {"commit", "recover"} /\ (pc = "commit" => own[h].ws)
    BY DEF Stages
  <2> HIDE DEF pc
  <2>4. /\ e \in Executions /\ e.pc = pc /\ e.attempt = a
        /\ e.hit = own[h].hit /\ e.code = own[h].code
    BY <1>1, <2>3, Moved
  <2>5. pc = "commit" => d.trees[a].exists /\ d.mirror
    <3> SUFFICES ASSUME pc = "commit" PROVE d.trees[a].exists /\ d.mirror
      OBVIOUS
    <3>1. d.trees[a].exists /\ a \in 1..task.attempt
      BY <1>1, <2>1, <2>3 DEF MachineOK, OwnOK
    <3> QED
      BY <1>1, <3>1 DEF MachineOK, DiskOK, TaskOK
  <2> HIDE DEF e, u
  <2> QED
    BY <2>1, <2>2, <2>3, <2>4, <2>5, MoveStep
<1>4. CASE Review(h)
  <2> DEFINE u == [task EXCEPT !.status = "review"]
             e == [own[h] EXCEPT !.pc = "end"]
  <2>1. /\ own[h].pc = "review" /\ UNCHANGED <<disk, origin, runs>>
        /\ task' = u /\ own' = [own EXCEPT ![h] = e]
    BY <1>4 DEF Review, At, GoTo, Goto
  <2>2. u \in Tasks /\ u.attempt = task.attempt /\ u.base = task.base /\ u.status = "review"
    BY <1>1 DEF Tasks
  <2>3. "end" \in Stages
    BY DEF Stages
  <2>4. /\ e \in Executions /\ e.pc = "end" /\ e.attempt = a
        /\ e.hit = own[h].hit /\ e.code = own[h].code
    BY <1>1, <2>3, Moved
  <2> HIDE DEF e, u
  <2> QED
    BY <2>1, <2>2, <2>4, MoveStep
<1>5. CASE FailTask(h)
  <2> DEFINE e == [own[h] EXCEPT !.pc = "defer"]
  <2>1. /\ own[h].pc = "fail" /\ UNCHANGED <<disk, origin, runs>>
        /\ own' = [own EXCEPT ![h] = e]
        /\ task' = task \/ task' = [task EXCEPT !.status = "finished"]
    BY <1>5 DEF FailTask, At, GoTo, Goto
  <2>2. PICK u \in Tasks :
          /\ task' = u /\ u.attempt = task.attempt /\ u.base = task.base
          /\ u.status = "running" => task.status = "running"
    BY <1>1, <2>1 DEF Tasks
  <2>3. "defer" \in Stages
    BY DEF Stages
  <2>4. /\ e \in Executions /\ e.pc = "defer" /\ e.attempt = a
        /\ e.hit = own[h].hit /\ e.code = own[h].code
    BY <1>1, <2>3, Moved
  <2> HIDE DEF e
  <2> QED
    BY <2>1, <2>2, <2>4, MoveStep
<1> QED
  BY <1>2, <1>3, <1>4, <1>5

LEMMA OutsideWork ==
  ASSUME WorkInv,
         LeaseLapses \/ Revise \/ Finish \/ ForeignPush
  PROVE  WorkInv'
<1> MaxAttempts \in Nat \ {0}
  BY WorkspaceAssumption
<1>1. TaskOK(task, origin) /\ task \in Tasks /\ task.attempt \in Nat
  BY DEF WorkInv, TaskOK
<1>2. CASE LeaseLapses
  <2>1. UNCHANGED <<task, origin, disk, own, runs>>
    BY <1>2 DEF LeaseLapses
  <2> QED
    BY <1>1, <2>1, SameTask, TaskStep
<1>3. CASE Revise
  <2> DEFINE n == task.attempt + 1
             u == [task EXCEPT !.status = "running", !.attempt = @ + 1, !.base[n] = origin]
  <2>1. task' = u /\ UNCHANGED <<disk, own, origin, runs>> /\ task.attempt < MaxAttempts
    BY <1>3 DEF Revise
  <2>2. n \in AttemptNumbers /\ n \in Nat /\ 1..n \subseteq AttemptNumbers
        /\ OneEach(origin, task.attempt) /\ origin \in Commits
    BY <1>1, <2>1 DEF AttemptNumbers, TaskOK, OneEach
  <2>3. u \in Tasks /\ u.attempt = n /\ u.base = [task.base EXCEPT ![n] = origin]
    BY <1>1, <2>2 DEF Tasks
  <2>4. /\ u.base[n] = origin
        /\ \A b \in 1..task.attempt : u.base[b] = task.base[b]
    BY <1>1, <2>2, <2>3 DEF Tasks
  <2> HIDE DEF u
  <2>5. Follows(task, u)
    BY <2>2, <2>3, <2>4 DEF Follows
  <2>6. OneEach(origin, n) /\ n - 1 = task.attempt
    BY <1>1, <2>2, OneEachLater
  <2>7. \A b \in 1..n : OneEach(u.base[b], b - 1)
    <3>1. \A b \in 1..n : b = n \/ b \in 1..task.attempt
      BY <1>1
    <3>2. \A b \in 1..task.attempt : OneEach(task.base[b], b - 1)
      BY <1>1 DEF TaskOK
    <3> QED
      BY <2>2, <2>4, <2>6, <3>1, <3>2
  <2>8. TaskOK(u, origin)
    BY <2>2, <2>3, <2>6, <2>7 DEF TaskOK
  <2> QED
    BY <2>1, <2>5, <2>8, TaskStep
<1>4. CASE Finish
  <2> DEFINE u == [task EXCEPT !.status = "finished"]
  <2>1. task' = u /\ UNCHANGED <<disk, own, origin, runs>>
    BY <1>4 DEF Finish
  <2>2. u \in Tasks /\ u.attempt = task.attempt /\ u.base = task.base /\ u.status = "finished"
    BY <1>1 DEF Tasks
  <2> HIDE DEF u
  <2>3. TaskOK(u, origin) /\ Follows(task, u)
    BY <1>1, <2>2, StatusMoves
  <2> QED
    BY <2>1, <2>3, TaskStep
<1>5. CASE ForeignPush
  <2> DEFINE o == Append(origin, Foreign)
  <2>1. origin' = o /\ UNCHANGED <<task, disk, own, runs>>
    BY <1>5 DEF ForeignPush
  <2>2. OneEach(o, task.attempt)
        /\ (task.status = "running" => OneEach(o, task.attempt - 1))
    BY <1>1, OneEachForeign DEF TaskOK
  <2> HIDE DEF o
  <2>3. TaskOK(task, o)
    BY <1>1, <2>2 DEF TaskOK
  <2>4. TaskOK(task', origin') /\ Follows(task, task')
    BY <2>1, <2>3, SameTask
  <2> QED
    BY <2>1, <2>4, TaskStep
<1> QED
  BY <1>2, <1>3, <1>4, <1>5

LEMMA WorkStep == WorkInv /\ [GitNext]_gitVars => WorkInv'
<1> SUFFICES ASSUME WorkInv, [GitNext]_gitVars PROVE WorkInv'
  OBVIOUS
<1>1. CASE UNCHANGED gitVars
  <2>1. UNCHANGED <<task, origin, disk, own, runs>>
    BY <1>1 DEF gitVars
  <2> QED
    BY <2>1, SameTask, TaskStep DEF WorkInv
<1>2. CASE LeaseLapses \/ Revise \/ Finish \/ ForeignPush
  BY <1>2, OutsideWork
<1>3. ASSUME NEW h \in Hosts,
             \/ Claim(h) \/ FenceLost(h) \/ Crash(h)
             \/ EnsureMirror(h) \/ CreateWorktree(h) \/ ProvisionFails(h)
             \/ AddCut(h) \/ CleanupStale(h) \/ RunAgent(h)
      PROVE  WorkInv'
  BY <1>3, ClaimWork, LeavesWork, EnsureMirrorWork, CreateWorktreeWork, ProvisionFailsWork,
     AddCutWork, CleanupStaleWork, RunAgentWork
<1>4. ASSUME NEW h \in Hosts,
             \/ ToValidating(h) \/ ToPublishing(h)
             \/ publishRecovered(h) \/ Commit(h) \/ Push(h)
             \/ RemoveWorktree(h) \/ Review(h)
             \/ Interrupt(h) \/ FailTask(h) \/ CleanupDeferred(h)
             \/ CleanupTerminal(h) \/ ReleaseLease(h)
      PROVE  WorkInv'
  BY <1>4, AdvanceWork, RecoveredWork, CommitWork, PushWork, CleanupWork, InterruptWork,
     LeavesWork
<1> QED
  BY <1>1, <1>2, <1>3, <1>4 DEF GitNext

LEMMA WorkGives ==
  WorkInv => OneRunPerAttempt /\ LeftoversCleared
<1> SUFFICES ASSUME WorkInv PROVE OneRunPerAttempt /\ LeftoversCleared
  OBVIOUS
<1>1. OneRunPerAttempt
  BY DEF WorkInv, TaskOK, OneEach, OneRunPerAttempt, OneRunPerAttempt
<1>2. LeftoversCleared
  <2> SUFFICES ASSUME NEW h \in Hosts, own[h].code = "workspace_failed"
               PROVE  own[h].hit \/ HeldByOlder(h) \/ disk[h].locked
    BY DEF LeftoversCleared, LeftoversCleared
  <2>1. own[h].hit \/ OlderThere(disk[h], own[h]) \/ disk[h].locked
    BY MachineKnown DEF MachineOK, LeftOK
  <2> QED
    BY <2>1 DEF OlderThere, HeldByOlder
<1> QED
  BY <1>1, <1>2

\* runner/publish.go, createWorktreeRetryingStale, with CreateWorktree and Lookup of
\* gitworkspace: whatever hosts die, lapse and go on beside one another, the branch
\* on GitHub holds the work of at most one run of each attempt.
THEOREM OneRunOfEachAttempt == GitSpec => []OneRunPerAttempt
<1>1. GitInit => WorkInv
  BY WorkInit
<1>2. WorkInv /\ [GitNext]_gitVars => WorkInv'
  BY WorkStep
<1> QED
  BY <1>1, <1>2, WorkGives, PTL DEF GitSpec

\* runner/publish.go, createWorktreeRetryingStale ("clear both, retry once"): of what a
\* dead owner of the same attempt left on the host, only the locked entry of a
\* worktree add that was killed in its checkout costs the attempt.
THEOREM LeftoversNeverCost == GitSpec => []LeftoversCleared
<1>1. GitInit => WorkInv
  BY WorkInit
<1>2. WorkInv /\ [GitNext]_gitVars => WorkInv'
  BY WorkStep
<1> QED
  BY <1>1, <1>2, WorkGives, PTL DEF GitSpec
-----------------------------------------------------------------------------
(* One machine alone: what it publishes is what it validated.              *)

Past == {"validated", "recover", "commit", "push"}

Early == {"mirror", "add", "stale", "agent", "advance"}

\* The changes in c are of the runs that took their attempts to validating.
Kept(c, t) == \A i \in DOMAIN c : c[i] # Foreign => c[i][2] = t.kept[c[i][1]]

KeptTask(t, o) == Kept(o, t) /\ \A b \in 1..t.attempt : Kept(t.base[b], t)

KeptWork(d, a, t) == Edited(d, a, t, t.kept[a]) \/ Committed(d, a, t, t.kept[a])

\* The worktree of an attempt that is past running holds the run it kept.
SoloMachine(d, e, t) ==
  /\ (t.status \in {"validating", "publishing"} /\ d.trees[t.attempt].exists) =>
       KeptWork(d, t.attempt, t)
  /\ (e.pc \in Past /\ d.trees[e.attempt].exists) => KeptWork(d, e.attempt, t)
  /\ (e.pc \in Early /\ e.attempt = t.attempt) => t.status \in {"running", "finished"}

\* A machine that never claimed the task.
Absent(d, e) == e.pc = "idle" /\ \A a \in AttemptNumbers : ~d.trees[a].exists

Solo == \A x, y \in seen : x = y

SeenInv ==
  \A h \in Hosts \ seen : \A d, e : d = disk[h] /\ e = own[h] => Absent(d, e)

SoloInv ==
  Solo =>
    /\ KeptTask(task, origin)
    /\ \A h \in Hosts : \A d, e, t :
         d = disk[h] /\ e = own[h] /\ t = task => SoloMachine(d, e, t)

HostInv == WorkInv /\ SeenInv /\ SoloInv

LEMMA AbsentSolo ==
  ASSUME NEW d, NEW e, NEW t, t \in Tasks, Absent(d, e)
  PROVE  SoloMachine(d, e, t)
BY DEF Absent, SoloMachine, Past, Early, Tasks

LEMMA SoloKnown ==
  ASSUME HostInv, NEW h \in Hosts
  PROVE  /\ Solo => SoloMachine(disk[h], own[h], task) /\ KeptTask(task, origin)
         /\ own[h].pc # "idle" => h \in seen
BY DEF HostInv, SoloInv, SeenInv, Absent

\* Machine h, which has claimed the task, moves, and perhaps the task with it.
LEMMA SoloStep ==
  ASSUME HostInv, NEW h \in Hosts, NEW d, NEW e,
         disk' = [disk EXCEPT ![h] = d], own' = [own EXCEPT ![h] = e],
         h \in seen', seen' = seen \/ seen' = seen \cup {h}, task' \in Tasks,
         Solo => SoloMachine(d, e, task') /\ KeptTask(task', origin')
  PROVE  SeenInv' /\ SoloInv'
<1>1. disk \in [Hosts -> Disks] /\ own \in [Hosts -> Executions]
  BY DEF HostInv, WorkInv
<1>2. /\ disk'[h] = d /\ own'[h] = e
      /\ \A k \in Hosts \ {h} : disk'[k] = disk[k] /\ own'[k] = own[k]
  BY <1>1
<1>3. seen \subseteq seen' /\ seen' \subseteq seen \cup {h}
  OBVIOUS
<1>4. \A k \in Hosts \ seen : Absent(disk[k], own[k])
  BY DEF HostInv, SeenInv
<1>6. SeenInv'
  BY <1>2, <1>3, <1>4 DEF SeenInv
<1>7. ASSUME \A x, y \in seen' : x = y
      PROVE  /\ KeptTask(task', origin')
             /\ \A k \in Hosts : \A dd, ee, t :
                  dd = disk'[k] /\ ee = own'[k] /\ t = task' => SoloMachine(dd, ee, t)
  <2>1. Solo
    BY <1>3, <1>7 DEF Solo
  <2>2. SoloMachine(d, e, task') /\ KeptTask(task', origin')
    BY <2>1
  <2>3. ASSUME NEW k \in Hosts \ {h}, NEW t, t = task'
        PROVE  SoloMachine(disk[k], own[k], t)
    <3>1. k \notin seen
      BY <1>3, <1>7
    <3>2. Absent(disk[k], own[k])
      BY <1>4, <3>1
    <3> QED
      BY <2>3, <3>2, AbsentSolo
  <2> QED
    BY <1>2, <2>2, <2>3
<1>8. KeptTask(task, origin)' = KeptTask(task', origin')
  BY DEF KeptTask, Kept
<1> QED
  BY <1>6, <1>7, <1>8 DEF SoloInv, Solo

\* Nobody moves but the task and the branch on GitHub.
LEMMA SoloOutside ==
  ASSUME HostInv, UNCHANGED <<disk, own, seen>>,
         Solo => KeptTask(task', origin')
                 /\ \A h \in Hosts : SoloMachine(disk[h], own[h], task')
  PROVE  SeenInv' /\ SoloInv'
<1>1. SeenInv'
  BY DEF HostInv, SeenInv
<1>2. ASSUME \A x, y \in seen' : x = y
      PROVE  /\ KeptTask(task', origin')
             /\ \A k \in Hosts : \A dd, ee, t :
                  dd = disk'[k] /\ ee = own'[k] /\ t = task' => SoloMachine(dd, ee, t)
  BY <1>2 DEF Solo
<1>3. KeptTask(task, origin)' = KeptTask(task', origin')
  BY DEF KeptTask, Kept
<1> QED
  BY <1>1, <1>2, <1>3 DEF SoloInv, Solo

\* Worktrees go, or the branch moves under none: what there is is as it was.
Shrunk(n, d) ==
  \A b \in AttemptNumbers :
    n.trees[b].exists => d.trees[b].exists /\ n.trees[b] = d.trees[b] /\ n.branch = d.branch

\* A step that makes no work, of an execution that gets no further.
LEMMA SoloShrunk ==
  ASSUME NEW d, NEW e, NEW t, NEW o, NEW n, NEW f, TaskOK(t, o), t \in Tasks,
         SoloMachine(d, e, t), Shrunk(n, d), f.attempt = e.attempt \/ f.pc = "idle",
         f.pc \in Past => e.pc \in Past /\ e.attempt \in AttemptNumbers,
         f.pc \in Early => e.pc \in Early
  PROVE  SoloMachine(n, f, t)
<1>1. \A b \in AttemptNumbers :
        n.trees[b].exists /\ KeptWork(d, b, t) => KeptWork(n, b, t)
  BY DEF Shrunk, KeptWork, Edited, Committed
<1>2. t.attempt \in AttemptNumbers
  BY DEF Tasks
<1>3. (t.status \in {"validating", "publishing"} /\ n.trees[t.attempt].exists) =>
        KeptWork(n, t.attempt, t)
  BY <1>1, <1>2 DEF SoloMachine, Shrunk
<1>4. (f.pc \in Past /\ n.trees[f.attempt].exists) => KeptWork(n, f.attempt, t)
  BY <1>1 DEF SoloMachine, Shrunk, Past
<1>5. (f.pc \in Early /\ f.attempt = t.attempt) => t.status \in {"running", "finished"}
  BY DEF SoloMachine, Early
<1> QED
  BY <1>3, <1>4, <1>5 DEF SoloMachine
LEMMA SoloLocal ==
  ASSUME HostInv, NEW h \in Hosts, NEW n, NEW f, own[h].pc # "idle",
         disk' = [disk EXCEPT ![h] = n], own' = [own EXCEPT ![h] = f],
         UNCHANGED <<task, origin, seen>>, Shrunk(n, disk[h]),
         f.attempt = own[h].attempt \/ f.pc = "idle",
         f.pc \in Past => own[h].pc \in Past,
         f.pc \in Early => own[h].pc \in Early
  PROVE  SeenInv' /\ SoloInv'
<1>1. /\ MachineOK(disk[h], own[h], task) /\ TaskOK(task, origin) /\ task \in Tasks
      /\ own[h].attempt \in 1..task.attempt
  BY MachineKnown DEF HostInv, MachineOK, OwnOK, TaskOK
<1>2. own[h].attempt \in AttemptNumbers /\ h \in seen
  BY <1>1, SoloKnown DEF TaskOK
<1>3. Solo => SoloMachine(n, f, task) /\ KeptTask(task, origin)
  BY <1>1, <1>2, SoloKnown, SoloShrunk
<1> QED
  BY <1>1, <1>2, <1>3, SoloStep

LEMMA ShrunkSame ==
  ASSUME NEW d
  PROVE  Shrunk(d, d)
BY DEF Shrunk

\* The same of a step that leaves the disk alone.
LEMMA SoloGo ==
  ASSUME HostInv, NEW h \in Hosts, NEW f, own[h].pc # "idle",
         own' = [own EXCEPT ![h] = f], UNCHANGED <<disk, task, origin, seen>>,
         f.attempt = own[h].attempt \/ f.pc = "idle",
         f.pc \in Past => own[h].pc \in Past,
         f.pc \in Early => own[h].pc \in Early
  PROVE  SeenInv' /\ SoloInv'
<1>1. disk' = [disk EXCEPT ![h] = disk[h]]
  BY DEF HostInv, WorkInv
<1> QED
  BY <1>1, ShrunkSame, SoloLocal

LEMMA ClaimSolo ==
  ASSUME HostInv, NEW h \in Hosts, Claim(h)
  PROVE  SeenInv' /\ SoloInv'
<1> DEFINE pc == Stage(h)
           e == [Idle EXCEPT !.attempt = task.attempt, !.pc = Stage(h)]
<1>1. /\ own' = [own EXCEPT ![h] = e] /\ UNCHANGED <<disk, task, origin>>
      /\ seen' = seen \cup {h}
      /\ task.status \in {"running", "validating", "publishing"}
  BY DEF Claim, Goto
<1>2. /\ pc \in Past => task.status \in {"validating", "publishing"}
      /\ pc \in Early => task.status = "running"
  BY <1>1 DEF Stage, Past, Early
<1>3. e.attempt = task.attempt /\ e.pc = pc
  BY DEF Idle
<1> HIDE DEF e, pc
<1>4. Solo => SoloMachine(disk[h], e, task) /\ KeptTask(task, origin)
  <2> SUFFICES ASSUME Solo PROVE SoloMachine(disk[h], e, task) /\ KeptTask(task, origin)
    OBVIOUS
  <2>1. SoloMachine(disk[h], own[h], task) /\ KeptTask(task, origin)
    BY SoloKnown
  <2> QED
    BY <1>2, <1>3, <2>1 DEF SoloMachine
<1>5. disk' = [disk EXCEPT ![h] = disk[h]] /\ task' \in Tasks /\ h \in seen'
  BY <1>1 DEF HostInv, WorkInv, TaskOK
<1>6. Solo => SoloMachine(disk[h], e, task') /\ KeptTask(task', origin')
  BY <1>1, <1>4
<1> QED
  BY <1>1, <1>5, <1>6, SoloStep

LEMMA LeavesSolo ==
  ASSUME HostInv, NEW h \in Hosts,
         FenceLost(h) \/ Crash(h) \/ ReleaseLease(h)
  PROVE  SeenInv' /\ SoloInv'
<1>1. /\ own[h].pc # "idle" /\ UNCHANGED <<disk, task, origin, seen>>
      /\ own' = [own EXCEPT ![h] = Idle]
  BY DEF FenceLost, Crash, ReleaseLease, Goto, At
<1>2. Idle.pc = "idle"
  BY DEF Idle
<1> QED
  BY <1>1, <1>2, SoloGo DEF Past, Early

LEMMA ShrunkMirrored ==
  ASSUME HostInv, NEW h \in Hosts
  PROVE  Shrunk(Mirrored(disk[h]), disk[h])
<1> DEFINE d == disk[h]
           m == Mirrored(d)
<1>1. DiskOK(d, task) /\ origin \in Commits
  BY MachineKnown DEF HostInv, MachineOK, TaskOK, OneEach
<1>2. m.trees = d.trees /\ (d.mirror => m.branch = d.branch)
  BY <1>1, MirroredOK
<1>3. \A b \in AttemptNumbers : d.trees[b].exists => d.mirror
  BY <1>1 DEF DiskOK
<1> HIDE DEF m
<1>4. Shrunk(m, d)
  BY <1>2, <1>3 DEF Shrunk
<1> QED
  BY <1>4 DEF m

LEMMA ShrunkCleared ==
  ASSUME HostInv, NEW h \in Hosts, NEW a \in AttemptNumbers
  PROVE  Shrunk(Cleared(disk[h], a), disk[h])
<1> DEFINE d == disk[h]
           c == Cleared(d, a)
<1>1. DiskOK(d, task)
  BY MachineKnown DEF HostInv, MachineOK
<1>2. /\ DiskOK(c, task) /\ ~c.trees[a].exists
      /\ \A b \in AttemptNumbers \ {a} : c.trees[b] = d.trees[b]
      /\ c.branch = d.branch \/ ~c.branch.exists
  BY <1>1, ClearedOK
<1> HIDE DEF c
<1>3. Shrunk(c, d)
  BY <1>2 DEF Shrunk, DiskOK
<1> QED
  BY <1>3 DEF c

\* Steps that only clean, look or fail.
LEMMA CleaningSolo ==
  ASSUME HostInv, NEW h \in Hosts,
         \/ EnsureMirror(h) \/ CleanupStale(h) \/ publishRecovered(h)
         \/ RemoveWorktree(h) \/ CleanupDeferred(h) \/ CleanupTerminal(h)
  PROVE  SeenInv' /\ SoloInv'
<1> DEFINE m == Mirrored(disk[h])
           c == Cleared(disk[h], own[h].attempt)
<1>1. own[h] \in Executions
  BY MachineKnown DEF HostInv
<1>2. own[h].pc # "idle" => own[h].attempt \in AttemptNumbers
  BY MachineKnown DEF HostInv, MachineOK, OwnOK, TaskOK
<1>3. UNCHANGED <<task, origin, seen>>
  BY DEF EnsureMirror, CleanupStale, publishRecovered, RemoveWorktree,
     CleanupDeferred, CleanupTerminal
<1>4. disk' = disk => disk' = [disk EXCEPT ![h] = disk[h]]
  BY DEF HostInv, WorkInv
<1>5. ASSUME own[h].pc # "idle",
             NEW f, own' = [own EXCEPT ![h] = f], f.attempt = own[h].attempt,
             f.pc \in Past => own[h].pc \in Past, f.pc \in Early => own[h].pc \in Early,
             disk' = disk \/ disk' = [disk EXCEPT ![h] = m] \/ disk' = [disk EXCEPT ![h] = c]
      PROVE  SeenInv' /\ SoloInv'
  <2>1. PICK n : disk' = [disk EXCEPT ![h] = n] /\ Shrunk(n, disk[h])
    <3>1. Shrunk(disk[h], disk[h]) /\ Shrunk(m, disk[h]) /\ Shrunk(c, disk[h])
      BY <1>2, <1>5, ShrunkSame, ShrunkMirrored, ShrunkCleared
    <3> HIDE DEF m, c
    <3> QED
      BY <1>4, <1>5, <3>1
  <2> QED
    BY <1>3, <1>5, <2>1, SoloLocal
<1>6. \A pc : LET f == [own[h] EXCEPT !.pc = pc] IN f.pc = pc /\ f.attempt = own[h].attempt
  BY <1>1 DEF Executions
<1>7. CASE EnsureMirror(h)
  <2>1. /\ own[h].pc = "mirror" /\ own' = [own EXCEPT ![h] = [own[h] EXCEPT !.pc = "add"]]
        /\ disk' = [disk EXCEPT ![h] = m]
    BY <1>7 DEF EnsureMirror, At, GoTo, Goto
  <2> HIDE DEF m, c
  <2> QED
    BY <1>5, <1>6, <2>1 DEF Past, Early
<1>8. CASE CleanupStale(h)
  <2>1. PICK f :
          /\ own[h].pc = "stale" /\ own' = [own EXCEPT ![h] = f]
          /\ \/ /\ f = [own[h] EXCEPT !.pc = "mirror", !.again = TRUE]
                /\ disk' = [disk EXCEPT ![h] = c]
             \/ /\ f = Failing([own[h] EXCEPT !.hit = TRUE], "workspace_failed")
                /\ disk' = disk
    BY <1>8 DEF CleanupStale, At, Goto
  <2>2. f.attempt = own[h].attempt /\ f.pc \in {"mirror", "fail"}
    BY <1>1, <2>1 DEF Executions, Failing
  <2> HIDE DEF m, c
  <2> QED
    BY <1>5, <2>1, <2>2 DEF Past, Early
<1>9. CASE publishRecovered(h)
  <2>1. PICK f :
          /\ own[h].pc = "recover" /\ own' = [own EXCEPT ![h] = f]
          /\ disk' = disk \/ disk' = [disk EXCEPT ![h] = m]
          /\ \/ f = [own[h] EXCEPT !.pc = "commit", !.ws = TRUE]
             \/ f = Failing(own[h], "workspace_lost")
             \/ f = [own[h] EXCEPT !.pc = "review"]
    BY <1>9 DEF publishRecovered, At, Goto
  <2>2. f.attempt = own[h].attempt /\ f.pc \in {"commit", "fail", "review"}
    BY <1>1, <2>1 DEF Executions, Failing
  <2> HIDE DEF m, c
  <2> QED
    BY <1>5, <2>1, <2>2 DEF Past, Early
<1>10. CASE RemoveWorktree(h)
  <2>1. PICK f :
          /\ own[h].pc = "remove" /\ own' = [own EXCEPT ![h] = f]
          /\ disk' = [disk EXCEPT ![h] = c]
          /\ f = [own[h] EXCEPT !.pc = "review", !.ws = FALSE]
    BY <1>10 DEF RemoveWorktree, At, Goto
  <2>2. f.attempt = own[h].attempt /\ f.pc = "review"
    BY <1>1, <2>1 DEF Executions
  <2> HIDE DEF m, c
  <2> QED
    BY <1>5, <2>1, <2>2 DEF Past, Early
<1>11. CASE CleanupDeferred(h) \/ CleanupTerminal(h)
  <2>1. PICK pc \in {"end", "release"} :
          /\ own[h].pc # "idle" /\ own' = [own EXCEPT ![h] = [own[h] EXCEPT !.pc = pc]]
          /\ disk' = disk \/ disk' = [disk EXCEPT ![h] = c]
    BY <1>11 DEF CleanupDeferred, CleanupTerminal, At, GoTo, Goto
  <2>2. pc \notin Past /\ pc \notin Early
    BY DEF Past, Early
  <2> HIDE DEF m, c
  <2> QED
    BY <1>5, <1>6, <2>1, <2>2
<1> QED
  BY <1>7, <1>8, <1>9, <1>10, <1>11
\* A worktree is added where there was none, or half of one, in an attempt that is
\* not past running.
LEMMA AddedSolo ==
  ASSUME HostInv, NEW h \in Hosts, own[h].pc = "add",
         NEW n \in AddLeaves(h), disk' = [disk EXCEPT ![h] = n],
         NEW f, own' = [own EXCEPT ![h] = f], UNCHANGED <<task, origin, seen>>,
         f.pc = "idle" \/ f.attempt = own[h].attempt, f.pc \notin Past
  PROVE  SeenInv' /\ SoloInv'
<1> DEFINE a == own[h].attempt
           d == disk[h]
<1>1. /\ MachineOK(d, own[h], task) /\ TaskOK(task, origin) /\ task \in Tasks
      /\ a \in 1..task.attempt
  BY MachineKnown DEF HostInv, MachineOK, OwnOK, TaskOK
<1>2. CASE n = d
  BY <1>1, <1>2, ShrunkSame, SoloLocal DEF Early
<1>3. CASE ~Occupied(d, a)
  <2>1. \A b \in AttemptNumbers \ {a} : n.trees[b] = d.trees[b]
    BY AddLeavesOK DEF HostInv, SameTrees
  <2>2. \A b \in AttemptNumbers : ~d.trees[b].exists
    BY <1>1, <1>3 DEF MachineOK, DiskOK, Occupied
  <2>3. ASSUME SoloMachine(d, own[h], task) PROVE SoloMachine(n, f, task)
    <3>1. a = task.attempt => task.status \in {"running", "finished"}
      BY <2>3 DEF SoloMachine, Early
    <3>2. task.attempt \in AttemptNumbers
      BY <1>1 DEF Tasks
    <3> QED
      BY <2>1, <2>2, <3>1, <3>2 DEF SoloMachine, Early
  <2>4. Solo => SoloMachine(n, f, task') /\ KeptTask(task', origin')
    BY <2>3, SoloKnown
  <2>5. h \in seen' /\ task' \in Tasks
    BY <1>1, SoloKnown
  <2> QED
    BY <2>4, <2>5, SoloStep
<1> QED
  BY <1>2, <1>3 DEF AddLeaves

LEMMA RetryTo ==
  ASSUME NEW e \in Executions
  PROVE  Retry(e).attempt = e.attempt /\ Retry(e).pc \in {"fail", "stale"}
BY DEF Retry, Failing, Executions

LEMMA ProvisionSolo ==
  ASSUME HostInv, NEW h \in Hosts,
         CreateWorktree(h) \/ ProvisionFails(h) \/ AddCut(h)
  PROVE  SeenInv' /\ SoloInv'
<1> DEFINE d == disk[h]
           add == Added(d, own[h].attempt)
           x == [own[h] EXCEPT !.hit = TRUE]
<1>1. /\ own[h].pc \in {"mirror", "add"} /\ UNCHANGED <<task, origin, seen>>
      /\ own[h] \in Executions
  BY MachineKnown DEF HostInv, CreateWorktree, ProvisionFails, AddCut, At
<1>2. CASE CreateWorktree(h)
  <2>1. CASE own' = [own EXCEPT ![h] = Failing(own[h], "base_mismatch")] /\ disk' = disk
    <3>1. /\ Failing(own[h], "base_mismatch").attempt = own[h].attempt
          /\ Failing(own[h], "base_mismatch").pc = "fail"
      BY <1>1 DEF Executions, Failing
    <3> QED
      BY <1>1, <2>1, <3>1, SoloGo DEF Past, Early
  <2>2. CASE own' = [own EXCEPT ![h] = Retry(own[h])] /\ disk' = disk
    BY <1>1, <2>2, RetryTo, SoloGo DEF Past, Early
  <2>3. CASE /\ ~TipMoved(h) /\ ~Occupied(d, own[h].attempt)
             /\ disk' = [disk EXCEPT ![h] = add]
             /\ own' = [own EXCEPT ![h] = [own[h] EXCEPT !.pc = "agent", !.ws = TRUE]]
    <3> DEFINE f == [own[h] EXCEPT !.pc = "agent", !.ws = TRUE]
    <3>1. /\ f.attempt = own[h].attempt /\ f.pc = "agent" /\ f.pc \notin Past
          /\ own[h].pc = "add"
      BY <1>1, <1>2 DEF Executions, CreateWorktree, At, Past
    <3>2. add \in AddLeaves(h)
      BY <2>3 DEF AddLeaves, Leftovers
    <3> HIDE DEF f, add
    <3>3. own' = [own EXCEPT ![h] = f]
      BY <2>3 DEF f
    <3> QED
      BY <1>1, <2>3, <3>1, <3>2, <3>3, AddedSolo
  <2> QED
    BY <1>2, <2>1, <2>2, <2>3 DEF CreateWorktree, Goto
<1>3. CASE ProvisionFails(h)
  <2>1. own' = [own EXCEPT ![h] = Retry(x)]
    BY <1>3 DEF ProvisionFails, Goto
  <2>2. x \in Executions /\ x.attempt = own[h].attempt
    BY <1>1 DEF Executions
  <2>3. Retry(x).attempt = own[h].attempt /\ Retry(x).pc \in {"fail", "stale"}
    BY <2>2, RetryTo
  <2> HIDE DEF x
  <2>4. CASE disk' = disk
    BY <1>1, <2>1, <2>3, <2>4, SoloGo DEF Past, Early
  <2>5. ASSUME own[h].pc = "add", NEW n \in AddLeaves(h), disk' = [disk EXCEPT ![h] = n]
        PROVE  SeenInv' /\ SoloInv'
    BY <1>1, <2>1, <2>3, <2>5, AddedSolo DEF Past
  <2> QED
    BY <1>3, <2>4, <2>5 DEF ProvisionFails, At
<1>4. CASE AddCut(h)
  <2>1. own' = [own EXCEPT ![h] = Idle] /\ own[h].pc = "add"
    BY <1>4 DEF AddCut, At, Goto
  <2>2. Idle.pc = "idle" /\ Idle.pc \notin Past
    BY DEF Idle, Past
  <2>3. PICK n \in AddLeaves(h) : disk' = [disk EXCEPT ![h] = n]
    BY <1>4 DEF AddCut
  <2> QED
    BY <1>1, <2>1, <2>2, <2>3, AddedSolo
<1> QED
  BY <1>2, <1>3, <1>4

LEMMA InterruptSolo ==
  ASSUME HostInv, NEW h \in Hosts, Interrupt(h)
  PROVE  SeenInv' /\ SoloInv'
<1> DEFINE f == [own[h] EXCEPT !.pc = "defer"]
<1>1. /\ own[h].pc # "idle" /\ UNCHANGED <<task, origin, seen>>
      /\ own' = [own EXCEPT ![h] = f] /\ own[h] \in Executions
  BY MachineKnown DEF HostInv, Interrupt, GoTo, Goto
<1>2. f.pc = "defer" /\ f.attempt = own[h].attempt /\ f.pc \notin Past
  BY <1>1 DEF Executions, Past
<1> HIDE DEF f
<1>3. CASE UNCHANGED disk
  BY <1>1, <1>2, <1>3, SoloGo DEF Early
<1>4. ASSUME own[h].pc = "add", NEW n \in AddLeaves(h), disk' = [disk EXCEPT ![h] = n]
      PROVE  SeenInv' /\ SoloInv'
  BY <1>1, <1>2, <1>4, AddedSolo
<1> QED
  BY <1>3, <1>4 DEF Interrupt, At

LEMMA AgentSolo ==
  ASSUME HostInv, NEW h \in Hosts, RunAgent(h)
  PROVE  SeenInv' /\ SoloInv'
<1> DEFINE a == own[h].attempt
           d == disk[h]
           f == [own[h] EXCEPT !.pc = "advance"]
<1>1. /\ own[h].pc = "agent" /\ UNCHANGED <<task, origin, seen>>
      /\ own' = [own EXCEPT ![h] = f] /\ own[h] \in Executions
  BY MachineKnown DEF HostInv, RunAgent, At, GoTo, Goto
<1>2. /\ DiskOK(d, task) /\ task \in Tasks /\ d.trees[a].exists /\ a \in AttemptNumbers
  BY <1>1, MachineKnown DEF HostInv, MachineOK, OwnOK, TaskOK
<1>3. f.pc = "advance" /\ f.attempt = a
  BY <1>1 DEF Executions
<1> HIDE DEF f
<1>4. PICK n \in Disks :
        /\ disk' = [disk EXCEPT ![h] = n]
        /\ \A b \in AttemptNumbers \ {a} : n.trees[b] = d.trees[b]
  BY RunDisk DEF HostInv
<1>5. ASSUME SoloMachine(d, own[h], task) PROVE SoloMachine(n, f, task)
  <2>1. a = task.attempt => task.status \in {"running", "finished"}
    BY <1>1, <1>5 DEF SoloMachine, Early
  <2>2. a # task.attempt => ~n.trees[task.attempt].exists
    BY <1>2, <1>4 DEF DiskOK, Tasks
  <2> QED
    BY <1>3, <2>1, <2>2 DEF SoloMachine, Past
<1>6. Solo => SoloMachine(n, f, task') /\ KeptTask(task', origin')
  BY <1>1, <1>5, SoloKnown
<1>7. h \in seen' /\ task' \in Tasks
  BY <1>1, <1>2, SoloKnown
<1> QED
  BY <1>1, <1>4, <1>6, <1>7, SoloStep

LEMMA CommitSolo ==
  ASSUME HostInv, NEW h \in Hosts, Commit(h)
  PROVE  SeenInv' /\ SoloInv'
<1> DEFINE a == own[h].attempt
           d == disk[h]
           k == task.kept[a]
<1>1. /\ own[h].pc = "commit" /\ UNCHANGED <<task, origin, seen>> /\ own[h] \in Executions
  BY MachineKnown DEF HostInv, Commit, At
<1>2. /\ DiskOK(d, task) /\ task \in Tasks /\ d.trees[a].exists /\ a \in AttemptNumbers
      /\ a \in Nat
  BY <1>1, MachineKnown DEF HostInv, MachineOK, OwnOK, TaskOK
<1>3. task.base[a] \in Commits /\ k \in Nat
  BY <1>2 DEF Tasks
<1>4. PICK f : own' = [own EXCEPT ![h] = f] /\ f.attempt = a /\ f.pc \in {"push", "fail"}
  <2>1. PICK f : /\ own' = [own EXCEPT ![h] = f]
                 /\ \/ f = Failing(own[h], "no_change")
                    \/ f = [own[h] EXCEPT !.pc = "push"]
    BY DEF Commit, Goto
  <2> QED
    BY <1>1, <2>1 DEF Executions, Failing
<1>5. PICK n \in Disks :
        /\ disk' = [disk EXCEPT ![h] = n]
        /\ n.branch.at = d.branch.at \o d.trees[a].edits
        /\ n.trees[a].edits = << >>
        /\ \A b \in AttemptNumbers \ {a} : n.trees[b] = d.trees[b]
  BY CommitDisk DEF HostInv
<1>6. ASSUME KeptWork(d, a, task) PROVE KeptWork(n, a, task)
  <2> DEFINE b == task.base[a]
             c == Append(b, <<a, k>>)
  <2>0. /\ \A x \in Commits : x \o << >> = x
        /\ \A x \in Commits, y \in Nat \X Nat : x \o <<y>> = Append(x, y) /\ Append(x, y) \in Commits
    BY DEF Commits
  <2>1. b \o << <<a, k>> >> = c /\ c \o << >> = c
    <3>1. b \in Commits /\ <<a, k>> \in Nat \X Nat
      BY <1>2, <1>3
    <3> QED
      BY <2>0, <3>1
  <2>2. \/ d.branch.at = b /\ d.trees[a].edits = << <<a, k>> >>
        \/ d.branch.at = c /\ d.trees[a].edits = << >>
    BY <1>6 DEF KeptWork, Edited, Committed
  <2>3. n.branch.at = c
    BY <1>5, <2>1, <2>2
  <2> QED
    BY <1>5, <2>3 DEF KeptWork, Committed
<1>7. ASSUME SoloMachine(d, own[h], task) PROVE SoloMachine(n, f, task)
  <2>1. KeptWork(n, a, task)
    BY <1>1, <1>2, <1>6, <1>7 DEF SoloMachine, Past
  <2>2. a # task.attempt => ~n.trees[task.attempt].exists
    BY <1>2, <1>5 DEF DiskOK, Tasks
  <2> QED
    BY <1>4, <2>1, <2>2 DEF SoloMachine, Early
<1>8. Solo => SoloMachine(n, f, task') /\ KeptTask(task', origin')
  BY <1>1, <1>7, SoloKnown
<1>9. h \in seen' /\ task' \in Tasks
  BY <1>1, <1>2, SoloKnown
<1> QED
  BY <1>1, <1>4, <1>5, <1>8, <1>9, SoloStep
LEMMA KeptAppend ==
  ASSUME NEW c \in Commits, NEW t, NEW p \in Nat \X Nat, Kept(c, t),
         p = Foreign \/ p[2] = t.kept[p[1]]
  PROVE  Kept(Append(c, p), t)
<1> DEFINE s == Append(c, p)
<1>1. /\ DOMAIN s = 1..(Len(c) + 1) /\ DOMAIN c = 1..Len(c) /\ Len(c) \in Nat
      /\ s[Len(c) + 1] = p /\ \A i \in DOMAIN c : s[i] = c[i]
  BY DEF Commits
<1>2. \A i \in DOMAIN s : i \in DOMAIN c \/ i = Len(c) + 1
  BY <1>1
<1> HIDE DEF s
<1>3. Kept(s, t)
  BY <1>1, <1>2 DEF Kept
<1> QED
  BY <1>3 DEF s

LEMMA PushSolo ==
  ASSUME HostInv, NEW h \in Hosts, Push(h)
  PROVE  SeenInv' /\ SoloInv'
<1> DEFINE a == own[h].attempt
           d == disk[h]
           c == Append(task.base[a], <<a, task.kept[a]>>)
<1>1. /\ own[h].pc = "push" /\ UNCHANGED <<disk, task, seen>> /\ own[h] \in Executions
  BY MachineKnown DEF HostInv, Push, At
<1>2. PICK f :
        /\ own' = [own EXCEPT ![h] = f] /\ f.attempt = a /\ f.pc \in {"remove", "fail"}
        /\ origin' = origin \/ origin' = d.branch.at
  <2>1. PICK f : /\ own' = [own EXCEPT ![h] = f]
                 /\ origin' = origin \/ origin' = d.branch.at
                 /\ \/ f = Failing(own[h], "publish_failed")
                    \/ f = [own[h] EXCEPT !.pc = "remove"]
    BY DEF Push, GoTo, Goto
  <2> QED
    BY <1>1, <2>1 DEF Executions, Failing
<1>3. /\ task \in Tasks /\ a \in 1..task.attempt /\ a \in AttemptNumbers /\ a \in Nat
      /\ d.trees[a].exists /\ d.trees[a].edits = << >>
  BY <1>1, MachineKnown DEF HostInv, MachineOK, OwnOK, TaskOK
<1>4. task.base[a] \in Commits /\ <<a, task.kept[a]>> \in Nat \X Nat
  BY <1>3 DEF Tasks
<1>5. ASSUME Solo PROVE SoloMachine(d, f, task) /\ KeptTask(task, origin')
  <2>1. SoloMachine(d, own[h], task) /\ KeptTask(task, origin)
    BY <1>5, SoloKnown
  <2>2. SoloMachine(d, f, task)
    BY <1>2, <2>1 DEF SoloMachine, Past, Early
  <2>3. d.branch.at = c
    <3>1. << <<a, task.kept[a]>> >> # << >>
      OBVIOUS
    <3> QED
      BY <1>1, <1>3, <2>1, <3>1 DEF SoloMachine, Past, KeptWork, Edited, Committed
  <2>4. Kept(c, task)
    BY <1>3, <1>4, <2>1, KeptAppend DEF KeptTask
  <2> QED
    BY <1>2, <2>1, <2>2, <2>3, <2>4 DEF KeptTask
<1>6. disk' = [disk EXCEPT ![h] = d] /\ h \in seen' /\ task' \in Tasks
  BY <1>1, <1>3, SoloKnown DEF HostInv, WorkInv
<1>7. Solo => SoloMachine(d, f, task') /\ KeptTask(task', origin')
  BY <1>1, <1>5
<1> QED
  BY <1>1, <1>2, <1>6, <1>7, SoloStep

\* The session of h ended, and its run is the one the attempt keeps.
LEMMA ValidatingSolo ==
  ASSUME HostInv, NEW h \in Hosts, ToValidating(h)
  PROVE  SeenInv' /\ SoloInv'
<1> DEFINE a == own[h].attempt
           d == disk[h]
           r == d.trees[a].edits[Len(d.trees[a].edits)][2]
           u == [task EXCEPT !.status = "validating", !.kept[a] = r]
           f == [own[h] EXCEPT !.pc = "validated"]
<1>1. /\ own[h].pc = "advance" /\ a = task.attempt /\ task.status = "running"
      /\ UNCHANGED <<disk, origin, seen>> /\ task' = u /\ own' = [own EXCEPT ![h] = f]
      /\ own[h] \in Executions
  BY MachineKnown DEF HostInv, ToValidating, At, HoldsLease, GoTo, Goto
<1>2. /\ TaskOK(task, origin) /\ task \in Tasks /\ a \in AttemptNumbers /\ a \in Nat
      /\ DiskOK(d, task)
  BY <1>1, MachineKnown DEF HostInv, MachineOK, TaskOK, Tasks
<1>3. PICK x \in Nat : Edited(d, a, task, x)
  BY <1>1, MachineKnown DEF HostInv, MachineOK, OwnOK
<1>4. r = x
  <2>1. d.trees[a].edits = << <<a, x>> >> /\ Len(<< <<a, x>> >>) = 1
    BY <1>3 DEF Edited
  <2> QED
    BY <2>1
<1> HIDE DEF r
<1>5. /\ u \in Tasks /\ u.attempt = a /\ u.base = task.base /\ u.kept[a] = x
      /\ u.status = "validating" /\ \A b \in AttemptNumbers \ {a} : u.kept[b] = task.kept[b]
  BY <1>1, <1>2, <1>4 DEF Tasks
<1>6. f.pc = "validated" /\ f.attempt = a
  BY <1>1 DEF Executions
<1> HIDE DEF u, f
<1>7. KeptWork(d, a, u)
  BY <1>3, <1>5 DEF KeptWork, Edited
<1>8. SoloMachine(d, f, u)
  BY <1>5, <1>6, <1>7 DEF SoloMachine, Early
<1>9. \A c, n : n \in Nat /\ n < a /\ OneEach(c, n) /\ Kept(c, task) => Kept(c, u)
  <2> SUFFICES ASSUME NEW c, NEW n \in Nat, n < a, OneEach(c, n), Kept(c, task),
                      NEW i \in DOMAIN c, c[i] # Foreign
               PROVE  c[i][2] = u.kept[c[i][1]]
    BY DEF Kept
  <2>1. c[i][1] \in 1..n
    BY DEF OneEach
  <2>2. c[i][1] \in 1..a /\ c[i][1] # a
    BY <1>2, <2>1
  <2>3. c[i][1] \in AttemptNumbers \ {a}
    BY <1>1, <1>2, <2>2 DEF TaskOK
  <2> QED
    BY <1>5, <2>3 DEF Kept
<1>10. ASSUME Solo PROVE KeptTask(u, origin)
  <2>1. KeptTask(task, origin)
    BY <1>10, SoloKnown
  <2>2. OneEach(origin, a - 1) /\ a - 1 \in Nat /\ a - 1 < a
    BY <1>1, <1>2 DEF TaskOK, OneEach
  <2>3. Kept(origin, u)
    BY <1>9, <2>1, <2>2 DEF KeptTask
  <2>4. ASSUME NEW b \in 1..a PROVE Kept(u.base[b], u)
    <3>1. OneEach(task.base[b], b - 1) /\ b - 1 \in Nat /\ b - 1 < a
      BY <1>1, <1>2 DEF TaskOK
    <3>2. Kept(task.base[b], task)
      BY <1>1, <2>1 DEF KeptTask
    <3> QED
      BY <1>5, <1>9, <3>1, <3>2
  <2> QED
    BY <1>5, <2>3, <2>4 DEF KeptTask
<1>11. disk' = [disk EXCEPT ![h] = d] /\ h \in seen' /\ task' \in Tasks
  BY <1>1, <1>5, SoloKnown DEF HostInv, WorkInv
<1>12. Solo => SoloMachine(d, f, task') /\ KeptTask(task', origin')
  BY <1>1, <1>8, <1>10
<1> QED
  BY <1>1, <1>11, <1>12, SoloStep

\* Only the status moves, and not into the attempt's past.
LEMMA StatusSolo ==
  ASSUME NEW d, NEW e, NEW t, NEW o, NEW u, NEW f, SoloMachine(d, e, t), KeptTask(t, o),
         u.attempt = t.attempt, u.base = t.base, u.kept = t.kept,
         u.status \in {"validating", "publishing"} => t.status \in {"validating", "publishing"},
         f.attempt = e.attempt, f.pc \in Past => e.pc \in Past, f.pc \notin Early
  PROVE  SoloMachine(d, f, u) /\ KeptTask(u, o)
<1>1. \A a : KeptWork(d, a, u) <=> KeptWork(d, a, t)
  BY DEF KeptWork, Edited, Committed
<1>2. SoloMachine(d, f, u)
  BY <1>1 DEF SoloMachine
<1>3. KeptTask(u, o)
  BY DEF KeptTask, Kept
<1> QED
  BY <1>2, <1>3

LEMMA AdvanceSolo ==
  ASSUME HostInv, NEW h \in Hosts, ToPublishing(h) \/ Review(h) \/ FailTask(h)
  PROVE  SeenInv' /\ SoloInv'
<1>1. own[h] \in Executions /\ task \in Tasks
  BY MachineKnown DEF HostInv, TaskOK
<1>2. /\ own[h].pc # "idle" /\ UNCHANGED <<disk, origin, seen>>
      /\ \E u, pc :
           /\ task' = u /\ own' = [own EXCEPT ![h] = [own[h] EXCEPT !.pc = pc]]
           /\ \/ /\ u = [task EXCEPT !.status = "publishing"] /\ task.status = "validating"
                 /\ pc \in {"commit", "recover"} /\ own[h].pc = "validated"
              \/ u = [task EXCEPT !.status = "review"] /\ pc = "end"
              \/ u = [task EXCEPT !.status = "finished"] /\ pc = "defer"
              \/ u = task /\ pc = "defer"
  BY DEF ToPublishing, Review, FailTask, At, GoTo, Goto
<1>3. PICK u, pc :
        /\ task' = u /\ own' = [own EXCEPT ![h] = [own[h] EXCEPT !.pc = pc]]
        /\ \/ /\ u = [task EXCEPT !.status = "publishing"] /\ task.status = "validating"
              /\ pc \in {"commit", "recover"} /\ own[h].pc = "validated"
           \/ u = [task EXCEPT !.status = "review"] /\ pc = "end"
           \/ u = [task EXCEPT !.status = "finished"] /\ pc = "defer"
           \/ u = task /\ pc = "defer"
  BY <1>2
<1> DEFINE f == [own[h] EXCEPT !.pc = pc]
<1>4. f.pc = pc /\ f.attempt = own[h].attempt
  BY <1>1 DEF Executions
<1>5. /\ u \in Tasks /\ u.attempt = task.attempt /\ u.base = task.base /\ u.kept = task.kept
      /\ u.status \in {"validating", "publishing"} => task.status \in {"validating", "publishing"}
  BY <1>1, <1>3 DEF Tasks
<1>6. (pc \in Past => own[h].pc \in Past) /\ pc \notin Early
  BY <1>3 DEF Past, Early
<1> HIDE DEF f
<1>7. Solo => SoloMachine(disk[h], f, u) /\ KeptTask(u, origin)
  BY <1>4, <1>5, <1>6, SoloKnown, StatusSolo
<1>8. disk' = [disk EXCEPT ![h] = disk[h]] /\ h \in seen' /\ task' \in Tasks
  BY <1>2, <1>3, <1>5, SoloKnown DEF HostInv, WorkInv
<1>9. Solo => SoloMachine(disk[h], f, task') /\ KeptTask(task', origin')
  BY <1>2, <1>3, <1>7
<1>10. own' = [own EXCEPT ![h] = f]
  BY <1>3 DEF f
<1> QED
  BY <1>2, <1>8, <1>9, <1>10, SoloStep

LEMMA OutsideSolo ==
  ASSUME HostInv,
         LeaseLapses \/ Revise \/ Finish \/ ForeignPush \/ UNCHANGED gitVars
  PROVE  SeenInv' /\ SoloInv'
<1> MaxAttempts \in Nat \ {0}
  BY WorkspaceAssumption
<1>1. TaskOK(task, origin) /\ task \in Tasks /\ UNCHANGED <<disk, own, seen>>
  BY DEF HostInv, WorkInv, TaskOK, LeaseLapses, Revise, Finish, ForeignPush,
     gitVars
<1>2. Solo => KeptTask(task, origin) /\ \A h \in Hosts : SoloMachine(disk[h], own[h], task)
  BY DEF HostInv, SoloInv
<1>3. CASE LeaseLapses \/ UNCHANGED gitVars
  <2>1. UNCHANGED <<task, origin>>
    BY <1>3 DEF LeaseLapses, gitVars
  <2> QED
    BY <1>1, <1>2, <2>1, SoloOutside
<1>4. CASE Finish
  <2> DEFINE u == [task EXCEPT !.status = "finished"]
  <2>1. task' = u /\ origin' = origin
    BY <1>4 DEF Finish
  <2>2. /\ u.status = "finished" /\ u.attempt = task.attempt /\ u.base = task.base
        /\ u.kept = task.kept
    BY <1>1 DEF Tasks
  <2> HIDE DEF u
  <2>3. KeptTask(task, origin) => KeptTask(u, origin)
    BY <2>2 DEF KeptTask, Kept
  <2>4. \A d, e : SoloMachine(d, e, task) => SoloMachine(d, e, u)
    BY <2>2 DEF SoloMachine, KeptWork, Edited, Committed
  <2> QED
    BY <1>1, <1>2, <2>1, <2>3, <2>4, SoloOutside
<1>5. CASE ForeignPush
  <2>1. task' = task /\ origin' = Append(origin, Foreign)
    BY <1>5 DEF ForeignPush
  <2>2. origin \in Commits /\ Foreign \in Nat \X Nat
    BY <1>1 DEF TaskOK, OneEach, Foreign
  <2>3. KeptTask(task, origin) => KeptTask(task, Append(origin, Foreign))
    BY <2>2, KeptAppend DEF KeptTask
  <2> HIDE DEF Solo
  <2> QED
    BY <1>1, <1>2, <2>1, <2>3, SoloOutside
<1>6. CASE Revise
  <2> DEFINE n == task.attempt + 1
             u == [task EXCEPT !.status = "running", !.attempt = @ + 1, !.base[n] = origin]
  <2>1. task' = u /\ origin' = origin
    BY <1>6 DEF Revise
  <2>2. /\ u.status = "running" /\ u.attempt = n /\ u.kept = task.kept
        /\ u.base = [task.base EXCEPT ![n] = origin]
        /\ task.attempt \in Nat /\ 1..task.attempt \subseteq AttemptNumbers
        /\ task.base \in [AttemptNumbers -> Commits]
    BY <1>1 DEF Tasks, TaskOK
  <2>3. \A b \in 1..task.attempt : u.base[b] = task.base[b] /\ b # n
    BY <2>2
  <2> HIDE DEF u
  <2>4. KeptTask(task, origin) => KeptTask(u, origin)
    <3> SUFFICES ASSUME KeptTask(task, origin) PROVE KeptTask(u, origin)
      OBVIOUS
    <3>1. \A c : Kept(c, task) => Kept(c, u)
      BY <2>2 DEF Kept
    <3>2. ASSUME NEW b \in 1..n PROVE Kept(u.base[b], u)
      <4>1. CASE b \in 1..task.attempt
        BY <2>3, <3>1, <4>1 DEF KeptTask
      <4>2. CASE b = n
        <5>1. u.base[n] = origin \/ n \notin AttemptNumbers
          BY <2>2
        <5>2. n \in AttemptNumbers
          BY <1>6, <2>2 DEF Revise, AttemptNumbers
        <5> QED
          BY <3>1, <4>2, <5>1, <5>2 DEF KeptTask
      <4> QED
        BY <2>2, <4>1, <4>2
    <3> QED
      BY <2>2, <3>1, <3>2 DEF KeptTask
  <2>5. ASSUME NEW h \in Hosts, SoloMachine(disk[h], own[h], task)
        PROVE  SoloMachine(disk[h], own[h], u)
    <3>1. own[h].pc # "idle" => own[h].attempt \in 1..task.attempt
      BY MachineKnown DEF HostInv, MachineOK, OwnOK
    <3>2. own[h].pc \in Past =>
            (KeptWork(disk[h], own[h].attempt, task) => KeptWork(disk[h], own[h].attempt, u))
      BY <2>2, <2>3, <3>1 DEF KeptWork, Edited, Committed, Past
    <3>3. own[h].pc \in Early => own[h].attempt # u.attempt
      BY <2>2, <2>3, <3>1 DEF Early
    <3> QED
      BY <2>2, <2>5, <3>2, <3>3 DEF SoloMachine
  <2>6. Solo => KeptTask(task', origin')
                /\ \A h \in Hosts : SoloMachine(disk[h], own[h], task')
    BY <1>2, <2>1, <2>4, <2>5
  <2> QED
    BY <1>1, <2>6, SoloOutside
<1> QED
  BY <1>3, <1>4, <1>5, <1>6

LEMMA HostStep == HostInv /\ [GitNext]_gitVars => HostInv'
<1> SUFFICES ASSUME HostInv, [GitNext]_gitVars PROVE HostInv'
  OBVIOUS
<1>1. WorkInv'
  BY WorkStep DEF HostInv
<1>2. SeenInv' /\ SoloInv'
  <2>1. CASE LeaseLapses \/ Revise \/ Finish \/ ForeignPush
             \/ UNCHANGED gitVars
    BY <2>1, OutsideSolo
  <2>2. ASSUME NEW h \in Hosts,
               \/ Claim(h) \/ FenceLost(h) \/ Crash(h)
               \/ EnsureMirror(h) \/ CreateWorktree(h) \/ ProvisionFails(h)
               \/ AddCut(h) \/ CleanupStale(h) \/ RunAgent(h)
        PROVE  SeenInv' /\ SoloInv'
    BY <2>2, ClaimSolo, LeavesSolo, CleaningSolo, ProvisionSolo, AgentSolo
  <2>3. ASSUME NEW h \in Hosts,
               \/ ToValidating(h) \/ ToPublishing(h)
               \/ publishRecovered(h) \/ Commit(h) \/ Push(h)
               \/ RemoveWorktree(h) \/ Review(h)
               \/ Interrupt(h) \/ FailTask(h) \/ CleanupDeferred(h)
               \/ CleanupTerminal(h) \/ ReleaseLease(h)
        PROVE  SeenInv' /\ SoloInv'
    BY <2>3, ValidatingSolo, AdvanceSolo, CleaningSolo, CommitSolo, PushSolo, LeavesSolo,
       InterruptSolo
  <2> QED
    BY <2>1, <2>2, <2>3 DEF GitNext
<1> QED
  BY <1>1, <1>2 DEF HostInv

LEMMA HostInit == GitInit => HostInv
<1> MaxAttempts \in Nat \ {0}
  BY WorkspaceAssumption
<1> SUFFICES ASSUME GitInit PROVE HostInv
  OBVIOUS
<1>1. WorkInv
  BY WorkInit
<1>2. /\ task = [status |-> "running", attempt |-> 1,
                 base |-> [a \in AttemptNumbers |-> << >>],
                 kept |-> [a \in AttemptNumbers |-> 0]]
      /\ disk = [h \in Hosts |-> EmptyDisk] /\ own = [h \in Hosts |-> Idle]
      /\ origin = << >> /\ seen = {}
  BY DEF GitInit
<1>3. Absent(EmptyDisk, Idle)
  BY DEF Absent, EmptyDisk, Idle, NoTree
<1>4. SeenInv
  BY <1>2, <1>3 DEF SeenInv
<1>5. \A t : t \in Tasks => SoloMachine(EmptyDisk, Idle, t)
  BY <1>3, AbsentSolo
<1>6. task \in Tasks
  BY <1>1 DEF WorkInv, TaskOK
<1>7. KeptTask(task, origin)
  <2>1. task.attempt = 1 /\ 1 \in AttemptNumbers
    BY <1>2 DEF AttemptNumbers
  <2>2. task.base[1] = << >>
    BY <1>2, <2>1
  <2>3. \A b \in 1..task.attempt : task.base[b] = << >>
    BY <2>1, <2>2
  <2> QED
    BY <1>2, <2>3 DEF KeptTask, Kept
<1>8. SoloInv
  BY <1>2, <1>5, <1>6, <1>7 DEF SoloInv
<1> QED
  BY <1>1, <1>4, <1>8 DEF HostInv

LEMMA HostGives ==
  HostInv => HostPublishesItsRun
BY DEF HostInv, SoloInv, Solo, KeptTask, Kept, HostPublishesItsRun, HostPublishesItsRun,
   NewestRunOnly

\* runner/publish.go, publishRecovered, on one host: however often the worker dies
\* and takes its own task up again, what it publishes from the surviving worktree
\* is the work that was validated.
THEOREM HostPublishesWhatItValidated == GitSpec => []HostPublishesItsRun
<1>1. GitInit => HostInv
  BY HostInit
<1>2. HostInv /\ [GitNext]_gitVars => HostInv'
  BY HostStep
<1> QED
  BY <1>1, <1>2, HostGives, PTL DEF GitSpec
=============================================================================
