------------------------- MODULE TrustedValidation --------------------------
(***************************************************************************)
(* The trusted checks of one attempt, the evidence report made from them   *)
(* and the conclusion published from the report, over successive owners:   *)
(* apps/api/internal/runner/executor.go (runTrustedValidation,             *)
(* generateEvidence, the recovery of a validating task in drive),          *)
(* validation/run.go, validation/store.go, evidence/report.go,             *)
(* evidence/store.go and checkConclusion of runner/publish.go.             *)
(*                                                                         *)
(* A transition is fenced by the lease and one step with its fence (the    *)
(* case in which they come apart is AttemptExecutor's).  The inserts, the  *)
(* appended events and what is posted on the pull request are not fenced:  *)
(* an owner whose lease has lapsed goes on with them until it learns of    *)
(* the loss, beside the owner that has claimed the attempt since.          *)
(***************************************************************************)
EXTENDS Naturals, Sequences, FiniteSets

CONSTANTS
  Owners, NoOwner,
  Checks,     \* number of checks the validation file declares
  Claims,     \* outcomes the agent may claim for commands of its own
  MaxFaults   \* bound on lapses, crashes, failed calls and interruptions

CheckStatuses == {"passed", "failed", "timed_out", "error"}

ASSUME ValidationAssumption ==
  /\ NoOwner \notin Owners
  /\ Checks \in Nat \ {0}
  /\ Claims \subseteq {"passed", "failed", "unknown"}
  /\ MaxFaults \in Nat

VARIABLES
  status,     \* the task's status
  lease,      \* the owner whose lease is live
  own,        \* what each owner is doing
  claimed,    \* outcomes of commands in the attempt's agent events
  rows,       \* validation_results of the attempt
  report,     \* evidence_reports of the attempt
  completed,  \* the validation.completed events: who, what, and how it got there
  posted,     \* conclusions shown on the pull request
  faults

vars == <<status, lease, own, claimed, rows, report, completed, posted, faults>>

CheckIds == 1..Checks
NoRow == "none"
NoReport == [by |-> NoOwner, trusted |-> [c \in CheckIds |-> NoRow], claimed |-> {},
             note |-> FALSE]

Idle == [pc |-> "idle", done |-> FALSE, mem |-> << >>, read |-> NoReport]

Init ==
  /\ status = "executing" /\ lease = NoOwner
  /\ own = [o \in Owners |-> Idle]
  /\ claimed \in SUBSET Claims
  /\ rows = [c \in CheckIds |-> NoRow]
  /\ report = NoReport
  /\ completed = {} /\ posted = {} /\ faults = 0

-----------------------------------------------------------------------------
(* Ownership.                                                              *)

Fault == faults < MaxFaults /\ faults' = faults + 1

At(o, pc) == own[o].pc = pc

GoTo(o, pc) == own' = [own EXCEPT ![o].pc = pc]

\* A claim by an owner that does nothing else, where drive takes the status up.
Claim(o) ==
  /\ lease = NoOwner /\ At(o, "idle")
  /\ status # "awaiting_review"
  /\ lease' = o
  /\ own' = [own EXCEPT ![o] = [Idle EXCEPT !.pc =
       CASE status = "executing" -> "agent_done"
         [] status = "validating" -> "recover"
         [] status = "publishing" -> "conclude"]]
  /\ UNCHANGED <<status, claimed, rows, report, completed, posted, faults>>

\* The lease ends under an owner that does not know it yet.
LeaseLapses ==
  /\ lease # NoOwner /\ Fault
  /\ lease' = NoOwner
  /\ UNCHANGED <<status, own, claimed, rows, report, completed, posted>>

\* The attempt's context ends: a heartbeat finds the lease lost, or a shutdown.
CtxDone(o) ==
  /\ ~At(o, "idle") /\ ~own[o].done
  /\ IF lease = o THEN Fault ELSE UNCHANGED faults
  /\ own' = [own EXCEPT ![o].done = TRUE]
  /\ UNCHANGED <<status, lease, claimed, rows, report, completed, posted>>

Leave(o) ==
  /\ own' = [own EXCEPT ![o] = Idle]
  /\ lease' = IF lease = o THEN NoOwner ELSE lease

\* The owner returns early: a call fails because its context is done or the
\* fence of its next transition is refused, the database refuses it, or the
\* process dies.
Abandon(o) ==
  /\ ~At(o, "idle")
  /\ Leave(o)
  /\ IF own[o].done \/ lease # o THEN UNCHANGED faults ELSE Fault
  /\ UNCHANGED <<status, claimed, rows, report, completed, posted>>

\* transition: fenced, so it needs the live lease.
Transition(o, to, pc) ==
  /\ lease = o
  /\ status' = to
  /\ GoTo(o, pc)

-----------------------------------------------------------------------------
(* runTrustedValidation.                                                   *)

ToValidating(o) ==
  /\ At(o, "agent_done") /\ ~own[o].done
  /\ Transition(o, "validating", "load")
  /\ UNCHANGED <<lease, claimed, rows, report, completed, posted, faults>>

Completes(o, verdict, how) ==
  completed' = completed \cup {[by |-> o, status |-> verdict, how |-> how]}

\* validation.Load: no file, a file that does not parse or does not validate,
\* or a list of checks.  Without checks the stage ends with a note.
LoadFile(o) ==
  /\ At(o, "load") /\ ~own[o].done
  /\ \/ GoTo(o, "check") /\ UNCHANGED completed
     \/ /\ own' = [own EXCEPT ![o].pc = "list", ![o].read.note = TRUE]
        /\ Completes(o, "skipped", "no file") \/ Completes(o, "error", "invalid file")
  /\ UNCHANGED <<status, lease, claimed, rows, report, posted, faults>>

\* Runner.Run: the next check unless the context is done, and runCheck's reading
\* of how it ended; one killed with the context is an error.
RunCheck(o) ==
  /\ At(o, "check") /\ ~own[o].done
  /\ Len(own[o].mem) < Checks
  /\ \E r \in CheckStatuses :
       own' = [own EXCEPT ![o].pc = "insert", ![o].mem = Append(@, r)]
  /\ UNCHANGED <<status, lease, claimed, rows, report, completed, posted, faults>>

\* validation.Store.Insert: the first recording of a check wins.
Insert(c, r) == rows' = [rows EXCEPT ![c] = IF @ = NoRow THEN r ELSE @]

\* The observer: the result is stored, then announced.
InsertCheck(o) ==
  /\ At(o, "insert")
  /\ LET c == Len(own[o].mem) IN
       \/ ~own[o].done /\ Insert(c, own[o].mem[c])
       \/ own[o].done /\ UNCHANGED rows
  /\ IF own[o].done THEN GoTo(o, "failed") ELSE GoTo(o, "check")
  /\ UNCHANGED <<status, lease, claimed, report, completed, posted, faults>>

Overall(mem) ==
  IF \E i \in DOMAIN mem : mem[i] = "failed" THEN "failed"
  ELSE IF \E i \in DOMAIN mem : mem[i] # "passed" THEN "error"
  ELSE "passed"

\* Mutant of CompleteValidation: an interrupted run is summed up like a whole
\* one.
CompleteInterrupted(o) ==
  /\ At(o, "check")
  /\ Len(own[o].mem) = Checks \/ own[o].done
  /\ Completes(o, Overall(own[o].mem), "ran")
  /\ GoTo(o, "list")
  /\ UNCHANGED <<status, lease, claimed, rows, report, posted, faults>>

\* Every check ran and the context is still good.
CompleteValidation(o) ==
  /\ At(o, "check") /\ ~own[o].done
  /\ Len(own[o].mem) = Checks
  /\ Completes(o, Overall(own[o].mem), "ran")
  /\ GoTo(o, "list")
  /\ UNCHANGED <<status, lease, claimed, rows, report, posted, faults>>

\* drive, for a task it finds validating: the checks are not run again.
Recover(o) ==
  /\ At(o, "recover") /\ ~own[o].done
  /\ Completes(o, "error", "recovered")
  /\ own' = [own EXCEPT ![o].pc = "list", ![o].read.note = TRUE]
  /\ UNCHANGED <<status, lease, claimed, rows, report, posted, faults>>

-----------------------------------------------------------------------------
(* generateEvidence, and publishing what it says.                          *)

ListResults(o) ==
  /\ At(o, "list") /\ ~own[o].done
  /\ own' = [own EXCEPT ![o].pc = "generate", ![o].read.by = o,
                        ![o].read.trusted = rows, ![o].read.claimed = claimed]
  /\ UNCHANGED <<status, lease, claimed, rows, report, completed, posted, faults>>

\* Mutant of InsertReport: a later report replaces the first.
ReplaceReport(o) ==
  /\ At(o, "generate") /\ ~own[o].done
  /\ report' = own[o].read
  /\ GoTo(o, "publish")
  /\ UNCHANGED <<status, lease, claimed, rows, completed, posted, faults>>

\* evidence.Store.Insert: one report per attempt, the first wins.
InsertReport(o) ==
  /\ At(o, "generate") /\ ~own[o].done
  /\ report' = IF report = NoReport THEN own[o].read ELSE report
  /\ GoTo(o, "publish")
  /\ UNCHANGED <<status, lease, claimed, rows, completed, posted, faults>>

ToPublishing(o) ==
  /\ At(o, "publish") /\ ~own[o].done
  /\ Transition(o, "publishing", "conclude")
  /\ UNCHANGED <<lease, claimed, rows, report, completed, posted, faults>>

Trusted(r) == {r.trusted[c] : c \in CheckIds} \ {NoRow}

\* Mutant of checkConclusion: what the agent claims counts as measured.
ConclusionFromClaims(r) ==
  IF "failed" \in Trusted(r) THEN "failure"
  ELSE IF Trusted(r) \cup r.claimed = {"passed"} THEN "success"
  ELSE "neutral"

\* checkConclusion looks at the measured results only.
checkConclusion(r) ==
  IF "failed" \in Trusted(r) THEN "failure"
  ELSE IF Trusted(r) = {"passed"} THEN "success"
  ELSE "neutral"

\* storedReport: the publishing owner reads the report once, into memory.  It
\* has the worktree, its own or one left on its host, or finds the branch pushed;
\* one that has neither posts nothing and fails the task (see Publish).
storedReport(o) ==
  /\ At(o, "conclude") /\ ~own[o].done
  /\ report # NoReport
  /\ own' = [own EXCEPT ![o].pc = "post", ![o].read = report]
  /\ UNCHANGED <<status, lease, claimed, rows, report, completed, posted, faults>>

\* The check run of the report it read; the comment repeats the conclusion.  No
\* fence stands before the posting: an owner whose lease has lapsed posts too.
Conclude(o) ==
  /\ At(o, "post") /\ ~own[o].done
  /\ posted' = posted \cup {checkConclusion(own[o].read)}
  /\ GoTo(o, "review")
  /\ UNCHANGED <<status, lease, claimed, rows, report, completed, faults>>

ToReview(o) ==
  /\ At(o, "review") /\ ~own[o].done /\ lease = o
  /\ status' = "awaiting_review"
  /\ Leave(o)
  /\ UNCHANGED <<claimed, rows, report, completed, posted, faults>>

-----------------------------------------------------------------------------

Next ==
  \/ LeaseLapses
  \/ \E o \in Owners :
       \/ Claim(o) \/ CtxDone(o) \/ Abandon(o)
       \/ ToValidating(o) \/ LoadFile(o) \/ RunCheck(o) \/ InsertCheck(o)
       \/ CompleteValidation(o) \/ Recover(o)
       \/ ListResults(o) \/ InsertReport(o) \/ ToPublishing(o)
       \/ storedReport(o) \/ Conclude(o) \/ ToReview(o)

Spec == Init /\ [][Next]_vars

-----------------------------------------------------------------------------
(* Properties.                                                             *)

\* runner/executor.go, runTrustedValidation: a validation.completed event says
\* "passed" only if every declared check ran to its end and its stored result is
\* a pass, although the run may be interrupted between two checks and other
\* owners may work on the attempt.
PassedMeansAllPassed ==
  \A e \in completed : e.status = "passed" =>
    \A c \in CheckIds : rows[c] = "passed"

\* runner/executor.go, generateEvidence, with runner/publish.go, checkConclusion:
\* when the stored report is of the owner that ran the checks, the pull request
\* shows what that owner announced, whatever the agent claimed and whoever
\* publishes it, an owner that has lost its lease included.
VerdictPublished ==
  \A e \in completed : (e.how # "recovered" /\ report.by = e.by) =>
    posted \subseteq { CASE e.status = "passed" -> "success"
                         [] e.status = "failed" -> "failure"
                         [] OTHER -> "neutral" }

\* evidence/store.go ("replayed generation is a no-op, first wins"): owners that
\* publish the attempt, one after the other or, when a lease has lapsed, at the
\* same time, never show different conclusions.
OneConclusion == Cardinality(posted) <= 1

\* runner/executor.go, drive: "record error, never a pass".  A task whose
\* validation was cut off by the death of its owner is not shown as a success.
NeverAPass ==
  (\E e \in completed : e.how = "recovered" /\ e.by = report.by) => "success" \notin posted
=============================================================================
