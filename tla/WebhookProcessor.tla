-------------------------- MODULE WebhookProcessor --------------------------
(***************************************************************************)
(* GitHub deliveries turned into task commands:                            *)
(* apps/api/internal/github/webhook.go (ServeHTTP), store.go               *)
(* (RecordDelivery, MarkDelivery), process.go (process, handleIssueComment,*)
(* handlePullRequest, createTriggerCheckRun) and revise.go (handleRevise). *)
(*                                                                         *)
(* Every delivery is handled by a goroutine of its own; each database or   *)
(* GitHub call of it is a step, so handlers interleave between a lookup    *)
(* and the write that relies on it.  GitHub may send a delivery again, two *)
(* deliveries may carry one comment, calls fail and the process may die.   *)
(***************************************************************************)
EXTENDS TaskRow

CONSTANTS
  TaskIds, Issues, MaxAttempts,  \* as in TaskStore
  Comments,    \* GitHub comment ids
  Commits,     \* commit ids
  Deliveries,  \* X-GitHub-Delivery ids
  CommandOf,   \* what each delivery carries
  Histories,   \* the sets of deliveries GitHub may come to send
  MaxNotes,    \* bound on the notes kept in a task's timeline
  MaxTrouble   \* bound on redeliveries, cancellations, failed calls, lost
               \* answers and deaths of the process, together

\* allowed is FALSE for a comment that is answered before it touches a task:
\* unknown verb, wrong place, disabled repository, commenter without access.
Command ==
  [verb : {"run"}, issue : Issues, comment : Comments, allowed : BOOLEAN]
    \cup
  [verb : {"revise"}, task : TaskIds, comment : Comments, allowed : BOOLEAN]
    \cup
  [verb : {"closed"}, task : TaskIds, merged : BOOLEAN]

ASSUME WebhookAssumption ==
  /\ CommandOf \in [Deliveries -> Command]
  /\ Histories \subseteq SUBSET Deliveries
  /\ {MaxNotes, MaxTrouble} \subseteq Nat

VARIABLES
  tasks,    \* the task store
  prs,      \* the pull request of each task's branch, on GitHub
  ledger,   \* github_webhook_deliveries.processing_status, "none" without a row
  proc,     \* the goroutine of each delivery
  replies,  \* the replies each delivery drew: refusals and acknowledgements
  sent,     \* the deliveries of this history
  trouble

vars == <<tasks, prs, ledger, proc, replies, sent, trouble>>

\* revise:<comment> and pull_request:<number>:closed.
CommandKeys ==
  ({"revise"} \X Comments) \cup ({"closed"} \X TaskIds)

\* The store's empty idempotency key is none of them.
ASSUME CommandKeysAssumption == NoKey \notin CommandKeys

\* A branch is named after its task and a check run after its delivery.
Store == INSTANCE TaskStore WITH
  Keys <- CommandKeys, Values <- Comments \cup Commits \cup TaskIds \cup Deliveries

Idle == [pc |-> "idle", task |-> NoValue, status |-> "none", outcome |-> "none"]

Init ==
  /\ tasks = << >>
  /\ prs = [t \in TaskIds |-> "none"]
  /\ ledger = [d \in Deliveries |-> "none"]
  /\ proc = [d \in Deliveries |-> Idle]
  /\ replies = [d \in Deliveries |-> << >>]
  /\ sent \in Histories
  /\ trouble = 0

Trouble == trouble < MaxTrouble /\ trouble' = trouble + 1

-----------------------------------------------------------------------------
(* GitHub, the reviewers and the runners.                                  *)

outside == <<ledger, proc, replies>>

\* provisionWorkspace: the first attempt records base and branch, a revision
\* keeps them.
ProvisionedRow(r, t, commit) ==
  IF Len(r.attempts) = 1 THEN AttemptBaseRow(EnsuredRow(r, commit, t), 1, commit)
                         ELSE r

\* The row a runner leaves in publishing: a handler cannot tell the stages of an
\* attempt apart, so they are one step.
DrivenRow(r, t, commit) ==
  LET To(status, row) == applyTransition(row, Params(status, NoKey, 0))
  IN To("publishing", To("validating", To("executing", To("planning",
       To("provisioning", ProvisionedRow(r, t, commit))))))

\* A runner drives a queued task to publishing and opens its pull request.
RunnerDrives(t) ==
  /\ tasks[t].status = "queued"
  /\ \E v \in Commits : Store!Put(t, DrivenRow(tasks[t], t, v))
  /\ prs' = [prs EXCEPT ![t] = IF @ = "none" THEN "open" ELSE @]
  /\ UNCHANGED <<outside, trouble>>

\* It hands the published task over for review.
RunnerFinishes(t) ==
  /\ tasks[t].status = "publishing"
  /\ Store!Transition(t, "awaiting_review", NoKey, 0)
  /\ UNCHANGED <<prs, outside, trouble>>

\* A reviewer merges or closes the pull request.
CloseRequest(t, how) ==
  /\ prs[t] = "open"
  /\ prs' = [prs EXCEPT ![t] = how]
  /\ UNCHANGED <<tasks, outside, trouble>>

ApiCancel(t) ==
  /\ Trouble
  /\ Store!Cancel(t)
  /\ UNCHANGED <<prs, outside>>

-----------------------------------------------------------------------------
(* Receiving a delivery.                                                   *)

\* GitHub sends d only for something that happened there.
Happened(d) ==
  LET c == CommandOf[d]
  IN CASE c.verb = "run"    -> TRUE
       [] c.verb = "revise" -> prs[c.task] # "none"
       [] c.verb = "closed" -> prs[c.task] = IF c.merged THEN "merged" ELSE "closed"

\* Mutant of RecordDelivery: a delivery id already in the ledger is taken again.
RecordAnyDelivery(d) == TRUE

\* INSERT ... ON CONFLICT (github_delivery_id) DO NOTHING inserted a row.
RecordDelivery(d) == ledger[d] = "none"

\* ServeHTTP: a recorded delivery is dispatched, a duplicate is dropped.
ServeHTTP(d) ==
  /\ d \in sent /\ Happened(d)
  /\ IF ledger[d] = "none" THEN UNCHANGED trouble ELSE Trouble
  /\ IF RecordDelivery(d)
     THEN /\ ledger' = [ledger EXCEPT ![d] = "pending"]
          /\ proc' = [proc EXCEPT ![d] = [Idle EXCEPT !.pc =
               IF CommandOf[d].verb = "closed" THEN "lookup" ELSE "guard"]]
     ELSE UNCHANGED <<ledger, proc>>
  /\ UNCHANGED <<tasks, prs, replies>>

\* A delivery whose row was written for nobody: no goroutine was started.
Lost == [Idle EXCEPT !.pc = "lost"]

\* RecordDelivery returns an error, or the request is over: 500 and no Dispatch.  The
\* insert may have committed all the same, and then every redelivery is a duplicate.
RecordFails(d) ==
  /\ d \in sent /\ Happened(d) /\ ledger[d] = "none"
  /\ Trouble
  /\ \/ UNCHANGED <<ledger, proc>>
     \/ /\ ledger' = [ledger EXCEPT ![d] = "pending"]
        /\ proc' = [proc EXCEPT ![d] = Lost]
  /\ UNCHANGED <<tasks, prs, replies>>

-----------------------------------------------------------------------------
(* Handling it.                                                            *)

\* The rest of the world during a step of a handler.
still == <<prs, ledger, trouble>>

Goto(d, p) == proc' = [proc EXCEPT ![d] = p]

At(d, pc) == [proc[d] EXCEPT !.pc = pc]

Done(d, outcome) == [proc[d] EXCEPT !.pc = "mark", !.outcome = outcome]

\* The checks of handleIssueComment that precede any look at tasks.
Guard(d) ==
  /\ proc[d].pc = "guard"
  /\ Goto(d, At(d, IF CommandOf[d].allowed THEN "lookup" ELSE "refuse"))
  /\ UNCHANGED <<tasks, replies, still>>

\* ActiveTaskForIssue.
ActiveTaskForIssue(issue) ==
  {t \in DOMAIN tasks : tasks[t].issue = issue /\ ~Terminal(tasks[t].status)}

LookupIssue(d) ==
  /\ proc[d].pc = "lookup" /\ CommandOf[d].verb = "run"
  /\ Goto(d, At(d, IF ActiveTaskForIssue(CommandOf[d].issue) = {}
                   THEN "create" ELSE "refuse"))
  /\ UNCHANGED <<tasks, replies, still>>

\* Create, or ErrActiveTaskExists after losing a race for the issue.
CreateTask(d) ==
  LET c == CommandOf[d]
  IN /\ proc[d].pc = "create"
     /\ \/ \E t \in TaskIds :
             /\ Store!Create(t, c.issue, c.comment)
             /\ Goto(d, [At(d, "check_run") EXCEPT !.task = t])
        \/ /\ ~Store!IssueFree(c.issue)
           /\ Goto(d, At(d, "relookup"))
           /\ UNCHANGED tasks
     /\ UNCHANGED <<replies, still>>

\* The winner's task is named in the reply; if it ended meanwhile, d fails.
Relookup(d) ==
  /\ proc[d].pc = "relookup"
  /\ Goto(d, IF ActiveTaskForIssue(CommandOf[d].issue) = {}
             THEN Done(d, "failed") ELSE At(d, "refuse"))
  /\ UNCHANGED <<tasks, replies, still>>

\* TaskForBranch: the row is read here and used in later steps.
TaskForBranch(t) == t \in DOMAIN tasks /\ tasks[t].branch = t

LookupRevised(d) ==
  LET t == CommandOf[d].task
  IN /\ proc[d].pc = "lookup" /\ CommandOf[d].verb = "revise"
     /\ Goto(d, IF TaskForBranch(t)
                THEN [At(d, "attempts") EXCEPT !.task = t,
                                               !.status = tasks[t].status]
                ELSE At(d, "refuse"))
     /\ UNCHANGED <<tasks, replies, still>>

\* Some attempt was triggered by the comment.
Attempted(t, comment) ==
  \E a \in DOMAIN tasks[t].attempts : tasks[t].attempts[a].comment = comment

\* Attempts: a redelivered command is ignored, a task outside review refused, by
\* the status LookupRevised read.
CheckAttempts(d) ==
  /\ proc[d].pc = "attempts"
  /\ Goto(d, IF Attempted(proc[d].task, CommandOf[d].comment)
             THEN Done(d, "ignored")
             ELSE At(d, IF proc[d].status \in PhaseReview
                        THEN "revise" ELSE "refuse"))
  /\ UNCHANGED <<tasks, replies, still>>

\* RequestRevision, after the feedback has been gathered from GitHub.
Revise(d) ==
  LET t == proc[d].task
      key == <<"revise", CommandOf[d].comment>>
      outcome == RevisionOutcome(tasks[t], MaxAttempts, key)
  IN /\ proc[d].pc = "revise"
     /\ \/ /\ \E v \in Commits :
                Store!RequestRevision(t, key, CommandOf[d].comment, v)
           /\ Goto(d, At(d, "check_run"))
        \/ /\ outcome # "applied"
           /\ Goto(d, IF outcome = "replayed" THEN Done(d, "ignored")
                                              ELSE At(d, "refuse"))
           /\ UNCHANGED tasks
     /\ UNCHANGED <<replies, still>>

\* handlePullRequest up to the transition: only a task read in review goes on.
LookupClosed(d) ==
  LET t == CommandOf[d].task
  IN /\ proc[d].pc = "lookup" /\ CommandOf[d].verb = "closed"
     /\ Goto(d, IF TaskForBranch(t) /\ tasks[t].status \in PhaseReview
                THEN [At(d, "finalize") EXCEPT !.task = t]
                ELSE Done(d, "ignored"))
     /\ UNCHANGED <<tasks, replies, still>>

\* The transition: merged completes, closed unmerged cancels.
Finalize(d) ==
  LET t == proc[d].task
      to == IF CommandOf[d].merged THEN "completed" ELSE "cancelled"
      key == <<"closed", t>>
      outcome == TransitionOutcome(tasks[t], Params(to, key, 0))
  IN /\ proc[d].pc = "finalize"
     /\ \/ /\ Store!Transition(t, to, key, 0)
           /\ Goto(d, Done(d, "processed"))
        \/ /\ outcome # "applied"
           /\ Goto(d, Done(d, IF outcome = "replayed" THEN "processed" ELSE "ignored"))
           /\ UNCHANGED tasks
     /\ UNCHANGED <<replies, still>>

-----------------------------------------------------------------------------
(* Answering: a refusal, or the side effects after the durable task.       *)

Reply(d, kind) == replies' = [replies EXCEPT ![d] = Append(@, kind)]

Refuse(d) ==
  /\ proc[d].pc = "refuse"
  /\ Reply(d, "refused")
  /\ Goto(d, Done(d, "processed"))
  /\ UNCHANGED <<tasks, still>>

\* createTriggerCheckRun: CreateCheckRun on GitHub, then RecordTriggerCheckRun;
\* without an active attempt the record fails and is only logged.
CreateCheckRun(d) ==
  /\ proc[d].pc = "check_run"
  /\ Goto(d, At(d, "check_record"))
  /\ UNCHANGED <<tasks, replies, still>>

RecordCheckRun(d) ==
  /\ proc[d].pc = "check_record"
  /\ \/ Store!RecordTriggerCheckRun(proc[d].task, d)
     \/ ActiveAttempts(tasks[proc[d].task]) = {} /\ UNCHANGED tasks
  /\ Goto(d, At(d, "check_event"))
  /\ UNCHANGED <<replies, still>>

\* appendTaskEvent, best effort.  No step reads the event, so the ones past
\* MaxNotes are left out.
AppendTaskEvent(d, pc, next) ==
  LET r == tasks[proc[d].task]
      notes == {i \in DOMAIN r.log : r.log[i].type = "note"}
      kept == ActiveAttempts(r) # {} /\ Cardinality(notes) < MaxNotes
  IN /\ proc[d].pc = pc
     /\ IF kept THEN Store!AppendEvent(proc[d].task) ELSE UNCHANGED tasks
     /\ Goto(d, next)
     /\ UNCHANGED <<replies, still>>

CheckRunEvent(d) == AppendTaskEvent(d, "check_event", At(d, "ack"))

Ack(d) ==
  /\ proc[d].pc = "ack"
  /\ Reply(d, "queued")
  /\ Goto(d, At(d, "ack_event"))
  /\ UNCHANGED <<tasks, still>>

AckEvent(d) == AppendTaskEvent(d, "ack_event", Done(d, "processed"))

\* MarkDelivery, under a deadline of its own.
Mark(d) ==
  /\ proc[d].pc = "mark"
  /\ ledger' = [ledger EXCEPT ![d] = proc[d].outcome]
  /\ Goto(d, Idle)
  /\ UNCHANGED <<tasks, prs, replies, trouble>>

-----------------------------------------------------------------------------
(* Failures.                                                               *)

Before == {"guard", "lookup", "create", "relookup", "attempts", "revise",
           "finalize", "refuse"}
After  == {"check_run", "check_record", "check_event", "ack", "ack_event"}

\* Mutant of CallFails: a failed handler leaves without touching the ledger.
CallFailsUnmarked(d) ==
  /\ proc[d].pc \in Before \cup After
  /\ Trouble
  /\ Goto(d, Idle)
  /\ UNCHANGED <<tasks, prs, ledger, replies>>

\* A call fails, or the 30 seconds of the handler are over: before the task is
\* durable the delivery fails, afterwards the step is skipped.
CallFails(d) ==
  /\ proc[d].pc \in Before \cup After
  /\ Trouble
  /\ Goto(d, CASE proc[d].pc \in Before        -> Done(d, "failed")
               [] proc[d].pc = "check_run"    -> At(d, "ack")
               [] proc[d].pc = "check_record" -> At(d, "check_event")
               [] proc[d].pc = "check_event"  -> At(d, "ack")
               [] proc[d].pc \in {"ack", "ack_event"} -> Done(d, "processed"))
  /\ UNCHANGED <<tasks, prs, ledger, replies>>

\* The write of the handler commits, and its acknowledgement is lost.
AckLost(d) ==
  LET c == CommandOf[d]
  IN /\ \/ /\ proc[d].pc = "create"
           /\ \E t \in TaskIds : Store!Create(t, c.issue, c.comment)
        \/ /\ proc[d].pc = "revise"
           /\ \E v \in Commits : Store!RequestRevision(
                proc[d].task, <<"revise", c.comment>>, c.comment, v)
        \/ /\ proc[d].pc = "finalize"
           /\ Store!Transition(proc[d].task,
                IF c.merged THEN "completed" ELSE "cancelled",
                <<"closed", proc[d].task>>, 0)
     /\ Trouble
     /\ Goto(d, Done(d, "failed"))
     /\ UNCHANGED <<prs, ledger, replies>>

\* A reply is posted, and the answer to the call is lost.
ReplyLost(d) ==
  /\ \/ /\ proc[d].pc = "refuse"
        /\ Reply(d, "refused")
        /\ Goto(d, Done(d, "failed"))
     \/ /\ proc[d].pc = "ack"
        /\ Reply(d, "queued")
        /\ Goto(d, Done(d, "processed"))
  /\ Trouble
  /\ UNCHANGED <<tasks, prs, ledger>>

\* A goroutine that ended without an outcome.
Gone == [Idle EXCEPT !.pc = "gone"]

\* The ledger update itself fails.
MarkFails(d) ==
  /\ proc[d].pc = "mark" /\ Trouble
  /\ Goto(d, Gone)
  /\ UNCHANGED <<tasks, prs, ledger, replies>>

\* The process dies with its goroutines.
Crash ==
  /\ \E d \in Deliveries : proc[d].pc \notin {"idle", "gone", "lost"}
  /\ Trouble
  /\ proc' = [d \in Deliveries |-> IF proc[d].pc \in {"idle", "lost"} THEN proc[d] ELSE Gone]
  /\ UNCHANGED <<tasks, prs, ledger, replies>>

-----------------------------------------------------------------------------
Handle(d) ==
  \/ Guard(d) \/ LookupIssue(d) \/ CreateTask(d) \/ Relookup(d)
  \/ LookupRevised(d) \/ CheckAttempts(d) \/ Revise(d)
  \/ LookupClosed(d) \/ Finalize(d)
  \/ Refuse(d) \/ CreateCheckRun(d) \/ RecordCheckRun(d) \/ CheckRunEvent(d)
  \/ Ack(d) \/ AckEvent(d) \/ Mark(d)

Next ==
  /\ \/ \E t \in DOMAIN tasks :
          \/ RunnerDrives(t) \/ RunnerFinishes(t) \/ ApiCancel(t)
          \/ \E how \in {"merged", "closed"} : CloseRequest(t, how)
     \/ \E d \in Deliveries :
          \/ ServeHTTP(d) \/ RecordFails(d) \/ Handle(d)
          \/ CallFails(d) \/ AckLost(d) \/ ReplyLost(d) \/ MarkFails(d)
     \/ Crash
  /\ UNCHANGED sent

Spec == Init /\ [][Next]_vars

-----------------------------------------------------------------------------
(* Properties.                                                             *)

\* Handlers, ledger and replies are well formed.
TypeOK ==
  /\ Store!TypeOK
  /\ prs \in [TaskIds -> {"none", "open", "merged", "closed"}]
  /\ ledger \in [Deliveries -> {"none", "pending", "processed", "ignored", "failed"}]
  /\ \A d \in Deliveries :
       /\ proc[d].pc \in Before \cup After \cup {"idle", "mark", "gone", "lost"}
       /\ proc[d].pc \in {"attempts", "revise", "finalize"} \cup After
            => proc[d].task \in DOMAIN tasks
       /\ \A i \in DOMAIN replies[d] : replies[d][i] \in {"refused", "queued"}

CommentOf(d) == CommandOf[d].comment

Commands(verb) == {d \in Deliveries : CommandOf[d].verb = verb}

OneTaskPerDelivery ==
  \A d \in Commands("run") :
    Cardinality({t \in DOMAIN tasks :
      tasks[t].attempts[1].comment = CommentOf(d)}) <= 1

\* github/revise.go, handleRevise and RequestRevision: one revise comment gives a
\* task at most one attempt, however many deliveries carry it and however long
\* one of them waits between its checks and its write.
OneAttemptPerComment ==
  \A t \in DOMAIN tasks, a, b \in 1..MaxAttempts :
    /\ {a, b} \subseteq DOMAIN tasks[t].attempts
    /\ a # b
    => tasks[t].attempts[a].comment # tasks[t].attempts[b].comment

AnsweredOnce ==
  \A d \in Deliveries : Len(replies[d]) <= IF ledger[d] = "ignored" THEN 0 ELSE 1

\* github/webhook.go, ServeHTTP, with process.go and revise.go: a redelivered run
\* command never starts a second task, even after the first one has ended; a
\* command is answered at most once, and one ignored as a replay not at all.
RedeliveryHarmless == OneTaskPerDelivery /\ AnsweredOnce

\* task/store.go, RequestRevision: "a repeated command must never draw a limit
\* reply"; a comment that got its attempt is never refused.
AcceptedNotRefused ==
  [][\A d \in Commands("revise") :
       CommandOf[d].task \in DOMAIN tasks
         /\ Attempted(CommandOf[d].task, CommentOf(d)) =>
       (proc[d].pc = "revise" => proc'[d].pc # "refuse")]_vars

\* A goroutine works on d.
Tended(d) == proc[d].pc \in Before \cup After \cup {"mark"}

\* github/process.go, process: "ledger update must land ... else row stuck pending
\* forever", with webhook.go, ServeHTTP.  A handler that fails half way still takes
\* its delivery out of pending: a row is pending with nobody at work on it only where
\* the handler died or could not write, or where the row was inserted for nobody; and
\* nobody works on a delivery that has its outcome, however often it is sent.
PendingIsHandled ==
  \A d \in Deliveries :
    (ledger[d] = "pending") <=> (Tended(d) \/ proc[d].pc \in {"gone", "lost"})
=============================================================================
