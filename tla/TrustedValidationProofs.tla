---------------------- MODULE TrustedValidationProofs -----------------------
(***************************************************************************)
(* Proofs about TrustedValidation, for every set of owners, number of      *)
(* checks, claims of the agent and number of faults.                       *)
(***************************************************************************)
EXTENDS TrustedValidation, FiniteSetTheorems, TLAPS

-----------------------------------------------------------------------------
(* The inductive invariant.                                                *)

Rows == [CheckIds -> CheckStatuses \cup {NoRow}]

Reports ==
  [by : Owners \cup {NoOwner}, trusted : Rows, claimed : SUBSET Claims,
   note : BOOLEAN]

Pcs == {"idle", "agent_done", "load", "check", "insert", "failed", "recover",
        "list", "generate", "publish", "conclude", "post", "review"}

Events ==
  [by : Owners, status : {"passed", "failed", "error", "skipped"},
   how : {"ran", "no file", "invalid file", "recovered"}]

OwnerStates ==
  [pc : Pcs, done : BOOLEAN, mem : Seq(CheckStatuses), read : Reports]

TypeOK ==
  /\ status \in {"executing", "validating", "publishing", "awaiting_review"}
  /\ lease \in Owners \cup {NoOwner}
  /\ own \in [Owners -> OwnerStates]
  /\ claimed \in SUBSET Claims
  /\ rows \in Rows
  /\ report \in Reports
  /\ completed \in SUBSET Events
  /\ posted \in SUBSET {"success", "failure", "neutral"}
  /\ faults \in Nat

\* The owner is between its transition to validating and the end of its checks.
RunsChecks(o) == own[o].pc \in {"load", "check", "insert"}

\* The live lease says which status the task has.
LeaseOK ==
  \A o \in Owners : lease = o =>
    /\ own[o].pc # "idle"
    /\ own[o].pc = "agent_done" => status = "executing"
    /\ own[o].pc \in {"load", "check", "insert", "failed", "recover", "list",
                      "generate", "publish"} => status = "validating"
    /\ own[o].pc \in {"conclude", "post", "review"} => status = "publishing"

\* Until the first transition nobody has validated anything.
BeforeOK ==
  status = "executing" =>
    /\ \A o \in Owners :
         own[o].pc \in {"idle", "agent_done"} /\ own[o].mem = << >>
    /\ rows = [c \in CheckIds |-> NoRow]
    /\ report.by = NoOwner /\ completed = {}

\* How many of the measured results are stored: all but the one in hand.
Stored(o) == IF own[o].pc = "insert" THEN Len(own[o].mem) - 1 ELSE Len(own[o].mem)

\* The rows are what the run has measured so far.
RowsOf(o) ==
  /\ own[o].pc = "load" => own[o].mem = << >>
  /\ Len(own[o].mem) <= Checks /\ Stored(o) >= 0
  /\ \A c \in CheckIds :
       rows[c] = IF c <= Stored(o) THEN own[o].mem[c] ELSE NoRow

\* Only one owner ever runs checks; what it has measured is what is stored, and
\* nobody else has announced or reported results.
RunOf(o) ==
  /\ \A q \in Owners : RunsChecks(q) => q = o
  /\ report.by # o
  /\ \A e \in completed : e.how = "recovered"
  /\ RowsOf(o)

RunOK == \A o \in Owners : RunsChecks(o) => RunOf(o)

\* The conclusion that a verdict announces.
ConclusionOf(verdict) ==
  CASE verdict = "passed" -> "success"
    [] verdict = "failed" -> "failure"
    [] OTHER -> "neutral"

\* The conclusion the stored rows call for.
RowsConclusion == checkConclusion([trusted |-> rows])

\* What the owner of the run announced agrees with the rows, and so do its reports.
AnnouncedOf(e) ==
  /\ e.status = "passed" => e.how = "ran"
  /\ e.how = "recovered" => e.status = "error"
  /\ e.how # "recovered" =>
       /\ \A o \in Owners : ~RunsChecks(o)
       /\ ConclusionOf(e.status) = RowsConclusion
       /\ e.status = "passed" => \A c \in CheckIds : rows[c] = "passed"
       /\ report.by = e.by => report.trusted = rows
       /\ own[e.by].pc = "generate" => own[e.by].read.trusted = rows

AnnouncedOK == \A e \in completed : AnnouncedOf(e)

\* A report carries its author's name, publishing has one, an owner that posts
\* has read that one, and what is shown is drawn from it.
ReportOK ==
  /\ report.by = NoOwner => report = NoReport
  /\ \A o \in Owners : own[o].pc = "generate" => own[o].read.by = o
  /\ \A o \in Owners : own[o].pc = "publish" => report.by # NoOwner
  /\ \A o \in Owners : own[o].pc = "post" =>
       own[o].read = report /\ report.by # NoOwner
  /\ status \in {"publishing", "awaiting_review"} => report.by # NoOwner
  /\ posted # {} => report.by # NoOwner
  /\ posted \subseteq {checkConclusion(report)}

ValidationInv ==
  TypeOK /\ LeaseOK /\ BeforeOK /\ RunOK /\ AnnouncedOK /\ ReportOK

-----------------------------------------------------------------------------
(* What the actions do to their owner.                                     *)

Becomes(o, pc, mem, read) ==
  /\ own' \in [Owners -> OwnerStates]
  /\ own'[o].pc = pc /\ own'[o].mem = mem /\ own'[o].read = read
  /\ \A q \in Owners : q # o => own'[q] = own[q]

\* An owner that has not begun, or has left.
LEMMA IdleType == NoReport \in Reports /\ Idle \in OwnerStates
BY DEF NoReport, Reports, Rows, Idle, OwnerStates, Pcs

\* Each action moves one owner: where to, with which results, having read what.
LEMMA GoToMoves ==
  ASSUME own \in [Owners -> OwnerStates], NEW o \in Owners, NEW pc \in Pcs,
         GoTo(o, pc)
  PROVE  Becomes(o, pc, own[o].mem, own[o].read)
BY DEF GoTo, Becomes, OwnerStates

LEMMA LeaveMoves ==
  ASSUME own \in [Owners -> OwnerStates], NEW o \in Owners, Leave(o)
  PROVE  Becomes(o, "idle", << >>, NoReport)
BY IdleType DEF Leave, Becomes, Idle

LEMMA ClaimMoves ==
  ASSUME TypeOK, NEW o \in Owners, Claim(o)
  PROVE  \E pc \in Pcs :
           /\ Becomes(o, pc, << >>, NoReport)
           /\ \/ status = "executing" /\ pc = "agent_done"
              \/ status = "validating" /\ pc = "recover"
              \/ status = "publishing" /\ pc = "conclude"
<1> DEFINE pc == CASE status = "executing" -> "agent_done"
                   [] status = "validating" -> "recover"
                   [] status = "publishing" -> "conclude"
<1>1. /\ pc \in Pcs
      /\ \/ status = "executing" /\ pc = "agent_done"
         \/ status = "validating" /\ pc = "recover"
         \/ status = "publishing" /\ pc = "conclude"
  BY DEF TypeOK, Claim, Pcs
<1>2. own' = [own EXCEPT ![o] = [Idle EXCEPT !.pc = pc]]
  BY DEF Claim
<1>3. Becomes(o, pc, << >>, NoReport)
  <2> HIDE DEF pc
  <2>1. Idle \in OwnerStates /\ Idle.mem = << >> /\ Idle.read = NoReport
    BY IdleType DEF Idle
  <2> QED
    BY <1>1, <1>2, <2>1 DEF TypeOK, Becomes, OwnerStates
<1> QED
  BY <1>1, <1>3

LEMMA CtxDoneMoves ==
  ASSUME TypeOK, NEW o \in Owners, CtxDone(o)
  PROVE  Becomes(o, own[o].pc, own[o].mem, own[o].read)
<1>1. own' = [own EXCEPT ![o].done = TRUE]
  BY DEF CtxDone
<1> QED
  BY <1>1 DEF TypeOK, Becomes, OwnerStates

LEMMA ReadMoves ==
  ASSUME own \in [Owners -> OwnerStates], NEW o \in Owners, NEW pc \in Pcs,
         NEW read \in Reports,
         own' = [own EXCEPT ![o] = [own[o] EXCEPT !.pc = pc, !.read = read]]
  PROVE  Becomes(o, pc, own[o].mem, read)
BY DEF Becomes, OwnerStates

\* Loading the file and recovering end in the report with a note.
LEMMA NoteMoves ==
  ASSUME own \in [Owners -> OwnerStates], NEW o \in Owners,
         own' = [own EXCEPT ![o].pc = "list", ![o].read.note = TRUE]
  PROVE  \E read \in Reports : Becomes(o, "list", own[o].mem, read)
<1> DEFINE read == [own[o].read EXCEPT !.note = TRUE]
<1>1. own' = [own EXCEPT ![o] = [own[o] EXCEPT !.pc = "list", !.read = read]]
  BY DEF OwnerStates, Reports
<1>2. read \in Reports /\ "list" \in Pcs
  BY DEF OwnerStates, Reports, Pcs
<1> QED
  BY <1>1, <1>2, ReadMoves

LEMMA RunCheckMoves ==
  ASSUME TypeOK, NEW o \in Owners, RunCheck(o)
  PROVE  \E r \in CheckStatuses :
           Becomes(o, "insert", Append(own[o].mem, r), own[o].read)
<1>1. PICK r \in CheckStatuses :
        own' = [own EXCEPT ![o].pc = "insert", ![o].mem = Append(own[o].mem, r)]
  BY DEF RunCheck
<1>2. Append(own[o].mem, r) \in Seq(CheckStatuses)
  BY DEF TypeOK, OwnerStates
<1> DEFINE mem == Append(own[o].mem, r)
<1>3. mem \in Seq(CheckStatuses)
        /\ own' = [own EXCEPT ![o] = [own[o] EXCEPT !.pc = "insert", !.mem = mem]]
  BY <1>1, <1>2 DEF TypeOK, OwnerStates
<1>4. Becomes(o, "insert", mem, own[o].read)
  <2> HIDE DEF mem
  <2> QED
    BY <1>3 DEF TypeOK, Becomes, OwnerStates, Pcs
<1> QED
  BY <1>4

LEMMA ListMoves ==
  ASSUME TypeOK, NEW o \in Owners, ListResults(o)
  PROVE  \E read \in Reports :
           /\ Becomes(o, "generate", own[o].mem, read)
           /\ read.by = o /\ read.trusted = rows
<1> DEFINE read == [own[o].read EXCEPT !.by = o, !.trusted = rows, !.claimed = claimed]
<1>1. read \in Reports
  BY DEF TypeOK, OwnerStates, Reports
<1>2. read.by = o /\ read.trusted = rows
  BY DEF TypeOK, OwnerStates, Reports
<1>3. own' = [own EXCEPT ![o] = [own[o] EXCEPT !.pc = "generate", !.read = read]]
  <2> DEFINE a == [own EXCEPT ![o].pc = "generate"]
             b == [a EXCEPT ![o].read.by = o]
             c == [b EXCEPT ![o].read.trusted = rows]
  <2>1. own' = [c EXCEPT ![o].read.claimed = claimed]
    BY DEF ListResults
  <2>2. own \in [Owners -> OwnerStates] /\ own[o] \in OwnerStates /\ own[o].read \in Reports
    BY DEF TypeOK, OwnerStates
  <2>3. a = [own EXCEPT ![o] = [own[o] EXCEPT !.pc = "generate"]]
    OBVIOUS
  <2>4. b = [own EXCEPT ![o] = [own[o] EXCEPT !.pc = "generate",
                                               !.read = [own[o].read EXCEPT !.by = o]]]
    BY <2>2, <2>3 DEF OwnerStates
  <2> HIDE DEF a, b
  <2>5. c = [own EXCEPT ![o] = [own[o] EXCEPT !.pc = "generate",
               !.read = [own[o].read EXCEPT !.by = o, !.trusted = rows]]]
    BY <2>2, <2>4 DEF OwnerStates
  <2> HIDE DEF c
  <2> QED
    BY <2>1, <2>2, <2>5 DEF OwnerStates
<1>4. Becomes(o, "generate", own[o].mem, read)
  <2>1. "generate" \in Pcs
    BY DEF Pcs
  <2> QED
    BY <1>1, <1>3, <2>1, ReadMoves DEF TypeOK
<1> QED
  BY <1>1, <1>2, <1>4

-----------------------------------------------------------------------------
(* Steps beside the run, and steps of the run.                             *)

\* Nobody begins, continues or sums up a run of checks, and what is read for a
\* report is what is stored.
OwnersQuiet ==
  /\ \A q \in Owners : RunsChecks(q)' =>
       RunsChecks(q) /\ own'[q].pc = own[q].pc /\ own'[q].mem = own[q].mem
  /\ \A q \in Owners : own'[q].pc = "generate" =>
       \/ own[q].pc = "generate" /\ own'[q].read = own[q].read
       \/ own'[q].read.trusted = rows

ReportQuiet ==
  \/ report' = report
  \/ \E q \in Owners : /\ own[q].pc = "generate"
                       /\ report' = own[q].read /\ report'.by = q

NoRunStep ==
  /\ rows' = rows /\ OwnersQuiet /\ ReportQuiet
  /\ \A e \in completed' :
       e \notin completed => e.how = "recovered" /\ e.status = "error"

\* An owner that moves outside the run disturbs no run.
LEMMA QuietMove ==
  ASSUME NEW o \in Owners, NEW pc, NEW mem, NEW read, Becomes(o, pc, mem, read),
         pc \notin {"load", "check", "insert"},
         pc = "generate" => read.trusted = rows
  PROVE  OwnersQuiet
<1>1. ASSUME NEW q \in Owners, RunsChecks(q)'
      PROVE  RunsChecks(q) /\ own'[q].pc = own[q].pc /\ own'[q].mem = own[q].mem
  BY <1>1 DEF Becomes, RunsChecks
<1>2. ASSUME NEW q \in Owners, own'[q].pc = "generate"
      PROVE  \/ own[q].pc = "generate" /\ own'[q].read = own[q].read
             \/ own'[q].read.trusted = rows
  BY <1>2 DEF Becomes
<1> QED
  BY <1>1, <1>2 DEF OwnersQuiet

\* What a step beside the run leaves alone: the run, and what was announced.
LEMMA RunKept ==
  ASSUME RunOK, NoRunStep
  PROVE  RunOK'
<1> SUFFICES ASSUME NEW o \in Owners, RunsChecks(o)'
             PROVE  RunOf(o)'
  BY DEF RunOK
<1>1. RunsChecks(o) /\ own'[o].pc = own[o].pc /\ own'[o].mem = own[o].mem
  BY DEF NoRunStep, OwnersQuiet
<1>2. RunOf(o)
  BY <1>1 DEF RunOK
<1>3. report'.by # o
  BY <1>1, <1>2 DEF NoRunStep, ReportQuiet, RunOf, RunsChecks
<1>4. \A e \in completed' : e.how = "recovered"
  BY <1>2 DEF NoRunStep, RunOf
<1>5. \A q \in Owners : RunsChecks(q)' => q = o
  BY <1>2 DEF NoRunStep, OwnersQuiet, RunOf
<1>6. RowsOf(o)'
  BY <1>1, <1>2 DEF NoRunStep, RunOf, RowsOf, Stored
<1> QED
  BY <1>3, <1>4, <1>5, <1>6 DEF RunOf

LEMMA AnnouncedKept ==
  ASSUME TypeOK, AnnouncedOK, NoRunStep
  PROVE  AnnouncedOK'
<1> SUFFICES ASSUME NEW e \in completed'
             PROVE  AnnouncedOf(e)'
  BY DEF AnnouncedOK
<1>1. CASE e \notin completed
  BY <1>1 DEF AnnouncedOf, NoRunStep
<1>2. CASE e \in completed
  <2>1. e.by \in Owners /\ AnnouncedOf(e)
    BY <1>2 DEF TypeOK, Events, AnnouncedOK
  <2>2. RowsConclusion' = RowsConclusion
    BY DEF RowsConclusion, NoRunStep
  <2>3. ASSUME e.how # "recovered", report'.by = e.by
        PROVE  report'.trusted = rows
    BY <2>1, <2>3 DEF AnnouncedOf, NoRunStep, ReportQuiet
  <2>4. ASSUME e.how # "recovered", own'[e.by].pc = "generate"
        PROVE  own'[e.by].read.trusted = rows
    BY <2>1, <2>4 DEF AnnouncedOf, NoRunStep, OwnersQuiet
  <2>5. e.how # "recovered" => \A o \in Owners : ~RunsChecks(o)'
    BY <2>1 DEF AnnouncedOf, NoRunStep, OwnersQuiet
  <2> QED
    BY <2>1, <2>2, <2>3, <2>4, <2>5 DEF AnnouncedOf, NoRunStep
<1> QED
  BY <1>1, <1>2

\* A step of the run itself: the verdict is still to come.
LEMMA RunGoesOn ==
  ASSUME RunOK, AnnouncedOK, NEW o \in Owners, RunsChecks(o),
         NEW pc, NEW mem, NEW read, Becomes(o, pc, mem, read),
         report' = report, completed' = completed,
         RunsChecks(o)' => RowsOf(o)'
  PROVE  RunOK' /\ AnnouncedOK'
<1>1. RunOf(o)
  BY DEF RunOK
<1>2. \A q \in Owners : RunsChecks(q)' => q = o
  BY <1>1 DEF RunOf, RunsChecks, Becomes
<1>3. RunOK'
  BY <1>1, <1>2 DEF RunOK, RunOf
<1>4. AnnouncedOK'
  BY <1>1 DEF RunOf, AnnouncedOK, AnnouncedOf
<1> QED
  BY <1>3, <1>4

\* The verdict of the run: it agrees with the rows, which nothing changes any more.
LEMMA RunSummedUp ==
  ASSUME RunOK, AnnouncedOK, NEW o \in Owners, RunsChecks(o),
         NEW mem, NEW read, Becomes(o, "list", mem, read),
         NEW verdict, NEW how, Completes(o, verdict, how),
         rows' = rows, report' = report,
         how # "recovered", verdict = "passed" => how = "ran",
         ConclusionOf(verdict) = RowsConclusion,
         verdict = "passed" => \A c \in CheckIds : rows[c] = "passed"
  PROVE  RunOK' /\ AnnouncedOK'
<1>1. RunOf(o)
  BY DEF RunOK
<1>2. \A q \in Owners : ~RunsChecks(q)'
  BY <1>1 DEF RunOf, RunsChecks, Becomes
<1>3. RunOK'
  BY <1>2 DEF RunOK
<1> DEFINE new == [by |-> o, status |-> verdict, how |-> how]
<1>4. AnnouncedOf(new)'
  <2>1. RowsConclusion' = RowsConclusion
    BY DEF RowsConclusion
  <2>2. own'[o].pc = "list" /\ report'.by # o
    BY <1>1 DEF RunOf, Becomes
  <2> QED
    BY <1>2, <2>1, <2>2 DEF AnnouncedOf
<1>5. ASSUME NEW e \in completed
      PROVE  AnnouncedOf(e)'
  BY <1>1 DEF RunOf, AnnouncedOK, AnnouncedOf
<1>6. completed' = completed \cup {new}
  BY DEF Completes
<1> QED
  BY <1>3, <1>4, <1>5, <1>6 DEF AnnouncedOK

-----------------------------------------------------------------------------
(* Every step keeps the invariant.                                         *)

\* A claim takes up the status it finds.
LEMMA ClaimStep ==
  ASSUME ValidationInv, NEW o \in Owners, Claim(o)
  PROVE  ValidationInv'
<1> USE DEF ValidationInv
<1>1. PICK pc \in Pcs :
        /\ Becomes(o, pc, << >>, NoReport)
        /\ \/ status = "executing" /\ pc = "agent_done"
           \/ status = "validating" /\ pc = "recover"
           \/ status = "publishing" /\ pc = "conclude"
  BY ClaimMoves
<1>2. TypeOK'
  BY <1>1 DEF TypeOK, Claim, At, Becomes
<1>3. LeaseOK'
  BY <1>1 DEF LeaseOK, Claim, At, Becomes
<1>4. BeforeOK'
  BY <1>1 DEF BeforeOK, Claim, At, Becomes
<1>5. OwnersQuiet
  BY <1>1, QuietMove
<1>6. NoRunStep
  BY <1>5 DEF NoRunStep, ReportQuiet, Claim
<1>7. RunOK' /\ AnnouncedOK'
  BY <1>6, RunKept, AnnouncedKept
<1>8. ReportOK'
  BY <1>1 DEF ReportOK, Claim, At, Becomes
<1> QED
  BY <1>2, <1>3, <1>4, <1>7, <1>8

\* A context that ends changes nothing yet.
LEMMA CtxDoneStep ==
  ASSUME ValidationInv, NEW o \in Owners, CtxDone(o)
  PROVE  ValidationInv'
<1> USE DEF ValidationInv
<1>1. Becomes(o, own[o].pc, own[o].mem, own[o].read)
  BY CtxDoneMoves
<1>2. TypeOK'
  BY <1>1 DEF TypeOK, CtxDone, At, Becomes, Fault
<1>3. LeaseOK'
  BY <1>1 DEF LeaseOK, CtxDone, At, Becomes
<1>4. BeforeOK'
  BY <1>1 DEF BeforeOK, CtxDone, At, Becomes
<1>5. OwnersQuiet
  BY <1>1 DEF OwnersQuiet, RunsChecks, Becomes
<1>6. NoRunStep
  BY <1>5 DEF NoRunStep, ReportQuiet, CtxDone
<1>7. RunOK' /\ AnnouncedOK'
  BY <1>6, RunKept, AnnouncedKept
<1>8. ReportOK'
  BY <1>1 DEF ReportOK, CtxDone, At, Becomes
<1> QED
  BY <1>2, <1>3, <1>4, <1>7, <1>8

\* An owner that leaves keeps nothing but what it stored.
LEMMA AbandonStep ==
  ASSUME ValidationInv, NEW o \in Owners, Abandon(o)
  PROVE  ValidationInv'
<1> USE DEF ValidationInv
<1>1. Becomes(o, "idle", << >>, NoReport)
  BY LeaveMoves DEF Abandon, TypeOK
<1>2. TypeOK'
  BY <1>1 DEF TypeOK, Abandon, At, Becomes, Fault, Leave
<1>3. LeaseOK'
  <2>1. lease' # o
    BY ValidationAssumption DEF Abandon, Leave
  <2>2. status' = status \/ lease' = NoOwner
    BY DEF Abandon, Leave
  <2>3. lease' \in {lease, NoOwner}
    BY DEF Abandon, Leave
  <2> QED
    BY <1>1, <2>1, <2>2, <2>3, ValidationAssumption DEF LeaseOK, Becomes
<1>4. BeforeOK'
  BY <1>1 DEF BeforeOK, Abandon, At, Becomes
<1>5. OwnersQuiet
  BY <1>1, QuietMove
<1>6. NoRunStep
  BY <1>5 DEF NoRunStep, ReportQuiet, Abandon
<1>7. RunOK' /\ AnnouncedOK'
  BY <1>6, RunKept, AnnouncedKept
<1>8. ReportOK'
  BY <1>1 DEF ReportOK, Abandon, At, Becomes
<1> QED
  BY <1>2, <1>3, <1>4, <1>7, <1>8

\* The one transition that lets an owner run checks: nobody has run any.
LEMMA ToValidatingStep ==
  ASSUME ValidationInv, NEW o \in Owners, ToValidating(o)
  PROVE  ValidationInv'
<1> USE DEF ValidationInv
<1>1. Becomes(o, "load", own[o].mem, own[o].read)
  BY GoToMoves DEF ToValidating, Transition, TypeOK, Pcs
<1>2. TypeOK'
  BY <1>1 DEF TypeOK, ToValidating, Transition, At, Becomes
<1>3. LeaseOK'
  BY <1>1 DEF LeaseOK, ToValidating, Transition, At, Becomes
<1>4. BeforeOK'
  BY <1>1 DEF BeforeOK, ToValidating, Transition, At, Becomes
<1>5. /\ status = "executing" /\ rows' = rows /\ report' = report
      /\ completed' = completed
  BY DEF ToValidating, Transition, LeaseOK, At
<1>6. RunOf(o)'
  <2>1. \A q \in Owners : RunsChecks(q)' => q = o
    BY <1>1, <1>5 DEF BeforeOK, RunsChecks, Becomes
  <2>2. report'.by # o /\ \A e \in completed' : e.how = "recovered"
    BY <1>5, ValidationAssumption DEF BeforeOK
  <2>3. own'[o].pc = "load" /\ own'[o].mem = << >>
    BY <1>1, <1>5 DEF BeforeOK, Becomes
  <2>4. rows' = [c \in CheckIds |-> NoRow]
    BY <1>5 DEF BeforeOK
  <2>5. RowsOf(o)'
    BY <2>3, <2>4, ValidationAssumption DEF RowsOf, Stored, CheckIds
  <2> QED
    BY <2>1, <2>2, <2>5 DEF RunOf
<1>7. RunOK' /\ AnnouncedOK'
  BY <1>5, <1>6 DEF RunOK, RunOf, AnnouncedOK, AnnouncedOf, BeforeOK
<1>8. ReportOK'
  BY <1>1 DEF ReportOK, ToValidating, Transition, At, Becomes
<1> QED
  BY <1>2, <1>3, <1>4, <1>7, <1>8

\* Without checks to run the rows stay empty, and the verdict is neither good
\* nor bad.
LEMMA LoadFileStep ==
  ASSUME ValidationInv, NEW o \in Owners, LoadFile(o)
  PROVE  ValidationInv'
<1> USE DEF ValidationInv
<1>1. \/ /\ Becomes(o, "check", own[o].mem, own[o].read)
         /\ completed' = completed
      \/ \E read \in Reports :
           /\ Becomes(o, "list", own[o].mem, read)
           /\ Completes(o, "skipped", "no file") \/ Completes(o, "error", "invalid file")
  BY GoToMoves, NoteMoves DEF LoadFile, TypeOK, Pcs
<1>2. TypeOK'
  <2>1. completed' \in SUBSET Events
    <3>1. /\ [by |-> o, status |-> "skipped", how |-> "no file"] \in Events
          /\ [by |-> o, status |-> "error", how |-> "invalid file"] \in Events
      BY DEF Events
    <3> QED
      BY <1>1, <3>1 DEF Completes, TypeOK
  <2> QED
    BY <1>1, <2>1 DEF TypeOK, LoadFile, Becomes
<1>3. LeaseOK'
  BY <1>1 DEF LeaseOK, LoadFile, At, Becomes
<1>4. BeforeOK'
  BY <1>1 DEF BeforeOK, LoadFile, At, Becomes
<1>5. /\ RunsChecks(o) /\ RowsOf(o) /\ own[o].mem = << >> /\ own[o].pc = "load"
      /\ rows' = rows /\ report' = report
  BY DEF LoadFile, At, RunsChecks, RunOK, RunOf, RowsOf
<1>6. RowsConclusion = "neutral" /\ \A c \in CheckIds : rows[c] # "passed"
  <2>1. \A c \in CheckIds : rows[c] = NoRow
    BY <1>5 DEF RowsOf, Stored, CheckIds
  <2>2. Trusted([trusted |-> rows]) = {}
    BY <2>1 DEF Trusted
  <2> QED
    BY <2>1, <2>2 DEF RowsConclusion, checkConclusion, NoRow
<1>7. RunOK' /\ AnnouncedOK'
  <2>1. CASE Becomes(o, "check", own[o].mem, own[o].read) /\ completed' = completed
    <3>1. RowsOf(o)'
      BY <1>5, <2>1 DEF RowsOf, Stored, Becomes
    <3> QED
      BY <1>5, <2>1, <3>1, RunGoesOn
  <2>2. ASSUME NEW read, Becomes(o, "list", own[o].mem, read),
               Completes(o, "skipped", "no file") \/ Completes(o, "error", "invalid file")
        PROVE  RunOK' /\ AnnouncedOK'
    <3>1. ConclusionOf("skipped") = "neutral" /\ ConclusionOf("error") = "neutral"
      BY DEF ConclusionOf
    <3> QED
      BY <1>5, <1>6, <2>2, <3>1, RunSummedUp
  <2> QED
    BY <1>1, <2>1, <2>2
<1>8. ReportOK'
  BY <1>1 DEF ReportOK, LoadFile, At, Becomes
<1> QED
  BY <1>2, <1>3, <1>4, <1>7, <1>8

\* A check that ended is in memory only.
LEMMA RunCheckStep ==
  ASSUME ValidationInv, NEW o \in Owners, RunCheck(o)
  PROVE  ValidationInv'
<1> USE DEF ValidationInv
<1>1. PICK r \in CheckStatuses :
        Becomes(o, "insert", Append(own[o].mem, r), own[o].read)
  BY RunCheckMoves
<1>2. TypeOK'
  BY <1>1 DEF TypeOK, RunCheck, At, Becomes
<1>3. LeaseOK'
  BY <1>1 DEF LeaseOK, RunCheck, At, Becomes
<1>4. BeforeOK'
  BY <1>1 DEF BeforeOK, RunCheck, At, Becomes
<1>5. /\ RunsChecks(o) /\ RowsOf(o) /\ own[o].pc = "check"
      /\ Len(own[o].mem) < Checks /\ own[o].mem \in Seq(CheckStatuses)
      /\ rows' = rows /\ report' = report /\ completed' = completed
  BY DEF RunCheck, At, RunsChecks, RunOK, RunOf, TypeOK, OwnerStates
<1>6. RowsOf(o)'
  <2> DEFINE mem == own[o].mem
  <2>1. own'[o].pc = "insert" /\ own'[o].mem = Append(mem, r)
    BY <1>1 DEF Becomes
  <2>2. /\ Len(Append(mem, r)) = Len(mem) + 1 /\ Len(mem) \in Nat
        /\ \A i \in 1..Len(mem) : Append(mem, r)[i] = mem[i]
    BY <1>5
  <2>3. Stored(o)' = Len(mem) /\ Stored(o) = Len(mem)
    BY <1>5, <2>1, <2>2 DEF Stored
  <2>4. ASSUME NEW c \in CheckIds
        PROVE  rows'[c] = IF c <= Len(mem) THEN Append(mem, r)[c] ELSE NoRow
    BY <1>5, <2>2, <2>3, ValidationAssumption DEF RowsOf, CheckIds
  <2>5. /\ own'[o].pc # "load" /\ Len(own'[o].mem) <= Checks /\ Stored(o)' >= 0
    BY <1>5, <2>1, <2>2, <2>3, ValidationAssumption
  <2>6. \A c \in CheckIds :
          rows'[c] = IF c <= Stored(o)' THEN own'[o].mem[c] ELSE NoRow
    BY <2>1, <2>3, <2>4
  <2> QED
    BY <2>5, <2>6 DEF RowsOf
<1>7. RunOK' /\ AnnouncedOK'
  BY <1>1, <1>5, <1>6, RunGoesOn
<1>8. ReportOK'
  BY <1>1 DEF ReportOK, RunCheck, At, Becomes
<1> QED
  BY <1>2, <1>3, <1>4, <1>7, <1>8

\* The next row is stored, unless the context has ended.
LEMMA InsertCheckStep ==
  ASSUME ValidationInv, NEW o \in Owners, InsertCheck(o)
  PROVE  ValidationInv'
<1> USE DEF ValidationInv
<1>1. Becomes(o, IF own[o].done THEN "failed" ELSE "check", own[o].mem, own[o].read)
  BY GoToMoves DEF InsertCheck, TypeOK, Pcs
<1>2. TypeOK'
  <2>1. rows' \in Rows
    <3> DEFINE c == Len(own[o].mem)
    <3>1. /\ own[o].mem \in Seq(CheckStatuses) /\ c <= Checks /\ c - 1 >= 0
      BY DEF TypeOK, OwnerStates, InsertCheck, At, RunOK, RunOf, RunsChecks, RowsOf, Stored
    <3>2. own[o].mem[c] \in CheckStatuses
      BY <3>1
    <3>3. rows' = rows \/ Insert(c, own[o].mem[c])
      BY DEF InsertCheck
    <3> HIDE DEF c
    <3> QED
      BY <3>2, <3>3 DEF Insert, Rows, TypeOK
  <2> QED
    BY <1>1, <2>1 DEF TypeOK, InsertCheck, Becomes
<1>3. LeaseOK'
  BY <1>1 DEF LeaseOK, InsertCheck, At, Becomes
<1>4. BeforeOK'
  BY <1>1 DEF BeforeOK, InsertCheck, At, Becomes
<1>5. /\ RunsChecks(o) /\ RowsOf(o) /\ own[o].pc = "insert"
      /\ own[o].mem \in Seq(CheckStatuses)
      /\ report' = report /\ completed' = completed
  BY DEF InsertCheck, At, RunsChecks, RunOK, RunOf, TypeOK, OwnerStates
<1>6. RunsChecks(o)' => RowsOf(o)'
  <2> SUFFICES ASSUME RunsChecks(o)'
               PROVE  RowsOf(o)'
    OBVIOUS
  <2> DEFINE n == Len(own[o].mem)
  <2>1. ~own[o].done /\ own'[o].pc = "check" /\ own'[o].mem = own[o].mem
    BY <1>1 DEF RunsChecks, Becomes
  <2>2. n \in CheckIds /\ Stored(o) = n - 1 /\ Stored(o)' = n
    BY <1>5, <2>1, ValidationAssumption DEF RowsOf, Stored, CheckIds
  <2>3. rows' = [rows EXCEPT ![n] = IF rows[n] = NoRow THEN own[o].mem[n] ELSE rows[n]]
    BY <2>1 DEF InsertCheck, Insert
  <2>4. rows[n] = NoRow
    BY <1>5, <2>2 DEF RowsOf, CheckIds
  <2>5. rows \in Rows
    BY DEF TypeOK
  <2>6. ASSUME NEW c \in CheckIds
        PROVE  rows'[c] = IF c <= n THEN own[o].mem[c] ELSE NoRow
    <3>1. CASE c = n
      BY <2>2, <2>3, <2>4, <2>5, <3>1 DEF Rows, CheckIds
    <3>2. CASE c # n
      <4>1. rows'[c] = rows[c]
        BY <2>3, <2>5, <3>2 DEF Rows
      <4> QED
        BY <1>5, <2>2, <3>2, <4>1, ValidationAssumption DEF RowsOf, CheckIds
    <3> QED
      BY <3>1, <3>2
  <2> QED
    BY <1>5, <2>1, <2>2, <2>6, ValidationAssumption DEF RowsOf, CheckIds
<1>7. RunOK' /\ AnnouncedOK'
  BY <1>1, <1>5, <1>6, RunGoesOn
<1>8. ReportOK'
  BY <1>1 DEF ReportOK, InsertCheck, At, Becomes
<1> QED
  BY <1>2, <1>3, <1>4, <1>7, <1>8

\* Overall and checkConclusion read complete rows the same way.
LEMMA OverallAgrees ==
  ASSUME NEW mem, DOMAIN mem = CheckIds,
         \A c \in CheckIds : rows[c] = mem[c] /\ rows[c] \in CheckStatuses
  PROVE  /\ ConclusionOf(Overall(mem)) = RowsConclusion
         /\ Overall(mem) = "passed" => \A c \in CheckIds : rows[c] = "passed"
<1> DEFINE T == {rows[c] : c \in CheckIds}
<1>1. Trusted([trusted |-> rows]) = T
  BY DEF Trusted, CheckStatuses, NoRow
<1>2. RowsConclusion = IF "failed" \in T THEN "failure"
                       ELSE IF T = {"passed"} THEN "success" ELSE "neutral"
  BY <1>1 DEF RowsConclusion, checkConclusion
<1>3. 1 \in CheckIds
  BY ValidationAssumption DEF CheckIds
<1>4. CASE \E c \in CheckIds : mem[c] = "failed"
  <2>1. Overall(mem) = "failed" /\ "failed" \in T
    BY <1>4 DEF Overall
  <2> QED
    BY <1>2, <2>1 DEF ConclusionOf
<1>5. CASE \A c \in CheckIds : mem[c] = "passed"
  <2>1. Overall(mem) = "passed"
    BY <1>5 DEF Overall
  <2>2. T = {"passed"}
    BY <1>3, <1>5
  <2> QED
    BY <1>2, <1>5, <2>1, <2>2 DEF ConclusionOf
<1>6. CASE /\ \A c \in CheckIds : mem[c] # "failed"
           /\ \E c \in CheckIds : mem[c] # "passed"
  <2>1. Overall(mem) = "error"
    BY <1>6 DEF Overall
  <2>2. "failed" \notin T /\ T # {"passed"}
    BY <1>6
  <2> QED
    BY <1>2, <2>1, <2>2 DEF ConclusionOf
<1> QED
  BY <1>4, <1>5, <1>6

\* The verdict is about the rows, which are complete.
LEMMA CompleteValidationStep ==
  ASSUME ValidationInv, NEW o \in Owners, CompleteValidation(o)
  PROVE  ValidationInv'
<1> USE DEF ValidationInv
<1>1. Becomes(o, "list", own[o].mem, own[o].read)
  BY GoToMoves DEF CompleteValidation, TypeOK, Pcs
<1>2. TypeOK'
  <2>1. [by |-> o, status |-> Overall(own[o].mem), how |-> "ran"] \in Events
    BY DEF Events, Overall
  <2>2. completed' \in SUBSET Events
    BY <2>1 DEF CompleteValidation, Completes, TypeOK
  <2> QED
    BY <1>1, <2>2 DEF TypeOK, CompleteValidation, Becomes
<1>3. LeaseOK'
  BY <1>1 DEF LeaseOK, CompleteValidation, At, Becomes
<1>4. BeforeOK'
  BY <1>1 DEF BeforeOK, CompleteValidation, At, Becomes
<1>5. /\ RunsChecks(o) /\ rows' = rows /\ report' = report
      /\ Completes(o, Overall(own[o].mem), "ran")
      /\ \A c \in CheckIds : rows[c] = own[o].mem[c] /\ rows[c] \in CheckStatuses
      /\ DOMAIN own[o].mem = CheckIds
  <2>1. /\ own[o].pc = "check" /\ RunsChecks(o) /\ RowsOf(o)
        /\ Len(own[o].mem) = Checks /\ own[o].mem \in Seq(CheckStatuses)
    BY DEF CompleteValidation, At, RunsChecks, RunOK, RunOf, TypeOK, OwnerStates
  <2>2. \A c \in CheckIds : rows[c] = own[o].mem[c]
    BY <2>1, ValidationAssumption DEF RowsOf, Stored, CheckIds
  <2>3. \A c \in CheckIds : own[o].mem[c] \in CheckStatuses
    BY <2>1 DEF CheckIds
  <2> QED
    BY <2>1, <2>2, <2>3 DEF CompleteValidation, CheckIds
<1>6. /\ ConclusionOf(Overall(own[o].mem)) = RowsConclusion
      /\ Overall(own[o].mem) = "passed" => \A c \in CheckIds : rows[c] = "passed"
  BY <1>5, OverallAgrees
<1>7. RunOK' /\ AnnouncedOK'
  <2> DEFINE verdict == Overall(own[o].mem)
  <2> HIDE DEF verdict
  <2>1. /\ Completes(o, verdict, "ran") /\ ConclusionOf(verdict) = RowsConclusion
        /\ verdict = "passed" => \A c \in CheckIds : rows[c] = "passed"
    BY <1>5, <1>6 DEF verdict
  <2> QED
    BY <1>1, <1>5, <2>1, RunSummedUp
<1>8. ReportOK'
  BY <1>1 DEF ReportOK, CompleteValidation, At, Becomes
<1> QED
  BY <1>2, <1>3, <1>4, <1>7, <1>8

\* A recovered owner announces an error.
LEMMA RecoverStep ==
  ASSUME ValidationInv, NEW o \in Owners, Recover(o)
  PROVE  ValidationInv'
<1> USE DEF ValidationInv
<1>1. PICK read \in Reports : Becomes(o, "list", own[o].mem, read)
  BY NoteMoves DEF Recover, TypeOK
<1>2. TypeOK'
  <2>1. [by |-> o, status |-> "error", how |-> "recovered"] \in Events
    BY DEF Events
  <2>2. completed' \in SUBSET Events
    BY <2>1 DEF Recover, Completes, TypeOK
  <2> QED
    BY <1>1, <2>2 DEF TypeOK, Recover, Becomes
<1>3. LeaseOK'
  BY <1>1 DEF LeaseOK, Recover, At, Becomes
<1>4. BeforeOK'
  BY <1>1 DEF BeforeOK, Recover, At, Becomes
<1>5. OwnersQuiet
  BY <1>1, QuietMove
<1>6. NoRunStep
  BY <1>5 DEF NoRunStep, ReportQuiet, Recover, Completes
<1>7. RunOK' /\ AnnouncedOK'
  BY <1>6, RunKept, AnnouncedKept
<1>8. ReportOK'
  BY <1>1 DEF ReportOK, Recover, At, Becomes
<1> QED
  BY <1>2, <1>3, <1>4, <1>7, <1>8

\* What is read for the report is what is stored.
LEMMA ListResultsStep ==
  ASSUME ValidationInv, NEW o \in Owners, ListResults(o)
  PROVE  ValidationInv'
<1> USE DEF ValidationInv
<1>1. PICK read \in Reports :
        /\ Becomes(o, "generate", own[o].mem, read)
        /\ read.by = o /\ read.trusted = rows
  BY ListMoves
<1>2. TypeOK'
  BY <1>1 DEF TypeOK, ListResults, At, Becomes
<1>3. LeaseOK'
  BY <1>1 DEF LeaseOK, ListResults, At, Becomes
<1>4. BeforeOK'
  BY <1>1 DEF BeforeOK, ListResults, At, Becomes
<1>5. OwnersQuiet
  BY <1>1, QuietMove
<1>6. NoRunStep
  BY <1>5 DEF NoRunStep, ReportQuiet, ListResults
<1>7. RunOK' /\ AnnouncedOK'
  BY <1>6, RunKept, AnnouncedKept
<1>8. ReportOK'
  BY <1>1 DEF ReportOK, ListResults, At, Becomes
<1> QED
  BY <1>2, <1>3, <1>4, <1>7, <1>8

\* The first report stays.
LEMMA InsertReportStep ==
  ASSUME ValidationInv, NEW o \in Owners, InsertReport(o)
  PROVE  ValidationInv'
<1> USE DEF ValidationInv
<1>1. Becomes(o, "publish", own[o].mem, own[o].read)
  BY GoToMoves DEF InsertReport, TypeOK, Pcs
<1>2. TypeOK'
  BY <1>1 DEF TypeOK, InsertReport, At, Becomes, OwnerStates
<1>3. LeaseOK'
  BY <1>1 DEF LeaseOK, InsertReport, At, Becomes
<1>4. BeforeOK'
  BY <1>1 DEF BeforeOK, InsertReport, At, Becomes
<1>5. OwnersQuiet
  BY <1>1, QuietMove
<1>6. NoRunStep
  BY <1>5 DEF NoRunStep, ReportQuiet, InsertReport, At, ReportOK
<1>7. RunOK' /\ AnnouncedOK'
  BY <1>6, RunKept, AnnouncedKept
<1>8. ReportOK'
  <2>1. own[o].read.by = o /\ o # NoOwner
    BY ValidationAssumption DEF ReportOK, InsertReport, At
  <2>2. report'.by # NoOwner
    BY <2>1 DEF ReportOK, InsertReport
  <2>3. posted' \subseteq {checkConclusion(report)'}
    <3>1. CASE report = NoReport
      BY <3>1 DEF ReportOK, InsertReport, NoReport
    <3>2. CASE report # NoReport
      BY <3>2 DEF ReportOK, InsertReport
    <3> QED
      BY <3>1, <3>2
  <2>4. \A q \in Owners : own'[q].pc = "generate" => own'[q].read.by = q
    BY <1>1 DEF ReportOK, Becomes
  <2>5. ASSUME NEW q \in Owners, own'[q].pc = "post"
        PROVE  own'[q].read = report'
    <3>1. own[q].read = report /\ report.by # NoOwner
      BY <1>1, <2>5 DEF ReportOK, Becomes
    <3>2. report' = report
      BY <3>1 DEF InsertReport, NoReport
    <3> QED
      BY <1>1, <2>5, <3>1, <3>2 DEF Becomes
  <2> QED
    BY <2>2, <2>3, <2>4, <2>5 DEF ReportOK
<1> QED
  BY <1>2, <1>3, <1>4, <1>7, <1>8

\* Publishing begins with a report.
LEMMA ToPublishingStep ==
  ASSUME ValidationInv, NEW o \in Owners, ToPublishing(o)
  PROVE  ValidationInv'
<1> USE DEF ValidationInv
<1>1. Becomes(o, "conclude", own[o].mem, own[o].read)
  BY GoToMoves DEF ToPublishing, Transition, TypeOK, Pcs
<1>2. TypeOK'
  BY <1>1 DEF TypeOK, ToPublishing, Transition, At, Becomes
<1>3. LeaseOK'
  BY <1>1 DEF LeaseOK, ToPublishing, Transition, At, Becomes
<1>4. BeforeOK'
  BY <1>1 DEF BeforeOK, ToPublishing, Transition, At, Becomes
<1>5. OwnersQuiet
  BY <1>1, QuietMove
<1>6. NoRunStep
  BY <1>5 DEF NoRunStep, ReportQuiet, ToPublishing, Transition
<1>7. RunOK' /\ AnnouncedOK'
  BY <1>6, RunKept, AnnouncedKept
<1>8. ReportOK'
  BY <1>1 DEF ReportOK, ToPublishing, Transition, At, Becomes
<1> QED
  BY <1>2, <1>3, <1>4, <1>7, <1>8

\* A publishing owner takes the report that is stored, which will not change.
LEMMA StoredReportStep ==
  ASSUME ValidationInv, NEW o \in Owners, storedReport(o)
  PROVE  ValidationInv'
<1> USE DEF ValidationInv
<1>1. Becomes(o, "post", own[o].mem, report)
  <2>1. own' = [own EXCEPT ![o] = [own[o] EXCEPT !.pc = "post", !.read = report]]
    BY DEF storedReport, TypeOK, OwnerStates
  <2> QED
    BY <2>1, ReadMoves DEF TypeOK, Pcs
<1>2. TypeOK'
  BY <1>1 DEF TypeOK, storedReport, Becomes
<1>3. LeaseOK'
  BY <1>1 DEF LeaseOK, storedReport, At, Becomes
<1>4. BeforeOK'
  BY <1>1 DEF BeforeOK, storedReport, At, Becomes
<1>5. OwnersQuiet
  BY <1>1, QuietMove
<1>6. NoRunStep
  BY <1>5 DEF NoRunStep, ReportQuiet, storedReport
<1>7. RunOK' /\ AnnouncedOK'
  BY <1>6, RunKept, AnnouncedKept
<1>8. ReportOK'
  BY <1>1 DEF ReportOK, storedReport, Becomes
<1> QED
  BY <1>2, <1>3, <1>4, <1>7, <1>8

\* What is shown is drawn from the report, with the lease or without it.
LEMMA ConcludeStep ==
  ASSUME ValidationInv, NEW o \in Owners, Conclude(o)
  PROVE  ValidationInv'
<1> USE DEF ValidationInv
<1>1. Becomes(o, "review", own[o].mem, own[o].read)
  BY GoToMoves DEF Conclude, TypeOK, Pcs
<1>2. own[o].read = report /\ report.by # NoOwner
  BY DEF Conclude, At, ReportOK
<1>3. TypeOK'
  BY <1>1 DEF TypeOK, Conclude, Becomes, checkConclusion
<1>4. LeaseOK'
  BY <1>1 DEF LeaseOK, Conclude, At, Becomes
<1>5. BeforeOK'
  BY <1>1 DEF BeforeOK, Conclude, At, Becomes
<1>6. OwnersQuiet
  BY <1>1, QuietMove
<1>7. NoRunStep
  BY <1>6 DEF NoRunStep, ReportQuiet, Conclude
<1>8. RunOK' /\ AnnouncedOK'
  BY <1>7, RunKept, AnnouncedKept
<1>9. ReportOK'
  BY <1>1, <1>2 DEF ReportOK, Conclude, Becomes
<1> QED
  BY <1>3, <1>4, <1>5, <1>8, <1>9

\* The task waits for review.
LEMMA ToReviewStep ==
  ASSUME ValidationInv, NEW o \in Owners, ToReview(o)
  PROVE  ValidationInv'
<1> USE DEF ValidationInv
<1>1. Becomes(o, "idle", << >>, NoReport)
  BY LeaveMoves DEF ToReview, TypeOK
<1>2. TypeOK'
  BY <1>1 DEF TypeOK, ToReview, At, Becomes, Leave
<1>3. LeaseOK'
  <2>1. lease' # o
    BY ValidationAssumption DEF ToReview, Leave
  <2>2. status' = status \/ lease' = NoOwner
    BY DEF ToReview, Leave
  <2>3. lease' \in {lease, NoOwner}
    BY DEF ToReview, Leave
  <2> QED
    BY <1>1, <2>1, <2>2, <2>3, ValidationAssumption DEF LeaseOK, Becomes
<1>4. BeforeOK'
  BY <1>1 DEF BeforeOK, ToReview, At, Becomes
<1>5. OwnersQuiet
  BY <1>1, QuietMove
<1>6. NoRunStep
  BY <1>5 DEF NoRunStep, ReportQuiet, ToReview
<1>7. RunOK' /\ AnnouncedOK'
  BY <1>6, RunKept, AnnouncedKept
<1>8. ReportOK'
  BY <1>1 DEF ReportOK, ToReview, At, Becomes, LeaseOK
<1> QED
  BY <1>2, <1>3, <1>4, <1>7, <1>8

\* A lapse is not noticed by anybody.
LEMMA LeaseLapsesStep ==
  ASSUME ValidationInv, LeaseLapses
  PROVE  ValidationInv'
<1> USE DEF ValidationInv
<1>1. /\ lease' = NoOwner /\ faults' \in Nat
      /\ UNCHANGED <<status, own, claimed, rows, report, completed, posted>>
  BY DEF LeaseLapses, Fault, TypeOK
<1>2. TypeOK' /\ BeforeOK' /\ ReportOK'
  BY <1>1 DEF TypeOK, BeforeOK, ReportOK
<1>3. LeaseOK'
  BY <1>1, ValidationAssumption DEF LeaseOK
<1>4. NoRunStep
  BY <1>1 DEF NoRunStep, OwnersQuiet, ReportQuiet, RunsChecks
<1> QED
  BY <1>2, <1>3, <1>4, RunKept, AnnouncedKept

\* No step at all.
LEMMA StutterStep ==
  ASSUME ValidationInv, UNCHANGED vars
  PROVE  ValidationInv'
<1> USE DEF ValidationInv
<1>1. UNCHANGED <<status, lease, own, claimed, rows, report, completed, posted, faults>>
  BY DEF vars
<1>2. TypeOK' /\ BeforeOK' /\ ReportOK' /\ LeaseOK'
  BY <1>1 DEF TypeOK, BeforeOK, ReportOK, LeaseOK
<1>3. NoRunStep
  BY <1>1 DEF NoRunStep, OwnersQuiet, ReportQuiet, RunsChecks
<1> QED
  BY <1>2, <1>3, RunKept, AnnouncedKept

\* Nobody has validated anything yet.
LEMMA InitHolds ==
  ASSUME Init
  PROVE  ValidationInv
<1> USE DEF Init
<1>1. TypeOK
  BY IdleType DEF TypeOK, NoReport, Rows, Reports
<1>2. own \in [Owners -> {Idle}] /\ Idle.pc = "idle" /\ Idle.mem = << >>
  BY DEF Idle
<1>3. \A o \in Owners : own[o].pc = "idle" /\ own[o].mem = << >>
  BY <1>2
<1>4. LeaseOK /\ BeforeOK /\ ReportOK
  BY <1>3, ValidationAssumption DEF LeaseOK, BeforeOK, ReportOK, NoReport
<1>5. RunOK /\ AnnouncedOK
  BY <1>3 DEF RunOK, RunsChecks, AnnouncedOK
<1> QED
  BY <1>1, <1>4, <1>5 DEF ValidationInv

-----------------------------------------------------------------------------
(* The theorems.                                                           *)

\* In every state the live lease, the run of the checks, what was announced of
\* it and what was reported of it fit together, whichever owners lapse, crash
\* or go on without their lease (runner/executor.go, runTrustedValidation and
\* generateEvidence).
THEOREM ValidationInvariant == Spec => []ValidationInv
<1>1. Init => ValidationInv
  BY InitHolds
<1>2. ValidationInv /\ [Next]_vars => ValidationInv'
  <2> SUFFICES ASSUME ValidationInv, [Next]_vars
               PROVE  ValidationInv'
    OBVIOUS
  <2>1. CASE LeaseLapses
    BY <2>1, LeaseLapsesStep
  <2>2. ASSUME NEW o \in Owners,
               \/ Claim(o) \/ CtxDone(o) \/ Abandon(o)
               \/ ToValidating(o) \/ LoadFile(o) \/ RunCheck(o) \/ InsertCheck(o)
        PROVE  ValidationInv'
    BY <2>2, ClaimStep, CtxDoneStep, AbandonStep, ToValidatingStep, LoadFileStep,
       RunCheckStep, InsertCheckStep
  <2>3. ASSUME NEW o \in Owners,
               \/ CompleteValidation(o) \/ Recover(o)
               \/ ListResults(o) \/ InsertReport(o) \/ ToPublishing(o)
               \/ storedReport(o) \/ Conclude(o) \/ ToReview(o)
        PROVE  ValidationInv'
    BY <2>3, CompleteValidationStep, RecoverStep, ListResultsStep, InsertReportStep,
       ToPublishingStep, StoredReportStep, ConcludeStep, ToReviewStep
  <2>4. CASE UNCHANGED vars
    BY <2>4, StutterStep
  <2> QED
    BY <2>1, <2>2, <2>3, <2>4 DEF Next
<1> QED
  BY <1>1, <1>2, PTL DEF Spec

\* A "passed" verdict means that every declared check is stored as a pass
\* (runner/executor.go, runTrustedValidation): the run that announced it was
\* whole, its rows won, and no later owner changed them.
THEOREM PassedIsEarned == Spec => []PassedMeansAllPassed
<1>1. ValidationInv => PassedMeansAllPassed
  <2> SUFFICES ASSUME ValidationInv, NEW e \in completed, e.status = "passed"
               PROVE  \A c \in CheckIds : rows[c] = "passed"
    BY DEF PassedMeansAllPassed
  <2>1. AnnouncedOf(e)
    BY DEF ValidationInv, AnnouncedOK
  <2> QED
    BY <2>1 DEF AnnouncedOf
<1> QED
  BY <1>1, ValidationInvariant, PTL

\* The pull request shows the verdict of the owner that ran the checks whenever
\* the stored report is its own, whoever posts it, with the lease or without it
\* (runner/publish.go, checkConclusion; upsertCheckRun is not fenced).
THEOREM VerdictIsPublished == Spec => []VerdictPublished
<1>1. ValidationInv => VerdictPublished
  <2> SUFFICES ASSUME ValidationInv, NEW e \in completed,
                      e.how # "recovered", report.by = e.by
               PROVE  posted \subseteq {ConclusionOf(e.status)}
    BY DEF VerdictPublished, ConclusionOf
  <2>1. AnnouncedOf(e) /\ posted \subseteq {checkConclusion(report)}
    BY DEF ValidationInv, AnnouncedOK, ReportOK
  <2>2. report.trusted = rows /\ ConclusionOf(e.status) = RowsConclusion
    BY <2>1 DEF AnnouncedOf
  <2>3. checkConclusion(report) = RowsConclusion
    BY <2>2 DEF RowsConclusion, checkConclusion, Trusted
  <2> QED
    BY <2>1, <2>2, <2>3
<1> QED
  BY <1>1, ValidationInvariant, PTL

\* Owners that publish, one after the other or beside an owner whose lease has
\* lapsed, show one conclusion (evidence/store.go, Insert: the first report wins).
THEOREM ConclusionIsStable == Spec => []OneConclusion
<1>1. ValidationInv => OneConclusion
  <2> SUFFICES ASSUME ValidationInv
               PROVE  Cardinality(posted) <= 1
    BY DEF OneConclusion
  <2>1. posted = {} \/ posted = {checkConclusion(report)}
    BY DEF ValidationInv, ReportOK
  <2>2. Cardinality({}) = 0 /\ Cardinality({checkConclusion(report)}) = 1
    BY FS_EmptySet, FS_Singleton
  <2> QED
    BY <2>1, <2>2
<1> QED
  BY <1>1, ValidationInvariant, PTL
=============================================================================
