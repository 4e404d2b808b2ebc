------------------------- MODULE ConflictDetection --------------------------
(***************************************************************************)
(* Conflict detection between the tasks of one repository:                 *)
(* apps/api/internal/conflict (detector.go, detect.go, semantic.go,        *)
(* store.go), gitworkspace/conflictops.go and the part of                  *)
(* runner/publish.go that records and pushes a commit, runs the detector   *)
(* and appends what it found.  The owners of different tasks run at once,  *)
(* and an owner whose lease has lapsed goes on until it learns of it.      *)
(*                                                                         *)
(* A commit is <<task, attempt>>.  An attempt's diff is a function from    *)
(* the paths it changes to the hunks git prints for them; it starts at the *)
(* attempt's own base, which for a revision is the head it revises.        *)
(***************************************************************************)
EXTENDS Integers, Sequences, FiniteSets

CONSTANTS
  Tasks, Owners, NoOwner,
  Diffs,        \* the diffs an attempt may make
  Migrations,   \* paths of *.sql files below a migrations directory
  Manifests,    \* paths whose base name is in dependencyManifests
  Answers,      \* what the semantic assessor may answer
  MaxCommits,   \* bound on the attempts of all tasks together
  MaxFinished,  \* bound on finished tasks
  MaxFaults     \* bound on lapses, deaths and failed calls

\* lookalike: the hunk's text holds a line that reads like a file header.
Hunk == [start : Nat, count : Nat, lookalike : {"none", "minus", "plus"}]

ASSUME ConflictAssumption ==
  /\ NoOwner \notin Owners
  /\ \A d \in Diffs : \A f \in DOMAIN d : d[f] \in Seq(Hunk)
  /\ Answers \subseteq {"unavailable", "clear", "annotated", "unfounded", "conflict"}
  /\ MaxCommits \in Nat \ {0} /\ {MaxFinished, MaxFaults} \subseteq Nat

VARIABLES
  task,     \* status, newest attempt and lease of each task
  diff,     \* the diff of each commit, fixed when it is made
  final,    \* commits recorded as final_commit_sha
  pushed,   \* commits on GitHub
  own,      \* what each owner is doing
  rows,     \* task_conflicts: pairs of tasks to detections
  events,   \* conflict.detected events: the commit, and the other commit
  checked,  \* commits whose detection ran to its end without an error
  raced,    \* whether the windows of two owners ever overlapped
  faults

vars == <<task, diff, final, pushed, own, rows, events, checked, raced, faults>>

\* The commits of the attempts made so far.
Commits == {c \in Tasks \X (1..MaxCommits) : c[2] <= task[c[1]].attempt}

Idle == [pc |-> "idle", commit |-> << >>, siblings |-> {}, dets |-> << >>,
         existing |-> {}]

Init ==
  /\ task = [t \in Tasks |-> [status |-> "publishing", attempt |-> 1, lease |-> NoOwner]]
  /\ diff = << >> /\ final = {} /\ pushed = {}
  /\ own = [o \in Owners |-> Idle]
  /\ rows = << >> /\ events = {} /\ checked = {}
  /\ raced = FALSE /\ faults = 0

-----------------------------------------------------------------------------
(* Reading a diff.                                                         *)

\* The last lookalike before hunk i: what parseHunks takes the hunk's file for.
HeaderBefore(h, i) ==
  LET seen == {j \in 1..(i - 1) : h[j].lookalike # "none"}
  IN IF seen = {} THEN "none"
     ELSE h[CHOOSE j \in seen : \A k \in seen : k <= j].lookalike

\* A line "--- x" leaves no current file: the next hunk is an error.
ParseFails(d) ==
  \E f \in DOMAIN d : \E i \in DOMAIN d[f] : HeaderBefore(d[f], i) = "minus"

\* The base-side span of a hunk; an insertion stands at its preceding line.
LineRange(h) ==
  <<h.start, IF h.count = 0 THEN h.start ELSE h.start + h.count - 1>>

\* The ranges parseHunks files under path f; after "+++ x" they go elsewhere.
parseHunks(d, f) ==
  {LineRange(d[f][i]) : i \in {j \in DOMAIN d[f] : HeaderBefore(d[f], j) = "none"}}

adjacencyWindow == 3

\* Mutant of rangesAdjacent: only the first range may reach the second.
rangesAdjacentOneSided(a, b) ==
  \E ra \in a, rb \in b : ra[1] <= rb[1] /\ rb[1] <= ra[2] + adjacencyWindow

rangesAdjacent(a, b) ==
  \E ra \in a, rb \in b : /\ ra[1] <= rb[2] + adjacencyWindow
                          /\ rb[1] <= ra[2] + adjacencyWindow

\* The kinds and files of two diffs.
Overlap(a, b) ==
  LET shared == DOMAIN a \cap DOMAIN b
      migrations == (DOMAIN a \cup DOMAIN b) \cap Migrations
      bothMigrate == DOMAIN a \cap Migrations # {} /\ DOMAIN b \cap Migrations # {}
  IN [kinds |->
        {k \in {"file_overlap"} : shared # {}} \cup
        {k \in {"adjacent_lines"} :
           \E f \in shared : rangesAdjacent(parseHunks(a, f), parseHunks(b, f))} \cup
        {k \in {"migration"} : bothMigrate} \cup
        {k \in {"dependency"} : shared \cap Manifests # {}},
      files |-> shared \cup (IF bothMigrate THEN migrations ELSE {})]

\* Lines a commit changed since the task's first base, as git merges them.
ChangedLines(c, f) ==
  UNION {LET d == diff[<<c[1], n>>]
         IN IF f \in DOMAIN d
            THEN UNION {LineRange(d[f][i])[1]..LineRange(d[f][i])[2] : i \in DOMAIN d[f]}
            ELSE {} : n \in 1..c[2]}

\* git merge-tree of two commits: the paths on which both changed a line.
MergeTree(c, e) ==
  LET paths(x) == UNION {DOMAIN diff[<<x[1], n>>] : n \in 1..x[2]}
  IN {f \in paths(c) \cap paths(e) : ChangedLines(c, f) \cap ChangedLines(e, f) # {}}

\* An answer that fails, or claims a conflict without grounds, is as none given.
validateVerdict(answer) ==
  IF answer \in {"unavailable", "unfounded"} THEN "clear" ELSE answer

-----------------------------------------------------------------------------
(* Owners and tasks.                                                       *)

Fault == faults < MaxFaults /\ faults' = faults + 1

At(o, pc) == own[o].pc = pc
GoTo(o, pc) == own' = [own EXCEPT ![o].pc = pc]
Pair(t, u) == {t, u}

\* An owner of commit c at pc, with what it no longer needs forgotten.
Settled(c, pc) == [Idle EXCEPT !.commit = c, !.pc = pc]

\* An owner claims a task that is publishing, and has its commit in hand.
Claim(o, t) ==
  /\ At(o, "idle") /\ task[t].status = "publishing" /\ task[t].lease = NoOwner
  /\ task' = [task EXCEPT ![t].lease = o]
  /\ own' = [own EXCEPT ![o] =
               [Idle EXCEPT !.pc = "record", !.commit = <<t, task[t].attempt>>]]
  /\ UNCHANGED <<diff, final, pushed, rows, events, checked, raced, faults>>

\* The lease ends under an owner that does not know it yet.
LeaseLapses(t) ==
  /\ Fault /\ task[t].lease # NoOwner
  /\ task' = [task EXCEPT ![t].lease = NoOwner]
  /\ UNCHANGED <<diff, final, pushed, own, rows, events, checked, raced>>

\* The owner learns that its lease is gone, or dies; an open transaction is
\* rolled back with it.
Stops(o) ==
  /\ ~At(o, "idle")
  /\ \/ task[own[o].commit[1]].lease # o /\ UNCHANGED faults
     \/ Fault
  /\ task' = [t \in Tasks |-> IF task[t].lease = o
                              THEN [task[t] EXCEPT !.lease = NoOwner] ELSE task[t]]
  /\ own' = [own EXCEPT ![o] = Idle]
  /\ UNCHANGED <<diff, final, pushed, rows, events, checked, raced>>

\* A reviewer asks for a revision of a published task.
Revise(t) ==
  /\ task[t].status = "awaiting_review" /\ Cardinality(Commits) < MaxCommits
  /\ task' = [task EXCEPT ![t].status = "publishing", ![t].attempt = @ + 1]
  /\ UNCHANGED <<diff, final, pushed, own, rows, events, checked, raced, faults>>

\* The task is merged, closed, cancelled or fails.
Finish(t) ==
  /\ task[t].status # "terminal"
  /\ Cardinality({u \in Tasks : task[u].status = "terminal"}) < MaxFinished
  /\ task' = [task EXCEPT ![t].status = "terminal"]
  /\ UNCHANGED <<diff, final, pushed, own, rows, events, checked, raced, faults>>

-----------------------------------------------------------------------------
(* Publishing up to the detection.                                         *)

\* The owner is one of an attempt that was revised since, or somebody else has
\* recorded a commit and is not done with it.
WindowOpen(o) ==
  \/ task[own[o].commit[1]].attempt # own[o].commit[2]
  \/ \E p \in Owners \ {o} : own[p].pc \notin {"idle", "record"}

\* RecordFinalCommit keeps the first commit recorded for the attempt.
RecordFinalCommit(o) ==
  LET c == own[o].commit
  IN /\ At(o, "record")
     /\ \/ c \in DOMAIN diff /\ UNCHANGED diff
        \/ /\ c \notin DOMAIN diff
           /\ \E d \in Diffs :
                diff' = [e \in DOMAIN diff \cup {c} |-> IF e = c THEN d ELSE diff[e]]
     /\ final' = final \cup {c}
     /\ raced' = (raced \/ WindowOpen(o))
     /\ GoTo(o, "push")
     /\ UNCHANGED <<task, pushed, rows, events, checked, faults>>

\* Mutant of Push: the detection does not wait for the push.
PushLater(o) ==
  /\ At(o, "push")
  /\ GoTo(o, "list")
  /\ \/ pushed' = pushed \cup {own[o].commit}
     \/ UNCHANGED pushed
  /\ UNCHANGED <<task, diff, final, rows, events, checked, raced, faults>>

Push(o) ==
  /\ At(o, "push")
  /\ GoTo(o, "list")
  /\ pushed' = pushed \cup {own[o].commit}
  /\ UNCHANGED <<task, diff, final, rows, events, checked, raced, faults>>

-----------------------------------------------------------------------------
(* Detect.                                                                 *)

\* The newest recorded commit of a task.
Newest(u) ==
  CHOOSE c \in final : c[1] = u /\ \A e \in final : e[1] = u => e[2] <= c[2]

\* The unfinished tasks of the repository with a recorded commit; with none,
\* Detect returns before it reconciles.
ActiveSiblings(o) ==
  LET t == own[o].commit[1]
      siblings == {Newest(u) : u \in {v \in Tasks \ {t} :
                     /\ task[v].status # "terminal"
                     /\ \E c \in final : c[1] = v}}
  IN /\ At(o, "list")
     /\ own' = [own EXCEPT ![o].siblings = siblings,
                           ![o].pc = IF siblings = {} THEN "publish" ELSE "fetch"]
     /\ checked' = IF siblings = {} THEN checked \cup {own[o].commit} ELSE checked
     /\ UNCHANGED <<task, diff, final, pushed, rows, events, raced, faults>>

\* HasCommit after EnsureMirror has fetched: what is pushed by now, and what the
\* owners of the same host have committed.
HasCommit(e, sameHost) == e \in pushed \/ sameHost

\* What Detect finds for commit c and its sibling e.
Detected(c, e, answer) ==
  LET found == Overlap(diff[c], diff[e])
      conflicted == MergeTree(c, e)
      verdict == validateVerdict(answer)
  IN [kinds |-> found.kinds \cup {k \in {"merge_conflict"} : conflicted # {}}
                            \cup {k \in {"semantic"} : verdict = "conflict"},
      files |-> found.files \cup conflicted,
      annotated |-> verdict # "clear",
      at |-> {c, e}]

\* The fetch and the comparison with every sibling.  Commits do not change, so
\* the comparison is one step with the fetch.
Compare(o) ==
  LET c == own[o].commit
  IN /\ At(o, "fetch")
     /\ \E answers \in [own[o].siblings -> Answers], sameHost \in BOOLEAN :
          LET present == {e \in own[o].siblings : HasCommit(e, sameHost)}
              found == [u \in {e[1] : e \in present} |->
                          LET e == CHOOSE x \in present : x[1] = u
                          IN Detected(c, e, answers[e])]
              dets == [u \in {v \in DOMAIN found : found[v].kinds # {}} |-> found[u]]
          IN IF \E x \in present \cup {c} : ParseFails(diff[x])
             THEN own' = [own EXCEPT ![o] = Settled(c, "publish")]
             ELSE own' = [own EXCEPT ![o] = [Settled(c, "lock") EXCEPT !.dets = dets]]
     /\ UNCHANGED <<task, diff, final, pushed, rows, events, checked, raced, faults>>

\* Pairs some transaction holds, from its SELECT ... FOR UPDATE to its commit.
LockedByOthers(o) == UNION {own[p].existing : p \in Owners \ {o}}

PairsOf(t) == {p \in DOMAIN rows : t \in p}

\* Reconcile locks the pairs the task has.
LockPairs(o) ==
  LET t == own[o].commit[1]
  IN /\ At(o, "lock")
     /\ PairsOf(t) \cap LockedByOthers(o) = {}
     /\ own' = [own EXCEPT ![o].pc = "reconcile", ![o].existing = PairsOf(t)]
     /\ UNCHANGED <<task, diff, final, pushed, rows, events, checked, raced, faults>>

\* task_conflicts_semantic_fields_check: an assessment is stored exactly with
\* the semantic kind.
SemanticFieldsOK(d) == d.annotated <=> "semantic" \in d.kinds

\* Mutant of Reconciled: the stale pairs are left.
ReconciledKeeping(o) ==
  LET t == own[o].commit[1]
      dets == own[o].dets
      desired == {Pair(t, u) : u \in DOMAIN dets}
  IN [p \in DOMAIN rows \cup desired |->
        IF p \in desired
        THEN dets[CHOOSE u \in DOMAIN dets : p = Pair(t, u)] ELSE rows[p]]

\* The table once the locked pairs that are not wanted any more are deleted and
\* the wanted ones upserted.
Reconciled(o) ==
  LET t == own[o].commit[1]
      dets == own[o].dets
      desired == {Pair(t, u) : u \in DOMAIN dets}
  IN [p \in (DOMAIN rows \ own[o].existing) \cup desired |->
        IF p \in desired
        THEN dets[CHOOSE u \in DOMAIN dets : p = Pair(t, u)] ELSE rows[p]]

\* The transaction commits, or a constraint refuses it and nothing is written.
Reconcile(o) ==
  LET t == own[o].commit[1]
      desired == {Pair(t, u) : u \in DOMAIN own[o].dets}
  IN /\ At(o, "reconcile")
     /\ desired \cap LockedByOthers(o) = {}
     /\ \/ /\ \A u \in DOMAIN own[o].dets : SemanticFieldsOK(own[o].dets[u])
           /\ rows' = Reconciled(o)
           /\ own' = [own EXCEPT ![o].pc = "append", ![o].existing = {}]
        \/ /\ \E u \in DOMAIN own[o].dets : ~SemanticFieldsOK(own[o].dets[u])
           /\ own' = [own EXCEPT ![o] = Settled(own[o].commit, "publish")]
           /\ UNCHANGED rows
     /\ UNCHANGED <<task, diff, final, pushed, events, checked, raced, faults>>

\* A token, git or database call of the detection fails.
CallFails(o) ==
  /\ own[o].pc \in {"list", "fetch", "lock", "reconcile"}
  /\ Fault
  /\ own' = [own EXCEPT ![o] = Settled(own[o].commit, "publish")]
  /\ UNCHANGED <<task, diff, final, pushed, rows, events, checked, raced>>

\* detectConflicts appends one event per detection.
AppendDetected(o) ==
  LET c == own[o].commit
      said == {<<c, e>> : e \in UNION {own[o].dets[u].at \ {c} : u \in DOMAIN own[o].dets}}
  IN /\ At(o, "append")
     /\ \/ \E x \in said : events' = events \cup {x}
        \/ said = {} /\ UNCHANGED events
     /\ IF said \subseteq events'
        THEN /\ own' = [own EXCEPT ![o] = Settled(c, "publish")]
             /\ checked' = checked \cup {c}
        ELSE UNCHANGED <<own, checked>>
     /\ UNCHANGED <<task, diff, final, pushed, rows, raced, faults>>

\* A failed detection is logged and publishing goes on all the same.
Publish(o) ==
  LET t == own[o].commit[1]
  IN /\ At(o, "publish")
     /\ task[t].lease = o
     /\ task' = [task EXCEPT ![t].lease = NoOwner,
                   ![t].status = IF @ = "publishing" THEN "awaiting_review" ELSE @]
     /\ own' = [own EXCEPT ![o] = Idle]
     /\ UNCHANGED <<diff, final, pushed, rows, events, checked, raced, faults>>

Next ==
  \/ \E t \in Tasks : LeaseLapses(t) \/ Revise(t) \/ Finish(t)
  \/ \E o \in Owners :
       \/ \E t \in Tasks : Claim(o, t)
       \/ Stops(o) \/ RecordFinalCommit(o) \/ Push(o)
       \/ ActiveSiblings(o) \/ Compare(o)
       \/ LockPairs(o) \/ Reconcile(o) \/ CallFails(o)
       \/ AppendDetected(o) \/ Publish(o)

Spec == Init /\ [][Next]_vars

-----------------------------------------------------------------------------
(* What a detection should find, from the lines the diffs change.          *)

Lines(d, f) == UNION {LineRange(d[f][i])[1]..LineRange(d[f][i])[2] : i \in DOMAIN d[f]}

\* Two changes of one path are adjacent when at most two lines lie between them.
LinesNear(a, b, f) ==
  \E x \in Lines(a, f), y \in Lines(b, f) : x - y \in (-3)..3

\* The kinds that do not depend on the assessor.
Expected(c, e) ==
  LET a == diff[c]
      b == diff[e]
      shared == DOMAIN a \cap DOMAIN b
  IN {k \in {"file_overlap"} : shared # {}} \cup
     {k \in {"adjacent_lines"} : \E f \in shared : LinesNear(a, b, f)} \cup
     {k \in {"merge_conflict"} : MergeTree(c, e) # {}} \cup
     {k \in {"migration"} : \E f \in DOMAIN a, g \in DOMAIN b : {f, g} \subseteq Migrations} \cup
     {k \in {"dependency"} : \E f \in Manifests : f \in shared}

\* Pairs of tasks that are both unfinished and whose newest commits went
\* through a whole detection.
CheckedPairs ==
  LET done == {t \in Tasks : /\ task[t].status # "terminal"
                            /\ <<t, task[t].attempt>> \in checked}
  IN UNION {{Pair(t, u) : u \in done \ {t}} : t \in done}

CurrentCommits(p) == {<<t, task[t].attempt>> : t \in p}

ExpectedOf(p) ==
  LET c == CHOOSE x \in CurrentCommits(p) : TRUE
      e == CHOOSE x \in CurrentCommits(p) : x # c
  IN Expected(c, e)

\* ListForTask: the conflicts a task is shown.
ListForTask(t) ==
  {u \in Tasks : /\ Pair(t, u) \in DOMAIN rows /\ u # t
                 /\ task[t].status # "terminal" /\ task[u].status # "terminal"}

-----------------------------------------------------------------------------
(* Properties.                                                             *)

\* publish.go, publishFromWorkspace, with detector.go, Detect: a commit is
\* recorded and pushed before its own detection lists and fetches the others,
\* so of two conflicting commits whose detections both went through, at least
\* one was warned about the other, however the two owners interleaved and
\* whoever of them was replaced.
SomeoneIsWarned ==
  \A p \in CheckedPairs : ExpectedOf(p) # {} =>
    \E c, e \in CurrentCommits(p) : c # e /\ <<c, e>> \in events

SerialTableExact ==
  ~raced => \A p \in CheckedPairs : \A t, u \in p : t # u =>
    /\ ExpectedOf(p) # {} => u \in ListForTask(t)
    /\ u \in ListForTask(t) => /\ rows[p].at = CurrentCommits(p)
                              /\ ExpectedOf(p) \subseteq rows[p].kinds

PairKindsTrue ==
  \A p \in DOMAIN rows : \E c, e \in rows[p].at :
    /\ Pair(c[1], e[1]) = p
    /\ rows[p].kinds \ {"semantic"} = Expected(c, e)

\* conflict/store.go, Reconcile and ListForTask, with conflict/detect.go, Overlap:
\* detections that never overlap keep the table exact.  Both tasks of a checked
\* pair are shown a conflict if their newest commits call for one, about those
\* commits, after revisions, finished tasks and recovered owners too; and a stored
\* pair names exactly the kinds that the lines and paths of its commits call for,
\* whichever of the tasks stored it.
TableTrue == SerialTableExact /\ PairKindsTrue
=============================================================================
