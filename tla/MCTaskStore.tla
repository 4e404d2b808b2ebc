---------------------------- MODULE MCTaskStore -----------------------------
(***************************************************************************)
(* The TLC instance of TaskStore: the same actions, with the bounds that   *)
(* keep the timeline of a task finite.  Init chooses a shape, a record of  *)
(* bounds, so that one run explores long histories, busy timelines,        *)
(* competing writers and competing tasks, each as far as it needs.         *)
(***************************************************************************)
EXTENDS TaskStore, TLC

CONSTANT Shapes

VARIABLE shape

ShapeFields == {"tasks", "keys", "values", "events", "notes", "ensures", "checkRuns"}

ASSUME ShapesAssumption == Shapes \subseteq [ShapeFields -> Nat]

Zero == [f \in ShapeFields |-> 0]

\* One task through its revisions: every order of transitions, replayed keys and
\* revise commands up to a third attempt.
Revisions ==
  [Zero EXCEPT !.tasks = 1, !.keys = 2, !.values = 1, !.events = 18]

\* Events appended to any attempt before, during and after a revision.
Timeline ==
  [Zero EXCEPT !.tasks = 1, !.keys = 1, !.values = 1, !.events = 12, !.notes = 2]

\* Owners of one attempt that each bring their own branch, base and check run.
Writers ==
  [Zero EXCEPT !.tasks = 1, !.keys = 1, !.values = 2, !.events = 5,
               !.ensures = 2, !.checkRuns = 1]

\* Bases and check runs recorded on the attempts before and after a revision.
Recorded ==
  [Zero EXCEPT !.tasks = 1, !.keys = 1, !.values = 2, !.events = 10, !.checkRuns = 2]

\* Two tasks competing for one issue.
Competing == [Zero EXCEPT !.tasks = 2, !.values = 1, !.events = 4]

AllShapes == {Revisions, Timeline, Writers, Recorded, Competing}

-----------------------------------------------------------------------------
Notes(r) == {i \in DOMAIN r.log : r.log[i].type = "note"}

\* Every status event bumps the version once, except task.created, which comes
\* with version 1: the surplus counts the EnsureGitContext calls.
Ensures(r) == r.version - (Len(r.log) - Cardinality(Notes(r)))

KeysUsed(r) == {r.log[i].key : i \in DOMAIN r.log} \ {NoKey}

ValuesUsed(r) ==
  ({r.base, r.branch} \cup
   UNION {{r.attempts[a].comment, r.attempts[a].base, r.attempts[a].checkRun} :
            a \in DOMAIN r.attempts}) \ {NoValue}

CheckRuns(r) == {a \in DOMAIN r.attempts : r.attempts[a].checkRun # NoValue}

Bounded(r) ==
  /\ Len(r.log) <= shape.events
  /\ Cardinality(Notes(r)) <= shape.notes
  /\ Ensures(r) <= shape.ensures
  /\ Cardinality(CheckRuns(r)) <= shape.checkRuns
  /\ Cardinality(KeysUsed(r)) <= shape.keys
  /\ Cardinality(ValuesUsed(r)) <= shape.values

MCInit == Init /\ shape \in Shapes

MCNext ==
  /\ Next
  /\ UNCHANGED shape
  /\ Cardinality(DOMAIN tasks') <= shape.tasks
  /\ \A t \in DOMAIN tasks' : Bounded(tasks'[t])

MCSpec == MCInit /\ [][MCNext]_<<vars, shape>>

Symmetry == Permutations(TaskIds) \cup Permutations(Issues)
              \cup Permutations(Keys) \cup Permutations(Values)
=============================================================================
