\* Two tasks, two owners, three commits, one finished task, one fault.
CONSTANTS
  Tasks = {t1, t2}
  Owners = {o1, o2}
  NoOwner = NoOwner
  Diffs <- MCDiffs
  Migrations <- MCMigrations
  Manifests <- MCManifests
  Answers = {"unavailable", "annotated"}
  MaxCommits = 3
  MaxFinished = 1
  MaxFaults = 1
SPECIFICATION Spec
SYMMETRY Symmetry
INVARIANTS SomeoneIsWarned TableTrue
CHECK_DEADLOCK FALSE
