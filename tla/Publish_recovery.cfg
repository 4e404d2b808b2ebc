\* Any two troubles on top of one another: up to three owners, a foreign push, a
\* cancellation, a deadline, a lease that lapses under its owner.
SPECIFICATION Spec
CONSTANTS
  NoRunner = NoRunner
  Runners = {r1, r2}
  FirstOwner = r1
  MaxTrouble = 2
CHECK_DEADLOCK FALSE
INVARIANTS
  ReviewComplete
  OneCheckRun
  LostMeansUnpushed
PROPERTIES
  WorkKept
  SummaryNotRepeated
  OwnersCompleteOnce
  PublishingEnds
