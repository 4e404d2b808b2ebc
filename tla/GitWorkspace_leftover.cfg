\* What keeps the branch checked out under CleanupStale: the locked entry of a worktree
\* add that was killed (found first), or a worktree of the first attempt on the host
\* that gets the revision.
SPECIFICATION GitSpec
CONSTANTS
  Hosts = {h1, h2}
  NoHost = NoHost
  MaxAttempts = 2
  MaxRuns = 3
  MaxMishaps = 3
CHECK_DEADLOCK FALSE
INVARIANT LeftoversNeverFatal
