\* Fair clock and processes, crashes, workers that outlive STALE_AFTER; or an
\* application and a Terraform repository, with pushes at any time.
SPECIFICATION SyncSpec
CONSTANTS
  Runs = {r1, r2}
  None = None
  StaleAfter = 2
  MaxTime = 5
  Repos = {app, tf}
  Infra = {tf}
  MaxHead = 3
  MaxParser = 2
  MaxFaults = 2
INVARIANTS OneRunningRow OverlapOnlyStale SuccessAgrees NothingMissed ParserIsCurrent
PROPERTIES OutcomeIsFinal AttemptsInOrder EveryRunClosed LockoutEnds CatchesUp
\* the clock stops at MaxTime and every attempt ends
CHECK_DEADLOCK FALSE
