SPECIFICATION Spec
CONSTANTS
  N = 2
  MaxRounds = 1
  Concurrency = 2
  Candidates = 2
  MaxAttempts = 2
  MaxFaults = 1
INVARIANT RulingFromOwnDebate
INVARIANT ReplyReachesItsWaiter
INVARIANT ServedAtMostOnce
INVARIANT OrphansCounted
INVARIANT NoCandidateSkipped
PROPERTY ReviewEnds
CHECK_DEADLOCK FALSE
