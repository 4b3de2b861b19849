SPECIFICATION Spec
CONSTANTS
    a = a
    c = c
    Boots = {a, c}
    MaxAttempts <- Attempts
    Lifetime = 1
    PassTTL = 1
    MaxTime = 1
    MaxSessions = 2
    MaxMishaps = 1
INVARIANT AnswersAgree OrphansAreFaults FlightHasOneMinter
PROPERTY CleanExitCutsNone
CHECK_DEADLOCK FALSE
