SPECIFICATION Spec
CONSTANTS
    c1 = c1
    c2 = c2
    Callers = {c1, c2}
    Controller = c1
    Worker = Worker
    NoOne = NoOne
    Codes = {"done"}
    MaxSuspends = 2
    Waits = 2
CHECK_DEADLOCK FALSE
INVARIANT JoinedHasEnded
INVARIANT StatusKept
INVARIANT GateMatchesCount
INVARIANT ExitWakesOne
INVARIANT CloseIsClean
PROPERTY ResumedRuns
