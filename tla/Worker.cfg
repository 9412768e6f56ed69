SPECIFICATION CodeSpec
CONSTANTS
    c1 = c1
    Callers = {c1}
    Controller = c1
    Worker = Worker
    NoOne = NoOne
    Codes = {"done"}
    MaxSuspends = 2
    Waits = 1
    Options = {{}, {"THREAD_SUSPEND_BEFORE_INIT", "THREAD_SUSPEND_AFTER_INIT"}, {"THREAD_SUSPEND_AFTER_INIT", "THREAD_SUSPEND_BEFORE_CLEANUP"}}
CHECK_DEADLOCK FALSE
 
INVARIANT ObjectOutlivesWorker
INVARIANT SuspendedIsTrue
INVARIANT ExitCodeSurvives
PROPERTY ContinueReleases
