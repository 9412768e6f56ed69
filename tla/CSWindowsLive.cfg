SPECIFICATION FairOwnerSpec
CONSTANTS
    t1 = t1
    t2 = t2
    Threads = {t1, t2}
    NoThread = NoThread
    SpinMax = 1
    Timeouts = {"zero", "finite", "infinite"}
    MaxNest = 1
    MaxFailures = 0
    MaxCount = 10
    StaleCAS = FALSE
    Wide = FALSE
PROPERTY SleeperWakes
PROPERTY LockHasOwner
