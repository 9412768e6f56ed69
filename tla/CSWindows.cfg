SPECIFICATION OwnerSpec
CONSTANTS
    t1 = t1
    t2 = t2
    t3 = t3
    Threads = {t1, t2, t3}
    NoThread = NoThread
    SpinMax = 0
    Timeouts = {"zero", "finite", "infinite"}
    MaxNest = 2
    MaxFailures = 0
    MaxCount = 2
    StaleCAS = FALSE
    Wide = FALSE
SYMMETRY Symmetry
INVARIANT UnlockNeverThrows
INVARIANT NoStrandedWaiter
INVARIANT NoOrphanedLock
INVARIANT OneSemaphore
INVARIANT IsLockedHasLocker
INVARIANT SharedOnlyIfRobbed
