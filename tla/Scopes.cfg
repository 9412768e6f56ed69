SPECIFICATION Spec
CONSTANTS
    t1 = t1
    t2 = t2
    s1 = s1
    s2 = s2
    Threads = {t1, t2}
    NoThread = NoThread
    Slots = {s1, s2}
    Kinds = {"CritSectEx", "CritSectRec", "CritSect", "MutexEx", "TimedMutexEx"}
    CountWidth = 4
    MaxDepth = 3
SYMMETRY Symmetry
CHECK_DEADLOCK FALSE
INVARIANT LockedIsTrue
INVARIANT NothingLeaked
INVARIANT RecursionAsserted
INVARIANT CountIsDepth
PROPERTY ScopesAreALock
