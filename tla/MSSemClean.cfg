SPECIFICATION Spec
CONSTANTS
    t1 = t1
    t2 = t2
    Threads = {t1, t2}
    Initial = 1
    MaxCount = 3
    Amounts = {1,2}
    MaxReleases = 3
    MaxTakes = 3
SYMMETRY Symmetry
INVARIANT CleanExact
