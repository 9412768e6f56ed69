SPECIFICATION Spec
CONSTANTS
    h1 = h1
    h2 = h2
    k1 = k1
    k2 = k2
    Threads = {h1, h2}
    Callers = {k1, k2}
    MaxPriority = 7
SYMMETRY Symmetry
CHECK_DEADLOCK FALSE
 
INVARIANT ReadingKeepsLevel
