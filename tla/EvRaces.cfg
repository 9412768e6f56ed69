SPECIFICATION WakeUpSpec
CONSTANTS
    s1 = s1
    s2 = s2
    r1 = r1
    r2 = r2
    w1 = w1
    w2 = w2
    Setters = {s1, s2}
    Resetters = {r1, r2}
    Waiters = {w1, w2}
    NoThread = NoThread
    Modulus = 20
    Wide = FALSE
SYMMETRY Symmetry
INVARIANT SetSticks
INVARIANT FlagBounded
INVARIANT SleepsOnlyIfMissed
