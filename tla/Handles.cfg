SPECIFICATION Spec
CONSTANTS
    p = p
    q = q
    h1 = h1
    h2 = h2
    h3 = h3
    n1 = n1
    n2 = n2
    Callers = {p, q}
    Handles = {h1, h2, h3}
    Names = {n1, n2}
    None = None
CHECK_DEADLOCK FALSE
INVARIANT RegistryExact
 
 
PROPERTY ExitEnds
