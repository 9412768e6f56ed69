SPECIFICATION Spec
CONSTANTS
    o1 = o1
    o2 = o2
    o3 = o3
    c1 = c1
    c2 = c2
    t1 = t1
    t2 = t2
    Objects = {o1, o2, o3}
    Cells = {c1, c2}
    Threads = {t1, t2}
    Null = Null
    Width = 2
SYMMETRY Symmetry
CHECK_DEADLOCK FALSE
 
 
INVARIANT UpdatesAtomic
INVARIANT OnlyCrossingsBlock
