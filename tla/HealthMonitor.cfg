SPECIFICATION FairSpec
CONSTANTS
    Callers = {k1, k2}
    Threads = {d1, d2, d3}
    T = 2
INVARIANTS NoOrphan ProbesDisjoint
PROPERTIES StopTakesEffect EveryTargetProbed
