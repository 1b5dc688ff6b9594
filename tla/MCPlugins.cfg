SPECIFICATION Spec
CONSTANTS
    t1 = t1
    t2 = t2
    t3 = t3
    Threads <- MCThreads
    Configured <- MCConfigured
    Priority <- MCPriority
INVARIANTS
    NeverHalfLoaded
PROPERTIES
    AllEnd
\* The threads end.
CHECK_DEADLOCK FALSE
