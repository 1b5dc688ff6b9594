SPECIFICATION Spec
CONSTANTS
    f = f
    g = g
    Roots <- MCRoots
    InstanceSize <- MCInstanceSize
    Data = {0, 4}
    MemSize = 2
    AlignSize = 2
    IndexSize = 2
    IndexRange = 64
    HeapLimit = 16
    Dynamic = TRUE
INVARIANTS
    WithinBuffer
    NoOverlap
    ChainsAreQueues

PROPERTIES
    ImplementsQueues
    LoopsEnd
\* The program stops after the last test.
CHECK_DEADLOCK FALSE
