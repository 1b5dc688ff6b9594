SPECIFICATION Spec
CONSTANTS
    Setups <- AllSetups
    MemLength = 4
    MaxDepth = 2
INVARIANTS
    AcceptsAsPromised
