CONSTANTS
    Ops = {o1, o2}
    Keys = {k1}
    NoKey = NoKey
    Invocations = {i1, i2}
    None = None
    MaxFailures = 2
    MaxLive = 1
SYMMETRY OperationSymmetry
SPECIFICATION Spec
INVARIANTS NeverStartedIsTrue IdempotencyResolves MemoryAgreesWithFile
PROPERTIES TerminalIsFinal DurableVerdictIsFinal KeyHeldUntilExpiry
