CONSTANTS
    edit = edit
    scan = scan
    report = report
    k1 = k1
    Invocations = {scan}
    Ops = {o1, o2}
    Keys = {}
    NoKey = NoKey
    None = None
    Workers = {w1, w2}
    Tools <- MCTools
    Locks <- MCLocks
    NoLease = NoLease
    Backend <- MCBackend
    Cancellable <- MCCancellable
    GateRequest <- MCGateRequest
    MaxFailures = 0
    MaxStops = 1
SPECIFICATION Spec
INVARIANT ExclusiveAcrossControllers
