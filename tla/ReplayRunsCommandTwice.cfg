CONSTANTS
    edit = edit
    scan = scan
    report = report
    k1 = k1
    Invocations = {report}
    Ops = {o1}
    Keys = {key1}
    NoKey = NoKey
    None = None
    Workers = {w1, w2}
    Tools <- MCTools
    Locks <- MCLocks
    NoLease = NoLease
    Backend <- MCBackend
    Cancellable <- MCCancellable
    GateRequest <- MCGateRequest
    MaxFailures = 0
    MaxStops = 0
SPECIFICATION Spec
INVARIANT WorkRunsAtMostOnce
