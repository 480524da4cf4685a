CONSTANTS
    edit = edit
    scan = scan
    report = report
    k1 = k1
    Invocations = {edit, scan, report}
    Ops = {o1, o2}
    Keys = {}
    NoKey = NoKey
    None = None
    Workers = {w1, w2}
    Tools <- MCTools
    Locks <- MCLocks
    NoLease = NoLease
    Backend <- MCBackend
    Cancellable <- MCCancellable
    GateRequest <- MCGateRequest
    MaxFailures = 1
    MaxStops = 2
SPECIFICATION Spec
SYMMETRY TaskSymmetry
INVARIANTS WorkIsExclusive ProcessStartNeverDenied CancelReachesProcess ExitSealsDispatched
