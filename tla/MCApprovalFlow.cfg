CONSTANTS
    push = push
    report = report
    Invocations = {push, report}
    Ops = {o1}
    Keys = {key1}
    NoKey = NoKey
    None = None
    Approvals = {a1, a2}
    Cancellable <- MCCancellable
    MaxRevision = 1
    MaxFailures = 1
    MaxCrashes = 1
SPECIFICATION Spec
SYMMETRY ApprovalSymmetry
INVARIANTS WorkersMatchVerdicts DecisionIsFinal QueuedHasWorker
