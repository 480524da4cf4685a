CONSTANTS
    push = push
    report = report
    Invocations = {push}
    Ops = {o1}
    Keys = {key1}
    NoKey = NoKey
    None = None
    Approvals = {a1}
    Cancellable <- MCCancellable
    MaxRevision = 0
    MaxFailures = 0
    MaxCrashes = 0
SPECIFICATION FairSpec
PROPERTY ApprovalWaitEnds
