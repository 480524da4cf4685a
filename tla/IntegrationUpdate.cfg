CONSTANTS
    N = 2
    MaxVersion = 2
    MaxTxns = 2
    MaxFaults = 2
    MaxCrashes = 2
SPECIFICATION FairSpec
INVARIANTS CommittedIsRecoverable
PROPERTIES ReceiptTellsInstallation ClosedCodexComesBack
CHECK_DEADLOCK FALSE
