SPECIFICATION FairSpec
CONSTANTS
    t1 = t1
    t2 = t2
    Target = {t1}
    NoOp = NoOp
    Poller = Poller
    MaxCapture = 2
    MaxPolicy = 1
    MaxEdit = 1
    MaxDocs = 4
    MaxClaim = 3
PROPERTIES ImplementsWriteOnce OutboxDrains TerminalReleases
CHECK_DEADLOCK FALSE
