SPECIFICATION Spec
CONSTANTS
    t1 = t1
    t2 = t2
    Target = {t1}
    NoOp = NoOp
    Poller = Poller
    MaxCapture = 2
    MaxPolicy = 2
    MaxEdit = 2
    MaxDocs = 5
    MaxClaim = 5
INVARIANTS AuditPasses SentAtMostOnce FenceKeepsTargetStill SettledBeforeRelease ReportsTruth DeliveryNeverStuck
CHECK_DEADLOCK FALSE
