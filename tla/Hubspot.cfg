CONSTANTS
    u1 = u1  u2 = u2
    Unit = {u1, u2}
    c1 = c1  c2 = c2
    Caller = {c1, c2}
    Evidence <- OneVersion
    Occurred <- NewerSecond
    NoUnit = NoUnit
    MaxGeneration = 5
    MaxFaults = 1
    Start <- Starts
    MaxOutbox = 7
SPECIFICATION Spec
INVARIANTS CapturesFollowReads RejectedOnlyWhenOvertaken RefusedOnlyOnceSettled SettledWithProof
PROPERTY CrmNeverGoesBack
SYMMETRY Symmetry
CHECK_DEADLOCK FALSE
