CONSTANTS
    Submittable <- Late
    NoId = NoId
    System = System
    NoEnvelope = NoEnvelope
    Lookback = 1
    Stamp = {1, 2}
    MaxEvents = 14
    MaxResults = 6
    SUBMIT_ATTEMPTS = 1
    FirstRun = 5
    MaxHeld = 1
    Run = {r1, r2}
    acme = acme
    e1 = e1  e2 = e2  e3 = e3  e4 = e4  e5 = e5  e6 = e6  e7 = e7  e8 = e8
    r1 = r1  r2 = r2
SPECIFICATION ServiceSpec
INVARIANT RefusedOnlyWhenOvertaken
SYMMETRY Symmetry
CHECK_DEADLOCK FALSE
