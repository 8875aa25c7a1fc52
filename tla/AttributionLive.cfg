CONSTANTS
    Submittable <- Chains
    NoId = NoId
    System = System
    NoEnvelope = NoEnvelope
    Lookback = 1
    Stamp = {1}
    MaxEvents = 12
    MaxResults = 6
    SUBMIT_ATTEMPTS = 2
    FirstRun = 7
    MaxHeld = 0
    Run = {r1}
    acme = acme
    e1 = e1  e2 = e2  e3 = e3  e4 = e4  e5 = e5  e6 = e6  e7 = e7  e8 = e8
    r1 = r1  r2 = r2
SPECIFICATION LiveSpec
PROPERTIES ImplementsLedger EveryVersionAttributed ResultsBecomeCurrent
CHECK_DEADLOCK FALSE
