CONSTANTS
    Process = {p1, p2}
    Session = {s1, s2, s3}
    MaxSessions = 1
    Rotation = "nonrotating"
    MaxGeneration = 7
    MaxToken = 5
    MaxFaults = 4
    p1 = p1  p2 = p2  s1 = s1  s2 = s2  s3 = s3
SPECIFICATION Spec
INVARIANTS GrantedOnce ReadyIsUsable ExchangedOnce
PROPERTY GenerationsAreConsecutive
SYMMETRY Symmetry
CHECK_DEADLOCK FALSE
