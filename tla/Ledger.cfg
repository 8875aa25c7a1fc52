CONSTANTS
    Submittable <- Catalogues
    Captured <- CapturedCatalogues
    Fields <- FieldMap
    Signals <- SizeSignals
    UnderComparison = "assisted"
    ComparedWith = "manual"
    QualifyingPeriod = 3
    NoId = NoId
    System = System
    Lookback = 1
    Stamp = {1}
    MaxEvents = 9
    MaxResults = 2
    acme = acme  globex = globex
    e1 = e1  e2 = e2  e3 = e3  e4 = e4  e5 = e5  e6 = e6
    e7 = e7  e8 = e8  e9 = e9  e10 = e10  e11 = e11  e12 = e12
    p1 = p1  p2 = p2  p3 = p3  p4 = p4  p5 = p5  p6 = p6  p7 = p7  p8 = p8
SPECIFICATION MCSpec
INVARIANTS InputsResolve OneOriginalDecision OutcomeChainsAreLinear
           OneEffectiveResult ResultsAreReproducible CreditLooksBack
           CapturedDecisionsReplay ComparisonExplains FactsAreOfTheAccount
PROPERTIES VerdictsAreSealed InsightsAreReproducible
CHECK_DEADLOCK FALSE
