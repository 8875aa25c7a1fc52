CONSTANTS
    Order <- OneTarget
    Tick = {t1, t2, t3}
    Inputs = {a, b}
    Usable = {a}
    NoTick = NoTick
    NoTarget = NoTarget
    NoInputs = NoInputs
    WriterCapable = FALSE
    Contended = {"account", "decision"}
    Outside = {"account"}
    MaxFaults = 2
    x1 = x1  x2 = x2  t1 = t1  t2 = t2  t3 = t3
    a = a  b = b
SPECIFICATION Spec
SYMMETRY TickSymmetry
INVARIANTS QueueAudit ReadsAreFenced ReportsAreTrue DecisionsAreGrounded CoalescedIsCovered HeldForCause
