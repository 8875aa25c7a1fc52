CONSTANTS
    Order <- TwoTargets
    Tick = {t1, t2}
    Inputs = {a, b}
    Usable = {a}
    NoTick = NoTick
    NoTarget = NoTarget
    NoInputs = NoInputs
    WriterCapable = TRUE
    Contended = {"account", "artifact"}
    Outside = {}
    MaxFaults = 1
    x1 = x1  x2 = x2  t1 = t1  t2 = t2  t3 = t3
    a = a  b = b
SPECIFICATION LiveSpec

PROPERTY EveryTickSettles
