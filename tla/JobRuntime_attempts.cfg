SPECIFICATION Spec
CONSTANTS
    Items = {i1}
    Procs = {p1, p2}
    None = None
    Disturbances = {"abort", "cancel", "clock", "crash", "probe", "report", "tick"}
    MaxAttempts = 2
    MaxCrashes = 1
CHECK_DEADLOCK FALSE
SYMMETRY Symmetric
INVARIANTS JobTypeOK  ItemInOneHand
PROPERTIES CompletedWasEarned 
