SPECIFICATION Spec
CONSTANTS
    Messages = {m1, m2}
    Layers = {"L2"}
    Rules = 2
    Entries = {e1}
    Workers = {w1, w2}
    None = None
    Disturbances = {"stall", "crash", "stop"}
    MaxAttempts = 2
    MaxFaults = 1
CHECK_DEADLOCK FALSE
SYMMETRY Symmetric
INVARIANTS EffectOnce ReceiptsKept
PROPERTY ImplementsLane
