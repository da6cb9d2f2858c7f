SPECIFICATION Spec
CONSTANTS
    Items = {i1, i2}
    Requests = {q1, q2}
    Workers = {w1, w2}
    None = None
    Disturbances = {"fail", "cancel", "stall", "crash"}
    MaxAttempts = 2
CHECK_DEADLOCK FALSE
SYMMETRY Symmetric
INVARIANTS QueueTypeOK SaidOnceIfApplied StaysInChain 
