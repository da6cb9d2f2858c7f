SPECIFICATION FairSpec
CONSTANTS
    Messages = {m1}
    Layers = {"L1", "L2"}
    Rules = 1
    Entries = {e1}
    Workers = {w1, w2}
    None = None
    Disturbances = {"fail", "stall", "crash", "stop", "heartbeat"}
    MaxAttempts = 1
    MaxFaults = 1
CHECK_DEADLOCK FALSE
INVARIANTS OutboxTypeOK CardComplete
PROPERTIES EndedIsFinal TurnSettles
