SPECIFICATION FairSpec
CONSTANTS
    Items = {i1, i2, i3}
    Requests = {q1}
    Workers = {w1}
    None = None
    Disturbances = {"withdraw"}
    MaxAttempts = 1
CHECK_DEADLOCK FALSE
PROPERTY FirstRunQueueDrains
