SPECIFICATION FairSpec
CONSTANTS
    Items = {i1}
    Procs = {p1}
    None = None
    Disturbances = {"crash", "hang", "infra", "kill", "launch", "report", "script", "slow"}
    MaxAttempts = 2
    MaxCrashes = 1
CHECK_DEADLOCK FALSE
PROPERTIES JobEnds 
