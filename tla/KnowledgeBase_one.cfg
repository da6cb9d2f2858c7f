SPECIFICATION FairSpec
CONSTANTS
    Docs = {d1}
    Procs = {p1}
    Slots = {s1, s2}
    Batch = 2
    None = None
    Disturbances = {"crash", "delete", "index", "model", "reindex", "storage"}
    MaxAttempts = 2
    MaxJobs = 5
    MaxReindex = 1
    MaxCrashes = 1
CHECK_DEADLOCK FALSE
INVARIANTS KBTypeOK  IndexPageCurrent
PROPERTIES DocumentSettles WikiJobsEnd
