SPECIFICATION FairSpec
CONSTANTS
    Runs = {r1}
    Chats = {c1}
    Workers = {w1, w2}
    Procs = {p1}
    None = None
    Disturbances = {"crash", "cancel", "hook", "tool", "reap"}
    MaxCrashes = 1
    TimelyClaims = TRUE
CHECK_DEADLOCK FALSE

PROPERTIES RunStops 
