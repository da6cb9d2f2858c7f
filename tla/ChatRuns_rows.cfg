SPECIFICATION Spec
CONSTANTS
    Runs = {r1}
    Chats = {c1}
    Workers = {w1, w2}
    Procs = {p1, p2}
    None = None
    Disturbances = {"cancel", "crash", "stall", "heartbeat", "reap", "handler", "hook", "tool"}
    MaxCrashes = 1
    TimelyClaims = TRUE
CHECK_DEADLOCK FALSE
SYMMETRY Symmetric
INVARIANTS TypeOK NoModelReplay WriterHoldsSlot AnswerMatchesVerdict
PROPERTIES VerdictIsFinal ImplementsTurns
