SPECIFICATION Spec
CONSTANTS
    Runs = {r1, r2}
    Chats = {c1}
    Workers = {w1, w2}
    Procs = {p1}
    None = None
    Disturbances = {"cancel", "stall", "crash", "heartbeat"}
    MaxCrashes = 1
    TimelyClaims = TRUE
CHECK_DEADLOCK FALSE
SYMMETRY Symmetric
INVARIANT OneWriterPerChat
PROPERTIES SlotHandedOver ImplementsTurns
