SPECIFICATION FairSpec
CONSTANTS
    r1 = r1
    r2 = r2
    e1 = e1
    e2 = e2
    c1 = c1
    c3 = c3
    None = None
    Runs = {r1, r2}
    Effects = {e1}
    Calls = {c1, c2}
    Sweepers = {s1}
    RunOf <- TwoRuns
    KeyOf <- OneKey
    PolicyOf <- Reconciled
    Disturbances = {"cancel", "crash", "adapter", "doubt"}
CHECK_DEADLOCK FALSE
PROPERTIES IntentSettles WaiterReturns
