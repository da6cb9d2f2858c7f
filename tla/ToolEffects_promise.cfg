SPECIFICATION Spec
CONSTANTS
    r1 = r1
    r2 = r2
    e1 = e1
    e2 = e2
    c1 = c1
    c3 = c3
    None = None
    Runs = {r1}
    Effects = {e1, e2}
    Calls = {c1, c2, c3}
    Sweepers = {s1}
    RunOf <- OneRun
    KeyOf <- TwoKeys
    PolicyOf <- Mixed
    Disturbances = {"cancel", "crash", "stall", "adapter", "doubt"}
CHECK_DEADLOCK FALSE
INVARIANTS EffectTypeOK AppliedOnce
PROPERTY ImplementsPromise
