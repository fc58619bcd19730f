CONSTANTS
    r1 = r1
    r2 = r2
    r3 = r3
    k1 = k1
    None = None
    Requests = {r1, r2, r3}
    Keys = {k1}
    Ops <- MCOps
    Vendors = {"postgresql", "sqlite"}
    MaxLockTries = 2
    MaxFaults = 1
    Changes = {"hide", "purge", "template", "date", "subscription", "application"}
    MaxChanges = 1
SYMMETRY MCSymmetry
SPECIFICATION Spec
INVARIANTS OnePayloadPerNotification OneTaskPerNotification
PROPERTY CreationIsAtomic
CHECK_DEADLOCK FALSE
