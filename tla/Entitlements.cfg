CONSTANTS
    h1 = h1
    h2 = h2
    c1 = c1
    c2 = c2
    None = None
    Handlers = {h1, h2}
    Creators = {c1, c2}
    Payloads <- MCPayloads
    MaxVersions = 2
    MaxDeliveries = 2
    MaxTime = 1
    MaxApps = 3
    MaxCrashes = 1
    Unlimited = 2
SYMMETRY MCSymmetry
SPECIFICATION Spec
INVARIANTS AppliedOnce SettledIsCurrent QuotaOverrunBounded NoOrphanPayer
CHECK_DEADLOCK FALSE
