CONSTANTS
    Devices = {1, 2}
    Workers = {w1, w2}
    Requests = {r1}
    MaxAttempts = 2
    Backoff <- MCBackoff2
    StuckMinutes = 1
    Delays = {1}
    RowLocking = TRUE
    Faults = {"crash", "lost_answer", "save_error", "beat_broker"}
    Changes = {}
    MaxTasks = 1
    MaxMishaps = 1
    MaxBrokerFailures = 1
    MaxChanges = 0
    None = None
SPECIFICATION Spec
SYMMETRY MCSymmetry
INVARIANTS TypeOK SingleOwner DuplicatesNeedMishaps StatusMatchesDeliveries NothingForgotten
PROPERTIES SentIsFinal
