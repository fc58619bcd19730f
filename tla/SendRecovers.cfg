CONSTANTS
    Devices = {1}
    Workers = {w1, w2}
    Requests = {}
    MaxAttempts = 1
    Backoff <- MCBackoff2
    StuckMinutes = 1
    Delays = {1}
    RowLocking = TRUE
    Faults = {"crash", "reset_error", "beat_broker", "overrun"}
    Changes = {"edit"}
    MaxTasks = 1
    MaxMishaps = 1
    MaxBrokerFailures = 1
    MaxChanges = 1
    None = None
SPECIFICATION FairSpec
INVARIANTS OverlapBoundsAttempts
PROPERTIES ProcessingEnds
