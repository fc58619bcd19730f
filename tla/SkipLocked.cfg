CONSTANTS
    Devices = {1}
    Workers = {w1, w2}
    Requests = {r1, r2}
    MaxAttempts = 2
    Backoff <- MCBackoff2
    StuckMinutes = 1
    Delays = {1}
    RowLocking = TRUE
    Faults = {}
    Changes = {}
    MaxTasks = 1
    MaxMishaps = 0
    MaxBrokerFailures = 0
    MaxChanges = 0
    None = None
SPECIFICATION FairSpec
PROPERTIES QueuedIsServed
