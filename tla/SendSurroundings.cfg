CONSTANTS
    Devices = {1}
    Workers = {w1, w2}
    Requests = {r1}
    MaxAttempts = 3
    Backoff <- MCBackoff3
    StuckMinutes = 1
    Delays = {1}
    RowLocking = FALSE
    Faults = {"api_broker"}
    Changes = {"subscription", "application", "link", "token", "app_quiet", "device_quiet", "delete"}
    MaxTasks = 1
    MaxMishaps = 0
    MaxBrokerFailures = 1
    MaxChanges = 1
    None = None
SPECIFICATION FairSpec
INVARIANTS AttemptsBounded NothingForgotten
PROPERTIES QueuedIsServed RetriesDrain
