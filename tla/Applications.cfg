CONSTANTS
    r1 = r1
    r2 = r2
    t1 = t1
    t2 = t2
    t3 = t3
    c1 = c1
    None = None
    Requests = {r1, r2}
    Operations = {"patch", "email", "token", "revoke", "code", "secret", "on", "off", "delete", "issue"}
    SendTokens = {t1, t2, t3}
    MaxSendTokens = 1
    Callbacks = {c1}
    MaxRetries = 1
    Faults = {"exchange", "crash", "endpoint", "unsafe"}
    MaxFaults = 1
    MaxOps = 3
SPECIFICATION FairSpec
INVARIANTS ReplacedStaysReplaced AliasIsServed SendTokensBounded
PROPERTIES CallbackSettles
CHECK_DEADLOCK FALSE
