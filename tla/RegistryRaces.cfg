CONSTANTS
    DeviceIds = {1, 2, 3}
    InitialIds = {1, 2}
    Users = {u1, u2}
    Tokens = {t1, t2}
    Apps = {a1}
    Requests = {r1, r2}
    Passes = {}
    Operations = {"identify", "link", "unlink", "evict", "delete"}
    MaxRequests = 3
    NoUser = NoUser
    None = None
SPECIFICATION Spec
CHECK_DEADLOCK FALSE
SYMMETRY MCSymmetry
INVARIANTS OneLinkPerPair AuditMatches LinksFollowOwner OneDevicePerToken
