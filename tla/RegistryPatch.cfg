CONSTANTS
    DeviceIds = {1, 2, 3}
    InitialIds = {1, 2}
    Users = {u1, u2}
    Tokens = {t1, t2}
    Apps = {a1}
    Requests = {r1, r2}
    Passes = {s1}
    Operations = {"link", "unlink", "patch", "unregister"}
    MaxRequests = 2
    NoUser = NoUser
    None = None
SPECIFICATION Spec
CHECK_DEADLOCK FALSE
SYMMETRY MCSymmetry
PROPERTY MergeKeepsLinks
