CONSTANTS
    Users = {1, 2}
    Requests = {r1, r2}
    Tokens = {1, 2, 3}
    Links = {1}
    MaxPasswords = 2
    MaxRequests = 4
    MaxCrashes = 1
    MaxChanges = 1
    None = None
SPECIFICATION Spec
CHECK_DEADLOCK FALSE
SYMMETRY MCSymmetry
INVARIANTS LinkOpensOneSession SessionsEndWithPassword
PROPERTIES DeadStaysDead OnlyWholeRowsRestore
