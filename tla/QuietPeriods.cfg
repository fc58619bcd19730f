CONSTANTS
    i1 = i1
    i2 = i2
    r1 = r1
    r2 = r2
    None = None
    Absent = Absent
    Ids = {i1, i2}
    Requests = {r1, r2}
    Payloads <- MCPayloads
    Moments <- MCMoments
    Turns <- MCTurns
    Day = 4
    Shift = 2
    Cap = 3
    MaxEdits = 3
SPECIFICATION Spec
SYMMETRY MCSymmetry
INVARIANTS StoredIsValid EffectiveIsFirstFree
CHECK_DEADLOCK FALSE
