SPECIFICATION Spec
CONSTANTS
    a = a
    b = b
    w = w
    A = A
    B = B
    x = x
    y = y
    Units = {x, y}
    Ordered <- EitherUnit
    Clients = {a}
    Fragile = {a}
    Powers = {A, B}
    Role <- OnePlayer
    Omniscient = Omniscient
    Observer = Observer
    Global = Global
    Recipients = {Global}
    Texts = {"x"}
    MaxRequests = 1
    MaxOthers = 0
    MaxPhase = 1
    MaxBreaks = 2
INVARIANT PhaseAgrees
CHECK_DEADLOCK FALSE
