SPECIFICATION FairSpec
CONSTANTS
    a = a
    b = b
    w = w
    A = A
    B = B
    x = x
    y = y
    Units = {x, y}
    Ordered <- EitherUnit
    Clients = {a}
    Fragile = {a}
    Powers = {A, B}
    Role <- OnePlayer
    Omniscient = Omniscient
    Observer = Observer
    Global = Global
    Recipients = {Global}
    Texts = {"x"}
    MaxRequests = 2
    MaxOthers = 1
    MaxPhase = 1
    MaxBreaks = 2
INVARIANTS CopiesAreSound OrdersAreForPhase NoDuplicates CaughtUp
PROPERTY Answered
CHECK_DEADLOCK FALSE
