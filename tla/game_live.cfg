SPECIFICATION FairSpec
CONSTANTS
    Id = Id
    Powers = {p1, p2}
    Users = {u1}
    Masters = {}
    Dummy = Dummy
    Expected = 1
    Deadline = 1
    StartMaster = FALSE
    CivilDisorder = TRUE
    RealTime = TRUE
    ManyPowers = FALSE
    RemoveCanceled = FALSE
    Requests = {"join", "leave", "orders", "wait", "paused", "active", "account", "restart"}
    PhaseCycle = 2
    Tasks = {t1, t2}
    None = None
INVARIANT ControllersExist
PROPERTY GameMovesOn
