\* Every caller, verdict and outcome; two data, three task objects.
SPECIFICATION FairSpec
CONSTANTS
    Data = {d1, d2}
    Tasks = {t1, t2, t3}
    Delays = {0, 2}
    Verdicts = {TRUE, FALSE}
    Outcomes = {"done", "again", "raise"}
    None = None
INVARIANTS TypeOK OneClaim HeapInFuture
PROPERTIES KeepsContract AllAreServed
