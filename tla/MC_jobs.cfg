SPECIFICATION Spec
CONSTANTS
    hook = hook  lambda = lambda  w1 = w1  w2 = w2
    NoJob = NoJob
    Jobs = {hook, lambda}
    Workers = {w1, w2}
    Incapable = {}
    MaxAttempts = 2
    MaxFaults = 1
    MaxElections = 1
    MaxSlow = 1
    MaxAdmin = 1
INVARIANTS
    AttemptsHonest
    ClaimExcludes
PROPERTIES
    EventuallySettled
