SPECIFICATION Spec
CONSTANTS
    c1 = c1  c2 = c2  n1 = n1  n2 = n2  a = a  b = b  x = x  y = y  k = k  h = h
    r1 = r1  r2 = r2
    None = None
    MaxAttempts = 2
    LeaseTime = 1
    Replicas = {r1, r2}
    Ops <- TableOps
    ClientIds <- OneClientId
    Times <- OneTime
    MaxLog = 4
    MaxFaults = 1
    MaxInflight = 1
SYMMETRY ReplicaSymmetry
CONSTRAINT OneStory
INVARIANTS
    TypeOK
    DurablePrefix
    CaughtUp
    ConsequencesMatchOps
    EventCursor
    IdempotencyRowsLive
PROPERTIES
    VersionStep
