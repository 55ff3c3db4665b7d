SPECIFICATION SSpec
CONSTANTS
    c1 = c1  n1 = n1  a = a  x = x  y = y
    r1 = r1  r2 = r2
    None = None
    MaxAttempts = 2
    LeaseTime = 1
    Replicas = {r1, r2}
    Ops <- RecreateOps
    ClientIds <- NoClientIds
    Times <- OneTime
    MaxLog = 4
    MaxFaults = 0
    MaxInflight = 1
    MaxSnapshots = 1
SYMMETRY ReplicaSymmetry
INVARIANTS
    RestoredConverges
