SPECIFICATION Spec
CONSTANTS
    c1 = c1  c2 = c2  n1 = n1  n2 = n2  a = a  b = b  x = x  y = y  k = k  h = h
    r1 = r1  r2 = r2
    None = None
    MaxAttempts = 2
    LeaseTime = 1
    Replicas = {r1, r2}
    Ops <- RetryOps
    ClientIds <- OneClientId
    Times <- OneTime
    MaxLog = 5
    MaxFaults = 0
    MaxInflight = 2
INVARIANTS
    Agreement
