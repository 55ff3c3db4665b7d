SPECIFICATION Spec
CONSTANTS
    a = a  b = b  k = k  f = f  g = g  c1 = c1  c2 = c2
    None = None
    Requesters = {c1, c2}
    Requests <- AllRequests
    HookTopics <- Created
    Providers = {"sqlite", "postgres"}
    PageSize = 2
    MaxRequests = 4
    MaxFaults = 1
INVARIANTS
    RequestsExact
    SqliteNothingSkipped
PROPERTIES
    MergedOverCurrent
    EventuallyAnswered
