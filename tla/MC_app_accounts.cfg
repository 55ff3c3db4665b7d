SPECIFICATION Spec
CONSTANTS
    ann = ann  bob = bob  p1 = p1  p2 = p2
    Nobody = Nobody
    Emails = {ann}
    Procs = {p1, p2}
    CleanupBatch = 1
    MaxOps = 5
    MaxInvitations = 3
    MaxRequests = 2
    MaxSessions = 3
INVARIANTS
    AccountsJustified
    InvitationsSpentOnce
    SessionsEnd
PROPERTIES
    DecisionsStand
    AlwaysAnswered
