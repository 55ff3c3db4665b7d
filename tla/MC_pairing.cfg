SPECIFICATION Spec
CONSTANTS
    n1 = n1  n2 = n2
    Nodes = {n1, n2}
    MaxInvites = 2
    MaxRequests = 2
    MaxCalls = 2
    MaxCopies = 2
    MaxSends = 1
    MaxEvents = 2
    ClockSkew = 2
    MaxClock = 5
CONSTRAINT OneStory
SYMMETRY Either
INVARIANTS
    DecisionsConsistent
    InvitationAdmitsOne
    PairsAgree
    DeliveredOnce
PROPERTIES
    RevokedNeedsNew
