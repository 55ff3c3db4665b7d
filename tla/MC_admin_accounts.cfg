SPECIFICATION Spec
CONSTANTS
    ada = ada  ben = ben  p1 = p1  p2 = p2
    Nobody = Nobody
    Admins = {ada, ben}
    Procs = {p1, p2}
    MaxOps = 3
    MaxSessions = 2
    MaxFaults = 1
CONSTRAINT OneStory
SYMMETRY Symmetric
INVARIANTS
    AdministratorAlways
    ModelFollows
    PasswordChangeEvicts
