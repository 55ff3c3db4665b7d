SPECIFICATION Spec
CONSTANTS
    s1 = s1  s2 = s2  o1 = o1  o2 = o2  r1 = r1  r2 = r2
    Procs <- AllProcs
    Servers = {s1, s2}
    Operators = {o1, o2}
    Nobody = Nobody
    Databases <- BothDatabases
    Current = 3
    PolicyVersion = 2
    RolesVersion = 3
    Releases = {1, 3}
    Nothing <- NewContent
    Rows = {r1}
    Foreign <- OtherBundles
    MaxOps = 4
    MaxArchives = 1
    MaxFaults = 1
CONSTRAINT OneStory
SYMMETRY Interchangeable
INVARIANTS
    StartupSound
    ArchivesWhole
    ImportedOnce
    MigrationVerdict
