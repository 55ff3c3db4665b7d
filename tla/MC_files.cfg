SPECIFICATION Spec
CONSTANTS
    f1 = f1  f2 = f2  old = old  d1 = d1
    Files = {f1, f2, old}
    Restored = {old}
    NoFile = NoFile
    Removers = {d1}
    Size <- FileSizes
    MaxUpload = 2
    Quota = 2
    MaxParallel = 2
    MaxRemovals = 1
    MaxCleanups = 1
    MaxFaults = 2
INVARIANTS
    AnswersStand
    QuotaOvershootBounded
PROPERTIES
    FilesLive
