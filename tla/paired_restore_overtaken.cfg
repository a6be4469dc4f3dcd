SPECIFICATION Spec
CONSTANTS
    Files = {f1}
    Snapshots = {s1}
    StartPaused = TRUE
    MaxWork = 2
    Partial = Partial
    None = None
PROPERTY WorkWaitsForRestore
