SPECIFICATION Spec
CONSTANTS
    Files = {f1, f2}
    Snapshots = {s1, s2}
    StartPaused = FALSE
    MaxWork = 2
    Partial = Partial
    None = None
SYMMETRY Alike
INVARIANTS
    StoresAgree
    CheckpointIsOneMoment
PROPERTY InterlockEndsItsRestore
