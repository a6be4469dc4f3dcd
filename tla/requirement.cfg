SPECIFICATION Spec
CONSTANTS
    Names = {n1}
    MaxReleases = 2
    MaxCrashes = 1
    None = None
INVARIANTS SatisfiedByARelease HandledMeansAttached
PROPERTIES ResumedOnItsRelease WaitIsAnswered
