SPECIFICATION Spec
CONSTANTS
    MaxReleases = 3
    MaxEdits = 1
    None = None
INVARIANTS
    CommittedTreeIsItsRelease
    OffersAreCommitted
PROPERTIES
    FailedCommitLeavesNoTrace
    PublishedIsImmutable
