SPECIFICATION Spec
CONSTANTS
    Decls = {d1, d2}
    LastStage = 2
    Goals = {2}
    AgentReviewed = {2}
    MaxRetries = 1
    MaxRounds = 2
    MaxRevisions = 2
    MaxTasks = 2
    MaxRestarts = 1
CHECK_DEADLOCK FALSE
SYMMETRY Symmetry
CONSTRAINTS
    RoundsAhead
    RoundsOrTasks
    NoneDropped
INVARIANTS
    OpenRevisionsBelongToRound
    RunningHasItsFlow
    SuccessIsEarned
    ReadyMeansClosed
PROPERTIES
    AdvanceIsReviewed
    ClosedIsFinal
