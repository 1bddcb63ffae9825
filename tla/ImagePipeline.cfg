SPECIFICATION Spec
CONSTANTS
    ReleaseImages <- MCReleaseImages
    Trees <- MCTrees
    Modules = {"a", "b", "c"}
    MaxVersion = 2
    MaxCommit = 2
    ReleaseCommits = {1}
    MaxRuns = 2
    MaxAttempts = 2
INVARIANTS VerifiedWasInspected ReleaseIsItsCommit EveryDifferenceExplained
CHECK_DEADLOCK FALSE
