\* A chain of three tasks under a cap of two, a rival job, an operator in the checkout.
SPECIFICATION FairSpec
CONSTANTS
    c1 = c1
    Chains <- OneChain
    Tasks <- ThreeTasks
    AutoMaxJobs = 2
    MaxMoves = 2
    DiscordMayFail = TRUE
    HostMayFail = TRUE
INVARIANTS TypeOK ChainInOrder BuildsOnPredecessor NoMarkersLeft LandedIsDone CancelStopsChain
PROPERTIES ReviewedIsMerged OwnMergeKept ChainEnds
