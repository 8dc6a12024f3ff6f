\* Two jobs on one git project, one restart, every Discord and git call may fail.
SPECIFICATION Spec
CONSTANTS
    j1 = j1
    j2 = j2
    repo = repo
    plain = plain
    Jobs <- MCJobs
    Projects <- OneProject
    JobProject <- SameProject
    GitProjects <- OneProject
    GcProjects <- OneProject
    Tiers <- AllTiers
    MaxCrashes = 1
    EvaluatorEnabled = TRUE
    DiscordMayFail = TRUE
    HostMayFail = TRUE
SYMMETRY Symmetry
VIEW LiveState
INVARIANTS TypeOK NoUnapprovedMerge CancelIsFinal ProjectExclusive OneRunning RejectedNeverLands
PROPERTIES ImplementsLifecycle ReviewableKept
