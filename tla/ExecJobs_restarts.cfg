\* A job on a git project and one on a directory without git, two restarts.
SPECIFICATION FairSpec
CONSTANTS
    j1 = j1
    j2 = j2
    repo = repo
    plain = plain
    Jobs <- MCJobs
    Projects <- TwoProjects
    JobProject <- OwnProject
    GitProjects <- OneProject
    GcProjects <- OneProject
    Tiers <- AllTiers
    MaxCrashes = 2
    EvaluatorEnabled = TRUE
    DiscordMayFail = TRUE
    HostMayFail = FALSE
INVARIANT ReviewableHasBranch
PROPERTY EveryJobSettles
