\* The claim of spec.md:15-17 about a cancelled job.
SPECIFICATION Spec
CONSTANTS
    j1 = j1
    j2 = j2
    repo = repo
    plain = plain
    Jobs <- MCJobs
    Projects <- OneProject
    JobProject <- SameProject
    GitProjects <- OneProject
    GcProjects <- OneProject
    Tiers <- EditOnly
    MaxCrashes = 0
    EvaluatorEnabled = FALSE
    DiscordMayFail = FALSE
    HostMayFail = FALSE
INVARIANT CancelLeavesNoTrace
