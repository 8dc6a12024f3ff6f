\* The claim of SPEC.md:216 about a restart.
SPECIFICATION Spec
CONSTANTS
    j1 = j1
    j2 = j2
    repo = repo
    plain = plain
    Jobs <- MCJobs
    Projects <- OneProject
    JobProject <- SameProject
    GitProjects <- OneProject
    GcProjects <- OneProject
    Tiers <- EditOnly
    MaxCrashes = 1
    EvaluatorEnabled = FALSE
    DiscordMayFail = FALSE
    HostMayFail = FALSE
PROPERTY RestartKeepsWork
