\* The claim of SPEC.md:230 about the work of a job.
SPECIFICATION Spec
CONSTANTS
    j1 = j1
    j2 = j2
    repo = repo
    plain = plain
    Jobs <- MCJobs
    Projects <- OneProject
    JobProject <- SameProject
    GitProjects <- OneProject
    GcProjects <- OneProject
    Tiers <- EditOnly
    MaxCrashes = 0
    EvaluatorEnabled = FALSE
    DiscordMayFail = TRUE
    HostMayFail = FALSE
PROPERTY WorkOnlyDroppedByDecision
