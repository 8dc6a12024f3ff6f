\* The claim of jobs.py:170-172 about a second job.
SPECIFICATION Spec
CONSTANTS
    j1 = j1
    j2 = j2
    repo = repo
    plain = plain
    Jobs <- MCJobs
    Projects <- OneProject
    JobProject <- SameProject
    GitProjects <- OneProject
    GcProjects <- OneProject
    Tiers <- EditOnly
    MaxCrashes = 0
    EvaluatorEnabled = FALSE
    DiscordMayFail = FALSE
    HostMayFail = FALSE
INVARIANT OneOccupant
