----------------------------- MODULE MCExecJobs -----------------------------
(* Instances of ExecJobs for TLC. *)
EXTENDS ExecJobs, TLC

CONSTANTS j1, j2, repo, plain

\* Both jobs on one git project: they compete for the project and its lock.
MCJobs == {j1, j2}
OneProject == {repo}
SameProject == [j \in MCJobs |-> repo]

\* One job per project, one of them without git: no diff gate there.
TwoProjects == {repo, plain}
OwnProject == [j \in MCJobs |-> IF j = j1 THEN repo ELSE plain]

\* The default deployment has no auto tier.
AllTiers == {"edit", "auto"}
EditOnly == {"edit"}

Symmetry == Permutations(MCJobs)

(* A view: states that differ only in a tier that nothing reads any more are one.  CheckDiff is
   the last step that reads it, and of the properties NoUnapprovedMerge alone, of a job with
   both automatic signals.  *)
TierRead(j) ==
    \/ {"verify", "evaluator"} \subseteq approvals[j]
    \/ pc[<<"driver", j>>] \notin {"new", "over", "salvage", "salvageDiff", "advise", "gatePost",
                                  "gate", "mergeLock", "merging", "mergedRet", "dropTree",
                                  "dropBranch", "parkTree"}

LiveState ==
    <<registry, recorded, git, [j \in {k \in Jobs : TierRead(k)} |-> mode[j]], pc, kind, running,
      gate, boot, decisions>>
=============================================================================
