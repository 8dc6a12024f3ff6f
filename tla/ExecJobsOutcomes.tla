-------------------------- MODULE ExecJobsOutcomes --------------------------
(* What becomes of a job's change, for every value of the constants of ExecJobs: theorems that
   rest on the invariant of ExecJobsProofs, among them that ExecJobs implements JobLifecycle. *)
EXTENDS ExecJobsProofs

(* The mirror follows the status; after a restart it is the status that follows. *)
MirrorInv(j) ==
    /\ status[j] = "running" => mirror[j] = "running"
    /\ status[j] = "merging" => mirror[j] = "merging"
    /\ status[j] = "awaiting_review" => Reviewable(j)
    /\ Reviewable(j) /\ j \notin todo => status[j] \in {"awaiting_review", "merging"}
    /\ j \in orphans => mirror[j] = "orphaned"
    /\ phase = "starting" => status[j] \in {"none", "awaiting_review"}

(* A job that was not handed out has no signals; a gate is answered at its message; a merge that
   git has made is known to be made. *)
SignalInv(j) ==
    /\ At("driver", j, "new") => approvals[j] = {} /\ ~rejected[j]
    /\ gate[j] # "none" => At("driver", j, "gate")
    /\ \A a \in Actors : At(a, j, "mergedRet") => merged[j]

(* Nothing can ask any more for the change of a job that is closed in memory and on disk. *)
Shut(j) == status[j] \in {"done", "none"} /\ mirror[j] \in {"done", "none"}

(* A refused job is closed, and so is a landed one as soon as the bridge took up git's answer;
   a job that is both landed unknown to the bridge. *)
RejectInv(j) ==
    /\ rejected[j] => Shut(j)
    /\ merged[j] /\ ~unreported[j] => Shut(j) \/ \E a \in Actors : At(a, j, "mergedRet")
    /\ rejected[j] /\ merged[j] => unreported[j]

(* Where the driver of a job has its branch, and where only that of a job with git can be. *)
WithBranch == {"branched", "ingest", "queue", "killing", "running", "settling", "salvage",
               "salvageDiff", "reply", "commit", "diffing", "advise", "gatePost", "gate",
               "verify", "evaluate", "auditPark", "auditMerge"}
OnlyGit == {"branching", "branched", "salvage", "salvageDiff", "commit", "diffing", "advise",
            "gatePost", "gate", "verify", "evaluate", "auditPark", "auditMerge"}
Dropping == {"dropTree", "dropBranch"}

(* A branch is dropped only when nothing can ask for it any more. *)
BranchInv(j) ==
    /\ pc[<<"driver", j>>] \in OnlyGit => IsGit(j)
    /\ pc[<<"command", j>>] \in Dropping => status[j] = "done"
    /\ pc[<<"driver", j>>] \in Dropping => status[j] \notin Occupying
    /\ ~HostMayFail =>
          /\ pc[<<"driver", j>>] \in WithBranch /\ IsGit(j) => branch[j] # "absent"
          /\ status[j] \in {"awaiting_review", "merging"} \/ Reviewable(j) => branch[j] # "absent"

OutcomeInv(j) == MirrorInv(j) /\ SignalInv(j) /\ RejectInv(j) /\ BranchInv(j)

Outcomes == \A j \in Jobs : OutcomeInv(j)

-----------------------------------------------------------------------------
(* What a step of job j does to the fate of its change, as JobLifecycle has it. *)
FateMove(j) ==
    \/ /\ Fate(j)' = Fate(j)
       /\ Approved(j) => Approved(j)'
       /\ rejected[j] => rejected'[j]
       /\ \/ rejected'[j] <=> rejected[j]
          \/ (Approved(j)' <=> Approved(j)) /\ Fate(j) \in {"landed", "closed"}
    \/ /\ Approved(j)' <=> Approved(j)
       /\ rejected'[j] <=> rejected[j]
       /\ \/ Fate(j) = "fresh" /\ Fate(j)' = "working"
          \/ Fate(j) = "working" /\ Fate(j)' \in {"reviewable", "closed"}
          \/ Fate(j) = "reviewable" /\ Fate(j)' = "landed" /\ Approved(j)
    \/ /\ Approved(j)' <=> Approved(j)
       /\ rejected'[j]
       /\ Fate(j) \in {"working", "reviewable"} /\ Fate(j)' = "closed"

(* What each action of job j is shown to do here. *)
OutcomeStep(j) == OutcomeInv(j)' /\ FateMove(j) /\ crashes' = crashes

(* A job whose slice did not change keeps all that is said of it. *)
LEMMA SliceKeepsOutcome ==
    ASSUME NEW k \in Jobs, OutcomeInv(k), SameSlice(k), crashes' = crashes
    PROVE  /\ OutcomeInv(k)'
           /\ Fate(k)' = Fate(k) /\ Approved(k)' = Approved(k) /\ rejected'[k] = rejected[k]
<1> USE DEF SameSlice, OutcomeInv, At, Actors
<1>1. MirrorInv(k)' BY DEF MirrorInv, Reviewable
<1>2. SignalInv(k)' BY DEF SignalInv
<1>3. RejectInv(k)' BY DEF RejectInv, Shut
<1>4. BranchInv(k)' BY DEF BranchInv, IsGit, Reviewable
<1>5. Fate(k)' = Fate(k) BY DEF Fate, Reviewable, Salvaging
<1>6. Approved(k)' = Approved(k) BY DEF Approved
<1>7. QED BY <1>1, <1>2, <1>3, <1>4, <1>5, <1>6

-----------------------------------------------------------------------------
(* One lemma per action of a job. *)

(* The status message goes out, or the job fails before it began. *)
LEMMA PostStatusOutcome ==
    ASSUME TypeOK, NEW j \in Jobs, JobInv(j), OutcomeInv(j), PostStatus(j)
    PROVE  OutcomeStep(j)
<1>1. \/ FinallyEffect(j, FALSE)
      \/ Stays(j) /\ \E l \in {"branching", "ingest"} : Goes("driver", j, l)
      \/ Becomes(j, "failed") /\ Goes("driver", j, "over")
  BY FinallyDoes, SetStatusBecomes, RegistryStays, GotoGoes DEF PostStatus, Statuses,
      PcLabels, Actors
<1>2. MirrorInv(j)'
  BY <1>1 DEF PostStatus, FinallyEffect, Stays, Becomes, Goes, TypeOK, Actors, At, registry,
      git, running, decisions, boot, JobInv, FreshInv, StatusInv, StartupInv, Salvaging,
      Driving, MergePcs, OutcomeInv, MirrorInv, Reviewable, CancelInv, Occupying
<1>3. SignalInv(j)'
  BY <1>1 DEF PostStatus, FinallyEffect, Stays, Becomes, Goes, TypeOK, Actors, At, registry,
      git, running, decisions, boot, JobInv, FreshInv, StatusInv, StartupInv, Salvaging,
      Driving, MergePcs, OutcomeInv, SignalInv
<1>4. RejectInv(j)'
  BY <1>1 DEF PostStatus, FinallyEffect, Stays, Becomes, Goes, TypeOK, Actors, At, registry,
      git, running, decisions, boot, JobInv, FreshInv, StatusInv, StartupInv, Salvaging,
      Driving, MergePcs, OutcomeInv, SignalInv, RejectInv, Shut
<1>5. BranchInv(j)'
  <2>1. /\ pc'[<<"driver", j>>] = "branching" => IsGit(j)
        /\ pc'[<<"driver", j>>] = "ingest" => ~IsGit(j)
    <3>1. CASE Finally(j, FALSE)
      BY <3>1, FinallyDoes DEF FinallyEffect, Goes, TypeOK, Actors
    <3>2. ASSUME NEW l \in PcLabels, Goto("driver", j, l) PROVE pc'[<<"driver", j>>] = l
      BY <3>2, GotoGoes DEF Goes, Actors
    <3>3. CASE Goto("driver", j, "over")
      BY <3>2, <3>3 DEF PcLabels
    <3>4. CASE Goto("driver", j, IF IsGit(j) THEN "branching" ELSE "ingest")
      <4>1. CASE IsGit(j)
        BY <3>2, <3>4, <4>1 DEF PcLabels
      <4>2. CASE ~IsGit(j)
        BY <3>2, <3>4, <4>2 DEF PcLabels
      <4>3. QED BY <4>1, <4>2
    <3>5. QED BY <3>1, <3>3, <3>4 DEF PostStatus
  <2>2. QED BY <1>1, <2>1 DEF PostStatus, FinallyEffect, Stays, Becomes, Goes, TypeOK,
      Actors, At, git, JobInv, FreshInv, StatusInv, StartupInv, Salvaging, Driving,
      MergePcs, OutcomeInv, MirrorInv, Reviewable, BranchInv, WithBranch, OnlyGit, Dropping,
      IsGit, Occupying
<1>6. FateMove(j)
  BY <1>1 DEF PostStatus, FinallyEffect, Stays, Becomes, Goes, TypeOK, Actors, At, registry,
      git, running, decisions, boot, JobInv, FreshInv, StatusInv, StartupInv, Salvaging,
      Driving, MergePcs, OutcomeInv, MirrorInv, SignalInv, Reviewable, FateMove, Fate,
      Approved, ApprovalInv
<1>7. crashes' = crashes
  BY DEF PostStatus, boot
<1>8. QED BY <1>2, <1>3, <1>4, <1>5, <1>6, <1>7 DEF OutcomeStep, OutcomeInv

(* A fresh job id is handed out: the job's change is working, with no signal given. *)
LEMMA StartOutcome ==
    ASSUME TypeOK, NEW j \in Jobs, NEW m \in Tiers, JobInv(j), OutcomeInv(j), Start(j, m)
    PROVE  OutcomeStep(j)
<1>1. Becomes(j, "running") /\ \E l \in {"posting", "announcing"} : Goes("driver", j, l)
  BY SetStatusBecomes, GotoGoes DEF Start, Statuses, PcLabels, Actors
<1>2. MirrorInv(j)'
  BY <1>1 DEF Start, Becomes, Goes, MayStart, TypeOK, Actors, At, git, running, decisions,
      boot, JobInv, FreshInv, StatusInv, StartupInv, Salvaging, Driving, MergePcs,
      OutcomeInv, MirrorInv, Reviewable, CancelInv, Occupying
<1>3. SignalInv(j)'
  BY <1>1 DEF Start, Becomes, Goes, MayStart, TypeOK, Actors, At, git, running, decisions,
      boot, JobInv, FreshInv, StatusInv, StartupInv, Salvaging, Driving, MergePcs,
      OutcomeInv, SignalInv
<1>4. RejectInv(j)'
  BY <1>1 DEF Start, Becomes, Goes, MayStart, TypeOK, Actors, At, git, running, decisions,
      boot, JobInv, FreshInv, StatusInv, StartupInv, Salvaging, Driving, MergePcs,
      OutcomeInv, SignalInv, RejectInv, Shut
<1>5. BranchInv(j)'
  BY <1>1 DEF Start, Becomes, Goes, MayStart, TypeOK, Actors, At, git, running, decisions,
      boot, JobInv, FreshInv, StatusInv, StartupInv, Salvaging, Driving, MergePcs,
      OutcomeInv, MirrorInv, Reviewable, BranchInv, WithBranch, OnlyGit, Dropping, IsGit,
      Occupying
<1>6. FateMove(j)
  BY <1>1 DEF Start, Becomes, Goes, MayStart, TypeOK, Actors, At, git, running, decisions,
      boot, JobInv, FreshInv, StatusInv, StartupInv, Salvaging, Driving, MergePcs,
      OutcomeInv, MirrorInv, SignalInv, Reviewable, FateMove, Fate, Approved, ApprovalInv
<1>7. crashes' = crashes
  BY DEF Start, boot
<1>8. QED BY <1>2, <1>3, <1>4, <1>5, <1>6, <1>7 DEF OutcomeStep, OutcomeInv

(* A chain's progress line goes out, or leaves a running job that nobody drives. *)
LEMMA AnnounceOutcome ==
    ASSUME TypeOK, NEW j \in Jobs, JobInv(j), OutcomeInv(j), Announce(j)
    PROVE  OutcomeStep(j)
<1>1. Stays(j) /\ \E l \in {"posting", "over"} : Goes("driver", j, l)
  BY RegistryStays, GotoGoes DEF Announce, Statuses, PcLabels, Actors
<1>2. MirrorInv(j)'
  BY <1>1 DEF Announce, Stays, Goes, TypeOK, Actors, At, registry, git, running, decisions,
      boot, JobInv, FreshInv, StatusInv, StartupInv, Salvaging, Driving, MergePcs,
      OutcomeInv, MirrorInv, Reviewable, CancelInv, Occupying
<1>3. SignalInv(j)'
  BY <1>1 DEF Announce, Stays, Goes, TypeOK, Actors, At, registry, git, running, decisions,
      boot, JobInv, FreshInv, StatusInv, StartupInv, Salvaging, Driving, MergePcs,
      OutcomeInv, SignalInv
<1>4. RejectInv(j)'
  BY <1>1 DEF Announce, Stays, Goes, TypeOK, Actors, At, registry, git, running, decisions,
      boot, JobInv, FreshInv, StatusInv, StartupInv, Salvaging, Driving, MergePcs,
      OutcomeInv, SignalInv, RejectInv, Shut
<1>5. BranchInv(j)'
  BY <1>1 DEF Announce, Stays, Goes, TypeOK, Actors, At, registry, git, running, decisions,
      boot, JobInv, FreshInv, StatusInv, StartupInv, Salvaging, Driving, MergePcs,
      OutcomeInv, MirrorInv, Reviewable, BranchInv, WithBranch, OnlyGit, Dropping, IsGit,
      Occupying
<1>6. FateMove(j)
  BY <1>1 DEF Announce, Stays, Goes, TypeOK, Actors, At, registry, git, running, decisions,
      boot, JobInv, FreshInv, StatusInv, StartupInv, Salvaging, Driving, MergePcs,
      OutcomeInv, MirrorInv, SignalInv, Reviewable, FateMove, Fate, Approved, ApprovalInv
<1>7. crashes' = crashes
  BY DEF Announce, boot
<1>8. QED BY <1>2, <1>3, <1>4, <1>5, <1>6, <1>7 DEF OutcomeStep, OutcomeInv

(* A driver goes on only with a branch; a failed git call closes the job. *)
LEMMA CreateWorktreeOutcome ==
    ASSUME TypeOK, NEW j \in Jobs, JobInv(j), OutcomeInv(j), CreateWorktree(j)
    PROVE  OutcomeStep(j)
<1>1. \/ Stays(j) /\ Goes("driver", j, "branched")
      \/ Becomes(j, "failed") /\ Goes("driver", j, "over")
      \/ FinallyEffect(j, FALSE)
  BY FinallyDoes, SetStatusBecomes, RegistryStays, GotoGoes DEF CreateWorktree, Statuses,
      PcLabels, Actors
<1>2. MirrorInv(j)'
  BY <1>1 DEF CreateWorktree, FinallyEffect, Stays, Becomes, Goes, TypeOK, Actors, At,
      registry, running, decisions, boot, JobInv, FreshInv, StatusInv, StartupInv,
      Salvaging, Driving, MergePcs, OutcomeInv, MirrorInv, Reviewable, CancelInv, Occupying
<1>3. SignalInv(j)'
  BY <1>1 DEF CreateWorktree, FinallyEffect, Stays, Becomes, Goes, TypeOK, Actors, At,
      registry, running, decisions, boot, JobInv, FreshInv, StatusInv, StartupInv,
      Salvaging, Driving, MergePcs, OutcomeInv, SignalInv
<1>4. RejectInv(j)'
  BY <1>1 DEF CreateWorktree, FinallyEffect, Stays, Becomes, Goes, TypeOK, Actors, At,
      registry, running, decisions, boot, JobInv, FreshInv, StatusInv, StartupInv,
      Salvaging, Driving, MergePcs, OutcomeInv, SignalInv, RejectInv, Shut
<1>5. BranchInv(j)'
  <2>1. pc'[<<"driver", j>>] = "branched" => branch'[j] # "absent"
    BY DiscardLabels DEF CreateWorktree, Finally, Goto, TypeOK, Actors, At
  <2>2. QED BY <1>1, <2>1 DEF CreateWorktree, FinallyEffect, Stays, Becomes, Goes, TypeOK,
      Actors, At, git, JobInv, FreshInv, StatusInv, StartupInv, Salvaging, Driving,
      MergePcs, OutcomeInv, MirrorInv, Reviewable, BranchInv, WithBranch, OnlyGit, Dropping,
      IsGit, Occupying
<1>6. FateMove(j)
  BY <1>1 DEF CreateWorktree, FinallyEffect, Stays, Becomes, Goes, TypeOK, Actors, At,
      registry, running, decisions, boot, JobInv, FreshInv, StatusInv, StartupInv,
      Salvaging, Driving, MergePcs, OutcomeInv, MirrorInv, SignalInv, Reviewable, FateMove,
      Fate, Approved, ApprovalInv
<1>7. crashes' = crashes
  BY DEF CreateWorktree, boot
<1>8. QED BY <1>2, <1>3, <1>4, <1>5, <1>6, <1>7 DEF OutcomeStep, OutcomeInv

(* Recording the worktree decides nothing about the change. *)
LEMMA RecordWorktreeOutcome ==
    ASSUME TypeOK, NEW j \in Jobs, JobInv(j), OutcomeInv(j), RecordWorktree(j)
    PROVE  OutcomeStep(j)
<1>1. Stays(j) /\ Goes("driver", j, "ingest")
  BY RegistryStays, GotoGoes DEF RecordWorktree, Statuses, PcLabels, Actors
<1>2. MirrorInv(j)'
  BY <1>1 DEF RecordWorktree, Stays, Goes, TypeOK, Actors, At, registry, git, running,
      decisions, boot, JobInv, FreshInv, StatusInv, StartupInv, Salvaging, Driving,
      MergePcs, OutcomeInv, MirrorInv, Reviewable, CancelInv, Occupying
<1>3. SignalInv(j)'
  BY <1>1 DEF RecordWorktree, Stays, Goes, TypeOK, Actors, At, registry, git, running,
      decisions, boot, JobInv, FreshInv, StatusInv, StartupInv, Salvaging, Driving,
      MergePcs, OutcomeInv, SignalInv
<1>4. RejectInv(j)'
  BY <1>1 DEF RecordWorktree, Stays, Goes, TypeOK, Actors, At, registry, git, running,
      decisions, boot, JobInv, FreshInv, StatusInv, StartupInv, Salvaging, Driving,
      MergePcs, OutcomeInv, SignalInv, RejectInv, Shut
<1>5. BranchInv(j)'
  BY <1>1 DEF RecordWorktree, Stays, Goes, TypeOK, Actors, At, registry, git, running,
      decisions, boot, JobInv, FreshInv, StatusInv, StartupInv, Salvaging, Driving,
      MergePcs, OutcomeInv, MirrorInv, Reviewable, BranchInv, WithBranch, OnlyGit, Dropping,
      IsGit, Occupying
<1>6. FateMove(j)
  BY <1>1 DEF RecordWorktree, Stays, Goes, TypeOK, Actors, At, registry, git, running,
      decisions, boot, JobInv, FreshInv, StatusInv, StartupInv, Salvaging, Driving,
      MergePcs, OutcomeInv, MirrorInv, SignalInv, Reviewable, FateMove, Fate, Approved,
      ApprovalInv
<1>7. crashes' = crashes
  BY DEF RecordWorktree, boot
<1>8. QED BY <1>2, <1>3, <1>4, <1>5, <1>6, <1>7 DEF OutcomeStep, OutcomeInv

(* Attachments come in; the change stays working. *)
LEMMA IngestOutcome ==
    ASSUME TypeOK, NEW j \in Jobs, JobInv(j), OutcomeInv(j), Ingest(j)
    PROVE  OutcomeStep(j)
<1>1. Stays(j) /\ \E l \in {"queue", "unwind"} : Goes("driver", j, l)
  BY RegistryStays, GotoGoes DEF Ingest, Statuses, PcLabels, Actors
<1>2. MirrorInv(j)'
  BY <1>1 DEF Ingest, Stays, Goes, TypeOK, Actors, At, registry, git, running, decisions,
      boot, JobInv, FreshInv, StatusInv, StartupInv, Salvaging, Driving, MergePcs,
      OutcomeInv, MirrorInv, Reviewable, CancelInv, Occupying
<1>3. SignalInv(j)'
  BY <1>1 DEF Ingest, Stays, Goes, TypeOK, Actors, At, registry, git, running, decisions,
      boot, JobInv, FreshInv, StatusInv, StartupInv, Salvaging, Driving, MergePcs,
      OutcomeInv, SignalInv
<1>4. RejectInv(j)'
  BY <1>1 DEF Ingest, Stays, Goes, TypeOK, Actors, At, registry, git, running, decisions,
      boot, JobInv, FreshInv, StatusInv, StartupInv, Salvaging, Driving, MergePcs,
      OutcomeInv, SignalInv, RejectInv, Shut
<1>5. BranchInv(j)'
  BY <1>1 DEF Ingest, Stays, Goes, TypeOK, Actors, At, registry, git, running, decisions,
      boot, JobInv, FreshInv, StatusInv, StartupInv, Salvaging, Driving, MergePcs,
      OutcomeInv, MirrorInv, Reviewable, BranchInv, WithBranch, OnlyGit, Dropping, IsGit,
      Occupying
<1>6. FateMove(j)
  BY <1>1 DEF Ingest, Stays, Goes, TypeOK, Actors, At, registry, git, running, decisions,
      boot, JobInv, FreshInv, StatusInv, StartupInv, Salvaging, Driving, MergePcs,
      OutcomeInv, MirrorInv, SignalInv, Reviewable, FateMove, Fate, Approved, ApprovalInv
<1>7. crashes' = crashes
  BY DEF Ingest, boot
<1>8. QED BY <1>2, <1>3, <1>4, <1>5, <1>6, <1>7 DEF OutcomeStep, OutcomeInv

(* The agent starts, or the spawn fails; the change stays working. *)
LEMMA SpawnOutcome ==
    ASSUME TypeOK, NEW j \in Jobs, JobInv(j), OutcomeInv(j), Spawn(j)
    PROVE  OutcomeStep(j)
<1>1. Stays(j) /\ \E l \in {"killing", "running", "unwind"} : Goes("driver", j, l)
  BY RegistryStays, GotoGoes DEF Spawn, Statuses, PcLabels, Actors
<1>2. MirrorInv(j)'
  BY <1>1 DEF Spawn, Stays, Goes, TypeOK, Actors, At, registry, git, running, decisions,
      boot, JobInv, FreshInv, StatusInv, StartupInv, Salvaging, Driving, MergePcs,
      OutcomeInv, MirrorInv, Reviewable, CancelInv, Occupying
<1>3. SignalInv(j)'
  BY <1>1 DEF Spawn, Stays, Goes, TypeOK, Actors, At, registry, git, running, decisions,
      boot, JobInv, FreshInv, StatusInv, StartupInv, Salvaging, Driving, MergePcs,
      OutcomeInv, SignalInv
<1>4. RejectInv(j)'
  BY <1>1 DEF Spawn, Stays, Goes, TypeOK, Actors, At, registry, git, running, decisions,
      boot, JobInv, FreshInv, StatusInv, StartupInv, Salvaging, Driving, MergePcs,
      OutcomeInv, SignalInv, RejectInv, Shut
<1>5. BranchInv(j)'
  BY <1>1 DEF Spawn, Stays, Goes, TypeOK, Actors, At, registry, git, running, decisions,
      boot, JobInv, FreshInv, StatusInv, StartupInv, Salvaging, Driving, MergePcs,
      OutcomeInv, MirrorInv, Reviewable, BranchInv, WithBranch, OnlyGit, Dropping, IsGit,
      Occupying
<1>6. FateMove(j)
  BY <1>1 DEF Spawn, Stays, Goes, TypeOK, Actors, At, registry, git, running, decisions,
      boot, JobInv, FreshInv, StatusInv, StartupInv, Salvaging, Driving, MergePcs,
      OutcomeInv, MirrorInv, SignalInv, Reviewable, FateMove, Fate, Approved, ApprovalInv
<1>7. crashes' = crashes
  BY DEF Spawn, boot
<1>8. QED BY <1>2, <1>3, <1>4, <1>5, <1>6, <1>7 DEF OutcomeStep, OutcomeInv

(* Whatever the agent does to its branch, the branch is there afterwards. *)
LEMMA AgentStepOutcome ==
    ASSUME TypeOK, NEW j \in Jobs, JobInv(j), OutcomeInv(j), AgentStep(j)
    PROVE  OutcomeStep(j)
<1>1. Stays(j) /\ UNCHANGED pc
  BY RegistryStays DEF AgentStep, Statuses, Actors, git, running, decisions
<1>2. MirrorInv(j)'
  BY <1>1 DEF AgentStep, Stays, TypeOK, Actors, At, registry, running, decisions, boot,
      JobInv, FreshInv, StatusInv, StartupInv, Salvaging, Driving, MergePcs, OutcomeInv,
      MirrorInv, Reviewable, CancelInv, Occupying
<1>3. SignalInv(j)'
  BY <1>1 DEF AgentStep, Stays, TypeOK, Actors, At, registry, running, decisions, boot,
      JobInv, FreshInv, StatusInv, StartupInv, Salvaging, Driving, MergePcs, OutcomeInv,
      SignalInv
<1>4. RejectInv(j)'
  BY <1>1 DEF AgentStep, Stays, TypeOK, Actors, At, registry, running, decisions, boot,
      JobInv, FreshInv, StatusInv, StartupInv, Salvaging, Driving, MergePcs, OutcomeInv,
      SignalInv, RejectInv, Shut
<1>5. BranchInv(j)'
  BY <1>1 DEF AgentStep, Stays, TypeOK, Actors, At, registry, running, decisions, boot,
      JobInv, FreshInv, StatusInv, StartupInv, Salvaging, Driving, MergePcs, OutcomeInv,
      MirrorInv, Reviewable, BranchInv, WithBranch, OnlyGit, Dropping, IsGit, Occupying
<1>6. FateMove(j)
  BY <1>1 DEF AgentStep, Stays, TypeOK, Actors, At, registry, running, decisions, boot,
      JobInv, FreshInv, StatusInv, StartupInv, Salvaging, Driving, MergePcs, OutcomeInv,
      MirrorInv, SignalInv, Reviewable, FateMove, Fate, Approved, ApprovalInv
<1>7. crashes' = crashes
  BY DEF AgentStep, boot
<1>8. QED BY <1>2, <1>3, <1>4, <1>5, <1>6, <1>7 DEF OutcomeStep, OutcomeInv

(* The end of the run is only noted; the change stays working. *)
LEMMA FinishRunOutcome ==
    ASSUME TypeOK, NEW j \in Jobs, JobInv(j), OutcomeInv(j), FinishRun(j)
    PROVE  OutcomeStep(j)
<1>1. Stays(j) /\ Goes("driver", j, "settling")
  BY RegistryStays, GotoGoes DEF FinishRun, Statuses, PcLabels, Actors
<1>2. MirrorInv(j)'
  BY <1>1 DEF FinishRun, Stays, Goes, RunMayEnd, TypeOK, Actors, At, registry, git,
      decisions, boot, JobInv, FreshInv, StatusInv, StartupInv, Salvaging, Driving,
      MergePcs, OutcomeInv, MirrorInv, Reviewable, CancelInv, Occupying
<1>3. SignalInv(j)'
  BY <1>1 DEF FinishRun, Stays, Goes, RunMayEnd, TypeOK, Actors, At, registry, git,
      decisions, boot, JobInv, FreshInv, StatusInv, StartupInv, Salvaging, Driving,
      MergePcs, OutcomeInv, SignalInv
<1>4. RejectInv(j)'
  BY <1>1 DEF FinishRun, Stays, Goes, RunMayEnd, TypeOK, Actors, At, registry, git,
      decisions, boot, JobInv, FreshInv, StatusInv, StartupInv, Salvaging, Driving,
      MergePcs, OutcomeInv, SignalInv, RejectInv, Shut
<1>5. BranchInv(j)'
  BY <1>1 DEF FinishRun, Stays, Goes, RunMayEnd, TypeOK, Actors, At, registry, git,
      decisions, boot, JobInv, FreshInv, StatusInv, StartupInv, Salvaging, Driving,
      MergePcs, OutcomeInv, MirrorInv, Reviewable, BranchInv, WithBranch, OnlyGit, Dropping,
      IsGit, Occupying
<1>6. FateMove(j)
  BY <1>1 DEF FinishRun, Stays, Goes, RunMayEnd, TypeOK, Actors, At, registry, git,
      decisions, boot, JobInv, FreshInv, StatusInv, StartupInv, Salvaging, Driving,
      MergePcs, OutcomeInv, MirrorInv, SignalInv, Reviewable, FateMove, Fate, Approved,
      ApprovalInv
<1>7. crashes' = crashes
  BY DEF FinishRun, boot
<1>8. QED BY <1>2, <1>3, <1>4, <1>5, <1>6, <1>7 DEF OutcomeStep, OutcomeInv

(* An exception before the commit closes the job. *)
LEMMA UnwindOutcome ==
    ASSUME TypeOK, NEW j \in Jobs, JobInv(j), OutcomeInv(j), Unwind(j)
    PROVE  OutcomeStep(j)
<1>1. FinallyEffect(j, FALSE)
  BY FinallyDoes DEF Unwind, Statuses, Actors
<1>2. MirrorInv(j)'
  BY <1>1 DEF Unwind, FinallyEffect, Stays, Becomes, Goes, TypeOK, Actors, At, git, running,
      decisions, boot, JobInv, FreshInv, StatusInv, StartupInv, Salvaging, Driving,
      MergePcs, OutcomeInv, MirrorInv, Reviewable, CancelInv, Occupying
<1>3. SignalInv(j)'
  BY <1>1 DEF Unwind, FinallyEffect, Stays, Becomes, Goes, TypeOK, Actors, At, git, running,
      decisions, boot, JobInv, FreshInv, StatusInv, StartupInv, Salvaging, Driving,
      MergePcs, OutcomeInv, SignalInv
<1>4. RejectInv(j)'
  BY <1>1 DEF Unwind, FinallyEffect, Stays, Becomes, Goes, TypeOK, Actors, At, git, running,
      decisions, boot, JobInv, FreshInv, StatusInv, StartupInv, Salvaging, Driving,
      MergePcs, OutcomeInv, SignalInv, RejectInv, Shut
<1>5. BranchInv(j)'
  BY <1>1 DEF Unwind, FinallyEffect, Stays, Becomes, Goes, TypeOK, Actors, At, git, running,
      decisions, boot, JobInv, FreshInv, StatusInv, StartupInv, Salvaging, Driving,
      MergePcs, OutcomeInv, MirrorInv, Reviewable, BranchInv, WithBranch, OnlyGit, Dropping,
      IsGit, Occupying
<1>6. FateMove(j)
  BY <1>1 DEF Unwind, FinallyEffect, Stays, Becomes, Goes, TypeOK, Actors, At, git, running,
      decisions, boot, JobInv, FreshInv, StatusInv, StartupInv, Salvaging, Driving,
      MergePcs, OutcomeInv, MirrorInv, SignalInv, Reviewable, FateMove, Fate, Approved,
      ApprovalInv
<1>7. crashes' = crashes
  BY DEF Unwind, boot
<1>8. QED BY <1>2, <1>3, <1>4, <1>5, <1>6, <1>7 DEF OutcomeStep, OutcomeInv

(* A run that did not finish is salvaged or closed; a cancelled one is closed. *)
LEMMA SettleOutcome ==
    ASSUME TypeOK, NEW j \in Jobs, JobInv(j), OutcomeInv(j), Settle(j)
    PROVE  OutcomeStep(j)
<1>1. \/ FinallyEffect(j, FALSE)
      \/ Stays(j) /\ Goes("driver", j, "reply")
      \/ /\ KindNow(j) \in {"timeout", "failed"} /\ Becomes(j, KindNow(j))
         /\ Goes("driver", j, "salvage")
      \/ /\ KindNow(j) \in Kinds \ {"done"} /\ Becomes(j, KindNow(j))
         /\ \E l \in {"dropTree", "over"} : Goes("driver", j, l)
  <2>1. CASE Finally(j, FALSE)
    BY <2>1, FinallyDoes
  <2>2. CASE KindNow(j) = "done" /\ Goto("driver", j, "reply") /\ UNCHANGED registry
    BY <2>2, RegistryStays, GotoGoes DEF PcLabels, Actors
  <2>3. CASE /\ KindNow(j) # "done"
             /\ SetStatus(j, KindNow(j))
             /\ Goto("driver", j, IF IsGit(j) /\ KindNow(j) # "cancelled"
                                  THEN "salvage" ELSE Discard(j))
    <3>1. KindNow(j) \in Kinds \ {"done"}
      BY <2>3 DEF KindNow, TypeOK, Kinds
    <3>2. KindNow(j) # "none"
      BY DEF KindNow, Settle, At, JobInv, StatusInv
    <3>3. Becomes(j, KindNow(j))
      BY <2>3, <3>1, SetStatusBecomes DEF Kinds, Statuses
    <3>4. CASE IsGit(j) /\ KindNow(j) # "cancelled"
      BY <2>3, <3>1, <3>2, <3>3, <3>4, GotoGoes DEF Kinds, PcLabels, Actors
    <3>5. CASE ~(IsGit(j) /\ KindNow(j) # "cancelled")
      BY <2>3, <3>1, <3>3, <3>5, GotoGoes, DiscardLabels DEF PcLabels, Actors
    <3>6. QED BY <3>4, <3>5
  <2>4. QED BY <2>1, <2>2, <2>3 DEF Settle
<1>2. MirrorInv(j)'
  BY <1>1 DEF Settle, FinallyEffect, Stays, Becomes, Goes, KindNow, TypeOK, Actors, At,
      registry, git, running, decisions, boot, JobInv, FreshInv, StatusInv, StartupInv,
      Salvaging, Driving, MergePcs, OutcomeInv, MirrorInv, Reviewable, CancelInv, Occupying
<1>3. SignalInv(j)'
  BY <1>1 DEF Settle, FinallyEffect, Stays, Becomes, Goes, KindNow, TypeOK, Actors, At,
      registry, git, running, decisions, boot, JobInv, FreshInv, StatusInv, StartupInv,
      Salvaging, Driving, MergePcs, OutcomeInv, SignalInv
<1>4. RejectInv(j)'
  BY <1>1 DEF Settle, FinallyEffect, Stays, Becomes, Goes, KindNow, TypeOK, Actors, At,
      registry, git, running, decisions, boot, JobInv, FreshInv, StatusInv, StartupInv,
      Salvaging, Driving, MergePcs, OutcomeInv, SignalInv, RejectInv, Shut
<1>5. BranchInv(j)'
  <2>1. pc'[<<"driver", j>>] = "salvage" => IsGit(j)
    <3>1. CASE Finally(j, FALSE)
      BY <3>1, FinallyDoes DEF FinallyEffect, Goes, TypeOK, Actors
    <3>2. ASSUME NEW l \in PcLabels, Goto("driver", j, l) PROVE pc'[<<"driver", j>>] = l
      BY <3>2, GotoGoes DEF Goes, Actors
    <3>3. CASE Goto("driver", j, "reply")
      BY <3>2, <3>3 DEF PcLabels
    <3>4. CASE ~IsGit(j) /\ Goto("driver", j, Discard(j))
      BY <3>2, <3>4 DEF PcLabels, Discard
    <3>5. QED BY <3>1, <3>3, <3>4 DEF Settle
  <2>2. QED BY <1>1, <2>1 DEF Settle, FinallyEffect, Stays, Becomes, Goes, KindNow, Kinds,
      TypeOK, Actors, At, git, JobInv, FreshInv, StatusInv, StartupInv, Salvaging, Driving,
      MergePcs, OutcomeInv, MirrorInv, Reviewable, BranchInv, WithBranch, OnlyGit, Dropping,
      IsGit, Occupying
<1>6. FateMove(j)
  BY <1>1 DEF Settle, FinallyEffect, Stays, Becomes, Goes, KindNow, TypeOK, Actors, At,
      registry, git, running, decisions, boot, JobInv, FreshInv, StatusInv, StartupInv,
      Salvaging, Driving, MergePcs, OutcomeInv, MirrorInv, SignalInv, Reviewable, FateMove,
      Fate, Approved, ApprovalInv
<1>7. crashes' = crashes
  BY DEF Settle, boot
<1>8. QED BY <1>2, <1>3, <1>4, <1>5, <1>6, <1>7 DEF OutcomeStep, OutcomeInv

(* Partial work is submitted, dropped, or still under examination. *)
LEMMA SalvageOutcome ==
    ASSUME TypeOK, NEW j \in Jobs, JobInv(j), OutcomeInv(j), Salvage(j)
    PROVE  OutcomeStep(j)
<1>1. \/ Stays(j) /\ \E l \in {"salvageDiff", "dropTree"} : Goes("driver", j, l)
      \/ Becomes(j, "awaiting_review") /\ Goes("driver", j, "over")
  BY SetStatusBecomes, RegistryStays, GotoGoes, DiscardLabels DEF Salvage, Statuses,
      PcLabels, Actors
<1>2. MirrorInv(j)'
  BY <1>1 DEF Salvage, Stays, Becomes, Goes, TypeOK, Actors, At, registry, running,
      decisions, boot, JobInv, FreshInv, StatusInv, StartupInv, Salvaging, Driving,
      MergePcs, OutcomeInv, MirrorInv, Reviewable, CancelInv, Occupying
<1>3. SignalInv(j)'
  BY <1>1 DEF Salvage, Stays, Becomes, Goes, TypeOK, Actors, At, registry, running,
      decisions, boot, JobInv, FreshInv, StatusInv, StartupInv, Salvaging, Driving,
      MergePcs, OutcomeInv, SignalInv
<1>4. RejectInv(j)'
  BY <1>1 DEF Salvage, Stays, Becomes, Goes, TypeOK, Actors, At, registry, running,
      decisions, boot, JobInv, FreshInv, StatusInv, StartupInv, Salvaging, Driving,
      MergePcs, OutcomeInv, SignalInv, RejectInv, Shut
<1>5. BranchInv(j)'
  <2>1. branch'[j] = "absent" => branch[j] = "absent"
    BY DEF Salvage, AfterCommit, TypeOK
  <2>2. QED BY <1>1, <2>1 DEF Salvage, Stays, Becomes, Goes, TypeOK, Actors, At, git,
      JobInv, FreshInv, StatusInv, StartupInv, Salvaging, Driving, MergePcs, OutcomeInv,
      MirrorInv, Reviewable, BranchInv, WithBranch, OnlyGit, Dropping, IsGit, Occupying
<1>6. FateMove(j)
  BY <1>1 DEF Salvage, Stays, Becomes, Goes, TypeOK, Actors, At, registry, running,
      decisions, boot, JobInv, FreshInv, StatusInv, StartupInv, Salvaging, Driving,
      MergePcs, OutcomeInv, MirrorInv, SignalInv, Reviewable, FateMove, Fate, Approved,
      ApprovalInv
<1>7. crashes' = crashes
  BY DEF Salvage, boot
<1>8. QED BY <1>2, <1>3, <1>4, <1>5, <1>6, <1>7 DEF OutcomeStep, OutcomeInv

(* Partial work with a net diff, or in doubt, is submitted for review. *)
LEMMA SalvageDiffOutcome ==
    ASSUME TypeOK, NEW j \in Jobs, JobInv(j), OutcomeInv(j), SalvageDiff(j)
    PROVE  OutcomeStep(j)
<1>1. \/ Stays(j) /\ Goes("driver", j, "dropTree")
      \/ /\ Becomes(j, "awaiting_review")
         /\ \E l \in {"parkTree", "over"} : Goes("driver", j, l)
  BY SetStatusBecomes, RegistryStays, GotoGoes, DiscardLabels DEF SalvageDiff, Statuses,
      PcLabels, Actors
<1>2. MirrorInv(j)'
  BY <1>1 DEF SalvageDiff, Stays, Becomes, Goes, TypeOK, Actors, At, registry, git, running,
      decisions, boot, JobInv, FreshInv, StatusInv, StartupInv, Salvaging, Driving,
      MergePcs, OutcomeInv, MirrorInv, Reviewable, CancelInv, Occupying
<1>3. SignalInv(j)'
  BY <1>1 DEF SalvageDiff, Stays, Becomes, Goes, TypeOK, Actors, At, registry, git, running,
      decisions, boot, JobInv, FreshInv, StatusInv, StartupInv, Salvaging, Driving,
      MergePcs, OutcomeInv, SignalInv
<1>4. RejectInv(j)'
  BY <1>1 DEF SalvageDiff, Stays, Becomes, Goes, TypeOK, Actors, At, registry, git, running,
      decisions, boot, JobInv, FreshInv, StatusInv, StartupInv, Salvaging, Driving,
      MergePcs, OutcomeInv, SignalInv, RejectInv, Shut
<1>5. BranchInv(j)'
  BY <1>1 DEF SalvageDiff, Stays, Becomes, Goes, TypeOK, Actors, At, registry, git, running,
      decisions, boot, JobInv, FreshInv, StatusInv, StartupInv, Salvaging, Driving,
      MergePcs, OutcomeInv, MirrorInv, Reviewable, BranchInv, WithBranch, OnlyGit, Dropping,
      IsGit, Occupying
<1>6. FateMove(j)
  BY <1>1 DEF SalvageDiff, Stays, Becomes, Goes, TypeOK, Actors, At, registry, git, running,
      decisions, boot, JobInv, FreshInv, StatusInv, StartupInv, Salvaging, Driving,
      MergePcs, OutcomeInv, MirrorInv, SignalInv, Reviewable, FateMove, Fate, Approved,
      ApprovalInv
<1>7. crashes' = crashes
  BY DEF SalvageDiff, boot
<1>8. QED BY <1>2, <1>3, <1>4, <1>5, <1>6, <1>7 DEF OutcomeStep, OutcomeInv

(* The answer goes out; without git the job is over. *)
LEMMA ReplyOutcome ==
    ASSUME TypeOK, NEW j \in Jobs, JobInv(j), OutcomeInv(j), Reply(j)
    PROVE  OutcomeStep(j)
<1>1. \/ FinallyEffect(j, FALSE)
      \/ Stays(j) /\ Goes("driver", j, "commit")
      \/ Becomes(j, "done") /\ Goes("driver", j, "over")
  BY FinallyDoes, SetStatusBecomes, RegistryStays, GotoGoes DEF Reply, Statuses, PcLabels,
      Actors
<1>2. MirrorInv(j)'
  BY <1>1 DEF Reply, FinallyEffect, Stays, Becomes, Goes, TypeOK, Actors, At, registry, git,
      running, decisions, boot, JobInv, FreshInv, StatusInv, StartupInv, Salvaging, Driving,
      MergePcs, OutcomeInv, MirrorInv, Reviewable, CancelInv, Occupying
<1>3. SignalInv(j)'
  BY <1>1 DEF Reply, FinallyEffect, Stays, Becomes, Goes, TypeOK, Actors, At, registry, git,
      running, decisions, boot, JobInv, FreshInv, StatusInv, StartupInv, Salvaging, Driving,
      MergePcs, OutcomeInv, SignalInv
<1>4. RejectInv(j)'
  BY <1>1 DEF Reply, FinallyEffect, Stays, Becomes, Goes, TypeOK, Actors, At, registry, git,
      running, decisions, boot, JobInv, FreshInv, StatusInv, StartupInv, Salvaging, Driving,
      MergePcs, OutcomeInv, SignalInv, RejectInv, Shut
<1>5. BranchInv(j)'
  <2>1. pc'[<<"driver", j>>] = "commit" => IsGit(j)
    BY DiscardLabels DEF Reply, Finally, Goto, TypeOK, Actors, At
  <2>2. QED BY <1>1, <2>1 DEF Reply, FinallyEffect, Stays, Becomes, Goes, TypeOK, Actors,
      At, git, JobInv, FreshInv, StatusInv, StartupInv, Salvaging, Driving, MergePcs,
      OutcomeInv, MirrorInv, Reviewable, BranchInv, WithBranch, OnlyGit, Dropping, IsGit,
      Occupying
<1>6. FateMove(j)
  BY <1>1 DEF Reply, FinallyEffect, Stays, Becomes, Goes, TypeOK, Actors, At, registry, git,
      running, decisions, boot, JobInv, FreshInv, StatusInv, StartupInv, Salvaging, Driving,
      MergePcs, OutcomeInv, MirrorInv, SignalInv, Reviewable, FateMove, Fate, Approved,
      ApprovalInv
<1>7. crashes' = crashes
  BY DEF Reply, boot
<1>8. QED BY <1>2, <1>3, <1>4, <1>5, <1>6, <1>7 DEF OutcomeStep, OutcomeInv

(* A commit keeps the branch; nothing to commit closes the job. *)
LEMMA CommitOutcome ==
    ASSUME TypeOK, NEW j \in Jobs, JobInv(j), OutcomeInv(j), Commit(j)
    PROVE  OutcomeStep(j)
<1>1. \/ FinallyEffect(j, FALSE)
      \/ Stays(j) /\ Goes("driver", j, "diffing")
      \/ Becomes(j, "done") /\ \E l \in {"dropTree", "over"} : Goes("driver", j, l)
  BY FinallyDoes, SetStatusBecomes, RegistryStays, GotoGoes, DiscardLabels DEF Commit,
      Statuses, PcLabels, Actors
<1>2. MirrorInv(j)'
  BY <1>1 DEF Commit, FinallyEffect, Stays, Becomes, Goes, TypeOK, Actors, At, registry,
      running, decisions, boot, JobInv, FreshInv, StatusInv, StartupInv, Salvaging, Driving,
      MergePcs, OutcomeInv, MirrorInv, Reviewable, CancelInv, Occupying
<1>3. SignalInv(j)'
  BY <1>1 DEF Commit, FinallyEffect, Stays, Becomes, Goes, TypeOK, Actors, At, registry,
      running, decisions, boot, JobInv, FreshInv, StatusInv, StartupInv, Salvaging, Driving,
      MergePcs, OutcomeInv, SignalInv
<1>4. RejectInv(j)'
  BY <1>1 DEF Commit, FinallyEffect, Stays, Becomes, Goes, TypeOK, Actors, At, registry,
      running, decisions, boot, JobInv, FreshInv, StatusInv, StartupInv, Salvaging, Driving,
      MergePcs, OutcomeInv, SignalInv, RejectInv, Shut
<1>5. BranchInv(j)'
  <2>1. branch'[j] = "absent" => branch[j] = "absent"
    BY DEF Commit, AfterCommit, TypeOK
  <2>2. QED BY <1>1, <2>1 DEF Commit, FinallyEffect, Stays, Becomes, Goes, TypeOK, Actors,
      At, git, JobInv, FreshInv, StatusInv, StartupInv, Salvaging, Driving, MergePcs,
      OutcomeInv, MirrorInv, Reviewable, BranchInv, WithBranch, OnlyGit, Dropping, IsGit,
      Occupying
<1>6. FateMove(j)
  BY <1>1 DEF Commit, FinallyEffect, Stays, Becomes, Goes, TypeOK, Actors, At, registry,
      running, decisions, boot, JobInv, FreshInv, StatusInv, StartupInv, Salvaging, Driving,
      MergePcs, OutcomeInv, MirrorInv, SignalInv, Reviewable, FateMove, Fate, Approved,
      ApprovalInv
<1>7. crashes' = crashes
  BY DEF Commit, boot
<1>8. QED BY <1>2, <1>3, <1>4, <1>5, <1>6, <1>7 DEF OutcomeStep, OutcomeInv

(* An empty net diff closes the job, a broken diff call parks it. *)
LEMMA CheckDiffOutcome ==
    ASSUME TypeOK, NEW j \in Jobs, JobInv(j), OutcomeInv(j), CheckDiff(j)
    PROVE  OutcomeStep(j)
<1>1. \/ FinallyEffect(j, TRUE)
      \/ Stays(j) /\ mode[j] = "auto" /\ Goes("driver", j, "verify")
      \/ Stays(j) /\ Goes("driver", j, "advise")
      \/ Becomes(j, "done") /\ \E l \in {"dropTree", "over"} : Goes("driver", j, l)
  BY FinallyDoes, SetStatusBecomes, RegistryStays, GotoGoes, DiscardLabels DEF CheckDiff,
      Statuses, PcLabels, Actors
<1>2. MirrorInv(j)'
  BY <1>1 DEF CheckDiff, FinallyEffect, Stays, Becomes, Goes, TypeOK, Actors, At, registry,
      git, running, decisions, boot, JobInv, FreshInv, StatusInv, StartupInv, Salvaging,
      Driving, MergePcs, OutcomeInv, MirrorInv, Reviewable, CancelInv, Occupying
<1>3. SignalInv(j)'
  BY <1>1 DEF CheckDiff, FinallyEffect, Stays, Becomes, Goes, TypeOK, Actors, At, registry,
      git, running, decisions, boot, JobInv, FreshInv, StatusInv, StartupInv, Salvaging,
      Driving, MergePcs, OutcomeInv, SignalInv
<1>4. RejectInv(j)'
  BY <1>1 DEF CheckDiff, FinallyEffect, Stays, Becomes, Goes, TypeOK, Actors, At, registry,
      git, running, decisions, boot, JobInv, FreshInv, StatusInv, StartupInv, Salvaging,
      Driving, MergePcs, OutcomeInv, SignalInv, RejectInv, Shut
<1>5. BranchInv(j)'
  BY <1>1 DEF CheckDiff, FinallyEffect, Stays, Becomes, Goes, TypeOK, Actors, At, registry,
      git, running, decisions, boot, JobInv, FreshInv, StatusInv, StartupInv, Salvaging,
      Driving, MergePcs, OutcomeInv, MirrorInv, Reviewable, BranchInv, WithBranch, OnlyGit,
      Dropping, IsGit, Occupying
<1>6. FateMove(j)
  BY <1>1 DEF CheckDiff, FinallyEffect, Stays, Becomes, Goes, TypeOK, Actors, At, registry,
      git, running, decisions, boot, JobInv, FreshInv, StatusInv, StartupInv, Salvaging,
      Driving, MergePcs, OutcomeInv, MirrorInv, SignalInv, Reviewable, FateMove, Fate,
      Approved, ApprovalInv
<1>7. crashes' = crashes
  BY DEF CheckDiff, boot
<1>8. QED BY <1>2, <1>3, <1>4, <1>5, <1>6, <1>7 DEF OutcomeStep, OutcomeInv

(* Only a cancelled job leaves the way to its gate. *)
LEMMA AdviseOutcome ==
    ASSUME TypeOK, NEW j \in Jobs, JobInv(j), OutcomeInv(j), Advise(j)
    PROVE  OutcomeStep(j)
<1>1. \/ FinallyEffect(j, TRUE)
      \/ Stays(j) /\ \E l \in {"dropTree", "gatePost"} : Goes("driver", j, l)
  BY FinallyDoes, RegistryStays, GotoGoes, DiscardLabels DEF Advise, Statuses, PcLabels, Actors
<1>2. MirrorInv(j)'
  BY <1>1 DEF Advise, FinallyEffect, Stays, Becomes, Goes, TypeOK, Actors, At, registry, git, running, decisions,
      boot, JobInv, FreshInv, StatusInv, StartupInv, Salvaging, Driving, MergePcs,
      OutcomeInv, MirrorInv, Reviewable, CancelInv, Occupying
<1>3. SignalInv(j)'
  BY <1>1 DEF Advise, FinallyEffect, Stays, Becomes, Goes, TypeOK, Actors, At, registry, git, running, decisions,
      boot, JobInv, FreshInv, StatusInv, StartupInv, Salvaging, Driving, MergePcs,
      OutcomeInv, SignalInv
<1>4. RejectInv(j)'
  BY <1>1 DEF Advise, FinallyEffect, Stays, Becomes, Goes, TypeOK, Actors, At, registry, git, running, decisions,
      boot, JobInv, FreshInv, StatusInv, StartupInv, Salvaging, Driving, MergePcs,
      OutcomeInv, SignalInv, RejectInv, Shut
<1>5. BranchInv(j)'
  <2>1. pc'[<<"driver", j>>] = "dropTree" => status[j] = "cancelled"
    BY DEF Advise, Finally, Goto, TypeOK, Actors, At
  <2>2. QED BY <1>1, <2>1 DEF Advise, FinallyEffect, Stays, Becomes, Goes, registry, TypeOK, Actors, At, git,
      JobInv, FreshInv, StatusInv, StartupInv, Salvaging, Driving, MergePcs, OutcomeInv,
      MirrorInv, Reviewable, BranchInv, WithBranch, OnlyGit, Dropping, IsGit, Occupying
<1>6. FateMove(j)
  BY <1>1 DEF Advise, FinallyEffect, Stays, Becomes, Goes, TypeOK, Actors, At, registry, git, running, decisions,
      boot, JobInv, FreshInv, StatusInv, StartupInv, Salvaging, Driving, MergePcs,
      OutcomeInv, MirrorInv, SignalInv, Reviewable, FateMove, Fate, Approved, ApprovalInv
<1>7. crashes' = crashes
  BY DEF Advise, boot
<1>8. QED BY <1>2, <1>3, <1>4, <1>5, <1>6, <1>7 DEF OutcomeStep, OutcomeInv

(* A gate opens with its message, or the job is parked. *)
LEMMA PostGateOutcome ==
    ASSUME TypeOK, NEW j \in Jobs, JobInv(j), OutcomeInv(j), PostGate(j)
    PROVE  OutcomeStep(j)
<1>1. \/ FinallyEffect(j, TRUE)
      \/ Stays(j) /\ Goes("driver", j, "gate")
  BY FinallyDoes, RegistryStays, GotoGoes DEF PostGate, Statuses, PcLabels, Actors
<1>2. MirrorInv(j)'
  BY <1>1 DEF PostGate, FinallyEffect, Stays, Becomes, Goes, TypeOK, Actors, At, registry,
      git, running, decisions, boot, JobInv, FreshInv, StatusInv, StartupInv, Salvaging,
      Driving, MergePcs, OutcomeInv, MirrorInv, Reviewable, CancelInv, Occupying
<1>3. SignalInv(j)'
  <2>1. gate'[j] # "none" => pc'[<<"driver", j>>] = "gate"
    BY DiscardLabels DEF PostGate, Finally, Goto, TypeOK, Actors, At, OutcomeInv, SignalInv
  <2>2. QED BY <1>1, <2>1 DEF PostGate, FinallyEffect, Stays, Becomes, Goes, TypeOK, Actors, At,
      git, decisions, OutcomeInv, SignalInv
<1>4. RejectInv(j)'
  BY <1>1 DEF PostGate, FinallyEffect, Stays, Becomes, Goes, TypeOK, Actors, At, registry,
      git, running, decisions, boot, JobInv, FreshInv, StatusInv, StartupInv, Salvaging,
      Driving, MergePcs, OutcomeInv, SignalInv, RejectInv, Shut
<1>5. BranchInv(j)'
  BY <1>1 DEF PostGate, FinallyEffect, Stays, Becomes, Goes, TypeOK, Actors, At, registry,
      git, running, decisions, boot, JobInv, FreshInv, StatusInv, StartupInv, Salvaging,
      Driving, MergePcs, OutcomeInv, MirrorInv, Reviewable, BranchInv, WithBranch, OnlyGit,
      Dropping, IsGit, Occupying
<1>6. FateMove(j)
  BY <1>1 DEF PostGate, FinallyEffect, Stays, Becomes, Goes, TypeOK, Actors, At, registry,
      git, running, decisions, boot, JobInv, FreshInv, StatusInv, StartupInv, Salvaging,
      Driving, MergePcs, OutcomeInv, MirrorInv, SignalInv, Reviewable, FateMove, Fate,
      Approved, ApprovalInv
<1>7. crashes' = crashes
  BY DEF PostGate, boot
<1>8. QED BY <1>2, <1>3, <1>4, <1>5, <1>6, <1>7 DEF OutcomeStep, OutcomeInv

(* A confirmed gate claims the merge, a rejected one closes the job. *)
LEMMA ResumeGateOutcome ==
    ASSUME TypeOK, NEW j \in Jobs, JobInv(j), OutcomeInv(j), ResumeGate(j)
    PROVE  OutcomeStep(j)
<1>1. \/ gate[j] = "confirm" /\ MergeEffect("driver", j)
      \/ Becomes(j, "done") /\ Goes("driver", j, "dropTree")
  BY DoMergeDoes, SetStatusBecomes, GotoGoes, DiscardLabels DEF ResumeGate, Statuses,
      PcLabels, Actors
<1>2. MirrorInv(j)'
  BY <1>1 DEF ResumeGate, MergeEffect, Stays, Becomes, Goes, MergeableStatus, TypeOK,
      Actors, At, git, running, decisions, boot, JobInv, FreshInv, StatusInv, StartupInv,
      Salvaging, Driving, MergePcs, OutcomeInv, MirrorInv, Reviewable, CancelInv, Occupying
<1>3. SignalInv(j)'
  BY <1>1 DEF ResumeGate, MergeEffect, Stays, Becomes, Goes, MergeableStatus, TypeOK,
      Actors, At, git, running, decisions, boot, JobInv, FreshInv, StatusInv, StartupInv,
      Salvaging, Driving, MergePcs, OutcomeInv, SignalInv
<1>4. RejectInv(j)'
  BY <1>1 DEF ResumeGate, MergeEffect, Stays, Becomes, Goes, MergeableStatus, TypeOK,
      Actors, At, git, running, decisions, boot, JobInv, FreshInv, StatusInv, StartupInv,
      Salvaging, Driving, MergePcs, OutcomeInv, SignalInv, RejectInv, Shut
<1>5. BranchInv(j)'
  BY <1>1 DEF ResumeGate, MergeEffect, Stays, Becomes, Goes, MergeableStatus, TypeOK,
      Actors, At, git, running, decisions, boot, JobInv, FreshInv, StatusInv, StartupInv,
      Salvaging, Driving, MergePcs, OutcomeInv, MirrorInv, Reviewable, BranchInv,
      WithBranch, OnlyGit, Dropping, IsGit, Occupying
<1>6. FateMove(j)
  BY <1>1 DEF ResumeGate, MergeEffect, Stays, Becomes, Goes, MergeableStatus, TypeOK,
      Actors, At, git, running, decisions, boot, JobInv, FreshInv, StatusInv, StartupInv,
      Salvaging, Driving, MergePcs, OutcomeInv, MirrorInv, SignalInv, Reviewable, FateMove,
      Fate, Approved, ApprovalInv
<1>7. crashes' = crashes
  BY DEF ResumeGate, boot
<1>8. QED BY <1>2, <1>3, <1>4, <1>5, <1>6, <1>7 DEF OutcomeStep, OutcomeInv

(* A lapsed gate parks the job. *)
LEMMA GateTimeoutOutcome ==
    ASSUME TypeOK, NEW j \in Jobs, JobInv(j), OutcomeInv(j), GateTimeout(j)
    PROVE  OutcomeStep(j)
<1>1. ParkEffect(j)
  BY ParkIfRunningDoes DEF GateTimeout, Statuses, Actors
<1>2. MirrorInv(j)'
  BY <1>1 DEF GateTimeout, ParkEffect, Stays, Becomes, Goes, GateMayLapse, TypeOK, Actors,
      At, git, running, decisions, boot, JobInv, FreshInv, StatusInv, StartupInv, Salvaging,
      Driving, MergePcs, OutcomeInv, MirrorInv, Reviewable, CancelInv, Occupying
<1>3. SignalInv(j)'
  BY <1>1 DEF GateTimeout, ParkEffect, Stays, Becomes, Goes, GateMayLapse, TypeOK, Actors,
      At, git, running, decisions, boot, JobInv, FreshInv, StatusInv, StartupInv, Salvaging,
      Driving, MergePcs, OutcomeInv, SignalInv
<1>4. RejectInv(j)'
  BY <1>1 DEF GateTimeout, ParkEffect, Stays, Becomes, Goes, GateMayLapse, TypeOK, Actors,
      At, git, running, decisions, boot, JobInv, FreshInv, StatusInv, StartupInv, Salvaging,
      Driving, MergePcs, OutcomeInv, SignalInv, RejectInv, Shut
<1>5. BranchInv(j)'
  BY <1>1 DEF GateTimeout, ParkEffect, Stays, Becomes, Goes, GateMayLapse, TypeOK, Actors,
      At, git, running, decisions, boot, JobInv, FreshInv, StatusInv, StartupInv, Salvaging,
      Driving, MergePcs, OutcomeInv, MirrorInv, Reviewable, BranchInv, WithBranch, OnlyGit,
      Dropping, IsGit, Occupying
<1>6. FateMove(j)
  BY <1>1 DEF GateTimeout, ParkEffect, Stays, Becomes, Goes, GateMayLapse, TypeOK, Actors,
      At, git, running, decisions, boot, JobInv, FreshInv, StatusInv, StartupInv, Salvaging,
      Driving, MergePcs, OutcomeInv, MirrorInv, SignalInv, Reviewable, FateMove, Fate,
      Approved, ApprovalInv
<1>7. crashes' = crashes
  BY DEF GateTimeout, boot
<1>8. QED BY <1>2, <1>3, <1>4, <1>5, <1>6, <1>7 DEF OutcomeStep, OutcomeInv

(* The verify signal, or a park, or the drop of a cancelled job. *)
LEMMA VerifyOutcome ==
    ASSUME TypeOK, NEW j \in Jobs, JobInv(j), OutcomeInv(j), Verify(j)
    PROVE  OutcomeStep(j)
<1>1. \/ /\ Stays(j) /\ UNCHANGED approvals
         /\ \E l \in {"dropTree", "auditPark"} : Goes("driver", j, l)
      \/ /\ Stays(j) /\ Goes("driver", j, "evaluate")
         /\ "verify" \in approvals'[j] /\ approvals[j] \subseteq approvals'[j]
  BY RegistryStays, GotoGoes DEF Verify, TypeOK, Signals, AutoSignal, Statuses, PcLabels,
      Actors
<1>2. MirrorInv(j)'
  BY <1>1 DEF Verify, Stays, Goes, AutoSignal, TypeOK, Actors, At, registry, git, running,
      boot, JobInv, FreshInv, StatusInv, StartupInv, Salvaging, Driving, MergePcs,
      OutcomeInv, MirrorInv, Reviewable, CancelInv, Occupying
<1>3. SignalInv(j)'
  BY <1>1 DEF Verify, Stays, Goes, AutoSignal, TypeOK, Actors, At, registry, git, running,
      boot, JobInv, FreshInv, StatusInv, StartupInv, Salvaging, Driving, MergePcs,
      OutcomeInv, SignalInv
<1>4. RejectInv(j)'
  BY <1>1 DEF Verify, Stays, Goes, AutoSignal, TypeOK, Actors, At, registry, git, running,
      boot, JobInv, FreshInv, StatusInv, StartupInv, Salvaging, Driving, MergePcs,
      OutcomeInv, SignalInv, RejectInv, Shut
<1>5. BranchInv(j)'
  <2>1. pc'[<<"driver", j>>] = "dropTree" => status[j] = "cancelled"
    BY DEF Verify, AutoSignal, Goto, TypeOK, Actors, At
  <2>2. QED BY <1>1, <2>1 DEF Verify, Stays, Goes, registry, TypeOK, Actors, At, git,
      JobInv, FreshInv, StatusInv, StartupInv, Salvaging, Driving, MergePcs, OutcomeInv,
      MirrorInv, Reviewable, BranchInv, WithBranch, OnlyGit, Dropping, IsGit, Occupying
<1>6. FateMove(j)
  BY <1>1 DEF Verify, Stays, Goes, AutoSignal, TypeOK, Actors, At, registry, git, running,
      boot, JobInv, FreshInv, StatusInv, StartupInv, Salvaging, Driving, MergePcs,
      OutcomeInv, MirrorInv, SignalInv, Reviewable, FateMove, Fate, Approved, ApprovalInv
<1>7. crashes' = crashes
  BY DEF Verify, boot
<1>8. QED BY <1>2, <1>3, <1>4, <1>5, <1>6, <1>7 DEF OutcomeStep, OutcomeInv

(* The evaluator's signal, or a park, or the drop of a cancelled job. *)
LEMMA EvaluateOutcome ==
    ASSUME TypeOK, NEW j \in Jobs, JobInv(j), OutcomeInv(j), Evaluate(j)
    PROVE  OutcomeStep(j)
<1>1. \/ /\ Stays(j) /\ UNCHANGED approvals
         /\ \E l \in {"dropTree", "auditPark"} : Goes("driver", j, l)
      \/ /\ Stays(j) /\ Goes("driver", j, "auditMerge")
         /\ "evaluator" \in approvals'[j] /\ approvals[j] \subseteq approvals'[j]
  BY RegistryStays, GotoGoes DEF Evaluate, TypeOK, Signals, AutoSignal, Statuses,
      PcLabels, Actors
<1>2. MirrorInv(j)'
  BY <1>1 DEF Evaluate, Stays, Goes, AutoSignal, TypeOK, Actors, At, registry, git, running,
      boot, JobInv, FreshInv, StatusInv, StartupInv, Salvaging, Driving, MergePcs,
      OutcomeInv, MirrorInv, Reviewable, CancelInv, Occupying
<1>3. SignalInv(j)'
  BY <1>1 DEF Evaluate, Stays, Goes, AutoSignal, TypeOK, Actors, At, registry, git, running,
      boot, JobInv, FreshInv, StatusInv, StartupInv, Salvaging, Driving, MergePcs,
      OutcomeInv, SignalInv
<1>4. RejectInv(j)'
  BY <1>1 DEF Evaluate, Stays, Goes, AutoSignal, TypeOK, Actors, At, registry, git, running,
      boot, JobInv, FreshInv, StatusInv, StartupInv, Salvaging, Driving, MergePcs,
      OutcomeInv, SignalInv, RejectInv, Shut
<1>5. BranchInv(j)'
  <2>1. pc'[<<"driver", j>>] = "dropTree" => status[j] = "cancelled"
    BY DEF Evaluate, AutoSignal, Goto, TypeOK, Actors, At
  <2>2. QED BY <1>1, <2>1 DEF Evaluate, Stays, Goes, registry, TypeOK, Actors, At, git,
      JobInv, FreshInv, StatusInv, StartupInv, Salvaging, Driving, MergePcs, OutcomeInv,
      MirrorInv, Reviewable, BranchInv, WithBranch, OnlyGit, Dropping, IsGit, Occupying
<1>6. FateMove(j)
  BY <1>1 DEF Evaluate, Stays, Goes, AutoSignal, TypeOK, Actors, At, registry, git, running,
      boot, JobInv, FreshInv, StatusInv, StartupInv, Salvaging, Driving, MergePcs,
      OutcomeInv, MirrorInv, SignalInv, Reviewable, FateMove, Fate, Approved, ApprovalInv
<1>7. crashes' = crashes
  BY DEF Evaluate, boot
<1>8. QED BY <1>2, <1>3, <1>4, <1>5, <1>6, <1>7 DEF OutcomeStep, OutcomeInv

(* Without both signals the job is parked. *)
LEMMA AuditParkOutcome ==
    ASSUME TypeOK, NEW j \in Jobs, JobInv(j), OutcomeInv(j), AuditPark(j)
    PROVE  OutcomeStep(j)
<1>1. ParkEffect(j)
  BY ParkIfRunningDoes DEF AuditPark, Statuses, Actors
<1>2. MirrorInv(j)'
  BY <1>1 DEF AuditPark, ParkEffect, Stays, Becomes, Goes, TypeOK, Actors, At, git, running,
      decisions, boot, JobInv, FreshInv, StatusInv, StartupInv, Salvaging, Driving,
      MergePcs, OutcomeInv, MirrorInv, Reviewable, CancelInv, Occupying
<1>3. SignalInv(j)'
  BY <1>1 DEF AuditPark, ParkEffect, Stays, Becomes, Goes, TypeOK, Actors, At, git, running,
      decisions, boot, JobInv, FreshInv, StatusInv, StartupInv, Salvaging, Driving,
      MergePcs, OutcomeInv, SignalInv
<1>4. RejectInv(j)'
  BY <1>1 DEF AuditPark, ParkEffect, Stays, Becomes, Goes, TypeOK, Actors, At, git, running,
      decisions, boot, JobInv, FreshInv, StatusInv, StartupInv, Salvaging, Driving,
      MergePcs, OutcomeInv, SignalInv, RejectInv, Shut
<1>5. BranchInv(j)'
  BY <1>1 DEF AuditPark, ParkEffect, Stays, Becomes, Goes, TypeOK, Actors, At, git, running,
      decisions, boot, JobInv, FreshInv, StatusInv, StartupInv, Salvaging, Driving,
      MergePcs, OutcomeInv, MirrorInv, Reviewable, BranchInv, WithBranch, OnlyGit, Dropping,
      IsGit, Occupying
<1>6. FateMove(j)
  BY <1>1 DEF AuditPark, ParkEffect, Stays, Becomes, Goes, TypeOK, Actors, At, git, running,
      decisions, boot, JobInv, FreshInv, StatusInv, StartupInv, Salvaging, Driving,
      MergePcs, OutcomeInv, MirrorInv, SignalInv, Reviewable, FateMove, Fate, Approved,
      ApprovalInv
<1>7. crashes' = crashes
  BY DEF AuditPark, boot
<1>8. QED BY <1>2, <1>3, <1>4, <1>5, <1>6, <1>7 DEF OutcomeStep, OutcomeInv

(* With both signals the driver claims the merge. *)
LEMMA AuditMergeOutcome ==
    ASSUME TypeOK, NEW j \in Jobs, JobInv(j), OutcomeInv(j), AuditMerge(j)
    PROVE  OutcomeStep(j)
<1>1. \/ MergeEffect("driver", j)
      \/ FinallyEffect(j, TRUE)
  BY FinallyDoes, DoMergeDoes DEF AuditMerge, Statuses, Actors
<1>2. MirrorInv(j)'
  BY <1>1 DEF AuditMerge, FinallyEffect, MergeEffect, Stays, Becomes, Goes, MergeableStatus,
      TypeOK, Actors, At, git, running, decisions, boot, JobInv, FreshInv, StatusInv,
      StartupInv, Salvaging, Driving, MergePcs, OutcomeInv, MirrorInv, Reviewable,
      CancelInv, Occupying
<1>3. SignalInv(j)'
  BY <1>1 DEF AuditMerge, FinallyEffect, MergeEffect, Stays, Becomes, Goes, MergeableStatus,
      TypeOK, Actors, At, git, running, decisions, boot, JobInv, FreshInv, StatusInv,
      StartupInv, Salvaging, Driving, MergePcs, OutcomeInv, SignalInv
<1>4. RejectInv(j)'
  BY <1>1 DEF AuditMerge, FinallyEffect, MergeEffect, Stays, Becomes, Goes, MergeableStatus,
      TypeOK, Actors, At, git, running, decisions, boot, JobInv, FreshInv, StatusInv,
      StartupInv, Salvaging, Driving, MergePcs, OutcomeInv, SignalInv, RejectInv, Shut
<1>5. BranchInv(j)'
  BY <1>1 DEF AuditMerge, FinallyEffect, MergeEffect, Stays, Becomes, Goes, MergeableStatus,
      TypeOK, Actors, At, git, running, decisions, boot, JobInv, FreshInv, StatusInv,
      StartupInv, Salvaging, Driving, MergePcs, OutcomeInv, MirrorInv, Reviewable,
      BranchInv, WithBranch, OnlyGit, Dropping, IsGit, Occupying
<1>6. FateMove(j)
  BY <1>1 DEF AuditMerge, FinallyEffect, MergeEffect, Stays, Becomes, Goes, MergeableStatus,
      TypeOK, Actors, At, git, running, decisions, boot, JobInv, FreshInv, StatusInv,
      StartupInv, Salvaging, Driving, MergePcs, OutcomeInv, MirrorInv, SignalInv,
      Reviewable, FateMove, Fate, Approved, ApprovalInv
<1>7. crashes' = crashes
  BY DEF AuditMerge, boot
<1>8. QED BY <1>2, <1>3, <1>4, <1>5, <1>6, <1>7 DEF OutcomeStep, OutcomeInv

(* Parking a worktree leaves the branch. *)
LEMMA ParkTreeOutcome ==
    ASSUME TypeOK, NEW j \in Jobs, JobInv(j), OutcomeInv(j), ParkTree(j)
    PROVE  OutcomeStep(j)
<1>1. Stays(j) /\ Goes("driver", j, "over")
  BY RegistryStays, GotoGoes DEF ParkTree, Statuses, PcLabels, Actors
<1>2. MirrorInv(j)'
  BY <1>1 DEF ParkTree, Stays, Goes, TypeOK, Actors, At, registry, running, decisions, boot,
      JobInv, FreshInv, StatusInv, StartupInv, Salvaging, Driving, MergePcs, OutcomeInv,
      MirrorInv, Reviewable, CancelInv, Occupying
<1>3. SignalInv(j)'
  BY <1>1 DEF ParkTree, Stays, Goes, TypeOK, Actors, At, registry, running, decisions, boot,
      JobInv, FreshInv, StatusInv, StartupInv, Salvaging, Driving, MergePcs, OutcomeInv,
      SignalInv
<1>4. RejectInv(j)'
  BY <1>1 DEF ParkTree, Stays, Goes, TypeOK, Actors, At, registry, running, decisions, boot,
      JobInv, FreshInv, StatusInv, StartupInv, Salvaging, Driving, MergePcs, OutcomeInv,
      SignalInv, RejectInv, Shut
<1>5. BranchInv(j)'
  BY <1>1 DEF ParkTree, Stays, Goes, TypeOK, Actors, At, registry, running, decisions, boot,
      JobInv, FreshInv, StatusInv, StartupInv, Salvaging, Driving, MergePcs, OutcomeInv,
      MirrorInv, Reviewable, BranchInv, WithBranch, OnlyGit, Dropping, IsGit, Occupying
<1>6. FateMove(j)
  BY <1>1 DEF ParkTree, Stays, Goes, TypeOK, Actors, At, registry, running, decisions, boot,
      JobInv, FreshInv, StatusInv, StartupInv, Salvaging, Driving, MergePcs, OutcomeInv,
      MirrorInv, SignalInv, Reviewable, FateMove, Fate, Approved, ApprovalInv
<1>7. crashes' = crashes
  BY DEF ParkTree, boot
<1>8. QED BY <1>2, <1>3, <1>4, <1>5, <1>6, <1>7 DEF OutcomeStep, OutcomeInv

(* Waiting for the project's lock decides nothing. *)
LEMMA TakeMergeLockOutcome ==
    ASSUME TypeOK, NEW j \in Jobs, NEW a \in Actors, JobInv(j), OutcomeInv(j),
           TakeMergeLock(a, j)
    PROVE  OutcomeStep(j)
<1>1. Stays(j) /\ Goes(a, j, "merging")
  BY RegistryStays, GotoGoes DEF TakeMergeLock, Statuses, PcLabels, Actors
<1>2. MirrorInv(j)'
  BY <1>1 DEF TakeMergeLock, Stays, Goes, TypeOK, Actors, At, registry, git, decisions,
      boot, JobInv, FreshInv, StatusInv, StartupInv, Salvaging, Driving, MergePcs,
      OutcomeInv, MirrorInv, Reviewable, CancelInv, Occupying
<1>3. SignalInv(j)'
  BY <1>1 DEF TakeMergeLock, Stays, Goes, TypeOK, Actors, At, registry, git, decisions,
      boot, JobInv, FreshInv, StatusInv, StartupInv, Salvaging, Driving, MergePcs,
      OutcomeInv, SignalInv
<1>4. RejectInv(j)'
  BY <1>1 DEF TakeMergeLock, Stays, Goes, TypeOK, Actors, At, registry, git, decisions,
      boot, JobInv, FreshInv, StatusInv, StartupInv, Salvaging, Driving, MergePcs,
      OutcomeInv, SignalInv, RejectInv, Shut
<1>5. BranchInv(j)'
  BY <1>1 DEF TakeMergeLock, Stays, Goes, TypeOK, Actors, At, registry, git, decisions,
      boot, JobInv, FreshInv, StatusInv, StartupInv, Salvaging, Driving, MergePcs,
      OutcomeInv, MirrorInv, Reviewable, BranchInv, WithBranch, OnlyGit, Dropping, IsGit,
      Occupying
<1>6. FateMove(j)
  BY <1>1 DEF TakeMergeLock, Stays, Goes, TypeOK, Actors, At, registry, git, decisions,
      boot, JobInv, FreshInv, StatusInv, StartupInv, Salvaging, Driving, MergePcs,
      OutcomeInv, MirrorInv, SignalInv, Reviewable, FateMove, Fate, Approved, ApprovalInv
<1>7. crashes' = crashes
  BY DEF TakeMergeLock, boot
<1>8. QED BY <1>2, <1>3, <1>4, <1>5, <1>6, <1>7 DEF OutcomeStep, OutcomeInv

(* The change lands, or is reviewable again, or its job stays merging. *)
LEMMA MergeOutcome ==
    ASSUME TypeOK, NEW j \in Jobs, NEW a \in Actors, JobInv(j), OutcomeInv(j), Merge(a, j)
    PROVE  OutcomeStep(j)
<1>1. \/ Stays(j) /\ \E l \in {"mergedRet", "over"} : Goes(a, j, l)
      \/ Becomes(j, "awaiting_review") /\ Goes(a, j, "over")
  BY SetStatusBecomes, RegistryStays, GotoGoes DEF Merge, Statuses, PcLabels, Actors
<1>2. MirrorInv(j)'
  BY <1>1 DEF Merge, Stays, Becomes, Goes, TypeOK, Actors, At, registry, decisions, boot,
      JobInv, FreshInv, StatusInv, StartupInv, Salvaging, Driving, MergePcs, OutcomeInv,
      MirrorInv, Reviewable, CancelInv, Occupying
<1>3. SignalInv(j)'
  <2>1. pc'[<<a, j>>] = "mergedRet" => merged'[j]
    BY DEF Merge, Goto, TypeOK, Actors, At
  <2>2. merged[j] => merged'[j]
    BY DEF Merge, TypeOK
  <2>3. QED BY <1>1, <2>1, <2>2 DEF Merge, Stays, Becomes, Goes, TypeOK, Actors, At,
      decisions, OutcomeInv, SignalInv
<1>4. RejectInv(j)'
  <2>1. ~rejected[j] /\ status[j] = "merging" /\ \A b \in Actors : ~At(b, j, "mergedRet")
    BY DEF Merge, At, JobInv, StatusInv, LockInv, InLock, MergePcs, OutcomeInv, RejectInv, Shut,
        Actors
  <2>2. merged[j] => unreported[j]
    BY <2>1 DEF OutcomeInv, RejectInv, Shut
  <2>3. ~rejected'[j]
    BY <2>1 DEF Merge, decisions
  <2>4. merged'[j] /\ ~unreported'[j] => pc'[<<a, j>>] = "mergedRet"
    BY <2>2 DEF Merge, Goto, TypeOK, At
  <2>5. QED BY <2>3, <2>4 DEF RejectInv, At
<1>5. BranchInv(j)'
  BY <1>1 DEF Merge, Stays, Becomes, Goes, TypeOK, Actors, At, registry, decisions, boot,
      JobInv, FreshInv, StatusInv, StartupInv, Salvaging, Driving, MergePcs, OutcomeInv,
      MirrorInv, Reviewable, BranchInv, WithBranch, OnlyGit, Dropping, IsGit, Occupying
<1>6. FateMove(j)
  BY <1>1 DEF Merge, Stays, Becomes, Goes, TypeOK, Actors, At, registry, decisions, boot,
      JobInv, FreshInv, StatusInv, StartupInv, Salvaging, Driving, MergePcs, OutcomeInv,
      MirrorInv, SignalInv, Reviewable, FateMove, Fate, Approved, ApprovalInv
<1>7. crashes' = crashes
  BY DEF Merge, boot
<1>8. QED BY <1>2, <1>3, <1>4, <1>5, <1>6, <1>7 DEF OutcomeStep, OutcomeInv

(* The merged job is closed and then drops its branch. *)
LEMMA MergeReturnOutcome ==
    ASSUME TypeOK, NEW j \in Jobs, NEW a \in Actors, JobInv(j), OutcomeInv(j),
           MergeReturn(a, j)
    PROVE  OutcomeStep(j)
<1>1. Becomes(j, "done") /\ Goes(a, j, "dropTree")
  BY SetStatusBecomes, GotoGoes, DiscardLabels DEF MergeReturn, Statuses, PcLabels, Actors
<1>2. MirrorInv(j)'
  BY <1>1 DEF MergeReturn, Becomes, Goes, TypeOK, Actors, At, git, decisions, boot, JobInv,
      FreshInv, StatusInv, StartupInv, Salvaging, Driving, MergePcs, OutcomeInv, MirrorInv,
      Reviewable, CancelInv, Occupying
<1>3. SignalInv(j)'
  BY <1>1 DEF MergeReturn, Becomes, Goes, TypeOK, Actors, At, git, decisions, boot, JobInv,
      FreshInv, StatusInv, StartupInv, Salvaging, Driving, MergePcs, OutcomeInv, SignalInv
<1>4. RejectInv(j)'
  BY <1>1 DEF MergeReturn, Becomes, Goes, TypeOK, Actors, At, git, decisions, boot, JobInv,
      FreshInv, StatusInv, StartupInv, Salvaging, Driving, MergePcs, OutcomeInv, SignalInv,
      RejectInv, Shut
<1>5. BranchInv(j)'
  BY <1>1 DEF MergeReturn, Becomes, Goes, TypeOK, Actors, At, git, decisions, boot, JobInv,
      FreshInv, StatusInv, StartupInv, Salvaging, Driving, MergePcs, OutcomeInv, MirrorInv,
      Reviewable, BranchInv, WithBranch, OnlyGit, Dropping, IsGit, Occupying
<1>6. FateMove(j)
  BY <1>1 DEF MergeReturn, Becomes, Goes, TypeOK, Actors, At, git, decisions, boot, JobInv,
      FreshInv, StatusInv, StartupInv, Salvaging, Driving, MergePcs, OutcomeInv, MirrorInv,
      SignalInv, Reviewable, FateMove, Fate, Approved, ApprovalInv
<1>7. crashes' = crashes
  BY DEF MergeReturn, boot
<1>8. QED BY <1>2, <1>3, <1>4, <1>5, <1>6, <1>7 DEF OutcomeStep, OutcomeInv

(* Dropping a worktree leaves the branch. *)
LEMMA DropTreeOutcome ==
    ASSUME TypeOK, NEW j \in Jobs, NEW a \in Actors, JobInv(j), OutcomeInv(j), DropTree(a,
           j)
    PROVE  OutcomeStep(j)
<1>1. Stays(j) /\ Goes(a, j, "dropBranch")
  BY RegistryStays, GotoGoes DEF DropTree, Statuses, PcLabels, Actors
<1>2. MirrorInv(j)'
  BY <1>1 DEF DropTree, Stays, Goes, TypeOK, Actors, At, registry, running, decisions, boot,
      JobInv, FreshInv, StatusInv, StartupInv, Salvaging, Driving, MergePcs, OutcomeInv,
      MirrorInv, Reviewable, CancelInv, Occupying
<1>3. SignalInv(j)'
  BY <1>1 DEF DropTree, Stays, Goes, TypeOK, Actors, At, registry, running, decisions, boot,
      JobInv, FreshInv, StatusInv, StartupInv, Salvaging, Driving, MergePcs, OutcomeInv,
      SignalInv
<1>4. RejectInv(j)'
  BY <1>1 DEF DropTree, Stays, Goes, TypeOK, Actors, At, registry, running, decisions, boot,
      JobInv, FreshInv, StatusInv, StartupInv, Salvaging, Driving, MergePcs, OutcomeInv,
      SignalInv, RejectInv, Shut
<1>5. BranchInv(j)'
  BY <1>1 DEF DropTree, Stays, Goes, TypeOK, Actors, At, registry, running, decisions, boot,
      JobInv, FreshInv, StatusInv, StartupInv, Salvaging, Driving, MergePcs, OutcomeInv,
      MirrorInv, Reviewable, BranchInv, WithBranch, OnlyGit, Dropping, IsGit, Occupying
<1>6. FateMove(j)
  BY <1>1 DEF DropTree, Stays, Goes, TypeOK, Actors, At, registry, running, decisions, boot,
      JobInv, FreshInv, StatusInv, StartupInv, Salvaging, Driving, MergePcs, OutcomeInv,
      MirrorInv, SignalInv, Reviewable, FateMove, Fate, Approved, ApprovalInv
<1>7. crashes' = crashes
  BY DEF DropTree, boot
<1>8. QED BY <1>2, <1>3, <1>4, <1>5, <1>6, <1>7 DEF OutcomeStep, OutcomeInv

(* A branch is dropped only by a job that is over. *)
LEMMA DropBranchOutcome ==
    ASSUME TypeOK, NEW j \in Jobs, NEW a \in Actors, JobInv(j), OutcomeInv(j),
           DropBranch(a, j)
    PROVE  OutcomeStep(j)
<1>1. Stays(j) /\ Goes(a, j, "over")
  BY RegistryStays, GotoGoes DEF DropBranch, Statuses, PcLabels, Actors
<1>2. MirrorInv(j)'
  BY <1>1 DEF DropBranch, Stays, Goes, TypeOK, Actors, At, registry, running, decisions,
      boot, JobInv, FreshInv, StatusInv, StartupInv, Salvaging, Driving, MergePcs,
      OutcomeInv, MirrorInv, Reviewable, CancelInv, Occupying
<1>3. SignalInv(j)'
  BY <1>1 DEF DropBranch, Stays, Goes, TypeOK, Actors, At, registry, running, decisions,
      boot, JobInv, FreshInv, StatusInv, StartupInv, Salvaging, Driving, MergePcs,
      OutcomeInv, SignalInv
<1>4. RejectInv(j)'
  BY <1>1 DEF DropBranch, Stays, Goes, TypeOK, Actors, At, registry, running, decisions,
      boot, JobInv, FreshInv, StatusInv, StartupInv, Salvaging, Driving, MergePcs,
      OutcomeInv, SignalInv, RejectInv, Shut
<1>5. BranchInv(j)'
  BY <1>1 DEF DropBranch, Stays, Goes, TypeOK, Actors, At, registry, running, decisions,
      boot, JobInv, FreshInv, StatusInv, StartupInv, Salvaging, Driving, MergePcs,
      OutcomeInv, MirrorInv, Reviewable, BranchInv, WithBranch, OnlyGit, Dropping, IsGit,
      Occupying
<1>6. FateMove(j)
  BY <1>1 DEF DropBranch, Stays, Goes, TypeOK, Actors, At, registry, running, decisions,
      boot, JobInv, FreshInv, StatusInv, StartupInv, Salvaging, Driving, MergePcs,
      OutcomeInv, MirrorInv, SignalInv, Reviewable, FateMove, Fate, Approved, ApprovalInv
<1>7. crashes' = crashes
  BY DEF DropBranch, boot
<1>8. QED BY <1>2, <1>3, <1>4, <1>5, <1>6, <1>7 DEF OutcomeStep, OutcomeInv

(* A !cancel closes the job. *)
LEMMA CancelOutcome ==
    ASSUME TypeOK, NEW j \in Jobs, JobInv(j), OutcomeInv(j), Cancel(j)
    PROVE  OutcomeStep(j)
<1>1. Becomes(j, "cancelled") /\ \E l \in {"kill", "over"} : Goes("command", j, l)
  BY SetStatusBecomes, GotoGoes DEF Cancel, Statuses, PcLabels, Actors
<1>2. MirrorInv(j)'
  BY <1>1 DEF Cancel, Becomes, Goes, TypeOK, Actors, At, git, running, boot, JobInv,
      FreshInv, StatusInv, StartupInv, Salvaging, Driving, MergePcs, OutcomeInv, MirrorInv,
      Reviewable, CancelInv, Occupying
<1>3. SignalInv(j)'
  BY <1>1 DEF Cancel, Becomes, Goes, TypeOK, Actors, At, git, running, boot, JobInv,
      FreshInv, StatusInv, StartupInv, Salvaging, Driving, MergePcs, OutcomeInv, SignalInv
<1>4. RejectInv(j)'
  BY <1>1 DEF Cancel, Becomes, Goes, TypeOK, Actors, At, git, running, boot, JobInv,
      FreshInv, StatusInv, StartupInv, Salvaging, Driving, MergePcs, OutcomeInv, SignalInv,
      RejectInv, Shut
<1>5. BranchInv(j)'
  BY <1>1 DEF Cancel, Becomes, Goes, TypeOK, Actors, At, git, running, boot, JobInv,
      FreshInv, StatusInv, StartupInv, Salvaging, Driving, MergePcs, OutcomeInv, MirrorInv,
      Reviewable, BranchInv, WithBranch, OnlyGit, Dropping, IsGit, Occupying
<1>6. FateMove(j)
  BY <1>1 DEF Cancel, Becomes, Goes, TypeOK, Actors, At, git, running, boot, JobInv,
      FreshInv, StatusInv, StartupInv, Salvaging, Driving, MergePcs, OutcomeInv, MirrorInv,
      SignalInv, Reviewable, FateMove, Fate, Approved, ApprovalInv
<1>7. crashes' = crashes
  BY DEF Cancel, boot
<1>8. QED BY <1>2, <1>3, <1>4, <1>5, <1>6, <1>7 DEF OutcomeStep, OutcomeInv

(* The kill of the agent decides nothing more. *)
LEMMA KillAgentOutcome ==
    ASSUME TypeOK, NEW j \in Jobs, JobInv(j), OutcomeInv(j), KillAgent(j)
    PROVE  OutcomeStep(j)
<1>1. Stays(j) /\ Goes("command", j, "over")
  BY RegistryStays, GotoGoes DEF KillAgent, Statuses, PcLabels, Actors
<1>2. MirrorInv(j)'
  BY <1>1 DEF KillAgent, Stays, Goes, TypeOK, Actors, At, registry, git, decisions, boot,
      JobInv, FreshInv, StatusInv, StartupInv, Salvaging, Driving, MergePcs, OutcomeInv,
      MirrorInv, Reviewable, CancelInv, Occupying
<1>3. SignalInv(j)'
  BY <1>1 DEF KillAgent, Stays, Goes, TypeOK, Actors, At, registry, git, decisions, boot,
      JobInv, FreshInv, StatusInv, StartupInv, Salvaging, Driving, MergePcs, OutcomeInv,
      SignalInv
<1>4. RejectInv(j)'
  BY <1>1 DEF KillAgent, Stays, Goes, TypeOK, Actors, At, registry, git, decisions, boot,
      JobInv, FreshInv, StatusInv, StartupInv, Salvaging, Driving, MergePcs, OutcomeInv,
      SignalInv, RejectInv, Shut
<1>5. BranchInv(j)'
  BY <1>1 DEF KillAgent, Stays, Goes, TypeOK, Actors, At, registry, git, decisions, boot,
      JobInv, FreshInv, StatusInv, StartupInv, Salvaging, Driving, MergePcs, OutcomeInv,
      MirrorInv, Reviewable, BranchInv, WithBranch, OnlyGit, Dropping, IsGit, Occupying
<1>6. FateMove(j)
  BY <1>1 DEF KillAgent, Stays, Goes, TypeOK, Actors, At, registry, git, decisions, boot,
      JobInv, FreshInv, StatusInv, StartupInv, Salvaging, Driving, MergePcs, OutcomeInv,
      MirrorInv, SignalInv, Reviewable, FateMove, Fate, Approved, ApprovalInv
<1>7. crashes' = crashes
  BY DEF KillAgent, boot
<1>8. QED BY <1>2, <1>3, <1>4, <1>5, <1>6, <1>7 DEF OutcomeStep, OutcomeInv

(* A !merge approves the change and claims the merge. *)
LEMMA MergeCommandOutcome ==
    ASSUME TypeOK, NEW j \in Jobs, JobInv(j), OutcomeInv(j), MergeCommand(j)
    PROVE  OutcomeStep(j)
<1>1. MergeEffect("command", j)
  BY DoMergeDoes DEF MergeCommand, Statuses, Actors
<1>2. MirrorInv(j)'
  BY <1>1 DEF MergeCommand, MergeEffect, Stays, Becomes, Goes, Parked, MergeableStatus,
      TypeOK, Actors, At, git, running, boot, JobInv, FreshInv, StatusInv, StartupInv,
      Salvaging, Driving, MergePcs, OutcomeInv, MirrorInv, Reviewable, CancelInv, Occupying
<1>3. SignalInv(j)'
  BY <1>1 DEF MergeCommand, MergeEffect, Stays, Becomes, Goes, Parked, MergeableStatus,
      TypeOK, Actors, At, git, running, boot, JobInv, FreshInv, StatusInv, StartupInv,
      Salvaging, Driving, MergePcs, OutcomeInv, SignalInv
<1>4. RejectInv(j)'
  BY <1>1 DEF MergeCommand, MergeEffect, Stays, Becomes, Goes, Parked, MergeableStatus,
      TypeOK, Actors, At, git, running, boot, JobInv, FreshInv, StatusInv, StartupInv,
      Salvaging, Driving, MergePcs, OutcomeInv, SignalInv, RejectInv, Shut
<1>5. BranchInv(j)'
  BY <1>1 DEF MergeCommand, MergeEffect, Stays, Becomes, Goes, Parked, MergeableStatus,
      TypeOK, Actors, At, git, running, boot, JobInv, FreshInv, StatusInv, StartupInv,
      Salvaging, Driving, MergePcs, OutcomeInv, MirrorInv, Reviewable, BranchInv,
      WithBranch, OnlyGit, Dropping, IsGit, Occupying
<1>6. FateMove(j)
  BY <1>1 DEF MergeCommand, MergeEffect, Stays, Becomes, Goes, Parked, MergeableStatus,
      TypeOK, Actors, At, git, running, boot, JobInv, FreshInv, StatusInv, StartupInv,
      Salvaging, Driving, MergePcs, OutcomeInv, MirrorInv, SignalInv, Reviewable, FateMove,
      Fate, Approved, ApprovalInv
<1>7. crashes' = crashes
  BY DEF MergeCommand, boot
<1>8. QED BY <1>2, <1>3, <1>4, <1>5, <1>6, <1>7 DEF OutcomeStep, OutcomeInv

(* A !discard refuses the change and closes the job at once. *)
LEMMA DiscardCommandOutcome ==
    ASSUME TypeOK, NEW j \in Jobs, JobInv(j), OutcomeInv(j), DiscardCommand(j)
    PROVE  OutcomeStep(j)
<1>1. Becomes(j, "done") /\ Goes("command", j, "dropTree")
  BY SetStatusBecomes, GotoGoes, DiscardLabels DEF DiscardCommand, Statuses, PcLabels,
      Actors
<1>2. MirrorInv(j)'
  BY <1>1 DEF DiscardCommand, Becomes, Goes, Parked, TypeOK, Actors, At, git, running, boot,
      JobInv, FreshInv, StatusInv, StartupInv, Salvaging, Driving, MergePcs, OutcomeInv,
      MirrorInv, Reviewable, CancelInv, Occupying
<1>3. SignalInv(j)'
  BY <1>1 DEF DiscardCommand, Becomes, Goes, Parked, TypeOK, Actors, At, git, running, boot,
      JobInv, FreshInv, StatusInv, StartupInv, Salvaging, Driving, MergePcs, OutcomeInv,
      SignalInv
<1>4. RejectInv(j)'
  BY <1>1 DEF DiscardCommand, Becomes, Goes, Parked, TypeOK, Actors, At, git, running, boot,
      JobInv, FreshInv, StatusInv, StartupInv, Salvaging, Driving, MergePcs, OutcomeInv,
      SignalInv, RejectInv, Shut
<1>5. BranchInv(j)'
  BY <1>1 DEF DiscardCommand, Becomes, Goes, Parked, TypeOK, Actors, At, git, running, boot,
      JobInv, FreshInv, StatusInv, StartupInv, Salvaging, Driving, MergePcs, OutcomeInv,
      MirrorInv, Reviewable, BranchInv, WithBranch, OnlyGit, Dropping, IsGit, Occupying
<1>6. FateMove(j)
  BY <1>1 DEF DiscardCommand, Becomes, Goes, Parked, TypeOK, Actors, At, git, running, boot,
      JobInv, FreshInv, StatusInv, StartupInv, Salvaging, Driving, MergePcs, OutcomeInv,
      MirrorInv, SignalInv, Reviewable, FateMove, Fate, Approved, ApprovalInv
<1>7. crashes' = crashes
  BY DEF DiscardCommand, boot
<1>8. QED BY <1>2, <1>3, <1>4, <1>5, <1>6, <1>7 DEF OutcomeStep, OutcomeInv

(* A reaction is taken up later, at the gate; only the approval counts at once. *)
LEMMA ReactOutcome ==
    ASSUME TypeOK, NEW j \in Jobs, NEW d \in {"confirm", "reject", "ignored"}, JobInv(j),
           OutcomeInv(j), React(j, d)
    PROVE  OutcomeStep(j)
<1>1. Stays(j) /\ UNCHANGED pc
  BY RegistryStays DEF React, Statuses, Actors, git, running, decisions
<1>2. MirrorInv(j)'
  BY <1>1 DEF React, Stays, TypeOK, Actors, At, registry, git, running, boot, JobInv,
      FreshInv, StatusInv, StartupInv, Salvaging, Driving, MergePcs, OutcomeInv, MirrorInv,
      Reviewable, CancelInv, Occupying
<1>3. SignalInv(j)'
  BY <1>1 DEF React, Stays, TypeOK, Actors, At, registry, git, running, boot, JobInv,
      FreshInv, StatusInv, StartupInv, Salvaging, Driving, MergePcs, OutcomeInv, SignalInv
<1>4. RejectInv(j)'
  BY <1>1 DEF React, Stays, TypeOK, Actors, At, registry, git, running, boot, JobInv,
      FreshInv, StatusInv, StartupInv, Salvaging, Driving, MergePcs, OutcomeInv, SignalInv,
      RejectInv, Shut
<1>5. BranchInv(j)'
  BY <1>1 DEF React, Stays, TypeOK, Actors, At, registry, git, running, boot, JobInv,
      FreshInv, StatusInv, StartupInv, Salvaging, Driving, MergePcs, OutcomeInv, MirrorInv,
      Reviewable, BranchInv, WithBranch, OnlyGit, Dropping, IsGit, Occupying
<1>6. FateMove(j)
  BY <1>1 DEF React, Stays, TypeOK, Actors, At, registry, git, running, boot, JobInv,
      FreshInv, StatusInv, StartupInv, Salvaging, Driving, MergePcs, OutcomeInv, MirrorInv,
      SignalInv, Reviewable, FateMove, Fate, Approved, ApprovalInv
<1>7. crashes' = crashes
  BY DEF React, boot
<1>8. QED BY <1>2, <1>3, <1>4, <1>5, <1>6, <1>7 DEF OutcomeStep, OutcomeInv

(* A mirror read after a restart is reviewable again, an orphan, or history. *)
LEMMA RecoverOutcome ==
    ASSUME TypeOK, NEW j \in Jobs, JobInv(j), OutcomeInv(j), Recover(j)
    PROVE  OutcomeStep(j)
<1>1. UNCHANGED pc /\ RegistryMoves(j)
  BY RegistryStays DEF Recover, Statuses, Actors, TypeOK, RegistryMoves, Occupying,
      registry, git, running, decisions
<1>2. MirrorInv(j)'
  BY <1>1 DEF Recover, Stays, RegistryMoves, TypeOK, Actors, At, registry, git, running,
      decisions, JobInv, FreshInv, StatusInv, StartupInv, Salvaging, Driving, MergePcs,
      OutcomeInv, MirrorInv, Reviewable, CancelInv, Occupying
<1>3. SignalInv(j)'
  BY <1>1 DEF Recover, Stays, RegistryMoves, TypeOK, Actors, At, registry, git, running,
      decisions, JobInv, FreshInv, StatusInv, StartupInv, Salvaging, Driving, MergePcs,
      OutcomeInv, SignalInv
<1>4. RejectInv(j)'
  BY <1>1 DEF Recover, Stays, RegistryMoves, TypeOK, Actors, At, registry, git, running,
      decisions, JobInv, FreshInv, StatusInv, StartupInv, Salvaging, Driving, MergePcs,
      OutcomeInv, SignalInv, RejectInv, Shut
<1>5. BranchInv(j)'
  BY <1>1 DEF Recover, Stays, RegistryMoves, TypeOK, Actors, At, registry, git, running,
      decisions, JobInv, FreshInv, StatusInv, StartupInv, Salvaging, Driving, MergePcs,
      OutcomeInv, MirrorInv, Reviewable, BranchInv, WithBranch, OnlyGit, Dropping, IsGit,
      Occupying
<1>6. FateMove(j)
  BY <1>1 DEF Recover, Stays, RegistryMoves, TypeOK, Actors, At, registry, git, running,
      decisions, JobInv, FreshInv, StatusInv, StartupInv, Salvaging, Driving, MergePcs,
      OutcomeInv, MirrorInv, SignalInv, Reviewable, FateMove, Fate, Approved, ApprovalInv
<1>7. crashes' = crashes
  BY DEF Recover
<1>8. QED BY <1>2, <1>3, <1>4, <1>5, <1>6, <1>7 DEF OutcomeStep, OutcomeInv

(* An orphan is submitted for review, or forgotten. *)
LEMMA RescueOutcome ==
    ASSUME TypeOK, NEW j \in Jobs, JobInv(j), OutcomeInv(j), Rescue(j)
    PROVE  OutcomeStep(j)
<1>1. \/ UNCHANGED pc /\ Becomes(j, "awaiting_review")
      \/ UNCHANGED pc /\ Stays(j)
  BY SetStatusBecomes, RegistryStays DEF Rescue, Statuses, Actors, git, running, decisions
<1>2. MirrorInv(j)'
  BY <1>1 DEF Rescue, Stays, Becomes, TypeOK, Actors, At, registry, running, decisions,
      JobInv, FreshInv, StatusInv, StartupInv, Salvaging, Driving, MergePcs, OutcomeInv,
      MirrorInv, Reviewable, CancelInv, Occupying
<1>3. SignalInv(j)'
  BY <1>1 DEF Rescue, Stays, Becomes, TypeOK, Actors, At, registry, running, decisions,
      JobInv, FreshInv, StatusInv, StartupInv, Salvaging, Driving, MergePcs, OutcomeInv,
      SignalInv
<1>4. RejectInv(j)'
  BY <1>1 DEF Rescue, Stays, Becomes, TypeOK, Actors, At, registry, running, decisions,
      JobInv, FreshInv, StatusInv, StartupInv, Salvaging, Driving, MergePcs, OutcomeInv,
      MirrorInv, SignalInv, RejectInv, Shut
<1>5. BranchInv(j)'
  BY <1>1 DEF Rescue, Stays, Becomes, TypeOK, Actors, At, registry, running, decisions,
      JobInv, FreshInv, StatusInv, StartupInv, Salvaging, Driving, MergePcs, OutcomeInv,
      MirrorInv, Reviewable, BranchInv, WithBranch, OnlyGit, Dropping, IsGit, Occupying
<1>6. FateMove(j)
  BY <1>1 DEF Rescue, Stays, Becomes, TypeOK, Actors, At, registry, running, decisions,
      JobInv, FreshInv, StatusInv, StartupInv, Salvaging, Driving, MergePcs, OutcomeInv,
      MirrorInv, SignalInv, Reviewable, FateMove, Fate, Approved, ApprovalInv
<1>7. crashes' = crashes
  BY DEF Rescue
<1>8. QED BY <1>2, <1>3, <1>4, <1>5, <1>6, <1>7 DEF OutcomeStep, OutcomeInv

(* The startup GC takes only branches that nobody can ask for. *)
LEMMA GcBranchOutcome ==
    ASSUME TypeOK, NEW j \in Jobs, JobInv(j), OutcomeInv(j), GcBranch(j)
    PROVE  OutcomeStep(j)
<1>1. Stays(j) /\ UNCHANGED pc
  BY RegistryStays DEF GcBranch, Statuses, Actors, git, running, decisions
<1>2. MirrorInv(j)'
  BY <1>1 DEF GcBranch, Stays, TypeOK, Actors, At, registry, running, decisions, boot,
      JobInv, FreshInv, StatusInv, StartupInv, Salvaging, Driving, MergePcs, OutcomeInv,
      MirrorInv, Reviewable, CancelInv, Occupying
<1>3. SignalInv(j)'
  BY <1>1 DEF GcBranch, Stays, TypeOK, Actors, At, registry, running, decisions, boot,
      JobInv, FreshInv, StatusInv, StartupInv, Salvaging, Driving, MergePcs, OutcomeInv,
      SignalInv
<1>4. RejectInv(j)'
  BY <1>1 DEF GcBranch, Stays, TypeOK, Actors, At, registry, running, decisions, boot,
      JobInv, FreshInv, StatusInv, StartupInv, Salvaging, Driving, MergePcs, OutcomeInv,
      SignalInv, RejectInv, Shut
<1>5. BranchInv(j)'
  <2>1. ~Reviewable(j)
    BY DEF GcBranch, Collectable, OutcomeInv, MirrorInv, Reviewable
  <2>2. QED BY <1>1, <2>1 DEF GcBranch, Stays, registry, TypeOK, Actors, At, git, JobInv,
      FreshInv, StatusInv, StartupInv, Salvaging, Driving, MergePcs, OutcomeInv, MirrorInv,
      Reviewable, BranchInv, WithBranch, OnlyGit, Dropping, IsGit, Occupying
<1>6. FateMove(j)
  BY <1>1 DEF GcBranch, Stays, TypeOK, Actors, At, registry, running, decisions, boot,
      JobInv, FreshInv, StatusInv, StartupInv, Salvaging, Driving, MergePcs, OutcomeInv,
      MirrorInv, SignalInv, Reviewable, FateMove, Fate, Approved, ApprovalInv
<1>7. crashes' = crashes
  BY DEF GcBranch, boot
<1>8. QED BY <1>2, <1>3, <1>4, <1>5, <1>6, <1>7 DEF OutcomeStep, OutcomeInv
-----------------------------------------------------------------------------
(* The steps that concern every job. *)

(* The end of the startup: it closes what it forgets, and keeps what can be reviewed. *)
LEMMA FinishStartupOutcome ==
    ASSUME Inv, Outcomes, FinishStartup
    PROVE  /\ Outcomes'
           /\ \A j \in Jobs : /\ Fate(j)' = Fate(j) \/ (Fate(j) = "working" /\ Fate(j)' = "closed")
                              /\ Approved(j)' = Approved(j) /\ rejected'[j] = rejected[j]
<1> USE DEF FinishStartup, git, running, decisions, Inv, TypeOK, At, Actors
<1>1. ASSUME NEW j \in Jobs PROVE OutcomeInv(j)'
  <2> USE DEF Outcomes, OutcomeInv
  <2>1. MirrorInv(j)' BY DEF MirrorInv, Reviewable
  <2>2. SignalInv(j)' BY DEF SignalInv
  <2>3. RejectInv(j)' BY DEF RejectInv, Shut, Reviewable, MirrorInv
  <2>4. BranchInv(j)' BY DEF BranchInv, MirrorInv, Reviewable, IsGit
  <2>5. QED BY <2>1, <2>2, <2>3, <2>4
<1>2. ASSUME NEW j \in Jobs
      PROVE  /\ Fate(j)' = Fate(j) \/ (Fate(j) = "working" /\ Fate(j)' = "closed")
             /\ Approved(j)' = Approved(j) /\ rejected'[j] = rejected[j]
  <2>1. Approved(j)' = Approved(j) /\ rejected'[j] = rejected[j]
    BY DEF Approved
  <2>2. pc'[<<"driver", j>>] = pc[<<"driver", j>>] /\ merged'[j] = merged[j]
    OBVIOUS
  <2>3. Reviewable(j)' <=> Reviewable(j)
    BY DEF Outcomes, OutcomeInv, MirrorInv, Reviewable
  <2>4. Salvaging(j)' <=> Salvaging(j)
    BY <2>2 DEF Salvaging
  <2>5. mirror'[j] # "running" \/ Reviewable(j) \/ mirror[j] = "running"
    BY DEF Reviewable
  <2>6. mirror'[j] # "orphaned" \/ j \notin orphans'
    OBVIOUS
  <2>7. QED BY <2>1, <2>2, <2>3, <2>4, <2>5, <2>6 DEF Fate
<1>3. QED BY <1>1, <1>2 DEF Outcomes

(* A restart: it closes what only a coroutine, or the memory of an orphan, kept open. *)
LEMMA CrashOutcome ==
    ASSUME Inv, Outcomes, Crash
    PROVE  /\ Outcomes'
           /\ \A j \in Jobs : /\ Fate(j)' = Fate(j) \/ (Fate(j) = "working" /\ Fate(j)' = "closed")
                              /\ Approved(j)' = Approved(j) /\ rejected'[j] = rejected[j]
<1> USE DEF Crash, git, decisions, Inv, TypeOK, At
<1>1. ASSUME NEW j \in Jobs
      PROVE  \A a \in Actors : pc'[<<a, j>>] = IF pc[<<a, j>>] = "new" THEN "new" ELSE "over"
  BY <1>1 DEF Actors
<1>3. ASSUME NEW j \in Jobs PROVE OutcomeInv(j)'
  <2> USE <1>1 DEF Outcomes, OutcomeInv, Actors
  <2>1. MirrorInv(j)' BY DEF MirrorInv, Reviewable
  <2>2. SignalInv(j)' BY DEF SignalInv
  <2>3. RejectInv(j)' BY DEF RejectInv, Shut
  <2>4. BranchInv(j)' BY DEF BranchInv, MirrorInv, Reviewable, IsGit, WithBranch, OnlyGit, Dropping
  <2>5. QED BY <2>1, <2>2, <2>3, <2>4
<1>4. ASSUME NEW j \in Jobs
      PROVE  /\ Fate(j)' = Fate(j) \/ (Fate(j) = "working" /\ Fate(j)' = "closed")
             /\ Approved(j)' = Approved(j) /\ rejected'[j] = rejected[j]
  <2>1. Approved(j)' = Approved(j) /\ rejected'[j] = rejected[j]
    BY DEF Approved
  <2>2. (pc'[<<"driver", j>>] = "new" <=> pc[<<"driver", j>>] = "new") /\ ~Salvaging(j)'
    BY <1>1 DEF Actors, Salvaging
  <2>3. mirror'[j] = mirror[j] /\ merged'[j] = merged[j] /\ j \notin orphans'
    OBVIOUS
  <2>4. QED BY <2>1, <2>2, <2>3 DEF Fate, Reviewable
<1>5. QED BY <1>3, <1>4 DEF Outcomes

(* The three kinds of step: of one job, of the whole bridge, or none. *)
LEMMA StepKinds ==
    ASSUME Inv, Outcomes, [Next]_vars
    PROVE  \/ \E j \in Jobs : StepOf(j) /\ OutcomeStep(j)
           \/ FinishStartup \/ Crash
           \/ UNCHANGED vars
<1> USE DEF Inv, Outcomes
<1>1. ASSUME NEW j \in Jobs, NEW a \in Actors, MergeStep(a, j)
      PROVE  StepOf(j) /\ OutcomeStep(j)
  BY <1>1, TakeMergeLockKeeps, MergeKeeps, MergeReturnKeeps, DropTreeKeeps, DropBranchKeeps,
     TakeMergeLockOutcome, MergeOutcome, MergeReturnOutcome, DropTreeOutcome,
     DropBranchOutcome DEF MergeStep
<1>2. ASSUME NEW j \in Jobs, DriverStep(j) PROVE StepOf(j)
  BY <1>1, <1>2, AnnounceKeeps, PostStatusKeeps, CreateWorktreeKeeps, RecordWorktreeKeeps,
     IngestKeeps, SpawnKeeps, FinishRunKeeps, UnwindKeeps, SettleKeeps, SalvageKeeps,
     SalvageDiffKeeps, ReplyKeeps, CommitKeeps, CheckDiffKeeps, AdviseKeeps,
     PostGateKeeps, ResumeGateKeeps, GateTimeoutKeeps, VerifyKeeps, EvaluateKeeps,
     AuditParkKeeps, AuditMergeKeeps, ParkTreeKeeps DEF DriverStep, Actors
<1>3. ASSUME NEW j \in Jobs, DriverStep(j) PROVE OutcomeStep(j)
  BY <1>1, <1>3, AnnounceOutcome, PostStatusOutcome, CreateWorktreeOutcome,
     RecordWorktreeOutcome, IngestOutcome, SpawnOutcome, FinishRunOutcome, UnwindOutcome,
     SettleOutcome, SalvageOutcome, SalvageDiffOutcome, ReplyOutcome, CommitOutcome,
     CheckDiffOutcome, AdviseOutcome, PostGateOutcome, ResumeGateOutcome, GateTimeoutOutcome,
     VerifyOutcome, EvaluateOutcome, AuditParkOutcome, AuditMergeOutcome,
     ParkTreeOutcome DEF DriverStep, Actors
<1>4. ASSUME NEW j \in Jobs, CommandStep(j) PROVE StepOf(j) /\ OutcomeStep(j)
  BY <1>1, <1>4, KillAgentKeeps, KillAgentOutcome DEF CommandStep, Actors
<1>5. ASSUME NEW j \in Jobs, OperatorStep(j) PROVE StepOf(j) /\ OutcomeStep(j)
  BY <1>5, StartKeeps, CancelKeeps, MergeCommandKeeps, DiscardCommandKeeps, ReactKeeps,
     StartOutcome, CancelOutcome, MergeCommandOutcome, DiscardCommandOutcome,
     ReactOutcome DEF OperatorStep
<1>6. ASSUME NEW j \in Jobs, AgentStep(j) PROVE StepOf(j) /\ OutcomeStep(j)
  BY <1>6, AgentStepKeeps, AgentStepOutcome
<1>7. ASSUME NEW j \in Jobs, Recover(j) \/ Rescue(j) \/ GcBranch(j)
      PROVE  StepOf(j) /\ OutcomeStep(j)
  BY <1>7, RecoverKeeps, RescueKeeps, GcBranchKeeps, RecoverOutcome, RescueOutcome,
     GcBranchOutcome
<1>8. QED BY <1>2, <1>3, <1>4, <1>5, <1>6, <1>7 DEF Next, StartupStep, Idle

(* Every step keeps the outcomes. *)
LEMMA NextKeepsOutcomes ==
    ASSUME Inv, Outcomes, [Next]_vars
    PROVE  Outcomes'
<1>1. ASSUME NEW j \in Jobs, StepOf(j), OutcomeStep(j) PROVE Outcomes'
  BY <1>1, SliceKeepsOutcome DEF StepOf, OutcomeStep, Outcomes
<1>2. CASE UNCHANGED vars
  BY <1>2, SliceKeepsOutcome DEF Outcomes, SameSlice, vars
<1>3. QED BY <1>1, <1>2, StepKinds, FinishStartupOutcome, CrashOutcome

(* Nothing was handed out yet. *)
LEMMA InitOutcomes == Init => Outcomes
<1> SUFFICES ASSUME Init, NEW j \in Jobs PROVE OutcomeInv(j)
  BY DEF Outcomes
<1>1. pc[<<"driver", j>>] = "new" /\ pc[<<"command", j>>] = "over"
  BY DEF Init, Actors
<1> USE <1>1 DEF Init, OutcomeInv, At, Actors
<1>2. MirrorInv(j) BY DEF MirrorInv, Reviewable
<1>3. SignalInv(j) BY DEF SignalInv
<1>4. RejectInv(j) BY DEF RejectInv, Shut
<1>5. BranchInv(j) BY DEF BranchInv, WithBranch, OnlyGit, Dropping, Reviewable
<1>6. QED BY <1>2, <1>3, <1>4, <1>5

-----------------------------------------------------------------------------
(* The refinement. *)

(* A step of one job is a step of JobLifecycle, or leaves its variables alone. *)
LEMMA JobStepRefines ==
    ASSUME NEW j \in Jobs, FateMove(j), rejected \in [Jobs -> BOOLEAN],
           \A k \in Jobs \ {j} : /\ Fate(k)' = Fate(k) /\ Approved(k)' = Approved(k)
                                 /\ rejected'[k] = rejected[k]
    PROVE  [Lifecycle!LifecycleNext]_(Lifecycle!lifecycleVars)
<1> DEFINE f == [k \in Jobs |-> Fate(k)]
           app == {k \in Jobs : Approved(k)}
           ref == {k \in Jobs : rejected[k]}
<1> HIDE DEF f, app, ref
<1>1. /\ f' = [f EXCEPT ![j] = Fate(j)']
      /\ f[j] = Fate(j)
  BY DEF f
<1>2. Fate(j)' = Fate(j) => f' = f
  BY DEF f
<1>3. f' = [k \in Jobs |-> IF k \in {j} THEN Fate(j)' ELSE f[k]]
  BY DEF f
<1>4. ((Approved(j)' <=> Approved(j)) => app' = app) /\ (Approved(j) => j \in app)
  BY DEF app
<1>5. Approved(j)' => app' = app \cup {j}
  BY DEF app
<1>6. (rejected'[j] <=> rejected[j]) => ref' = ref
  BY DEF ref
<1>7. rejected'[j] => ref' = ref \cup {j}
  BY DEF ref
<1>8. CASE Fate(j)' = Fate(j)
  <2>1. CASE (Approved(j)' <=> Approved(j)) /\ (rejected'[j] <=> rejected[j])
    <3>1. UNCHANGED <<f, app, ref>>
      BY <1>2, <1>4, <1>6, <1>8, <2>1
    <3>2. QED BY <3>1 DEF f, app, ref, Lifecycle!lifecycleVars
  <2>2. CASE ~(Approved(j)' <=> Approved(j))
    <3>1. f' = f /\ app' = app \cup {j} /\ ref' = ref
      BY <1>2, <1>5, <1>6, <1>8, <2>2 DEF FateMove
    <3>2. Lifecycle!Approve(j)
      BY <3>1 DEF f, app, ref, Lifecycle!Approve
    <3>3. QED BY <3>2 DEF Lifecycle!LifecycleNext
  <2>3. CASE ~(rejected'[j] <=> rejected[j])
    <3>1. f' = f /\ app' = app /\ ref' = ref \cup {j} /\ f[j] \in {"landed", "closed"}
      BY <1>1, <1>2, <1>4, <1>7, <1>8, <2>3 DEF FateMove
    <3>2. Lifecycle!Refuse(j)
      BY <3>1 DEF f, app, ref, Lifecycle!Refuse
    <3>3. QED BY <3>2 DEF Lifecycle!LifecycleNext
  <2>4. QED BY <2>1, <2>2, <2>3
<1>9. CASE /\ (Approved(j)' <=> Approved(j)) /\ (rejected'[j] <=> rejected[j])
           /\ Fate(j)' # Fate(j)
  <2>1. app' = app /\ ref' = ref
    BY <1>4, <1>6, <1>9
  <2>2. CASE Fate(j) = "fresh" /\ Fate(j)' = "working"
    <3>1. Lifecycle!Begin(j)
      BY <1>1, <2>1, <2>2 DEF f, app, ref, Lifecycle!Begin, Lifecycle!Move
    <3>2. QED BY <3>1 DEF Lifecycle!LifecycleNext
  <2>3. CASE Fate(j) = "working" /\ Fate(j)' = "reviewable"
    <3>1. Lifecycle!Submit(j)
      BY <1>1, <2>1, <2>3 DEF f, app, ref, Lifecycle!Submit, Lifecycle!Move
    <3>2. QED BY <3>1 DEF Lifecycle!LifecycleNext
  <2>4. CASE Fate(j) = "working" /\ Fate(j)' = "closed"
    <3>1. Lifecycle!Abandon({j})
      BY <1>1, <1>3, <2>1, <2>4 DEF f, app, ref, Lifecycle!Abandon
    <3>2. QED BY <3>1 DEF Lifecycle!LifecycleNext
  <2>5. CASE Fate(j) = "reviewable" /\ Fate(j)' = "landed" /\ Approved(j)
    <3>1. Lifecycle!Land(j)
      BY <1>1, <1>4, <2>1, <2>5 DEF f, app, ref, Lifecycle!Land, Lifecycle!Move
    <3>2. QED BY <3>1 DEF Lifecycle!LifecycleNext
  <2>6. CASE Fate(j) = "reviewable" /\ Fate(j)' = "closed" /\ rejected'[j]
    <3>1. ref' = ref \cup {j}
      BY <1>7, <2>6
    <3>2. Lifecycle!Drop(j)
      BY <1>1, <2>1, <2>6, <3>1 DEF f, app, ref, Lifecycle!Drop
    <3>3. QED BY <3>2 DEF Lifecycle!LifecycleNext
  <2>7. QED BY <1>9, <2>2, <2>3, <2>4, <2>5, <2>6 DEF FateMove
<1>10. CASE /\ Approved(j)' <=> Approved(j)
            /\ rejected'[j]
            /\ Fate(j) \in {"working", "reviewable"} /\ Fate(j)' = "closed"
  <2>1. app' = app /\ ref' = ref \cup {j}
    BY <1>4, <1>7, <1>10
  <2>2. Lifecycle!Drop(j)
    BY <1>1, <1>10, <2>1 DEF f, app, ref, Lifecycle!Drop
  <2>3. QED BY <2>2 DEF Lifecycle!LifecycleNext
<1>11. QED BY <1>8, <1>9, <1>10 DEF FateMove

(* The end of the startup and a restart give up what they close. *)
LEMMA ClosingRefines ==
    ASSUME \A j \in Jobs : /\ Fate(j)' = Fate(j) \/ (Fate(j) = "working" /\ Fate(j)' = "closed")
                           /\ Approved(j)' = Approved(j) /\ rejected'[j] = rejected[j]
    PROVE  Lifecycle!LifecycleNext
<1> DEFINE f == [k \in Jobs |-> Fate(k)]
           app == {k \in Jobs : Approved(k)}
           ref == {k \in Jobs : rejected[k]}
           S == {k \in Jobs : Fate(k) = "working" /\ Fate(k)' = "closed"}
<1> HIDE DEF f, app, ref, S
<1>1. app' = app /\ ref' = ref
  BY DEF app, ref
<1>2. S \in SUBSET Jobs /\ \A k \in S : f[k] = "working"
  BY DEF S, f
<1>3. f' = [k \in Jobs |-> IF k \in S THEN "closed" ELSE f[k]]
  BY DEF S, f
<1>4. Lifecycle!Abandon(S)
  BY <1>1, <1>2, <1>3 DEF f, app, ref, Lifecycle!Abandon
<1>5. QED BY <1>2, <1>4 DEF Lifecycle!LifecycleNext

(* Every step of the bridge is a step of JobLifecycle or leaves its variables alone. *)
LEMMA NextRefines ==
    ASSUME Inv, Outcomes, [Next]_vars
    PROVE  [Lifecycle!LifecycleNext]_(Lifecycle!lifecycleVars)
<1>1. ASSUME NEW j \in Jobs, StepOf(j), OutcomeStep(j)
      PROVE  [Lifecycle!LifecycleNext]_(Lifecycle!lifecycleVars)
  <2>1. \A k \in Jobs \ {j} : /\ Fate(k)' = Fate(k) /\ Approved(k)' = Approved(k)
                              /\ rejected'[k] = rejected[k]
    BY <1>1, SliceKeepsOutcome DEF StepOf, OutcomeStep, Outcomes
  <2>2. QED BY <1>1, <2>1, JobStepRefines DEF OutcomeStep, Inv, TypeOK
<1>2. CASE UNCHANGED vars
  <2>1. \A k \in Jobs : /\ Fate(k)' = Fate(k) /\ Approved(k)' = Approved(k)
                        /\ rejected'[k] = rejected[k]
    BY <1>2, SliceKeepsOutcome DEF Outcomes, SameSlice, vars
  <2>2. QED BY <2>1 DEF Lifecycle!lifecycleVars
<1>3. QED
  BY <1>1, <1>2, StepKinds, FinishStartupOutcome, CrashOutcome, ClosingRefines

(* The registry starts empty, and so does the lifecycle. *)
LEMMA InitRefines == Init => Lifecycle!LifecycleInit
<1> SUFFICES ASSUME Init PROVE Lifecycle!LifecycleInit
  OBVIOUS
<1>1. \A j \in Jobs : Fate(j) = "fresh" /\ ~Approved(j) /\ ~rejected[j]
  BY DEF Init, Fate, Approved, Actors
<1>2. QED BY <1>1 DEF Lifecycle!LifecycleInit

-----------------------------------------------------------------------------
(* The branch of a reviewable job. *)

(* The steps that move a branch, or land one. *)
GitMove ==
    \/ UNCHANGED <<branch, merged>>
    \/ \E j \in Jobs :
          \/ CreateWorktree(j) \/ AgentStep(j) \/ Salvage(j) \/ Commit(j) \/ GcBranch(j)
          \/ \E a \in Actors : Merge(a, j) \/ DropBranch(a, j)

LEMMA GitMoves == [Next]_vars => GitMove
<1> SUFFICES ASSUME [Next]_vars PROVE GitMove
  OBVIOUS
<1>1. ASSUME NEW j \in Jobs, NEW a \in Actors, MergeStep(a, j) PROVE GitMove
  BY <1>1 DEF MergeStep, GitMove, TakeMergeLock, MergeReturn, DropTree, git
<1>2. ASSUME NEW j \in Jobs, DriverStep(j) PROVE GitMove
  <2>1. CASE Announce(j) \/ PostStatus(j) \/ RecordWorktree(j) \/ Ingest(j) \/ Spawn(j)
    BY <2>1 DEF Announce, PostStatus, RecordWorktree, Ingest, Spawn, git, GitMove
  <2>2. CASE FinishRun(j) \/ Unwind(j) \/ Settle(j) \/ SalvageDiff(j) \/ Reply(j)
    BY <2>2 DEF FinishRun, Unwind, Settle, SalvageDiff, Reply, git, GitMove
  <2>3. CASE CheckDiff(j) \/ Advise(j) \/ PostGate(j) \/ ResumeGate(j) \/ GateTimeout(j)
    BY <2>3 DEF CheckDiff, Advise, PostGate, ResumeGate, GateTimeout, git, GitMove
  <2>4. CASE Verify(j) \/ Evaluate(j) \/ AuditPark(j) \/ AuditMerge(j) \/ ParkTree(j)
    BY <2>4 DEF Verify, Evaluate, AuditPark, AuditMerge, ParkTree, git, GitMove
  <2>5. CASE CreateWorktree(j) \/ Salvage(j) \/ Commit(j)
    BY <2>5 DEF GitMove
  <2>6. QED BY <1>1, <1>2, <2>1, <2>2, <2>3, <2>4, <2>5 DEF DriverStep, Actors
<1>3. ASSUME NEW j \in Jobs, CommandStep(j) \/ OperatorStep(j) PROVE GitMove
  <2>1. CASE CommandStep(j)
    BY <1>1, <2>1 DEF CommandStep, Actors, KillAgent, git, GitMove
  <2>2. CASE OperatorStep(j)
    BY <2>2 DEF OperatorStep, Start, Cancel, MergeCommand, DiscardCommand, React, git,
        GitMove
  <2>3. QED BY <1>3, <2>1, <2>2
<1>4. CASE StartupStep
  BY <1>4 DEF StartupStep, Recover, Rescue, FinishStartup, git, GitMove
<1>5. CASE Crash \/ Idle \/ UNCHANGED vars
  BY <1>5 DEF Crash, Idle, vars, git, GitMove
<1>6. QED BY <1>2, <1>3, <1>4, <1>5 DEF Next, GitMove

(* None of them concerns a reviewable job, except for the merge, which leaves its mirror. *)
LEMMA GitMoveSpares ==
    ASSUME Inv, Outcomes, GitMove, NEW k \in Jobs, Reviewable(k), branch[k] # "absent"
    PROVE  /\ branch'[k] = branch[k]
           /\ merged'[k] # merged[k] => Reviewable(k)'
<1>1. TypeOK /\ JobInv(k) /\ MirrorInv(k) /\ BranchInv(k)
  BY DEF Inv, Outcomes, OutcomeInv
<1>2. phase = "starting" => status[k] \in {"none", "awaiting_review"}
  BY <1>1 DEF MirrorInv
<1>3. pc[<<"driver", k>>] \notin Driving \cup {"salvage"}
  BY <1>1 DEF JobInv, StatusInv, StartupInv, MirrorInv, Driving, TypeOK, Salvaging, Actors
<1>4. \A a \in Actors : pc[<<a, k>>] # "dropBranch"
  BY <1>1 DEF JobInv, StatusInv, StartupInv, MirrorInv, BranchInv, Dropping, Occupying,
              TypeOK, Actors
<1>5. ~agent[k]
  BY <1>1, <1>3 DEF JobInv, LockInv, Driving
<1>6. ASSUME NEW j \in Jobs, CreateWorktree(j) \/ Salvage(j) \/ Commit(j)
      PROVE  branch'[k] = branch[k] /\ merged' = merged
  <2>1. j # k
    BY <1>3, <1>6 DEF CreateWorktree, Salvage, Commit, At, Driving
  <2>2. QED BY <1>1, <1>6, <2>1 DEF CreateWorktree, Salvage, Commit, TypeOK
<1>7. ASSUME NEW j \in Jobs, AgentStep(j)
      PROVE  branch'[k] = branch[k] /\ merged' = merged
  BY <1>1, <1>5, <1>7 DEF AgentStep, TypeOK
<1>8. ASSUME NEW j \in Jobs, GcBranch(j)
      PROVE  branch'[k] = branch[k] /\ merged' = merged
  BY <1>1, <1>8 DEF GcBranch, Collectable, MirrorInv, TypeOK
<1>9. ASSUME NEW j \in Jobs, NEW a \in Actors, DropBranch(a, j)
      PROVE  branch'[k] = branch[k] /\ merged' = merged
  BY <1>1, <1>4, <1>9 DEF DropBranch, At, TypeOK
<1>10. ASSUME NEW j \in Jobs, NEW a \in Actors, Merge(a, j)
       PROVE  /\ branch'[k] = branch[k]
              /\ merged'[k] # merged[k] => Reviewable(k)'
  BY <1>1, <1>10 DEF Merge, SetStatus, TypeOK, registry, Reviewable
<1>11. QED BY <1>6, <1>7, <1>8, <1>9, <1>10 DEF GitMove

(* Its mirror goes only with a merge or a refusal. *)
LEMMA ReviewEnds ==
    ASSUME Inv, Outcomes, [Next]_vars, NEW k \in Jobs, Reviewable(k), branch[k] # "absent"
    PROVE  Reviewable(k)' \/ merged[k] \/ rejected'[k]
<1> SUFFICES ASSUME ~merged[k], ~rejected'[k] PROVE Reviewable(k)'
  OBVIOUS
<1>1. TypeOK /\ FreshInv(k)
  BY DEF Inv, JobInv
<1>2. Fate(k) = "reviewable"
  BY <1>1 DEF Fate, FreshInv, At, Reviewable
<1>3. Fate(k)' \in {"reviewable", "landed"}
  <2>1. ASSUME NEW j \in Jobs, StepOf(j), OutcomeStep(j)
        PROVE  Fate(k)' \in {"reviewable", "landed"}
    <3>1. CASE j = k
      BY <1>2, <2>1, <3>1 DEF OutcomeStep, FateMove
    <3>2. CASE j # k
      BY <1>2, <2>1, <3>2, SliceKeepsOutcome DEF StepOf, OutcomeStep, Outcomes
    <3>3. QED BY <3>1, <3>2
  <2>2. CASE UNCHANGED vars
    BY <1>2, <2>2, SliceKeepsOutcome DEF Outcomes, SameSlice, vars
  <2>3. QED
    BY <1>2, <2>1, <2>2, StepKinds, FinishStartupOutcome, CrashOutcome
<1>4. CASE Fate(k)' = "reviewable"
  BY <1>4 DEF Fate
<1>5. CASE Fate(k)' = "landed"
  <2>1. merged'[k]
    BY <1>5 DEF Fate
  <2>2. QED BY <2>1, GitMoves, GitMoveSpares
<1>6. QED BY <1>3, <1>4, <1>5

-----------------------------------------------------------------------------
(* The mirror, the merge, the branch and the decisions on a job agree at every moment, as the
   drivers, the commands, the restarts and the recovery move them (the strengthening that the
   theorems below rest on). *)
THEOREM OutcomesHold == Spec => []Outcomes
<1>1. Init => Outcomes
  BY InitOutcomes
<1>2. Inv /\ Outcomes /\ [Next]_vars => Outcomes'
  BY NextKeepsOutcomes
<1>3. QED BY <1>1, <1>2, Invariance, PTL DEF Spec

(* A change whose refusal the bridge acted on is in the live branch only if it had landed
   unknown to the bridge: discard_job and _do_merge exclude each other by status, in memory
   and over every restart. *)
THEOREM RejectedStaysOut == Spec => []RejectedNeverLands
<1>1. Inv /\ Outcomes => RejectedNeverLands
  BY DEF Outcomes, OutcomeInv, RejectInv, RejectedNeverLands, Inv, TypeOK
<1>2. QED BY <1>1, OutcomesHold, Invariance, PTL

(* With a git that answers, a job that can be merged or discarded has its branch, in memory and
   on disk: no discard, salvage, merge or startup GC takes it away first. *)
THEOREM ReviewableKeepsBranch == Spec => []ReviewableHasBranch
<1>1. Outcomes => ReviewableHasBranch
  BY DEF Outcomes, OutcomeInv, BranchInv, ReviewableHasBranch
<1>2. QED BY <1>1, OutcomesHold, PTL

(* While its record says that a job can be reviewed, no discard, salvage, startup GC or
   restart touches its branch, and the record goes only with a merge or a refusal. *)
THEOREM ReviewIsSafe == Spec => ReviewableKept
<1>1. Inv /\ Outcomes /\ [Next]_vars
      => [\A j \in Jobs : Reviewable(j) /\ branch[j] # "absent"
                           => /\ branch'[j] = branch[j]
                              /\ Reviewable(j)' \/ merged[j] \/ rejected'[j]]_vars
  BY GitMoves, GitMoveSpares, ReviewEnds
<1>2. QED BY <1>1, Invariance, OutcomesHold, PTL DEF Spec, ReviewableKept

(* The bridge implements JobLifecycle: a change lands once and only when approved, one that
   reached review is closed only by a refusal, and a closed change never comes back, over
   every interleaving of drivers and commands and every restart. *)
THEOREM Implements == Spec => ImplementsLifecycle
<1>1. Init => Lifecycle!LifecycleInit
  BY InitRefines
<1>2. Inv /\ Outcomes /\ [Next]_vars => [Lifecycle!LifecycleNext]_(Lifecycle!lifecycleVars)
  BY NextRefines
<1>3. QED
  BY <1>1, <1>2, Invariance, OutcomesHold, PTL
     DEF Spec, ImplementsLifecycle, Lifecycle!LifecycleSpec
=============================================================================
