--------------------------- MODULE ExecJobsProofs ---------------------------
(* Theorems about ExecJobs, for every value of its constants. *)
EXTENDS ExecJobs, TLAPS

(* Where the driver of a job that is running, or was cancelled meanwhile, can be. *)
Driving == {"announcing", "posting", "branching", "branched", "ingest", "queue",
            "killing", "running", "unwind", "settling", "reply", "commit", "diffing",
            "advise", "gatePost", "gate", "verify", "evaluate", "auditPark", "auditMerge"}

(* Where a coroutine that claimed the merge can be. *)
MergePcs == {"mergeLock", "merging", "mergedRet"}

(* A job id that was not handed out yet. *)
FreshInv(j) ==
    At("driver", j, "new") =>
        /\ status[j] = "none" /\ mirror[j] = "none"
        /\ At("command", j, "over")
        /\ gate[j] = "none"
        /\ ~merged[j] /\ ~recorded[j] /\ ~cancelled[j]
        /\ j \notin todo /\ j \notin orphans

(* What the status says about the coroutines of the job. *)
StatusInv(j) ==
    /\ pc[<<"driver", j>>] \in Driving => status[j] \in {"running", "cancelled"}
    /\ At("driver", j, "settling") =>
           kind[j] # "none" /\ (kind[j] = "cancelled" => status[j] = "cancelled")
    /\ Salvaging(j) => status[j] \in {"timeout", "failed"} /\ ~cancelled[j]
    /\ \A a \in Actors : pc[<<a, j>>] \in MergePcs => status[j] = "merging"
    /\ pc[<<"driver", j>>] \in MergePcs => pc[<<"command", j>>] \notin MergePcs
    /\ merged[j] => status[j] # "running"

(* Recovery happens before any coroutine exists, and only then. *)
StartupInv(j) ==
    /\ phase = "up" => j \notin todo /\ j \notin orphans
    /\ phase = "starting" => \A a \in Actors : pc[<<a, j>>] \in {"new", "over"}
    /\ j \in orphans => ~cancelled[j]

(* Which approvals a coroutine has on its way to a merge. *)
ApprovalInv(j) ==
    /\ pc[<<"driver", j>>] \in {"verify", "evaluate", "auditMerge"} => mode[j] = "auto"
    /\ At("driver", j, "evaluate") => "verify" \in approvals[j]
    /\ At("driver", j, "auditMerge") => {"verify", "evaluator"} \subseteq approvals[j]
    /\ gate[j] = "confirm" => "human" \in approvals[j]
    /\ \A a \in Actors : pc[<<a, j>>] \in {"mergeLock", "merging"} => Approved(j)
    /\ merged[j] => Approved(j)

(* An accepted !cancel, in memory and on disk. *)
CancelInv(j) == cancelled[j] => /\ ~merged[j]
                                /\ status[j] \notin Occupying
                                /\ mirror[j] \notin Occupying

(* Who holds the lock of a project. *)
LockInv(j) ==
    /\ \A a \in Actors : InLock(a, j) => lock[JobProject[j]] = {<<a, j>>}
    /\ agent[j] => pc[<<"driver", j>>] \in {"running", "killing"}

(* The inductive invariant: it talks about one job at a time, except for OneRunning. *)
JobInv(j) ==
    /\ FreshInv(j) /\ StatusInv(j) /\ StartupInv(j)
    /\ ApprovalInv(j) /\ CancelInv(j) /\ LockInv(j)

Inv == TypeOK /\ (\A j \in Jobs : JobInv(j)) /\ OneRunning

-----------------------------------------------------------------------------
(* What a step of one job does to its own slice, and that it leaves the others alone. *)

SameSlice(k) ==
    /\ status'[k] = status[k] /\ mirror'[k] = mirror[k] /\ recorded'[k] = recorded[k]
    /\ branch'[k] = branch[k] /\ tree'[k] = tree[k] /\ merged'[k] = merged[k]
    /\ unreported'[k] = unreported[k]
    /\ mode'[k] = mode[k] /\ kind'[k] = kind[k] /\ agent'[k] = agent[k]
    /\ gate'[k] = gate[k] /\ approvals'[k] = approvals[k]
    /\ cancelled'[k] = cancelled[k] /\ rejected'[k] = rejected[k]
    /\ \A a \in Actors : pc'[<<a, k>>] = pc[<<a, k>>]
    /\ \A a \in Actors :
           lock[JobProject[k]] = {<<a, k>>} => lock'[JobProject[k]] = {<<a, k>>}
    /\ phase' = phase
    /\ (k \in todo' <=> k \in todo) /\ (k \in orphans' <=> k \in orphans)

(* The registry and its mirror after a step of job j. *)
RegistryMoves(j) ==
    /\ status' \in [Jobs -> Statuses] /\ mirror' \in [Jobs -> Statuses]
    /\ \A k \in Jobs \ {j} : status'[k] = status[k] /\ mirror'[k] = mirror[k]

Becomes(j, s) == RegistryMoves(j) /\ status'[j] = s /\ mirror'[j] = s
Stays(j) == RegistryMoves(j) /\ status'[j] = status[j] /\ mirror'[j] = mirror[j]

(* Coroutine a of job j goes to l, and no other coroutine moves. *)
Goes(a, j, l) ==
    /\ pc' \in [Actors \X Jobs -> PcLabels]
    /\ \A b \in Actors, k \in Jobs :
           pc'[<<b, k>>] = IF b = a /\ k = j THEN l ELSE pc[<<b, k>>]

(* The model's updates in the form the step lemmas use. *)
LEMMA GotoGoes ==
    ASSUME TypeOK, NEW a \in Actors, NEW j \in Jobs, NEW l \in PcLabels, Goto(a, j, l)
    PROVE  Goes(a, j, l)
  BY DEF TypeOK, Goto, Goes

LEMMA SetStatusBecomes ==
    ASSUME TypeOK, NEW j \in Jobs, NEW s \in Statuses, SetStatus(j, s)
    PROVE  Becomes(j, s)
  BY DEF TypeOK, SetStatus, Becomes, RegistryMoves

LEMMA RegistryStays ==
    ASSUME TypeOK, NEW j \in Jobs, UNCHANGED registry
    PROVE  Stays(j)
  BY DEF TypeOK, registry, Stays, RegistryMoves

(* The three ways out of the driver's finally clause. *)
FinallyEffect(j, committed) ==
    \/ status[j] # "running" /\ Stays(j) /\ Goes("driver", j, "over")
    \/ /\ status[j] = "running" /\ committed
       /\ Becomes(j, "awaiting_review") /\ Goes("driver", j, "parkTree")
    \/ /\ status[j] = "running" /\ ~committed
       /\ Becomes(j, "failed")
       /\ \E l \in {"dropTree", "over"} : Goes("driver", j, l)

LEMMA DiscardLabels ==
    ASSUME NEW j \in Jobs
    PROVE  /\ Discard(j) \in {"dropTree", "over"}
           /\ DiscardAfterSend(j) \subseteq {"dropTree", "over"}
  BY DEF Discard, DiscardAfterSend

LEMMA FinallyDoes ==
    ASSUME TypeOK, NEW j \in Jobs, NEW committed \in BOOLEAN, Finally(j, committed)
    PROVE  FinallyEffect(j, committed)
<1>1. CASE status[j] # "running"
  BY <1>1, RegistryStays, GotoGoes DEF Finally, FinallyEffect, PcLabels, Actors
<1>2. CASE status[j] = "running" /\ committed
  BY <1>2, SetStatusBecomes, GotoGoes DEF Finally, FinallyEffect, Statuses, PcLabels,
      Actors
<1>3. CASE status[j] = "running" /\ ~committed
  <2>1. PICK l \in {"dropTree", "over"} : Goto("driver", j, l)
    BY <1>3, DiscardLabels DEF Finally
  <2>2. SetStatus(j, "failed")
    BY <1>3 DEF Finally
  <2>3. QED
    BY <1>3, <2>1, <2>2, SetStatusBecomes, GotoGoes DEF FinallyEffect, Statuses, PcLabels,
        Actors
<1>4. QED BY <1>1, <1>2, <1>3

(* What each action of job j is shown to do: it leaves the other slices alone, its own
   slice satisfies the invariant again, and j becomes running only on a free project. *)
StepOf(j) ==
    /\ TypeOK'
    /\ JobInv(j)'
    /\ \A k \in Jobs \ {j} : SameSlice(k)
    /\ status'[j] = "running" => MayStart(JobProject[j]) \/ status[j] = "running"

(* A job whose slice did not change keeps its invariant. *)
LEMMA SliceKeepsInv ==
    ASSUME NEW k \in Jobs, JobInv(k), SameSlice(k)
    PROVE  JobInv(k)'
<1> USE DEF SameSlice, JobInv, At, Actors
<1>1. FreshInv(k)' BY DEF FreshInv
<1>2. StatusInv(k)' BY DEF StatusInv, Salvaging
<1>3. StartupInv(k)' BY DEF StartupInv
<1>4. Approved(k)' = Approved(k) BY DEF Approved
<1>5. ApprovalInv(k)' BY <1>4 DEF ApprovalInv
<1>6. CancelInv(k)' BY DEF CancelInv
<1>7. LockInv(k)' BY DEF LockInv, InLock
<1>8. QED BY <1>1, <1>2, <1>3, <1>5, <1>6, <1>7

(* The claim of _do_merge, and the parking of a job still running. *)
MergeEffect(a, j) ==
    \/ MergeableStatus(j) /\ Becomes(j, "merging") /\ Goes(a, j, "mergeLock")
    \/ ~MergeableStatus(j) /\ Stays(j) /\ Goes(a, j, "over")

LEMMA DoMergeDoes ==
    ASSUME TypeOK, NEW a \in Actors, NEW j \in Jobs, DoMerge(a, j)
    PROVE  MergeEffect(a, j)
<1>1. CASE MergeableStatus(j)
  BY <1>1, SetStatusBecomes, GotoGoes DEF DoMerge, MergeEffect, Statuses, PcLabels
<1>2. CASE ~MergeableStatus(j)
  BY <1>2, RegistryStays, GotoGoes DEF DoMerge, MergeEffect, PcLabels
<1>3. QED BY <1>1, <1>2

ParkEffect(j) ==
    \/ /\ status[j] = "running"
       /\ Becomes(j, "awaiting_review") /\ Goes("driver", j, "parkTree")
    \/ status[j] # "running" /\ Stays(j) /\ Goes("driver", j, "over")

LEMMA ParkIfRunningDoes ==
    ASSUME TypeOK, NEW j \in Jobs, ParkIfRunning(j)
    PROVE  ParkEffect(j)
<1>1. CASE status[j] = "running"
  BY <1>1, SetStatusBecomes, GotoGoes DEF ParkIfRunning, ParkEffect, Statuses, PcLabels,
      Actors
<1>2. CASE status[j] # "running"
  BY <1>2, RegistryStays, GotoGoes DEF ParkIfRunning, ParkEffect, PcLabels, Actors
<1>3. QED BY <1>1, <1>2

-----------------------------------------------------------------------------
(* One lemma per action of a job. The first step says what the action does to the       *)
(* registry and the program counters, the others check the parts of StepOf.             *)

LEMMA PostStatusKeeps ==
    ASSUME TypeOK, NEW j \in Jobs, JobInv(j), PostStatus(j)
    PROVE  StepOf(j)
<1>1. \/ FinallyEffect(j, FALSE)
      \/ Stays(j) /\ \E l \in {"branching", "ingest"} : Goes("driver", j, l)
      \/ Becomes(j, "failed") /\ Goes("driver", j, "over")
  BY FinallyDoes, SetStatusBecomes, RegistryStays, GotoGoes DEF PostStatus, Statuses,
      PcLabels, Actors
<1>2. TypeOK' /\ \A k \in Jobs \ {j} : SameSlice(k)
  BY <1>1 DEF PostStatus, TypeOK, SameSlice, FinallyEffect, RegistryMoves, Stays, Becomes,
      Goes, git, running, decisions, boot, Actors
<1>3. JobInv(j)'
  BY <1>1 DEF PostStatus, FinallyEffect, Stays, Becomes, Goes, At, git, running,
      decisions, boot, Actors, JobInv, FreshInv, StatusInv, StartupInv, ApprovalInv,
      Approved, CancelInv, LockInv, InLock, Salvaging, Driving, MergePcs, Occupying
<1>4. status'[j] = "running" => MayStart(JobProject[j]) \/ status[j] = "running"
  BY <1>1 DEF PostStatus, FinallyEffect, Stays, Becomes
<1>5. QED BY <1>2, <1>3, <1>4 DEF StepOf

LEMMA StartKeeps ==
    ASSUME TypeOK, NEW j \in Jobs, NEW m \in Tiers, JobInv(j), Start(j, m)
    PROVE  StepOf(j)
<1>1. Becomes(j, "running") /\ \E l \in {"posting", "announcing"} : Goes("driver", j, l)
  BY SetStatusBecomes, GotoGoes DEF Start, Statuses, PcLabels, Actors
<1>2. TypeOK' /\ \A k \in Jobs \ {j} : SameSlice(k)
  BY <1>1, ExecJobsAssumption DEF Start, TypeOK, SameSlice, RegistryMoves, Becomes, Goes,
      git, running, decisions, boot, Actors, Modes
<1>3. JobInv(j)'
  BY <1>1 DEF Start, Becomes, Goes, At, git, running, decisions, boot, Actors, JobInv,
      FreshInv, StatusInv, StartupInv, ApprovalInv, Approved, CancelInv, LockInv, InLock,
      Salvaging, Driving, MergePcs, Occupying
<1>4. status'[j] = "running" => MayStart(JobProject[j]) \/ status[j] = "running"
  BY <1>1 DEF Start, Becomes
<1>5. QED BY <1>2, <1>3, <1>4 DEF StepOf

LEMMA AnnounceKeeps ==
    ASSUME TypeOK, NEW j \in Jobs, JobInv(j), Announce(j)
    PROVE  StepOf(j)
<1>1. Stays(j) /\ \E l \in {"posting", "over"} : Goes("driver", j, l)
  BY RegistryStays, GotoGoes DEF Announce, Statuses, PcLabels, Actors
<1>2. TypeOK' /\ \A k \in Jobs \ {j} : SameSlice(k)
  BY <1>1 DEF Announce, TypeOK, SameSlice, RegistryMoves, Stays, Goes, git, running,
      decisions, boot, Actors
<1>3. JobInv(j)'
  BY <1>1 DEF Announce, Stays, Goes, At, git, running, decisions, boot, Actors, JobInv,
      FreshInv, StatusInv, StartupInv, ApprovalInv, Approved, CancelInv, LockInv, InLock,
      Salvaging, Driving, MergePcs, Occupying
<1>4. status'[j] = "running" => MayStart(JobProject[j]) \/ status[j] = "running"
  BY <1>1 DEF Announce, Stays
<1>5. QED BY <1>2, <1>3, <1>4 DEF StepOf

LEMMA CreateWorktreeKeeps ==
    ASSUME TypeOK, NEW j \in Jobs, JobInv(j), CreateWorktree(j)
    PROVE  StepOf(j)
<1>1. \/ Stays(j) /\ Goes("driver", j, "branched")
      \/ Becomes(j, "failed") /\ Goes("driver", j, "over")
      \/ FinallyEffect(j, FALSE)
  BY FinallyDoes, SetStatusBecomes, RegistryStays, GotoGoes DEF CreateWorktree, Statuses,
      PcLabels, Actors
<1>2. TypeOK' /\ \A k \in Jobs \ {j} : SameSlice(k)
  BY <1>1 DEF CreateWorktree, FinallyEffect, TypeOK, SameSlice, RegistryMoves, Stays,
      Becomes, Goes, git, running, decisions, boot, Actors, Branches, Trees
<1>3. JobInv(j)'
  BY <1>1 DEF CreateWorktree, FinallyEffect, Stays, Becomes, Goes, At, git, running,
      decisions, boot, Actors, JobInv, FreshInv, StatusInv, StartupInv, ApprovalInv,
      Approved, CancelInv, LockInv, InLock, Salvaging, Driving, MergePcs, Occupying
<1>4. status'[j] = "running" => MayStart(JobProject[j]) \/ status[j] = "running"
  BY <1>1 DEF CreateWorktree, FinallyEffect, Stays, Becomes
<1>5. QED BY <1>2, <1>3, <1>4 DEF StepOf

LEMMA RecordWorktreeKeeps ==
    ASSUME TypeOK, NEW j \in Jobs, JobInv(j), RecordWorktree(j)
    PROVE  StepOf(j)
<1>1. Stays(j) /\ Goes("driver", j, "ingest")
  BY RegistryStays, GotoGoes DEF RecordWorktree, Statuses, PcLabels, Actors
<1>2. TypeOK' /\ \A k \in Jobs \ {j} : SameSlice(k)
  BY <1>1 DEF RecordWorktree, TypeOK, SameSlice, RegistryMoves, Stays, Goes, git, running,
      decisions, boot, Actors
<1>3. JobInv(j)'
  BY <1>1 DEF RecordWorktree, Stays, Goes, At, git, running, decisions, boot, Actors,
      JobInv, FreshInv, StatusInv, StartupInv, ApprovalInv, Approved, CancelInv, LockInv,
      InLock, Salvaging, Driving, MergePcs, Occupying
<1>4. status'[j] = "running" => MayStart(JobProject[j]) \/ status[j] = "running"
  BY <1>1 DEF RecordWorktree, Stays
<1>5. QED BY <1>2, <1>3, <1>4 DEF StepOf

LEMMA IngestKeeps ==
    ASSUME TypeOK, NEW j \in Jobs, JobInv(j), Ingest(j)
    PROVE  StepOf(j)
<1>1. Stays(j) /\ \E l \in {"queue", "unwind"} : Goes("driver", j, l)
  BY RegistryStays, GotoGoes DEF Ingest, Statuses, PcLabels, Actors
<1>2. TypeOK' /\ \A k \in Jobs \ {j} : SameSlice(k)
  BY <1>1 DEF Ingest, TypeOK, SameSlice, RegistryMoves, Stays, Goes, git, running,
      decisions, boot, Actors
<1>3. JobInv(j)'
  BY <1>1 DEF Ingest, Stays, Goes, At, git, running, decisions, boot, Actors, JobInv,
      FreshInv, StatusInv, StartupInv, ApprovalInv, Approved, CancelInv, LockInv, InLock,
      Salvaging, Driving, MergePcs, Occupying
<1>4. status'[j] = "running" => MayStart(JobProject[j]) \/ status[j] = "running"
  BY <1>1 DEF Ingest, Stays
<1>5. QED BY <1>2, <1>3, <1>4 DEF StepOf

LEMMA SpawnKeeps ==
    ASSUME TypeOK, NEW j \in Jobs, JobInv(j), Spawn(j)
    PROVE  StepOf(j)
<1>1. Stays(j) /\ \E l \in {"killing", "running", "unwind"} : Goes("driver", j, l)
  BY RegistryStays, GotoGoes DEF Spawn, Statuses, PcLabels, Actors
<1>2. TypeOK' /\ \A k \in Jobs \ {j} : SameSlice(k)
  <2>1. agent' \in [Jobs -> BOOLEAN] /\ \A k \in Jobs \ {j} : agent'[k] = agent[k]
    BY DEF Spawn, TypeOK, running
  <2>2. lock' \in [Projects -> SUBSET (Actors \X Jobs)]
    BY ExecJobsAssumption DEF Spawn, TypeOK, running, Acquire, Actors
  <2>3. \A b \in Actors, k \in Jobs \ {j} :
            lock[JobProject[k]] = {<<b, k>>} => lock'[JobProject[k]] = {<<b, k>>}
    BY ExecJobsAssumption DEF Spawn, TypeOK, running, Acquire
  <2>4. QED BY <1>1, <2>1, <2>2, <2>3 DEF Spawn, TypeOK, SameSlice, RegistryMoves, Stays,
      Goes, git, decisions, boot
<1>6. LockInv(j)'
  <2>1. CASE Acquire("driver", j) /\ \E l \in {"running", "killing"} : Goto("driver", j, l)
    <3>1. \A b \in Actors : ~InLock(b, j)
      BY <2>1 DEF Acquire, JobInv, LockInv
    <3>2. lock'[JobProject[j]] = {<<"driver", j>>}
      BY <2>1, ExecJobsAssumption DEF Acquire, TypeOK
    <3>3. PICK l \in {"running", "killing"} : Goes("driver", j, l)
      BY <2>1, GotoGoes DEF PcLabels, Actors
    <3>4. \A b \in Actors : InLock(b, j)' => b = "driver"
      BY <3>1, <3>3 DEF InLock, Goes
    <3>5. pc'[<<"driver", j>>] \in {"running", "killing"}
      BY <3>3 DEF Goes, Actors
    <3>6. QED BY <3>2, <3>4, <3>5 DEF LockInv
  <2>2. CASE UNCHANGED running /\ Goto("driver", j, "unwind")
    <3>1. Goes("driver", j, "unwind")
      BY <2>2, GotoGoes DEF PcLabels, Actors
    <3>2. ~agent[j]
      BY DEF Spawn, At, JobInv, LockInv
    <3>3. QED BY <2>2, <3>1, <3>2 DEF JobInv, LockInv, InLock, Goes, running
  <2>3. QED BY <2>1, <2>2 DEF Spawn
<1>3. JobInv(j)'
  <2> USE <1>1 DEF Spawn, Stays, Goes, TypeOK, git, running, decisions, boot, Actors, At,
      JobInv
  <2>1. FreshInv(j)' BY DEF FreshInv
  <2>2. StatusInv(j)' BY DEF FreshInv, StatusInv, StartupInv, Salvaging, Driving,
      MergePcs, MergeableStatus
  <2>3. StartupInv(j)' BY DEF StartupInv, CancelInv, Occupying
  <2>4. ApprovalInv(j)' BY DEF FreshInv, ApprovalInv, Approved
  <2>5. CancelInv(j)' BY DEF FreshInv, StatusInv, StartupInv, CancelInv, Salvaging,
      MergePcs, Driving, Occupying, MergeableStatus
  <2>7. QED BY <2>1, <2>2, <2>3, <2>4, <2>5, <1>6
<1>4. status'[j] = "running" => MayStart(JobProject[j]) \/ status[j] = "running"
  BY <1>1 DEF Spawn, Stays
<1>5. QED BY <1>2, <1>3, <1>4 DEF StepOf

LEMMA AgentStepKeeps ==
    ASSUME TypeOK, NEW j \in Jobs, JobInv(j), AgentStep(j)
    PROVE  StepOf(j)
<1>1. Stays(j) /\ UNCHANGED pc
  BY RegistryStays DEF AgentStep, Statuses, Actors, git, running, decisions
<1>2. TypeOK' /\ \A k \in Jobs \ {j} : SameSlice(k)
  <2>1. PICK b \in Branches, t \in Trees :
            branch' = [branch EXCEPT ![j] = b] /\ tree' = [tree EXCEPT ![j] = t]
    BY DEF AgentStep, TypeOK, Branches, Trees
  <2>2. QED BY <1>1, <2>1 DEF AgentStep, TypeOK, SameSlice, RegistryMoves, Stays, running,
      decisions, boot
<1>3. JobInv(j)'
  BY <1>1 DEF AgentStep, Stays, At, git, running, decisions, boot, Actors, JobInv,
      FreshInv, StatusInv, StartupInv, ApprovalInv, Approved, CancelInv, LockInv, InLock,
      Salvaging, Driving, MergePcs, Occupying
<1>4. status'[j] = "running" => MayStart(JobProject[j]) \/ status[j] = "running"
  BY <1>1 DEF AgentStep, Stays
<1>5. QED BY <1>2, <1>3, <1>4 DEF StepOf

LEMMA FinishRunKeeps ==
    ASSUME TypeOK, NEW j \in Jobs, JobInv(j), FinishRun(j)
    PROVE  StepOf(j)
<1>1. Stays(j) /\ Goes("driver", j, "settling")
  BY RegistryStays, GotoGoes DEF FinishRun, Statuses, PcLabels, Actors
<1>2. TypeOK' /\ \A k \in Jobs \ {j} : SameSlice(k)
  <2>1. kind' \in [Jobs -> Kinds] /\ \A k \in Jobs \ {j} : kind'[k] = kind[k]
    BY DEF FinishRun, TypeOK, Kinds
  <2>2. lock' \in [Projects -> SUBSET (Actors \X Jobs)]
    BY ExecJobsAssumption DEF FinishRun, TypeOK, Release
  <2>5. \A b \in Actors, k \in Jobs \ {j} :
            lock[JobProject[k]] = {<<b, k>>} => lock'[JobProject[k]] = {<<b, k>>}
    BY ExecJobsAssumption DEF FinishRun, TypeOK, Release
  <2>3. agent' \in [Jobs -> BOOLEAN] /\ \A k \in Jobs \ {j} : agent'[k] = agent[k]
    BY DEF FinishRun, TypeOK
  <2>4. QED BY <1>1, <2>1, <2>2, <2>3, <2>5 DEF FinishRun, TypeOK, SameSlice,
      RegistryMoves, Stays, Goes, git, decisions, boot
<1>3. JobInv(j)'
  <2> USE <1>1 DEF FinishRun, Stays, Goes, RunMayEnd, KindNow, TypeOK, git, running,
      decisions, boot, Actors, At, JobInv
  <2>1. FreshInv(j)' BY DEF FreshInv
  <2>2. StatusInv(j)' BY DEF FreshInv, StatusInv, StartupInv, Salvaging, Driving,
      MergePcs, MergeableStatus
  <2>3. StartupInv(j)' BY DEF StartupInv, CancelInv, Occupying
  <2>4. ApprovalInv(j)' BY DEF FreshInv, ApprovalInv, Approved
  <2>5. CancelInv(j)' BY DEF FreshInv, StatusInv, StartupInv, CancelInv, Salvaging,
      MergePcs, Driving, Occupying, MergeableStatus
  <2>6. LockInv(j)' BY ExecJobsAssumption DEF FreshInv, LockInv, InLock, Acquire, Release
  <2>7. QED BY <2>1, <2>2, <2>3, <2>4, <2>5, <2>6
<1>4. status'[j] = "running" => MayStart(JobProject[j]) \/ status[j] = "running"
  BY <1>1 DEF FinishRun, Stays
<1>5. QED BY <1>2, <1>3, <1>4 DEF StepOf

LEMMA UnwindKeeps ==
    ASSUME TypeOK, NEW j \in Jobs, JobInv(j), Unwind(j)
    PROVE  StepOf(j)
<1>1. FinallyEffect(j, FALSE)
  BY FinallyDoes DEF Unwind, Statuses, Actors
<1>2. TypeOK' /\ \A k \in Jobs \ {j} : SameSlice(k)
  BY <1>1 DEF Unwind, TypeOK, SameSlice, FinallyEffect, RegistryMoves, Stays, Becomes,
      Goes, git, running, decisions, boot, Actors
<1>3. JobInv(j)'
  BY <1>1 DEF Unwind, FinallyEffect, Stays, Becomes, Goes, At, git, running, decisions,
      boot, Actors, JobInv, FreshInv, StatusInv, StartupInv, ApprovalInv, Approved,
      CancelInv, LockInv, InLock, Salvaging, Driving, MergePcs, Occupying
<1>4. status'[j] = "running" => MayStart(JobProject[j]) \/ status[j] = "running"
  BY <1>1 DEF Unwind, FinallyEffect, Stays, Becomes
<1>5. QED BY <1>2, <1>3, <1>4 DEF StepOf

LEMMA SettleKeeps ==
    ASSUME TypeOK, NEW j \in Jobs, JobInv(j), Settle(j)
    PROVE  StepOf(j)
<1>1. \/ FinallyEffect(j, FALSE)
      \/ Stays(j) /\ Goes("driver", j, "reply")
      \/ /\ KindNow(j) \in {"timeout", "failed"} /\ Becomes(j, KindNow(j))
         /\ Goes("driver", j, "salvage")
      \/ /\ KindNow(j) \in Kinds \ {"done"} /\ Becomes(j, KindNow(j))
         /\ \E l \in {"dropTree", "over"} : Goes("driver", j, l)
  <2>1. CASE Finally(j, FALSE)
    BY <2>1, FinallyDoes
  <2>2. CASE KindNow(j) = "done" /\ Goto("driver", j, "reply") /\ UNCHANGED registry
    BY <2>2, RegistryStays, GotoGoes DEF PcLabels, Actors
  <2>3. CASE /\ KindNow(j) # "done"
             /\ SetStatus(j, KindNow(j))
             /\ Goto("driver", j, IF IsGit(j) /\ KindNow(j) # "cancelled"
                                  THEN "salvage" ELSE Discard(j))
    <3>1. KindNow(j) \in Kinds \ {"done"}
      BY <2>3 DEF KindNow, TypeOK, Kinds
    <3>2. KindNow(j) # "none"
      BY DEF KindNow, Settle, At, JobInv, StatusInv
    <3>3. Becomes(j, KindNow(j))
      BY <2>3, <3>1, SetStatusBecomes DEF Kinds, Statuses
    <3>4. CASE IsGit(j) /\ KindNow(j) # "cancelled"
      BY <2>3, <3>1, <3>2, <3>3, <3>4, GotoGoes DEF Kinds, PcLabels, Actors
    <3>5. CASE ~(IsGit(j) /\ KindNow(j) # "cancelled")
      BY <2>3, <3>1, <3>3, <3>5, GotoGoes, DiscardLabels DEF PcLabels, Actors
    <3>6. QED BY <3>4, <3>5
  <2>4. QED BY <2>1, <2>2, <2>3 DEF Settle
<1>2. TypeOK' /\ \A k \in Jobs \ {j} : SameSlice(k)
  BY <1>1 DEF Settle, TypeOK, SameSlice, FinallyEffect, RegistryMoves, Stays, Becomes,
      Goes, git, running, decisions, boot, Actors, Kinds
<1>3. JobInv(j)'
  BY <1>1 DEF Settle, FinallyEffect, Stays, Becomes, Goes, KindNow, At, git, running,
      decisions, boot, Actors, JobInv, FreshInv, StatusInv, StartupInv, ApprovalInv,
      Approved, CancelInv, LockInv, InLock, Salvaging, Driving, MergePcs, Occupying
<1>4. status'[j] = "running" => MayStart(JobProject[j]) \/ status[j] = "running"
  BY <1>1 DEF Settle, FinallyEffect, Stays, Becomes, Kinds
<1>5. QED BY <1>2, <1>3, <1>4 DEF StepOf

LEMMA SalvageKeeps ==
    ASSUME TypeOK, NEW j \in Jobs, JobInv(j), Salvage(j)
    PROVE  StepOf(j)
<1>1. \/ Stays(j) /\ \E l \in {"salvageDiff", "dropTree"} : Goes("driver", j, l)
      \/ Becomes(j, "awaiting_review") /\ Goes("driver", j, "over")
  BY SetStatusBecomes, RegistryStays, GotoGoes, DiscardLabels DEF Salvage, Statuses,
      PcLabels, Actors
<1>2. TypeOK' /\ \A k \in Jobs \ {j} : SameSlice(k)
  <2>1. branch' \in [Jobs -> Branches] /\ \A k \in Jobs \ {j} : branch'[k] = branch[k]
    BY DEF Salvage, TypeOK, AfterCommit, Branches
  <2>2. tree' \in [Jobs -> Trees] /\ \A k \in Jobs \ {j} : tree'[k] = tree[k]
    BY DEF Salvage, TypeOK, Trees
  <2>3. QED BY <1>1, <2>1, <2>2 DEF Salvage, TypeOK, SameSlice, RegistryMoves, Stays,
      Becomes, Goes, running, decisions, boot
<1>3. JobInv(j)'
  BY <1>1 DEF Salvage, Stays, Becomes, Goes, At, git, running, decisions, boot, Actors,
      JobInv, FreshInv, StatusInv, StartupInv, ApprovalInv, Approved, CancelInv, LockInv,
      InLock, Salvaging, Driving, MergePcs, Occupying
<1>4. status'[j] = "running" => MayStart(JobProject[j]) \/ status[j] = "running"
  BY <1>1 DEF Salvage, Stays, Becomes
<1>5. QED BY <1>2, <1>3, <1>4 DEF StepOf

LEMMA SalvageDiffKeeps ==
    ASSUME TypeOK, NEW j \in Jobs, JobInv(j), SalvageDiff(j)
    PROVE  StepOf(j)
<1>1. \/ Stays(j) /\ Goes("driver", j, "dropTree")
      \/ /\ Becomes(j, "awaiting_review")
         /\ \E l \in {"parkTree", "over"} : Goes("driver", j, l)
  BY SetStatusBecomes, RegistryStays, GotoGoes, DiscardLabels DEF SalvageDiff, Statuses,
      PcLabels, Actors
<1>2. TypeOK' /\ \A k \in Jobs \ {j} : SameSlice(k)
  BY <1>1 DEF SalvageDiff, TypeOK, SameSlice, RegistryMoves, Stays, Becomes, Goes, git,
      running, decisions, boot, Actors
<1>3. JobInv(j)'
  BY <1>1 DEF SalvageDiff, Stays, Becomes, Goes, At, git, running, decisions, boot,
      Actors, JobInv, FreshInv, StatusInv, StartupInv, ApprovalInv, Approved, CancelInv,
      LockInv, InLock, Salvaging, Driving, MergePcs, Occupying
<1>4. status'[j] = "running" => MayStart(JobProject[j]) \/ status[j] = "running"
  BY <1>1 DEF SalvageDiff, Stays, Becomes
<1>5. QED BY <1>2, <1>3, <1>4 DEF StepOf

LEMMA ReplyKeeps ==
    ASSUME TypeOK, NEW j \in Jobs, JobInv(j), Reply(j)
    PROVE  StepOf(j)
<1>1. \/ FinallyEffect(j, FALSE)
      \/ Stays(j) /\ Goes("driver", j, "commit")
      \/ Becomes(j, "done") /\ Goes("driver", j, "over")
  BY FinallyDoes, SetStatusBecomes, RegistryStays, GotoGoes DEF Reply, Statuses, PcLabels,
      Actors
<1>2. TypeOK' /\ \A k \in Jobs \ {j} : SameSlice(k)
  BY <1>1 DEF Reply, TypeOK, SameSlice, FinallyEffect, RegistryMoves, Stays, Becomes,
      Goes, git, running, decisions, boot, Actors
<1>3. JobInv(j)'
  BY <1>1 DEF Reply, FinallyEffect, Stays, Becomes, Goes, At, git, running, decisions,
      boot, Actors, JobInv, FreshInv, StatusInv, StartupInv, ApprovalInv, Approved,
      CancelInv, LockInv, InLock, Salvaging, Driving, MergePcs, Occupying
<1>4. status'[j] = "running" => MayStart(JobProject[j]) \/ status[j] = "running"
  BY <1>1 DEF Reply, FinallyEffect, Stays, Becomes
<1>5. QED BY <1>2, <1>3, <1>4 DEF StepOf

LEMMA CommitKeeps ==
    ASSUME TypeOK, NEW j \in Jobs, JobInv(j), Commit(j)
    PROVE  StepOf(j)
<1>1. \/ FinallyEffect(j, FALSE)
      \/ Stays(j) /\ Goes("driver", j, "diffing")
      \/ Becomes(j, "done") /\ \E l \in {"dropTree", "over"} : Goes("driver", j, l)
  BY FinallyDoes, SetStatusBecomes, RegistryStays, GotoGoes, DiscardLabels DEF Commit,
      Statuses, PcLabels, Actors
<1>2. TypeOK' /\ \A k \in Jobs \ {j} : SameSlice(k)
  <2>1. branch' \in [Jobs -> Branches] /\ \A k \in Jobs \ {j} : branch'[k] = branch[k]
    BY DEF Commit, TypeOK, AfterCommit, Branches
  <2>2. tree' \in [Jobs -> Trees] /\ \A k \in Jobs \ {j} : tree'[k] = tree[k]
    BY DEF Commit, TypeOK, Trees
  <2>3. QED BY <1>1, <2>1, <2>2 DEF Commit, TypeOK, SameSlice, FinallyEffect,
      RegistryMoves, Stays, Becomes, Goes, running, decisions, boot
<1>3. JobInv(j)'
  BY <1>1 DEF Commit, FinallyEffect, Stays, Becomes, Goes, At, git, running, decisions,
      boot, Actors, JobInv, FreshInv, StatusInv, StartupInv, ApprovalInv, Approved,
      CancelInv, LockInv, InLock, Salvaging, Driving, MergePcs, Occupying
<1>4. status'[j] = "running" => MayStart(JobProject[j]) \/ status[j] = "running"
  BY <1>1 DEF Commit, FinallyEffect, Stays, Becomes
<1>5. QED BY <1>2, <1>3, <1>4 DEF StepOf

LEMMA CheckDiffKeeps ==
    ASSUME TypeOK, NEW j \in Jobs, JobInv(j), CheckDiff(j)
    PROVE  StepOf(j)
<1>1. \/ FinallyEffect(j, TRUE)
      \/ Stays(j) /\ mode[j] = "auto" /\ Goes("driver", j, "verify")
      \/ Stays(j) /\ Goes("driver", j, "advise")
      \/ Becomes(j, "done") /\ \E l \in {"dropTree", "over"} : Goes("driver", j, l)
  BY FinallyDoes, SetStatusBecomes, RegistryStays, GotoGoes, DiscardLabels DEF CheckDiff,
      Statuses, PcLabels, Actors
<1>2. TypeOK' /\ \A k \in Jobs \ {j} : SameSlice(k)
  BY <1>1 DEF CheckDiff, TypeOK, SameSlice, FinallyEffect, RegistryMoves, Stays, Becomes,
      Goes, git, running, decisions, boot, Actors
<1>3. JobInv(j)'
  <2> USE <1>1 DEF CheckDiff, FinallyEffect, Stays, Becomes, Goes, TypeOK, git, running,
      decisions, boot, Actors, At, JobInv
  <2>1. FreshInv(j)' BY DEF FreshInv
  <2>2. StatusInv(j)' BY DEF FreshInv, StatusInv, StartupInv, Salvaging, Driving,
      MergePcs, MergeableStatus
  <2>3. StartupInv(j)' BY DEF StartupInv, CancelInv, Occupying
  <2>4. ApprovalInv(j)' BY DEF FreshInv, ApprovalInv, Approved
  <2>5. CancelInv(j)' BY DEF FreshInv, StatusInv, StartupInv, CancelInv, Salvaging,
      MergePcs, Driving, Occupying, MergeableStatus
  <2>6. LockInv(j)' BY DEF FreshInv, LockInv, InLock
  <2>7. QED BY <2>1, <2>2, <2>3, <2>4, <2>5, <2>6
<1>4. status'[j] = "running" => MayStart(JobProject[j]) \/ status[j] = "running"
  BY <1>1 DEF CheckDiff, FinallyEffect, Stays, Becomes
<1>5. QED BY <1>2, <1>3, <1>4 DEF StepOf

LEMMA AdviseKeeps ==
    ASSUME TypeOK, NEW j \in Jobs, JobInv(j), Advise(j)
    PROVE  StepOf(j)
<1>1. \/ FinallyEffect(j, TRUE)
      \/ Stays(j) /\ \E l \in {"dropTree", "gatePost"} : Goes("driver", j, l)
  BY FinallyDoes, RegistryStays, GotoGoes DEF Advise, Statuses, PcLabels, Actors
<1>2. TypeOK' /\ \A k \in Jobs \ {j} : SameSlice(k)
  BY <1>1 DEF Advise, TypeOK, SameSlice, FinallyEffect, RegistryMoves, Stays, Becomes,
      Goes, git, running, decisions, boot, Actors
<1>3. JobInv(j)'
  <2> USE <1>1 DEF Advise, FinallyEffect, Stays, Becomes, Goes, TypeOK, git, running,
      decisions, boot, Actors, At, JobInv
  <2>1. FreshInv(j)' BY DEF FreshInv
  <2>2. StatusInv(j)' BY DEF FreshInv, StatusInv, StartupInv, Salvaging, Driving,
      MergePcs, MergeableStatus
  <2>3. StartupInv(j)' BY DEF StartupInv, CancelInv, Occupying
  <2>4. ApprovalInv(j)' BY DEF FreshInv, ApprovalInv, Approved
  <2>5. CancelInv(j)' BY DEF FreshInv, StatusInv, StartupInv, CancelInv, Salvaging,
      MergePcs, Driving, Occupying, MergeableStatus
  <2>6. LockInv(j)' BY DEF FreshInv, LockInv, InLock
  <2>7. QED BY <2>1, <2>2, <2>3, <2>4, <2>5, <2>6
<1>4. status'[j] = "running" => MayStart(JobProject[j]) \/ status[j] = "running"
  BY <1>1 DEF Advise, FinallyEffect, Stays, Becomes
<1>5. QED BY <1>2, <1>3, <1>4 DEF StepOf

LEMMA PostGateKeeps ==
    ASSUME TypeOK, NEW j \in Jobs, JobInv(j), PostGate(j)
    PROVE  StepOf(j)
<1>1. \/ FinallyEffect(j, TRUE)
      \/ Stays(j) /\ Goes("driver", j, "gate")
  BY FinallyDoes, RegistryStays, GotoGoes DEF PostGate, Statuses, PcLabels, Actors
<1>2. TypeOK' /\ \A k \in Jobs \ {j} : SameSlice(k)
  BY <1>1 DEF PostGate, TypeOK, SameSlice, FinallyEffect, RegistryMoves, Stays, Becomes,
      Goes, git, running, decisions, boot, Actors, Gates
<1>3. JobInv(j)'
  <2> USE <1>1 DEF PostGate, FinallyEffect, Stays, Becomes, Goes, TypeOK, git, running,
      decisions, boot, Actors, At, JobInv
  <2>1. FreshInv(j)' BY DEF FreshInv
  <2>2. StatusInv(j)' BY DEF FreshInv, StatusInv, StartupInv, Salvaging, Driving,
      MergePcs, MergeableStatus
  <2>3. StartupInv(j)' BY DEF StartupInv, CancelInv, Occupying
  <2>4. ApprovalInv(j)' BY DEF FreshInv, ApprovalInv, Approved
  <2>5. CancelInv(j)' BY DEF FreshInv, StatusInv, StartupInv, CancelInv, Salvaging,
      MergePcs, Driving, Occupying, MergeableStatus
  <2>6. LockInv(j)' BY DEF FreshInv, LockInv, InLock
  <2>7. QED BY <2>1, <2>2, <2>3, <2>4, <2>5, <2>6
<1>4. status'[j] = "running" => MayStart(JobProject[j]) \/ status[j] = "running"
  BY <1>1 DEF PostGate, FinallyEffect, Stays, Becomes
<1>5. QED BY <1>2, <1>3, <1>4 DEF StepOf

LEMMA ResumeGateKeeps ==
    ASSUME TypeOK, NEW j \in Jobs, JobInv(j), ResumeGate(j)
    PROVE  StepOf(j)
<1>1. \/ gate[j] = "confirm" /\ MergeEffect("driver", j)
      \/ Becomes(j, "done") /\ Goes("driver", j, "dropTree")
  BY DoMergeDoes, SetStatusBecomes, GotoGoes, DiscardLabels DEF ResumeGate, Statuses,
      PcLabels, Actors
<1>2. TypeOK' /\ \A k \in Jobs \ {j} : SameSlice(k)
  BY <1>1 DEF ResumeGate, TypeOK, SameSlice, MergeEffect, RegistryMoves, Stays, Becomes,
      Goes, git, running, decisions, boot, Actors, Gates
<1>3. JobInv(j)'
  <2> USE <1>1 DEF ResumeGate, MergeEffect, Stays, Becomes, Goes, TypeOK, git, running,
      decisions, boot, Actors, At, JobInv
  <2>1. FreshInv(j)' BY DEF FreshInv
  <2>2. StatusInv(j)' BY DEF FreshInv, StatusInv, StartupInv, Salvaging, Driving,
      MergePcs, MergeableStatus
  <2>3. StartupInv(j)' BY DEF StartupInv, CancelInv, Occupying
  <2>4. ApprovalInv(j)' BY DEF FreshInv, ApprovalInv, Approved
  <2>5. CancelInv(j)' BY DEF FreshInv, StatusInv, StartupInv, CancelInv, Salvaging,
      MergePcs, Driving, Occupying, MergeableStatus
  <2>6. LockInv(j)' BY DEF FreshInv, LockInv, InLock
  <2>7. QED BY <2>1, <2>2, <2>3, <2>4, <2>5, <2>6
<1>4. status'[j] = "running" => MayStart(JobProject[j]) \/ status[j] = "running"
  BY <1>1 DEF ResumeGate, MergeEffect, Stays, Becomes
<1>5. QED BY <1>2, <1>3, <1>4 DEF StepOf

LEMMA GateTimeoutKeeps ==
    ASSUME TypeOK, NEW j \in Jobs, JobInv(j), GateTimeout(j)
    PROVE  StepOf(j)
<1>1. ParkEffect(j)
  BY ParkIfRunningDoes DEF GateTimeout, Statuses, Actors
<1>2. TypeOK' /\ \A k \in Jobs \ {j} : SameSlice(k)
  BY <1>1 DEF GateTimeout, TypeOK, SameSlice, ParkEffect, RegistryMoves, Stays, Becomes,
      Goes, git, running, decisions, boot, Actors, Gates
<1>3. JobInv(j)'
  BY <1>1 DEF GateTimeout, ParkEffect, Stays, Becomes, Goes, At, git, running, decisions,
      boot, Actors, JobInv, FreshInv, StatusInv, StartupInv, ApprovalInv, Approved,
      CancelInv, LockInv, InLock, Salvaging, Driving, MergePcs, Occupying
<1>4. status'[j] = "running" => MayStart(JobProject[j]) \/ status[j] = "running"
  BY <1>1 DEF GateTimeout, ParkEffect, Stays, Becomes
<1>5. QED BY <1>2, <1>3, <1>4 DEF StepOf

LEMMA VerifyKeeps ==
    ASSUME TypeOK, NEW j \in Jobs, JobInv(j), Verify(j)
    PROVE  StepOf(j)
<1>1. \/ /\ Stays(j) /\ UNCHANGED approvals
         /\ \E l \in {"dropTree", "auditPark"} : Goes("driver", j, l)
      \/ /\ Stays(j) /\ Goes("driver", j, "evaluate")
         /\ "verify" \in approvals'[j] /\ approvals[j] \subseteq approvals'[j]
  BY RegistryStays, GotoGoes DEF Verify, TypeOK, Signals, AutoSignal, Statuses, PcLabels,
      Actors
<1>2. TypeOK' /\ \A k \in Jobs \ {j} : SameSlice(k)
  <2>1. approvals' \in [Jobs -> SUBSET Signals]
        /\ \A k \in Jobs \ {j} : approvals'[k] = approvals[k]
    BY DEF Verify, TypeOK, AutoSignal, Signals
  <2>2. QED BY <1>1, <2>1 DEF Verify, TypeOK, SameSlice, RegistryMoves, Stays, Goes, git,
      running, boot
<1>3. JobInv(j)'
  <2> USE <1>1 DEF Verify, AutoSignal, Stays, Goes, TypeOK, git, running, decisions, boot,
      Actors, At, JobInv
  <2>1. FreshInv(j)' BY DEF FreshInv
  <2>2. StatusInv(j)' BY DEF FreshInv, StatusInv, StartupInv, Salvaging, Driving,
      MergePcs, MergeableStatus
  <2>3. StartupInv(j)' BY DEF StartupInv, CancelInv, Occupying
  <2>4. ApprovalInv(j)' BY DEF FreshInv, ApprovalInv, Approved
  <2>5. CancelInv(j)' BY DEF FreshInv, StatusInv, StartupInv, CancelInv, Salvaging,
      MergePcs, Driving, Occupying, MergeableStatus
  <2>6. LockInv(j)' BY DEF FreshInv, LockInv, InLock
  <2>7. QED BY <2>1, <2>2, <2>3, <2>4, <2>5, <2>6
<1>4. status'[j] = "running" => MayStart(JobProject[j]) \/ status[j] = "running"
  BY <1>1 DEF Verify, Stays
<1>5. QED BY <1>2, <1>3, <1>4 DEF StepOf

LEMMA EvaluateKeeps ==
    ASSUME TypeOK, NEW j \in Jobs, JobInv(j), Evaluate(j)
    PROVE  StepOf(j)
<1>1. \/ /\ Stays(j) /\ UNCHANGED approvals
         /\ \E l \in {"dropTree", "auditPark"} : Goes("driver", j, l)
      \/ /\ Stays(j) /\ Goes("driver", j, "auditMerge")
         /\ "evaluator" \in approvals'[j] /\ approvals[j] \subseteq approvals'[j]
  BY RegistryStays, GotoGoes DEF Evaluate, TypeOK, Signals, AutoSignal, Statuses,
      PcLabels, Actors
<1>2. TypeOK' /\ \A k \in Jobs \ {j} : SameSlice(k)
  <2>1. approvals' \in [Jobs -> SUBSET Signals]
        /\ \A k \in Jobs \ {j} : approvals'[k] = approvals[k]
    BY DEF Evaluate, TypeOK, AutoSignal, Signals
  <2>2. QED BY <1>1, <2>1 DEF Evaluate, TypeOK, SameSlice, RegistryMoves, Stays, Goes,
      git, running, boot
<1>3. JobInv(j)'
  <2> USE <1>1 DEF Evaluate, AutoSignal, Stays, Goes, TypeOK, git, running, decisions,
      boot, Actors, At, JobInv
  <2>1. FreshInv(j)' BY DEF FreshInv
  <2>2. StatusInv(j)' BY DEF FreshInv, StatusInv, StartupInv, Salvaging, Driving,
      MergePcs, MergeableStatus
  <2>3. StartupInv(j)' BY DEF StartupInv, CancelInv, Occupying
  <2>4. ApprovalInv(j)' BY DEF FreshInv, ApprovalInv, Approved
  <2>5. CancelInv(j)' BY DEF FreshInv, StatusInv, StartupInv, CancelInv, Salvaging,
      MergePcs, Driving, Occupying, MergeableStatus
  <2>6. LockInv(j)' BY DEF FreshInv, LockInv, InLock
  <2>7. QED BY <2>1, <2>2, <2>3, <2>4, <2>5, <2>6
<1>4. status'[j] = "running" => MayStart(JobProject[j]) \/ status[j] = "running"
  BY <1>1 DEF Evaluate, Stays
<1>5. QED BY <1>2, <1>3, <1>4 DEF StepOf

LEMMA AuditParkKeeps ==
    ASSUME TypeOK, NEW j \in Jobs, JobInv(j), AuditPark(j)
    PROVE  StepOf(j)
<1>1. ParkEffect(j)
  BY ParkIfRunningDoes DEF AuditPark, Statuses, Actors
<1>2. TypeOK' /\ \A k \in Jobs \ {j} : SameSlice(k)
  BY <1>1 DEF AuditPark, TypeOK, SameSlice, ParkEffect, RegistryMoves, Stays, Becomes,
      Goes, git, running, decisions, boot, Actors
<1>3. JobInv(j)'
  BY <1>1 DEF AuditPark, ParkEffect, Stays, Becomes, Goes, At, git, running, decisions,
      boot, Actors, JobInv, FreshInv, StatusInv, StartupInv, ApprovalInv, Approved,
      CancelInv, LockInv, InLock, Salvaging, Driving, MergePcs, Occupying
<1>4. status'[j] = "running" => MayStart(JobProject[j]) \/ status[j] = "running"
  BY <1>1 DEF AuditPark, ParkEffect, Stays, Becomes
<1>5. QED BY <1>2, <1>3, <1>4 DEF StepOf

LEMMA AuditMergeKeeps ==
    ASSUME TypeOK, NEW j \in Jobs, JobInv(j), AuditMerge(j)
    PROVE  StepOf(j)
<1>1. \/ MergeEffect("driver", j)
      \/ FinallyEffect(j, TRUE)
  BY FinallyDoes, DoMergeDoes DEF AuditMerge, Statuses, Actors
<1>2. TypeOK' /\ \A k \in Jobs \ {j} : SameSlice(k)
  BY <1>1 DEF AuditMerge, TypeOK, SameSlice, FinallyEffect, MergeEffect, RegistryMoves,
      Stays, Becomes, Goes, git, running, decisions, boot, Actors
<1>3. JobInv(j)'
  <2> USE <1>1 DEF AuditMerge, FinallyEffect, MergeEffect, Stays, Becomes, Goes, TypeOK,
      git, running, decisions, boot, Actors, At, JobInv
  <2>1. FreshInv(j)' BY DEF FreshInv
  <2>2. StatusInv(j)' BY DEF FreshInv, StatusInv, StartupInv, Salvaging, Driving,
      MergePcs, MergeableStatus
  <2>3. StartupInv(j)' BY DEF StartupInv, CancelInv, Occupying
  <2>4. ApprovalInv(j)' BY DEF FreshInv, ApprovalInv, Approved
  <2>5. CancelInv(j)' BY DEF FreshInv, StatusInv, StartupInv, CancelInv, Salvaging,
      MergePcs, Driving, Occupying, MergeableStatus
  <2>6. LockInv(j)' BY DEF FreshInv, LockInv, InLock
  <2>7. QED BY <2>1, <2>2, <2>3, <2>4, <2>5, <2>6
<1>4. status'[j] = "running" => MayStart(JobProject[j]) \/ status[j] = "running"
  BY <1>1 DEF AuditMerge, FinallyEffect, MergeEffect, Stays, Becomes
<1>5. QED BY <1>2, <1>3, <1>4 DEF StepOf

LEMMA ParkTreeKeeps ==
    ASSUME TypeOK, NEW j \in Jobs, JobInv(j), ParkTree(j)
    PROVE  StepOf(j)
<1>1. Stays(j) /\ Goes("driver", j, "over")
  BY RegistryStays, GotoGoes DEF ParkTree, Statuses, PcLabels, Actors
<1>2. TypeOK' /\ \A k \in Jobs \ {j} : SameSlice(k)
  BY <1>1 DEF ParkTree, TypeOK, SameSlice, RegistryMoves, Stays, Goes, git, running,
      decisions, boot, Actors, Trees
<1>3. JobInv(j)'
  BY <1>1 DEF ParkTree, Stays, Goes, At, git, running, decisions, boot, Actors, JobInv,
      FreshInv, StatusInv, StartupInv, ApprovalInv, Approved, CancelInv, LockInv, InLock,
      Salvaging, Driving, MergePcs, Occupying
<1>4. status'[j] = "running" => MayStart(JobProject[j]) \/ status[j] = "running"
  BY <1>1 DEF ParkTree, Stays
<1>5. QED BY <1>2, <1>3, <1>4 DEF StepOf

LEMMA TakeMergeLockKeeps ==
    ASSUME TypeOK, NEW j \in Jobs, NEW a \in Actors, JobInv(j), TakeMergeLock(a, j)
    PROVE  StepOf(j)
<1>1. Stays(j) /\ Goes(a, j, "merging")
  BY RegistryStays, GotoGoes DEF TakeMergeLock, Statuses, PcLabels, Actors
<1>2. TypeOK' /\ \A k \in Jobs \ {j} : SameSlice(k)
  <2>1. lock' \in [Projects -> SUBSET (Actors \X Jobs)]
    BY ExecJobsAssumption DEF TakeMergeLock, TypeOK, Acquire
  <2>2. \A b \in Actors, k \in Jobs \ {j} :
            lock[JobProject[k]] = {<<b, k>>} => lock'[JobProject[k]] = {<<b, k>>}
    BY ExecJobsAssumption DEF TakeMergeLock, TypeOK, Acquire
  <2>3. QED BY <1>1, <2>1, <2>2 DEF TakeMergeLock, TypeOK, SameSlice, RegistryMoves,
      Stays, Becomes, Goes, git, decisions, boot
<1>3. JobInv(j)'
  <2> USE <1>1 DEF TakeMergeLock, Stays, Goes, TypeOK, git, running, decisions, boot,
      Actors, At, JobInv
  <2>1. FreshInv(j)' BY DEF FreshInv
  <2>2. StatusInv(j)' BY DEF FreshInv, StatusInv, StartupInv, Salvaging, Driving,
      MergePcs, MergeableStatus
  <2>3. StartupInv(j)' BY DEF StartupInv, CancelInv, Occupying
  <2>4. ApprovalInv(j)' BY DEF FreshInv, ApprovalInv, Approved
  <2>5. CancelInv(j)' BY DEF FreshInv, StatusInv, StartupInv, CancelInv, Salvaging,
      MergePcs, Driving, Occupying, MergeableStatus
  <2>6. LockInv(j)' BY ExecJobsAssumption DEF FreshInv, LockInv, InLock, Acquire, Release
  <2>7. QED BY <2>1, <2>2, <2>3, <2>4, <2>5, <2>6
<1>4. status'[j] = "running" => MayStart(JobProject[j]) \/ status[j] = "running"
  BY <1>1 DEF TakeMergeLock, Stays
<1>5. QED BY <1>2, <1>3, <1>4 DEF StepOf

LEMMA MergeKeeps ==
    ASSUME TypeOK, NEW j \in Jobs, NEW a \in Actors, JobInv(j), Merge(a, j)
    PROVE  StepOf(j)
<1>1. \/ Stays(j) /\ \E l \in {"mergedRet", "over"} : Goes(a, j, l)
      \/ Becomes(j, "awaiting_review") /\ Goes(a, j, "over")
  BY SetStatusBecomes, RegistryStays, GotoGoes DEF Merge, Statuses, PcLabels, Actors
<1>2. TypeOK' /\ \A k \in Jobs \ {j} : SameSlice(k)
  <2>1. lock' \in [Projects -> SUBSET (Actors \X Jobs)]
    BY ExecJobsAssumption DEF Merge, TypeOK, Release
  <2>4. \A b \in Actors, k \in Jobs \ {j} :
            lock[JobProject[k]] = {<<b, k>>} => lock'[JobProject[k]] = {<<b, k>>}
    BY ExecJobsAssumption DEF Merge, TypeOK, Release
  <2>2. merged' \in [Jobs -> BOOLEAN] /\ \A k \in Jobs \ {j} : merged'[k] = merged[k]
    BY DEF Merge, TypeOK
  <2>5. /\ unreported' \in [Jobs -> BOOLEAN]
        /\ \A k \in Jobs \ {j} : unreported'[k] = unreported[k]
    BY DEF Merge, TypeOK
  <2>3. QED BY <1>1, <2>1, <2>2, <2>4, <2>5 DEF Merge, TypeOK, SameSlice, RegistryMoves, Stays,
      Becomes, Goes, decisions, boot
<1>6. LockInv(j)'
  <2>1. InLock(a, j) /\ \A b \in Actors : b # a => ~InLock(b, j)
    BY DEF Merge, At, InLock, JobInv, LockInv
  <2>2. pc[<<"driver", j>>] \notin {"running", "killing"}
    BY <2>1 DEF Merge, At, InLock, Actors
  <2>3. CASE Goto(a, j, "mergedRet") /\ UNCHANGED lock
    <3>1. Goes(a, j, "mergedRet")
      BY <2>3, GotoGoes DEF PcLabels
    <3>2. QED BY <2>1, <2>2, <2>3, <3>1 DEF Merge, JobInv, LockInv, InLock, Goes, Actors
  <2>4. CASE Goto(a, j, "over")
    <3>1. Goes(a, j, "over")
      BY <2>4, GotoGoes DEF PcLabels
    <3>2. QED BY <2>1, <2>2, <3>1 DEF Merge, JobInv, LockInv, InLock, Goes, Actors
  <2>5. QED BY <2>3, <2>4 DEF Merge
<1>3. JobInv(j)'
  <2> USE <1>1 DEF Merge, Stays, Becomes, Goes, TypeOK, git, running, decisions, boot,
      Actors, At, JobInv
  <2>1. FreshInv(j)' BY DEF FreshInv
  <2>2. StatusInv(j)' BY DEF FreshInv, StatusInv, StartupInv, Salvaging, Driving,
      MergePcs, MergeableStatus
  <2>3. StartupInv(j)' BY DEF StartupInv, CancelInv, Occupying
  <2>4. ApprovalInv(j)' BY DEF FreshInv, ApprovalInv, Approved
  <2>5. CancelInv(j)' BY DEF FreshInv, StatusInv, StartupInv, CancelInv, Salvaging,
      MergePcs, Driving, Occupying, MergeableStatus
  <2>7. QED BY <2>1, <2>2, <2>3, <2>4, <2>5, <1>6
<1>4. status'[j] = "running" => MayStart(JobProject[j]) \/ status[j] = "running"
  BY <1>1 DEF Merge, Stays, Becomes
<1>5. QED BY <1>2, <1>3, <1>4 DEF StepOf

LEMMA MergeReturnKeeps ==
    ASSUME TypeOK, NEW j \in Jobs, NEW a \in Actors, JobInv(j), MergeReturn(a, j)
    PROVE  StepOf(j)
<1>1. Becomes(j, "done") /\ Goes(a, j, "dropTree")
  BY SetStatusBecomes, GotoGoes, DiscardLabels DEF MergeReturn, Statuses, PcLabels, Actors
<1>2. TypeOK' /\ \A k \in Jobs \ {j} : SameSlice(k)
  <2>1. lock' \in [Projects -> SUBSET (Actors \X Jobs)]
    BY ExecJobsAssumption DEF MergeReturn, TypeOK, Release
  <2>2. \A b \in Actors, k \in Jobs \ {j} :
            lock[JobProject[k]] = {<<b, k>>} => lock'[JobProject[k]] = {<<b, k>>}
    BY ExecJobsAssumption DEF MergeReturn, TypeOK, Release
  <2>3. QED BY <1>1, <2>1, <2>2 DEF MergeReturn, TypeOK, SameSlice, RegistryMoves, Stays,
      Becomes, Goes, git, decisions, boot
<1>3. JobInv(j)'
  <2> USE <1>1 DEF MergeReturn, Becomes, Goes, TypeOK, git, running, decisions, boot,
      Actors, At, JobInv
  <2>1. FreshInv(j)' BY DEF FreshInv
  <2>2. StatusInv(j)' BY DEF FreshInv, StatusInv, StartupInv, Salvaging, Driving,
      MergePcs, MergeableStatus
  <2>3. StartupInv(j)' BY DEF StartupInv, CancelInv, Occupying
  <2>4. ApprovalInv(j)' BY DEF FreshInv, ApprovalInv, Approved
  <2>5. CancelInv(j)' BY DEF FreshInv, StatusInv, StartupInv, CancelInv, Salvaging,
      MergePcs, Driving, Occupying, MergeableStatus
  <2>6. LockInv(j)' BY ExecJobsAssumption DEF FreshInv, LockInv, InLock, Acquire, Release
  <2>7. QED BY <2>1, <2>2, <2>3, <2>4, <2>5, <2>6
<1>4. status'[j] = "running" => MayStart(JobProject[j]) \/ status[j] = "running"
  BY <1>1 DEF MergeReturn, Becomes
<1>5. QED BY <1>2, <1>3, <1>4 DEF StepOf

LEMMA DropTreeKeeps ==
    ASSUME TypeOK, NEW j \in Jobs, NEW a \in Actors, JobInv(j), DropTree(a, j)
    PROVE  StepOf(j)
<1>1. Stays(j) /\ Goes(a, j, "dropBranch")
  BY RegistryStays, GotoGoes DEF DropTree, Statuses, PcLabels, Actors
<1>2. TypeOK' /\ \A k \in Jobs \ {j} : SameSlice(k)
  BY <1>1 DEF DropTree, TypeOK, SameSlice, RegistryMoves, Stays, Goes, git, running,
      decisions, boot, Actors, Trees
<1>3. JobInv(j)'
  BY <1>1 DEF DropTree, Stays, Goes, At, git, running, decisions, boot, Actors, JobInv,
      FreshInv, StatusInv, StartupInv, ApprovalInv, Approved, CancelInv, LockInv, InLock,
      Salvaging, Driving, MergePcs, Occupying
<1>4. status'[j] = "running" => MayStart(JobProject[j]) \/ status[j] = "running"
  BY <1>1 DEF DropTree, Stays
<1>5. QED BY <1>2, <1>3, <1>4 DEF StepOf

LEMMA DropBranchKeeps ==
    ASSUME TypeOK, NEW j \in Jobs, NEW a \in Actors, JobInv(j), DropBranch(a, j)
    PROVE  StepOf(j)
<1>1. Stays(j) /\ Goes(a, j, "over")
  BY RegistryStays, GotoGoes DEF DropBranch, Statuses, PcLabels, Actors
<1>2. TypeOK' /\ \A k \in Jobs \ {j} : SameSlice(k)
  BY <1>1 DEF DropBranch, TypeOK, SameSlice, RegistryMoves, Stays, Goes, git, running,
      decisions, boot, Actors, Branches
<1>3. JobInv(j)'
  BY <1>1 DEF DropBranch, Stays, Goes, At, git, running, decisions, boot, Actors, JobInv,
      FreshInv, StatusInv, StartupInv, ApprovalInv, Approved, CancelInv, LockInv, InLock,
      Salvaging, Driving, MergePcs, Occupying
<1>4. status'[j] = "running" => MayStart(JobProject[j]) \/ status[j] = "running"
  BY <1>1 DEF DropBranch, Stays
<1>5. QED BY <1>2, <1>3, <1>4 DEF StepOf

LEMMA CancelKeeps ==
    ASSUME TypeOK, NEW j \in Jobs, JobInv(j), Cancel(j)
    PROVE  StepOf(j)
<1>1. Becomes(j, "cancelled") /\ \E l \in {"kill", "over"} : Goes("command", j, l)
  BY SetStatusBecomes, GotoGoes DEF Cancel, Statuses, PcLabels, Actors
<1>2. TypeOK' /\ \A k \in Jobs \ {j} : SameSlice(k)
  BY <1>1 DEF Cancel, TypeOK, SameSlice, RegistryMoves, Becomes, Goes, git, running,
      decisions, boot, Actors
<1>3. JobInv(j)'
  <2> USE <1>1 DEF Cancel, Becomes, Goes, TypeOK, git, running, decisions, boot, Actors,
      At, JobInv
  <2>1. FreshInv(j)' BY DEF FreshInv
  <2>2. StatusInv(j)' BY DEF FreshInv, StatusInv, StartupInv, Salvaging, Driving,
      MergePcs, MergeableStatus
  <2>3. StartupInv(j)' BY DEF StartupInv, CancelInv, Occupying
  <2>4. ApprovalInv(j)' BY DEF FreshInv, ApprovalInv, Approved
  <2>5. CancelInv(j)' BY DEF FreshInv, StatusInv, StartupInv, CancelInv, Salvaging,
      MergePcs, Driving, Occupying, MergeableStatus
  <2>6. LockInv(j)' BY DEF FreshInv, LockInv, InLock
  <2>7. QED BY <2>1, <2>2, <2>3, <2>4, <2>5, <2>6
<1>4. status'[j] = "running" => MayStart(JobProject[j]) \/ status[j] = "running"
  BY <1>1 DEF Cancel, Becomes
<1>5. QED BY <1>2, <1>3, <1>4 DEF StepOf

LEMMA KillAgentKeeps ==
    ASSUME TypeOK, NEW j \in Jobs, JobInv(j), KillAgent(j)
    PROVE  StepOf(j)
<1>1. Stays(j) /\ Goes("command", j, "over")
  BY RegistryStays, GotoGoes DEF KillAgent, Statuses, PcLabels, Actors
<1>2. TypeOK' /\ \A k \in Jobs \ {j} : SameSlice(k)
  BY <1>1 DEF KillAgent, TypeOK, SameSlice, RegistryMoves, Stays, Goes, git, running,
      decisions, boot, Actors
<1>3. JobInv(j)'
  BY <1>1 DEF KillAgent, Stays, Goes, At, git, running, decisions, boot, Actors, JobInv,
      FreshInv, StatusInv, StartupInv, ApprovalInv, Approved, CancelInv, LockInv, InLock,
      Salvaging, Driving, MergePcs, Occupying
<1>4. status'[j] = "running" => MayStart(JobProject[j]) \/ status[j] = "running"
  BY <1>1 DEF KillAgent, Stays
<1>5. QED BY <1>2, <1>3, <1>4 DEF StepOf

LEMMA MergeCommandKeeps ==
    ASSUME TypeOK, NEW j \in Jobs, JobInv(j), MergeCommand(j)
    PROVE  StepOf(j)
<1>1. MergeEffect("command", j)
  BY DoMergeDoes DEF MergeCommand, Statuses, Actors
<1>2. TypeOK' /\ \A k \in Jobs \ {j} : SameSlice(k)
  BY <1>1 DEF MergeCommand, TypeOK, SameSlice, MergeEffect, RegistryMoves, Stays, Becomes,
      Goes, git, running, decisions, boot, Actors, Signals
<1>3. JobInv(j)'
  <2> USE <1>1 DEF MergeCommand, MergeEffect, Stays, Becomes, Goes, TypeOK, git, running,
      decisions, boot, Actors, At, JobInv, Parked
  <2>1. FreshInv(j)' BY DEF FreshInv
  <2>2. StatusInv(j)' BY DEF FreshInv, StatusInv, StartupInv, Salvaging, Driving,
      MergePcs, MergeableStatus
  <2>3. StartupInv(j)' BY DEF StartupInv, CancelInv, Occupying
  <2>4. ApprovalInv(j)' BY DEF FreshInv, ApprovalInv, Approved
  <2>5. CancelInv(j)' BY DEF FreshInv, StatusInv, StartupInv, CancelInv, Salvaging,
      MergePcs, Driving, Occupying, MergeableStatus
  <2>6. LockInv(j)' BY DEF FreshInv, LockInv, InLock
  <2>7. QED BY <2>1, <2>2, <2>3, <2>4, <2>5, <2>6
<1>4. status'[j] = "running" => MayStart(JobProject[j]) \/ status[j] = "running"
  BY <1>1 DEF MergeCommand, MergeEffect, Stays, Becomes
<1>5. QED BY <1>2, <1>3, <1>4 DEF StepOf

LEMMA DiscardCommandKeeps ==
    ASSUME TypeOK, NEW j \in Jobs, JobInv(j), DiscardCommand(j)
    PROVE  StepOf(j)
<1>1. Becomes(j, "done") /\ Goes("command", j, "dropTree")
  BY SetStatusBecomes, GotoGoes, DiscardLabels DEF DiscardCommand, Statuses, PcLabels,
      Actors
<1>2. TypeOK' /\ \A k \in Jobs \ {j} : SameSlice(k)
  BY <1>1 DEF DiscardCommand, TypeOK, SameSlice, RegistryMoves, Becomes, Goes, git,
      running, decisions, boot, Actors
<1>3. JobInv(j)'
  <2> USE <1>1 DEF DiscardCommand, Becomes, Goes, TypeOK, git, running, decisions, boot,
      Actors, At, JobInv, Parked
  <2>1. FreshInv(j)' BY DEF FreshInv
  <2>2. StatusInv(j)' BY DEF FreshInv, StatusInv, StartupInv, Salvaging, Driving,
      MergePcs, MergeableStatus
  <2>3. StartupInv(j)' BY DEF StartupInv, CancelInv, Occupying
  <2>4. ApprovalInv(j)' BY DEF FreshInv, ApprovalInv, Approved
  <2>5. CancelInv(j)' BY DEF FreshInv, StatusInv, StartupInv, CancelInv, Salvaging,
      MergePcs, Driving, Occupying, MergeableStatus
  <2>6. LockInv(j)' BY DEF FreshInv, LockInv, InLock
  <2>7. QED BY <2>1, <2>2, <2>3, <2>4, <2>5, <2>6
<1>4. status'[j] = "running" => MayStart(JobProject[j]) \/ status[j] = "running"
  BY <1>1 DEF DiscardCommand, Becomes
<1>5. QED BY <1>2, <1>3, <1>4 DEF StepOf

LEMMA ReactKeeps ==
    ASSUME TypeOK, NEW j \in Jobs, NEW d \in {"confirm", "reject", "ignored"},
           JobInv(j), React(j, d)
    PROVE  StepOf(j)
<1>1. Stays(j) /\ UNCHANGED pc
  BY RegistryStays DEF React, Statuses, Actors, git, running, decisions
<1>2. TypeOK' /\ \A k \in Jobs \ {j} : SameSlice(k)
  BY <1>1 DEF React, TypeOK, SameSlice, RegistryMoves, Stays, git, running, decisions,
      boot, Actors, Gates, Signals
<1>3. JobInv(j)'
  <2> USE <1>1 DEF React, Stays, TypeOK, git, running, decisions, boot, Actors, At, JobInv
  <2>1. FreshInv(j)' BY DEF FreshInv
  <2>2. StatusInv(j)' BY DEF FreshInv, StatusInv, StartupInv, Salvaging, Driving,
      MergePcs, MergeableStatus
  <2>3. StartupInv(j)' BY DEF StartupInv, CancelInv, Occupying
  <2>4. ApprovalInv(j)' BY DEF FreshInv, ApprovalInv, Approved
  <2>5. CancelInv(j)' BY DEF FreshInv, StatusInv, StartupInv, CancelInv, Salvaging,
      MergePcs, Driving, Occupying, MergeableStatus
  <2>6. LockInv(j)' BY DEF FreshInv, LockInv, InLock
  <2>7. QED BY <2>1, <2>2, <2>3, <2>4, <2>5, <2>6
<1>4. status'[j] = "running" => MayStart(JobProject[j]) \/ status[j] = "running"
  BY <1>1 DEF React, Stays
<1>5. QED BY <1>2, <1>3, <1>4 DEF StepOf

LEMMA RecoverKeeps ==
    ASSUME TypeOK, NEW j \in Jobs, JobInv(j), Recover(j)
    PROVE  StepOf(j)
<1>1. UNCHANGED pc /\ RegistryMoves(j)
  BY RegistryStays DEF Recover, Statuses, Actors, TypeOK, RegistryMoves, Occupying,
      registry, git, running, decisions
<1>2. TypeOK' /\ \A k \in Jobs \ {j} : SameSlice(k)
  BY <1>1 DEF Recover, TypeOK, SameSlice, RegistryMoves, git, running, decisions, boot,
      Actors, SetStatus
<1>3. JobInv(j)'
  <2> USE <1>1 DEF Recover, TypeOK, git, running, decisions, boot, Actors, At, JobInv,
      SetStatus, registry
  <2>1. FreshInv(j)' BY DEF FreshInv
  <2>2. StatusInv(j)' BY DEF FreshInv, StatusInv, StartupInv, Salvaging, Driving,
      MergePcs, MergeableStatus
  <2>3. StartupInv(j)' BY DEF StartupInv, CancelInv, Occupying
  <2>4. ApprovalInv(j)' BY DEF FreshInv, ApprovalInv, Approved
  <2>5. CancelInv(j)' BY DEF FreshInv, StatusInv, StartupInv, CancelInv, Salvaging,
      MergePcs, Driving, Occupying, MergeableStatus
  <2>6. LockInv(j)' BY DEF FreshInv, LockInv, InLock
  <2>7. QED BY <2>1, <2>2, <2>3, <2>4, <2>5, <2>6
<1>4. status'[j] = "running" => MayStart(JobProject[j]) \/ status[j] = "running"
  BY <1>1 DEF Recover, TypeOK, registry, SetStatus
<1>5. QED BY <1>2, <1>3, <1>4 DEF StepOf

LEMMA RescueKeeps ==
    ASSUME TypeOK, NEW j \in Jobs, JobInv(j), Rescue(j)
    PROVE  StepOf(j)
<1>1. \/ UNCHANGED pc /\ Becomes(j, "awaiting_review")
      \/ UNCHANGED pc /\ Stays(j)
  BY SetStatusBecomes, RegistryStays DEF Rescue, Statuses, Actors, git, running, decisions
<1>2. TypeOK' /\ \A k \in Jobs \ {j} : SameSlice(k)
  BY <1>1 DEF Rescue, TypeOK, SameSlice, RegistryMoves, Stays, Becomes, git, running,
      decisions, boot, Actors, Trees
<1>3. JobInv(j)'
  <2> USE <1>1 DEF Rescue, Stays, Becomes, TypeOK, git, running, decisions, boot, Actors,
      At, JobInv, SetStatus, registry
  <2>1. FreshInv(j)' BY DEF FreshInv
  <2>2. StatusInv(j)' BY DEF FreshInv, StatusInv, StartupInv, Salvaging, Driving,
      MergePcs, MergeableStatus
  <2>3. StartupInv(j)' BY DEF StartupInv, CancelInv, Occupying
  <2>4. ApprovalInv(j)' BY DEF FreshInv, ApprovalInv, Approved
  <2>5. CancelInv(j)' BY DEF FreshInv, StatusInv, StartupInv, CancelInv, Salvaging,
      MergePcs, Driving, Occupying, MergeableStatus
  <2>6. LockInv(j)' BY DEF FreshInv, LockInv, InLock
  <2>7. QED BY <2>1, <2>2, <2>3, <2>4, <2>5, <2>6
<1>4. status'[j] = "running" => MayStart(JobProject[j]) \/ status[j] = "running"
  BY <1>1 DEF Rescue, Stays, Becomes
<1>5. QED BY <1>2, <1>3, <1>4 DEF StepOf

LEMMA GcBranchKeeps ==
    ASSUME TypeOK, NEW j \in Jobs, JobInv(j), GcBranch(j)
    PROVE  StepOf(j)
<1>1. Stays(j) /\ UNCHANGED pc
  BY RegistryStays DEF GcBranch, Statuses, Actors, git, running, decisions
<1>2. TypeOK' /\ \A k \in Jobs \ {j} : SameSlice(k)
  BY <1>1 DEF GcBranch, TypeOK, SameSlice, RegistryMoves, Stays, git, running, decisions,
      boot, Actors, Branches, Trees
<1>3. JobInv(j)'
  BY <1>1 DEF GcBranch, Stays, At, git, running, decisions, boot, Actors, JobInv,
      FreshInv, StatusInv, StartupInv, ApprovalInv, Approved, CancelInv, LockInv, InLock,
      Salvaging, Driving, MergePcs, Occupying
<1>4. status'[j] = "running" => MayStart(JobProject[j]) \/ status[j] = "running"
  BY <1>1 DEF GcBranch, Stays
<1>5. QED BY <1>2, <1>3, <1>4 DEF StepOf

-----------------------------------------------------------------------------
(* The steps that concern every job: the end of the startup, and a restart. *)

LEMMA FinishStartupKeeps ==
    ASSUME Inv, FinishStartup
    PROVE  Inv'
<1> USE DEF Inv, FinishStartup, git, running, decisions
<1>1. TypeOK'
  BY DEF TypeOK, Statuses
<1>2. ASSUME NEW j \in Jobs PROVE JobInv(j)'
  <2> USE <1>2 DEF JobInv, At, TypeOK
  <2>1. FreshInv(j)' BY DEF FreshInv
  <2>2. StatusInv(j)' BY DEF StatusInv, Salvaging
  <2>3. StartupInv(j)' BY DEF StartupInv
  <2>4. ApprovalInv(j)' BY DEF ApprovalInv, Approved
  <2>5. CancelInv(j)' BY DEF CancelInv, Occupying
  <2>6. LockInv(j)' BY DEF LockInv, InLock
  <2>7. QED BY <2>1, <2>2, <2>3, <2>4, <2>5, <2>6
<1>3. OneRunning'
  BY DEF OneRunning
<1>4. QED BY <1>1, <1>2, <1>3

LEMMA CrashKeeps ==
    ASSUME Inv, Crash
    PROVE  Inv'
<1> USE DEF Inv, Crash, git, decisions
<1>1. TypeOK'
  <2>1. pc' \in [Actors \X Jobs -> PcLabels]
    BY DEF TypeOK, PcLabels
  <2>2. crashes' \in 0..MaxCrashes
    BY ExecJobsAssumption DEF TypeOK, ExecJobsAssumption
  <2>3. QED BY <2>1, <2>2 DEF TypeOK, Statuses, Kinds, Gates
<1>2. ASSUME NEW j \in Jobs PROVE JobInv(j)'
  <2>1. \A a \in Actors : pc'[<<a, j>>] = IF pc[<<a, j>>] = "new" THEN "new" ELSE "over"
    BY <1>2 DEF Actors
  <2> USE <1>2, <2>1 DEF JobInv, At, TypeOK, Actors
  <2>2. FreshInv(j)' BY DEF FreshInv
  <2>3. StatusInv(j)' BY DEF StatusInv, Salvaging, Driving, MergePcs
  <2>4. StartupInv(j)' BY DEF StartupInv
  <2>5. ApprovalInv(j)' BY DEF ApprovalInv, Approved
  <2>6. CancelInv(j)' BY DEF CancelInv, Occupying
  <2>7. LockInv(j)' BY DEF LockInv, InLock
  <2>8. QED BY <2>2, <2>3, <2>4, <2>5, <2>6, <2>7
<1>3. OneRunning'
  BY DEF OneRunning
<1>4. QED BY <1>1, <1>2, <1>3

(* The one-job steps together: StepOf turns a step on one slice into a step of Inv. *)
LEMMA StepOfKeeps ==
    ASSUME Inv, NEW j \in Jobs, StepOf(j)
    PROVE  Inv'
<1>1. \A k \in Jobs : JobInv(k)'
  BY SliceKeepsInv DEF StepOf, Inv
<1>2. OneRunning'
  <2> SUFFICES ASSUME NEW k \in Jobs, NEW l \in Jobs, JobProject[k] = JobProject[l],
                      status'[k] = "running", status'[l] = "running"
               PROVE  k = l
    BY DEF OneRunning
  <2>1. \A i \in Jobs \ {j} : status'[i] = status[i]
    BY DEF StepOf, SameSlice
  <2>2. CASE status[j] = "running" \/ status'[j] # "running"
    BY <2>1, <2>2 DEF Inv, OneRunning
  <2>3. CASE MayStart(JobProject[j])
    <3>1. \A i \in Jobs : JobProject[i] = JobProject[j] => status[i] # "running"
      BY <2>3 DEF MayStart, Occupied, Occupying
    <3>2. QED BY <2>1, <3>1 DEF Inv, OneRunning
  <2>4. QED BY <2>2, <2>3 DEF StepOf
<1>3. QED BY <1>1, <1>2 DEF StepOf, Inv

(* The initial states satisfy the invariant: no job was handed out. *)
LEMMA InitInv == Init => Inv
<1> SUFFICES ASSUME Init PROVE Inv
  OBVIOUS
<1> USE DEF Init
<1>1. TypeOK
  BY ExecJobsAssumption DEF ExecJobsAssumption, TypeOK, Statuses, Branches, Trees, Modes,
      PcLabels, Kinds, Gates
<1>2. ASSUME NEW j \in Jobs PROVE JobInv(j)
  <2>1. pc[<<"driver", j>>] = "new" /\ pc[<<"command", j>>] = "over"
    BY <1>2 DEF Actors
  <2> USE <1>2, <2>1 DEF At, Actors
  <2>2. FreshInv(j) BY DEF FreshInv
  <2>3. StatusInv(j) BY DEF StatusInv, Salvaging, Driving, MergePcs
  <2>4. StartupInv(j) BY DEF StartupInv
  <2>5. ApprovalInv(j) BY DEF ApprovalInv, Approved
  <2>6. CancelInv(j) BY DEF CancelInv
  <2>7. LockInv(j) BY DEF LockInv, InLock
  <2>8. QED BY <2>2, <2>3, <2>4, <2>5, <2>6, <2>7 DEF JobInv
<1>3. OneRunning
  BY DEF OneRunning
<1>4. QED BY <1>1, <1>2, <1>3 DEF Inv

(* Every step, and every stutter, keeps the invariant. *)
LEMMA NextKeepsInv ==
    ASSUME Inv, [Next]_vars
    PROVE  Inv'
<1>1. CASE UNCHANGED vars
  <2>1. TypeOK' BY <1>1 DEF Inv, TypeOK, vars
  <2>2. ASSUME NEW j \in Jobs PROVE JobInv(j)'
    BY <1>1, <2>2, SliceKeepsInv DEF Inv, SameSlice, vars
  <2>3. OneRunning' BY <1>1 DEF Inv, OneRunning, vars
  <2>4. QED BY <2>1, <2>2, <2>3 DEF Inv
<1>2. ASSUME NEW j \in Jobs, NEW a \in Actors, MergeStep(a, j) PROVE StepOf(j)
  BY <1>2, TakeMergeLockKeeps, MergeKeeps, MergeReturnKeeps, DropTreeKeeps,
      DropBranchKeeps DEF MergeStep, Inv
<1>3. ASSUME NEW j \in Jobs, DriverStep(j) PROVE StepOf(j)
  BY <1>2, <1>3, AnnounceKeeps, PostStatusKeeps, CreateWorktreeKeeps, RecordWorktreeKeeps,
      IngestKeeps, SpawnKeeps, FinishRunKeeps, UnwindKeeps, SettleKeeps, SalvageKeeps,
      SalvageDiffKeeps, ReplyKeeps, CommitKeeps, CheckDiffKeeps, AdviseKeeps,
      PostGateKeeps, ResumeGateKeeps, GateTimeoutKeeps, VerifyKeeps, EvaluateKeeps,
      AuditParkKeeps, AuditMergeKeeps, ParkTreeKeeps DEF DriverStep, Inv, Actors
<1>4. ASSUME NEW j \in Jobs, CommandStep(j) PROVE StepOf(j)
  BY <1>2, <1>4, KillAgentKeeps DEF CommandStep, Inv, Actors
<1>5. ASSUME NEW j \in Jobs, OperatorStep(j) PROVE StepOf(j)
  BY <1>5, StartKeeps, CancelKeeps, MergeCommandKeeps, DiscardCommandKeeps, ReactKeeps DEF
      OperatorStep, Inv
<1>6. ASSUME NEW j \in Jobs, AgentStep(j) PROVE StepOf(j)
  BY <1>6, AgentStepKeeps DEF Inv
<1>7. CASE StartupStep
  <2>1. ASSUME NEW j \in Jobs, Recover(j) \/ Rescue(j) \/ GcBranch(j) PROVE StepOf(j)
    BY <2>1, RecoverKeeps, RescueKeeps, GcBranchKeeps DEF Inv
  <2>2. QED BY <1>7, <2>1, StepOfKeeps, FinishStartupKeeps DEF StartupStep
<1>8. CASE Crash
  BY <1>8, CrashKeeps
<1>9. CASE Idle
  BY <1>1, <1>9 DEF Idle
<1>10. QED
  BY <1>1, <1>3, <1>4, <1>5, <1>6, <1>7, <1>8, <1>9, StepOfKeeps DEF Next
-----------------------------------------------------------------------------
(* The invariant holds in every behaviour, and with it what it implies. *)

(* Inv holds in every reachable state, for any jobs, projects, tiers and bounds. *)
THEOREM Invariance == Spec => []Inv
<1>1. Init => Inv BY InitInv
<1>2. Inv /\ [Next]_vars => Inv' BY NextKeepsInv
<1>3. QED BY <1>1, <1>2, PTL DEF Spec

(* Every variable keeps its type, for any set of jobs, projects and bounds. *)
THEOREM TypeCorrect == Spec => []TypeOK
<1>1. Inv => TypeOK BY DEF Inv
<1>2. QED BY <1>1, Invariance, PTL

(* Nothing lands in the live branch without the operator, or both auto signals. *)
THEOREM MergesApproved == Spec => []NoUnapprovedMerge
<1>1. Inv => NoUnapprovedMerge
  BY DEF Inv, JobInv, ApprovalInv, NoUnapprovedMerge
<1>2. QED BY <1>1, Invariance, PTL

(* No step, timeout or restart makes a cancelled job reviewable or merges it. *)
THEOREM CancelFinal == Spec => []CancelIsFinal
<1>1. Inv => CancelIsFinal
  BY DEF Inv, JobInv, CancelInv, CancelIsFinal
<1>2. QED BY <1>1, Invariance, PTL

(* cwd_locks keeps runs and merges of one project apart. *)
THEOREM LockExclusive == Spec => []ProjectExclusive
<1>1. Inv => ProjectExclusive
  <2> SUFFICES ASSUME Inv PROVE ProjectExclusive
    OBVIOUS
  <2>1. ASSUME NEW a \in Actors, NEW b \in Actors, NEW j \in Jobs, NEW k \in Jobs,
               JobProject[j] = JobProject[k], InLock(a, j), InLock(b, k)
        PROVE  a = b /\ j = k
    <3>1. {<<a, j>>} = {<<b, k>>}
      BY <2>1 DEF Inv, JobInv, LockInv
    <3>2. <<a, j>> = <<b, k>>
      BY <3>1
    <3>3. QED BY <3>2
  <2>2. \A j \in Jobs : agent[j] => InLock("driver", j)
    BY DEF Inv, JobInv, LockInv, InLock
  <2>3. QED BY <2>1, <2>2 DEF ProjectExclusive
<1>2. QED BY <1>1, Invariance, PTL

(* The occupancy check admits at most one running job per project. *)
THEOREM RunningAlone == Spec => []OneRunning
<1>1. Inv => OneRunning BY DEF Inv
<1>2. QED BY <1>1, Invariance, PTL
=============================================================================
