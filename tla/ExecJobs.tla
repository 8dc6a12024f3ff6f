------------------------------ MODULE ExecJobs ------------------------------
(***************************************************************************)
(* The execution-job core of the bridge: the job registry and its on-disk  *)
(* mirror (bridge/jobs.py), the driver coroutine that owns one job from    *)
(* its start to its review gate (bridge/frontend.py, _drive_exec_job and   *)
(* the functions it awaits), the git branch and worktree of the job        *)
(* (bridge/worktree.py), the operator's commands and reactions, a restart  *)
(* of the process at any point, and the startup sequence of bot.py.        *)
(*                                                                         *)
(* The bridge is one asyncio process: code between two awaits is atomic,   *)
(* so an action is one await-free segment, together with the effect of the *)
(* external command (git, the agent) whose return resumes the coroutine.   *)
(* A job has two coroutines that may change it: its driver, and the task   *)
(* of an operator command (!cancel, !merge, !discard).                     *)
(***************************************************************************)
EXTENDS Naturals

CONSTANTS
    Jobs,              \* job ids the bridge may hand out
    Projects,          \* project directories
    JobProject,        \* the project a job runs on
    GitProjects,       \* projects with a .git directory
    GcProjects,        \* projects the startup GC visits (PROJECT_DIRS)
    Tiers,             \* execution tiers the operator may use ("auto" is opt-in)
    MaxCrashes,        \* bound: restarts in one behaviour
    EvaluatorEnabled,  \* EVALUATOR_ENABLED
    DiscordMayFail,    \* an awaited Discord request may raise
    HostMayFail        \* a git or spawn call of the bridge may fail or not answer

ASSUME ExecJobsAssumption ==
    /\ JobProject \in [Jobs -> Projects]
    /\ GitProjects \subseteq Projects
    /\ GcProjects \subseteq Projects
    /\ Tiers \subseteq {"edit", "auto"}
    /\ MaxCrashes \in Nat
    /\ {EvaluatorEnabled, DiscordMayFail, HostMayFail} \subseteq BOOLEAN

Actors == {"driver", "command"}

\* jobs.py's statuses; "none" is a job the registry (or the mirror) does not hold.
Statuses == {"none", "running", "done", "failed", "timeout", "cancelled",
             "orphaned", "awaiting_review", "merging"}
Occupying == {"running", "awaiting_review", "merging"}

\* bridge/<id> relative to the base commit: commits whose net diff is empty are "netzero".
Branches == {"absent", "base", "netzero", "work"}
Trees    == {"absent", "clean", "dirty"}

Modes   == {"edit", "auto"}
Kinds   == {"none", "done", "timeout", "failed", "cancelled"}
Gates   == {"none", "open", "confirm", "reject", "ignored"}
Signals == {"human", "verify", "evaluator"}

\* Where a coroutine is suspended.
PcLabels == {"new", "announcing", "posting", "branching", "branched", "ingest", "queue",
             "killing", "running", "unwind", "settling", "salvage", "salvageDiff",
             "reply", "commit", "diffing", "advise", "gatePost", "gate", "verify",
             "evaluate", "auditPark", "auditMerge", "kill", "mergeLock", "merging",
             "mergedRet", "dropTree", "dropBranch", "parkTree", "over"}

VARIABLES
    status,     \* jobs._registry: status of each job
    mirror,     \* status in discord-state/jobs/<id>.json
    recorded,   \* the mirror holds the job's worktree, branch and base
    branch,     \* the git branch bridge/<id>
    tree,       \* the job's worktree
    merged,     \* bridge/<id> has been merged into the live branch
    unreported, \* history: it has been, and the bridge was not told or forgot
    mode,       \* execution tier of the job
    pc,         \* where the job's driver and command coroutines are
    kind,       \* the driver's classification of a finished run
    agent,      \* the job's agent process is alive
    lock,       \* holders of cwd_locks[project]
    gate,       \* the future of the job's diff gate in pending_actions
    phase,      \* "up", or "starting" while main() recovers
    todo,       \* mirrors recover_jobs has not read yet
    orphans,    \* jobs recover_jobs returned as orphaned
    crashes,    \* restarts so far
    approvals,  \* history: signals given for merging the job
    cancelled,  \* history: an accepted !cancel
    rejected    \* history: a refusal the bridge acted on, at the gate or by !discard

registry  == <<status, mirror>>
git       == <<branch, tree, merged, unreported>>
running   == <<agent, lock>>
decisions == <<approvals, cancelled, rejected>>
boot      == <<phase, todo, orphans, crashes>>
vars == <<status, mirror, recorded, branch, tree, merged, unreported, mode, pc, kind,
          agent, lock, gate, phase, todo, orphans, crashes, approvals, cancelled, rejected>>

Init ==
    /\ status = [j \in Jobs |-> "none"]
    /\ mirror = [j \in Jobs |-> "none"]
    /\ recorded = [j \in Jobs |-> FALSE]
    /\ branch = [j \in Jobs |-> "absent"]
    /\ tree = [j \in Jobs |-> "absent"]
    /\ merged = [j \in Jobs |-> FALSE]
    /\ unreported = [j \in Jobs |-> FALSE]
    /\ mode = [j \in Jobs |-> "edit"]
    /\ pc = [x \in Actors \X Jobs |-> IF x[1] = "driver" THEN "new" ELSE "over"]
    /\ kind = [j \in Jobs |-> "none"]
    /\ agent = [j \in Jobs |-> FALSE]
    /\ lock = [p \in Projects |-> {}]
    /\ gate = [j \in Jobs |-> "none"]
    /\ phase = "up"
    /\ todo = {}
    /\ orphans = {}
    /\ crashes = 0
    /\ approvals = [j \in Jobs |-> {}]
    /\ cancelled = [j \in Jobs |-> FALSE]
    /\ rejected = [j \in Jobs |-> FALSE]
-----------------------------------------------------------------------------
(* Helpers.                                                                *)

IsGit(j) == JobProject[j] \in GitProjects

At(a, j, l)   == pc[<<a, j>>] = l
Goto(a, j, l) == pc' = [pc EXCEPT ![<<a, j>>] = l]

\* set_status: the registry, then the mirror, with no await in between.
SetStatus(j, s) ==
    /\ status' = [status EXCEPT ![j] = s]
    /\ mirror' = [mirror EXCEPT ![j] = s]

\* jobs.project_occupied
Occupied(p) == \E k \in Jobs : JobProject[k] = p /\ status[k] \in Occupying

\* Mutants of Acquire: the lock keyed by job instead of coroutine; no waiting for it.
AcquireByJob(a, j) ==
    /\ lock[JobProject[j]] = {}
    /\ lock' = [lock EXCEPT ![JobProject[j]] = {j}]
AcquireAtOnce(a, j) == lock' = [lock EXCEPT ![JobProject[j]] = @ \cup {<<a, j>>}]

\* `async with state.cwd_locks[project]`
Acquire(a, j) ==
    /\ lock[JobProject[j]] = {}
    /\ lock' = [lock EXCEPT ![JobProject[j]] = {<<a, j>>}]
Release(a, j) == lock' = [lock EXCEPT ![JobProject[j]] = @ \ {<<a, j>>}]

\* The tip of bridge/<id> after committing a dirty worktree on top of it.
AfterCommit(b) == IF b = "work" THEN {"work", "netzero"} ELSE {"work"}

\* commit_job finds nothing to commit. It does not look at the return code of `git add`, so
\* an add that fails hides a dirty worktree.
NothingStaged(j) == tree[j] # "dirty" \/ HostMayFail

\* Where a discard begins; a Discord request before it may raise and skip it.
Discard(j) == IF IsGit(j) THEN "dropTree" ELSE "over"
DiscardAfterSend(j) == {Discard(j)} \cup (IF DiscordMayFail THEN {"over"} ELSE {})

\* The except and finally clauses of _drive_exec_job.
Finally(j, committed) ==
    \/ /\ status[j] # "running"
       /\ Goto("driver", j, "over")
       /\ UNCHANGED registry
    \/ /\ status[j] = "running"
       /\ committed
       /\ SetStatus(j, "awaiting_review")
       /\ Goto("driver", j, "parkTree")
    \/ /\ status[j] = "running"
       /\ ~committed
       /\ SetStatus(j, "failed")
       /\ \E l \in DiscardAfterSend(j) : Goto("driver", j, l)
-----------------------------------------------------------------------------
(* From the operator's message to the end of the agent's run.              *)

\* Mutant of MayStart: only a parked job blocks a new one.
MayStartUnlessParked(p) ==
    \A k \in Jobs : JobProject[k] = p => status[k] # "awaiting_review"

\* The occupancy check of start_exec_job and _run_auto_chain.
MayStart(p) == ~Occupied(p)

Start(j, m) ==
    /\ phase = "up"
    /\ At("driver", j, "new")
    /\ MayStart(JobProject[j])
    /\ SetStatus(j, "running")
    /\ mode' = [mode EXCEPT ![j] = m]
    /\ \/ Goto("driver", j, "posting")
       \/ m = "auto" /\ Goto("driver", j, "announcing")
    /\ UNCHANGED <<recorded, git, kind, running, gate, boot, decisions>>

\* The progress line of a chain of several tasks goes out between create_job and the
\* driver: a failure there leaves a running job that no coroutine drives.
Announce(j) ==
    /\ At("driver", j, "announcing")
    /\ \/ Goto("driver", j, "posting")
       \/ DiscordMayFail /\ Goto("driver", j, "over")
    /\ UNCHANGED <<registry, recorded, git, mode, kind, running, gate, boot, decisions>>

PostStatus(j) ==
    /\ At("driver", j, "posting")
    /\ \/ DiscordMayFail /\ Finally(j, FALSE)
       \/ /\ mode[j] = "auto" /\ ~IsGit(j)
          /\ SetStatus(j, "failed")
          /\ Goto("driver", j, "over")
       \/ /\ mode[j] = "edit" \/ IsGit(j)
          /\ Goto("driver", j, IF IsGit(j) THEN "branching" ELSE "ingest")
          /\ UNCHANGED registry
    /\ UNCHANGED <<recorded, git, mode, kind, running, gate, boot, decisions>>

\* create_job_worktree: git makes branch and worktree, or the call raises. A git call
\* that is killed at its timeout may have made the branch all the same.
CreateWorktree(j) ==
    /\ At("driver", j, "branching")
    /\ \/ /\ branch' = [branch EXCEPT ![j] = "base"]
          /\ tree' = [tree EXCEPT ![j] = "clean"]
          /\ Goto("driver", j, "branched")
          /\ UNCHANGED registry
       \/ /\ \E b \in {"absent"} \cup (IF HostMayFail THEN {"base"} ELSE {}) :
                branch' = [branch EXCEPT ![j] = b]
          /\ SetStatus(j, "failed")
          /\ Goto("driver", j, "over")
          /\ UNCHANGED tree
       \/ HostMayFail /\ Finally(j, FALSE) /\ UNCHANGED <<branch, tree>>
    /\ UNCHANGED <<recorded, merged, unreported, mode, kind, running, gate, boot,
                   decisions>>

RecordWorktree(j) ==
    /\ At("driver", j, "branched")
    /\ recorded' = [recorded EXCEPT ![j] = TRUE]
    /\ Goto("driver", j, "ingest")
    /\ UNCHANGED <<registry, git, mode, kind, running, gate, boot, decisions>>

Ingest(j) ==
    /\ At("driver", j, "ingest")
    /\ \/ Goto("driver", j, "queue")
       \/ DiscordMayFail /\ Goto("driver", j, "unwind")
    /\ UNCHANGED <<registry, recorded, git, mode, kind, running, gate, boot, decisions>>

\* run_streaming_exec: the project's lock, the agent process, on_proc and should_abort.
Spawn(j) ==
    /\ At("driver", j, "queue")
    /\ \/ /\ Acquire("driver", j)
          /\ agent' = [agent EXCEPT ![j] = TRUE]
          /\ Goto("driver", j, IF status[j] = "cancelled" THEN "killing" ELSE "running")
       \/ /\ HostMayFail
          /\ lock[JobProject[j]] = {}
          /\ Goto("driver", j, "unwind")
          /\ UNCHANGED running
    /\ UNCHANGED <<registry, recorded, git, mode, kind, gate, boot, decisions>>

\* The agent edits its worktree and may commit or reset by itself, until it is dead.
AgentStep(j) ==
    /\ agent[j]
    /\ IsGit(j)
    /\ \E b \in Branches \ {"absent"}, t \in {"clean", "dirty"} :
          /\ branch' = [branch EXCEPT ![j] = b]
          /\ tree' = [tree EXCEPT ![j] = t]
    /\ UNCHANGED <<registry, recorded, merged, unreported, mode, pc, kind, running, gate,
                   boot, decisions>>

\* Mutant of RunMayEnd: no EXEC_TIMEOUT, and no kill of a run cancelled before its spawn.
RunMayEndAtEof(j) == At("driver", j, "running") /\ ~agent[j]

RunMayEnd(j) == At("driver", j, "running") \/ At("driver", j, "killing")

\* The run ends with a result, at EXEC_TIMEOUT, or without a result; the process is
\* dead by then, the lock is released, and the outcome is classified.
FinishRun(j) ==
    /\ RunMayEnd(j)
    /\ agent' = [agent EXCEPT ![j] = FALSE]
    /\ Release("driver", j)
    /\ \E o \in {"done", "timeout", "failed"} :
          kind' = [kind EXCEPT ![j] = IF status[j] = "cancelled" THEN "cancelled" ELSE o]
    /\ Goto("driver", j, "settling")
    /\ UNCHANGED <<registry, recorded, git, mode, gate, boot, decisions>>

Unwind(j) ==
    /\ At("driver", j, "unwind")
    /\ Finally(j, FALSE)
    /\ UNCHANGED <<recorded, git, mode, kind, running, gate, boot, decisions>>

\* After `await upd` the status is read again: a !cancel in that window wins.
KindNow(j) == IF status[j] = "cancelled" THEN "cancelled" ELSE kind[j]

Settle(j) ==
    /\ At("driver", j, "settling")
    /\ \/ DiscordMayFail /\ Finally(j, FALSE)
       \/ /\ KindNow(j) = "done"
          /\ Goto("driver", j, "reply")
          /\ UNCHANGED registry
       \/ /\ KindNow(j) # "done"
          /\ SetStatus(j, KindNow(j))
          /\ Goto("driver", j, IF IsGit(j) /\ KindNow(j) # "cancelled"
                               THEN "salvage" ELSE Discard(j))
    /\ kind' = [kind EXCEPT ![j] = "none"]
    /\ UNCHANGED <<recorded, git, mode, running, gate, boot, decisions>>
-----------------------------------------------------------------------------
(* A run that did not finish: _salvage_partial_work.                       *)

\* commit_job, and what follows when it returns or raises. A raise parks a branch that
\* moved past base; a git call that does not answer there reads as "no commits".
Salvage(j) ==
    /\ At("driver", j, "salvage")
    /\ \/ /\ tree[j] = "dirty"
          /\ \E b \in AfterCommit(branch[j]) : branch' = [branch EXCEPT ![j] = b]
          /\ tree' = [tree EXCEPT ![j] = "clean"]
          /\ Goto("driver", j, "salvageDiff")
          /\ UNCHANGED registry
       \/ /\ NothingStaged(j)
          /\ Goto("driver", j, IF branch[j] = "base" THEN "dropTree" ELSE "salvageDiff")
          /\ UNCHANGED <<registry, branch, tree>>
       \/ /\ tree[j] = "dirty" \/ HostMayFail
          /\ \/ /\ branch[j] # "base"
                /\ SetStatus(j, "awaiting_review")
                /\ Goto("driver", j, "over")
             \/ /\ branch[j] = "base" \/ HostMayFail
                /\ Goto("driver", j, "dropTree")
                /\ UNCHANGED registry
          /\ UNCHANGED <<branch, tree>>
    /\ UNCHANGED <<recorded, merged, unreported, mode, kind, running, gate, boot,
                   decisions>>

\* Only a proven empty net diff is not parked, unless git fails the diff and then the
\* question whether the branch holds commits.
SalvageDiff(j) ==
    /\ At("driver", j, "salvageDiff")
    /\ \/ /\ branch[j] = "netzero" \/ HostMayFail
          /\ Goto("driver", j, "dropTree")
          /\ UNCHANGED registry
       \/ /\ branch[j] # "netzero" \/ HostMayFail
          /\ SetStatus(j, "awaiting_review")
          /\ \E l \in {"parkTree"} \cup (IF HostMayFail THEN {"over"} ELSE {}) :
                Goto("driver", j, l)
    /\ UNCHANGED <<recorded, git, mode, kind, running, gate, boot, decisions>>
-----------------------------------------------------------------------------
(* A run that finished: reply, commit, net-diff test.                      *)

Reply(j) ==
    /\ At("driver", j, "reply")
    /\ \/ DiscordMayFail /\ Finally(j, FALSE)
       \/ /\ IsGit(j)
          /\ Goto("driver", j, "commit")
          /\ UNCHANGED registry
       \/ /\ ~IsGit(j)
          /\ SetStatus(j, "done")
          /\ Goto("driver", j, "over")
    /\ UNCHANGED <<recorded, git, mode, kind, running, gate, boot, decisions>>

\* commit_job: `git commit` may fail (a hook, say), which raises out of the driver.
Commit(j) ==
    /\ At("driver", j, "commit")
    /\ \/ /\ tree[j] = "dirty"
          /\ \E b \in AfterCommit(branch[j]) : branch' = [branch EXCEPT ![j] = b]
          /\ tree' = [tree EXCEPT ![j] = "clean"]
          /\ Goto("driver", j, "diffing")
          /\ UNCHANGED registry
       \/ /\ NothingStaged(j)
          /\ branch[j] # "base"
          /\ Goto("driver", j, "diffing")
          /\ UNCHANGED <<registry, branch, tree>>
       \/ /\ NothingStaged(j)
          /\ branch[j] = "base"
          /\ SetStatus(j, "done")
          /\ \E l \in DiscardAfterSend(j) : Goto("driver", j, l)
          /\ UNCHANGED <<branch, tree>>
       \/ /\ tree[j] = "dirty" \/ HostMayFail
          /\ Finally(j, FALSE)
          /\ UNCHANGED <<branch, tree>>
    /\ UNCHANGED <<recorded, merged, unreported, mode, kind, running, gate, boot,
                   decisions>>

CheckDiff(j) ==
    /\ At("driver", j, "diffing")
    /\ \/ /\ branch[j] = "netzero"
          /\ SetStatus(j, "done")
          /\ \E l \in DiscardAfterSend(j) : Goto("driver", j, l)
       \/ /\ branch[j] # "netzero" \/ HostMayFail
          /\ Goto("driver", j, IF mode[j] = "auto" THEN "verify" ELSE "advise")
          /\ UNCHANGED registry
       \/ HostMayFail /\ Finally(j, TRUE)
    /\ UNCHANGED <<recorded, git, mode, kind, running, gate, boot, decisions>>
-----------------------------------------------------------------------------
(* _do_merge, for the driver (gate or auto) and for the !merge command.    *)

\* Mutant of MergeableStatus: only a merge under way blocks another.
MergeableUnlessMerging(j) == status[j] # "merging"

MergeableStatus(j) == status[j] \in {"running", "awaiting_review"}

\* The synchronous claim.
DoMerge(a, j) ==
    \/ /\ MergeableStatus(j)
       /\ SetStatus(j, "merging")
       /\ Goto(a, j, "mergeLock")
    \/ /\ ~MergeableStatus(j)
       /\ Goto(a, j, "over")
       /\ UNCHANGED registry

TakeMergeLock(a, j) ==
    /\ At(a, j, "mergeLock")
    /\ Acquire(a, j)
    /\ Goto(a, j, "merging")
    /\ UNCHANGED <<registry, recorded, git, mode, kind, agent, gate, boot, decisions>>

\* merge_job: merged, refused (dirty, diverged, conflict, error), or a raise that leaves
\* the job "merging". A git merge killed at its timeout may have committed all the same:
\* the abort that follows finds nothing to undo, and the answer is a conflict or a raise.
Merge(a, j) ==
    /\ At(a, j, "merging")
    /\ \/ /\ branch[j] # "absent"
          /\ merged' = [merged EXCEPT ![j] = TRUE]
          /\ unreported' = [unreported EXCEPT ![j] = FALSE]
          /\ Goto(a, j, "mergedRet")
          /\ UNCHANGED <<registry, lock>>
       \/ /\ SetStatus(j, "awaiting_review") \/ (HostMayFail /\ UNCHANGED registry)
          /\ \/ UNCHANGED <<merged, unreported>>
             \/ /\ HostMayFail /\ branch[j] # "absent"
                /\ merged' = [merged EXCEPT ![j] = TRUE]
                /\ unreported' = [unreported EXCEPT ![j] = TRUE]
          /\ Release(a, j)
          /\ Goto(a, j, "over")
    /\ UNCHANGED <<recorded, branch, tree, mode, kind, agent, gate, boot, decisions>>

MergeReturn(a, j) ==
    /\ At(a, j, "mergedRet")
    /\ Release(a, j)
    /\ SetStatus(j, "done")
    /\ Goto(a, j, "dropTree")
    /\ UNCHANGED <<recorded, git, mode, kind, agent, gate, boot, decisions>>

\* remove_worktree, then delete_branch; neither looks at git's return code, and git keeps
\* a branch that a worktree has checked out.
DropTree(a, j) ==
    /\ At(a, j, "dropTree")
    /\ tree' = [tree EXCEPT ![j] = "absent"] \/ (HostMayFail /\ UNCHANGED tree)
    /\ Goto(a, j, "dropBranch")
    /\ UNCHANGED <<registry, recorded, branch, merged, unreported, mode, kind, running,
                   gate, boot, decisions>>

DropBranch(a, j) ==
    /\ At(a, j, "dropBranch")
    /\ \/ tree[j] = "absent" /\ branch' = [branch EXCEPT ![j] = "absent"]
       \/ (tree[j] # "absent" \/ HostMayFail) /\ UNCHANGED branch
    /\ Goto(a, j, "over")
    /\ UNCHANGED <<registry, recorded, tree, merged, unreported, mode, kind, running, gate,
                   boot, decisions>>

ParkTree(j) ==
    /\ At("driver", j, "parkTree")
    /\ tree' = [tree EXCEPT ![j] = "absent"] \/ (HostMayFail /\ UNCHANGED tree)
    /\ Goto("driver", j, "over")
    /\ UNCHANGED <<registry, recorded, branch, merged, unreported, mode, kind, running,
                   gate, boot, decisions>>
-----------------------------------------------------------------------------
(* The human gate: advisory verify and review, then the diff message.      *)

\* Only the evaluator branch looks for a !cancel that came in meanwhile. Its failures stay
\* inside the review, but for an edit of its note that raises something new.
Advise(j) ==
    /\ At("driver", j, "advise")
    /\ \/ /\ Goto("driver", j, IF EvaluatorEnabled /\ status[j] = "cancelled"
                               THEN "dropTree" ELSE "gatePost")
          /\ UNCHANGED registry
       \/ DiscordMayFail /\ EvaluatorEnabled /\ Finally(j, TRUE)
    /\ UNCHANGED <<recorded, git, mode, kind, running, gate, boot, decisions>>

PostGate(j) ==
    /\ At("driver", j, "gatePost")
    /\ \/ /\ gate' = [gate EXCEPT ![j] = "open"]
          /\ Goto("driver", j, "gate")
          /\ UNCHANGED registry
       \/ DiscordMayFail /\ Finally(j, TRUE) /\ UNCHANGED gate
    /\ UNCHANGED <<recorded, git, mode, kind, running, boot, decisions>>

\* on_raw_reaction_add takes the future out of pending_actions for any emoji, and
\* resolves it only for the two it knows.
React(j, d) ==
    /\ gate[j] = "open"
    /\ gate' = [gate EXCEPT ![j] = d]
    /\ approvals' = [approvals EXCEPT ![j] = @ \cup (IF d = "confirm" THEN {"human"} ELSE {})]
    /\ UNCHANGED <<registry, recorded, git, mode, pc, kind, running, boot, cancelled,
                   rejected>>

ResumeGate(j) ==
    /\ At("driver", j, "gate")
    /\ \/ gate[j] = "confirm" /\ DoMerge("driver", j) /\ UNCHANGED rejected
       \/ /\ gate[j] = "reject"
          /\ rejected' = [rejected EXCEPT ![j] = TRUE]
          /\ SetStatus(j, "done")
          /\ Goto("driver", j, "dropTree")
    /\ gate' = [gate EXCEPT ![j] = "none"]
    /\ UNCHANGED <<recorded, git, mode, kind, running, boot, approvals, cancelled>>

\* Mutant of ParkIfRunning: the status is not read again.
ParkAlways(j) == SetStatus(j, "awaiting_review") /\ Goto("driver", j, "parkTree")

\* A job still running when its review lapses (at the gate, or in auto mode) is parked.
ParkIfRunning(j) ==
    \/ /\ status[j] = "running"
       /\ SetStatus(j, "awaiting_review")
       /\ Goto("driver", j, "parkTree")
    \/ /\ status[j] # "running"
       /\ Goto("driver", j, "over")
       /\ UNCHANGED registry

\* Mutant of GateMayLapse: a gate whose future was popped unresolved never times out.
GateMayLapseIfPending(j) == gate[j] = "open"

\* wait_for may raise although the future was resolved: a decision that comes in the same
\* turn of the loop as the timeout is dropped, and the job is parked.
GateMayLapse(j) == gate[j] # "none"

GateTimeout(j) ==
    /\ At("driver", j, "gate")
    /\ GateMayLapse(j)
    /\ gate' = [gate EXCEPT ![j] = "none"]
    /\ ParkIfRunning(j)
    /\ UNCHANGED <<recorded, git, mode, kind, running, boot, decisions>>
-----------------------------------------------------------------------------
(* The auto gate: _resolve_auto_gate and _auto_park.                       *)

\* Mutant of AutoSignal: the outcome of the signal is not looked at.
AutoSignalIgnored(j, signal, next) == Goto("driver", j, next) /\ UNCHANGED approvals

\* One automatic signal: a !cancel that came in meanwhile wins; a refusal, a failure or
\* an exception parks; only a pass goes on.
AutoSignal(j, signal, next) ==
    \/ /\ status[j] = "cancelled"
       /\ Goto("driver", j, "dropTree")
       /\ UNCHANGED approvals
    \/ /\ status[j] # "cancelled"
       /\ Goto("driver", j, "auditPark")
       /\ UNCHANGED approvals
    \/ /\ status[j] # "cancelled"
       /\ approvals' = [approvals EXCEPT ![j] = @ \cup {signal}]
       /\ Goto("driver", j, next)

Verify(j) ==
    /\ At("driver", j, "verify")
    /\ AutoSignal(j, "verify", "evaluate")
    /\ UNCHANGED <<registry, recorded, git, mode, kind, running, gate, boot, cancelled,
                   rejected>>

Evaluate(j) ==
    /\ At("driver", j, "evaluate")
    /\ AutoSignal(j, "evaluator", "auditMerge")
    /\ UNCHANGED <<registry, recorded, git, mode, kind, running, gate, boot, cancelled,
                   rejected>>

AuditPark(j) ==
    /\ At("driver", j, "auditPark")
    /\ ParkIfRunning(j)
    /\ UNCHANGED <<recorded, git, mode, kind, running, gate, boot, decisions>>

AuditMerge(j) ==
    /\ At("driver", j, "auditMerge")
    /\ DoMerge("driver", j) \/ (DiscordMayFail /\ Finally(j, TRUE))
    /\ UNCHANGED <<recorded, git, mode, kind, running, gate, boot, decisions>>
-----------------------------------------------------------------------------
(* Operator commands.                                                      *)

\* cancel_job: the status first, then the kill of the attached process.
Cancel(j) ==
    /\ phase = "up"
    /\ At("command", j, "over")
    /\ status[j] = "running"
    /\ SetStatus(j, "cancelled")
    /\ cancelled' = [cancelled EXCEPT ![j] = TRUE]
    /\ Goto("command", j, IF agent[j] THEN "kill" ELSE "over")
    /\ UNCHANGED <<recorded, git, mode, kind, running, gate, boot, approvals, rejected>>

KillAgent(j) ==
    /\ At("command", j, "kill")
    /\ agent' = [agent EXCEPT ![j] = FALSE]
    /\ Goto("command", j, "over")
    /\ UNCHANGED <<registry, recorded, git, mode, kind, lock, gate, boot, decisions>>

\* Mutant of Parked: a merge under way does not block the command.
ParkedOrMerging(j) == status[j] \in {"awaiting_review", "merging"}

\* What !merge and !discard look up before they act.
Parked(j) == status[j] = "awaiting_review"

MergeCommand(j) ==
    /\ phase = "up"
    /\ At("command", j, "over")
    /\ Parked(j)
    /\ approvals' = [approvals EXCEPT ![j] = @ \cup {"human"}]
    /\ DoMerge("command", j)
    /\ UNCHANGED <<recorded, git, mode, kind, running, gate, boot, cancelled, rejected>>

DiscardCommand(j) ==
    /\ phase = "up"
    /\ At("command", j, "over")
    /\ Parked(j)
    /\ rejected' = [rejected EXCEPT ![j] = TRUE]
    /\ SetStatus(j, "done")
    /\ Goto("command", j, "dropTree")
    /\ UNCHANGED <<recorded, git, mode, kind, running, gate, boot, approvals, cancelled>>
-----------------------------------------------------------------------------
(* A restart, and main()'s recovery before the Discord clients start.      *)

Crash ==
    /\ crashes < MaxCrashes
    /\ crashes' = crashes + 1
    /\ phase' = "starting"
    /\ todo' = {j \in Jobs : mirror[j] # "none"}
    /\ orphans' = {}
    /\ status' = [j \in Jobs |-> "none"]
    /\ pc' = [x \in Actors \X Jobs |-> IF pc[x] = "new" THEN "new" ELSE "over"]
    /\ kind' = [j \in Jobs |-> "none"]
    /\ agent' = [j \in Jobs |-> FALSE]
    /\ lock' = [p \in Projects |-> {}]
    /\ gate' = [j \in Jobs |-> "none"]
    /\ unreported' =
          [j \in Jobs |-> unreported[j] \/ \E a \in Actors : At(a, j, "mergedRet")]
    /\ UNCHANGED <<mirror, recorded, branch, tree, merged, mode, decisions>>

\* recover_jobs, one mirror at a time: each rewrite is durable on its own.
Recover(j) ==
    /\ j \in todo
    /\ todo' = todo \ {j}
    /\ \/ /\ mirror[j] = "running"
          /\ mirror' = [mirror EXCEPT ![j] = "orphaned"]
          /\ orphans' = orphans \cup {j}
          /\ UNCHANGED status
       \/ /\ mirror[j] \in {"awaiting_review", "merging"}
          /\ status' = [status EXCEPT ![j] = "awaiting_review"]
          /\ UNCHANGED <<mirror, orphans>>
       \/ /\ mirror[j] \notin Occupying \/ (mirror[j] = "running" /\ HostMayFail)
          /\ UNCHANGED <<registry, orphans>>
    /\ UNCHANGED <<recorded, git, mode, pc, kind, running, gate, phase, crashes, decisions>>

\* rescue_committed_orphans, one orphan at a time. git may not answer: a branch whose
\* head cannot be read is skipped, any other doubt parks the job.
Rescue(j) ==
    /\ todo = {}
    /\ j \in orphans
    /\ orphans' = orphans \ {j}
    /\ \/ /\ recorded[j]
          /\ branch[j] = "work" \/ HostMayFail
          /\ SetStatus(j, "awaiting_review")
          /\ tree' = [tree EXCEPT ![j] = "absent"] \/ (HostMayFail /\ UNCHANGED tree)
       \/ /\ ~recorded[j] \/ branch[j] # "work" \/ HostMayFail
          /\ UNCHANGED <<registry, tree>>
    /\ UNCHANGED <<recorded, branch, merged, unreported, mode, pc, kind, running, gate,
                   phase, todo, crashes, decisions>>

\* Mutant of Collectable: the keep-set is not passed on.
CollectableAlways(j) ==
    JobProject[j] \in GcProjects \cap GitProjects /\ branch[j] # "absent"

\* Branches of visited projects that no reviewable job keeps.
Collectable(j) ==
    /\ JobProject[j] \in GcProjects \cap GitProjects
    /\ branch[j] # "absent"
    /\ status[j] # "awaiting_review"

GcBranch(j) ==
    /\ phase = "starting"
    /\ todo = {} /\ orphans = {}
    /\ Collectable(j)
    /\ tree' = [tree EXCEPT ![j] = "absent"]
    /\ branch' = [branch EXCEPT ![j] = "absent"]
    /\ UNCHANGED <<registry, recorded, merged, unreported, mode, pc, kind, running, gate,
                   boot, decisions>>

\* gc_job_state, then the clients connect.
FinishStartup ==
    /\ phase = "starting"
    /\ todo = {} /\ orphans = {}
    /\ HostMayFail \/ \A j \in Jobs : ~Collectable(j)
    /\ mirror' = [j \in Jobs |-> IF status[j] = "awaiting_review" THEN mirror[j] ELSE "none"]
    /\ recorded' = [j \in Jobs |-> status[j] = "awaiting_review" /\ recorded[j]]
    /\ phase' = "up"
    /\ UNCHANGED <<status, git, mode, pc, kind, running, gate, todo, orphans, crashes,
                   decisions>>
-----------------------------------------------------------------------------
MergeStep(a, j) ==
    \/ TakeMergeLock(a, j) \/ Merge(a, j) \/ MergeReturn(a, j)
    \/ DropTree(a, j) \/ DropBranch(a, j)

DriverStep(j) ==
    \/ Announce(j) \/ PostStatus(j) \/ CreateWorktree(j) \/ RecordWorktree(j) \/ Ingest(j)
    \/ Spawn(j) \/ FinishRun(j) \/ Unwind(j) \/ Settle(j) \/ Salvage(j) \/ SalvageDiff(j)
    \/ Reply(j) \/ Commit(j) \/ CheckDiff(j) \/ Advise(j) \/ PostGate(j) \/ ResumeGate(j)
    \/ GateTimeout(j) \/ Verify(j) \/ Evaluate(j) \/ AuditPark(j) \/ AuditMerge(j)
    \/ ParkTree(j) \/ MergeStep("driver", j)

CommandStep(j) == KillAgent(j) \/ MergeStep("command", j)

OperatorStep(j) ==
    \/ \E m \in Tiers : Start(j, m)
    \/ Cancel(j) \/ MergeCommand(j) \/ DiscardCommand(j)
    \/ \E d \in {"confirm", "reject", "ignored"} : React(j, d)

StartupStep == (\E j \in Jobs : Recover(j) \/ Rescue(j) \/ GcBranch(j)) \/ FinishStartup

\* The bridge waits for the operator: no coroutine of a job is suspended mid-way.
Idle ==
    /\ phase = "up"
    /\ \A x \in Actors \X Jobs : pc[x] \in {"new", "over"}
    /\ UNCHANGED vars

Next ==
    \/ \E j \in Jobs : DriverStep(j) \/ CommandStep(j) \/ OperatorStep(j) \/ AgentStep(j)
    \/ StartupStep
    \/ Crash
    \/ Idle

Spec == Init /\ [][Next]_vars

\* Every await of a coroutine returns or times out (git 120 s, EXEC_TIMEOUT, the gate's
\* PLAN_REACTION_TIMEOUT, Discord's own timeouts), and asyncio.Lock wakes its waiters in
\* the order they came. The operator, the agent and a restart are under no obligation.
TakeLock(a, j) == TakeMergeLock(a, j) \/ (a = "driver" /\ Spawn(j))

Fairness ==
    /\ \A j \in Jobs : WF_vars(DriverStep(j)) /\ WF_vars(CommandStep(j))
    /\ \A a \in Actors, j \in Jobs : SF_vars(TakeLock(a, j))
    /\ WF_vars(StartupStep)

FairSpec == Spec /\ Fairness
-----------------------------------------------------------------------------
TypeOK ==
    /\ status \in [Jobs -> Statuses]
    /\ mirror \in [Jobs -> Statuses]
    /\ recorded \in [Jobs -> BOOLEAN]
    /\ branch \in [Jobs -> Branches]
    /\ tree \in [Jobs -> Trees]
    /\ merged \in [Jobs -> BOOLEAN]
    /\ unreported \in [Jobs -> BOOLEAN]
    /\ mode \in [Jobs -> Modes]
    /\ pc \in [Actors \X Jobs -> PcLabels]
    /\ kind \in [Jobs -> Kinds]
    /\ agent \in [Jobs -> BOOLEAN]
    /\ lock \in [Projects -> SUBSET (Actors \X Jobs)]
    /\ gate \in [Jobs -> Gates]
    /\ phase \in {"up", "starting"}
    /\ todo \subseteq Jobs
    /\ orphans \subseteq Jobs
    /\ crashes \in 0..MaxCrashes
    /\ approvals \in [Jobs -> SUBSET Signals]
    /\ cancelled \in [Jobs -> BOOLEAN]
    /\ rejected \in [Jobs -> BOOLEAN]

(* A change lands only after the operator approved it (a check mark or !merge) or, in
   auto mode, after verify passed and the evaluator approved: _post_diff_gate,
   _resolve_auto_gate and _do_merge, whatever the timeouts, cancels and restarts between. *)
Approved(j) == "human" \in approvals[j]
               \/ (mode[j] = "auto" /\ {"verify", "evaluator"} \subseteq approvals[j])

NoUnapprovedMerge == \A j \in Jobs : merged[j] => Approved(j)

(* An accepted !cancel is final: no later step of the driver, no operator command and no
   recovery after a restart makes the job reviewable again or merges it. *)
CancelIsFinal ==
    \A j \in Jobs : cancelled[j] => /\ ~merged[j]
                                    /\ status[j] \notin Occupying
                                    /\ mirror[j] \notin Occupying

(* A reviewable change is safe: while its record says so, no discard, salvage, GC or
   restart touches its branch, and the record goes only with a merge or a refusal. *)
Reviewable(j) == mirror[j] \in {"awaiting_review", "merging"}

ReviewableKept ==
    [][\A j \in Jobs : Reviewable(j) /\ branch[j] # "absent"
                        => /\ branch'[j] = branch[j]
                           /\ Reviewable(j)' \/ merged[j] \/ rejected'[j]]_vars

(* A job that can be merged or discarded, in memory or on disk, has its branch. A rescue
   that parks in doubt may be wrong about that, hence only with a git that answers. *)
ReviewableHasBranch ==
    ~HostMayFail => \A j \in Jobs : status[j] = "awaiting_review" \/ Reviewable(j)
                                    => branch[j] # "absent"

(* cwd_locks[project]: an agent process and a merge, or two of either, are never active
   on one project at the same time (run_streaming_exec and _do_merge). *)
InLock(a, j) == pc[<<a, j>>] \in {"running", "killing", "merging", "mergedRet"}

ProjectExclusive ==
    /\ \A a, b \in Actors, j, k \in Jobs :
          /\ JobProject[j] = JobProject[k]
          /\ InLock(a, j)
          /\ InLock(b, k)
          => a = b /\ j = k
    /\ \A j \in Jobs : agent[j] => InLock("driver", j)

(* At most one job of a project is running: the check-and-create of start_exec_job is
   not split by any await, and no other path makes a job running. *)
OneRunning ==
    \A j, k \in Jobs :
        JobProject[j] = JobProject[k] /\ status[j] = "running" /\ status[k] = "running"
        => j = k

(* A change whose refusal the bridge acted on is not in the live branch, whatever gates,
   commands and restarts came before and after. The exception is a change that had landed
   unknown to the bridge and was offered for review again: git's merge was killed after its
   commit, or a restart came between the merge and the mirror's update. *)
RejectedNeverLands ==
    \A j \in Jobs : rejected[j] /\ merged[j] => unreported[j]

(* The abstract promise, with the job's fate read from the durable mirror. *)
Salvaging(j) == pc[<<"driver", j>>] \in {"salvage", "salvageDiff"}

Fate(j) ==
    IF merged[j] THEN "landed"
    ELSE IF pc[<<"driver", j>>] = "new" THEN "fresh"
    ELSE IF Reviewable(j) THEN "reviewable"
    ELSE IF \/ mirror[j] = "running"
            \/ mirror[j] = "orphaned" /\ j \in orphans
            \/ Salvaging(j)
         THEN "working"
    ELSE "closed"

Lifecycle == INSTANCE JobLifecycle WITH
    fate <- [j \in Jobs |-> Fate(j)],
    approved <- {j \in Jobs : Approved(j)},
    refused <- {j \in Jobs : rejected[j]}

(* Every step of the bridge is a step of JobLifecycle or leaves the fates alone. *)
ImplementsLifecycle == Lifecycle!LifecycleSpec

(* A job whose driver has begun, or that a !merge claimed, does not stay running or
   merging: every path, with its timeouts and exceptions, ends in a status that frees the
   driver (needs a git that answers). *)
Driven(j) == \E a \in Actors : pc[<<a, j>>] \notin {"new", "announcing", "over"}

EveryJobSettles ==
    \A j \in Jobs : status[j] \in {"running", "merging"} /\ Driven(j)
                     ~> status[j] \notin {"running", "merging"}

(* After a !cancel the agent process is stopped and its lock is free again. *)
CancelStopsAgent ==
    \A j \in Jobs : cancelled[j] ~> (~agent[j] /\ ~InLock("driver", j))
-----------------------------------------------------------------------------
(* Statements of the repository that the code does not meet.               *)

(* openspec/specs/exec-task-loop/spec.md:15-17: a rejected or cancelled job leaves no
   worktree and no branch once its coroutines have ended. *)
Quiet(j) == phase = "up" /\ \A a \in Actors : pc[<<a, j>>] = "over"

CancelLeavesNoTrace ==
    \A j \in Jobs : cancelled[j] /\ Quiet(j) => branch[j] = "absent" /\ tree[j] = "absent"

(* jobs.py:170-172: no second job while another one holds the project, so a job never
   branches from a HEAD with an unreviewed change pending. *)
OneOccupant ==
    \A j, k \in Jobs :
        JobProject[j] = JobProject[k] /\ status[j] \in Occupying /\ status[k] \in Occupying
        => j = k

(* SPEC.md:230: work of a run that ended without a !cancel is parked, never deleted. *)
WorkOnlyDroppedByDecision ==
    [][\A j \in Jobs : branch[j] = "work" /\ branch'[j] = "absent"
                        => merged[j] \/ cancelled[j] \/ rejected[j]]_vars

(* SPEC.md:216: after a restart, committed work of an interrupted job is rescued and not
   collected by the startup GC. *)
RestartKeepsWork ==
    [][\A j \in Jobs : phase = "starting" /\ branch[j] = "work" /\ branch'[j] = "absent"
                        => merged[j] \/ cancelled[j] \/ rejected[j]]_vars
=============================================================================
