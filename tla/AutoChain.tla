------------------------------ MODULE AutoChain ------------------------------
(***************************************************************************)
(* Auto chains (bridge/frontend.py, _run_auto_chain) and the merge         *)
(* protocol (_do_merge, bridge/worktree.py, merge_job) against an operator *)
(* who works in the live checkout meanwhile.  A chain runs its tasks one   *)
(* after the other, each as a job on a branch of its own; merge_job is     *)
(* modelled git call by git call.  ExecJobs has the inner steps of a job   *)
(* and its restarts; here a job is what a chain and the history see of it. *)
(*                                                                         *)
(* A commit is the set of labels of its ancestors and its own, so that     *)
(* `merge-base --is-ancestor` is set inclusion.                            *)
(***************************************************************************)
EXTENDS Naturals

CONSTANTS
    Chains,          \* auto messages with a task list
    Tasks,           \* number of tasks in each one's list (split_task_list)
    AutoMaxJobs,     \* AUTO_MAX_JOBS
    MaxMoves,        \* bound: what the operator does in the live checkout
    DiscordMayFail,  \* an awaited Discord request may raise
    HostMayFail      \* a git call may be killed at its timeout, or not start

ASSUME AutoChainAssumption ==
    /\ Tasks \in [Chains -> Nat \ {0}]
    /\ AutoMaxJobs \in Nat \ {0}
    /\ MaxMoves \in Nat
    /\ {DiscordMayFail, HostMayFail} \subseteq BOOLEAN

Jobs == UNION {{c} \X (1..Tasks[c]) : c \in Chains}

Statuses  == {"none", "running", "done", "failed", "timeout", "cancelled",
              "awaiting_review", "merging"}
Occupying == {"running", "awaiting_review", "merging"}

\* Live branches: "side" has a commit that "main" lacks.
Lines == {"main", "side"}

PcLabels == {"none", "announcing", "undriven", "starting", "branching", "working", "salvage",
             "reply", "signals", "merging", "parked", "finished"}
MergeLabels == {"none", "lock", "status", "ancestor", "merge", "abort"}

Labels == {"side", "op", "work", "merge"} \X (Jobs \cup ({"operator"} \X (0..MaxMoves)))
Work(j)  == <<"work", j>>
MergeOf(j) == <<"merge", j>>
OwnCommit(n) == <<"op", <<"operator", n>>>>

VARIABLES
    chain,     \* where the chain's coroutine is
    turn,      \* the task it is at
    status,    \* jobs._registry
    pc,        \* where the job's driver is
    mpc,       \* where merge_job of the job is, for the driver or for !merge
    base,      \* job.base: HEAD as create_job_worktree read it
    tip,       \* tip of bridge/<id>
    lock,      \* holders of cwd_locks[project]
    rival,     \* a job that is no chain's occupies the project
    head,      \* the live branch checked out
    line,      \* tip of each live branch
    edits,     \* uncommitted edits of the operator in the live checkout
    merge,     \* whose unfinished merge (MERGE_HEAD, markers) is in the live checkout
    moves,     \* what the operator did so far
    landed,    \* history: jobs merged into a live branch
    cancelled, \* history: jobs with an accepted !cancel
    refused,   \* history: jobs with an accepted !discard
    killed,    \* history: jobs with a git call of the merge that was killed or not started
    raced,     \* history: jobs for which the operator switched HEAD after the ancestor
               \* check, or began a merge after the status check
    switched   \* history: the operator switched the live branch

chains   == <<chain, turn, rival>>
jobState == <<status, pc, mpc, base, tip, lock>>
checkout == <<head, line, edits, merge>>
history  == <<landed, cancelled, refused, killed, raced, switched>>
vars == <<chain, turn, status, pc, mpc, base, tip, lock, rival, head, line, edits, merge, moves,
          landed, cancelled, refused, killed, raced, switched>>

Init ==
    /\ chain = [c \in Chains |-> "idle"]
    /\ turn = [c \in Chains |-> 1]
    /\ status = [j \in Jobs |-> "none"]
    /\ pc = [j \in Jobs |-> "none"]
    /\ mpc = [j \in Jobs |-> "none"]
    /\ base = [j \in Jobs |-> {}]
    /\ tip = [j \in Jobs |-> {}]
    /\ lock = {}
    /\ rival = FALSE
    /\ head = "main"
    /\ line = [l \in Lines |-> IF l = "main" THEN {} ELSE {<<"side", <<"operator", 0>>>>}]
    /\ edits = FALSE
    /\ merge = "none"
    /\ moves = 0
    /\ landed = {}
    /\ cancelled = {}
    /\ refused = {}
    /\ killed = {}
    /\ raced = {}
    /\ switched = FALSE
-----------------------------------------------------------------------------
(* Helpers.                                                                *)

Occupied == rival \/ \E j \in Jobs : status[j] \in Occupying

SetStatus(j, s) == status' = [status EXCEPT ![j] = s]
Goto(j, l)      == pc' = [pc EXCEPT ![j] = l]
GotoMerge(j, l) == mpc' = [mpc EXCEPT ![j] = l]

Current(c) == <<c, turn[c]>>

\* The end of _drive_exec_job for a job without a committed branch: its finally clause.
Finally(j) ==
    /\ Goto(j, "finished")
    /\ SetStatus(j, IF status[j] = "running" THEN "failed" ELSE status[j])
-----------------------------------------------------------------------------
(* The chain.                                                              *)

\* The header of a list of several tasks.
Begin(c) ==
    /\ chain[c] = "idle"
    /\ \E l \in {"checking"} \cup (IF DiscordMayFail /\ Tasks[c] > 1 THEN {"over"} ELSE {}) :
          chain' = [chain EXCEPT ![c] = l]
    /\ UNCHANGED <<turn, rival, jobState, checkout, moves, history>>

\* The loop head: a task is left, the cap is not reached, the project is free.
MayRun(c) == turn[c] <= Tasks[c] /\ turn[c] <= AutoMaxJobs /\ ~Occupied

\* The occupancy check and create_job, with no await between them.
NextTask(c) ==
    /\ chain[c] = "checking"
    /\ MayRun(c)
    /\ chain' = [chain EXCEPT ![c] = "driving"]
    /\ SetStatus(Current(c), "running")
    /\ Goto(Current(c), IF Tasks[c] > 1 THEN "announcing" ELSE "starting")
    /\ UNCHANGED <<turn, rival, mpc, base, tip, lock, checkout, moves, history>>

StopChain(c) ==
    /\ chain[c] = "checking"
    /\ ~MayRun(c)
    /\ chain' = [chain EXCEPT ![c] = "over"]
    /\ UNCHANGED <<turn, rival, jobState, checkout, moves, history>>

\* Mutant of Advances: the job's status is not looked at.
AdvancesAnyway(c) == pc[Current(c)] = "finished"

\* `await _drive_exec_job`, then the test of its status.
Advances(c) == pc[Current(c)] = "finished" /\ status[Current(c)] = "done"

TaskOver(c) ==
    /\ chain[c] = "driving"
    /\ \/ /\ Advances(c)
          /\ turn' = [turn EXCEPT ![c] = @ + 1]
          /\ chain' = [chain EXCEPT ![c] = "checking"]
       \/ /\ pc[Current(c)] = "finished"
          /\ ~Advances(c)
          /\ chain' = [chain EXCEPT ![c] = "over"]
          /\ UNCHANGED turn
    /\ UNCHANGED <<rival, jobState, checkout, moves, history>>

\* The progress line: if it fails, the chain is gone and nobody drives the job.
Announce(c) ==
    /\ chain[c] = "driving"
    /\ pc[Current(c)] = "announcing"
    /\ \/ Goto(Current(c), "starting") /\ UNCHANGED chain
       \/ /\ DiscordMayFail
          /\ Goto(Current(c), "undriven")
          /\ chain' = [chain EXCEPT ![c] = "over"]
    /\ UNCHANGED <<turn, rival, status, mpc, base, tip, lock, checkout, moves, history>>
-----------------------------------------------------------------------------
(* The job of a task, as far as the chain sees it.                         *)

\* Mutant of HeadFor: the chain's first base is kept for all of its tasks.
FirstHead(j) == IF j[2] = 1 THEN line[head] ELSE base[<<j[1], 1>>]

\* The `rev-parse HEAD` that becomes the job's base.
HeadFor(j) == line[head]

\* create_job_worktree reads HEAD twice: for job.base, and in `worktree add`.
ReadBase(j) ==
    /\ pc[j] = "starting"
    /\ \/ /\ base' = [base EXCEPT ![j] = HeadFor(j)]
          /\ Goto(j, "branching")
          /\ UNCHANGED status
       \/ (DiscordMayFail \/ HostMayFail) /\ Finally(j) /\ UNCHANGED base
    /\ UNCHANGED <<chains, mpc, tip, lock, checkout, moves, history>>

AddWorktree(j) ==
    /\ pc[j] = "branching"
    /\ \/ /\ tip' = [tip EXCEPT ![j] = line[head]]
          /\ Goto(j, "working")
          /\ UNCHANGED status
       \/ /\ SetStatus(j, "failed")
          /\ Goto(j, "finished")
          /\ UNCHANGED tip
    /\ UNCHANGED <<chains, mpc, base, lock, checkout, moves, history>>

\* The agent's run ends: cancelled, without a result, or with one.
EndRun(j) ==
    /\ pc[j] = "working"
    /\ \/ status[j] = "cancelled" /\ Goto(j, "finished") /\ UNCHANGED status
       \/ /\ status[j] # "cancelled"
          /\ \/ SetStatus(j, "failed") /\ Goto(j, "salvage")
             \/ Goto(j, "reply") /\ UNCHANGED status
    /\ UNCHANGED <<chains, mpc, base, tip, lock, checkout, moves, history>>

AddWork(j) == tip' = [tip EXCEPT ![j] = @ \cup {Work(j)}]

\* The status is stored before the salvage, which parks what the run left behind.
Salvage(j) ==
    /\ pc[j] = "salvage"
    /\ \/ AddWork(j) /\ SetStatus(j, "awaiting_review")
       \/ UNCHANGED <<status, tip>>
    /\ Goto(j, "finished")
    /\ UNCHANGED <<chains, mpc, base, lock, checkout, moves, history>>

\* Reply, commit_job, net-diff test. A run without changes is DONE, whatever the status
\* was; an exception leaves it to the finally clause.
Commit(j) ==
    /\ pc[j] = "reply"
    /\ \/ SetStatus(j, "done") /\ Goto(j, "finished") /\ UNCHANGED tip
       \/ AddWork(j) /\ Goto(j, "signals") /\ UNCHANGED status
       \/ (DiscordMayFail \/ HostMayFail) /\ Finally(j) /\ UNCHANGED tip
    /\ UNCHANGED <<chains, mpc, base, lock, checkout, moves, history>>

\* Mutant of MergeableStatus: only a merge under way blocks another.
MergeableUnlessMerging(j) == status[j] # "merging"

MergeableStatus(j) == status[j] \in {"running", "awaiting_review"}

\* _do_merge's synchronous claim.
Claim(j) == MergeableStatus(j) /\ SetStatus(j, "merging") /\ GotoMerge(j, "lock")

\* _resolve_auto_gate: both signals pass and the job was not cancelled, or it is parked.
\* The await before the driver returns lets a !merge or !discard in.
Resolve(j) ==
    /\ pc[j] = "signals"
    /\ \/ Claim(j) /\ Goto(j, "merging")
       \/ /\ status[j] = "running"
          /\ SetStatus(j, "awaiting_review")
          /\ Goto(j, "parked")
          /\ UNCHANGED mpc
       \/ status[j] = "cancelled" /\ Goto(j, "finished") /\ UNCHANGED <<status, mpc>>
    /\ UNCHANGED <<chains, base, tip, lock, checkout, moves, history>>

ParkReturn(j) ==
    /\ pc[j] = "parked"
    /\ Goto(j, "finished")
    /\ UNCHANGED <<chains, status, mpc, base, tip, lock, checkout, moves, history>>
-----------------------------------------------------------------------------
(* merge_job, one git call per step, under the project's lock.             *)

TakeLock(j) ==
    /\ mpc[j] = "lock"
    /\ lock = {}
    /\ lock' = {j}
    /\ GotoMerge(j, "status")
    /\ UNCHANGED <<chains, status, pc, base, tip, checkout, moves, history>>

\* Mutant of Conclude: the lock is kept.
ConcludeLocked(j, s) ==
    /\ SetStatus(j, s)
    /\ GotoMerge(j, "none")
    /\ pc' = [pc EXCEPT ![j] = IF @ = "merging" THEN "finished" ELSE @]
    /\ raced' = raced \ {j}
    /\ UNCHANGED lock

\* _do_merge goes on with the result, and the driver returns if the merge was its own.
Conclude(j, s) ==
    /\ SetStatus(j, s)
    /\ lock' = lock \ {j}
    /\ GotoMerge(j, "none")
    /\ pc' = [pc EXCEPT ![j] = IF @ = "merging" THEN "finished" ELSE @]
    /\ raced' = raced \ {j}

\* Mutant of Refuse: merge_job's result is stored as the job's status.
RefuseWithResult(j) == Conclude(j, "conflict")

Refuse(j) == Conclude(j, "awaiting_review")

GoOn(j, l) == GotoMerge(j, l) /\ UNCHANGED <<status, pc, lock, raced>>

\* Mutant of Clean.
CleanAlways == TRUE

\* `git status --porcelain` prints nothing.
Clean == ~edits /\ merge = "none"

CheckStatus(j) ==
    /\ mpc[j] = "status"
    /\ \/ Clean /\ GoOn(j, "ancestor")
       \/ (~Clean \/ HostMayFail) /\ Refuse(j)
    /\ UNCHANGED <<chains, base, tip, checkout, moves, landed, cancelled, refused, killed,
                   switched>>

\* Mutant of BaseIsAncestor.
BaseIsAncestorAlways(j) == TRUE

BaseIsAncestor(j) == base[j] \subseteq line[head]

CheckBase(j) ==
    /\ mpc[j] = "ancestor"
    /\ \/ BaseIsAncestor(j) /\ GoOn(j, "merge")
       \/ (~BaseIsAncestor(j) \/ HostMayFail) /\ Refuse(j)
    /\ UNCHANGED <<chains, base, tip, checkout, moves, landed, cancelled, refused, killed,
                   switched>>

\* `git merge --no-ff`: a merge commit on the branch checked out now, unless the job's
\* branch is in it already.
Land(j) ==
    /\ merge = "none"
    /\ line' = [line EXCEPT ![head] =
                   IF tip[j] \subseteq @ THEN @ ELSE @ \cup tip[j] \cup {MergeOf(j)}]
    /\ landed' = landed \cup {j}

Stops(j) == merge = "none" /\ merge' = "bridge" /\ UNCHANGED <<line, landed>>

GitMerge(j) ==
    /\ mpc[j] = "merge"
    /\ \/ Land(j) /\ Conclude(j, "done") /\ UNCHANGED <<merge, killed>>
       \* a conflict, or git refuses for edits in its way or a merge not concluded
       \/ /\ Stops(j) \/ (~Clean /\ UNCHANGED <<line, merge, landed>>)
          /\ GoOn(j, "abort")
          /\ UNCHANGED killed
       \* killed at the timeout: after the commit (a hook hangs), in the middle, or before
       \/ /\ HostMayFail
          /\ \/ Land(j) /\ UNCHANGED merge
             \/ Stops(j)
             \/ UNCHANGED <<line, merge, landed>>
          /\ GoOn(j, "abort")
          /\ killed' = killed \cup {j}
    /\ UNCHANGED <<chains, base, tip, head, edits, moves, cancelled, refused, switched>>

\* Mutant of Aborted: no `merge --abort`.
NotAborted == UNCHANGED merge

\* `merge --abort` ends whatever merge there is; its return code is not looked at.
Aborted == merge' = "none"

Abort(j) ==
    /\ mpc[j] = "abort"
    /\ \/ Aborted /\ UNCHANGED killed
       \/ HostMayFail /\ UNCHANGED merge /\ killed' = killed \cup {j}
    /\ Refuse(j)
    /\ UNCHANGED <<chains, base, tip, head, line, edits, moves, landed, cancelled, refused,
                   switched>>

\* git does not start: merge_job raises, the lock is released, the job stays merging.
Raise(j) ==
    /\ HostMayFail
    /\ mpc[j] \in {"status", "ancestor", "merge", "abort"}
    /\ Conclude(j, "merging")
    /\ killed' = killed \cup (IF mpc[j] = "abort" THEN {j} ELSE {})
    /\ UNCHANGED <<chains, base, tip, checkout, moves, landed, cancelled, refused, switched>>
-----------------------------------------------------------------------------
(* The operator: commands, and work in the live checkout.                  *)

Cancel(j) ==
    /\ status[j] = "running"
    /\ SetStatus(j, "cancelled")
    /\ cancelled' = cancelled \cup {j}
    /\ UNCHANGED <<chains, pc, mpc, base, tip, lock, checkout, moves, landed, refused, killed, raced,
                   switched>>

\* Mutant of Parked: a merge under way does not block the command.
ParkedOrMerging(j) == status[j] \in {"awaiting_review", "merging"}

Parked(j) == status[j] = "awaiting_review"

MergeCommand(j) ==
    /\ Parked(j)
    /\ Claim(j)
    /\ UNCHANGED <<chains, pc, base, tip, lock, checkout, moves, history>>

DiscardCommand(j) ==
    /\ Parked(j)
    /\ SetStatus(j, "done")
    /\ refused' = refused \cup {j}
    /\ UNCHANGED <<chains, pc, mpc, base, tip, lock, checkout, moves, landed, cancelled, killed,
                   raced, switched>>

Moves ==
    /\ moves < MaxMoves
    /\ moves' = moves + 1
    /\ UNCHANGED <<chains, jobState, landed, cancelled, refused, killed>>

Edit == Moves /\ ~edits /\ edits' = TRUE /\ UNCHANGED <<head, line, merge, raced, switched>>

\* A commit of the edits, of a merge's resolution, or of both.
OwnCommits ==
    /\ Moves
    /\ line' = [line EXCEPT ![head] = @ \cup {OwnCommit(moves')}]
    /\ edits' = FALSE
    /\ merge' = "none"
    /\ UNCHANGED <<head, raced, switched>>

\* start_exec_job: an edit job of the operator's takes the free project, until its review
\* is over (ExecJobs has its steps).
Rival ==
    /\ \/ ~Occupied /\ rival' = TRUE
       \/ rival /\ rival' = FALSE
    /\ UNCHANGED <<chain, turn, jobState, checkout, moves, history>>

\* Git carries edits along, but does not switch in the middle of a merge.
Switch ==
    /\ Moves
    /\ merge = "none"
    /\ head' \in Lines \ {head}
    /\ raced' = raced \cup {j \in Jobs : mpc[j] = "merge"}
    /\ switched' = TRUE
    /\ UNCHANGED <<line, edits, merge>>

\* A merge of the operator's own that stops for a conflict.
OwnMerge ==
    /\ Moves
    /\ Clean
    /\ merge' = "operator"
    /\ raced' = raced \cup {j \in Jobs : mpc[j] \in {"ancestor", "merge", "abort"}}
    /\ UNCHANGED <<head, line, edits, switched>>
-----------------------------------------------------------------------------
ChainStep(c) == NextTask(c) \/ StopChain(c) \/ TaskOver(c) \/ Announce(c)

DriverStep(j) ==
    \/ ReadBase(j) \/ AddWorktree(j) \/ EndRun(j) \/ Salvage(j) \/ Commit(j) \/ Resolve(j)
    \/ ParkReturn(j)

MergeStep(j) ==
    \/ TakeLock(j) \/ CheckStatus(j) \/ CheckBase(j) \/ GitMerge(j) \/ Abort(j) \/ Raise(j)

OperatorStep ==
    \/ \E c \in Chains : Begin(c)
    \/ \E j \in Jobs : Cancel(j) \/ MergeCommand(j) \/ DiscardCommand(j)
    \/ Rival \/ Edit \/ OwnCommits \/ Switch \/ OwnMerge

\* Nothing is under way.
Idle ==
    /\ \A c \in Chains : chain[c] \in {"idle", "over"}
    /\ \A j \in Jobs : mpc[j] = "none"
    /\ UNCHANGED vars

Next ==
    \/ \E c \in Chains : ChainStep(c)
    \/ \E j \in Jobs : DriverStep(j) \/ MergeStep(j)
    \/ OperatorStep
    \/ Idle

Spec == Init /\ [][Next]_vars

\* Every await returns: git after 120 s at the latest, the agent at EXEC_TIMEOUT, verify and
\* evaluator at their timeouts; the lock is handed on in the order of arrival.
Fairness ==
    /\ \A c \in Chains : WF_vars(ChainStep(c))
    /\ \A j \in Jobs : WF_vars(DriverStep(j)) /\ WF_vars(MergeStep(j)) /\ SF_vars(TakeLock(j))

FairSpec == Spec /\ Fairness
-----------------------------------------------------------------------------
TypeOK ==
    /\ chain \in [Chains -> {"idle", "checking", "driving", "over"}]
    /\ turn \in [Chains -> Nat]
    /\ status \in [Jobs -> Statuses]
    /\ pc \in [Jobs -> PcLabels]
    /\ mpc \in [Jobs -> MergeLabels]
    /\ base \in [Jobs -> SUBSET Labels]
    /\ tip \in [Jobs -> SUBSET Labels]
    /\ lock \subseteq Jobs
    /\ rival \in BOOLEAN
    /\ head \in Lines
    /\ line \in [Lines -> SUBSET Labels]
    /\ edits \in BOOLEAN
    /\ merge \in {"none", "bridge", "operator"}
    /\ moves \in 0..MaxMoves
    /\ {landed, cancelled, refused, killed, raced} \subseteq SUBSET Jobs
    /\ switched \in BOOLEAN

(* A chain starts a task only when the one before it is done for good, and never more than
   AUTO_MAX_JOBS of them: _run_auto_chain, with other chains, !merge and !discard acting on
   the same jobs in between. *)
ChainInOrder ==
    \A c \in Chains : \A n \in 1..Tasks[c] : status[<<c, n>>] # "none" =>
        /\ n <= AutoMaxJobs
        /\ n > 1 => status[<<c, n - 1>>] = "done"

(* The job after a landed one branches from a HEAD that has its change ("the HEAD a task
   branches from is the merged result of its predecessor", _run_auto_chain), unless the
   operator switched to another live branch. *)
HasBase(j) == pc[j] \in {"branching", "working", "salvage", "reply", "signals", "merging", "parked"}

BuildsOnPredecessor ==
    \A c \in Chains : \A n \in 2..Tasks[c] :
        HasBase(<<c, n>>) /\ <<c, n - 1>> \in landed /\ ~switched
        => tip[<<c, n - 1>>] \subseteq base[<<c, n>>]

(* What was reviewed is what merges (merge_job): a merge brings nothing into the live branch
   but the commits of base..bridge/<id> and its own, unless the operator switched HEAD
   between the ancestor check and git's merge. *)
ReviewedIsMerged ==
    [][\A j \in Jobs : j \notin landed /\ j \in landed' /\ j \notin raced
           => line'[head] \ line[head] \subseteq (tip[j] \ base[j]) \cup {MergeOf(j)}]_vars

(* The bridge does not end a merge of the operator's (merge_job refuses a tree that is not
   clean), except one that began between the status check and the bridge's own merge. *)
OwnMergeKept ==
    [][merge = "operator" /\ merge' # "operator"
           => OwnCommits \/ \E j \in raced : mpc[j] = "abort"]_vars

(* "No markers left in the live tree" (merge_job): once a merge attempt is over, the live
   checkout is not in the middle of it, unless git itself was killed. *)
NoMarkersLeft ==
    merge = "bridge" => \E j \in Jobs : mpc[j] = "abort" \/ j \in killed

(* A discarded change never gets into the live branch, nor is a landed one still offered
   for review, unless a git call of its merge was killed (a merge that has made its commit
   is then reported as a conflict). *)
LandedIsDone ==
    \A j \in landed : j \in refused \/ status[j] # "done" => j \in killed

(* Every chain ends: no job of it can keep it waiting, whatever fails. *)
ChainEnds == \A c \in Chains : chain[c] # "idle" ~> chain[c] = "over"

(* A chain stops on !cancel, wherever it comes in, if the task has changed anything. (A
   task without changes becomes DONE over CANCELLED, so the chain goes on there, which
   openspec/specs/exec-task-loop/spec.md:122 does not say.) *)
CancelStopsChain ==
    \A c \in Chains : \A n \in 2..Tasks[c] :
        <<c, n - 1>> \in cancelled /\ status[<<c, n>>] # "none"
        => Work(<<c, n - 1>>) \notin tip[<<c, n - 1>>]
=============================================================================
