# A TLA+ model of the AI–Discord bridge

The bridge connects two coding agents (bots A and B, the `claude` CLI) to a Discord server.
A whitelisted operator talks to a bot, and a bot may talk to the other one. A request that
changes files becomes an *execution job*: it runs on a branch `bridge/<id>` in a git worktree
of its own, and its change reaches the operator's checkout only through a review gate. This
directory holds a model of that system in TLA+, its model checking with TLC, and proofs
checked by TLAPS. Paths below are relative to the repository root.

## 1. The system

The bridge is one asyncio process: code between two `await`s is atomic, everything else
interleaves. Its state is in memory, except for a JSON mirror per job, the git repository, and
session and memory files. In the split deployment the agents run in a second process behind a
unix socket.

| component | state | operations | hard behaviour | what makes it correct |
|---|---|---|---|---|
| job registry (`bridge/jobs.py`) | `_registry` of jobs, mirror `discord-state/jobs/<id>.json` | create, `set_status` (memory and mirror, no await), cancel, recover, rescue, gc | restart between any two writes | one running job per project, a cancel is final, what is reviewable survives |
| job driver (`bridge/frontend.py`, `_drive_exec_job` and what it awaits) | local `committed`, `kind`; the job's status | run, classify, salvage, reply, commit, gate, merge, park, discard | !cancel, a timeout, or an exception at every await | nothing lands unapproved, finished work is parked or decided on, the driver always ends |
| worktrees (`bridge/worktree.py`) | branch and worktree per job, live checkout | create, commit, diff, merge, discard, GC | every git call may fail or run into its timeout; the operator edits the live checkout | a branch with work is not deleted, merge only what was reviewed |
| commands and reactions (`bridge/frontend.py`) | `pending_actions` | !cancel, !merge, !discard, emoji | race with the driver and with each other | one decision per job |
| agent process and locks (`bridge/runner.py`, `bridge/state.py`) | `cwd_locks`, process group | spawn, stream, kill, timeout | cancel before the process exists, kill of a group | no two writers in a project, a cancelled agent stops |
| startup (`bot.py`) | – | canaries, recover, rescue, GC, connect | a second restart in the middle | GC deletes nothing reviewable |
| auto chain (`_run_auto_chain`) | position in the task list | start next task | starts after a merge only | stops at the first task that is not merged |
| plan approval, approver (`frontend.py`, `approver_ipc.py`, `mcp_approver.py`) | `pending_actions`, one socket connection per request | ask, react, time out | answer against timeout | exactly one answer, a refusal by default |
| conversation (`frontend.on_message`, `runner.converse`, `sessions.py`, `trust.py`) | `bot_locks`, session ids, bot turn budget | reply, !reset, flush, discuss | stale session id, lock order | one call per bot, a reset stays |
| memory (`memory.py`) | turn buffer, summaries | append, flush, flush and reset | threshold read before the lock | no turn lost or summarised twice |
| executor (`executor.py`, `runner.py`) | one request per connection | exec, verify, watchdogs | lost connection | the process dies with its connection |

Interactions: a Discord message enters `on_message`, which creates a job and its driver task or
calls `converse`. Driver and conversation meet at `cwd_locks[project]`; driver and operator meet
at the job's status and at the future of the gate in `pending_actions`; driver and startup meet
at the mirror and the git branches.

`PROJECT.json` lists the components with their status and every hazard at its line.

## 2. Modules

| module | content |
|---|---|
| `ExecJobs` | the job core: registry, mirror, driver, gates, commands, lock, git per job, restart and recovery |
| `JobLifecycle` | what an operator is promised about a job's change, without any of the above |
| `AutoChain` | task lists in auto mode, and `merge_job` git call by git call against an operator who works in the live checkout |
| `Conversation` | chat, flushes, token flush, `!reset`, `!cd`, `!discuss` and jobs under the asyncio locks; sessions, summaries and notes |
| `SessionLog` | what the stored sessions promise the chats that share them, without locks, loading or saving |
| `Startup` | the executor's `main`: egress canary, settings canaries, what is retried and what ends the process |
| `ExecutorIPC` | extends `Startup`: calls over the socket between bridge and executor, watchdogs, process groups, crashes of either half |
| `Approvals` | the reaction gates: `mcp_approver.py`'s requests and the plan of bypass mode, two Discord clients, timeouts |
| `MC*` | instances for TLC; the `.cfg` files are named after them |
| `ExecJobsProofs`, `ExecJobsOutcomes` | theorems about `ExecJobs`: approval, cancel, locks; then what becomes of a change, and the refinement to `JobLifecycle` |
| `AutoChainProofs`, `ExecutorIPCProofs`, `ApprovalsProofs` | theorems about `AutoChain`, about `ExecutorIPC` with `Startup`, and about `Approvals` |
| `ConversationProofs` | theorems about `Conversation`, and the refinement to `SessionLog` |

The modules meet where the code does. A job of `ExecJobs` is seen by `AutoChain` as the chain and
the history see it (its merge step opened up), by `Conversation` as a holder of `cwd_locks` that
may use a session, and by `ExecutorIPC` as one `stream` call with a `verify` call.

### How `ExecJobs` corresponds to the code

*Granularity.* `pc[<<"driver", j>>]` is the await at which the driver of job `j` is suspended and
`pc[<<"command", j>>]` the one of the operator command on `j`. An action is the segment from one
await to the next, with the effect of the git or agent call that has just returned. So `Settle` is
`await upd` returning, the second look at the status, `set_status`, and the call that follows.

*State.* `status` is `jobs._registry` and `mirror` the JSON file, written together by `SetStatus`.
`recorded` says whether the file holds the worktree, branch and base (`set_worktree`); the rescue
needs them. `branch` abstracts `bridge/<id>` to what the code tells apart: absent, at its base,
commits without a net change (`netzero`), commits with one (`work`). `tree` is the worktree;
`merged` says whether the branch is in the live history. `lock` holds the coroutines in
`cwd_locks[project]`; a waiter is a disabled `Spawn` or `TakeMergeLock`. `gate` is the future of
the diff message: open, resolved, or `ignored` after an emoji that popped it without resolving it.
A gate may lapse over a decision that was already given (`GateMayLapse`): `wait_for` may raise although
the future was resolved in the same turn of the loop, and the job is then parked.
`phase`, `todo` and `orphans` are the progress of `main()`'s recovery. `approvals`, `cancelled`,
`rejected` and `unreported` are history variables: no guard reads them. `rejected` is a refusal the
bridge acted on: a ❌ that the driver took up, or an accepted `!discard`. `unreported` marks a change that is
in the live branch without the bridge knowing: git's merge was killed after its commit and
reported as a conflict (or raised), or a restart came before DONE was stored.

*Failures.* `DiscordMayFail`: an awaited Discord request raises; the exception runs the `finally`
clause (`Finally`), which decides from `committed` and the status. `HostMayFail`: a git or spawn
call of the bridge raises, fails without a report, or runs into its timeout. Independently of these, `git
commit` in a dirty worktree may be refused (a hook), `merge_job` may answer dirty, diverged or
conflict, and a run may end with a result, without one, or at `EXEC_TIMEOUT`. `Crash` stops the
process, and the agents with it, at any point, also during the recovery from an earlier crash.

*Abstractions.* Job ids are never reused (they are random). The verify command and the evaluator
are a choice between pass and anything else. `merge_job` is one step. `Salvage` and `Commit` join
commit and the checks behind it. `Evaluate` and `Advise` have no state of the other bot. Text,
formatting, the status updater and attachments have no state that a property depends on.

`JobLifecycle` has one variable per job for its fate: fresh, working, reviewable, landed, closed.
A change lands from review and only when approved, a reviewable change is closed only with a
refusal, and landed and closed are final. `ExecJobs` maps a job's fate from the *durable* state
(`Fate`), so the refinement also says that a restart is no way around the rules.

### How `AutoChain` corresponds

`chain[c]` is the coroutine of `_run_auto_chain`, `turn[c]` its task index; `pc[j]` is the driver of the
task's job, coarser than in `ExecJobs`; `mpc[j]` is where `merge_job` is, whether the driver or
`!merge` called it. A commit is the set of its ancestors' labels and its own, so `merge-base
--is-ancestor` is set inclusion and `HEAD` is `line[head]`. The operator edits, commits, switches
branches, begins and concludes merges in the live checkout, `MaxMoves` times. `rival` is any other
job on the project. `landed`, `cancelled`, `refused`, `killed`, `raced` and `switched` are history.
What the model shows of the code beside its properties:

- A task without changes becomes DONE even over CANCELLED, so the chain goes on, although
  `openspec/specs/exec-task-loop/spec.md:122` says that it stops; `CancelStopsChain` holds only
  for tasks that changed something.
- `git merge` killed after it has made its commit is reported as a conflict: the job is offered
  for review although its change has landed (`LandedIsDone` names it; `unreported` in `ExecJobs`, whose
  `Merge` has the same outcome in one step).
- `merge --abort` may end a merge of the operator's own that began between the status check and
  the bridge's merge; the ancestor check may be out of date by the time of the merge (`raced`).
- TIMEOUT behaves here as FAILED. A reset or rebase of the live branch is not modelled.

### How `Conversation` corresponds

A coroutine is a record in `call`: the await it is at, the agent call it makes (`task`), and its
locals. `queue[l]` is an `asyncio.Lock` as its holder and its waiters in order of arrival: only the
holder releases it (`Rest`), and whoever comes goes to its end (`Requeue`). With `MAX_BOT_TURNS` zero a
debate goes straight to its conclusion, as the code's `range` does. A session
is the set of calls whose turns it holds, so a lost turn is a missing element; summaries likewise.
`lines` is everything said in the channel, each line as the cwd it is tagged with; a line is its place
in it. What a flush reads (`Transcript`) is what the code reads: of the last `LogLength` lines (the deque,
300) the last `ShownLines` of the cwd (80). Notes are the set of the lines they are made of, and a flush
drafts them from the transcript and the notes as they are when it starts; `overtaken` (history) names
the flushes whose project's notes were written since. Context sizes are the four the thresholds tell
apart. A job in a repository goes on to its gate after `maybe_token_flush`, where it may ask the other bot
for a verdict (`GoOn`). One channel. What the model shows:

- Of two flushes of a project that overlap, the later one may lack lines that the earlier one has
  put into the notes, as they have left the transcript before it read; it overwrites them, and no
  flush can bring them back. `NotesKept` says that this is the only way a line is lost.

- `maybe_token_flush` reads the context size before it waits for the bot (`memory.py:308-328`): by then
  another caller may have reset the session, and a fresh one can be cleared by the hard cap. Turns
  lost that way are counted as dropped on purpose.
- A `!reset` is undone by a call under way, which stores its session afterwards (`undone`), and leaves
  the size and the checkpoint mark of the session behind.
- A job in a directory without git resumes and stores the session without the bot's lock
  (`jobbed`): the turns of a chat at the same time may be lost.
- A checkpoint is written for the channel's cwd at that time, which `!cd` may have changed.
- `handover/latest.md` is shared by the bots, the system-prompt file is keyed by channel and bot
  and written before the lock, and the message counter loses what comes in during a flush. These
  are text, not state of the model.

### How `ExecutorIPC` and `Startup` correspond

`Startup` is one probe per step, so the surroundings may change between probes (`MaxChanges`).
`around` is what a probe would see; `found` what this round has seen; `Goto` loses both, as the code
does. `proxy` and `skip` are the two switches that turn canaries off: without `EGRESS_PROXY_URL` `canary_gate`
returns at once (`FirstPhase`), and with `BRIDGE_SKIP_CANARY` neither settings canary runs, while the test
of the base settings always does. In `ExecutorIPC` a call has a coroutine in the bridge (`client`, `result`), a connection (`open`,
`wire`, `served`), a handler and a watchdog in the executor, and a process: its leader and whether
children of it live on and obey SIGTERM. A job's run is a `stream`, a conversation's a `plain` call.
What the model shows:

- A verify whose client goes before its process exists is `blind`: it runs to `VERIFY_TIMEOUT`. The
  comments at `runner.py:468` and `495-497` say it is killed.
- `kill_process_group` leaves children behind when their leader has exited first, or when a child
  ignores SIGTERM; `NoOrphan` excludes exactly these.
- Two agents of a project may be alive while one of them is being killed: the bridge releases the
  lock when it closes the connection, the executor kills afterwards (`OneAgent`).
- With `BRIDGE_SKIP_CANARY` or without a proxy the executor serves the verify and exec-Bash tier all the
  same, although the docstring of `m4_live` (`runner.py:323-330`) takes both postures for proven there.
  `Sound` asks for each posture only where its canary is on.
- The canary of the derived settings lets the executor serve when `claude` cannot run
  (`executor.py:57-69`), and `canary_passed` takes a `claude` that did not try for rules that do not fire.

### How `Approvals` corresponds

A gate is a coroutine (`gate`), a future, and an entry of `pending_actions`; for a request there is
also the approver process at the other end of a socket (`asker`, `answer`). Every reaction is told to
both clients, each at its own pace (`told`), and both run `on_raw_reaction_add`. `wait` and `age` count
ticks of the bridge's window and the approver's timeout. A compound command is a sequence of
segments that are listed, unlisted, or listed with something smuggled in. What the model shows:

- Reactions between the posting and the registration of the future are lost (`early`).
- A stray emoji takes the gate out of `pending_actions`; a later check mark is not heard, and the
  gate ends at its timeout, as a no.
- `wait_for` may drop a decision of the moment it times out, again as a no.
- The margin of `approver_socket_timeout` has to cover the time it takes to post the gate
  (`MaxPosting < Margin`, an assumption about Discord). An execution job's run ends at
  `EXEC_TIMEOUT` whatever gate is open, hence `Kill`.

## 3. Runs

| run | instance | properties |
|---|---|---|
| `ExecJobs_shared` | two jobs on one git project, both tiers, evaluator on, one restart, Discord and git may fail; jobs are symmetric | `TypeOK`, `NoUnapprovedMerge`, `CancelIsFinal`, `ProjectExclusive`, `OneRunning`, `RejectedNeverLands`, `ImplementsLifecycle`, `ReviewableKept` |
| `ExecJobs_live` | two jobs on one git project, edit tier, one restart, no failing calls | `EveryJobSettles`, `CancelStopsAgent` |
| `ExecJobs_restarts` | one job on a git project, one on a plain directory, all tiers, two restarts, Discord may fail | `ReviewableHasBranch`, `EveryJobSettles` |
| `ExecJobs_cancel`, `_occupant`, `_reply`, `_rescue` | as small as the disagreement needs | one statement of the repository each, which the code does not meet |
| `AutoChain_merge` | one chain of three tasks, `AUTO_MAX_JOBS` two, operator moves, everything may fail | `TypeOK`, `ChainInOrder`, `BuildsOnPredecessor`, `NoMarkersLeft`, `LandedIsDone`, `CancelStopsChain`, `ReviewedIsMerged`, `OwnMergeKept`, `ChainEnds` |
| `Conversation_calls` | the root and a repository, three messages, a log of three lines of which a flush sees two, debates of two turns | `TypeOK`, `DroppedStaysDropped`, `NoStandstill`, `TurnsKept`, `NotesKept`, `StepsRunOut`, `ImplementsSessionLog` |
| `Conversation_stall` | as small as the disagreement needs | `NotStalledByJob`, which the code does not meet |
| `ExecutorIPC` | two calls of any kind in one project, one crash of either half, starts in sound or once-faulty surroundings with one change, with and without a proxy and its settings canaries | `TypeOK`, `GoneClientKilled`, `NoOrphan`, `OneAgent`, `NoFakeGreen`, `ServesOnlySound`, `RefusesOnlyUnsound` |
| `Approvals_gates` | one request and one plan, one at a time, two clients, two reactions each, a window of 2 ticks, one restart | `TypeOK`, `NothingWithoutConsent`, `HumanIsHeard`, `NoLateAnswer`, `EveryGateEnds` |

*Bounds.* Two jobs are the smallest instance with every interaction the code has between jobs:
the occupancy of a project and the lock are the only state they share, and both are pairwise. One
restart reaches every crash point; two reach a crash in the middle of a recovery. The state
spaces are exhausted: 2.1 million, 162 thousand and 110 thousand distinct states. The first one is counted under a view
(`LiveState`) that forgets a job's tier once nothing reads it: no later step does, and `NoUnapprovedMerge`
only of a job with both automatic signals, whose tier is kept (3.8 million states without the view). Deadlock is checked;
`Idle` is the bridge waiting for its operator, so a deadlock would be a coroutine that waits for ever.
The other runs are exhausted too: `AutoChain_merge` 265 thousand states, `Conversation_calls` 2.3
million, `ExecutorIPC` 6.0 million, `Approvals_gates` 479 thousand. Three tasks against a cap of two
let a chain end at its cap as well as at a task that is not done; each race of a merge needs one
or two moves of the operator between two git calls. Three messages are two calls that meet at a
lock and a third, or a command, that changes what they have read; a debate of two turns uses both
bots. The code tells three things about a directory: whether it is the root, where debates and flushes
run and which has no notes, and whether it is a repository. The root is the plain directory of the
instance, so that jobs that use a session, chats, flushes and debates meet in one lock; the repository has
notes, worktrees and verdicts. Three lines, two of them shown, are fewer than what three messages and their answers
log, so lines leave the transcript both by their number and by their age, and two overlapping flushes
do lose one: without its exclusion `NotesKept` is violated in this instance. Two calls are enough for the executor, whose only state shared by calls is the project's
lock; a single fault with one change covers every pair of a wrong start and a change on the way.
For the gates,
requests and plans share nothing but the clients, so `MaxOpen` is one, and the second reaction is the
one that races the first. `ExecutorIPC` and `Approvals` do not check deadlock: calls and gates that are
over make no further step, and the instance may simply be used up.

*Fairness.* Weak fairness for each driver, command and the startup: the event loop resumes a
coroutine whose await has returned, and every await returns. Git calls have a timeout of 120 s
(`worktree._git`), runs `EXEC_TIMEOUT`, gates `PLAN_REACTION_TIMEOUT`. Strong fairness for taking
a lock: `asyncio.Lock` is first come, first served, so a waiter is not overtaken for ever. The
operator, the agent and restarts are under no obligation.
`AutoChain` is fair to the chain, each driver and each merge for the same reasons. `Approvals` assumes
that coroutines go on, Discord and claude answer or fail in the end, that clocks run and that the
approver reads its socket; nobody is assumed to react. `Conversation` and `ExecutorIPC` state no
fairness: `NoStandstill` and `GoneClientKilled` say as invariants that whoever waits is waited for
by somebody who can move; `StepsRunOut` that a call has boundedly many steps; and locks are first
come, first served.

*What the properties say.* The comments in `ExecJobs.tla` state each one. `EveryJobSettles` has two
exclusions that are real behaviours of the code: `merge_job` that raises leaves the job merging
until the next restart (so `HostMayFail` is FALSE there), and a failure of the chain's progress line
leaves a running job that nobody drives (`Driven` names it). `RejectedNeverLands` excludes a change that
had landed `unreported` before it was refused: git's merge killed after its commit, or a restart
between the merge and the mirror's update; the bridge then offers it for review again, and a `!discard`
reports as dropped what is in the live branch. A ❌ that `wait_for` drops at the timeout is not a refusal:
the job is parked and a later `!merge` may land it, which the operator sees. `ServesOnlySound` demands containment of
an executor that has a proxy, and deny rules in force where `BRIDGE_SKIP_CANARY` is not set; read-only base
settings in any case. `NotesKept` lets a line go only where flushes overlap and it has left the transcript.
No property covers a project that stays occupied for want of a driver or after a merge that raised, nor
a task without changes that is cancelled: there the code does not do what one would state
(`PROJECT.json`, hazards without properties).

## 4. Disagreements found

Each is the violation run of the same name; `PROJECT.json` has the quotes and the traces.

1. *cancel*: after the run has ended, most ends of the driver leave branch and worktree of a
   cancelled job in place.
2. *occupant*: TIMEOUT or FAILED is stored before the salvage parks the job, and frees the
   project for a second one.
3. *reply*: an exception between the end of the run and the commit deletes commits of the agent.
4. *rescue*: a restart during a salvage leaves a finished mirror, and the startup GC deletes the branch.
5. *stall* (`Conversation`): a chat waits for a job of the same project, even one with a worktree of its
   own, since both take `cwd_locks[project]`, although "a running job SHALL NOT block conversation-layer calls".

## 5. Proofs

Every theorem is proved for all values of the constants, from the named assumption of its module
alone (types of the constants, and `MaxPosting < Margin` for `Approvals`), with all failures allowed.

| module | theorem | states |
|---|---|---|
| `ExecJobsProofs` | `TypeCorrect`, `MergesApproved`, `CancelFinal`, `LockExclusive`, `RunningAlone` | `[]TypeOK`, `[]NoUnapprovedMerge`, `[]CancelIsFinal`, `[]ProjectExclusive`, `[]OneRunning` |
| `ExecJobsOutcomes` | `RejectedStaysOut`, `ReviewableKeepsBranch`, `ReviewIsSafe`, `Implements` | `[]RejectedNeverLands`, `[]ReviewableHasBranch`, `ReviewableKept`, `ImplementsLifecycle` |
| `AutoChainProofs` | `TypeCorrect`, `TasksInOrder`, `EachBuildsOnTheLast`, `MarkersGone`, `LandedStaysDone`, `CancelEndsChain`, `MergesWhatWasReviewed`, `OperatorsMergeKept` | the seven safety properties of its run and `[]TypeOK` |
| `ApprovalsProofs` | `TypeCorrect`, `ConsentBeforeRun`, `MarginSuffices`, `AnswersOnce` | `[]TypeOK`, `[]NothingWithoutConsent`, `[]HumanIsHeard`, `[]NoLateAnswer` |
| `ExecutorIPCProofs` | `TypeCorrect`, `GoneKilled`, `NothingOrphaned`, `AgentAlone`, `GreenIsGreen`, `ServesSound`, `RefusesUnsound` | the six properties of its run and `[]TypeOK` |
| `ConversationProofs` | `TypeCorrect`, `DroppedStay`, `NobodyStuck`, `TurnsAreKept`, `NotesAreKept`, `StepsCount`, `Serialised` | the six properties of its run and `[]TypeOK` |

*`ExecJobs`.* None of the properties is inductive. The invariant `Inv` is `TypeOK`, a conjunction `JobInv`
for each job, and `OneRunning`. `JobInv` ties the status to the program counters: `FreshInv` (an id not
handed out has no state), `StatusInv` (a driver before its decision has a running or cancelled job; a
coroutine in the merge has a merging one, and never both coroutines; a merged job is not running),
`StartupInv` (recovery and coroutines exclude each other), `ApprovalInv` (which signals a coroutine
has on its way to a merge, and an open confirmation is the operator's), `CancelInv` and `LockInv`
(who is in the lock is its only holder). All but `OneRunning` speak of one job. So each action has one
lemma, `<Action>Keeps`, that shows `StepOf(j)`: the other jobs' slices of the state are
unchanged, the own slice satisfies its invariant again, and the job becomes running only on
a free project. `StepOfKeeps` turns that into `Inv'`; `Crash` and `FinishStartup`, which touch
every job, have lemmas of their own.

*What becomes of a change.* `ExecJobsOutcomes` adds a second invariant, `Outcomes`: `MirrorInv` (the mirror
follows the status, and after a restart the status follows the mirror), `SignalInv` (no signals before
the start, a gate's answer only at the gate), `RejectInv` (a refused job is closed, in memory and in
the mirror; so is a landed one as soon as the bridge has taken up git's answer; one that is both had landed
`unreported`) and `BranchInv` (where a driver has its
branch, and that a branch is dropped only by a job that is over). Each action has a lemma
`<Action>Outcome` that shows this invariant again and `FateMove(j)`: what the step does to the job's
fate. `JobStepRefines` finds the step of `JobLifecycle` for each kind of move; the end of the startup and a
restart are `Abandon` (`ClosingRefines`). An operator may refuse what had landed unreported, which `JobLifecycle` has as a
refusal of a landed change (`Refuse`): the fate stays. For `ReviewIsSafe`, `GitMoves` lists the actions that move a
branch and `GitMoveSpares` shows that none of them concerns a reviewable job.

*`AutoChain`.* `Inv` adds to the two properties that are inductive given the rest (`NoMarkersLeft`,
`BuildsOnPredecessor`) what a job and a chain are at every moment: the status against the driver's
and the merge's program counters (`StatusInv`), what happened to the job against its status
(`HistoryInv`: landed or refused means done; cancelled means over at the driver's next decision), a
job's own commits on its branch before they are anywhere else (`WorkInv`), what the checks of
`merge_job` have established unless the operator got in between (`MergeInv`), and the tasks of a
chain, done and finished before its turn and not begun after it (`ChainInv`). A step of a job is
shown to be `StepOf(j)`: it begins no job and undoes none that is done for good (`JobMove`), and what
a later task builds on stays (`BuildMove`). `StepOfKeeps` turns that into the order of the chains.

*`Approvals`.* The invariant adds to the properties that a client has been told no more than was
clicked (`CountsInv`), that a future is confirmed only with a consent among the reactions
(`ConsentInv`), and how the two clocks are related at each stage of a gate (`ClockInv`): the approver
is at most `MaxPosting` ahead of the wait, which is where the assumption comes in.

*`ExecutorIPC`.* The invariant says what a call that has not begun has not done (`FreshInv`), who holds the
lock (`LockInv`), which handler and watchdog a live process has (`ProcessInv`), which messages can be
on the wire for which process (`WireInv`, `LengthInv`), and what the probes seen so far say about the
surroundings unless those changed (`FoundInv`), as far as there is a
proxy to probe.

*`Conversation`.* The invariant says, of the locks (`QueueInv`): nobody is twice in a queue, a call is in the
queues of just the locks it uses or wants (`QueuedFor`), and heads those it has (`Held`). Of each
call (`CallInv`): what it may be doing where it is (`PhaseInv`); that a loaded session is the stored one
and has nothing that was dropped, unless a job or a !reset interferes (`LoadedInv`); that a call
without an answer is in no session (`UnansweredInv`); and that a flush's draft has the notes as they are,
but for those written since it read (`overtaken`), and that what it lacks of them has left the transcript
(`DraftInv`). `NotesKept` needs one thing more, which is what makes it true of the code: the flushes of a
directory queue for the root's lock in the order in which they have read, so that what an earlier one
has and a later one has not is out of the transcript (`DraftOrder`), and what has left it never comes
back (`NewLines`), since each flush reads and queues in one step. Every action is first shown to
be a `Move(k)`: the queues stay in order (`MoveKeepsQueues`, from the lemmas `TailOnce` and `AppendOnce` on
sequences) and the record of `k` changes to what it may be next. What a move keeps is then proved
once for each way it treats the memory: leaving it alone, storing a session (`SaveKeepsInv`), dropping
one (`DropKeepsInv`), writing notes (`FlushedKeeps`). `NobodyStuck` follows the lock order: whoever waits for
the debate waits for a call that is past it, that one at most for a bot, and that one at most for a
directory, whose holder is at its agent. `Serialised` needs `LoadedInv` at its strongest: what is
stored after the agent call is what is stored now and one answer more. `SessionLog` gives up the
sessions that `jobbed` and `undone` name, where the code does not serialise (see above).

Only model-checked: all liveness (`EveryJobSettles`, `CancelStopsAgent`, `ChainEnds`,
`EveryGateEnds`), which the prover does not reach. For `Conversation` the two safety facts from which
termination follows are proved instead, `NobodyStuck` and `StepsCount`.

## 6. Plan

Left, in this order: `AutoChain` as an implementation of `JobLifecycle`, which needs a history of the
merges claimed; the bot-to-bot turn budget of
`frontend.on_message` (`trust.py`); the pure functions (`parse_verdict`, `split_task_list`, the stream
results) over bounded inputs.

## 7. Not modelled

Configuration (`bridge/config.py` reads the environment once; only the values the models name as
constants matter), logging, message formatting, attachments, the stream parser, deployment
files, proxy and scripts: they keep no state that the properties depend on. Mirrors can be read,
and their writes are atomic and succeed (the code skips an unreadable mirror and only logs a
failed write). Two bridge processes at once are not a
deployment the repository describes.
