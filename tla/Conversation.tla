----------------------------- MODULE Conversation -----------------------------
(***************************************************************************)
(* The conversation layer: chat replies, !discuss, memory flushes and the  *)
(* two-stage token flush, each a coroutine that runs agent calls under     *)
(* asyncio locks: one per bot, one per working directory, one for debates  *)
(* (bridge/state.py).  An execution job is here what these locks and the   *)
(* sessions see of it; ExecJobs has its steps.                             *)
(*                                                                         *)
(* A session is the set of calls whose turns it holds: `claude --resume`   *)
(* makes a new session of the old one and the new turn.  Project notes are *)
(* the set of the log's lines they are made of.  One channel.              *)
(***************************************************************************)
EXTENDS Naturals, Sequences, FiniteSets

CONSTANTS
    Dirs,           \* working directories
    Root,           \* DEFAULT_CWD
    GitDirs,        \* those with a git repository: a job gets a worktree
    MaxMessages,    \* bound: messages, each one starting a coroutine or a command
    MaxBotTurns,    \* MAX_BOT_TURNS: turns of a debate
    LogLength,      \* lines the channel's log keeps
    ShownLines      \* lines of a cwd that a flush reads of them

ASSUME ConversationAssumption ==
    /\ Root \in Dirs
    /\ GitDirs \subseteq Dirs
    /\ {MaxMessages, MaxBotTurns, LogLength, ShownLines} \subseteq Nat

Bots     == {"A", "B"}
Sessions == Bots \X Dirs
Calls    == 1..MaxMessages

BotLock(b) == <<"bot", b>>
DirLock(d) == <<"dir", d>>
Debate     == <<"discuss">>
BotLocks   == {BotLock(b) : b \in Bots}
DirLocks   == {DirLock(d) : d \in Dirs}
Locks      == BotLocks \cup DirLocks \cup {Debate}

\* Context sizes: below the thresholds, at the checkpoint, the reset, the hard cap.
Low == 0
FlushThreshold == 1
ResetThreshold == 2
HardThreshold == 3
Sizes == Low..HardThreshold

PcLabels == {"new", "discuss", "bot", "dir", "agent", "sending", "over"}
Tasks == {"none", "reply", "job", "verdict", "handover", "hard", "flush", "checkpoint", "turn",
          "conclude"}

VARIABLES
    call,         \* the coroutines: where each is, and its local variables
    queue,        \* each asyncio.Lock: its holder, then its waiters in order of arrival
    session,      \* the stored session of each bot in each cwd
    ctx,          \* state.session_ctx_tokens
    checkpointed, \* state.token_checkpointed
    channelCwd,   \* the channel's cwd
    lines,        \* the channel's messages, each by the cwd it is tagged with
    notes,        \* project notes
    commands,     \* messages so far that started no coroutine
    dropped,      \* history: turns dropped on purpose: !reset, hard cap, or summarised
    undone,       \* history: sessions !reset while a call of theirs was under way
    jobbed,       \* history: sessions that a job has used
    overtaken     \* history: flushes whose project's notes were written since they read them

memory  == <<session, ctx, checkpointed, dropped>>
written == <<notes, overtaken>>
vars == <<call, queue, session, ctx, checkpointed, channelCwd, lines, notes, commands, dropped,
          undone, jobbed, overtaken>>

\* pc: where it is.  task: the agent call it waits for, runs or has just ended.  sid: the
\* session loaded for it.  seen: the context size read.  about, draft: the cwd a flush is
\* for, and the notes and transcript in its prompt.  round: turns of the debate so far.
Fresh == [pc |-> "new", task |-> "none", bot |-> "A", dir |-> Root, job |-> FALSE, sid |-> {},
          seen |-> Low, about |-> Root, draft |-> {}, round |-> 0]
Over  == [Fresh EXCEPT !.pc = "over"]

Locals == [pc : PcLabels, task : Tasks, bot : Bots, dir : Dirs, job : BOOLEAN,
           sid : SUBSET Calls, seen : Sizes, about : Dirs, draft : SUBSET Nat,
           round : 0..MaxBotTurns]

Init ==
    /\ call = [k \in Calls |-> Fresh]
    /\ queue = [l \in Locks |-> <<>>]
    /\ session = [s \in Sessions |-> {}]
    /\ ctx = [s \in Sessions |-> Low]
    /\ checkpointed = [s \in Sessions |-> FALSE]
    /\ channelCwd \in Dirs
    /\ lines = <<>>
    /\ notes = [d \in Dirs |-> {}]
    /\ commands = 0
    /\ dropped = [s \in Sessions |-> {}]
    /\ undone = {}
    /\ jobbed = {}
    /\ overtaken = {}
-----------------------------------------------------------------------------
(* The log.                                                                *)

\* buffer_append, record_bot_reply.
Say(d) == lines' = Append(lines, d)

\* format_buffer_transcript, when `said` is the log: of the lines that are still in the deque
\* the newest of the cwd.
Transcript(said, d) ==
    {n \in 1..Len(said) :
        /\ n > Len(said) - LogLength
        /\ said[n] = d
        /\ Cardinality({m \in n + 1..Len(said) : said[m] = d}) < ShownLines}
-----------------------------------------------------------------------------
(* Locks.                                                                  *)

\* k holds l or waits for it.
Queues(k, l) == \E i \in 1..Len(queue[l]) : queue[l][i] = k

\* Mutant of Granted: a waiter runs when no agent works there, whoever came before it.
GrantedAny(k, l) == Queues(k, l) /\ ~\E j \in Calls \ {k} : Queues(j, l) /\ call[j].pc = "agent"

\* asyncio.Lock hands itself on in the order of arrival; nobody overtakes.
Granted(k, l) == queue[l] # <<>> /\ Head(queue[l]) = k

\* k lets go of the locks `out`, as far as it holds them.
Rest(k, l, out) == IF l \in out /\ Granted(k, l) THEN Tail(queue[l]) ELSE queue[l]

\* It does, and queues for the locks `in`.
Requeue(k, out, in) ==
    queue' = [l \in Locks |-> IF l \in in THEN Append(Rest(k, l, out), k) ELSE Rest(k, l, out)]

\* The locks around one agent call: all but the debate's.
CallLocks == DirLocks \cup BotLocks
-----------------------------------------------------------------------------
(* The next agent call of a coroutine with the local variables r.          *)

Key(r) == <<r.bot, r.dir>>

\* Whose agent runs: flushes and conclusions are Bot-B's, a debate's turns alternate, a
\* verdict is the other bot's.
Worker(r, t) ==
    CASE t = "turn"    -> IF r.round % 2 = 0 THEN "A" ELSE "B"
      [] t = "verdict" -> IF r.bot = "A" THEN "B" ELSE "A"
      [] OTHER         -> r.bot

\* Where it runs.
RunsIn(r, t) == IF t \in {"flush", "checkpoint", "conclude", "turn"} THEN Root ELSE r.dir

\* use_session; a job has one only where it runs in the project itself.
WithSession(r, t) == t \in {"reply", "handover"} \/ (t = "job" /\ r.dir \notin GitDirs)

Becomes(k, r, l, t) == call' = [call EXCEPT ![k] = [r EXCEPT !.pc = l, !.task = t]]

\* `async with state.bot_locks[...]`.
ToBot(k, r, t, out) == Becomes(k, r, "bot", t) /\ Requeue(k, out, {BotLock(Worker(r, t))})

\* _call_claude, run_streaming_exec: the session id is loaded, then `async with cwd_locks`.
ToDir(k, r, t, out) ==
    /\ Becomes(k, [r EXCEPT !.sid = IF WithSession(r, t) THEN session[Key(r)] ELSE {}], "dir", t)
    /\ Requeue(k, out, {DirLock(RunsIn(r, t))})

\* Mutant of Leave: a failure under the bot's lock does not release it.
LeaveLocked(k) == call' = [call EXCEPT ![k] = Over] /\ Requeue(k, Locks \ BotLocks, {})

\* The coroutine ends.
Leave(k) == call' = [call EXCEPT ![k] = Over] /\ Requeue(k, Locks, {})

\* After maybe_token_flush a job in a repository goes on to its gate, where it may ask the
\* other bot for a verdict.
GoOn(k, r) ==
    \/ Leave(k)
    \/ r.job /\ r.dir \in GitDirs /\ ToBot(k, [r EXCEPT !.sid = {}], "verdict", CallLocks)

\* do_flush up to its agent call, with the log as it is then: a transcript that is too short
\* is skipped.
ToFlush(k, r, t, d) ==
    LET said == Transcript(lines', d) IN
    \/ said # {} /\ ToDir(k, [r EXCEPT !.about = d, !.draft = said \cup notes[d]], t, {})
    \/ GoOn(k, r)
-----------------------------------------------------------------------------
(* What starts a coroutine.  Calls are numbered in the order they start.   *)

Messages == Cardinality({k \in Calls : call[k].pc # "new"}) + commands

Starts(k) ==
    /\ Messages < MaxMessages
    /\ \A j \in Calls : (call[j].pc = "new") = (j >= k)

\* on_message logs every message first.  Then the call waits for its bot.
Ask(k) ==
    /\ Starts(k)
    /\ Say(channelCwd)
    /\ \E b \in Bots : ToBot(k, [Fresh EXCEPT !.bot = b, !.dir = channelCwd], "reply", {})
    /\ UNCHANGED <<memory, channelCwd, written, commands, undone, jobbed>>

\* start_exec_job: one job at a time in a project, without the bot's lock.
StartJob(k) ==
    /\ Starts(k)
    /\ Say(channelCwd)
    /\ ~\E j \in Calls : call[j].job /\ call[j].dir = channelCwd
    /\ \E b \in Bots : LET r == [Fresh EXCEPT !.bot = b, !.dir = channelCwd, !.job = TRUE] IN
          /\ ToDir(k, r, "job", {})
          /\ jobbed' = jobbed \cup (IF WithSession(r, "job") THEN {Key(r)} ELSE {})
    /\ UNCHANGED <<memory, channelCwd, written, commands, undone>>

\* !flush, which answers before it looks, or AUTO_FLUSH_THRESHOLD messages.
Flush(k) ==
    /\ Starts(k)
    /\ Say(channelCwd)
    /\ Becomes(k, Fresh, "sending", "flush")
    /\ UNCHANGED <<queue, memory, channelCwd, written, commands, undone, jobbed>>

Discuss(k) ==
    /\ Starts(k)
    /\ Say(channelCwd)
    /\ Becomes(k, Fresh, "discuss", "turn")
    /\ Requeue(k, {}, {Debate})
    /\ UNCHANGED <<memory, channelCwd, written, commands, undone, jobbed>>

Command == Messages < MaxMessages /\ commands' = commands + 1 /\ Say(channelCwd)

\* A message that asks nobody, or one of Bot-B's, which Bot-A reads.
Chat ==
    /\ Command
    /\ UNCHANGED <<call, queue, memory, channelCwd, written, undone, jobbed>>

\* !cd: what was said in the project left behind is flushed in the background.
Cd(k) ==
    /\ Starts(k)
    /\ channelCwd' \in Dirs \ {channelCwd}
    /\ IF channelCwd # Root
         THEN Say(channelCwd) /\ ToFlush(k, Fresh, "flush", channelCwd) /\ UNCHANGED commands
         ELSE Command /\ UNCHANGED <<call, queue>>
    /\ UNCHANGED <<memory, written, undone, jobbed>>

\* A call whose agent runs, or is about to, with the session loaded.
UnderWay(s) == \E k \in Calls : Key(call[k]) = s /\ call[k].sid # {}

\* !reset: the stored id goes; nothing else does.
Reset ==
    /\ Command
    /\ \E b \in Bots : LET s == <<b, channelCwd>> IN
          /\ session' = [session EXCEPT ![s] = {}]
          /\ dropped' = [dropped EXCEPT ![s] = @ \cup session[s]]
          /\ undone' = undone \cup (IF UnderWay(s) THEN {s} ELSE {})
    /\ UNCHANGED <<call, queue, ctx, checkpointed, channelCwd, written, jobbed>>
-----------------------------------------------------------------------------
(* Taking the locks.                                                       *)

\* Mutant of MoreTurns.
MoreTurnsOffByOne(r) == r.round <= MaxBotTurns

MoreTurns(r) == r.round < MaxBotTurns

\* run_discuss reads the cwd once it is its turn.
EnterDiscuss(k) ==
    LET r == [call[k] EXCEPT !.dir = channelCwd] IN
    /\ call[k].pc = "discuss"
    /\ Granted(k, Debate)
    /\ \/ MoreTurns(r) /\ ToBot(k, r, "turn", {})
       \/ ~MoreTurns(r) /\ (ToDir(k, r, "conclude", {}) \/ Leave(k))
    /\ UNCHANGED <<memory, channelCwd, lines, written, commands, undone, jobbed>>

\* Mutant of GiveUp: the summary is asked for again until there is one.
SummariseAgain(k) == ToBot(k, [call[k] EXCEPT !.sid = {}], "handover", CallLocks)

\* A summary failed: the session is dropped without one at the hard cap, else kept.
GiveUp(k) ==
    IF call[k].seen = HardThreshold
      THEN ToBot(k, [call[k] EXCEPT !.sid = {}], "hard", CallLocks)
      ELSE GoOn(k, call[k])

Drop(s, turns) ==
    /\ session' = [session EXCEPT ![s] = {}]
    /\ ctx' = [ctx EXCEPT ![s] = Low]
    /\ checkpointed' = [checkpointed EXCEPT ![s] = FALSE]
    /\ dropped' = [dropped EXCEPT ![s] = @ \cup turns]

\* Under the bot's lock.  A reply or a turn shows the typing indicator first, a Discord
\* request; flush_session_then_reset looks for a session; the hard reset is done.
EnterBot(k) ==
    LET r == call[k] IN
    /\ r.pc = "bot"
    /\ Granted(k, BotLock(Worker(r, r.task)))
    /\ \/ /\ r.task \in {"reply", "turn"}
          /\ ToDir(k, r, r.task, {}) \/ Leave(k)
          /\ UNCHANGED memory
       \/ r.task = "verdict" /\ ToDir(k, r, "verdict", {}) /\ UNCHANGED memory
       \/ /\ r.task = "handover"
          /\ IF session[Key(r)] # {} THEN ToDir(k, r, "handover", {}) ELSE GiveUp(k)
          /\ UNCHANGED memory
       \/ r.task = "hard" /\ Drop(Key(r), session[Key(r)]) /\ GoOn(k, r)
    /\ UNCHANGED <<channelCwd, lines, written, commands, undone, jobbed>>

EnterDir(k) ==
    LET r == call[k] IN
    /\ r.pc = "dir"
    /\ Granted(k, DirLock(RunsIn(r, r.task)))
    /\ Becomes(k, r, "agent", r.task)
    /\ UNCHANGED <<queue, memory, channelCwd, lines, written, commands, undone, jobbed>>
-----------------------------------------------------------------------------
(* The agent's answer.                                                     *)

Answered(k, ts) == call[k].pc = "agent" /\ call[k].task \in ts

\* The locks are released, the message goes out.
Send(k, r) == Becomes(k, [r EXCEPT !.sid = {}], "sending", r.task) /\ Requeue(k, CallLocks, {})

\* save_session and the context size, right when the lock is released.
Save(k) ==
    /\ session' = [session EXCEPT ![Key(call[k])] = call[k].sid \cup {k}]
    /\ \E c \in Sizes : ctx' = [ctx EXCEPT ![Key(call[k])] = c]
    /\ UNCHANGED <<checkpointed, dropped>>

\* Without an answer, a chat logs and sends the error and a job is over.
Replied(k) ==
    LET r == call[k] IN
    /\ Answered(k, {"reply", "job"})
    /\ \/ /\ Send(k, r)
          /\ Say(r.dir)
          /\ IF WithSession(r, r.task) THEN Save(k) ELSE UNCHANGED memory
       \/ r.job /\ Leave(k) /\ UNCHANGED <<lines, memory>>
       \/ ~r.job /\ Send(k, r) /\ Say(r.dir) /\ UNCHANGED memory
    /\ UNCHANGED <<channelCwd, written, commands, undone, jobbed>>

\* Mutant of ToHandover: the session is loaded without the bot's lock.
ToHandoverUnlocked(k, r) == ToDir(k, r, "handover", {})

ToHandover(k, r) == ToBot(k, r, "handover", {})

\* maybe_token_flush, with the size it reads.  A checkpoint is of the channel's cwd at that
\* time.
TokenFlush(k) ==
    LET r    == call[k]
        size == ctx[Key(r)]
    IN  \/ size >= ResetThreshold /\ ToHandover(k, [r EXCEPT !.seen = size])
        \/ /\ size = FlushThreshold
           /\ ~checkpointed[Key(r)]
           /\ ToFlush(k, r, "checkpoint", channelCwd)
        \/ /\ size = Low \/ (size = FlushThreshold /\ checkpointed[Key(r)])
           /\ GoOn(k, r)

\* The message is out, or Discord fails.
ReplySent(k) ==
    /\ call[k].pc = "sending"
    /\ call[k].task \in {"reply", "job"}
    /\ UNCHANGED <<memory, channelCwd, lines, written, commands, undone, jobbed>>
    /\ TokenFlush(k) \/ Leave(k)

\* The channel's cwd is read now.
FlushSent(k) ==
    /\ call[k].pc = "sending"
    /\ call[k].task = "flush"
    /\ UNCHANGED <<memory, channelCwd, lines, written, commands, undone, jobbed>>
    /\ ToFlush(k, call[k], "flush", channelCwd)

HandedOver(k) ==
    LET r == call[k] IN
    /\ Answered(k, {"handover"})
    /\ \/ Drop(Key(r), r.sid \cup {k}) /\ GoOn(k, r)
       \/ GiveUp(k) /\ UNCHANGED memory
    /\ UNCHANGED <<channelCwd, lines, written, commands, undone, jobbed>>

\* Flushes of d that have read its notes and are not done.
Reading(d) ==
    {j \in Calls : /\ call[j].pc \in {"dir", "agent"}
                   /\ call[j].task \in {"flush", "checkpoint"}
                   /\ call[j].about = d}

\* save_project_notes: the file is written anew, with the notes it was merged from.
WriteNotes(k, d, draft) ==
    /\ notes' = [notes EXCEPT ![d] = draft]
    /\ overtaken' = (overtaken \cup Reading(d)) \ {k}

\* do_flush after its agent call: the summary, and a project's notes if the answer has them.
Flushed(k) ==
    LET r == call[k] IN
    /\ Answered(k, {"flush", "checkpoint"})
    /\ \/ /\ \/ r.about # Root /\ WriteNotes(k, r.about, r.draft)
             \/ UNCHANGED notes /\ overtaken' = overtaken \ {k}
          /\ checkpointed' = [checkpointed EXCEPT ![Key(r)] = @ \/ r.task = "checkpoint"]
       \/ UNCHANGED <<notes, checkpointed>> /\ overtaken' = overtaken \ {k}
    /\ GoOn(k, r)
    /\ UNCHANGED <<session, ctx, dropped, channelCwd, lines, commands, undone, jobbed>>

TurnTaken(k) ==
    LET r == call[k] IN
    /\ Answered(k, {"turn"})
    /\ \/ Say(r.dir) /\ Send(k, [r EXCEPT !.round = @ + 1])
       \/ Leave(k) /\ UNCHANGED lines
    /\ UNCHANGED <<memory, channelCwd, written, commands, undone, jobbed>>

\* The debate goes on, or ends after the last turn or one that says so.
TurnSent(k) ==
    LET r == call[k] IN
    /\ r.pc = "sending"
    /\ r.task = "turn"
    /\ \/ MoreTurns(r) /\ ToBot(k, r, "turn", {})
       \/ ToDir(k, r, "conclude", {})
       \/ Leave(k)
    /\ UNCHANGED <<memory, channelCwd, lines, written, commands, undone, jobbed>>

\* A conclusion, a verdict: no other call reads what is stored.
Ended(k) ==
    /\ Answered(k, {"conclude", "verdict"})
    /\ Leave(k)
    /\ UNCHANGED <<memory, channelCwd, lines, written, commands, undone, jobbed>>
-----------------------------------------------------------------------------
CallStep(k) ==
    \/ EnterDiscuss(k) \/ EnterBot(k) \/ EnterDir(k)
    \/ Replied(k) \/ ReplySent(k) \/ HandedOver(k) \/ FlushSent(k) \/ Flushed(k)
    \/ TurnTaken(k) \/ TurnSent(k) \/ Ended(k)

Outside ==
    \/ \E k \in Calls : Ask(k) \/ StartJob(k) \/ Flush(k) \/ Discuss(k) \/ Cd(k)
    \/ Chat \/ Reset

Idle == (\A k \in Calls : call[k].pc \in {"new", "over"}) /\ UNCHANGED vars

Next == (\E k \in Calls : CallStep(k)) \/ Outside \/ Idle

Spec == Init /\ [][Next]_vars

-----------------------------------------------------------------------------
TypeOK ==
    /\ call \in [Calls -> Locals]
    /\ queue \in [Locks -> Seq(Calls)]
    /\ session \in [Sessions -> SUBSET Calls]
    /\ ctx \in [Sessions -> Sizes]
    /\ checkpointed \in [Sessions -> BOOLEAN]
    /\ channelCwd \in Dirs
    /\ lines \in Seq(Dirs)
    /\ notes \in [Dirs -> SUBSET Nat]
    /\ commands \in 0..MaxMessages
    /\ dropped \in [Sessions -> SUBSET Calls]
    /\ undone \subseteq Sessions
    /\ jobbed \subseteq Sessions
    /\ overtaken \subseteq Calls

(* "Messages for the same bot don't interleave" (state.py): a turn leaves a stored session
   only if it was dropped on purpose: by !reset, at the hard cap, or with a handover whose
   summary has it.  Not so where a job runs in the project itself: it resumes and stores
   the session without the bot's lock. *)
TurnsKept ==
    [][\A s \in Sessions : session[s] \ session'[s] \subseteq dropped'[s] \/ s \in jobbed]_vars

(* A session that was dropped stays dropped: no call resumes it afterwards, except one
   that was under way at a !reset, and jobs. *)
DroppedStaysDropped ==
    \A s \in Sessions : session[s] \cap dropped[s] = {} \/ s \in undone \cup jobbed

(* "Messages for the same bot don't interleave" (state.py), in full: a chat loads its session
   before it waits for its agent and stores it after, a handover reads, summarises and drops
   it, and yet the sessions change as if each call was one step.  Sessions that a job or a call
   under way at a !reset stores behind the lock are loose. *)
Loose == undone \cup jobbed

Strict(f) == [s \in Sessions |-> IF s \in Loose THEN {} ELSE f[s]]

Log == INSTANCE SessionLog WITH
    log <- Strict(session),
    forgotten <- Strict(dropped),
    loose <- Loose

ImplementsSessionLog == Log!LogSpec

(* Project notes are merged, not overwritten (do_flush: "合併非追加"), though a flush writes
   what it has read before its agent call.  A line drops out of them only where flushes of the
   project overlap, by one that had read before another wrote, and then only a line that no
   flush can read again: it has left the transcript. *)
NotesKept ==
    [][\A d \in Dirs : LET lost == notes[d] \ notes'[d] IN
          lost # {} => /\ lost \cap Transcript(lines, d) = {}
                       /\ \E k \in overtaken \ overtaken' : call[k].about = d]_vars

(* Nobody waits for ever, though a waiter has no timeout: whatever failed, the first in each
   queue is still under way, and of all calls one is past waiting.  (A call has boundedly
   many steps, and a queue is first come, first served.) *)
MayMove(k) ==
    LET r == call[k] IN
    \/ r.pc \in {"agent", "sending"}
    \/ r.pc = "discuss" /\ Granted(k, Debate)
    \/ r.pc = "bot" /\ Granted(k, BotLock(Worker(r, r.task)))
    \/ r.pc = "dir" /\ Granted(k, DirLock(RunsIn(r, r.task)))

NoStandstill ==
    /\ \A l \in Locks : queue[l] # <<>> => call[Head(queue[l])].pc # "over"
    /\ (\E k \in Calls : call[k].pc \notin {"new", "over"}) => \E k \in Calls : MayMove(k)

(* How many steps a call has left at most: a debate makes four a turn, then the conclusion;
   after a reply there may be a handover and the hard reset, or a checkpoint, and then a job's
   verdict. *)
StepsLeft(r) ==
    LET turns   == 4 * (MaxBotTurns - r.round)
        atAgent == CASE r.task = "turn" -> turns + 1
                     [] r.task \in {"reply", "job"} -> 9
                     [] r.task = "handover" -> 5
                     [] r.task \in {"flush", "checkpoint"} -> 4
                     [] OTHER -> 1
    IN  CASE r.pc = "over" -> 0
          [] r.pc = "new" -> 4 * MaxBotTurns + 12
          [] r.pc = "discuss" -> 4 * MaxBotTurns + 4
          [] r.pc = "sending" -> IF r.task = "turn" THEN turns + 4 ELSE 8
          [] r.pc = "bot" -> IF r.task = "hard" THEN 4 ELSE atAgent + 2
          [] r.pc = "dir" -> atAgent + 1
          [] r.pc = "agent" -> atAgent

(* Every step of a call brings it nearer to its end, by a bound that holds from its start and
   that no other call can push back: with NoStandstill and fair locks, every call ends. *)
StepsRunOut ==
    [][\A k \in Calls : call'[k] # call[k] => StepsLeft(call'[k]) < StepsLeft(call[k])]_vars

(* "A running job SHALL NOT block conversation-layer calls"
   (openspec/specs/exec-jobs-observability/spec.md): a chat does not wait for a job. *)
NotStalledByJob ==
    ~\E k, j \in Calls :
        /\ call[k].pc = "dir" /\ call[k].task = "reply"
        /\ call[j].pc = "agent" /\ call[j].task = "job"
        /\ call[j].dir = call[k].dir
=============================================================================
