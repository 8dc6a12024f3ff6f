------------------------------ MODULE ExecutorIPC ------------------------------
(***************************************************************************)
(* The split deployment (bridge/runner.py): the bridge asks the executor   *)
(* over a unix socket, one connection per call, to run an agent (streaming *)
(* for a job, plain for a conversation) or a job's verify command.         *)
(* Closing the connection is the only way to cancel.                       *)
(*                                                                         *)
(* A run's process group is its leader and whether children of it live on. *)
(* The calls are of one project.                                           *)
(***************************************************************************)
EXTENDS Startup, Sequences, FiniteSets

CONSTANTS
    Calls,        \* calls of the bridge, each with a connection
    MaxCrashes    \* bound: crashes of the bridge or of the executor

ASSUME ExecutorIPCAssumption == MaxCrashes \in Nat

Kinds    == {"stream", "plain", "verify"}
Clients  == {"idle", "locked", "waiting", "over"}
Results  == {"none", "done", "passed", "failed"}
Handlers == {"none", "request", "spawning", "running", "exceeded", "closing", "over"}
Watchers == {"none", "reading", "killing"}
Leaders  == {"none", "running", "exited", "killed"}
Broods   == {"none", "obedient", "stubborn"}
Messages == {"result", "exit", "killed", "error", "passed", "not passed"}

VARIABLES
    kind,      \* what each call asks for
    client,    \* where its coroutine in the bridge is
    result,    \* what the coroutine returns
    lock,      \* the calls that hold the project's lock
    open,      \* the bridge's end of the connection
    wire,      \* what the executor has sent and the bridge not read
    handler,   \* where _handle_executor_conn is
    served,    \* the executor's end of the connection
    watcher,   \* its watchdog
    leader,    \* the process it has spawned
    children,  \* its children that are alive: they obey SIGTERM or not
    outcome,   \* what the process did: a result of its own, or exit code 0
    blind,     \* history: the verify watchdog saw the end before there was a process
    crashes

bridge   == <<kind, client, result, lock>>
socket   == <<open, wire, served>>
executor == <<handler, watcher>>
process  == <<leader, children, outcome>>
vars == <<kind, client, result, lock, open, wire, served, handler, watcher, leader, children,
          outcome, blind, crashes, phase, around, found, changes>>

Init ==
    /\ StartupInit
    /\ kind = [c \in Calls |-> "plain"]
    /\ client = [c \in Calls |-> "idle"]
    /\ result = [c \in Calls |-> "none"]
    /\ lock = {}
    /\ open = [c \in Calls |-> FALSE]
    /\ wire = [c \in Calls |-> <<>>]
    /\ served = [c \in Calls |-> FALSE]
    /\ handler = [c \in Calls |-> "none"]
    /\ watcher = [c \in Calls |-> "none"]
    /\ leader = [c \in Calls |-> "none"]
    /\ children = [c \in Calls |-> "none"]
    /\ outcome = [c \in Calls |-> FALSE]
    /\ blind = {}
    /\ crashes = 0

At(f, c, v) == [f EXCEPT ![c] = v]
-----------------------------------------------------------------------------
(* The bridge: _remote_run, _remote_stream_exec, request_verify.           *)

\* Mutant of Admitted: nobody waits for the lock.
AdmittedAll(k) == k \in Kinds

\* A conversation and a job hold the project's lock around the call; verify does not.
Admitted(k) == k # "verify" => lock = {}

Begin(c) ==
    /\ client[c] = "idle"
    /\ \E k \in Kinds :
          /\ Admitted(k)
          /\ kind' = At(kind, c, k)
          /\ lock' = IF k = "verify" THEN lock ELSE lock \cup {c}
    /\ client' = At(client, c, "locked")
    /\ UNCHANGED <<result, socket, executor, process, blind, crashes, startup>>

\* Mutant of Return: the connection is not closed.
ReturnOpen(c, r) ==
    /\ client' = At(client, c, "over")
    /\ result' = At(result, c, r)
    /\ lock' = lock \ {c}
    /\ wire' = At(wire, c, <<>>)
    /\ UNCHANGED open

\* The coroutine returns: `finally: writer.close()`, and the lock is released.
Return(c, r) ==
    /\ client' = At(client, c, "over")
    /\ result' = At(result, c, r)
    /\ lock' = lock \ {c}
    /\ wire' = At(wire, c, <<>>)
    /\ open' = At(open, c, FALSE)

\* Connect, and write the request; or the executor cannot be reached.  A job that was
\* cancelled before closes the connection without a request, which ends the handler.
Connect(c) ==
    /\ client[c] = "locked"
    /\ \/ /\ phase = "serving"
          /\ client' = At(client, c, "waiting")
          /\ open' = At(open, c, TRUE)
          /\ served' = At(served, c, TRUE)
          /\ handler' = At(handler, c, "request")
          /\ UNCHANGED <<result, lock, wire>>
       \/ /\ phase = "serving" /\ kind[c] = "stream"
          /\ Return(c, "failed")
          /\ served' = At(served, c, TRUE)
          /\ handler' = At(handler, c, "closing")
       \/ /\ phase # "serving"
          /\ Return(c, "failed")
          /\ UNCHANGED <<handler, served>>
    /\ UNCHANGED <<kind, watcher, process, blind, crashes, startup>>

\* The next message.  A stream's result is remembered, and returned at the exit.
Receive(c) ==
    /\ client[c] = "waiting"
    /\ wire[c] # <<>>
    /\ LET m == Head(wire[c]) IN
         IF kind[c] = "stream" /\ m = "result"
           THEN /\ result' = At(result, c, "done")
                /\ wire' = At(wire, c, Tail(wire[c]))
                /\ UNCHANGED <<client, lock, open>>
           ELSE Return(c, CASE result[c] = "done" -> "done"
                            [] m = "passed" -> "passed"
                            [] m = "result" -> "done"
                            [] OTHER -> "failed")
    /\ UNCHANGED <<kind, served, executor, process, blind, crashes, startup>>

\* The connection is closed, by the executor or by a !cancel.
Ended(c) ==
    /\ client[c] = "waiting"
    /\ ~open[c] \/ (wire[c] = <<>> /\ ~served[c])
    /\ Return(c, IF result[c] = "done" THEN "done" ELSE "failed")
    /\ UNCHANGED <<kind, served, executor, process, blind, crashes, startup>>

\* The bridge's own timeout, a margin above the executor's: even with a result.
GiveUp(c) ==
    /\ client[c] = "waiting"
    /\ open[c]
    /\ Return(c, "failed")
    /\ UNCHANGED <<kind, served, executor, process, blind, crashes, startup>>

\* !cancel of a job: RemoteExecHandle.remote_kill.
Cancel(c) ==
    /\ client[c] = "waiting"
    /\ kind[c] = "stream"
    /\ open[c]
    /\ open' = At(open, c, FALSE)
    /\ UNCHANGED <<bridge, wire, served, executor, process, blind, crashes, startup>>
-----------------------------------------------------------------------------
(* The executor: _handle_executor_conn.                                    *)

Send(c, m) == wire' = IF open[c] THEN At(wire, c, Append(wire[c], m)) ELSE wire

Handler(c, h) == handler' = At(handler, c, h)

\* The request is read and validated; verify starts its watchdog before the process.
\* Refused, an end before the request, a tier that is not live, no verify command: answered.
Request(c) ==
    /\ handler[c] = "request"
    /\ \/ /\ kind[c] = "verify" => ExecBash
          /\ Handler(c, "spawning")
          /\ watcher' = At(watcher, c, IF kind[c] = "verify" THEN "reading" ELSE "none")
          /\ UNCHANGED wire
       \/ /\ Send(c, IF kind[c] = "verify" THEN "not passed" ELSE "error")
          /\ Handler(c, "closing")
          /\ UNCHANGED watcher
    /\ UNCHANGED <<bridge, open, served, process, blind, crashes, startup>>

\* Mutant of Watchdog: a plain run has none.
WatchdogOfStreams(c) == IF kind[c] = "stream" THEN "reading" ELSE watcher[c]

\* The agent's starts with the process, the verify's is there already.
Watchdog(c) == IF kind[c] = "verify" THEN watcher[c] ELSE "reading"

Spawn(c) ==
    /\ handler[c] = "spawning"
    /\ \/ /\ leader' = At(leader, c, "running")
          /\ watcher' = At(watcher, c, Watchdog(c))
          /\ Handler(c, "running")
          /\ UNCHANGED wire
       \/ /\ Send(c, IF kind[c] = "verify" THEN "not passed" ELSE "error")
          /\ Handler(c, "closing")
          /\ watcher' = At(watcher, c, "none")
          /\ UNCHANGED leader
    /\ UNCHANGED <<bridge, open, served, children, outcome, blind, crashes, startup>>

\* The watchdog's read ends with the connection.  A verify without a process is not killed.
Watch(c) ==
    /\ watcher[c] = "reading"
    /\ ~open[c]
    /\ IF leader[c] = "none"
         THEN watcher' = At(watcher, c, "none") /\ blind' = blind \cup {c}
         ELSE watcher' = At(watcher, c, "killing") /\ UNCHANGED blind
    /\ UNCHANGED <<bridge, socket, handler, process, crashes, startup>>

\* kill_process_group: SIGTERM to the group; SIGKILL only if the leader is still there after
\* the grace period; nothing at all if the leader has gone already.
KillGroup(c) ==
    IF leader[c] # "running" THEN UNCHANGED <<leader, children>>
    ELSE /\ leader' = At(leader, c, "killed")
         /\ \E killed \in BOOLEAN :
              children' = IF ~killed /\ children[c] = "stubborn" THEN children
                                                                 ELSE At(children, c, "none")

WatcherKills(c) ==
    /\ watcher[c] = "killing"
    /\ KillGroup(c)
    /\ watcher' = At(watcher, c, "none")
    /\ UNCHANGED <<bridge, socket, handler, outcome, blind, crashes, startup>>

\* Mutant of Passed: any end of the process counts.
PassedAnyhow(c) == leader[c] # "running"

\* The exit code is 0: nobody killed it.
Passed(c) == leader[c] = "exited" /\ outcome[c]

\* A line of the stream, the result, is passed on.
Forward(c) ==
    /\ handler[c] = "running"
    /\ kind[c] = "stream"
    /\ outcome[c]
    /\ "result" \notin {wire[c][i] : i \in DOMAIN wire[c]} /\ result[c] # "done"
    /\ Send(c, "result")
    /\ wire' # wire
    /\ UNCHANGED <<bridge, open, served, executor, process, blind, crashes, startup>>

\* The pipe is closed: by the leader's end and that of the children who share it.
Complete(c) ==
    /\ handler[c] = "running"
    /\ leader[c] # "running" /\ children[c] = "none"
    /\ kind[c] = "stream" /\ outcome[c] /\ open[c] => result[c] = "done" \/ wire[c] # <<>>
    /\ Send(c, CASE kind[c] = "verify" -> IF Passed(c) THEN "passed" ELSE "not passed"
                 [] kind[c] = "plain"  -> IF Passed(c) THEN "result" ELSE "exit"
                 [] OTHER              -> "exit")
    /\ Handler(c, "closing")
    /\ watcher' = At(watcher, c, "none")
    /\ UNCHANGED <<bridge, open, served, process, blind, crashes, startup>>

\* The timeout of the call, or of verify.
Exceed(c) ==
    /\ handler[c] = "running"
    /\ leader[c] = "running" \/ children[c] # "none"
    /\ Handler(c, "exceeded")
    /\ UNCHANGED <<bridge, socket, watcher, process, blind, crashes, startup>>

Exceeded(c) ==
    /\ handler[c] = "exceeded"
    /\ KillGroup(c)
    /\ Send(c, IF kind[c] = "verify" THEN "not passed" ELSE "killed")
    /\ Handler(c, "closing")
    /\ watcher' = At(watcher, c, "none")
    /\ UNCHANGED <<bridge, open, served, outcome, blind, crashes, startup>>

\* Writing to a connection that is gone raises.
Broken(c) ==
    /\ handler[c] = "running"
    /\ kind[c] = "stream"
    /\ ~open[c]
    /\ Handler(c, "closing")
    /\ watcher' = At(watcher, c, "none")
    /\ UNCHANGED <<bridge, socket, process, blind, crashes, startup>>

\* Mutant of Reap: the finally clause kills nothing.
ReapNothing(c) == UNCHANGED <<leader, children>>

\* The finally clause kills the group of an agent; for a verify, proc is None there.
Reap(c) == IF kind[c] = "verify" THEN UNCHANGED <<leader, children>> ELSE KillGroup(c)

Close(c) ==
    /\ handler[c] = "closing"
    /\ Reap(c)
    /\ Handler(c, "over")
    /\ served' = At(served, c, FALSE)
    /\ UNCHANGED <<bridge, open, wire, watcher, outcome, blind, crashes, startup>>
-----------------------------------------------------------------------------
(* The process, and crashes.                                               *)

\* It starts children, says its result, exits (with code 0 or not); children end.
Act(c) ==
    /\ \/ /\ leader[c] = "running"
          /\ \/ /\ children[c] = "none"
                /\ \E b \in Broods : children' = At(children, c, b)
                /\ UNCHANGED <<leader, outcome>>
             \/ /\ kind[c] = "stream"
                /\ outcome' = At(outcome, c, TRUE)
                /\ UNCHANGED <<leader, children>>
             \/ /\ leader' = At(leader, c, "exited")
                /\ \E zero \in BOOLEAN :
                     outcome' = At(outcome, c, IF kind[c] = "stream" THEN outcome[c] ELSE zero)
                /\ UNCHANGED children
       \/ /\ children[c] # "none"
          /\ children' = At(children, c, "none")
          /\ UNCHANGED <<leader, outcome>>
    /\ UNCHANGED <<bridge, socket, executor, blind, crashes, startup>>

Crash == crashes < MaxCrashes /\ crashes' = crashes + 1

\* The bridge's coroutines and connections are gone.
BridgeCrash ==
    /\ Crash
    /\ client' = [c \in Calls |-> IF client[c] = "idle" THEN "idle" ELSE "over"]
    /\ lock' = {}
    /\ open' = [c \in Calls |-> FALSE]
    /\ wire' = [c \in Calls |-> <<>>]
    /\ UNCHANGED <<kind, result, served, executor, process, blind, startup>>

\* The container goes with all that runs in it; it is started again.
ExecutorCrash ==
    /\ Crash
    /\ phase = "serving"
    /\ phase' = "down"
    /\ handler' = [c \in Calls |-> IF handler[c] = "none" THEN "none" ELSE "over"]
    /\ watcher' = [c \in Calls |-> "none"]
    /\ served' = [c \in Calls |-> FALSE]
    /\ leader' = [c \in Calls |-> IF leader[c] = "running" THEN "killed" ELSE leader[c]]
    /\ children' = [c \in Calls |-> "none"]
    /\ UNCHANGED <<bridge, open, wire, outcome, blind, around, found, changes>>

Restart ==
    /\ phase \in {"down", "refused"}
    /\ Boot
    /\ UNCHANGED <<bridge, socket, executor, process, blind, crashes>>

StartupOnly == UNCHANGED <<bridge, socket, executor, process, blind, crashes>>
-----------------------------------------------------------------------------
Coroutines(c) ==
    \/ Begin(c) \/ Connect(c) \/ Receive(c) \/ Ended(c) \/ GiveUp(c) \/ Cancel(c)
    \/ Request(c) \/ Spawn(c) \/ Forward(c) \/ Complete(c)
    \/ Exceed(c) \/ Exceeded(c) \/ Broken(c) \/ Close(c)
    \/ Watch(c) \/ WatcherKills(c)

Next ==
    \/ \E c \in Calls : Coroutines(c) \/ Act(c)
    \/ BridgeCrash \/ ExecutorCrash \/ Restart
    \/ (StartupStep \/ Change) /\ StartupOnly

Spec == Init /\ [][Next]_vars
-----------------------------------------------------------------------------
TypeOK ==
    /\ StartupTypeOK
    /\ kind \in [Calls -> Kinds] /\ client \in [Calls -> Clients]
    /\ result \in [Calls -> Results] /\ lock \in {{}} \cup {{c} : c \in Calls}
    /\ {open, served, outcome} \subseteq [Calls -> BOOLEAN]
    /\ \A c \in Calls : wire[c] \in UNION {[1..n -> Messages] : n \in 0..2}
    /\ handler \in [Calls -> Handlers] /\ watcher \in [Calls -> Watchers] /\ children \in [Calls -> Broods]
    /\ leader \in [Calls -> Leaders] /\ blind \subseteq Calls /\ crashes \in 0..MaxCrashes

\* "A client disconnect at any point kills the process group" (_handle_executor_conn): without
\* a timeout to help, a process that nobody waits for has a coroutine whose next step is, or
\* becomes, to kill it; except a verify that was not there yet when its watchdog looked.
GoneClientKilled ==
    \A c \in Calls : leader[c] = "running" /\ ~open[c] /\ c \notin blind =>
        \/ watcher[c] # "none"
        \/ handler[c] = "exceeded"
        \/ handler[c] = "closing" /\ kind[c] # "verify"

\* Once the handler has returned nothing of the run is alive ("no orphaned processes"), but
\* children that ignore SIGTERM or that outlive a leader that has exited (kill_process_group).
NoOrphan ==
    \A c \in Calls : handler[c] = "over" =>
        leader[c] # "running" /\ (children[c] = "obedient" => leader[c] = "exited")

\* The lock of the project (cwd_locks) covers the executor too: of two agents of a project
\* that are alive there, one at least is being killed.
OneAgent ==
    \A c, d \in {c \in Calls : kind[c] # "verify" /\ leader[c] = "running"} :
        c = d \/ ~open[c] \/ ~open[d]

\* A call succeeds in the bridge only if its process in the executor did: a verify is never a
\* "fake green" (run_verify), whatever was killed, timed out or lost on the way.
NoFakeGreen ==
    \A c \in Calls :
        /\ result[c] \in {"passed", "done"} => outcome[c]
        /\ result[c] = "passed" => kind[c] = "verify" /\ leader[c] = "exited"

\* The executor serves only behind a proxy that denies by default and with deny rules that
\* fire, those of the derived settings included (executor.py, main), as far as nothing changes
\* while it looks.  Without EGRESS_PROXY_URL nothing is promised of the network, which m4_live's
\* comment forgets, and with BRIDGE_SKIP_CANARY nothing of the deny rules.
ServesOnlySound ==
    [][phase # "serving" /\ phase' = "serving" => Sound(around) \/ changes > 0]_vars

\* What is transient (the proxy away, no login) never ends the process: it is retried
\* (canary_gate, settings_canary_gate).
RefusesOnlyUnsound ==
    [][phase # "refused" /\ phase' = "refused" => Unsound(around) \/ changes > 0]_vars
=============================================================================
