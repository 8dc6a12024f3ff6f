------------------------------- MODULE Approvals -------------------------------
(***************************************************************************)
(* The gates an operator answers with a reaction (bridge/frontend.py): the *)
(* per-command approval a spawned mcp_approver.py asks for over a unix     *)
(* socket (bridge/approver_ipc.py), and the plan of bypass mode.           *)
(*                                                                         *)
(* A gate is a message in Discord and a future in pending_actions.  Both   *)
(* bots' clients are told of every reaction, in order but each at its own  *)
(* pace, and run the same handler.                                         *)
(***************************************************************************)
EXTENDS Integers, Sequences, FiniteSets

CONSTANTS
    Requests,     \* commands an agent asks permission for
    Commands,     \* bound: what they may be, as sequences of segments
    Plans,        \* messages in bypass mode
    Feeds,        \* the Discord clients (state.clients)
    Window,       \* PLAN_REACTION_TIMEOUT, in ticks
    Margin,       \* what approver_socket_timeout adds
    MaxPosting,   \* bound: how long it takes to post a gate
    MaxClicks,    \* bound: reactions to one gate
    MaxOpen,      \* bound: gates at a time
    MayCrash      \* bound: whether the bridge is restarted once

Gates == Requests \cup Plans

\* A segment of a compound command: under an allow-listed prefix or not, or under one but
\* with a substitution or a redirect in it.
Segments == {"listed", "unlisted", "smuggled"}

ASSUME ApprovalsAssumption ==
    /\ Commands \subseteq Seq(Segments) /\ <<>> \in Commands
    /\ Requests \cap Plans = {}
    /\ Window \in Nat \ {0} /\ Margin \in Nat /\ MaxPosting \in Nat
    /\ MaxClicks \in Nat /\ MaxOpen \in Nat
    /\ MaxPosting < Margin
    /\ MayCrash \in BOOLEAN

Emoji   == {"yes", "no", "other"}
Stages  == {"idle", "planning", "posting", "waiting", "notifying", "executing", "over"}
Futures == {"none", "open", "confirm", "cancel"}
Askers  == {"idle", "asking", "allowed", "denied", "gaveup", "gone"}

VARIABLES
    gate,      \* where the coroutine of each gate is
    future,    \* its future
    pending,   \* state.pending_actions: the gates that a reaction resolves
    wait,      \* ticks since wait_for began
    skip,      \* plans with !yolo
    command,   \* what each request is about
    asker,     \* the approver process
    age,       \* ticks since it sent its request
    answer,    \* what the bridge has written to its socket
    clicks,    \* the reactions of whitelisted users to a message that can take them
    told,      \* how many of them each client has been told of
    early,     \* history: how many were told of before the future was registered
    consent,   \* history: the gates with a consent in their reactions, when one was taken
    crashed

bridge   == <<gate, future, pending, wait, skip>>
approver == <<command, asker, age>>
discord  == <<clicks, told, early, consent>>
vars == <<gate, future, pending, wait, skip, command, asker, age, answer, clicks, told, early,
          consent, crashed>>

Init ==
    /\ gate = [g \in Gates |-> "idle"]
    /\ future = [g \in Gates |-> "none"]
    /\ pending = {}
    /\ wait = [g \in Gates |-> 0]
    /\ skip = {}
    /\ command = [r \in Requests |-> <<>>]
    /\ asker = [r \in Requests |-> "idle"]
    /\ age = [r \in Requests |-> 0]
    /\ answer = [r \in Requests |-> "none"]
    /\ clicks = [g \in Gates |-> <<>>]
    /\ told = [f \in Feeds |-> [g \in Gates |-> 0]]
    /\ early = [g \in Gates |-> 0]
    /\ consent = {}
    /\ crashed = FALSE

Stage(g, s) == gate' = [gate EXCEPT ![g] = s]

Room == Cardinality({g \in Gates : gate[g] \notin {"idle", "over"}}) < MaxOpen
-----------------------------------------------------------------------------
(* The approver: mcp_approver.py and approver_policy.py.                   *)

\* Mutant of Listed: the substitution goes unseen.
ListedPrefix(s) == s # "unlisted"

Listed(s) == s = "listed"

\* decide and command_allowlisted: every segment, and at least one.
AutoAllowed(c) == c # <<>> /\ \A i \in DOMAIN c : Listed(c[i])

\* tools/call: allowed at once, or escalated, or denied as there is nobody to ask.
Ask(r) ==
    /\ asker[r] = "idle"
    /\ Room
    /\ \E c \in Commands :
         /\ command' = [command EXCEPT ![r] = c]
         /\ \/ /\ AutoAllowed(c)
               /\ asker' = [asker EXCEPT ![r] = "allowed"]
               /\ UNCHANGED gate
            \/ /\ ~AutoAllowed(c)
               /\ asker' = [asker EXCEPT ![r] = "asking"]
               /\ Stage(r, "posting")
            \/ /\ ~AutoAllowed(c)
               /\ asker' = [asker EXCEPT ![r] = "denied"]
               /\ UNCHANGED gate
    /\ UNCHANGED <<future, pending, wait, skip, age, answer, discord, crashed>>

\* An answer, or the end of the connection, which counts as a no.
Read(r) ==
    /\ asker[r] = "asking"
    /\ answer[r] # "none"
    /\ asker' = [asker EXCEPT ![r] = IF answer[r] = "yes" THEN "allowed" ELSE "denied"]
    /\ UNCHANGED <<bridge, command, age, answer, discord, crashed>>

\* Mutant of SocketTimeout: without the margin.
SocketTimeoutBare == Window

\* config.approver_socket_timeout.
SocketTimeout == Window + Margin

GiveUp(r) ==
    /\ asker[r] = "asking"
    /\ age[r] >= SocketTimeout
    /\ asker' = [asker EXCEPT ![r] = "gaveup"]
    /\ UNCHANGED <<bridge, command, age, answer, discord, crashed>>

\* The job is cancelled or times out, and its process group killed.
Kill(r) ==
    /\ asker[r] = "asking"
    /\ asker' = [asker EXCEPT ![r] = "gone"]
    /\ UNCHANGED <<bridge, command, age, answer, discord, crashed>>
-----------------------------------------------------------------------------
(* The gates: request_discord_approval and run_plan_then_execute.          *)

\* The answer that goes to the approver; a plan has nobody to answer.
Reply(g, a) == answer' = IF g \in Requests THEN [answer EXCEPT ![g] = a] ELSE answer

StartPlan(p) ==
    /\ gate[p] = "idle"
    /\ Room
    /\ \/ Stage(p, "planning") /\ UNCHANGED skip
       \/ Stage(p, "executing") /\ skip' = skip \cup {p}
    /\ UNCHANGED <<future, pending, wait, approver, answer, discord, crashed>>

\* The plan is there and is posted, or claude failed.
Planned(p) ==
    /\ gate[p] = "planning"
    /\ Stage(p, "posting") \/ Stage(p, "over")
    /\ UNCHANGED <<future, pending, wait, skip, approver, answer, discord, crashed>>

\* The message is posted with its two emoji, and only then the future registered.
Register(g) ==
    /\ gate[g] = "posting"
    /\ Stage(g, "waiting")
    /\ future' = [future EXCEPT ![g] = "open"]
    /\ pending' = pending \cup {g}
    /\ UNCHANGED <<wait, skip, approver, answer, discord, crashed>>

\* Later reactions to a message find nothing in pending_actions: they are left out.
Deaf(g) ==
    /\ clicks' = [clicks EXCEPT ![g] = <<>>]
    /\ told' = [f \in Feeds |-> [told[f] EXCEPT ![g] = 0]]
    /\ early' = [early EXCEPT ![g] = 0]

\* No channel, or Discord fails, at any of the messages: the approval handler denies.
Fail(g) ==
    /\ gate[g] \in {"posting", "notifying"}
    /\ Stage(g, "over")
    /\ Reply(g, "no")
    /\ Deaf(g)
    /\ UNCHANGED <<future, pending, wait, skip, approver, consent, crashed>>

\* wait_for returns the decision.  (What follows a no to a plan is a message.)
Decide(g) ==
    /\ gate[g] = "waiting"
    /\ future[g] \in {"confirm", "cancel"}
    /\ IF g \in Requests
         THEN /\ Stage(g, "over")
              /\ Reply(g, IF future[g] = "confirm" THEN "yes" ELSE "no")
         ELSE /\ Stage(g, IF future[g] = "confirm" THEN "executing" ELSE "notifying")
              /\ UNCHANGED answer
    /\ UNCHANGED <<future, pending, wait, skip, approver, discord, crashed>>

\* Mutant of Due: the timer of a gate that a stray emoji took out of pending_actions is lost.
DueIfPending(g) == wait[g] >= Window /\ g \in pending

Due(g) == wait[g] >= Window

\* Mutant of Forget: the future stays registered.
ForgetNothing(g) == pending

Forget(g) == pending \ {g}

\* wait_for times out, even over a decision of the same moment.
Expire(g) ==
    /\ gate[g] = "waiting"
    /\ Due(g)
    /\ Stage(g, "notifying")
    /\ future' = [future EXCEPT ![g] = "none"]
    /\ pending' = Forget(g)
    /\ Deaf(g)
    /\ UNCHANGED <<wait, skip, approver, answer, consent, crashed>>

Notify(g) ==
    /\ gate[g] = "notifying"
    /\ Stage(g, "over")
    /\ Reply(g, "no")
    /\ UNCHANGED <<future, pending, wait, skip, approver, discord, crashed>>

\* claude has run in bypass mode and its reply is posted, or that failed.
Executed(p) ==
    /\ gate[p] = "executing"
    /\ Stage(p, "over")
    /\ UNCHANGED <<future, pending, wait, skip, approver, answer, discord, crashed>>
-----------------------------------------------------------------------------
(* Discord: on_raw_reaction_add, time, and a restart of the bridge.        *)

\* Once a message is there it can be reacted to, registered or not yet.
Live(g) == gate[g] = "posting" \/ g \in pending

Click(g) ==
    /\ Live(g)
    /\ Len(clicks[g]) < MaxClicks
    /\ \E e \in Emoji : clicks' = [clicks EXCEPT ![g] = Append(@, e)]
    /\ UNCHANGED <<bridge, approver, answer, told, early, consent, crashed>>

\* Mutant of Meaning: whatever is not a no is a yes.
MeaningUnlessNo(e) == IF e = "no" THEN "cancel" ELSE "confirm"

\* Mutant of Meaning: the emoji itself.
MeaningVerbatim(e) == e

\* A stray emoji takes the gate out of pending_actions and leaves its future unresolved.
Meaning(e) == CASE e = "yes" -> "confirm" [] e = "no" -> "cancel" [] OTHER -> "open"

\* A yes that no other reaction precedes, but those told of before the registration.
Consent(g) ==
    \E i \in DOMAIN clicks[g] :
        clicks[g][i] = "yes" /\ \A j \in 1..(i - 1) : clicks[g][j] # "yes" => j <= early[g]

\* on_raw_reaction_add of one of the clients, before the registration and after it.
TellEarly(f, g) ==
    /\ gate[g] = "posting"
    /\ told[f][g] < Len(clicks[g])
    /\ told' = [told EXCEPT ![f][g] = @ + 1]
    /\ early' = IF told[f][g] = early[g] THEN [early EXCEPT ![g] = @ + 1] ELSE early
    /\ UNCHANGED <<bridge, approver, answer, clicks, consent, crashed>>

Tell(f, g) ==
    /\ g \in pending
    /\ told[f][g] < Len(clicks[g])
    /\ pending' = pending \ {g}
    /\ future' = [future EXCEPT ![g] = IF @ = "open" THEN Meaning(clicks[g][told[f][g] + 1]) ELSE @]
    /\ consent' = IF Consent(g) THEN consent \cup {g} ELSE consent
    /\ Deaf(g)
    /\ UNCHANGED <<gate, wait, skip, approver, answer, crashed>>

\* What does not wait for time to pass: the event loop and the approver are fast.
Urgent ==
    \/ \E g \in Gates : gate[g] = "waiting" /\ (Due(g) \/ future[g] \in {"confirm", "cancel"})
    \/ \E r \in Requests :
          /\ asker[r] = "asking"
          /\ \/ answer[r] # "none"
             \/ gate[r] = "posting" /\ age[r] >= MaxPosting
             \/ age[r] >= SocketTimeout

\* Time passes for those who watch it.
Tick ==
    /\ ~Urgent
    /\ wait' = [g \in Gates |-> IF gate[g] = "waiting" /\ wait[g] < Window THEN wait[g] + 1
                                                                           ELSE wait[g]]
    /\ age' = [r \in Requests |-> IF asker[r] = "asking" THEN age[r] + 1 ELSE age[r]]
    /\ <<wait, age>>' # <<wait, age>>
    /\ UNCHANGED <<gate, future, pending, skip, command, asker, answer, discord, crashed>>

\* The coroutines and pending_actions are gone; the sockets of the approvers are closed.
Crash ==
    /\ MayCrash /\ ~crashed
    /\ crashed' = TRUE
    /\ gate' = [g \in Gates |-> IF gate[g] = "idle" THEN "idle" ELSE "over"]
    /\ future' = [g \in Gates |-> "none"]
    /\ pending' = {}
    /\ answer' = [r \in Requests |->
                     IF gate[r] # "idle" /\ answer[r] = "none" THEN "closed" ELSE answer[r]]
    /\ clicks' = [g \in Gates |-> <<>>]
    /\ told' = [f \in Feeds |-> [g \in Gates |-> 0]]
    /\ early' = [g \in Gates |-> 0]
    /\ UNCHANGED <<wait, skip, approver, consent>>
-----------------------------------------------------------------------------
GateStep(g) == Register(g) \/ Fail(g) \/ Decide(g) \/ Expire(g) \/ Notify(g)

PlanStep(p) == Planned(p) \/ Executed(p)

Next ==
    \/ \E g \in Gates : GateStep(g) \/ Click(g) \/ (\E f \in Feeds : TellEarly(f, g) \/ Tell(f, g))
    \/ \E r \in Requests : Ask(r) \/ Read(r) \/ GiveUp(r) \/ Kill(r)
    \/ \E p \in Plans : StartPlan(p) \/ PlanStep(p)
    \/ Tick
    \/ Crash

Spec == Init /\ [][Next]_vars

\* Coroutines go on, Discord and claude answer in the end, clocks run, and the approver reads;
\* nobody is assumed to react.
FairSpec ==
    /\ Spec
    /\ \A g \in Gates : WF_vars(GateStep(g))
    /\ \A p \in Plans : WF_vars(PlanStep(p))
    /\ \A r \in Requests : WF_vars(Read(r) \/ GiveUp(r))
    /\ WF_vars(Tick)
-----------------------------------------------------------------------------
TypeOK ==
    /\ gate \in [Gates -> Stages] /\ future \in [Gates -> Futures] /\ pending \subseteq Gates
    /\ wait \in [Gates -> 0..Window] /\ skip \subseteq Plans
    /\ command \in [Requests -> Commands] /\ asker \in [Requests -> Askers]
    /\ age \in [Requests -> 0..SocketTimeout]
    /\ answer \in [Requests -> {"none", "yes", "no", "closed"}]
    /\ clicks \in [Gates -> Seq(Emoji)]
    /\ told \in [Feeds -> [Gates -> 0..MaxClicks]] /\ early \in [Gates -> 0..MaxClicks]
    /\ consent \subseteq Gates /\ crashed \in BOOLEAN

(* Nothing runs without consent: neither a command that is not allow-listed in all its parts
   (request_discord_approval: "True only on an explicit yes"), nor a plan without !yolo; and the
   first reaction that the bridge takes decides, whichever client was told first. *)
NothingWithoutConsent ==
    /\ \A r \in Requests :
          asker[r] = "allowed" =>
              \/ r \in consent
              \/ command[r] # <<>> /\ \A i \in DOMAIN command[r] : command[r][i] = "listed"
    /\ \A p \in Plans : gate[p] = "executing" => p \in consent \cup skip

(* "The approver's socket read timeout must be LONGER than the human reaction window"
   (config.approver_socket_timeout): it never gives up on a gate that can still be answered. *)
HumanIsHeard ==
    \A r \in Requests : asker[r] = "gaveup" => gate[r] \in {"notifying", "over"}

(* A gate that has been answered, has timed out or was lost in a restart takes no more
   reactions (pending_actions), so a late yes does nothing. *)
NoLateAnswer ==
    \A g \in pending : gate[g] = "waiting" /\ future[g] = "open"

(* Every gate ends, whoever reacts to it with whatever: a stray emoji, which makes the gate
   deaf, does not make it wait for ever. *)
EveryGateEnds == \A g \in Gates : gate[g] # "idle" ~> gate[g] = "over"
=============================================================================
