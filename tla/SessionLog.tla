------------------------------ MODULE SessionLog ------------------------------
(***************************************************************************)
(* What a bot's stored sessions promise to the chats that share them, with *)
(* no word on locks, on loading a session before an agent call or on       *)
(* storing it after: a session grows by one answer at a time, is forgotten *)
(* at once, and what was forgotten never comes back.  A session that is    *)
(* used behind the bot's back is loose: nothing is promised of it.         *)
(***************************************************************************)
CONSTANTS
    Sessions,
    Calls       \* agent calls, each with one answer

VARIABLES
    log,        \* answers each session has
    forgotten,  \* answers each session had once, or that went into a summary of it
    loose       \* sessions about which nothing is promised any more

logVars == <<log, forgotten, loose>>

LogInit ==
    /\ log = [s \in Sessions |-> {}]
    /\ forgotten = [s \in Sessions |-> {}]
    /\ loose = {}

\* The answer of k, in one session only.
Answer(s, k) ==
    /\ \A t \in Sessions : k \notin log[t] \cup forgotten[t]
    /\ log' = [log EXCEPT ![s] = @ \cup {k}]
    /\ UNCHANGED <<forgotten, loose>>

\* The session ends, with all the answers it has and those that summarised it.
Forget(s) ==
    /\ log' = [log EXCEPT ![s] = {}]
    /\ \E answers \in SUBSET Calls :
          /\ log[s] \subseteq answers
          /\ forgotten' = [forgotten EXCEPT ![s] = @ \cup answers]
    /\ UNCHANGED loose

Loosen(s) ==
    /\ log' = [log EXCEPT ![s] = {}]
    /\ forgotten' = [forgotten EXCEPT ![s] = {}]
    /\ loose' = loose \cup {s}

LogNext ==
    \E s \in Sessions \ loose : Forget(s) \/ Loosen(s) \/ \E k \in Calls : Answer(s, k)

LogSpec == LogInit /\ [][LogNext]_logVars
=============================================================================
