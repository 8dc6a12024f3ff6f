-------------------------------- MODULE Startup --------------------------------
(***************************************************************************)
(* The executor's start (executor.py, main): the egress canary             *)
(* (bridge/egress.py), whose probes look at the network one after the      *)
(* other, and the settings canaries (bridge/runner.py), which look whether *)
(* the deny rules are in force.  What is transient is retried without end, *)
(* what is wrong ends the process, and only then does it serve.            *)
(***************************************************************************)
EXTENDS Naturals

CONSTANTS
    ExecBash,     \* ENABLE_EXEC_BASH: the verify and exec-Bash tier is on (m4_live)
    Worlds,       \* bound: the surroundings it may start in
    MaxChanges    \* bound: what changes around the container during one start

\* What a CONNECT through the proxy shows.
Via == {"tunneled", "denied", "inconclusive"}

\* proxy: EGRESS_PROXY_URL is set.  skip: BRIDGE_SKIP_CANARY is.  direct: there is a route
\* past the proxy.  control, required, forbidden: the three kinds of host.  writable: the base
\* settings can be rewritten.  login: claude can run.  denies, execDenies: claude, told to,
\* tries the forbidden command and is denied it (it may not even try: canary_passed takes that
\* for dropped rules), by the base and by the derived settings.
Surroundings ==
    [proxy : BOOLEAN, skip : BOOLEAN,
     direct : BOOLEAN, control : Via, required : Via, forbidden : Via,
     writable : BOOLEAN, login : BOOLEAN, denies : BOOLEAN, execDenies : BOOLEAN]

ASSUME StartupAssumption ==
    ExecBash \in BOOLEAN /\ Worlds \subseteq Surroundings /\ MaxChanges \in Nat

Phases == {"direct", "control", "required", "forbidden", "classify", "base", "settings",
           "exec settings", "serving", "refused", "down"}

VARIABLES
    phase,     \* where the executor's main is
    around,    \* what is around it
    found,     \* what the probes of this round have seen
    changes    \* changes since the process started

startup == <<phase, around, found, changes>>

Nothing == [proxy |-> TRUE, skip |-> FALSE, direct |-> FALSE, control |-> "denied",
            required |-> "tunneled", forbidden |-> "denied", writable |-> FALSE,
            login |-> TRUE, denies |-> TRUE, execDenies |-> TRUE]

\* canary_gate looks at the network only when there is a proxy.
FirstPhase(s) == IF s.proxy THEN "direct" ELSE "base"

Boot ==
    /\ around' \in Worlds
    /\ phase' = FirstPhase(around')
    /\ found' = Nothing
    /\ changes' = 0

StartupInit ==
    /\ around \in Worlds
    /\ phase = FirstPhase(around)
    /\ found = Nothing
    /\ changes = 0
-----------------------------------------------------------------------------
After == [direct |-> "control", control |-> "required", required |-> "forbidden",
          forbidden |-> "classify"]

\* run_egress_canary: one connection attempt after the other.
Probe ==
    /\ phase \in DOMAIN After
    /\ found' = [found EXCEPT ![phase] = around[phase]]
    /\ phase' = After[phase]
    /\ UNCHANGED <<around, changes>>

\* Mutant of Proved: a probe that proves nothing counts as a denial.
NotTunneled(status) == status # "tunneled"

\* Only an explicit refusal proves that the proxy denies by default.
Proved(status) == status = "denied"

\* classify_egress, in its order.
Egress ==
    CASE found.direct -> "open"
      [] found.control = "tunneled" -> "open proxy"
      [] found.forbidden = "tunneled" -> "peer reachable"
      [] ~Proved(found.control) \/ ~Proved(found.forbidden) -> "inconclusive"
      [] found.required # "tunneled" -> "required down"
      [] OTHER -> "ok"

\* Serving or refused, it looks no more at what is around it.
Goto(p) ==
    /\ phase' = p
    /\ found' = Nothing
    /\ IF p \in {"serving", "refused"} THEN around' = Nothing /\ changes' = 0
                                       ELSE UNCHANGED <<around, changes>>

\* Mutant of Violation: a probe without an answer is one, too.
ViolationOrNone(v) == v \in {"open", "open proxy", "peer reachable", "inconclusive"}

Violation(v) == v \in {"open", "open proxy", "peer reachable"}

\* canary_gate: a violation ends the process, anything else but success is retried.
Classify ==
    /\ phase = "classify"
    /\ Goto(CASE Egress = "ok" -> "base"
              [] Violation(Egress) -> "refused"
              [] OTHER -> "direct")

\* assert_settings_base_readonly.
CheckBase == phase = "base" /\ Goto(IF around.writable THEN "refused" ELSE "settings")

AfterSettings == IF ExecBash THEN "exec settings" ELSE "serving"

\* settings_canary_gate, unless main skips it: retried while claude cannot run.
SettingsCanary ==
    /\ phase = "settings"
    /\ Goto(CASE around.skip -> AfterSettings
              [] ~around.skip /\ ~around.login -> "settings"
              [] ~around.skip /\ around.login /\ ~around.denies -> "refused"
              [] OTHER -> AfterSettings)

\* The derived settings: only rules that are seen not to fire stop the start.
ExecCanary ==
    /\ phase = "exec settings"
    /\ Goto(IF ~around.skip /\ around.login /\ ~around.execDenies THEN "refused" ELSE "serving")

\* Until it serves, its surroundings may change.
Change ==
    /\ phase \notin {"serving", "refused", "down"}
    /\ changes < MaxChanges
    /\ changes' = changes + 1
    /\ \/ \E h \in {"control", "required", "forbidden"}, s \in Via :
             around' = [around EXCEPT ![h] = s]
       \/ \E f \in {"direct", "login"} : around' = [around EXCEPT ![f] = ~@]
    /\ UNCHANGED <<phase, found>>

StartupStep == Probe \/ Classify \/ CheckBase \/ SettingsCanary \/ ExecCanary
-----------------------------------------------------------------------------
\* Contained, where there is a proxy, and with deny rules in force that claude cannot rewrite,
\* unless BRIDGE_SKIP_CANARY takes them on trust.
Sound(s) ==
    /\ s.proxy => ~s.direct /\ s.control = "denied" /\ s.forbidden = "denied"
    /\ ~s.writable
    /\ ~s.skip => s.denies /\ (ExecBash => s.execDenies)

\* Something that no retry mends.
Unsound(s) ==
    \/ s.direct \/ s.control = "tunneled" \/ s.forbidden = "tunneled"
    \/ s.writable \/ ~s.denies \/ ~s.execDenies

StartupTypeOK ==
    /\ phase \in Phases
    /\ around \in Surroundings
    /\ found \in Surroundings
    /\ changes \in 0..MaxChanges
=============================================================================
