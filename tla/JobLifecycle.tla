---------------------------- MODULE JobLifecycle ----------------------------
(***************************************************************************)
(* What the bridge promises about the change an execution job produces,    *)
(* with no word on drivers, locks, git or restarts: a change lands only    *)
(* once and only when approved, a change that reached review is closed     *)
(* only by a refusal, and a closed change never comes back.                *)
(***************************************************************************)
CONSTANT Jobs

VARIABLES
    fate,      \* what became of the job's change
    approved,  \* jobs whose change was approved, by the operator or by both auto signals
    refused    \* jobs whose change the operator refused

lifecycleVars == <<fate, approved, refused>>

Fates == {"fresh", "working", "reviewable", "landed", "closed"}

LifecycleTypeOK ==
    /\ fate \in [Jobs -> Fates]
    /\ approved \subseteq Jobs
    /\ refused \subseteq Jobs

LifecycleInit ==
    /\ fate = [j \in Jobs |-> "fresh"]
    /\ approved = {}
    /\ refused = {}

Move(j, from, to) ==
    /\ fate[j] = from
    /\ fate' = [fate EXCEPT ![j] = to]

Begin(j)  == Move(j, "fresh", "working") /\ UNCHANGED <<approved, refused>>
Submit(j) == Move(j, "working", "reviewable") /\ UNCHANGED <<approved, refused>>

Land(j) ==
    /\ j \in approved
    /\ Move(j, "reviewable", "landed")
    /\ UNCHANGED <<approved, refused>>

\* Work that never reached review may be given up: by a failure, a !cancel, a restart.
Abandon(S) ==
    /\ \A j \in S : fate[j] = "working"
    /\ fate' = [j \in Jobs |-> IF j \in S THEN "closed" ELSE fate[j]]
    /\ UNCHANGED <<approved, refused>>

Approve(j) == approved' = approved \cup {j} /\ UNCHANGED <<fate, refused>>

\* A refusal comes too late: the change is closed already, or has landed unnoticed.
Refuse(j) ==
    /\ fate[j] \in {"landed", "closed"}
    /\ refused' = refused \cup {j}
    /\ UNCHANGED <<fate, approved>>

\* A refusal in time closes the change at once.
Drop(j) ==
    /\ fate[j] \in {"working", "reviewable"}
    /\ refused' = refused \cup {j}
    /\ fate' = [fate EXCEPT ![j] = "closed"]
    /\ UNCHANGED approved

LifecycleNext ==
    \/ \E j \in Jobs : Begin(j) \/ Submit(j) \/ Land(j) \/ Approve(j) \/ Refuse(j) \/ Drop(j)
    \/ \E S \in SUBSET Jobs : Abandon(S)

LifecycleSpec == LifecycleInit /\ [][LifecycleNext]_lifecycleVars
=============================================================================
