---------------------------- MODULE MCExecutorIPC ----------------------------
(* Instances of ExecutorIPC for TLC. *)
EXTENDS ExecutorIPC, TLC

CONSTANTS a, b

TwoCalls == {a, b}

\* What is not looked at: a proxy that is not there, deny rules that are not to be checked.
Unchecked ==
    {[Nothing EXCEPT !.proxy = FALSE, !.direct = TRUE],
     [Nothing EXCEPT !.proxy = FALSE, !.forbidden = "tunneled", !.denies = FALSE],
     [Nothing EXCEPT !.skip = TRUE, !.denies = FALSE],
     [Nothing EXCEPT !.skip = TRUE, !.execDenies = FALSE, !.login = FALSE]}

\* All is well, or one thing is wrong (and another may go wrong meanwhile).
OneFault ==
    Unchecked \cup
    {Nothing} \cup {[Nothing EXCEPT !.direct = TRUE], [Nothing EXCEPT !.writable = TRUE],
                   [Nothing EXCEPT !.login = FALSE], [Nothing EXCEPT !.denies = FALSE],
                   [Nothing EXCEPT !.execDenies = FALSE]}
             \cup {[Nothing EXCEPT ![h] = v] : h \in {"control", "required", "forbidden"}, v \in Via}
=============================================================================
