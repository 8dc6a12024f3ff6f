----------------------------- MODULE MCAutoChain -----------------------------
(* Instances of AutoChain for TLC. *)
EXTENDS AutoChain, TLC

CONSTANT c1

OneChain == {c1}

\* One task more than AUTO_MAX_JOBS.
ThreeTasks == c1 :> 3
=============================================================================
