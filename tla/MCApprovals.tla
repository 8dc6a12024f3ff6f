----------------------------- MODULE MCApprovals -----------------------------
(* Instances of Approvals for TLC. *)
EXTENDS Approvals, TLC

CONSTANTS r, p, A, B

OneRequest == {r}
OnePlan    == {p}
BothBots   == {A, B}

SomeCommands == {<<>>, <<"listed", "listed">>, <<"listed", "unlisted">>, <<"listed", "smuggled">>}
=============================================================================
