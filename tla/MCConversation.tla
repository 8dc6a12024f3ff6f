---------------------------- MODULE MCConversation ----------------------------
(* Instances of Conversation for TLC. *)
EXTENDS Conversation

CONSTANTS root, repo

Directories  == {root, repo}
Repositories == {repo}
=============================================================================
