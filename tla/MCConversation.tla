--------------------------- MODULE MCConversation ---------------------------
(* Instances of Conversation for TLC. *)
EXTENDS Conversation, TLC

\* The workers do the same.
AnyWorker == Permutations(Workers)
=============================================================================
