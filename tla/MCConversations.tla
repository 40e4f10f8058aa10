-------------------------- MODULE MCConversations --------------------------
(* TLC instances of Conversations: text messages are interchangeable. *)
EXTENDS Conversations, TLC

TextSymmetry == Permutations(Msg \ Voice)
=============================================================================
