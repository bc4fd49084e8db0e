----------------------------- MODULE MCChatTurn -----------------------------
(* ChatTurn with interchangeable turns and conversations, for TLC. *)
EXTENDS ChatTurn, TLC

Symmetry == Permutations(Turn) \union Permutations(Conversation)
=============================================================================
