------------------------- MODULE MCConversationTurns -------------------------
(* Instances of ConversationTurns for TLC. *)
EXTENDS ConversationTurns, TLC

Alike == Permutations(Call)
=============================================================================
