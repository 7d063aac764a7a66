----------------------------- MODULE MCChatTurn -----------------------------
(* ChatTurn with the symmetry of its model values, for the safety runs. *)
EXTENDS ChatTurn, TLC

Symmetry == Permutations(Session) \cup Permutations(Turn)
=============================================================================
