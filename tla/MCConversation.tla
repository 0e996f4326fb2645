--------------------------- MODULE MCConversation ---------------------------
(* Two texts, so that a record can be replaced by another one; the records   *)
(* do not depend on which is which.                                          *)
EXTENDS Conversation, TLC
Symmetry == Permutations(Texts)
=============================================================================
