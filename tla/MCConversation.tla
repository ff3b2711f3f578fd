--------------------------- MODULE MCConversation ---------------------------
(* Small instances of Conversation for TLC.  No definition tells one auth  *)
(* session, or one face request, from another, and the run checks safety.  *)
EXTENDS Conversation, TLC

Symmetry == Permutations(Auths) \cup Permutations(Requests)
=============================================================================
