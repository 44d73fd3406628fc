--------------------------- MODULE MCConversation ---------------------------
(***************************************************************************)
(* Conversation with one user, one notice and two competing answers, and   *)
(* an object that may be replaced by a second one.                         *)
(***************************************************************************)
EXTENDS Conversation
=============================================================================
