---------------------------- MODULE MCConversations ----------------------------
(* Two deliveries, of two messages or of one twice; an agent who stays and one who may be away. *)
EXTENDS Conversations
=============================================================================
