---------------------------- MODULE MCChatStore -----------------------------
(* Two queries of one text over up to four session identifiers, with two    *)
(* other requests of the user among them and one turn kept per conversation.*)
EXTENDS ChatStore
=============================================================================
