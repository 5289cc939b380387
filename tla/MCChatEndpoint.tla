--------------------------- MODULE MCChatEndpoint ---------------------------
(* An endpoint with two application frames, one of them too long.            *)
EXTENDS ChatEndpoint
=============================================================================
