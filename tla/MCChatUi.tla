------------------------------- MODULE MCChatUi -------------------------------
(* Two chats of one host.                                                    *)
EXTENDS ChatUi
=============================================================================
