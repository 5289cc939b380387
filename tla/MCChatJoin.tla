------------------------------ MODULE MCChatJoin ------------------------------
(* One client, two hosts.                                                    *)
EXTENDS ChatJoin
=============================================================================
