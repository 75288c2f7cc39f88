---------------------------- MODULE MCChatTransfer ----------------------------
(* Instances of ChatTransfer for TLC.                                        *)
EXTENDS ChatTransfer

CONSTANTS f1, f2
==============================================================================
