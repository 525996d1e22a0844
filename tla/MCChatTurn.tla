------------------------------ MODULE MCChatTurn ------------------------------
(***************************************************************************)
(* ChatTurn for TLC: a socket on which each turn may supersede the last.   *)
(***************************************************************************)
EXTENDS ChatTurn

CONSTANTS t1, t2
=============================================================================
