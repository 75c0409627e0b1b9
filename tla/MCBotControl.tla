---------------------------- MODULE MCBotControl ----------------------------
(***************************************************************************)
(* Instances of BotControl: two panels, which send two POSTs between them.*)
(***************************************************************************)
EXTENDS BotControl, TLC

CONSTANTS p1, p2
=============================================================================
