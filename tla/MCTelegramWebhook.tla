------------------------- MODULE MCTelegramWebhook -------------------------
(***************************************************************************)
(* Instances of TelegramWebhook: two threads, one or two updates.           *)
(***************************************************************************)
EXTENDS TelegramWebhook, TLC

CONSTANTS u1, u2

SplitAlone == u1 :> "split"
PhotoAlone == u1 :> "photo"
SplitAndBlank == u1 :> "split" @@ u2 :> "blank"
=============================================================================
