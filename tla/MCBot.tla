-------------------------------- MODULE MCBot --------------------------------
(***************************************************************************)
(* Small instances of Bot for TLC.                                         *)
(***************************************************************************)
EXTENDS Bot, TLC

CONSTANTS s1, s2

BothModes == {"webhook", "polling"}

WebhookOnly == {"webhook"}

AllHandlers == {"ask", "right", "wrong", "other"}

=============================================================================
