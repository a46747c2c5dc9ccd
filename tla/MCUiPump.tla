----------------------------- MODULE MCUiPump -----------------------------
(* Instance of UiPump for TLC.                                             *)
EXTENDS UiPump
===========================================================================
