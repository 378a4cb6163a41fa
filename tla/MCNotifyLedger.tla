---------------------------- MODULE MCNotifyLedger ----------------------------
(***************************************************************************)
(* NotifyLedger on a small instance; its cfg files give the bounds.        *)
(***************************************************************************)
EXTENDS NotifyLedger

=============================================================================
