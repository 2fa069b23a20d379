---------------------------- MODULE MCProcessCancel ----------------------------
(* ProcessCancel for TLC.  Nothing but its constants.                         *)
EXTENDS ProcessCancel
=============================================================================
