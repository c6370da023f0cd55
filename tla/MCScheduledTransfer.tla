------------------------ MODULE MCScheduledTransfer -------------------------
(***************************************************************************)
(* ScheduledTransfer with packets of two pairs: schedules of zero, one,    *)
(* two and three packets, the last one full or not.                        *)
(***************************************************************************)
EXTENDS ScheduledTransfer
=============================================================================
