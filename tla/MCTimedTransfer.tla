-------------------------- MODULE MCTimedTransfer --------------------------
(* A file for the run of TimedTransfer: with DATASIZE = 1, four packets.  *)
EXTENDS TimedTransfer

Bytes4 == <<10, 11, 12, 13>>
=============================================================================
