--------------------------- MODULE MCRdtTransfer ----------------------------
(***************************************************************************)
(* Instances of RdtTransfer for TLC.                                       *)
(***************************************************************************)
EXTENDS RdtInvariant

\* Files of seven and nine distinct bytes: with DATASIZE = 2 four and five
\* packets, the last one short.
Bytes7 == <<10, 11, 12, 13, 14, 15, 16>>
Bytes9 == Bytes7 \o <<17, 18>>
=============================================================================
