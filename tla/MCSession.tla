----------------------------- MODULE MCSession ------------------------------
(* A file for the run of Session: with DATASIZE = 1, two packets.          *)
EXTENDS Session

Bytes2 == <<10, 11>>
=============================================================================
