---------------------------- MODULE MCPacketWire ----------------------------
(* Values for the run of PacketWire: numbers at the edges of one and two   *)
(* bytes, payloads of every length modulo three with signed bytes, files   *)
(* so that every entry of the CRC table is used, alone and in triples.     *)
EXTENDS PacketWire

EdgeFields == {0, 1, 255, 256, 43690, 65535, 65536}

SignedPayloads == {<<>>, << -1 >>, << -128, 127 >>, <<0, -86, 65, 7>>}

ShortFiles ==
  {<<>>} \cup {<<b>> : b \in 0 .. 255} \cup [1 .. 3 -> {0, 1, 137, 255}]

DamagedBytes == {0, 1, 170, 255}
=============================================================================
