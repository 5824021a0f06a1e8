---------------------------- MODULE MC_Datagram ----------------------------
(* Messages of one full part, of two parts and of three, the last one short.  *)
EXTENDS Datagram

MCUnit == 1 .. 10

MCMessage == {<<1, 2>>, <<3, 4, 5>>, <<6, 7, 8, 9, 10>>}

=============================================================================
