------------------------- MODULE MC_RandomIntegers -------------------------
(***************************************************************************)
(* GenerateRandomIntegers for every argument list of a small box.  MAX_N is *)
(* below the largest number, so that the capacity check refuses some calls, *)
(* and the box has intervals that are too short and intervals that fit with *)
(* no frame to spare.                                                       *)
(***************************************************************************)
EXTENDS RandomIntegers

MCArgs == [number : 0 .. 5, min : {-1, 0}, max : 1 .. 5, minGap : 0 .. 2]

=============================================================================
