---------------------------- MODULE MC_Optimizer ----------------------------
(* Two scripts with a turn, three cliffs, and searches of half the circle   *)
(* in both directions, in which a mapping of three values and two halvings  *)
(* find the edge.                                                           *)
EXTENDS Optimizer, TLC

Block(frame, yaw) == [NewBlock(frame) EXCEPT !.convars = "tas_strafe_yaw" :> yaw]
Press(frame) == [NewBlock(frame) EXCEPT !.toggles = "attack" :> TRUE]

\* A turn on frame 1 and a toggle on frame 3; and a turn two frames from the current
\* one, with a toggle behind the last frame that is played.
MCScripts == {[script |-> <<Block(0, 0), Block(1, -4), Press(3)>>, frame |-> 0],
              [script |-> <<Block(1, -6), Block(3, 4), Press(6)>>, frame |-> 1]}

Cliff(e, weight) ==
    [cliff |-> e, weight |-> weight,
     value |-> [yaw \in -Half .. Half - 1 |-> IF yaw <= e THEN yaw ELSE Lowest]]

MCObjectives == {Cliff(-3, 0), Cliff(-1, 1), Cliff(2, -1)}
MCSmallYaws == {-1, 1}
MCSearchMaxs == {-8, 8}
=============================================================================
