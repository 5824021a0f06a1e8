----------------------------- MODULE MC_Editor -----------------------------
(***************************************************************************)
(* A short script with a block that starts the map, one that sets a yaw and *)
(* presses attack, and one that sets other values.                          *)
(***************************************************************************)
EXTENDS Editor

MCScript ==
    << [NewBlock(0) EXCEPT !.commands = <<"record">>],
       [NewBlock(2) EXCEPT !.convars = "tas_strafe_yaw" :> 1, !.toggles = "attack" :> TRUE],
       [NewBlock(4) EXCEPT !.convars = "tas_view_yaw" :> 1] >>

MCOptimized == {<< [NewBlock(0) EXCEPT !.convars = "tas_strafe_yaw" :> 0],
                   [NewBlock(1) EXCEPT !.toggles = "attack" :> FALSE] >>}

\* Edits that go through SetConvar and SetToggle or announce themselves.
MCValueCommands ==
    {"skip", "advance", "savestate", "cvar", "toggle", "strafe", "swim", "view", "mouse",
     "confirm", "cancel", "revert", "accept", "add_empty", "prune"}

\* Edits that move and remove blocks.
MCBlockCommands ==
    {"skip", "shot", "mouse", "confirm", "cancel", "impulse", "remove_shot", "shrink", "delete",
     "shift", "shift_stack", "shots", "random_toggle", "drag",
     "init"}

MCCommands == [values |-> MCValueCommands, blocks |-> MCBlockCommands]

\* Just what the disagreement needs.
MCSavestateCommands == [values |-> {"skip", "savestate", "cvar"}]

MCMoves == {-3, -2, 1}

=============================================================================
