-------------------------- MODULE MC_ScriptLibrary --------------------------
(***************************************************************************)
(* Short scripts on frames 0 to 5, the first playable frame being 2 and not *)
(* 8.  The initial scripts are the empty one, the one tas_script_init       *)
(* writes, and one with two neighbouring shots.  The buffer starts at 8     *)
(* bytes, so that the lines fill it at every offset.                        *)
(***************************************************************************)
EXTENDS ScriptLibrary

MCLineLength == [frame |-> 3, convar |-> 5, toggle |-> 4, command |-> 2]

MCDeltas == {-2, 1}

MCInitialScripts ==
    { <<>>,
      <<[NewBlock(0) EXCEPT !.commands = <<"disconnect", "tas_set_seed">>],
        [NewBlock(1) EXCEPT !.commands = <<"record">>],
        NewBlock(2)>>,
      AddShot(AddShot(<<>>, 1, 1, 3, 1).blocks, 1, 2, 5, 2).blocks }

=============================================================================
