---------------------------- MODULE MC_Playback ----------------------------
(***************************************************************************)
(* A script as tas_script_init writes it, on earlier frames, followed by    *)
(* two blocks that set a console variable and press and release attack.     *)
(***************************************************************************)
EXTENDS Playback

MCScript ==
    << [NewBlock(1) EXCEPT !.commands = <<"disconnect">>],
       [NewBlock(2) EXCEPT !.commands = <<"record">>],
       [NewBlock(4) EXCEPT !.convars = "tas_strafe" :> 1, !.toggles = "attack" :> TRUE],
       [NewBlock(6) EXCEPT !.convars = "tas_strafe" :> 2, !.toggles = "attack" :> FALSE] >>

MCOtherScript == Append(SubSeq(MCScript, 1, 2), [NewBlock(5) EXCEPT !.convars = "tas_strafe" :> 3])

MCScripts == {MCScript}

\* Navigation: what a user does to look at one frame after the other.
MCNavigation ==
    {<<"script_play">>, <<"savestate">>}
    \cup {<<"script_skip", n>> : n \in {0, 3, 5, 7}}
    \cup {<<"script_advance", n>> : n \in {-1, 1, 2}}
    \cup {<<"script_skip_block", n>> : n \in {-1, 2}}
    \cup {<<"script_advance_block", n>> : n \in {-1, 1}}

MCPatientCommands ==
    MCNavigation \cup {<<"script_stop">>, <<"ss_clear">>, <<"script_load", MCOtherScript>>}

\* For a user who types in any frame, several commands in a frame included.
MCRuns ==
    {<<"script_skip", 5>>, <<"script_skip", 4>>, <<"script_play">>, <<"savestate">>, <<"ss_clear">>}

MCAnyCommands ==
    MCRuns
    \cup {<<"script_stop">>, <<"script_advance", 1>>, <<"script_advance", -1>>,
          <<"script_load", MCOtherScript>>, <<"pause">>, <<"disconnect">>,
          <<"afterframes_clear">>, <<"afterframes_await_load">>}

MCUserCommands == [patient |-> MCPatientCommands, runs |-> MCRuns, any |-> MCAnyCommands]
MCMaxTyped == [patient |-> 3, runs |-> 4, any |-> 3]

=============================================================================
