----------------------------- MODULE Savestates -----------------------------
(***************************************************************************)
(* The table of savestates (Source/tas/savestate.cpp), as operators on a    *)
(* record h that has the fields                                             *)
(*   savestateMap  script frame -> [number, map]                            *)
(*   save_number   the number of the next file                              *)
(*   files         number -> the game SS wrote to that file                 *)
(*   world         the running game, with the map it is in                  *)
(***************************************************************************)
EXTENDS Script, SequencesExt

\* Mutant: the number of the file is used again.
Write_Savestate_Bug(h, frame) ==
    [h EXCEPT !.files = With(@, h.save_number, h.world),
              !.savestateMap = With(@, frame, [number |-> h.save_number, map |-> h.world.map])]

\* Create_Savestate from the point where it writes the file.
Write_Savestate(h, frame) ==
    [h EXCEPT !.files = With(@, h.save_number, h.world),
              !.savestateMap = With(@, frame, [number |-> h.save_number, map |-> h.world.map]),
              !.save_number = @ + 1]

LastSavestate(h) == CHOOSE f \in DOMAIN h.savestateMap : \A e \in DOMAIN h.savestateMap : e <= f

\* The frame Savestate_Load_State returns: the last savestate up to the frame.
Savestate_Frame(h, frame) ==
    LET upto == {f \in DOMAIN h.savestateMap : f <= frame}
    IN  IF upto = {} THEN -1 ELSE CHOOSE f \in upto : \A e \in upto : e <= f

Savestate_Script_Updated(h, frame) ==
    LET kept == Restrict(h.savestateMap, {f \in DOMAIN h.savestateMap : f <= frame})
    IN  [h EXCEPT !.savestateMap = kept, !.save_number = Cardinality(DOMAIN kept)]

Cmd_TAS_SS_Clear(h) == [h EXCEPT !.savestateMap = <<>>, !.save_number = 0]

\* A savestate is listed under the frame the saved game is on.
LabelsRight(h) ==
    \A f \in DOMAIN h.savestateMap : h.files[h.savestateMap[f].number].frame = f

\* Two savestates never share a file.
FilesDistinct(h) ==
    \A e, f \in DOMAIN h.savestateMap :
        e # f => h.savestateMap[e].number # h.savestateMap[f].number

=============================================================================
