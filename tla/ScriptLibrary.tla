--------------------------- MODULE ScriptLibrary ---------------------------
(***************************************************************************)
(* A script under the editing operations of TASScript, called in any order  *)
(* with any of a set of arguments: what the editor, the drag editor and the *)
(* optimizer's mutators do to a script between loading and saving it.       *)
(***************************************************************************)
EXTENDS Buffer

CONSTANTS
    InitialScripts,   \* scripts as loaded from file or made by tas_script_init
    Frames,           \* frames the callers pass
    Names, Values,    \* console variables and their values
    TurnFrames,       \* turn_frames arguments: positive, the commands check it
    Deltas,           \* distances blocks are shifted by
    MaxEdits          \* bound: editing operations per behaviour

\* The loader adds unsigned distances up, so a script starts in order.
ASSUME LibraryAssumption ==
    /\ \A s \in InitialScripts : Ordered(s)
    /\ Frames \subseteq Nat
    /\ TurnFrames \subseteq Nat \ {0}
    /\ Deltas \subseteq Int
    /\ MaxEdits \in Nat
    /\ MinShotFrame \in Nat /\ CLEAR_RANGE \in Nat

VARIABLES
    blocks,   \* TASScript::blocks
    edits     \* how many operations were done

vars == <<blocks, edits>>

Edit(result) ==
    /\ edits < MaxEdits
    /\ edits' = edits + 1
    /\ blocks' = result

Init == blocks \in InitialScripts /\ edits = 0

DoAddCvar == \E n \in Names, v \in Values, f \in Frames : Edit(AddCvar(blocks, n, v, f))
DoAddToggle == \E state \in BOOLEAN, f \in Frames : Edit(AddToggle(blocks, "attack", state, f))
DoAddCommand == \E f \in Frames : Edit(AddCommand(blocks, "impulse", f))
DoAddShot ==
    \E p, y \in Values, f \in Frames, t \in TurnFrames : Edit(AddShot(blocks, p, y, f, t).blocks)
DoRemoveShot == \E f \in Frames, t \in TurnFrames : Edit(RemoveShot(blocks, f, t))
DoRemoveCvars == \E n \in Names, lo, hi \in Frames : Edit(RemoveCvarsFromRange(blocks, n, lo, hi))
DoRemoveToggles == \E lo, hi \in Frames : Edit(RemoveTogglesFromRange(blocks, "attack", lo, hi))
DoPrune == \E lo, hi \in Frames : Edit(Prune(blocks, lo, hi))
DoPruneFrom == \E lo \in Frames : Edit(PruneFrom(blocks, lo))
DoRemoveBlocksAfterFrame == \E f \in Frames : Edit(RemoveBlocksAfterFrame(blocks, f))
DoShiftSingleBlock ==
    \E i \in DOMAIN blocks, d \in Deltas : Edit(ShiftSingleBlock(blocks, i, d))
DoShiftBlocks == \E i \in DOMAIN blocks, d \in Deltas : Edit(ShiftBlocks(blocks, i, d))
DoAddScript ==
    \E f \in Frames : Edit(AddScript(blocks, GetTimeShiftedVersion(blocks, f), f))
DoReload == Edit(_Load_From_File(_Write_To_File(blocks)))

Finished == edits = MaxEdits /\ UNCHANGED vars

Next ==
    \/ DoAddCvar \/ DoAddToggle \/ DoAddCommand \/ DoAddShot \/ DoRemoveShot
    \/ DoRemoveCvars \/ DoRemoveToggles \/ DoPrune \/ DoPruneFrom
    \/ DoRemoveBlocksAfterFrame \/ DoShiftSingleBlock \/ DoShiftBlocks
    \/ DoAddScript \/ DoReload \/ Finished

Spec == Init /\ [][Next]_vars

-----------------------------------------------------------------------------
\* Block frames never decrease.  GetBlockIndex, CalculateStack and the hook that
\* plays the script stop at the first block that is late enough, so all three
\* rely on it; every operation must keep it.
Sorted == \A i \in DOMAIN blocks : \A j \in DOMAIN blocks : i <= j => blocks[i].frame <= blocks[j].frame

\* A script comes back as it was, from its file and from a message with any number of
\* bytes before it.  A distance between blocks is read as a frame number only without
\* a sign, so this needs every script that edits reach in order; and where a line
\* fills the buffer to its last byte, the null character that replaces the newline
\* must do as the end of the line.
RoundTrips ==
    /\ _Load_From_File(_Write_To_File(blocks)) = blocks
    /\ \A offset \in 1 .. BUFFER_SIZE :
          LET buffer  == [NewBuffer EXCEPT !.data = [k \in 1 .. offset |-> <<"byte">>]]
              message == Write_To_Memory(blocks, buffer)
          IN  Load_From_Memory(message.data, offset) = blocks

\* A shot that AddShot places fires, whatever shots and toggles surrounded it: playback
\* presses attack on the frame before, releases it on the frame and leaves it released
\* through the cleared range; and the view has turned, if every frame from the turn to
\* the shot is in the cleared range.  Adding it again finds it there: the edit mode
\* calls AddShot on every frame the mouse is held and counts TRUE as an edit.  (On the
\* first playable frame and before, where the press and the release fall on one frame,
\* neither holds.)
ShotsFire ==
    \A p, y \in Values, f \in {g \in Frames : g > MinShotFrame}, t \in TurnFrames :
        LET shot  == AddShot(blocks, p, y, f, t)
            at(g) == CalculateStack(shot.blocks, g)
        IN  /\ ~AddShot(shot.blocks, p, y, f, t).changed
            /\ shot.changed =>
                  /\ at(f).toggles["attack"]
                  /\ \A g \in f + 1 .. f + CLEAR_RANGE + 1 : ~at(g).toggles["attack"]
                  /\ t <= CLEAR_RANGE + 1 =>
                        /\ at(f).convars["tas_view_pitch"] = p
                        /\ at(f).convars["tas_view_yaw"] = y

\* Cutting the script at a frame and adding it back, what the optimizer does
\* with a script it did not change, keeps what every later frame plays with.
\* (A script with two blocks on one frame keeps the commands of one only, and
\* Stack drops skill.)
SplicePreserves ==
    \A f \in Frames, g \in Frames :
        g > f =>
            LET spliced == AddScript(blocks, GetTimeShiftedVersion(blocks, f), f)
                before == CalculateStack(blocks, g)
                after  == CalculateStack(spliced, g)
            IN  before.convars = after.convars /\ before.toggles = after.toggles

\* ApplyChanges makes the script equal to the one received, be it longer or shorter, and
\* no frame up to the first_changed_frame it reports sees a change, so a savestate taken
\* there is still good (the caller drops the later ones).  That goes as far as the new
\* script does: where blocks were only cut off its end, the frame that is reported is the
\* last of the old script, and between the two the savestates of the old script stay.
PatchesSound ==
    \A n \in Names, v \in Values, f, h \in Frames :
        LET edited == RemoveBlocksAfterFrame(AddCvar(blocks, n, v, f), h)
            good   == MinOf(first_changed_frame(blocks, edited), Get_Last_Frame(edited))
        IN  /\ ApplyChanges(blocks, edited) = edited
            /\ \A g \in Frames : g <= good => BlocksBefore(blocks, g) = BlocksBefore(edited, g)

=============================================================================
