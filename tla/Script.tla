------------------------------- MODULE Script -------------------------------
(***************************************************************************)
(* The TAS script: a vector of frame blocks (struct FrameBlock and class    *)
(* TASScript, libtasquake/src/script_parse.cpp) and the two pure functions  *)
(* of PlaybackInfo that read it.  Operators only; the state machines that   *)
(* use them are ScriptLibrary, Editor and Playback.                         *)
(*                                                                          *)
(* A block has the frame it runs on, the console variables it sets, the     *)
(* toggles it presses (TRUE, "+name") or releases (FALSE, "-name"), and     *)
(* other commands.  convars and toggles are partial functions: the          *)
(* insertion order that ordered_map keeps is not observable here.  Values   *)
(* are abstract: std::to_chars and std::from_chars take a float to the file *)
(* and back unchanged, and two values that GetCommand prints alike are one  *)
(* value.  Indices are one-based.                                           *)
(***************************************************************************)
EXTENDS Integers, Sequences, FiniteSets, Functions

CONSTANTS
    MinShotFrame,   \* the 8 of AddShot and RemoveShot
    CLEAR_RANGE,    \* frames around a new shot that are cleared (2)
    Unstackable     \* convars Stack leaves out: {"skill"}

MaxOf(a, b) == IF a >= b THEN a ELSE b
MinOf(a, b) == IF a <= b THEN a ELSE b

Without(f, name) == Restrict(f, DOMAIN f \ {name})
With(f, name, value) == [x \in DOMAIN f \cup {name} |-> IF x = name THEN value ELSE f[x]]
Over(f, g) == [x \in DOMAIN f \cup DOMAIN g |-> IF x \in DOMAIN f THEN f[x] ELSE g[x]]
Has(f, name, value) == name \in DOMAIN f /\ f[name] = value

\* The elements at the positions, in their order: SelectSeq, of which the proof
\* system has no definition, by position.
Keep(s, positions) ==
    LET kept[i \in 0 .. Len(s)] ==
            IF i = 0 THEN <<>>
            ELSE IF i \in positions THEN Append(kept[i - 1], s[i]) ELSE kept[i - 1]
    IN  kept[Len(s)]

NewBlock(frame) ==
    [frame |-> frame, convars |-> <<>>, toggles |-> <<>>, commands |-> <<>>]

Contentless(b) ==
    DOMAIN b.convars = {} /\ DOMAIN b.toggles = {} /\ b.commands = <<>>

\* FrameBlock::Stack
Stack(stacked, b) ==
    [stacked EXCEPT
        !.toggles = Over(b.toggles, @),
        !.convars = Over(Restrict(b.convars, DOMAIN b.convars \ Unstackable), @)]

StackAll(blocks) ==
    LET stacked[i \in 0 .. Len(blocks)] ==
            IF i = 0 THEN NewBlock(0) ELSE Stack(stacked[i - 1], blocks[i])
    IN  stacked[Len(blocks)]

\* The first block at or after the frame, or the end.
GetBlockIndex(blocks, frame) ==
    LET late == {i \in DOMAIN blocks : blocks[i].frame >= frame}
    IN  IF late = {} THEN Len(blocks) + 1 ELSE CHOOSE i \in late : \A j \in late : i <= j

\* PlaybackInfo::CalculateStack stops at the first block that is not before
\* the frame, as the loop does.
BlocksBefore(blocks, frame) == SubSeq(blocks, 1, GetBlockIndex(blocks, frame) - 1)

CalculateStack(blocks, frame) == StackAll(BlocksBefore(blocks, frame))

\* Get_Frameblock: the first block at or after the frame, as a set that is
\* empty where the code returns nullptr.
Get_Frameblock(blocks, frame) ==
    {blocks[i] : i \in {GetBlockIndex(blocks, frame)} \cap DOMAIN blocks}

Get_Last_Frame(blocks) == IF blocks = <<>> THEN 0 ELSE blocks[Len(blocks)].frame

CurrentFrameHasBlock(blocks, frame) == \E i \in DOMAIN blocks : blocks[i].frame = frame

-----------------------------------------------------------------------------
\* GetBlockForInsertion: the script with a block for the frame; the block is at
\* GetBlockIndex(blocks, frame) before and after.
GetBlockForInsertion(blocks, frame) ==
    LET i == GetBlockIndex(blocks, frame)
    IN  IF i <= Len(blocks) /\ blocks[i].frame = frame
        THEN blocks
        ELSE SubSeq(blocks, 1, i - 1) \o <<NewBlock(frame)>> \o SubSeq(blocks, i, Len(blocks))

\* The script with the block for the frame changed.
EditBlock(blocks, frame, Change(_)) ==
    LET i    == GetBlockIndex(blocks, frame)
        with == GetBlockForInsertion(blocks, frame)
    IN  SubSeq(with, 1, i - 1) \o <<Change(with[i])>> \o SubSeq(with, i + 1, Len(with))

AddCvar(blocks, cmd, value, frame) ==
    EditBlock(blocks, frame, LAMBDA b : [b EXCEPT !.convars = With(@, cmd, value)])

AddToggle(blocks, cmd, state, frame) ==
    EditBlock(blocks, frame, LAMBDA b : [b EXCEPT !.toggles = With(@, cmd, state)])

AddCommand(blocks, cmd, frame) ==
    EditBlock(blocks, frame, LAMBDA b : [b EXCEPT !.commands = Append(@, cmd)])

RemoveCvarsFromRange(blocks, name, lo, hi) ==
    [i \in DOMAIN blocks |->
        IF blocks[i].frame \in lo .. hi
        THEN [blocks[i] EXCEPT !.convars = Without(@, name)]
        ELSE blocks[i]]

RemoveTogglesFromRange(blocks, name, lo, hi) ==
    [i \in DOMAIN blocks |->
        IF blocks[i].frame \in lo .. hi
        THEN [blocks[i] EXCEPT !.toggles = Without(@, name)]
        ELSE blocks[i]]

Prune(blocks, lo, hi) ==
    Keep(blocks, {i \in DOMAIN blocks : ~(Contentless(blocks[i]) /\ blocks[i].frame \in lo .. hi)})

\* Prune with a lower bound only.
PruneFrom(blocks, lo) ==
    Keep(blocks, {i \in DOMAIN blocks : ~(Contentless(blocks[i]) /\ blocks[i].frame >= lo)})

RemoveBlocksAfterFrame(blocks, frame) ==
    Keep(blocks, {i \in DOMAIN blocks : blocks[i].frame <= frame})

-----------------------------------------------------------------------------
\* A shot turns the view `turn_frames' before `frame', presses attack on the
\* frame before and releases it on the frame.
ShootOffFrame(frame) == MaxOf(MinShotFrame, frame)
ShootFrame(frame) == MaxOf(MinShotFrame, frame - 1)
TurnFrame(frame, turn_frames) == MaxOf(MinShotFrame, frame - turn_frames)

\* Mutant: the release is looked for with the wrong state.
ShotPresent_Bug(blocks, pitch, yaw, frame, turn_frames) ==
    /\ \E b \in Get_Frameblock(blocks, TurnFrame(frame, turn_frames)) :
          Has(b.convars, "tas_view_pitch", pitch) /\ Has(b.convars, "tas_view_yaw", yaw)
    /\ \E b \in Get_Frameblock(blocks, ShootOffFrame(frame)) : Has(b.toggles, "attack", TRUE)

\* The three tests of AddShot: the shot is already there.
ShotPresent(blocks, pitch, yaw, frame, turn_frames) ==
    /\ \E b \in Get_Frameblock(blocks, TurnFrame(frame, turn_frames)) :
          Has(b.convars, "tas_view_pitch", pitch) /\ Has(b.convars, "tas_view_yaw", yaw)
    /\ \E b \in Get_Frameblock(blocks, ShootFrame(frame)) : Has(b.toggles, "attack", TRUE)
    /\ \E b \in Get_Frameblock(blocks, ShootOffFrame(frame)) : Has(b.toggles, "attack", FALSE)

\* Mutant: the toggles around the shot are not cleared.
PlaceShot_Bug(blocks, pitch, yaw, frame, turn_frames) ==
    LET turn  == TurnFrame(frame, turn_frames)
        noyaw == RemoveCvarsFromRange(blocks, "tas_view_yaw",
                                      turn - CLEAR_RANGE, turn + CLEAR_RANGE)
        view  == AddCvar(AddCvar(RemoveCvarsFromRange(noyaw, "tas_view_pitch",
                                      turn - CLEAR_RANGE, turn + CLEAR_RANGE),
                                 "tas_view_yaw", yaw, turn),
                         "tas_view_pitch", pitch, turn)
    IN  Prune(AddToggle(AddToggle(view, "attack", TRUE, ShootFrame(frame)),
                        "attack", FALSE, ShootOffFrame(frame)),
              turn - CLEAR_RANGE, ShootOffFrame(frame) + CLEAR_RANGE)

\* The script AddShot leaves when the shot is not there yet.
PlaceShot(blocks, pitch, yaw, frame, turn_frames) ==
    LET turn    == TurnFrame(frame, turn_frames)
        shoot   == ShootFrame(frame)
        off     == ShootOffFrame(frame)
        noyaw   == RemoveCvarsFromRange(blocks, "tas_view_yaw",
                                        turn - CLEAR_RANGE, turn + CLEAR_RANGE)
        noview  == RemoveCvarsFromRange(noyaw, "tas_view_pitch",
                                        turn - CLEAR_RANGE, turn + CLEAR_RANGE)
        cleared == RemoveTogglesFromRange(noview, "attack",
                                          shoot - CLEAR_RANGE, off + CLEAR_RANGE)
        view    == AddCvar(AddCvar(cleared, "tas_view_yaw", yaw, turn),
                           "tas_view_pitch", pitch, turn)
    IN  Prune(AddToggle(AddToggle(view, "attack", TRUE, shoot), "attack", FALSE, off),
              turn - CLEAR_RANGE, off + CLEAR_RANGE)

\* The script and the value AddShot returns.
AddShot(blocks, pitch, yaw, frame, turn_frames) ==
    IF ShotPresent(blocks, pitch, yaw, frame, turn_frames)
    THEN [blocks |-> blocks, changed |-> FALSE]
    ELSE [blocks |-> PlaceShot(blocks, pitch, yaw, frame, turn_frames), changed |-> TRUE]

RemoveShot(blocks, frame, turn_frames) ==
    LET turn   == TurnFrame(frame, turn_frames)
        shoot  == ShootFrame(frame)
        off    == ShootOffFrame(frame)
        noyaw  == RemoveCvarsFromRange(blocks, "tas_view_yaw", turn, turn)
        noview == RemoveCvarsFromRange(noyaw, "tas_view_pitch", turn, turn)
    IN  Prune(RemoveTogglesFromRange(noview, "attack", shoot, off), turn, off)

-----------------------------------------------------------------------------
\* The furthest a block may move to the left: up to its predecessor, or frame 0.
MinDelta(blocks, i) ==
    (IF i = 1 THEN 0 ELSE blocks[i - 1].frame) - blocks[i].frame

\* Mutant: the move to the right is not limited by the next block.
ShiftSingleBlock_Bug(blocks, i, delta) ==
    LET d == IF delta < 0 THEN MaxOf(delta, MinDelta(blocks, i)) ELSE delta
    IN  [blocks EXCEPT ![i].frame = @ + d]

ShiftSingleBlock(blocks, i, delta) ==
    LET d == IF delta < 0 THEN MaxOf(delta, MinDelta(blocks, i))
             ELSE IF i = Len(blocks) THEN delta
             ELSE MinOf(delta, blocks[i + 1].frame - blocks[i].frame)
    IN  [blocks EXCEPT ![i].frame = @ + d]

ShiftBlocks(blocks, i, delta) ==
    LET d == IF delta < 0 THEN MaxOf(delta, MinDelta(blocks, i)) ELSE delta
    IN  [k \in DOMAIN blocks |->
            IF k >= i THEN [blocks[k] EXCEPT !.frame = @ + d] ELSE blocks[k]]

\* Mutant: the block on the frame is kept.
AddScript_Bug(blocks, script, frame) ==
    LET moved == [i \in DOMAIN script |-> [script[i] EXCEPT !.frame = @ + frame]]
    IN  BlocksBefore(blocks, frame + 1) \o Keep(moved, {i \in DOMAIN moved : ~Contentless(moved[i])})

\* AddScript keeps the blocks up to the first one at or after the frame and
\* appends the other script's blocks that have content, moved to the frame.
AddScript(blocks, script, frame) ==
    LET moved == [i \in DOMAIN script |-> [script[i] EXCEPT !.frame = @ + frame]]
    IN  BlocksBefore(blocks, frame) \o Keep(moved, {i \in DOMAIN moved : ~Contentless(moved[i])})

\* Mutant: the block on start_frame is neither stacked nor moved.
GetTimeShiftedVersion_Bug(blocks, start_frame) ==
    LET past   == BlocksBefore(blocks, start_frame)
        future == Keep(blocks, {i \in DOMAIN blocks : blocks[i].frame > start_frame})
    IN  <<StackAll(past)>> \o [i \in DOMAIN future |->
                                  [future[i] EXCEPT !.frame = @ - start_frame]]

\* PlaybackInfo::GetTimeShiftedVersion: the script from start_frame on, with
\* everything up to it stacked in a block on frame 0.  Only the commands of
\* the last block on start_frame itself are kept.
GetTimeShiftedVersion(blocks, start_frame) ==
    LET past    == RemoveBlocksAfterFrame(blocks, start_frame)
        future  == Keep(blocks, {i \in DOMAIN blocks : blocks[i].frame > start_frame})
        at      == Keep(past, {i \in DOMAIN past : past[i].frame = start_frame})
        stacked == [StackAll(past) EXCEPT
                       !.commands = IF at = <<>> THEN <<>> ELSE at[Len(at)].commands]
    IN  <<stacked>> \o [i \in DOMAIN future |->
                           [future[i] EXCEPT !.frame = @ - start_frame]]

\* ApplyChanges: the first pair of blocks that differ, 0 if there is none.
FirstDifference(blocks, script) ==
    LET common == MinOf(Len(blocks), Len(script))
        differ == {i \in 1 .. common : blocks[i] # script[i]}
    IN  IF differ = {} THEN 0 ELSE CHOOSE i \in differ : \A j \in differ : i <= j

\* Mutant: only the old block's frame counts.
first_changed_frame_Bug(blocks, script) ==
    LET i == FirstDifference(blocks, script)
    IN  IF i = 0 THEN Get_Last_Frame(blocks) ELSE blocks[i].frame

first_changed_frame(blocks, script) ==
    LET i == FirstDifference(blocks, script)
    IN  IF i = 0 THEN Get_Last_Frame(blocks)
        ELSE MinOf(blocks[i].frame, script[i].frame)

\* Mutant: blocks past the end of a shorter script stay.
ApplyChanges_Bug(blocks, script) ==
    IF FirstDifference(blocks, script) = 0 /\ Len(script) <= Len(blocks)
    THEN blocks ELSE script

ApplyChanges(blocks, script) ==
    LET i == FirstDifference(blocks, script)
        keep == IF i = 0 THEN MinOf(Len(blocks), Len(script)) ELSE i - 1
    IN  SubSeq(blocks, 1, keep) \o SubSeq(script, keep + 1, Len(script))

-----------------------------------------------------------------------------
(* The file format: _Write_To_File and _Load_From_File.  A block is written  *)
(* as a line "+d:" with the distance d to the block before it, then a line   *)
(* per entry.  A "+d:" line is a frame number only if d has no sign          *)
(* (FRAME_NO_REGEX); with a negative d the parser takes it for a command of  *)
(* the block being read.                                                     *)
FrameLine(d) == [kind |-> IF d >= 0 THEN "frame" ELSE "command", name |-> d]

\* The names in the order ordered_map has them, which may be any.
NamesOf(f) == CHOOSE names \in Bijection(1 .. Cardinality(DOMAIN f), DOMAIN f) : TRUE

BlockLines(b, previous) ==
    LET names == NamesOf(b.convars)
        keys  == NamesOf(b.toggles)
    IN  <<FrameLine(b.frame - previous)>>
        \o [k \in DOMAIN names |-> [kind |-> "convar", name |-> names[k], value |-> b.convars[names[k]]]]
        \o [k \in DOMAIN keys |-> [kind |-> "toggle", name |-> keys[k], value |-> b.toggles[keys[k]]]]
        \o [k \in DOMAIN b.commands |-> [kind |-> "command", name |-> b.commands[k]]]

_Write_To_File(blocks) ==
    LET lines[i \in 0 .. Len(blocks)] ==
            IF i = 0 THEN <<>>
            ELSE lines[i - 1] \o BlockLines(blocks[i], IF i = 1 THEN 0 ELSE blocks[i - 1].frame)
    IN  lines[Len(blocks)]

\* The parser's state: the blocks read, the block being read (fb), whether a
\* frame number was seen (fb.parsed) and the running frame.
ParseLine(p, line) ==
    CASE line.kind = "frame" ->
           [blocks  |-> IF p.parsed THEN Append(p.blocks, p.fb) ELSE p.blocks,
            fb      |-> [(IF p.parsed THEN NewBlock(0) ELSE p.fb) EXCEPT
                            !.frame = line.name + p.running],
            parsed  |-> TRUE,
            running |-> line.name + p.running]
      [] line.kind = "convar"  -> [p EXCEPT !.fb.convars = With(@, line.name, line.value)]
      [] line.kind = "toggle"  -> [p EXCEPT !.fb.toggles = With(@, line.name, line.value)]
      [] line.kind = "command" -> [p EXCEPT !.fb.commands = Append(@, line.name)]

\* The parser's state after the lines.
Parsed(lines) ==
    LET parser[i \in 0 .. Len(lines)] ==
            IF i = 0 THEN [blocks |-> <<>>, fb |-> NewBlock(0), parsed |-> FALSE, running |-> 0]
            ELSE ParseLine(parser[i - 1], lines[i])
    IN  parser[Len(lines)]

\* Mutant: the block being read at the end of the file is forgotten.
_Load_From_File_Bug(lines) == Parsed(lines).blocks

_Load_From_File(lines) ==
    LET p == Parsed(lines)
    IN  IF p.parsed THEN Append(p.blocks, p.fb) ELSE p.blocks

-----------------------------------------------------------------------------
\* A block is on a frame, a natural number, and has finitely many entries.
IsEntries(f) == f = [x \in DOMAIN f |-> f[x]] /\ IsFiniteSet(DOMAIN f)

IsBlock(b) ==
    /\ b = [frame |-> b.frame, convars |-> b.convars, toggles |-> b.toggles, commands |-> b.commands]
    /\ b.frame \in Nat
    /\ IsEntries(b.convars) /\ IsEntries(b.toggles)
    /\ b.commands \in Seq(Range(b.commands))

\* A sequence of blocks in order.
Ordered(s) ==
    /\ s \in Seq(Range(s))
    /\ \A i \in DOMAIN s : IsBlock(s[i])
    /\ \A i, j \in DOMAIN s : i <= j => s[i].frame <= s[j].frame

=============================================================================
