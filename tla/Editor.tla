------------------------------- MODULE Editor -------------------------------
(***************************************************************************)
(* Editing a script: the commands a user gives while the game waits in edit *)
(* mode on a frame (Source/tas/script_playback.cpp from Edit_Prune on,      *)
(* drag_editing.cpp), and what they leave behind: the script, the values    *)
(* stacked up to the current frame, the savestates.                         *)
(*                                                                          *)
(* Going to a frame is one step here: Playback shows that a run ends in     *)
(* edit mode on its frame.  A game is the frame it is on and the blocks     *)
(* with content that ran in it, so a savestate made before an edit can be   *)
(* told from one that agrees with the script.                               *)
(*                                                                          *)
(* p is the PlaybackInfo record with the savestates; the clock `now' counts *)
(* the user's actions and is what Sys_DoubleTime gives.                     *)
(***************************************************************************)
EXTENDS Savestates

CONSTANTS
    InitialScript,
    Commands,           \* the commands each kind of user gives: "values", "blocks"
    Frames,             \* the frames the user goes to
    Angles,             \* yaw and pitch values
    Snap,               \* tas_edit_snap_threshold: angles are rounded to multiples
    Moves,              \* frames a block is shifted or dragged by
    TurnFrames,         \* turn frames of shots
    WeaponDelay,        \* GetPlayerWeaponDelay
    OptimizedScripts,   \* what the optimizer may offer
    InOrder,            \* TRUE: savestates are made on later and later frames
    Undisturbed,        \* TRUE: nothing else is edited during a drag
    MaxActions          \* bound

ASSUME EditorAssumption ==
    /\ InitialScript # <<>> /\ Snap \in Nat \ {0} /\ MaxActions \in Nat
    /\ DOMAIN Commands \subseteq {"values", "blocks"}
    /\ Frames \subseteq Nat /\ TurnFrames \subseteq Nat \ {0}
    /\ {InOrder, Undisturbed} \subseteq BOOLEAN

VARIABLES
    user,     \* who edits: "values" keeps to commands that go through SetConvar and SetToggle
              \* or announce themselves, "blocks" to those that move and remove blocks
    p,        \* playback and savestates
    m_state,  \* what the mouse edits
    saved,    \* current_strafe, current_yaw, ...: the values when it began
    turn,     \* current_turnframes
    angles,   \* cl.viewangles
    old_angles, \* ... when the game was paused
    drag,     \* the statics of drag_editing.cpp
    now,      \* the clock
    past      \* history: the script and its values when the mode or drag began

vars == <<user, p, m_state, saved, turn, angles, old_angles, drag, now, past>>

View == [yaw : Angles, pitch : Angles]

Default(name) ==
    IF name \in {"tas_view_yaw", "tas_view_pitch"} THEN 999
    ELSE IF name = "tas_strafe_type" THEN 1 ELSE 0

Round(angle) == ((angle + Snap \div 2) \div Snap) * Snap

\* The part of a script that does something.
Effective(blocks) == SelectSeq(blocks, LAMBDA b : ~Contentless(b))

-----------------------------------------------------------------------------
(* Reading and setting values on the current frame *)

\* GetBlockForFrame: every function that reads a value through it also adds an
\* empty block when the frame has none.
GetBlockForFrame(q, frame) == [q EXCEPT !.blocks = GetBlockForInsertion(@, frame)]

BlockHere(q) ==
    IF CurrentFrameHasBlock(q.blocks, q.current_frame)
    THEN q.blocks[GetBlockIndex(q.blocks, q.current_frame)]
    ELSE NewBlock(q.current_frame)

Get_Stacked_Value(q, name) ==
    IF name \in DOMAIN q.stacked.convars THEN q.stacked.convars[name] ELSE Default(name)

Get_Existing_Value(q, name) ==
    IF name \in DOMAIN BlockHere(q).convars THEN BlockHere(q).convars[name]
    ELSE Get_Stacked_Value(q, name)

Has_Existing_Value(q, name) ==
    name \in DOMAIN BlockHere(q).convars \cup DOMAIN q.stacked.convars

Get_Stacked_Toggle(q, cmd) == Has(q.stacked.toggles, cmd, TRUE)

Get_Existing_Toggle(q, cmd) ==
    IF cmd \in DOMAIN BlockHere(q).toggles THEN BlockHere(q).toggles[cmd]
    ELSE Get_Stacked_Toggle(q, cmd)

\* A value that the blocks before set already is taken out of the block.
SetOrErase(f, name, value, stacked_value) ==
    IF stacked_value = value /\ name \in DOMAIN f THEN Without(f, name)
    ELSE With(f, name, value)

\* Mutants: the block keeps the value it would have to override; an edit is not
\* announced to the savestates.
SetConvar_Bug(q, name, value) ==
    LET here == GetBlockForFrame(q, q.current_frame)
    IN  IF Get_Existing_Value(here, name) = value THEN here
        ELSE Savestate_Script_Updated(
                 [here EXCEPT !.last_edited = now,
                     !.blocks = EditBlock(@, q.current_frame, LAMBDA b :
                        [b EXCEPT !.convars =
                           IF Get_Stacked_Value(here, name) = value THEN @
                           ELSE With(@, name, value)])],
                 q.current_frame)

SetConvar_Bug2(q, name, value) ==
    LET here == GetBlockForFrame(q, q.current_frame)
    IN  IF Get_Existing_Value(here, name) = value THEN here
        ELSE [here EXCEPT !.last_edited = now,
                 !.blocks = EditBlock(@, q.current_frame, LAMBDA b :
                    [b EXCEPT !.convars = SetOrErase(@, name, value, Get_Stacked_Value(here, name))])]

SetConvar(q, name, value) ==
    LET here == GetBlockForFrame(q, q.current_frame)
    IN  IF Get_Existing_Value(here, name) = value THEN here
        ELSE Savestate_Script_Updated(
                 [here EXCEPT !.last_edited = now,
                     !.blocks = EditBlock(@, q.current_frame, LAMBDA b :
                        [b EXCEPT !.convars =
                           SetOrErase(@, name, value, Get_Stacked_Value(here, name))])],
                 q.current_frame)

SetToggle(q, cmd, value, frame) ==
    Savestate_Script_Updated(
        [q EXCEPT !.last_edited = now,
            !.blocks = EditBlock(@, frame, LAMBDA b :
               [b EXCEPT !.toggles = SetOrErase(@, cmd, value, Get_Stacked_Toggle(q, cmd))])],
        frame)

SetAll(q, settings) == FoldLeft(LAMBDA r, c : SetConvar(r, c[1], c[2]), q, settings)

AllCvars == {"tas_strafe", "tas_strafe_yaw", "tas_strafe_pitch", "tas_strafe_type",
             "tas_view_yaw", "tas_view_pitch"}

\* What the script sets the variables to before a frame.
Values(blocks, frame) ==
    LET stack == CalculateStack(blocks, frame).convars
    IN  [v \in AllCvars |-> IF v \in DOMAIN stack THEN stack[v] ELSE Default(v)]

\* ... and when the current frame is played.
InForce(q) == Values(q.blocks, q.current_frame + 1)

-----------------------------------------------------------------------------
(* Going to a frame *)

NewGame == [map |-> 0, frame |-> 0, log |-> <<>>]

BlocksOn(blocks, lo, hi) == SelectSeq(blocks, LAMBDA b : lo <= b.frame /\ b.frame < hi)

\* The game goes on for n frames, from script frame `start'.
PlayOn(game, blocks, start, n) ==
    [game EXCEPT !.frame = @ + n, !.log = @ \o Effective(BlocksOn(blocks, start, start + n))]

\* Run_Script with skip: from the last savestate up to the frame, or from the
\* start of the script.
Run_Script(q, frame) ==
    LET ss    == Savestate_Frame(q, frame)
        start == MaxOf(ss, 0)
        game  == IF ss = -1 THEN NewGame ELSE q.files[q.savestateMap[ss].number]
    IN  [q EXCEPT !.world = PlayOn(game, q.blocks, start, frame - start),
                  !.stacked = CalculateStack(q.blocks, frame),
                  !.current_frame = frame]

\* Mutant: the block of the current frame is not stacked.
Continue_Script_Bug(q, frame) ==
    [q EXCEPT !.world = PlayOn(@, q.blocks, q.current_frame, frame - q.current_frame),
              !.stacked = FoldLeft(Stack, @, BlocksOn(q.blocks, q.current_frame + 1, frame)),
              !.current_frame = frame]

\* The game that waits is unpaused and runs up to the frame.
Continue_Script(q, frame) ==
    [q EXCEPT !.world = PlayOn(@, q.blocks, q.current_frame, frame - q.current_frame),
              !.stacked = FoldLeft(Stack, @, BlocksOn(q.blocks, q.current_frame, frame)),
              !.current_frame = frame]

Generic_Advance(q, frame) ==
    IF frame > q.current_frame THEN Continue_Script(q, frame) ELSE Run_Script(q, frame)

-----------------------------------------------------------------------------
(* The user *)

IsDragging == drag.type # "None" /\ drag.index <= Len(p.blocks)

\* A command the user may give now.
Give(command) ==
    /\ command \in Commands[user] /\ user' = user
    /\ now < MaxActions /\ now' = now + 1
    /\ Undisturbed /\ IsDragging => command \in {"drag", "confirm", "cancel"}

\* The script has been loaded and played up to a frame.
Init ==
    /\ user \in DOMAIN Commands
    /\ \E f \in Frames :
          p = Run_Script([blocks |-> InitialScript, current_frame |-> 0, stacked |-> NewBlock(0),
                          last_edited |-> 0, savestateMap |-> <<>>, save_number |-> 0,
                          files |-> <<>>, world |-> NewGame], f)
    /\ m_state = "Locked" /\ saved = <<>> /\ turn = 0
    /\ angles \in View /\ old_angles = angles
    /\ drag = [type |-> "None", index |-> 1, original_frame |-> 0, had |-> FALSE, strafeyaw |-> 0]
    /\ now = 0
    /\ past = [blocks |-> InitialScript, values |-> <<>>]

\* A run unpauses the game, which ends the mouse mode, and stops it with
\* whatever view the script has then.
GoTo(q) ==
    /\ p' = q /\ m_state' = "Locked"
    /\ angles' \in View /\ old_angles' = angles'
    /\ UNCHANGED <<saved, turn, drag, past>>

Skip == Give("skip") /\ \E f \in Frames : GoTo(Run_Script(p, f))

Advance == Give("advance") /\ \E f \in Frames : GoTo(Generic_Advance(p, f))

\* A command that only edits the script.
Edit(q) == UNCHANGED <<m_state, saved, turn, angles, old_angles, drag, past>> /\ p' = q

Cmd_TAS_Savestate ==
    /\ Give("savestate")
    /\ InOrder => \A f \in DOMAIN p.savestateMap : f < p.current_frame
    /\ Edit(Write_Savestate(p, p.current_frame))

\* Script_Playback_Cmd_ExecuteString_Hook: what is typed goes into the script.
TypeCvar(name, value) == Give("cvar") /\ Edit(SetConvar(p, name, value))

TypedCvars == {"tas_strafe", "tas_strafe_yaw", "tas_view_yaw"}

TypeToggle ==
    /\ Give("toggle")
    /\ LET here == GetBlockForFrame(p, p.current_frame)
       IN  Edit(SetToggle(here, "attack", ~Get_Existing_Toggle(here, "attack"), p.current_frame))

TypeImpulse ==
    /\ Give("impulse")
    /\ Edit([p EXCEPT !.last_edited = now,
                      !.blocks = EditBlock(@, p.current_frame, LAMBDA b :
                                    [b EXCEPT !.commands = <<"impulse">>])])

\* Mutant: the edit is not dated.
Cmd_TAS_Optimizer_Accept_Bug ==
    /\ Give("accept")
    /\ \E script \in OptimizedScripts :
          p' = Savestate_Script_Updated(
                   [p EXCEPT !.blocks = AddScript(@, script, p.current_frame)], p.current_frame)
    /\ drag' = IF IsDragging THEN [drag EXCEPT !.type = "None"] ELSE drag
    /\ UNCHANGED <<m_state, saved, turn, angles, old_angles, past>>

Cmd_TAS_Optimizer_Accept ==
    /\ Give("accept")
    /\ \E script \in OptimizedScripts :
          p' = Savestate_Script_Updated(
                   [p EXCEPT !.blocks = AddScript(@, script, p.current_frame), !.last_edited = now],
                   p.current_frame)
    /\ drag' = IF IsDragging THEN [drag EXCEPT !.type = "None"] ELSE drag
    /\ UNCHANGED <<m_state, saved, turn, angles, old_angles, past>>

-----------------------------------------------------------------------------
(* The mouse modes.  A mode may turn the view, by YawCvar and PitchCvar; it  *)
(* remembers the values of SavedCvars and sets ModeSettings.                  *)

YawCvar == [Strafe |-> "tas_strafe_yaw", Swim |-> "tas_strafe_yaw", Yaw |-> "tas_view_yaw",
            Mixed |-> "tas_view_yaw", Shot |-> "tas_view_yaw"]
PitchCvar == [Swim |-> "tas_strafe_pitch", Pitch |-> "tas_view_pitch",
              Mixed |-> "tas_view_pitch", Shot |-> "tas_view_pitch"]

ViewCvars(state) ==
    {YawCvar[s] : s \in {state} \cap DOMAIN YawCvar}
    \cup {PitchCvar[s] : s \in {state} \cap DOMAIN PitchCvar}

SavedCvars(state) ==
    ViewCvars(state) \cup (IF state \in {"Strafe", "Swim"} THEN {"tas_strafe"} ELSE {})

ModeSettings(state) ==
    CASE state = "Strafe" -> << <<"tas_strafe", 1>> >>
      [] state = "Swim"   -> << <<"tas_strafe", 1>>, <<"tas_strafe_type", 4>> >>
      [] OTHER            -> <<>>

\* Get_Yaw_Convar, Get_Pitch_Convar
ViewOr(q, name, angle) == IF Has_Existing_Value(q, name) THEN Get_Existing_Value(q, name) ELSE angle

Enter(state) ==
    LET here  == GetBlockForFrame(p, p.current_frame)
        yaw   == IF state \in DOMAIN YawCvar THEN ViewOr(here, YawCvar[state], angles.yaw)
                 ELSE angles.yaw
        \* Cmd_TAS_Edit_Swim asks Get_Yaw_Convar for the pitch
        other == IF state = "Swim" THEN yaw ELSE angles.pitch
        pitch == IF state \in DOMAIN PitchCvar THEN ViewOr(here, PitchCvar[state], other)
                 ELSE angles.pitch
    IN  /\ m_state' = state
        /\ saved' = [v \in SavedCvars(state) |-> Get_Existing_Value(here, v)]
        /\ angles' = [yaw |-> yaw, pitch |-> pitch]
        /\ p' = SetAll(here, ModeSettings(state))
        /\ past' = [blocks |-> p.blocks, values |-> InForce(p)]
        /\ UNCHANGED <<old_angles, drag>>

Cmd_TAS_Edit_Strafe    == Give("strafe") /\ Enter("Strafe") /\ UNCHANGED turn
Cmd_TAS_Edit_Swim      == Give("swim") /\ Enter("Swim") /\ UNCHANGED turn
Cmd_TAS_Edit_Set_Pitch == Give("view") /\ Enter("Pitch") /\ UNCHANGED turn
Cmd_TAS_Edit_Set_Yaw   == Give("view") /\ Enter("Yaw") /\ UNCHANGED turn
Cmd_TAS_Edit_Set_View  == Give("view") /\ Enter("Mixed") /\ UNCHANGED turn
Cmd_TAS_Edit_Add_Shot  == Give("shot") /\ Enter("Shot") /\ turn' \in TurnFrames

ApplyMouseStuff(q, view) ==
    IF m_state = "Shot"
    THEN LET shot == AddShot(q.blocks, view.pitch, view.yaw, q.current_frame, turn)
         IN  IF shot.changed
             THEN [q EXCEPT !.blocks = shot.blocks, !.last_edited = now,
                            !.stacked = CalculateStack(shot.blocks, q.current_frame)]
             ELSE q
    ELSE SetAll(q, CASE m_state = "Strafe" -> << <<"tas_strafe", 1>>,
                                                 <<"tas_strafe_yaw", Round(view.yaw)>> >>
                     [] m_state = "Swim"   -> << <<"tas_strafe_yaw", view.yaw>>,
                                                 <<"tas_strafe_pitch", view.pitch>> >>
                     [] m_state = "Mixed"  -> << <<"tas_view_yaw", view.yaw>>,
                                                 <<"tas_view_pitch", view.pitch>> >>
                     [] m_state = "Yaw"    -> << <<"tas_view_yaw", view.yaw>> >>
                     [] m_state = "Pitch"  -> << <<"tas_view_pitch", view.pitch>> >>)

\* A host frame in a mode: the mouse may have moved, then the hook applies it.
Mouse ==
    /\ Give("mouse") /\ m_state # "Locked"
    /\ \E view \in View :
          /\ m_state = "Pitch" => view.yaw = old_angles.yaw
          /\ m_state = "Yaw" => view.pitch = old_angles.pitch
          /\ angles' = view /\ p' = ApplyMouseStuff(p, view)
    /\ UNCHANGED <<m_state, saved, turn, old_angles, drag, past>>

\* The mode ends; while no mode is on, the mouse hook puts the view back.
Leave ==
    /\ m_state' = "Locked" /\ angles' \in {angles, old_angles}
    /\ UNCHANGED <<saved, turn, old_angles, drag, past>>

\* What Cancel and Revert set again, in their order.
UndoneCvars(state) ==
    CASE state = "Strafe" -> <<"tas_strafe_yaw", "tas_strafe">>
      [] state = "Swim"   -> <<"tas_strafe_yaw", "tas_strafe_pitch", "tas_strafe">>
      [] state = "Mixed"  -> <<"tas_view_yaw", "tas_view_pitch">>
      [] state = "Yaw"    -> <<"tas_view_yaw">>
      [] state = "Pitch"  -> <<"tas_view_pitch">>
      [] OTHER            -> <<>>

Confirm ==
    /\ Give("confirm") /\ ~IsDragging /\ m_state # "Locked"
    /\ IF m_state = "Shot" THEN GoTo(Run_Script(p, p.current_frame)) ELSE p' = p /\ Leave

\* Mutant: the second value is not put back.
Cancel_Bug ==
    /\ Give("cancel") /\ ~IsDragging /\ m_state # "Locked"
    /\ Leave
    /\ p' = IF m_state = "Shot"
            THEN [p EXCEPT !.blocks = RemoveShot(@, p.current_frame, turn)]
            ELSE LET v == Head(UndoneCvars(m_state)) IN SetConvar(p, v, saved[v])

Cancel ==
    /\ Give("cancel") /\ ~IsDragging /\ m_state # "Locked"
    /\ Leave
    /\ p' = IF m_state = "Shot"
            THEN [p EXCEPT !.blocks = RemoveShot(@, p.current_frame, turn)]
            ELSE FoldLeft(LAMBDA q, v : SetConvar(q, v, saved[v]), p, UndoneCvars(m_state))

\* Mutant: the saved value instead of the stacked one.
Revert_Bug ==
    /\ Give("revert") /\ m_state # "Locked"
    /\ Leave
    /\ p' = FoldLeft(LAMBDA q, v : SetConvar(q, v, saved[v]), p, UndoneCvars(m_state))

Revert ==
    /\ Give("revert") /\ m_state # "Locked"
    /\ Leave
    /\ p' = FoldLeft(LAMBDA q, v : SetConvar(q, v, Get_Stacked_Value(q, v)),
                     p, UndoneCvars(m_state))

-----------------------------------------------------------------------------
(* Commands on whole blocks *)

Cmd_TAS_Edit_Prune ==
    /\ Give("prune")
    /\ \/ Edit([p EXCEPT !.blocks = PruneFrom(@, 0)])
       \/ \E lo, hi \in Frames : Edit([p EXCEPT !.blocks = Prune(@, lo, hi)])

Cmd_TAS_Edit_Add_Empty == Give("add_empty") /\ Edit(GetBlockForFrame(p, p.current_frame))

Cmd_TAS_Edit_Remove_Shot ==
    /\ Give("remove_shot")
    /\ \E n \in TurnFrames :
          Edit([p EXCEPT !.blocks = RemoveShot(@, p.current_frame, n), !.last_edited = now])

\* The script is replaced by the three blocks that start a map; the game stays.
Cmd_TAS_Script_Init ==
    /\ Give("init")
    /\ Edit(Savestate_Script_Updated(
               [p EXCEPT !.blocks = << [NewBlock(1) EXCEPT !.commands = <<"disconnect">>],
                                       [NewBlock(2) EXCEPT !.commands = <<"record">>],
                                       NewBlock(8) >>], 0))

\* The number of blocks up to the current frame.
BlocksUpTo(q) ==
    GetBlockIndex(q.blocks, q.current_frame)
    - (IF CurrentFrameHasBlock(q.blocks, q.current_frame) THEN 0 ELSE 1)

Cmd_TAS_Edit_Shrink ==
    /\ Give("shrink")
    /\ GetBlockIndex(p.blocks, p.current_frame) <= Len(p.blocks)
    /\ BlocksUpTo(p) \in 1 .. Len(p.blocks) - 1
    /\ Edit([p EXCEPT !.blocks = SubSeq(@, 1, BlocksUpTo(p)), !.last_edited = now])

Cmd_TAS_Edit_Delete ==
    /\ Give("delete")
    /\ GetBlockIndex(p.blocks, p.current_frame) > 1
    /\ CurrentFrameHasBlock(p.blocks, p.current_frame)
    /\ Edit([p EXCEPT !.blocks = RemoveAt(@, GetBlockIndex(p.blocks, p.current_frame)),
                      !.last_edited = now])

\* Mutant: the block goes to the end.
Shift_Block_Bug(blocks, block) ==
    IF CurrentFrameHasBlock(blocks, block.frame) THEN blocks ELSE Append(blocks, block)

\* Shift_Block: a block that would land on another one is dropped.
Shift_Block(blocks, block) ==
    IF CurrentFrameHasBlock(blocks, block.frame) THEN blocks
    ELSE InsertAt(blocks, GetBlockIndex(blocks, block.frame), block)

Cmd_TAS_Edit_Shift ==
    /\ Give("shift")
    /\ CurrentFrameHasBlock(p.blocks, p.current_frame)
    /\ \E n \in Moves :
          LET new_frame == p.current_frame + n
              i         == GetBlockIndex(p.blocks, p.current_frame)
              moved     == [p.blocks[i] EXCEPT !.frame = new_frame]
          IN  /\ new_frame >= 0
              /\ ~CurrentFrameHasBlock(p.blocks, new_frame)
              /\ GoTo(Generic_Advance(
                         [p EXCEPT !.blocks = Shift_Block(RemoveAt(@, i), moved),
                                   !.last_edited = now],
                         new_frame))

\* Mutant: a block may be shifted onto the current frame.
Cmd_TAS_Edit_Shift_Stack_Bug ==
    /\ Give("shift_stack")
    /\ p.current_frame < Get_Last_Frame(p.blocks)
    /\ \E n \in Moves :
          LET k     == GetBlockIndex(p.blocks, p.current_frame + 1)
              later == [i \in 1 .. Len(p.blocks) - k + 1 |->
                           [p.blocks[k + i - 1] EXCEPT !.frame = @ + n]]
          IN  /\ \A i \in DOMAIN later : later[i].frame >= p.current_frame
              /\ Edit([p EXCEPT !.last_edited = now,
                          !.blocks = FoldLeft(Shift_Block, SubSeq(@, 1, k - 1), Reverse(later))])

Cmd_TAS_Edit_Shift_Stack ==
    /\ Give("shift_stack")
    /\ p.current_frame < Get_Last_Frame(p.blocks)
    /\ \E n \in Moves :
          LET k     == GetBlockIndex(p.blocks, p.current_frame + 1)
              later == [i \in 1 .. Len(p.blocks) - k + 1 |->
                           [p.blocks[k + i - 1] EXCEPT !.frame = @ + n]]
          IN  /\ \A i \in DOMAIN later : later[i].frame > p.current_frame
              /\ Edit([p EXCEPT !.last_edited = now,
                          !.blocks = FoldLeft(Shift_Block, SubSeq(@, 1, k - 1), Reverse(later))])

\* What GenerateRandomIntegers may return (RandomIntegers).
Spaced(n, lo, hi, gap) ==
    {s \in [1 .. n -> lo .. hi] : \A i \in 1 .. n - 1 : s[i] + gap <= s[i + 1]}

Cmd_TAS_Edit_Shots ==
    /\ Give("shots")
    /\ \E count \in 1 .. 2, min, max \in Frames :
          /\ min <= max
          /\ \E integers \in Spaced(count, min, max, WeaponDelay) :
                LET cleared == [p EXCEPT !.blocks =
                                   Prune(RemoveTogglesFromRange(@, "attack", min, max), min, max)]
                    Shoot(q, frame) == SetToggle(SetToggle(q, "attack", TRUE, frame),
                                                 "attack", FALSE, frame + 1)
                IN  Edit(FoldLeft(Shoot, cleared, integers))

Cmd_TAS_Edit_Random_Toggle ==
    /\ Give("random_toggle")
    /\ \E min, max \in Frames : \E frame \in min .. max :
          Edit(SetToggle([p EXCEPT !.blocks =
                             Prune(RemoveTogglesFromRange(@, "jump", min, max), min, max)],
                         "jump", TRUE, frame))

-----------------------------------------------------------------------------
(* drag_editing.cpp: a block is picked in the drawn prediction and moved with *)
(* the mouse, alone or with all blocks after it.                              *)

\* Return angle in [-180; 180).
NormalizeDeg(a) == ((a + 180) % 360) - 180

YawOf(block) == IF "tas_strafe_yaw" \in DOMAIN block.convars
                THEN block.convars["tas_strafe_yaw"] ELSE 0

\* SelectDragIndex.  For a block without a yaw in a script that has one, the
\* code assigns that yaw to the flag and leaves the yaw of an earlier drag.
Picked(i) ==
    LET block   == p.blocks[i]
        stacked == StackAll(p.blocks).convars
        has     == "tas_strafe_yaw" \in DOMAIN block.convars
    IN  [drag EXCEPT
            !.index = i, !.original_frame = block.frame,
            !.had = IF has THEN TRUE
                    ELSE "tas_strafe_yaw" \in DOMAIN stacked /\ stacked["tas_strafe_yaw"] # 0,
            !.strafeyaw = IF has THEN YawOf(block)
                          ELSE IF "tas_strafe_yaw" \in DOMAIN stacked THEN @ ELSE 0]

StartDrag(type) ==
    /\ \E i \in DOMAIN p.blocks : drag' = [Picked(i) EXCEPT !.type = type]
    /\ past' = [past EXCEPT !.blocks = p.blocks]
    /\ UNCHANGED <<p, m_state, saved, turn, angles, old_angles>>

CMD_TAS_Drag_Single == Give("drag") /\ StartDrag("Single")
CMD_TAS_Drag_Stack  == Give("drag") /\ StartDrag("Stack")

SetBlock(blocks, i, block) == SubSeq(blocks, 1, i - 1) \o <<block>> \o SubSeq(blocks, i + 1, Len(blocks))

Drag_MouseMove_Hook ==
    /\ Give("drag") /\ IsDragging
    /\ \E ticks \in Moves \cup {0}, yaw \in Angles :
          LET shifted == IF ticks = 0 THEN p.blocks
                         ELSE IF drag.type = "Single" THEN ShiftSingleBlock(p.blocks, drag.index, ticks)
                         ELSE ShiftBlocks(p.blocks, drag.index, ticks)
              block   == shifted[drag.index]
              turned  == [block EXCEPT !.convars =
                             With(@, "tas_strafe_yaw", NormalizeDeg(YawOf(block) + yaw))]
          IN  /\ ticks # 0 \/ yaw # 0
              /\ Edit([p EXCEPT !.last_edited = now,
                          !.blocks = IF yaw = 0 THEN shifted
                                     ELSE SetBlock(shifted, drag.index, turned)])

Drag_Confirm ==
    /\ Give("confirm") /\ IsDragging
    /\ LET block == p.blocks[drag.index]
           yaw   == IF YawOf(block) = drag.strafeyaw THEN Without(block.convars, "tas_strafe_yaw")
                    ELSE With(block.convars, "tas_strafe_yaw", YawOf(block))
       IN  p' = [p EXCEPT !.blocks = SetBlock(@, drag.index, [block EXCEPT !.convars = yaw])]
    /\ drag' = [drag EXCEPT !.type = "None"]
    /\ UNCHANGED <<m_state, saved, turn, angles, old_angles, past>>

\* Mutant: a cancelled drag of one block moves the later ones back, too.
Drag_Cancel_Bug ==
    /\ Give("cancel") /\ IsDragging
    /\ LET i    == drag.index
           back == ShiftBlocks(p.blocks, i, drag.original_frame - p.blocks[i].frame)
       IN  p' = [p EXCEPT !.last_edited = now,
                     !.blocks = IF drag.had
                                THEN AddCvar(back, "tas_strafe_yaw", drag.strafeyaw, drag.original_frame)
                                ELSE RemoveCvarsFromRange(back, "tas_strafe_yaw",
                                                          drag.original_frame, drag.original_frame)]
    /\ drag' = [drag EXCEPT !.type = "None"]
    /\ UNCHANGED <<m_state, saved, turn, angles, old_angles, past>>

Drag_Cancel ==
    /\ Give("cancel") /\ IsDragging
    /\ LET i    == drag.index
           back == IF drag.type = "Single"
                   THEN SetBlock(p.blocks, i, [p.blocks[i] EXCEPT !.frame = drag.original_frame])
                   ELSE ShiftBlocks(p.blocks, i, drag.original_frame - p.blocks[i].frame)
       IN  p' = [p EXCEPT !.last_edited = now,
                     !.blocks = IF drag.had
                                THEN AddCvar(back, "tas_strafe_yaw", drag.strafeyaw, drag.original_frame)
                                ELSE RemoveCvarsFromRange(back, "tas_strafe_yaw",
                                                          drag.original_frame, drag.original_frame)]
    /\ drag' = [drag EXCEPT !.type = "None"]
    /\ UNCHANGED <<m_state, saved, turn, angles, old_angles, past>>

-----------------------------------------------------------------------------
Done == now = MaxActions /\ UNCHANGED vars

Modes == Cmd_TAS_Edit_Strafe \/ Cmd_TAS_Edit_Swim \/ Cmd_TAS_Edit_Set_Pitch \/ Cmd_TAS_Edit_Set_Yaw
         \/ Cmd_TAS_Edit_Set_View \/ Cmd_TAS_Edit_Add_Shot \/ Mouse \/ Confirm \/ Cancel \/ Revert

Typing == (\E name \in TypedCvars, value \in Angles : TypeCvar(name, value))
          \/ TypeToggle \/ TypeImpulse \/ Cmd_TAS_Optimizer_Accept

OnBlocks == Cmd_TAS_Script_Init \/ Cmd_TAS_Edit_Prune \/ Cmd_TAS_Edit_Add_Empty
            \/ Cmd_TAS_Edit_Remove_Shot \/ Cmd_TAS_Edit_Shrink \/ Cmd_TAS_Edit_Delete
            \/ Cmd_TAS_Edit_Shift \/ Cmd_TAS_Edit_Shift_Stack \/ Cmd_TAS_Edit_Shots
            \/ Cmd_TAS_Edit_Random_Toggle

Dragging == CMD_TAS_Drag_Single \/ CMD_TAS_Drag_Stack \/ Drag_MouseMove_Hook \/ Drag_Confirm
            \/ Drag_Cancel

Next == Skip \/ Advance \/ Cmd_TAS_Savestate \/ Modes \/ Typing \/ OnBlocks \/ Dragging \/ Done

Spec == Init /\ [][Next]_vars

-----------------------------------------------------------------------------
\* A savestate holds the game that the present script plays up to its frame: an
\* edit has dropped every savestate it makes stale (Savestate_Script_Updated).  And
\* the values the editor believes in force in front of the current frame are those
\* the script sets (playback.stacked).
NothingStale ==
    user = "values" =>
        /\ \A f \in DOMAIN p.savestateMap :
              LET game == p.files[p.savestateMap[f].number]
              IN  game.frame = f /\ game.log = Effective(BlocksBefore(p.blocks, f))
        /\ Values(p.blocks, p.current_frame) = [v \in AllCvars |-> Get_Stacked_Value(p, v)]

\* A value that is typed is in force from the current frame on, and no other
\* value is changed by it.
TypedTakesEffect ==
    [][\A name \in TypedCvars, value \in Angles : TypeCvar(name, value) =>
          InForce(p') = [InForce(p) EXCEPT ![name] = value]]_vars

\* What a mode sets, when it begins or from the mouse.
ModeCvars(state) == ViewCvars(state) \cup {c[1] : c \in Range(ModeSettings(state))}

\* tas_cancel puts all that its mode sets back to what it was when the mode began,
\* whatever was set in between (docs/functionality.md:21, "Cancel change in editing
\* mode"), and tas_revert to what the script set before the current frame ("pre-frame
\* values", docs/functionality.md:41); neither touches another value.  The exception is
\* the code's: tas_strafe_type, which swim mode sets, is put back by neither.
ModesUndo ==
    [][user = "values" =>
        LET undone == ModeCvars(m_state) \ {"tas_strafe_type"}
            Back(before) == [v \in AllCvars |-> IF v \in undone THEN before[v] ELSE InForce(p)[v]]
        IN  /\ Cancel => InForce(p') = Back(past.values)
            /\ Revert => InForce(p') = Back(Values(p.blocks, p.current_frame))]_vars

\* The edits that set no date: a shot that is cancelled, a drag that is confirmed (which
\* takes the dragged block's yaw out) and tas_script_init.
Undated == (Cancel /\ m_state = "Shot") \/ Drag_Confirm \/ Cmd_TAS_Script_Init

\* A step that changes what the script does dates it, but for the three of Undated:
\* the predictions and the optimizer compare last_edited with the time of their own
\* data, and go on with what they made of the old script after one of those.
EditsDated ==
    [][Effective(p'.blocks) # Effective(p.blocks) => p'.last_edited = now \/ Undated]_vars

InFrameOrder(blocks) ==
    \A i \in 1 .. Len(blocks) - 1 : blocks[i].frame <= blocks[i + 1].frame

OneBlockPerFrame(blocks) ==
    \A i \in 1 .. Len(blocks) - 1 : blocks[i].frame < blocks[i + 1].frame

\* What the blocks do, wherever they are.
Contents(blocks) == {[b EXCEPT !.frame = 0] : b \in {blocks[i] : i \in DOMAIN blocks}}

\* No command puts the blocks out of the order of their frames, on which
\* GetBlockIndex, the playback and the file format rely, and only a shift or a drag
\* puts two on a frame.  From a script with one block to a frame, Cmd_TAS_Edit_Shift
\* and Cmd_TAS_Edit_Shift_Stack keep every block with what it does, and a cancelled
\* drag of a block with a yaw leaves the script as it was when the drag began.
BlocksKept ==
    [][IF user = "values" THEN OneBlockPerFrame(p'.blocks)
       ELSE /\ InFrameOrder(p'.blocks)
            /\ /\ OneBlockPerFrame(p.blocks)
               /\ Cmd_TAS_Edit_Shift \/ Cmd_TAS_Edit_Shift_Stack
               => Len(p'.blocks) = Len(p.blocks) /\ Contents(p'.blocks) = Contents(p.blocks)
            /\ /\ OneBlockPerFrame(past.blocks)
               /\ Drag_Cancel
               /\ "tas_strafe_yaw" \in DOMAIN past.blocks[drag.index].convars
               => p'.blocks = past.blocks]_vars

-----------------------------------------------------------------------------
(* What the documentation says, where the code does not do it. *)

\* docs/functionality.md:49, tas_savestate "Make a manual savestate on current
\* frame": a savestate is listed under the frame the saved game is on.
SavestateLabels == LabelsRight(p)
=============================================================================
