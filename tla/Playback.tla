------------------------------ MODULE Playback ------------------------------
(***************************************************************************)
(* Playing a script: the host frame of the game with the TAS hooks in it    *)
(* (Source/tas/script_playback.cpp, afterframes.cpp, savestate.cpp,         *)
(* hooks.cpp, reset.cpp), commands typed by a user, and the engine's part   *)
(* as far as the hooks observe it.                                          *)
(*                                                                          *)
(* The code is one thread: a host frame runs the hooks, which may put       *)
(* commands in the afterframes queue; the commands due are appended to the  *)
(* command buffer; key events append what the user types; the buffer is     *)
(* executed; the server and the client run.  What interleaves is the user,  *)
(* who may type anything in any frame, and the engine, which takes some     *)
(* frames to load a map.                                                    *)
(*                                                                          *)
(* The globals are one record g, so that a function of the code that calls  *)
(* others is an operator on it that applies theirs.  Field names are those  *)
(* of the source.  The engine's fields are                                  *)
(*   conn      "disconnected", "signon" (a map loads) or "connected"        *)
(*   waited    engine frames spent in "signon"                              *)
(*   world     what the game did since the map was started: the map, the    *)
(*             script frame it corresponds to, the blocks run in it and     *)
(*             whether a movement was sent (cl.movemessages > 0)            *)
(*   settings  the console variables and toggles set since the last reset   *)
(***************************************************************************)
EXTENDS Savestates

CONSTANTS
    Scripts,           \* scripts that may be loaded
    UserCommands,      \* what each kind of user may type: "patient", "runs", "any"
    MaxTyped,          \* bound: commands that kind of user types per behaviour
    MaxLoad,           \* bound: engine frames a map takes to load
    MaxFrame,          \* bound: frame counters stop here
    LevelExits,        \* script frames at which the played game changes level
    UNPAUSE_FRAMES,    \* frames from the last signon message to unpausing (4)
    MIN_SAVESTATE,     \* first frame that is savestated (10)
    frequency,         \* of automatic savestates (100)
    SAVESTATE_WINDOW,  \* how long before the target they are made (500)
    tas_savestate_auto

ASSUME PlaybackAssumption ==
    /\ \A s \in Scripts : s # <<>>
    /\ DOMAIN UserCommands \subseteq {"patient", "runs", "any"}
    /\ {MaxLoad, MaxFrame, UNPAUSE_FRAMES, MIN_SAVESTATE, frequency,
        SAVESTATE_WINDOW} \subseteq Nat \ {0}
    /\ MaxTyped \in [DOMAIN UserCommands -> Nat]
    /\ tas_savestate_auto \in BOOLEAN

VARIABLES
    g,       \* the globals
    cbuf,    \* the command buffer
    phase,   \* where the host frame is: "hook", "input" or "engine"
    user,    \* who plays: "patient" waits for each run, "runs" asks for runs and
             \* savestates at any moment, "any" types every command at any moment
    typed    \* commands typed so far

vars == <<g, cbuf, phase, user, typed>>

Tick(n) == MinOf(n + 1, MaxFrame)

-----------------------------------------------------------------------------
(* afterframes.cpp *)

AddAfterframes(h, frames, cmd, filter) ==
    [h EXCEPT !.afterframes = Append(@, [frames |-> frames, cmd |-> cmd, filter |-> filter])]

FilterMatchesCurrentFrame(h, filter) == filter = "Unpaused" => h.gamestate = "unpaused"

AdvanceCommands(h) ==
    [k \in DOMAIN h.afterframes |->
        IF FilterMatchesCurrentFrame(h, h.afterframes[k].filter)
        THEN [h.afterframes[k] EXCEPT !.frames = @ - 1]
        ELSE h.afterframes[k]]

IsDue(h, entry) == entry.frames <= 0 /\ FilterMatchesCurrentFrame(h, entry.filter)

\* The commands GetQueuedCommands returns: the loop that collects them runs
\* from the end of the queue to its beginning.
GetQueuedCommands(h) ==
    IF h.afterFramesPaused THEN <<>>
    ELSE LET due == SelectSeq(AdvanceCommands(h), LAMBDA e : IsDue(h, e))
         IN  [k \in DOMAIN due |-> due[Len(due) - k + 1].cmd]

\* What it leaves in the queue.
DequeueCommands(h) ==
    IF h.afterFramesPaused THEN h
    ELSE [h EXCEPT !.afterframes =
                 SelectSeq(AdvanceCommands(h), LAMBDA e : ~IsDue(h, e))]

ClearAfterframes(h) == [h EXCEPT !.afterframes = <<>>]

-----------------------------------------------------------------------------
(* reset.cpp and the engine's connection *)

\* Mutant: console variables and toggles keep their values.
Cmd_TAS_Cmd_Reset_Bug(h) ==
    [ClearAfterframes(h) EXCEPT !.gamestate = "unpaused", !.afterFramesPaused = FALSE]

\* tas_timescale is among EXCLUDE_CVARS.
Cmd_TAS_Cmd_Reset(h) ==
    [ClearAfterframes(h) EXCEPT
        !.gamestate = "unpaused",
        !.afterFramesPaused = FALSE,
        !.settings = NewBlock(0)]

NoWorld == [map |-> 0, frame |-> 0, log |-> <<>>, moved |-> FALSE]

CL_Disconnect(h) == [h EXCEPT !.conn = "disconnected", !.waited = 0, !.world = NoWorld]

CL_EstablishConnection(h, world) ==
    [h EXCEPT !.conn = "signon", !.waited = 0, !.world = world]

-----------------------------------------------------------------------------
(* savestate.cpp: when a savestate is made and how one is loaded *)

Can_Savestate(h) == h.conn = "connected" /\ h.tas_playing

Create_Savestate(h, frame, force) ==
    IF ~Can_Savestate(h) \/ (~force /\ frame \in DOMAIN h.savestateMap) THEN h
    ELSE Write_Savestate(h, frame)

Should_Savestate(h) ==
    /\ h.current_frame >= MIN_SAVESTATE
    /\ \/ ~h.world.moved
       \/ /\ h.current_frame % frequency = 0
          /\ h.pause_frame - h.current_frame < SAVESTATE_WINDOW
          /\ tas_savestate_auto
    /\ DOMAIN h.savestateMap # {} => h.savestateMap[LastSavestate(h)].map # h.world.map

\* Mutant: the frame is not remembered for tas_savestate.
Savestate_Frame_Hook_Bug(h) ==
    IF Should_Savestate(h) THEN Create_Savestate(h, h.current_frame, FALSE) ELSE h

Savestate_Frame_Hook(h) ==
    LET seen == [h EXCEPT !.ss_frame = h.current_frame]
    IN  IF Should_Savestate(h) THEN Create_Savestate(seen, h.current_frame, FALSE) ELSE seen

\* Mutant: the load command is not queued.
Savestate_Load_State_Bug(h, frame) ==
    IF Savestate_Frame(h, frame) = -1 THEN h
    ELSE AddAfterframes([h EXCEPT !.gamestate = "loading"], 1, <<"disconnect">>, "NoFilter")

Savestate_Load_State(h, frame) ==
    LET f == Savestate_Frame(h, frame)
    IN  IF f = -1 THEN h
        ELSE AddAfterframes(
                 AddAfterframes([h EXCEPT !.gamestate = "loading"],
                                1, <<"disconnect">>, "NoFilter"),
                 2, <<"tas_ls", h.savestateMap[f].number>>, "NoFilter")

Cmd_TAS_LS(h, number) ==
    CL_EstablishConnection([h EXCEPT !.gamestate = "loading"], h.files[number])

-----------------------------------------------------------------------------
(* script_playback.cpp: starting, continuing and stopping *)

\* Set_Pause_Frame, for a script that has blocks.
Set_Pause_Frame(h, frame) ==
    [h EXCEPT !.pause_frame =
        IF frame >= 0 THEN frame ELSE Last(h.blocks).frame - (-1 - frame)]

\* Mutant: an off-by-two in the frame count.
RestoreSpeed_Bug(h) ==
    AddAfterframes([h EXCEPT !.tas_timescale = "skip"],
                   h.pause_frame + 1 - h.current_frame, <<"tas_timescale 1">>, "Unpaused")

RestoreSpeed(h) ==
    AddAfterframes([h EXCEPT !.tas_timescale = "skip"],
                   h.pause_frame - 1 - h.current_frame, <<"tas_timescale 1">>, "Unpaused")

Normal_Skip(h) == RestoreSpeed(h)

\* Mutant: the script goes on one frame after the savestate's.
Savestate_Skip_Bug(h, start_frame) ==
    AddAfterframes([h EXCEPT !.stacked = CalculateStack(h.blocks, start_frame),
                             !.current_frame = start_frame + 1],
                   1, <<"stack", start_frame>>, "NoFilter")

Savestate_Skip(h, start_frame) ==
    LET at   == [h EXCEPT !.current_frame = start_frame]
        fast == IF start_frame < h.pause_frame THEN RestoreSpeed(at) ELSE at
    IN  AddAfterframes([fast EXCEPT !.stacked = CalculateStack(h.blocks, start_frame)],
                       1, <<"stack", start_frame>>, "NoFilter")

\* Mutant: the disconnect is not asked for.
Queue_Run_Bug(h, frame, skip, ss) ==
    [h EXCEPT
        !.run_disconnected = TRUE, !.gamestate = "unpaused", !.tas_playing = FALSE,
        !.current_frame = 0, !.run_queued = TRUE,
        !.run = [frame |-> frame, skip |-> skip, ss |-> ss]]

\* Run_Script while connected: ask for a disconnect, try again next frame.
Queue_Run(h, frame, skip, ss) ==
    LET asked == IF h.run_disconnected THEN h
                 ELSE AddAfterframes(h, 1, <<"disconnect">>, "NoFilter")
    IN  [asked EXCEPT
            !.run_disconnected = TRUE,
            !.gamestate = "unpaused",
            !.tas_playing = FALSE,
            !.current_frame = 0,
            !.run_queued = TRUE,
            !.run = [frame |-> frame, skip |-> skip, ss |-> ss]]

\* Run_Script while disconnected.
Start_Run(h, frame, skip, ss) ==
    LET clean == [Cmd_TAS_Cmd_Reset(h) EXCEPT
                     !.run_disconnected = FALSE,
                     !.current_frame = 0,
                     !.stacked = NewBlock(0),
                     !.tas_playing = TRUE,
                     !.script_running = TRUE]
        ss_frame == Savestate_Frame(clean, frame)
    IN  IF ~skip THEN clean
        ELSE IF ss_frame < 0 /\ ss THEN Normal_Skip(clean)
        ELSE Savestate_Skip(Savestate_Load_State(clean, frame), ss_frame)

Run_Script(h, frame, skip, ss) ==
    LET at == Set_Pause_Frame(h, frame)
    IN  IF h.conn # "disconnected" THEN Queue_Run(at, frame, skip, ss)
        ELSE Start_Run(at, frame, skip, ss)

Continue_Script(h, frames) ==
    [Set_Pause_Frame(h, h.current_frame + frames) EXCEPT
        !.script_running = TRUE, !.should_unpause = TRUE]

LOWEST_FRAME == 0
LOWEST_BLOCK == 0

Generic_Advance(h, frame) ==
    IF frame > h.current_frame THEN Continue_Script(h, frame - h.current_frame)
    ELSE IF frame < LOWEST_FRAME THEN h
    ELSE Run_Script(h, frame, TRUE, TRUE)

-----------------------------------------------------------------------------
(* The commands.  Block numbers are zero-based, as the user gives them. *)

Cmd_TAS_Script_Play(h) == Run_Script(h, -1, FALSE, TRUE)

Cmd_TAS_Script_Stop(h) ==
    Cmd_TAS_Cmd_Reset([h EXCEPT !.script_running = FALSE, !.tas_playing = FALSE])

Cmd_TAS_Script_Skip(h, n) ==
    Run_Script(h, IF n < 0 THEN Get_Last_Frame(h.blocks) - n - 1 ELSE n, TRUE, TRUE)

Skip_To_Block(h, block) ==
    IF block \in LOWEST_BLOCK .. Len(h.blocks) - 1
    THEN Run_Script(h, h.blocks[block + 1].frame, TRUE, TRUE)
    ELSE h

Cmd_TAS_Script_Skip_Block(h, n) ==
    Skip_To_Block(h, IF n < 0 THEN Len(h.blocks) + n ELSE n)

Cmd_TAS_Script_Advance(h, n) ==
    IF h.script_running THEN h ELSE Generic_Advance(h, h.current_frame + n)

Cmd_TAS_Script_Advance_Block(h, n) ==
    LET block    == GetBlockIndex(h.blocks, h.current_frame) - 1
        between  == /\ block < Len(h.blocks)
                    /\ h.blocks[block + 1].frame # h.current_frame
        target   == block + n - (IF between /\ n > 0 THEN 1 ELSE 0)
    IN  IF h.script_running \/ target \notin LOWEST_BLOCK .. Len(h.blocks) - 1 THEN h
        ELSE Generic_Advance(h, h.blocks[target + 1].frame)

Cmd_TAS_Pause(h) ==
    [h EXCEPT !.gamestate = IF @ = "paused" THEN "unpaused" ELSE "paused"]

\* Its trailing Cbuf_AddText("disconnect") is in Cbuf_Execute below.
Cmd_TAS_Script_Load(h, script) ==
    [Savestate_Script_Updated(h, 0) EXCEPT
        !.blocks = script, !.tas_playing = FALSE, !.gamestate = "unpaused"]

-----------------------------------------------------------------------------
(* Executing a command of the buffer *)

\* The engine commands a script of tas_script_init has.
Exec_Script_Command(h, i, cmd) ==
    CASE cmd = "disconnect" -> CL_Disconnect(h)
      [] cmd = "record" ->
            CL_EstablishConnection([h EXCEPT !.afterFramesPaused = FALSE],
                [map |-> 1, frame |-> h.blocks[i].frame, log |-> <<i>>, moved |-> FALSE])
      [] OTHER -> h

Exec_Block(h, i) ==
    LET set == [h EXCEPT
                   !.settings = Stack(@, h.blocks[i]),
                   !.world.log = IF h.conn = "disconnected" THEN @ ELSE Append(@, i)]
    IN  FoldLeft(LAMBDA k, cmd : Exec_Script_Command(k, i, cmd), set, h.blocks[i].commands)

Cmd_ExecuteString(h, cmd) ==
    CASE cmd[1] = "block"              -> Exec_Block(h, cmd[2])
      [] cmd[1] = "stack"              -> [h EXCEPT !.settings =
                                              Stack(@, CalculateStack(h.blocks, cmd[2]))]
      [] cmd[1] = "tas_timescale 1"    -> [h EXCEPT !.tas_timescale = "normal"]
      [] cmd[1] = "disconnect"         -> CL_Disconnect(h)
      [] cmd[1] = "tas_ls"             -> Cmd_TAS_LS(h, cmd[2])
      [] cmd[1] = "script_play"        -> Cmd_TAS_Script_Play(h)
      [] cmd[1] = "script_stop"        -> Cmd_TAS_Script_Stop(h)
      [] cmd[1] = "script_skip"        -> Cmd_TAS_Script_Skip(h, cmd[2])
      [] cmd[1] = "script_skip_block"  -> Cmd_TAS_Script_Skip_Block(h, cmd[2])
      [] cmd[1] = "script_advance"     -> Cmd_TAS_Script_Advance(h, cmd[2])
      [] cmd[1] = "script_advance_block" -> Cmd_TAS_Script_Advance_Block(h, cmd[2])
      [] cmd[1] = "script_load"        -> Cmd_TAS_Script_Load(h, cmd[2])
      [] cmd[1] = "pause"              -> Cmd_TAS_Pause(h)
      [] cmd[1] = "savestate"          -> Create_Savestate(h, h.ss_frame, TRUE)
      [] cmd[1] = "ss_clear"           -> Cmd_TAS_SS_Clear(h)
      [] cmd[1] = "afterframes_clear"  -> ClearAfterframes(h)
      [] cmd[1] = "afterframes_await_load" -> [h EXCEPT !.afterFramesPaused = TRUE]

-----------------------------------------------------------------------------
(* The host frame *)

In_Edit_Mode(h) ==
    ~h.script_running /\ h.gamestate = "paused" /\ h.tas_playing /\ h.blocks # <<>>

\* _Host_Frame_Hook
Count_Down(h) ==
    IF h.unpause_countdown = 0 THEN h
    ELSE [h EXCEPT
             !.unpause_countdown = @ - 1,
             !.gamestate = IF h.unpause_countdown = 1 THEN "unpaused" ELSE @]

\* The loop of the hook: the blocks on the current frame go to the queue, in
\* script order, and are stacked.
Issue_Blocks(h) ==
    LET first == GetBlockIndex(h.blocks, h.current_frame)
        rest  == SubSeq(h.blocks, first, Len(h.blocks))
        late  == SelectInSeq(rest, LAMBDA b : b.frame > h.current_frame)
        due   == IF late = 0 THEN rest ELSE SubSeq(rest, 1, late - 1)
    IN  [h EXCEPT
            !.stacked = FoldLeft(Stack, @, due),
            !.afterframes = @ \o
                [k \in DOMAIN due |->
                    [frames |-> 0, cmd |-> <<"block", first + k - 1>>, filter |-> "NoFilter"]],
            !.current_frame = Tick(@)]

\* Mutant: the request to unpause is not withdrawn.
Unpause_Bug(h) ==
    IF h.gamestate = "paused" /\ h.should_unpause THEN [h EXCEPT !.gamestate = "unpaused"] ELSE h

Unpause(h) ==
    IF h.gamestate = "paused" /\ h.should_unpause
    THEN [h EXCEPT !.gamestate = "unpaused", !.should_unpause = FALSE]
    ELSE h

\* Mutant: the pause comes a frame early.
Play_Frame_Bug(h) ==
    IF h.gamestate = "paused" \/ ~h.script_running THEN h
    ELSE IF h.current_frame + 1 >= h.pause_frame /\ h.conn = "connected"
    THEN [h EXCEPT !.gamestate = "paused", !.script_running = FALSE]
    ELSE Issue_Blocks(h)

Play_Frame(h) ==
    IF h.gamestate = "paused" \/ ~h.script_running THEN h
    ELSE IF h.current_frame >= h.pause_frame /\ h.conn = "connected"
    THEN [h EXCEPT !.gamestate = "paused", !.script_running = FALSE]
    ELSE Issue_Blocks(h)

Script_Playback_Host_Frame_Hook(h) ==
    IF h.gamestate = "loading" THEN h
    ELSE IF h.run_queued
    THEN Run_Script([h EXCEPT !.run_queued = FALSE], h.run.frame, h.run.skip, h.run.ss)
    ELSE Play_Frame(Unpause(Savestate_Frame_Hook(h)))

Init ==
    /\ g \in [blocks : Scripts,
              current_frame : {0}, pause_frame : {0},
              script_running : {FALSE}, should_unpause : {FALSE},
              stacked : {NewBlock(0)},
              run_queued : {FALSE}, run_disconnected : {FALSE},
              run : {[frame |-> 0, skip |-> FALSE, ss |-> FALSE]},
              gamestate : {"unpaused"}, tas_playing : {FALSE},
              tas_timescale : {"normal"}, unpause_countdown : {0},
              afterframes : {<<>>}, afterFramesPaused : {FALSE},
              savestateMap : {<<>>}, save_number : {0}, ss_frame : {0}, files : {<<>>},
              conn : {"disconnected"}, waited : {0}, world : {NoWorld},
              settings : {NewBlock(0)}]
    /\ cbuf = <<>>
    /\ phase = "hook"
    /\ user \in DOMAIN UserCommands
    /\ typed = 0

\* _Host_Frame_Hook, then _Host_Frame_After_FilterTime_Hook.
Host_Frame ==
    /\ phase = "hook"
    /\ LET hooked == Script_Playback_Host_Frame_Hook(Count_Down(g))
       IN  /\ g' = DequeueCommands(hooked)
           /\ cbuf' = GetQueuedCommands(hooked)
    /\ phase' = "input"
    /\ UNCHANGED <<user, typed>>

\* A patient user types when nothing runs, loads or is queued, and commands that
\* act on the frame the game is on only in edit mode.
Expected(cmd) ==
    /\ cbuf = <<>>
    /\ ~g.run_queued /\ ~g.script_running
    /\ g.gamestate # "loading" /\ g.unpause_countdown = 0
    /\ cmd[1] \in {"script_advance", "script_advance_block", "savestate"} => In_Edit_Mode(g)

\* A key event appends a command to the buffer.
Type_Command ==
    /\ phase = "input" /\ typed < MaxTyped[user]
    /\ \E cmd \in UserCommands[user] :
          /\ user = "patient" => Expected(cmd)
          /\ cbuf' = Append(cbuf, cmd)
    /\ typed' = typed + 1
    /\ UNCHANGED <<g, phase, user>>

Cbuf_Execute ==
    /\ phase = "input"
    /\ LET done  == FoldLeft(Cmd_ExecuteString, g, cbuf)
           loads == \E k \in DOMAIN cbuf : cbuf[k][1] = "script_load"
       IN  g' = IF loads THEN CL_Disconnect(done) ELSE done
    /\ cbuf' = <<>>
    /\ phase' = "engine"
    /\ UNCHANGED <<user, typed>>

\* CL_SendCmd and Host_ServerFrame: the game plays a frame; at some frames the
\* player reaches the exit of a level.
Server_Frame(h) ==
    IF h.conn = "disconnected" \/ h.gamestate # "unpaused" THEN h
    ELSE IF h.conn = "connected" /\ Tick(h.world.frame) \in LevelExits
    THEN [h EXCEPT !.world.frame = Tick(@), !.world.map = @ + 1,
                   !.world.moved = FALSE, !.conn = "signon", !.waited = 0]
    ELSE [h EXCEPT !.world.frame = Tick(@), !.world.moved = (h.conn = "connected")]

\* Mutant: the countdown also starts when no savestate was loaded.
Signon_Bug(h) ==
    [h EXCEPT !.conn = "connected", !.waited = 0, !.unpause_countdown = UNPAUSE_FRAMES]

\* CL_SignonReply with its hook.
Signon(h) ==
    [h EXCEPT !.conn = "connected", !.waited = 0,
              !.unpause_countdown = IF h.gamestate = "loading" THEN UNPAUSE_FRAMES ELSE @]

Keep_Loading(h) == [h EXCEPT !.waited = @ + 1]

Engine_Frame ==
    /\ phase = "engine"
    /\ IF g.conn = "signon" /\ g.gamestate # "paused"
       THEN \/ g' = Signon(Server_Frame(g))
            \/ g.waited < MaxLoad /\ g' = Keep_Loading(Server_Frame(g))
       ELSE g' = Server_Frame(g)
    /\ phase' = "hook"
    /\ UNCHANGED <<cbuf, user, typed>>

Next == Host_Frame \/ Type_Command \/ Cbuf_Execute \/ Engine_Frame

Spec == Init /\ [][Next]_vars

\* The main loop calls _Host_Frame for ever, whatever the user does: the host
\* frame keeps going from one part to the next.
Main_Loop == phase' \in {"hook", "input", "engine"} \ {phase}
LiveSpec == Spec /\ WF_phase(Main_Loop)

-----------------------------------------------------------------------------
\* The blocks of the map the script starts that have run before the frame.
BlocksPlayed(h, frame) ==
    LET start == SelectInSeq(h.blocks, LAMBDA b : Contains(b.commands, "record"))
    IN  [k \in 1 .. GetBlockIndex(h.blocks, frame) - start |-> start + k - 1]

SameSettings(a, b) == a.convars = b.convars /\ a.toggles = b.toggles

\* When the game waits in edit mode on a frame, for a user who let each run end, it is
\* the game the script plays up to that frame: it has run that many frames, every
\* earlier block once and in order, on whichever path (from the start, from a savestate,
\* by continuing) the frame was reached; and that is the frame asked for
\* (Set_Pause_Frame), or the first one after it that is not in a map load.
EditModeFaithful ==
    user = "patient" /\ In_Edit_Mode(g) =>
        /\ g.world.frame = g.current_frame
        /\ g.world.log = BlocksPlayed(g, g.current_frame)
        /\ g.current_frame >= g.pause_frame
        /\ g.current_frame > g.pause_frame => ~g.world.moved

\* ... and the console variables and toggles are those the earlier blocks set, as the
\* editor believes (playback.stacked), even if runs overlapped.  The speed is normal
\* again: the command queued by a skip has been executed.
EditModeSettings ==
    user # "any" /\ In_Edit_Mode(g) =>
        /\ SameSettings(g.settings, g.stacked)
        /\ SameSettings(g.settings, CalculateStack(g.blocks, g.current_frame))
        /\ user = "patient" => g.tas_timescale = "normal"

\* A savestate is listed under the frame the saved game is on: what
\* docs/functionality.md:49 says of tas_savestate, "Make a manual savestate on
\* current frame"; and two savestates never share a file (save_number is fresh).
SavestateTable == user = "patient" => LabelsRight(g) /\ FilesDistinct(g)

\* A pause at the end of a run lasts until the user acts: the hook itself never
\* leaves edit mode.
PauseSticks ==
    [][user # "any" /\ phase = "hook" /\ In_Edit_Mode(g) => In_Edit_Mode(g')]_vars

\* A load that will end: its command is in the queue and the queue runs, or it is in the
\* command buffer, or the map loads, or the countdown to unpausing runs.
LoadUnderWay ==
    \/ ~g.afterFramesPaused /\ \E k \in DOMAIN g.afterframes : g.afterframes[k].cmd[1] = "tas_ls"
    \/ \E k \in DOMAIN cbuf : cbuf[k][1] = "tas_ls"
    \/ g.conn = "signon"
    \/ g.unpause_countdown > 0

\* What takes the load away: emptying or pausing the queue, or leaving the map that loads.
LoadUndone ==
    \E k \in DOMAIN cbuf :
        \/ cbuf[k][1] \in {"afterframes_clear", "afterframes_await_load"}
        \/ /\ cbuf[k][1] = "disconnect"
           /\ g.conn = "signon" \/ \E l \in 1 .. k - 1 : cbuf[l][1] = "tas_ls"

\* A game that loads a savestate is going to be unpaused, through any commands typed in
\* any frame but tas_afterframes_clear, tas_afterframes_await_load and a disconnect in
\* the map load: nothing notices that the load is gone then, and the script hook does
\* nothing while the game loads, so that it waits until the user resets it.
LoadingEnds ==
    [][(g.gamestate = "loading" => LoadUnderWay) /\ g'.gamestate = "loading" =>
           LoadUnderWay' \/ LoadUndone]_vars

\* A run that was asked for ends in edit mode.
RunsEnd == (user # "any" /\ (g.run_queued \/ g.script_running)) ~> In_Edit_Mode(g)
=============================================================================
