# A TLA+ model of TASQuake

TASQuake is a Quake engine (JoeQuake) with tools for tool-assisted speedruns.
The user writes a *script*: a list of blocks, each with a frame number, console
variables, toggles (`+attack`, `-attack`) and commands. The game plays it frame by
frame; the user skips to a frame, looks, edits the script there and skips again.
Savestates make skipping cheap, an optimizer searches for better scripts, and
several games can search together over sockets.

## The parts of the system

| Part | Source | State | What changes it |
|---|---|---|---|
| Script library | `libtasquake/src/script_parse.cpp`, `script_playback.cpp` | the blocks of a script | add, remove, shift, splice, patch, load, save |
| Buffers | `libtasquake/src/io.cpp` | a growing buffer, a read position | writing and reading the lines of a script in a message |
| Script files | `script_parse.cpp` (`Move_Saves`) | the script's file and its numbered backups | saving, crashes |
| Playback | `Source/tas/script_playback.cpp` | current and pause frame, running or queued run, stacked values, edit mode | play, stop, skip, advance, load; the hook of every host frame |
| Savestates | `Source/tas/savestate.cpp` | table from frames to files, next file number | created by the hook or by the user, loaded by a skip, dropped by an edit |
| Afterframes | `Source/tas/afterframes.cpp` | queue of commands with delay and filter | filled by other parts, advanced each host frame |
| Host frame | `Source/tas/hooks.cpp`, `Source/host.c`, `cl_main.c` | paused, unpaused or loading; connection; countdown | each host frame, sign-on, connect, disconnect |
| Editor | `Source/tas/script_playback.cpp`, `drag_editing.cpp`, `bookmark.cpp` | edit mode and its saved values, drag, bookmarks | edit commands, mouse, confirm, cancel, revert |
| Optimizer | `libtasquake/src/optimizer.cpp` | best and current run, state of six algorithms | frames of a simulated run |
| Multi-game optimizer | `Source/tas/optimizer_quake.cpp`, `ipc_prediction.cpp`, `real_prediction.cpp` | task, ids, best run on each side, predicted line | messages and frames |
| Transport | `libtasquake/src/boost_ipc.cpp`, `Source/tas/ipc2.cpp` | sessions, partly read messages | reads, accepts, disconnects on an I/O thread |
| Network | `Source/net_dgrm.c` | sequence numbers, the message being sent or put together | packets, time-outs |
| Memory | `Source/zone.c` | blocks of the zone, marks of the hunk, cached items | allocations and frees |
| Test runner | `Source/tas/test_runner.cpp`, `state_test.cpp` | phase of the test | frames, commands |
| Simulation | `Source/tas/simulate.cpp`, `strafing.cpp` | player state | floating-point physics |

What makes it hard: a skip takes many host frames (disconnect, connect, sign-on,
countdown) in which the user can type anything; delayed commands and flags outlive
the run that set them; savestates are copies of a game that a later edit makes
stale; a script is edited through indices and frames that earlier edits move;
and answers to an earlier script arrive when the user has already changed it.

## Modules

| Module | Models | Uses |
|---|---|---|
| `RandomIntegers` | the algorithm that spreads random shots | |
| `Script` | the operations on the blocks of a script, one operator per function | |
| `Buffer` | a script written to and read from a buffer | `Script` |
| `ScriptLibrary` | those operations applied in any order to a script | `Buffer` |
| `ScriptFiles` | saving and loading with backups, and crashes | |
| `Savestates` | the table of savestates and its files, as operators | `Script` |
| `Playback` | running a script: host frame, afterframes, savestates, the commands that go to a frame | `Savestates` |
| `Editor` | changing a script: values, mouse modes, blocks, drags | `Savestates` |
| `Optimizer` | iterations, best run and the six algorithms | `Script` |
| `MultiGame` | tasks, runs and predictions between a server game and its clients | |
| `MessageChannel` | what a connection promises: messages whole, once, in order | |
| `Transport` | sockets between games, on two threads each | `MessageChannel` |
| `Datagram` | reliable and unreliable messages of the engine's network | `MessageChannel` |
| `Zone`, `Hunk`, `Memory` | the two allocators of the engine | |
| `ScriptTextProofs`, `ScriptLibraryProofs` | proofs: scripts as text; order and patches | `ScriptLibrary` |
| `StorageProofs`, `HunkProofs` | proofs: the zone and script files; the cache in the hunk | `Zone`, `ScriptFiles`; `Hunk` |
| `MultiGameProofs`, `PredictionProofs`, `SpreadProofs` | proofs: the task shown; the line; the best run | `MultiGame` |
| `AlgorithmProofs` | proofs: the datagram protocol; random integers | `Datagram`, `RandomIntegers` |

The `MC_` modules only give the constants values. An operator whose name ends in
`_Bug` is the operator after it with a plausible mistake; a property is worth
checking if such a mistake breaks it.

### RandomIntegers

`GenerateRandomIntegers` fills slots in random order; `result`, `mins` and `maxs`
are its three static arrays and `pc` its program counter. Each iteration of its
loops is one step. Its specification is `RandomSpec`.

### Script, Buffer, ScriptLibrary

A block is a record of a frame, a function of console variables, a function of
toggles and a sequence of commands. A file is a sequence of lines; the frame line of
a block holds the difference to the previous block's frame, and a negative
difference is read back as a command, as the parser does. `Buffer` has the lengths
of lines: a line that fills the write buffer exactly loses its newline to the
terminating null character, which the reader also takes for the end of a line.
The writer uses its `va_list` a second time after `vsnprintf`; the model is a build
that passes it by value, such as the Windows build.
Loops over blocks, lines and characters are recursive functions with one value per
iteration, and the few helpers on sequences are the module's own (`Keep`, `With`,
`Over`): the proof system can reason about these and not about `SelectSeq`, `@@`
or an operator that is recursive. `IsBlock` and `Ordered` say what a script is.
`FirstDifference` compares values; the code compares the lines they would be written as,
which tell apart as many digits as the format prints, and a file holds no more.
The state machine applies every operation with small frames, deltas and values; its
properties are about the script it has reached.

### ScriptFiles

`Write_To_File` is a sequence of file system calls: `pc` says which comes next, and
a crash or a file that can not be opened may come between any two. `disk` maps a
name and a backup number to the file there; files carry the number of the save that
wrote them. Left out: saving under the name of a backup, renames that fail for
another reason than a missing file, and changing `tas_edit_backups` between saves.

### Playback

The variable `g` is the record of the program's globals; `cbuf` is the command
buffer, `phase` the part of `_Host_Frame` that comes next (the TAS hook, the
console input, the engine), `user` the kind of user and `typed` the number of
commands typed. The commands are operators on `g`, because many call each
other; `Host_Frame`, `Cbuf_Execute` and `Engine_Frame` are the steps of the main
loop and `Type_Command` is the user. A saved game and the running game are the
number of frames played and the blocks that ran (`world`).

Left out of `Playback`: two blocks on one frame, intermission,
`tas_savestate_enabled`, `tas_pause_onload`, edit modes, a savestate file that can
not be read, empty scripts, and the variable `skill`. A change of level signs on
at once. `Restore_Client` is part of `tas_ls`.

### Editor

`p` is the `PlaybackInfo` record together with the savestates, `m_state` the mode
of the mouse with the values it `saved` on entry, `drag` the statics of
`drag_editing.cpp` and `now` the clock, which counts the user's actions. `past` is a
history variable: the script and its values when the mode or the drag began.
There is an action for each command, for the mouse, and for going to a frame.

`Editor` and `Playback` share `Script` and `Savestates` and divide the file
`script_playback.cpp` between them. `Playback` shows that a run ends in edit mode on
the frame asked for with the game the script plays; `Editor` takes going to a frame
for one step that loads the last savestate before it and plays the blocks from
there, and shows what edits in between leave. Left out of `Editor`: automatic
savestates and bookmarks. Which block a drag picks is any block: the choice in
the code is by the geometry of the view.

### Optimizer

`opt` is `struct Optimizer` with its algorithms, `sim` the statics of
`optimizer_quake.cpp`, `source` the user's script. `SimOptimizer_Frame` is the step of
a host frame; the user may edit between any two. What a run achieves is physics: an
unknown `objective`, chosen in `Init`, gives each script its efficacy. The random
choices of the algorithms are any choice. Runs are as long as the first one: none is
cut short by `m_dMaxTime`. `search` is a history variable with the last search of
the turn optimizer.

### MultiGame

`sv` is the server game, `cl` the client games, `down` and `up` the messages between
them, in order and after any delay, which is what `Transport` provides. `pc` is the part
of the server's frame that comes next: handling messages and commands, the hook of
`ipc_prediction.cpp`, the hook of `optimizer_quake.cpp`. A script is the number of the
edit that made it. `sv.hasty` is a history variable: the user edited, accepted a run or
left the frame while a prediction was outstanding, and no request has been made since
with none outstanding. Left out: clients that come and go (`Transport` has them), the
casper mode, and the values of goals.

### Transport, Datagram, MessageChannel

`MessageChannel` is the promise: what is sent is delivered whole, once, in order.
`Transport` and `Datagram` are shown to implement it, each by a refinement from its own
history of messages sent and handled.

In `Transport` a connection is two streams of units. Its actions are the reads of the
I/O thread, which take any piece of a stream, also one that ends inside a header, the sends and message loops of the
game thread, connecting, disconnecting, stopping and starting the server. `crashed` is
set where the code would throw or dereference a null pointer, on a write (with the
connection), on a stop, or by a command given out of turn; nothing follows it.
`framedUp` and `framedDown` are history variables: no read of the connection has ended
inside a header, and it did not begin with a partly read message. `Channels` and
`MessagesArrive` hold as long as they do.

In `Datagram` the two sockets have the fields of `qsocket_t`; `net` is the set of packets
under way, from which a packet may be read at any time, more than once, or lost.
`Datagram_GetMessage` is a loop that reads packets: its beginning (which resends), each
packet, and its end (which sends the next part) are steps. A read that fails ends the
loop early and the caller closes the connection. The two directions of a
connection share only time-outs, so one is modelled. Sequence numbers do not wrap.

### Zone, Hunk, Memory

`Zone` is the circular list of blocks with its rover: `block` maps the address of each
block to its header, `scan` is the state of the search in `Z_TagMalloc` and `asked` a
history variable: the bytes each owner asked for. The cap of the list, a
field of its own in the code, takes the address at the end of the zone. `Hunk` has the
two marks, the temporary buffer, the cached `items`, the `lru` list and the pointers
of the users; `Place` is the search for a gap, `Link` and `Unlink` the changes to the
lists; one step is one iteration of `Cache_FreeLow`, `Cache_FreeHigh` or the
loop of `Cache_Alloc`. `Memory` puts both together. Wrong calls (freeing twice, a mark
that was never taken) end the program in the code and are left out.

## Runs

| Run | Shows |
|---|---|
| `random_integers` | results spaced and in range, no draw from an empty interval, termination |
| `script_library` | sorted, unchanged by a file or a message and back, shots fire and are found again, a spliced script sets up what its removed prefix had set. A patch makes the edited script, and no frame up to the one it reports, as far as the edited script goes, sees a change |
| `script_files` | a completed save stays on disk through later saves that may be cut off anywhere, as long as the rotation keeps it |
| `playback` | a user who waits for each run: edit mode always shows the game the script plays up to that frame, at normal speed, on the frame asked for, and savestates are filed under their frame, in files of their own. A user who asks for runs and savestates at any moment: consistent settings, pauses last, runs end. A user who types anything: a game that loads keeps what it waits for, except after `afterframes_clear`, `afterframes_await_load` and a `disconnect` in the middle of a load, which take it away |
| `editor` | edits of values: one block to a frame, remaining savestates and stacked values agree with the script, what is typed takes effect. All edits: cancel and revert put back every value the mode may change, except the strafe type, and no other; every change is dated, except a shot that is cancelled, a drag that is confirmed and `tas_script_init`. Edits of blocks: order kept, shifts lose nothing, a cancelled drag leaves no trace |
| `optimizer` | what is offered as best was played and has the efficacy shown, blocks stay in order within the frames played, the search for a cliff ends at its edge, no algorithm keeps the floor |
| `multi_game` | what is shown belongs to the current task, no improvement is lost on the way to other clients, the search always starts again. While the user waits for predictions, a line that is shown is that of the current script and tasks wait for it |
| `transport` | each connection implements a channel and what the client sends arrives while both sides stay, until a read ends inside a header; other reads may cut the stream anywhere. The list of sessions is kept, and a write ends a game only on a connection that one side has left |
| `datagram` | the protocol implements a channel over a network that loses, doubles, delays and reorders; sender and receiver stay within one part; unreliable datagrams come in order; messages arrive if packets keep getting through |
| `memory` | the zone stays consistent and finds any block that fits; cached items never overlap each other or the hunks, and pointers follow them; every call returns, or ends the program when there is nothing left to evict |

Two runs are disagreements between what the documentation or a comment says and
what the code does, each with the trace TLC finds; `findings` in PROJECT.json quotes
both sides: `savestate_reuse` (a second savestate on a frame, then an edit, and a later
savestate overwrites a file that is still listed) and `task_race` (all prediction
requests have the same id, so a search starts although its prediction is still being
made).

## More disagreements and limits met while modelling

No run repeats these.

Playback and savestates:

- `tas_script_skip -2` goes to the frame after the last, not before it
  (`script_playback.cpp:590`; `docs/functionality.md:55`).
- A run queued in the frame of a `tas_script_stop` starts after it
  (`script_playback.cpp:574`; `docs/functionality.md:57`), a stop during a skip
  leaves the speed of the skip (`reset.cpp:20`), and a stop while a run waits for its
  disconnect leaves `run_disconnected`, so that the next play starts in another state
  (`script_playback.cpp:115`; `docs/functionality.md:54`).
- A run that waits for its disconnect replaces a skip typed later
  (`script_playback.cpp:132`; `docs/functionality.md:55`).
- The countdown after a load is not restarted by a second load, which may then be
  unpaused too early (`hooks.cpp:356`; `docs/functionality.md:55`). A manual savestate
  during the countdown is filed under the frame of the skip (`savestate.cpp:153`).
- `afterframes_clear`, `afterframes_await_load` and a `disconnect` while a game loads
  drop the queued load or the sign-on it waits for, and the game stays in its loading
  state (`hooks.cpp:351`, `afterframes.cpp:110`).
- `should_unpause`, set by an advance without a game (typed after a `disconnect`), stays
  set, and the pause that ends the next skip is undone in the frame after it
  (`script_playback.cpp:404`; `docs/functionality.md:55`).
- `tas_savestate_auto 0` does not stop savestates in level transitions
  (`savestate.cpp:101`; `docs/functionality.md:108`).

Editing:

- A confirmed shot is added without `Savestate_Script_Updated`
  (`script_playback.cpp:374`; the comment at `:1109`). Delete, shrink, shift and drags do
  not announce their edits either: going back shows the old game from a savestate.
- A cancelled shot, a confirmed drag and
  `tas_script_init` change the script without a new `last_edited`: a prediction of the
  old script counts as up to date (`script_playback.cpp:309`).
- A script received that was only cut off at its end reports the last frame of the old
  one as changed (`script_parse.cpp:237`): savestates between its new and its old end
  stay (`real_prediction.cpp:36`).
- `tas_edit_shift` can meet a block and drop the shifted one
  (`script_playback.cpp:877`: "Cannot shift to an existing block! This is a bug.").
- Adding a shot twice on frame 8 or before reports a change both times
  (`script_parse.cpp:642`; `libtasquake/test/script_tests.cpp:41`).
- Cancelling the swim mode leaves the strafe type it set
  (`script_playback.cpp:790`, `:1133`; `docs/functionality.md:21`).
- A bookmark on a block is an index, which an insertion or deletion before it makes
  stale (`bookmark.cpp:69`; `docs/functionality.md:18`).
- With `tas_edit_backups` n, n - 1 backups are kept beside the script, and with 1 the
  script is removed before it is written again (`script_parse.cpp:408`; the comment at
  `Source/tas/script_playback.cpp:54`).

Optimizer (`optimizer.cpp`): `RNGBlockMover` puts the last block before its
predecessor when the last two lie behind the last frame; `StrafeAdjuster` picks the
bound that is not valid when only one is; the efficacy of the run before a reset to best
is compared with the one after it; a search with no drop, or two equal ones, tries yaw 0;
`FrameBlockMover` keeps a block that can not move; `WantsToRun` is never consulted;
`StrafeBounds` may look at frames that were not played.

Several games: a new task keeps the best run of the task before it, so accepting
before the first run arrives applies an old script (`optimizer_quake.cpp:339`); after
a skip forward and back during a request the line counts as present although its
points were cleared; an edit during a request dates the old line by the new request.

Transport (`boost_ipc.cpp`): a read that ends inside a header loses it and every message
after it (`:40`); a client
that connects again keeps a partly read message; `server::stop` deletes the `io_service`
before the sockets; a write to a peer that has closed throws on one side and is
swallowed on the other; a broadcast to a session that was just removed dereferences
null, as does stopping a server that was not started; starting a server twice or
connecting twice assigns to a thread that runs; connecting again to nobody leaves a
client that believes to be connected, with a socket that is not open.

Memory: `zone.h` says of `Cache_Alloc` "Returns NULL if all purgable data was tossed"; it
ends the program instead. An item that `Cache_Move` moves becomes the most recently
used although nobody used it, and is never moved to the gap at the bottom, also when it
is the top that is cleared.

## Bounds

In `Playback` scripts have four blocks on frames 1 to 6, so that a skip
meets a start, a toggle that is pressed and released, a level exit and the end. The
constants of the code are smaller (a savestate from frame 3 on, every 4 frames)
so that these fall within the script; the countdown of 4 is that of the code. Three
typed commands (four for the user who asks for runs) are enough for a run, a second
one that meets it halfway and a third that meets what they left. Frame counters
saturate at `MaxFrame`, beyond every frame the properties speak of. In `Editor` the
script has three blocks and the user takes four actions: enough to make a savestate,
go on, edit and come back, or to enter a mode, move the mouse, edit something else and
leave. In `ScriptLibrary` two edits follow on scripts that already hold two shots;
the first playable frame is 2 and the cleared range 1, so that shots meet both, and the
buffer starts at 8 bytes, so that a line ends at each of its offsets. `ScriptFiles` has
more saves than files are kept, so that the rotation drops some, and a crash.
`Optimizer` has room for two shots, so that a request for more is refused, two scripts, three cliffs and searches over half a circle, in which a
mapping of three values and two halvings find the edge; two algorithms are picked in a
behaviour, so that each meets what another left. `MultiGame` has two clients, of which
one predicts, and three events: a run, an edit, and a run of the old task. `Transport`
has two connections, two messages, one of which takes more than a read, sent by
anybody in this order, and a reconnect.
`Datagram` has messages of one, two and three parts. `Memory` has a zone in which up to
five blocks fit, and three cached items in eleven units of hunk.

## Assumptions about the user

`Playback` and `Editor` choose in `Init` who uses them, and each kind of user has its own
commands; a property says for which it holds. In `Playback`, `patient` waits for each
run, `runs` asks for runs and savestates at any moment, `any` types anything. In
`Editor`, `values` keeps to commands that announce their edits to the savestates or
only touch the current frame, `blocks` gives the others. `InOrder`: savestates are made
on later and later frames, which `savestate_reuse` shows to be needed. `Undisturbed`:
nothing else is edited during a drag. `PauseSticks` and `RunsEnd` are for users who
ask for runs and savestates: one who types anything may stop a run, or leave
`should_unpause` set for the next pause. In `MultiGame`
the user does anything at any moment; `LineFaithful` and `TaskAfterPrediction` speak of
the times when `sv.hasty` is false, which `task_race` shows to be needed.

## Fairness

- The main loop goes on (`WF` of a change of `phase` in `Playback`, of the hooks in
  `MultiGame`, of frames in `Optimizer`): `main` calls `Host_Frame` in an endless loop.
  Nothing is assumed of the user, except in `MultiGame` that there are frames without
  a command and that a skip arrives.
- A function, once called, goes on (`RandomIntegers`, `Memory`).
- Both threads of each game run (`Transport`), and messages under way arrive
  (`MultiGame`; `Transport` shows it).
- In `Datagram` sockets are polled, time passes, and a packet that is sent again and again
  is in the end read: a network that loses everything delivers nothing.

## Proofs

The theorems hold for every value of the constants that the named assumptions
admit. Each rests on an invariant that is inductive, named below.

### Scripts

`ScriptLibraryProofs` proves three of the properties that `script_library` checks, for
scripts of any length and any arguments of the operations. They assume that the scripts
edited are in order to begin with and that frames are not negative
(`LibraryAssumption`), which the loader ensures by adding up unsigned distances.

`EditsKeepOrder`: the script stays in the order of its frames under every operation of
the library. The inductive invariant `InOrder` is `Ordered(blocks)`: besides the order,
the script is a sequence of well-formed blocks, without which the index arithmetic
means nothing. `GetBlockIndex` divides an ordered script into the blocks before the
frame and those not before it (`BlockIndex`), so a new block fits there (`Insertion`)
and a block changed in place keeps its frame (`Replacement`); a shift to the left stops
at the neighbour (`LeftLimit`, `MinDeltaFacts`); what a loop leaves of the blocks is in
order (`KeepOrdered`); and two scripts of which the first ends before the second
begins can be joined (`JoinOrdered`), which gives the shots, `AddScript` and
`GetTimeShiftedVersion`.

`ScriptsComeBack`: the script is read from its file, and from a message, as it was
written. `ScriptTextProofs` has the two halves. `FileRoundTrip`: the lines of a block,
read after those of the blocks before it, give that block (`ReadBlock`); the distance of
an ordered script is never negative, so its line is never taken for a command.
`MemoryRoundTrip`: wherever in the buffer a line falls, its characters are there and one
that ends a line follows, a newline or the null character that replaced it
(`BufferHolds`); so the reader finds the same lines (`LinesRead`). It assumes
that a line has a character before its newline (`BufferAssumption`).

`PatchesStaySound`: whatever variable an edit adds and wherever the script is then cut,
`ApplyChanges` makes the old script the edited one, and no frame up to the reported one,
as far as the edited script goes, sees a change. What it keeps and what it takes
over meet at the first difference (`ApplyGivesScript`); the blocks before the reported
frame are before that difference in both scripts (`NoChangeBefore`). The lemmas are for
any two scripts in order.

These proofs need induction along loops. The library's induction theorems can not be
used here, as they take an operator as a parameter, but induction over a *set* of
numbers can be proved: `UpTo` says that a set with 0, and with each number the next, has
every number up to n, since otherwise `0 .. n` would map one to one into `1 .. n`. A
recursive function is shown to satisfy its equation at each index in the same way
(`KeepSteps`, `WriteSteps`, `ParseSteps`, `BufferSteps`, `ReadSteps`, `StackSteps`).

### Several games

All of this is for any number of clients, edits and runs and any delay of the
messages, and uses that channels lose and reorder nothing. Efficacies may be any
integers (`MultiGameAssumption`), also negative ones.

`ShownStaysCurrent` (`MultiGameProofs`): what the server shows is of its current task,
whatever the user does. The invariant `IInv` says what may be under way
between the server and one client: tasks come in the order of their numbers, all later
than the client's, and the last is the server's (`DownInv`); reports are of the client's
task or an earlier one, and their progress is not ahead of the client's (`UpInv`); and
before any run of the server's task there is its goal, known to the server or earlier in
the channel (`GoalInv`). A number that the server has just given is therefore in no
message that is still on its way to it.

`BestRunAlwaysSpreads` (`SpreadProofs`): no improvement is lost. `SpreadInv` adds to `IInv`,
for one client and its two queues: no run on its way to the client is better than the
server's best (`Sends`); the client has that run or will get it behind its task
(`Gets`, `Brings`); what the client found itself is no better than the best it holds (`Found`); and the
server knows of that, is being told, or will be with the client's next report (`Tells`,
`Known`); while the server's search runs, so does that of a client with a run to report
(`Lasts`). The client keeps the best efficacy it has reported (`bestEfficacy`) apart from
its best run, and reports only what is better: that is safe because the server knows of
everything up to it.

`LineStaysFaithful` and `TasksFollowPredictions` (`PredictionProofs`): a line that counts as
up to date is that of the current script, made by one run, and a task is given only
when no prediction is outstanding, unless the user has been hasty (`sv.hasty`). All
requests have the same id, and `task_race` shows the second to fail without this
condition. `PredInv` says at all times that only one client predicts and that it stops
its search when the server does (`Quiet`). While the user waits, it says that there is a
line and no request, or one request and no line (`Predicted`), and where the request is
(`Pending`): on its way behind what stops the client's search (`Asked`), being worked on
with only runs behind it (`Working`), or answered (`Answered`). After haste a request
made while nothing is outstanding establishes `Predicted` again.

### Storage

`SavesSurviveAlways` (`StorageProofs`): for any number of names, backups, saves and
crashes. `Found`, a part of the invariant `FilesInv`, says where a save is: `Place` makes
the slot depend on how far the rotation has come, so that each rename moves the file and
its place together; `Rotation` and `Numbered` say which slot is free at each step and
that save numbers are in order.

`ZoneStaysConsistent` and `ScanMissesNothing` (`StorageProofs`): for a zone and requests of
any size, the list stays consistent and the search misses no block that fits. The
invariant `ZoneInv` adds where the search is: every free block that is large enough lies
between the rover and the block before its start, and a rover on a free block is the
base. That no two free blocks touch is what makes it safe to pass over the block after
a free one. Merging and splitting are lemmas about lists alone (`MergeTiled`,
`SplitTiled`). It assumes that a header fits what a split leaves
(`HEADER <= MINFRAGMENT`), as in the code (40 and 64 bytes).

`CacheStaysSound` (`HunkProofs`): for hunks and items of any size and any number of users,
cached items do not overlap, are found by their owners alone and lie clear of both
hunks when a call returns. During a call they need not: the invariant `HunkInv` says
that every item is clear of a hunk except of the one that has just grown and is being
cleared, that a user who waits for a place has none (`CallSound`), that the two lists
have the same items, one of them in the order of addresses (`Lists`), and that each item
and its owner point to each other (`Owned`). It assumes that the set of users is finite.

### Algorithms

`StreamingSafe`, `DatagramIsChannel`, `DatagramsStayInOrder` (`AlgorithmProofs`): for messages of
any length and any network, sender and receiver stay within one part of each other, the
protocol implements `MessageChannel`, and unreliable packets are delivered in the order
of their numbers. The invariant adds to `Streaming` what the packets under way may be:
data packets carry the part of their sequence number, and acknowledgements only what
was received. `DatagramInv` says that the number the receiver expects next is past all
it has delivered.

`DrawIntervalSafe`, `ResultCorrect` (`AlgorithmProofs`): for every argument list,
`GenerateRandomIntegers` never draws from an empty interval, and its result is spaced and
in range. Neither is inductive. `IInv` adds that the lower ends of the intervals, and
their upper ends, are `minGap` apart except at the one link a loop is about to repair,
that placed slots have one-point intervals, and how many are placed, as a bijection with
the iterations done (`PlacedCount`). The assumption is that `minGap` is not negative, as
in every call.

### What is model-checked only

- Everything about liveness and fairness: `Terminates`, `RunsEnd`, `SearchesEnd`,
  `SearchResumes`, `MessagesArrive`, `Delivery`, `AllocationsEnd`.
- `ShotsFire` and `SplicePreserves`: they compare the values stacked over two scripts of
  different lengths, before and after an edit, which would take an induction over both.
- `Transport`: its reads are a recursive operator, which the proof system can not load.
- `Playback`, `Editor` and `Optimizer`: their invariants relate most fields of a record of
  globals that every command changes; the inductive invariants would be far larger than
  the modules. TLC covers the cases that the bounds above allow.
- Refinement beyond safety: `DatagramIsChannel` and `Channels` are about `MessageChannel`
  without fairness.


## Not modelled

Physics, strafing, cameras, the values of goals and the test runner's comparisons of
states are floating-point computations; drawing, the HUD and logging are output;
`console_input.c` has no caller in the game (the one in `sys_linux.c:344` is commented
out); the JSON interface is a single request and answer in the Windows build. Of the
engine itself only what the tools meet is here: the host frame, connections and
sign-on, the datagram protocol and the allocators. Rendering, sound, game code, the
menu, and the discovery of servers are not. `components` in PROJECT.json gives the
reason for each part.
