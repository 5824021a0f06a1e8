---------------------------- MODULE ScriptFiles -----------------------------
(***************************************************************************)
(* Scripts on disk: tas_edit_save and tas_script_load, with the rotation of *)
(* backups (Move_Saves and Write_To_File, libtasquake/src/script_parse.cpp, *)
(* called from Source/tas/script_playback.cpp).  Saving is a sequence of    *)
(* calls to the file system, and the game may crash, or the disk refuse,    *)
(* between any two of them.                                                 *)
(*                                                                          *)
(* Backup 0 of a script is the file with its own name, backup i is name-i.  *)
(* A file holds the version of the script that was written and whether all  *)
(* of it was; its save number, which the code does not have, tells the      *)
(* properties which save wrote it.                                          *)
(***************************************************************************)
EXTENDS Integers, FiniteSets

CONSTANTS
    Name,           \* names of scripts; each gets the extension .qtas
    MaxBackups,     \* the largest value of tas_edit_backups
    MaxSaves, MaxEdits, MaxCrashes

ASSUME FilesAssumption == MaxBackups \in Nat \ {0}

VARIABLES
    backups,        \* tas_edit_backups
    disk,           \* name -> backup number -> a set with the file there, if any
    script,         \* the script in memory: name and version, 0 without blocks
    pc,             \* where Write_To_File is, with the backup to be moved next
    versions,       \* versions of the script made so far
    crashes,
    started,        \* history: saves begun under each name
    completed       \* history: the save numbers of those that ended

vars == <<backups, disk, script, pc, versions, crashes, started, completed>>

Slots == 0 .. MaxBackups
Idle == [at |-> "idle", i |-> 0]

\* No script has been loaded: file_name is empty and there are no blocks.
NoScript == [name |-> "", version |-> 0]

Init ==
    /\ backups \in 0 .. MaxBackups
    /\ disk = [n \in Name |-> [i \in Slots |-> {}]]
    /\ script = NoScript
    /\ pc = Idle
    /\ versions = 0 /\ crashes = 0
    /\ started = [n \in Name |-> 0]
    /\ completed = [n \in Name |-> {}]

-----------------------------------------------------------------------------
\* Write_To_File up to its first call to the file system, for a script with blocks.
Write_To_File(n) ==
    /\ started[n] < MaxSaves
    /\ started' = [started EXCEPT ![n] = @ + 1]
    /\ pc' = [at |-> IF backups = 0 THEN "open" ELSE "remove", i |-> backups - 2]

\* A command that changes the script.
Edit ==
    /\ pc = Idle
    /\ versions < MaxEdits
    /\ versions' = versions + 1
    /\ script' = [script EXCEPT !.version = versions + 1]
    /\ UNCHANGED <<backups, disk, pc, crashes, started, completed>>

\* tas_script_init makes a new script and saves it.
Cmd_TAS_Script_Init ==
    /\ pc = Idle
    /\ versions < MaxEdits
    /\ versions' = versions + 1
    /\ \E n \in Name :
          /\ script' = [name |-> n, version |-> versions + 1]
          /\ Write_To_File(n)
    /\ UNCHANGED <<backups, disk, crashes, completed>>

\* tas_script_load, of a script or of one of its backups under the backup's name.
\* A file that is cut off loads as far as it goes, and one that is not there leaves
\* a script without blocks.
Cmd_TAS_Script_Load ==
    /\ pc = Idle
    /\ \E n \in Name, i \in Slots :
          script' = [name |-> IF i = 0 THEN n ELSE "",
                     version |-> IF disk[n][i] = {} THEN 0
                                 ELSE (CHOOSE f \in disk[n][i] : TRUE).version]
    /\ UNCHANGED <<backups, disk, pc, versions, crashes, started, completed>>

\* tas_edit_save, with or without a new name.  A script without blocks is not
\* written, nor is one without a name.
Cmd_TAS_Edit_Save ==
    /\ pc = Idle
    /\ \E n \in Name :
          /\ script' = [script EXCEPT !.name = n]
          /\ IF script.version = 0 THEN UNCHANGED <<pc, started>> ELSE Write_To_File(n)
    /\ UNCHANGED <<backups, disk, versions, crashes, completed>>

\* The oldest backup goes.  If only one file is kept this is the script itself.
Move_Saves_Remove ==
    /\ pc.at = "remove"
    /\ disk' = [disk EXCEPT ![script.name][backups - 1] = {}]
    /\ pc' = [pc EXCEPT !.at = IF pc.i >= 0 THEN "rename" ELSE "open"]
    /\ UNCHANGED <<backups, script, versions, crashes, started, completed>>

\* Mutant: the loop goes up from the script's own file.
Move_Saves_Rename_Bug ==
    /\ pc.at = "rename"
    /\ LET i == backups - 2 - pc.i
       IN  disk' = IF disk[script.name][i] = {} THEN disk
                   ELSE [disk EXCEPT ![script.name] =
                            [@ EXCEPT ![i + 1] = disk[script.name][i], ![i] = {}]]
    /\ pc' = [at |-> IF pc.i > 0 THEN "rename" ELSE "open", i |-> pc.i - 1]
    /\ UNCHANGED <<backups, script, versions, crashes, started, completed>>

Move_Saves_Rename ==
    /\ pc.at = "rename"
    /\ disk' = IF disk[script.name][pc.i] = {} THEN disk
               ELSE [disk EXCEPT ![script.name] =
                        [@ EXCEPT ![pc.i + 1] = disk[script.name][pc.i], ![pc.i] = {}]]
    /\ pc' = [at |-> IF pc.i > 0 THEN "rename" ELSE "open", i |-> pc.i - 1]
    /\ UNCHANGED <<backups, script, versions, crashes, started, completed>>

\* Opening the file for writing empties it.
Write_To_File_Open ==
    /\ pc.at = "open"
    /\ disk' = [disk EXCEPT ![script.name][0] =
                   {[version |-> script.version, save |-> started[script.name], whole |-> FALSE]}]
    /\ pc' = [pc EXCEPT !.at = "write"]
    /\ UNCHANGED <<backups, script, versions, crashes, started, completed>>

\* The file can not be opened.
Write_To_File_Refused ==
    /\ pc.at = "open"
    /\ pc' = Idle
    /\ UNCHANGED <<backups, disk, script, versions, crashes, started, completed>>

Write_To_File_Finalize ==
    /\ pc.at = "write"
    /\ disk' = [disk EXCEPT ![script.name][0] =
                   {[version |-> script.version, save |-> started[script.name], whole |-> TRUE]}]
    /\ pc' = Idle
    /\ completed' = [completed EXCEPT ![script.name] = @ \cup {started[script.name]}]
    /\ UNCHANGED <<backups, script, versions, crashes, started>>

\* The game dies, at any point, and is started again.
Crash ==
    /\ crashes < MaxCrashes
    /\ crashes' = crashes + 1
    /\ script' = NoScript
    /\ pc' = Idle
    /\ UNCHANGED <<backups, disk, versions, started, completed>>

Save ==
    \/ Move_Saves_Remove \/ Move_Saves_Rename
    \/ Write_To_File_Open \/ Write_To_File_Refused \/ Write_To_File_Finalize

Next ==
    \/ Edit \/ Cmd_TAS_Script_Init \/ Cmd_TAS_Script_Load \/ Cmd_TAS_Edit_Save
    \/ Save \/ Crash

Spec == Init /\ [][Next]_vars

-----------------------------------------------------------------------------
Age(n, save) == started[n] - save

\* A script that was saved is found on disk, complete, until as many saves of that
\* name have begun as files are kept, no matter where those saves were cut off; and it
\* is found no further back than the number of saves since.
SavesSurvive ==
    \A n \in Name : \A s \in completed[n] :
        Age(n, s) = 0 \/ Age(n, s) < backups =>
            \E i \in 0 .. Age(n, s) : \E f \in disk[n][i] : f.save = s /\ f.whole
=============================================================================
