------------------------------- MODULE Memory -------------------------------
(***************************************************************************)
(* The allocators of zone.c together.  The zone is one block at the bottom *)
(* of the hunk and shares nothing else with it, so every behaviour has     *)
(* calls to one of them only.                                              *)
(***************************************************************************)
EXTENDS Zone, Hunk

VARIABLE allocator  \* the one that is called

vars == <<zoneVars, hunkVars, allocator>>

Init == Memory_Init /\ ZoneInit /\ allocator \in {"zone", "hunk"}

(* Sys_Error has ended the program.                                        *)
Exited ==
  /\ scan.at = "null" \/ hcall.at = "exit"
  /\ UNCHANGED vars

Next ==
  \/ allocator = "zone" /\ ZoneNext /\ UNCHANGED <<hunkVars, allocator>>
  \/ allocator = "hunk" /\ HunkNext /\ UNCHANGED <<zoneVars, allocator>>
  \/ Exited

(* A call that has begun goes on: the allocators run on the main thread.   *)
Fairness ==
  /\ WF_vars((Scan \/ GiveUp \/ Take) /\ UNCHANGED <<hunkVars, allocator>>)
  /\ WF_vars(Loops /\ UNCHANGED <<zoneVars, allocator>>)

Spec == Init /\ [][Next]_vars /\ Fairness

(* The loops over lists that they change end: the search of the zone, the  *)
(* clearing of space for a hunk and the eviction from the cache.  The      *)
(* eviction ends with the item in place; or with all items thrown out and  *)
(* still no room between the hunks for it, and then the program ends       *)
(* (Sys_Error, zone.c:897), where zone.h:128-130 says "Returns NULL if all *)
(* purgable data was tossed and there still wasn't enough room".           *)
AllocationsEnd ==
  /\ scan.at = "scan" ~> scan.at \in {"idle", "null"}
  /\ hcall.at \in {"low", "high"} ~> hcall.at = "idle"
  /\ hcall.at = "cache" ~>
       \/ hcall.at = "idle"
       \/ hcall.at = "exit" /\ items = <<>> /\ Top - hunk_low_used < hcall.size
=============================================================================
