-------------------------------- MODULE Zone --------------------------------
(***************************************************************************)
(* The zone allocator of zone.c, for the strings of the console, aliases,  *)
(* bindings and variables: a circular list of blocks, searched from a      *)
(* rover that stays where the last allocation ended.  zone.c says of it:   *)
(* "There is never any space between memblocks, and there will never be    *)
(* two contiguous free memblocks."                                         *)
(*                                                                         *)
(* An address is the distance from the first block.  The cap of the list,  *)
(* a field of memzone_t in the code, takes the address at the end of the   *)
(* zone, so that the last block, too, ends where its successor is.         *)
(***************************************************************************)
EXTENDS Integers

CONSTANTS HEADER,       \* sizeof(memblock_t)
          MINFRAGMENT,  \* what is left over by less stays with its block
          Cap,          \* the bytes of the zone, and the address of the cap
          Sizes         \* the sizes that are asked for

ASSUME ZoneAssumption ==
  /\ HEADER \in Nat \ {0} /\ MINFRAGMENT \in Nat /\ HEADER <= MINFRAGMENT
  /\ Cap \in Nat /\ HEADER <= Cap
  /\ Sizes \subseteq Nat

VARIABLES
  block,  \* the header at the address of every block of the list
  zrover, \* mainzone->rover
  scan,   \* the locals of Z_TagMalloc
  asked   \* history: how many bytes the owner of each block in use asked for

zoneVars == <<block, zrover, scan, asked>>

NotScanning ==
  [at |-> "idle", want |-> 0, size |-> 0, base |-> 0, rover |-> 0, start |-> 0]

-----------------------------------------------------------------------------
(* The size of the block for a request: header, trash tester, alignment.   *)
BlockSize(want) == ((want + HEADER + 4 + 7) \div 8) * 8

Z_ClearZone ==
  /\ block = [a \in {0, Cap} |->
                IF a = 0
                THEN [size |-> Cap, tag |-> 0, next |-> Cap, prev |-> Cap]
                ELSE [size |-> 0, tag |-> 1, next |-> 0, prev |-> 0]]
  /\ zrover = 0

(* Block a of the list z takes in the block after it.                      *)
Merge(z, a) ==
  LET b == z[a].next
      c == z[b].next
  IN  [x \in DOMAIN z \ {b} |->
         IF x = a THEN [z[a] EXCEPT !.size = @ + z[b].size, !.next = c]
         ELSE IF x = c THEN [z[c] EXCEPT !.prev = a]
         ELSE z[x]]

(* Block a of the list z keeps size bytes, the rest becomes a free block.  *)
Split(z, a, size) ==
  LET n == a + size
      c == z[a].next
  IN  [x \in DOMAIN z \cup {n} |->
         IF x = n THEN [size |-> z[a].size - size, tag |-> 0,
                        next |-> c, prev |-> a]
         ELSE IF x = a THEN [z[a] EXCEPT !.size = size, !.next = n]
         ELSE IF x = c THEN [z[c] EXCEPT !.prev = n]
         ELSE z[x]]

Mark(z, a, tag) == [z EXCEPT ![a] = [@ EXCEPT !.tag = tag]]

(* Z_Free of the block at a that somebody has: it is joined with the free  *)
(* block before it and with the free block after it, and the rover never   *)
(* stays on a block that was taken in.                                     *)
MergedBefore(a) == block[block[a].prev].tag = 0

FreedList(a) ==
  LET z == Mark(block, a, 0)
  IN  IF MergedBefore(a) THEN Merge(z, block[a].prev) ELSE z

FreedBlock(a) == IF MergedBefore(a) THEN block[a].prev ELSE a

Z_Free_Bug(a) ==
  LET z == FreedList(a)
      b == FreedBlock(a)
      other == z[b].next
  IN  /\ scan.at = "idle"
      /\ block' = IF z[other].tag = 0 THEN Merge(z, b) ELSE z
      /\ zrover' = IF zrover = a THEN b ELSE zrover
      /\ asked' = [x \in DOMAIN asked \ {a} |-> asked[x]]
      /\ UNCHANGED scan

Z_Free(a) ==
  LET z == FreedList(a)
      b == FreedBlock(a)
      other == z[b].next
      r == IF zrover = a THEN b ELSE zrover
  IN  /\ scan.at = "idle"
      /\ block' = IF z[other].tag = 0 THEN Merge(z, b) ELSE z
      /\ zrover' = IF z[other].tag = 0 /\ r = other THEN b ELSE r
      /\ asked' = [x \in DOMAIN asked \ {a} |-> asked[x]]
      /\ UNCHANGED scan

-----------------------------------------------------------------------------
(* Z_Malloc calls Z_TagMalloc, which begins at the rover.                  *)
Z_Malloc(want) ==
  /\ scan.at = "idle"
  /\ scan' = [at |-> "scan", want |-> want, size |-> BlockSize(want),
              base |-> zrover, rover |-> zrover, start |-> block[zrover].prev]
  /\ UNCHANGED <<block, zrover, asked>>

(* An iteration of its loop.  base stays on a free block while the rover   *)
(* goes on, and follows the rover past a block in use.                     *)
Fits(a, size) == block[a].tag = 0 /\ size <= block[a].size

Scan_Bug ==
  LET next == block[scan.rover].next
  IN  /\ scan.at = "scan"
      /\ scan.rover # scan.start
      /\ scan' = [scan EXCEPT !.base = next, !.rover = next,
                              !.at = IF Fits(next, scan.size)
                                     THEN "found" ELSE "scan"]
      /\ UNCHANGED <<block, zrover, asked>>

Scan ==
  LET next == block[scan.rover].next
      base == IF block[scan.rover].tag = 0 THEN scan.base ELSE next
  IN  /\ scan.at = "scan"
      /\ scan.rover # scan.start
      /\ scan' = [scan EXCEPT !.base = base, !.rover = next,
                              !.at = IF Fits(base, scan.size)
                                     THEN "found" ELSE "scan"]
      /\ UNCHANGED <<block, zrover, asked>>

(* The rover has been round: NULL, and Z_Malloc ends the program.          *)
GiveUp ==
  /\ scan.at = "scan"
  /\ scan.rover = scan.start
  /\ scan' = [scan EXCEPT !.at = "null"]
  /\ UNCHANGED <<block, zrover, asked>>

(* The block that was found is handed out, without what it does not need.  *)
Take ==
  LET a == scan.base
      z == IF block[a].size - scan.size > MINFRAGMENT
           THEN Split(block, a, scan.size) ELSE block
  IN  /\ scan.at = "found"
      /\ block' = Mark(z, a, 1)
      /\ zrover' = z[a].next
      /\ asked' = [x \in DOMAIN asked \cup {a} |->
                     IF x = a THEN scan.want ELSE asked[x]]
      /\ scan' = NotScanning

ZoneInit == Z_ClearZone /\ scan = NotScanning /\ asked = [a \in {} |-> 0]

ZoneNext ==
  \/ \E want \in Sizes : Z_Malloc(want)
  \/ Scan
  \/ GiveUp
  \/ Take
  \/ \E a \in DOMAIN asked : Z_Free(a)

ZoneSpec == ZoneInit /\ [][ZoneNext]_zoneVars

-----------------------------------------------------------------------------
(* The list z has no gaps, no overlaps and links that agree: a block ends  *)
(* where the next one begins, and from there a link leads back.            *)
Tiled(z) ==
  /\ {0, Cap} \subseteq DOMAIN z
  /\ z[Cap].tag = 1 /\ z[Cap].next = 0
  /\ \A a \in DOMAIN z :
       /\ z[a].next \in DOMAIN z /\ z[z[a].next].prev = a
       /\ z[a].prev \in DOMAIN z /\ z[z[a].prev].next = a
  /\ \A a \in DOMAIN z \ {Cap} :
       HEADER <= z[a].size /\ z[a].next = a + z[a].size
  /\ \A a, b \in DOMAIN z : a < b => a + z[a].size <= b

NoFreeNeighbours(z) ==
  \A a \in DOMAIN z : z[a].tag = 0 => z[z[a].next].tag # 0

(* What the comment in zone.c promises and Z_Print tests, whatever was     *)
(* allocated and freed in whatever order: the blocks tile the zone, no two *)
(* free ones touch, the rover is on one of them, and every allocation that *)
(* was not freed still has a block of its own with all its bytes and room  *)
(* for the trash tester.                                                   *)
ZoneConsistent ==
  /\ Tiled(block)
  /\ NoFreeNeighbours(block)
  /\ zrover \in DOMAIN block
  /\ DOMAIN asked = {a \in DOMAIN block \ {Cap} : block[a].tag = 1}
  /\ \A a \in DOMAIN asked : HEADER + asked[a] + 4 <= block[a].size

(* Z_TagMalloc gives up, which ends the program, only if no free block is  *)
(* large enough, wherever the rover was when it began and although it      *)
(* never looks at the block that follows a free one.                       *)
ScanComplete ==
  scan.at = "null" => \A a \in DOMAIN block : ~Fits(a, scan.size)
=============================================================================
