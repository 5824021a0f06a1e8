---------------------------- MODULE StorageProofs ---------------------------
(***************************************************************************)
(* What is stored is not lost.  The zone allocator keeps its list in order *)
(* and finds every block that fits, for a zone of any size, blocks of any  *)
(* size and any sequence of allocations and frees.  And the newest         *)
(* complete saves of a script are on disk, for any number of backups and   *)
(* wherever a save is cut short.                                           *)
(***************************************************************************)
EXTENDS Zone, ScriptFiles, TLAPS

Header == [size : Nat, tag : {0, 1}, next : 0..Cap, prev : 0..Cap]

(* A list: headers at some of the addresses of the zone.                   *)
IsList(z) == DOMAIN z \subseteq 0..Cap /\ z \in [DOMAIN z -> Header]

(* What the rows of a list say one by one.                                 *)
LEMMA Rows ==
  ASSUME NEW z, IsList(z), NEW x \in DOMAIN z
  PROVE  /\ x \in 0..Cap /\ z[x] \in Header
         /\ z[x].size \in Nat /\ z[x].tag \in {0, 1}
         /\ z[x].next \in 0..Cap /\ z[x].prev \in 0..Cap
BY DEF IsList, Header

(* The links of a block, and where it ends.                                *)
LEMMA Links ==
  ASSUME NEW z, IsList(z), Tiled(z), NEW x \in DOMAIN z
  PROVE  /\ z[x].next \in DOMAIN z /\ z[z[x].next].prev = x
         /\ z[x].prev \in DOMAIN z /\ z[z[x].prev].next = x
         /\ x = Cap => z[x].tag = 1 /\ z[x].next = 0
         /\ x # Cap => /\ HEADER <= z[x].size /\ z[x].next = x + z[x].size
                       /\ x < z[x].next
<1>1. x \in 0..Cap /\ z[x].size \in Nat
  BY Rows
<1>2. /\ z[x].next \in DOMAIN z /\ z[z[x].next].prev = x
      /\ z[x].prev \in DOMAIN z /\ z[z[x].prev].next = x
      /\ x = Cap => z[x].tag = 1 /\ z[x].next = 0
      /\ x # Cap => HEADER <= z[x].size /\ z[x].next = x + z[x].size
  BY Zenon DEF Tiled
<1>. QED
  BY <1>1, <1>2, ZoneAssumption

(* The block at the end of the zone.                                       *)
LEMMA CapRow ==
  ASSUME NEW z, Tiled(z)
  PROVE  Cap \in DOMAIN z /\ z[Cap].tag = 1 /\ z[Cap].next = 0
BY DEF Tiled

(* Any other block ends where the next begins.                             *)
LEMMA Extent ==
  ASSUME NEW z, IsList(z), Tiled(z), NEW x \in DOMAIN z, x # Cap
  PROVE  HEADER <= z[x].size /\ z[x].next = x + z[x].size /\ x < z[x].next
BY Links

(* Of two blocks, the first ends before the second begins.                 *)
LEMMA Apart ==
  ASSUME NEW z, IsList(z), Tiled(z), NEW x \in DOMAIN z, NEW y \in DOMAIN z,
         x < y
  PROVE  x + z[x].size <= y /\ z[x].next <= y
<1>1. x + z[x].size <= y
  BY DEF Tiled
<1>2. x # Cap
  BY Rows
<1>. QED
  BY <1>1, <1>2, Links, Zenon

(* m is the list z after block a has taken in block b, which c follows.    *)
MergeOf(m, z, a, b, c) ==
  /\ DOMAIN m = DOMAIN z \ {b}
  /\ a < b /\ b < c
  /\ \A x \in DOMAIN m :
       /\ m[x].tag = z[x].tag
       /\ m[x].size = IF x = a THEN z[a].size + z[b].size ELSE z[x].size
       /\ m[x].next = IF x = a THEN c ELSE z[x].next
       /\ m[x].prev = IF x = c THEN a ELSE z[x].prev

(* The rows of a merged list.                                              *)
LEMMA MergeRows ==
  ASSUME NEW z, IsList(z), Tiled(z), NEW a \in DOMAIN z, a # Cap,
         NEW b, b = z[a].next, b # Cap, NEW c, c = z[b].next,
         NEW m, m = Merge(z, a)
  PROVE  MergeOf(m, z, a, b, c) /\ IsList(m)
<1>1. a < b /\ b < c /\ b \in DOMAIN z
  BY Links, Zenon
<1>2. b \in DOMAIN z /\ c \in DOMAIN z
  BY <1>1, Links, Zenon
<1>3. a \in 0..Cap /\ b \in 0..Cap /\ c \in 0..Cap
  BY <1>2, Rows
<1>4. DOMAIN m = DOMAIN z \ {b}
  BY DEF Merge
<1>5. ASSUME NEW x \in DOMAIN m
      PROVE  /\ m[x].tag = z[x].tag
             /\ m[x].size = IF x = a THEN z[a].size + z[b].size ELSE z[x].size
             /\ m[x].next = IF x = a THEN c ELSE z[x].next
             /\ m[x].prev = IF x = c THEN a ELSE z[x].prev
             /\ m[x] \in Header
  <2>1. /\ z[x] \in Header /\ z[a] \in Header
        /\ z[b] \in Header /\ z[c] \in Header
    BY <1>2, <1>4, <1>5, Rows
  <2>2. m[x] = IF x = a THEN [z[a] EXCEPT !.size = @ + z[b].size, !.next = c]
               ELSE IF x = c THEN [z[c] EXCEPT !.prev = a]
               ELSE z[x]
    BY <1>4, <1>5 DEF Merge
  <2>3. CASE x = a
    <3>1. a # c
      BY <1>1, <1>3
    <3>2. m[a] = [z[a] EXCEPT !.size = @ + z[b].size, !.next = c]
      BY <2>2, <2>3
    <3>3. z[a].size + z[b].size \in Nat
      BY <2>1 DEF Header
    <3>4. m[a] = [size |-> z[a].size + z[b].size, tag |-> z[a].tag,
                  next |-> c, prev |-> z[a].prev]
      BY <2>1, <3>2, Zenon DEF Header
    <3>5. m[a] \in Header
      BY <1>3, <2>1, <3>3, <3>4 DEF Header
    <3>. QED
      BY <2>3, <3>1, <3>4, <3>5
  <2>4. CASE x = c
    BY <1>1, <1>3, <2>1, <2>2, <2>4 DEF Header
  <2>5. CASE x # a /\ x # c
    BY <2>1, <2>2, <2>5
  <2>. QED
    BY <2>3, <2>4, <2>5
<1>6. IsList(m)
  <2>1. m = [x \in DOMAIN m |-> m[x]]
    BY DEF Merge
  <2>. QED
    BY <1>4, <1>5, <2>1 DEF IsList
<1>. QED
  BY <1>1, <1>4, <1>5, <1>6 DEF MergeOf

(* A merged list is a tiling again: the block that is taken in is the only *)
(* one that has a link to it or from it.                                   *)
LEMMA MergeTiled ==
  ASSUME NEW z, IsList(z), Tiled(z), NEW a \in DOMAIN z, a # Cap,
         z[a].next # Cap
  PROVE  Tiled(Merge(z, a))
<1>1. PICK m : m = Merge(z, a)
  OBVIOUS
<1>2. PICK b : b = z[a].next
  OBVIOUS
<1>3. PICK c : c = z[b].next
  OBVIOUS
<1>r. MergeOf(m, z, a, b, c)
  BY <1>1, <1>2, <1>3, MergeRows
<1>4. /\ DOMAIN m = DOMAIN z \ {b}
      /\ a < b /\ b < c
      /\ \A x \in DOMAIN m :
           /\ m[x].tag = z[x].tag
           /\ m[x].size = IF x = a THEN z[a].size + z[b].size ELSE z[x].size
           /\ m[x].next = IF x = a THEN c ELSE z[x].next
           /\ m[x].prev = IF x = c THEN a ELSE z[x].prev
  BY <1>r DEF MergeOf
<1>5. /\ b \in DOMAIN z /\ c \in DOMAIN z
      /\ z[b].prev = a /\ z[c].prev = b
  BY <1>2, <1>3, Zenon DEF Tiled
<1>6. a \in 0..Cap /\ b \in 0..Cap /\ c \in 0..Cap /\ z[a].size \in Nat
      /\ z[b].size \in Nat
  BY <1>5, Rows
<1>7. {0, Cap} \subseteq DOMAIN m /\ m[Cap].tag = 1 /\ m[Cap].next = 0
  <2>1. {0, Cap} \subseteq DOMAIN z /\ z[Cap].tag = 1 /\ z[Cap].next = 0
    BY DEF Tiled
  <2>2. 0 # b /\ Cap # b
    BY <1>2, <1>4, <1>6
  <2>. QED
    BY <1>4, <2>1, <2>2
<1>8. ASSUME NEW x \in DOMAIN m
      PROVE  m[x].next \in DOMAIN m /\ m[m[x].next].prev = x
  <2>1. x \in DOMAIN z /\ x # b
    BY <1>4, <1>8
  <2>2. CASE x = a
    BY <1>4, <1>5, <1>6, <1>8, <2>2
  <2>3. CASE x # a
    <3>1. z[x].next \in DOMAIN z /\ z[z[x].next].prev = x
      BY <2>1 DEF Tiled
    <3>2. z[x].next # b /\ z[x].next # c
      BY <1>5, <2>1, <2>3, <3>1
    <3>. QED
      BY <1>4, <1>8, <2>3, <3>1, <3>2
  <2>. QED
    BY <2>2, <2>3
<1>9. ASSUME NEW x \in DOMAIN m
      PROVE  m[x].prev \in DOMAIN m /\ m[m[x].prev].next = x
  <2>1. x \in DOMAIN z /\ x # b
    BY <1>4, <1>9
  <2>2. CASE x = c
    BY <1>4, <1>5, <1>6, <1>9, <2>2
  <2>3. CASE x # c
    <3>1. z[x].prev \in DOMAIN z /\ z[z[x].prev].next = x
      BY <2>1 DEF Tiled
    <3>2. z[x].prev # b /\ z[x].prev # a
      BY <1>2, <1>3, <2>1, <2>3, <3>1
    <3>. QED
      BY <1>4, <1>9, <2>3, <3>1, <3>2
  <2>. QED
    BY <2>2, <2>3
<1>10. ASSUME NEW x \in DOMAIN m \ {Cap}
       PROVE  HEADER <= m[x].size /\ m[x].next = x + m[x].size
  <2>1. x \in DOMAIN z /\ x # Cap /\ x # b
    BY <1>4, <1>10
  <2>2. CASE x = a
    <3>1. HEADER <= z[a].size /\ b = a + z[a].size /\ c = b + z[b].size
      <4>1. HEADER <= z[a].size /\ b = a + z[a].size
        BY <1>2, <1>3, <1>5, Links
      <4>2. c = b + z[b].size
        BY <1>2, <1>3, <1>5, Links, ZenonT(30)
      <4>. QED
        BY <4>1, <4>2
    <3>2. m[a].size = z[a].size + z[b].size /\ m[a].next = c
      BY <1>4, <1>10, <2>2
    <3>. QED
      BY <1>6, <2>2, <3>1, <3>2, ZoneAssumption
  <2>3. CASE x # a
    <3>1. HEADER <= z[x].size /\ z[x].next = x + z[x].size
      BY <2>1, Extent
    <3>2. m[x].size = z[x].size /\ m[x].next = z[x].next
      BY <1>4, <1>10, <2>3
    <3>. QED
      BY <3>1, <3>2
  <2>. QED
    BY <2>2, <2>3
<1>11. ASSUME NEW x \in DOMAIN m, NEW y \in DOMAIN m, x < y
       PROVE  x + m[x].size <= y
  <2>1. x \in DOMAIN z /\ y \in DOMAIN z /\ y # b /\ x \in 0..Cap
        /\ y \in 0..Cap
    BY <1>4, <1>11, Rows
  <2>2. x + z[x].size <= y
    BY <1>11, <2>1, Apart
  <2>3. CASE x = a
    <3>1. b = a + z[a].size
      BY <1>2, Links
    <3>2. b + z[b].size <= y
      BY <1>5, <1>6, <2>1, <2>2, <2>3, <3>1, Apart
    <3>. QED
      BY <1>4, <1>6, <1>11, <2>1, <2>3, <3>1, <3>2
  <2>. QED
    BY <1>4, <1>11, <2>2, <2>3
<1>. QED
  BY <1>1, <1>7, <1>8, <1>9, <1>10, <1>11, Zenon DEF Tiled
(* m is the list z after block a, which c follows, was split at n.         *)
SplitOf(m, z, a, size, n, c) ==
  /\ DOMAIN m = DOMAIN z \cup {n} /\ n \notin DOMAIN z
  /\ a < n /\ n < c
  /\ \A x \in DOMAIN z :
       /\ m[x].tag = z[x].tag
       /\ m[x].size = IF x = a THEN size ELSE z[x].size
       /\ m[x].next = IF x = a THEN n ELSE z[x].next
       /\ m[x].prev = IF x = c THEN n ELSE z[x].prev
  /\ m[n] = [size |-> z[a].size - size, tag |-> 0, next |-> c, prev |-> a]

(* The rows of a list one of whose blocks was split.                       *)
LEMMA SplitRows ==
  ASSUME NEW z, IsList(z), Tiled(z), NEW a \in DOMAIN z, a # Cap,
         NEW size \in Nat, HEADER <= size, MINFRAGMENT < z[a].size - size,
         NEW n, n = a + size, NEW c, c = z[a].next,
         NEW m, m = Split(z, a, size)
  PROVE  SplitOf(m, z, a, size, n, c) /\ IsList(m)
<1>1. c \in DOMAIN z /\ c = a + z[a].size
  BY Links
<1>2. a \in 0..Cap /\ c \in 0..Cap /\ z[a].size \in Nat
  BY <1>1, Rows
<1>3. a < n /\ n < c /\ n \in 0..Cap
  BY <1>1, <1>2, ZoneAssumption
<1>4. n \notin DOMAIN z
  BY <1>1, <1>2, <1>3, Apart
<1>5. DOMAIN m = DOMAIN z \cup {n}
  BY DEF Split
<1>6. m[n] = [size |-> z[a].size - size, tag |-> 0, next |-> c, prev |-> a]
  BY <1>5 DEF Split
<1>7. ASSUME NEW x \in DOMAIN z
      PROVE  /\ m[x].tag = z[x].tag
             /\ m[x].size = IF x = a THEN size ELSE z[x].size
             /\ m[x].next = IF x = a THEN n ELSE z[x].next
             /\ m[x].prev = IF x = c THEN n ELSE z[x].prev
             /\ m[x] \in Header
  <2>1. z[x] \in Header /\ z[a] \in Header /\ z[c] \in Header
    BY <1>1, <1>7, Rows
  <2>2. m[x] = IF x = a THEN [z[a] EXCEPT !.size = size, !.next = n]
               ELSE IF x = c THEN [z[c] EXCEPT !.prev = n]
               ELSE z[x]
    BY <1>4, <1>5, <1>7 DEF Split
  <2>3. CASE x = a
    <3>1. a # c
      BY <1>2, <1>3
    <3>2. m[a] = [z[a] EXCEPT !.size = size, !.next = n]
      BY <2>2, <2>3
    <3>3. m[a] = [size |-> size, tag |-> z[a].tag, next |-> n,
                  prev |-> z[a].prev]
      BY <2>1, <3>2, Zenon DEF Header
    <3>4. m[a] \in Header
      BY <1>2, <1>3, <2>1, <3>3 DEF Header
    <3>. QED
      BY <2>3, <3>1, <3>3, <3>4
  <2>4. CASE x = c
    BY <1>2, <1>3, <2>1, <2>2, <2>4 DEF Header
  <2>5. CASE x # a /\ x # c
    BY <2>1, <2>2, <2>5
  <2>. QED
    BY <2>3, <2>4, <2>5
<1>8. m[n] \in Header
  BY <1>2, <1>3, <1>6, ZoneAssumption DEF Header
<1>9. IsList(m)
  <2>1. m = [x \in DOMAIN m |-> m[x]]
    BY DEF Split
  <2>. QED
    BY <1>3, <1>5, <1>7, <1>8, <2>1 DEF IsList
<1>. QED
  BY <1>3, <1>4, <1>5, <1>6, <1>7, <1>9 DEF SplitOf

(* A list one of whose blocks was split is a tiling again, if a header     *)
(* fits both parts.                                                        *)
LEMMA SplitTiled ==
  ASSUME NEW z, IsList(z), Tiled(z), NEW a \in DOMAIN z, a # Cap,
         NEW size \in Nat, HEADER <= size, MINFRAGMENT < z[a].size - size
  PROVE  Tiled(Split(z, a, size))
<1>1. PICK m : m = Split(z, a, size)
  OBVIOUS
<1>2. PICK n : n = a + size
  OBVIOUS
<1>3. PICK c : c = z[a].next
  OBVIOUS
<1>r. SplitOf(m, z, a, size, n, c)
  BY <1>1, <1>2, <1>3, SplitRows
<1>4. /\ DOMAIN m = DOMAIN z \cup {n} /\ n \notin DOMAIN z
      /\ a < n /\ n < c
      /\ \A x \in DOMAIN z :
           /\ m[x].tag = z[x].tag
           /\ m[x].size = IF x = a THEN size ELSE z[x].size
           /\ m[x].next = IF x = a THEN n ELSE z[x].next
           /\ m[x].prev = IF x = c THEN n ELSE z[x].prev
      /\ m[n] = [size |-> z[a].size - size, tag |-> 0, next |-> c, prev |-> a]
  BY <1>r DEF SplitOf
<1>5. c \in DOMAIN z /\ z[c].prev = a /\ c = a + z[a].size
  BY <1>3, Links
<1>6. a \in 0..Cap /\ c \in 0..Cap /\ z[a].size \in Nat
  BY <1>5, Rows
<1>n. /\ m[n].size = z[a].size - size /\ m[n].next = c /\ m[n].prev = a
      /\ n \in DOMAIN m /\ a \in DOMAIN m /\ c \in DOMAIN m
  BY <1>4, <1>5
<1>7. {0, Cap} \subseteq DOMAIN m /\ m[Cap].tag = 1 /\ m[Cap].next = 0
  BY <1>4, Zenon DEF Tiled
<1>8. ASSUME NEW x \in DOMAIN m
      PROVE  m[x].next \in DOMAIN m /\ m[m[x].next].prev = x
  <2>1. CASE x = n
    BY <1>4, <1>5, <1>n, <2>1
  <2>2. CASE x = a
    BY <1>4, <1>n, <2>2
  <2>3. CASE x # n /\ x # a
    <3>1. x \in DOMAIN z /\ z[x].next \in DOMAIN z /\ z[z[x].next].prev = x
      BY <1>4, <1>8, <2>3 DEF Tiled
    <3>2. z[x].next # c
      BY <1>5, <2>3, <3>1
    <3>. QED
      BY <1>4, <2>3, <3>1, <3>2
  <2>. QED
    BY <2>1, <2>2, <2>3
<1>9. ASSUME NEW x \in DOMAIN m
      PROVE  m[x].prev \in DOMAIN m /\ m[m[x].prev].next = x
  <2>1. CASE x = n
    BY <1>2, <1>4, <1>n, <2>1
  <2>2. CASE x = c
    BY <1>4, <1>5, <1>n, <2>2
  <2>3. CASE x # n /\ x # c
    <3>1. x \in DOMAIN z /\ z[x].prev \in DOMAIN z /\ z[z[x].prev].next = x
      BY <1>4, <1>9, <2>3 DEF Tiled
    <3>2. z[x].prev # a
      BY <1>3, <2>3, <3>1
    <3>. QED
      BY <1>4, <2>3, <3>1, <3>2
  <2>. QED
    BY <2>1, <2>2, <2>3
<1>10. ASSUME NEW x \in DOMAIN m \ {Cap}
       PROVE  HEADER <= m[x].size /\ m[x].next = x + m[x].size
  <2>1. CASE x = n
    BY <1>2, <1>5, <1>6, <1>n, <2>1, ZoneAssumption
  <2>2. CASE x = a
    BY <1>2, <1>4, <2>2
  <2>3. CASE x # n /\ x # a
    BY <1>4, <1>10, <2>3, Zenon DEF Tiled
  <2>. QED
    BY <2>1, <2>2, <2>3
<1>11. ASSUME NEW x \in DOMAIN m, NEW y \in DOMAIN m, x < y
       PROVE  x + m[x].size <= y
  <2>1. CASE x = n
    <3>1. y \in DOMAIN z /\ y \in 0..Cap /\ a < y
      BY <1>2, <1>4, <1>6, <1>11, <2>1, Rows
    <3>. QED
      BY <1>2, <1>5, <1>6, <1>n, <2>1, <3>1, Apart
  <2>2. CASE x # n /\ y = n
    <3>1. x \in DOMAIN z /\ x \in 0..Cap /\ z[x].size \in Nat
      BY <1>4, <1>11, <2>2, Rows
    <3>2. CASE x = a
      <4>1. m[a].size = size
        BY <1>4
      <4>. QED
        BY <1>2, <1>6, <2>2, <3>2, <4>1
    <3>3. CASE x # a
      <4>1. x < c
        BY <1>2, <1>4, <1>6, <1>11, <2>2, <3>1
      <4>2. x < a
        <5>1. a < x => c <= x
          BY <1>5, <3>1, Apart
        <5>. QED
          BY <1>6, <3>1, <3>3, <4>1, <5>1
      <4>3. x + z[x].size <= a
        BY <3>1, <4>2, Apart
      <4>. QED
        BY <1>2, <1>4, <1>6, <2>2, <3>1, <3>3, <4>3
    <3>. QED
      BY <3>2, <3>3
  <2>3. CASE x # n /\ y # n
    <3>1. x \in DOMAIN z /\ y \in DOMAIN z /\ x \in 0..Cap /\ y \in 0..Cap
          /\ z[x].size \in Nat
      BY <1>4, <1>11, <2>3, Rows
    <3>2. x + z[x].size <= y
      BY <1>11, <3>1, Apart
    <3>. QED
      BY <1>4, <1>6, <3>1, <3>2, ZoneAssumption
  <2>. QED
    BY <2>1, <2>2, <2>3
<1>. QED
  BY <1>1, <1>7, <1>8, <1>9, <1>10, <1>11, Zenon DEF Tiled

(* m is the list z with another tag on block a.                            *)
MarkOf(m, z, a, t) ==
  /\ DOMAIN m = DOMAIN z
  /\ \A x \in DOMAIN z :
       /\ m[x].tag = IF x = a THEN t ELSE z[x].tag
       /\ m[x].size = z[x].size
       /\ m[x].next = z[x].next
       /\ m[x].prev = z[x].prev

(* Marking a block as free or in use changes its tag and nothing else.     *)
LEMMA MarkRows ==
  ASSUME NEW z, IsList(z), NEW a \in DOMAIN z, NEW t \in {0, 1},
         NEW m, m = Mark(z, a, t)
  PROVE  MarkOf(m, z, a, t) /\ IsList(m)
<1>1. DOMAIN m = DOMAIN z
  BY DEF Mark
<1>2. ASSUME NEW x \in DOMAIN z
      PROVE  /\ m[x].tag = IF x = a THEN t ELSE z[x].tag
             /\ m[x].size = z[x].size
             /\ m[x].next = z[x].next
             /\ m[x].prev = z[x].prev
             /\ m[x] \in Header
  <2>1. z[x] \in Header
    BY <1>2, Rows
  <2>2. m[x] = IF x = a THEN [z[a] EXCEPT !.tag = t] ELSE z[x]
    BY <1>2 DEF Mark
  <2>. QED
    BY <2>1, <2>2 DEF Header
<1>3. IsList(m)
  <2>1. m = [x \in DOMAIN m |-> m[x]]
    BY Zenon DEF Mark
  <2>. QED
    BY <1>1, <1>2, <2>1 DEF IsList
<1>. QED
  BY <1>1, <1>2, <1>3 DEF MarkOf

(* The cap is never marked, so a marked list is a tiling again.            *)
LEMMA MarkTiled ==
  ASSUME NEW z, IsList(z), Tiled(z), NEW a \in DOMAIN z, a # Cap,
         NEW t \in {0, 1}
  PROVE  Tiled(Mark(z, a, t))
<1>1. PICK m : m = Mark(z, a, t)
  OBVIOUS
<1>r. MarkOf(m, z, a, t)
  BY <1>1, MarkRows
<1>2. /\ DOMAIN m = DOMAIN z
      /\ \A x \in DOMAIN z :
           /\ x # a => m[x].tag = z[x].tag
           /\ m[x].size = z[x].size
           /\ m[x].next = z[x].next
           /\ m[x].prev = z[x].prev
  BY <1>r DEF MarkOf
<1>3. {0, Cap} \subseteq DOMAIN m /\ m[Cap].tag = 1 /\ m[Cap].next = 0
  BY <1>2, Zenon DEF Tiled
<1>4. ASSUME NEW x \in DOMAIN m
      PROVE  /\ m[x].next \in DOMAIN m /\ m[m[x].next].prev = x
             /\ m[x].prev \in DOMAIN m /\ m[m[x].prev].next = x
             /\ x # Cap => HEADER <= m[x].size /\ m[x].next = x + m[x].size
  <2>1. x \in DOMAIN z
    BY <1>2, <1>4
  <2>2. /\ z[x].next \in DOMAIN z /\ z[z[x].next].prev = x
        /\ z[x].prev \in DOMAIN z /\ z[z[x].prev].next = x
    BY <2>1, Links
  <2>3. x # Cap => HEADER <= z[x].size /\ z[x].next = x + z[x].size
    BY <2>1, Extent
  <2>. QED
    BY <1>2, <2>1, <2>2, <2>3
<1>5. ASSUME NEW x \in DOMAIN m, NEW y \in DOMAIN m, x < y
      PROVE  x + m[x].size <= y
  BY <1>2, <1>5, Apart
<1>. QED
  BY <1>1, <1>3, <1>4, <1>5, Zenon DEF Tiled

-----------------------------------------------------------------------------
(* The search of Z_TagMalloc for size bytes has not passed over a block    *)
(* that fits: those lie from the rover on, going round, up to its start.   *)
Ahead(x) ==
  IF scan.rover <= scan.start
  THEN scan.rover <= x /\ x <= scan.start
  ELSE scan.rover <= x \/ x <= scan.start

ScanTypes ==
  /\ scan \in [at : {"idle", "scan", "found", "null"}, want : Nat, size : Nat,
               base : 0..Cap, rover : 0..Cap, start : 0..Cap]
  /\ scan.at # "idle" =>
       /\ {scan.base, scan.rover, scan.start} \subseteq DOMAIN block
       /\ scan.size = BlockSize(scan.want)

ScanInv ==
  /\ scan.at = "found" => Fits(scan.base, scan.size)
  /\ scan.at = "scan" =>
       /\ \A x \in DOMAIN block : Fits(x, scan.size) => Ahead(x)
       /\ block[scan.rover].tag = 0 => scan.base = scan.rover
       /\ scan.rover = scan.start => ~Fits(scan.rover, scan.size)

ZoneTypes ==
  /\ IsList(block)
  /\ asked \in [DOMAIN asked -> Nat]
  /\ ScanTypes

ZoneInv == ZoneTypes /\ ZoneConsistent /\ ScanInv /\ ScanComplete

(* A request fits its block, with header and trash tester.                 *)
LEMMA BlockSizes ==
  ASSUME NEW want \in Nat
  PROVE  BlockSize(want) \in Nat /\ HEADER + want + 4 <= BlockSize(want)
BY ZoneAssumption DEF BlockSize

(* One free block as large as the zone is a consistent zone.               *)
LEMMA ZoneInitInv == ZoneInit => ZoneInv
<1>. SUFFICES ASSUME ZoneInit PROVE ZoneInv
  OBVIOUS
<1>1. DOMAIN block = {0, Cap} /\ 0 # Cap
      /\ block[0] = [size |-> Cap, tag |-> 0, next |-> Cap, prev |-> Cap]
      /\ block[Cap] = [size |-> 0, tag |-> 1, next |-> 0, prev |-> 0]
  BY ZoneAssumption DEF ZoneInit, Z_ClearZone
<1>2. IsList(block)
  <2>1. block = [x \in DOMAIN block |-> block[x]]
    BY DEF ZoneInit, Z_ClearZone
  <2>. QED
    BY <1>1, <2>1, ZoneAssumption DEF IsList, Header
<1>3. Tiled(block) /\ NoFreeNeighbours(block)
  BY <1>1, ZoneAssumption DEF Tiled, NoFreeNeighbours
<1>4. asked = [a \in {} |-> 0] /\ DOMAIN asked = {} /\ zrover = 0
  BY DEF ZoneInit, Z_ClearZone
<1>5. ZoneConsistent
  BY <1>1, <1>3, <1>4 DEF ZoneConsistent
<1>6. ScanTypes /\ ScanInv /\ ScanComplete
  BY ZoneAssumption DEF ZoneInit, NotScanning, ScanTypes, ScanInv, ScanComplete
<1>. QED
  BY <1>2, <1>4, <1>5, <1>6 DEF ZoneInv, ZoneTypes

-----------------------------------------------------------------------------
(* A search begins with every block ahead of it.                           *)
LEMMA MallocInv ==
  ASSUME ZoneInv, NEW want \in Sizes, Z_Malloc(want)
  PROVE  ZoneInv'
<1>. USE DEF ZoneInv
<1>1. want \in Nat /\ BlockSize(want) \in Nat
  BY BlockSizes, ZoneAssumption
<1>2. PICK s : s = block[zrover].prev
  OBVIOUS
<1>3. zrover \in DOMAIN block /\ s \in DOMAIN block /\ block[s].next = zrover
  BY <1>2 DEF ZoneConsistent, Tiled
<1>4. zrover \in 0..Cap /\ s \in 0..Cap /\ block[s].size \in Nat
  BY <1>3, Rows DEF ZoneTypes
<1>5. scan' = [at |-> "scan", want |-> want, size |-> BlockSize(want),
               base |-> zrover, rover |-> zrover, start |-> s]
      /\ block' = block /\ zrover' = zrover /\ asked' = asked
  BY <1>2 DEF Z_Malloc
<1>6. ScanTypes'
  BY <1>1, <1>3, <1>4, <1>5 DEF ScanTypes
<1>t. IsList(block) /\ Tiled(block)
  BY DEF ZoneTypes, ZoneConsistent
<1>7. /\ s = Cap => zrover = 0
      /\ s # Cap => zrover = s + block[s].size /\ s < zrover
      /\ s # zrover
  <2>1. Cap # 0
    BY ZoneAssumption
  <2>. QED
    <3>1. s = Cap => zrover = 0
      BY <1>t, <1>3, CapRow
    <3>2. s # Cap => zrover = s + block[s].size /\ s < zrover
      BY <1>t, <1>3, Extent
    <3>. QED
      BY <1>4, <2>1, <3>1, <3>2
<1>8. ASSUME NEW x \in DOMAIN block
      PROVE  Ahead(x)'
  <2>1. x \in 0..Cap
    BY <1>8, Rows DEF ZoneTypes
  <2>2. CASE s = Cap
    BY <1>4, <1>5, <1>7, <2>1, <2>2 DEF Ahead
  <2>3. CASE s # Cap
    <3>1. zrover = s + block[s].size /\ s < zrover
      BY <1>7, <2>3
    <3>2. s < x => zrover <= x
      BY <1>t, <1>3, <1>8, <3>1, Apart
    <3>. QED
      BY <1>4, <1>5, <2>1, <3>1, <3>2 DEF Ahead
  <2>. QED
    BY <2>2, <2>3
<1>9. ScanInv' /\ ScanComplete'
  BY <1>5, <1>7, <1>8 DEF ScanInv, ScanComplete
<1>. QED
  BY <1>5, <1>6, <1>9 DEF ZoneTypes, ZoneConsistent

(* A step of the search passes over one block, which does not fit.         *)
LEMMA ScanStepInv ==
  ASSUME ZoneInv, Scan
  PROVE  ZoneInv'
<1>. USE DEF ZoneInv
<1>1. PICK r : r = scan.rover
  OBVIOUS
<1>2. PICK n : n = block[r].next
  OBVIOUS
<1>3. PICK b : b = IF block[r].tag = 0 THEN scan.base ELSE n
  OBVIOUS
<1>4. /\ scan.at = "scan" /\ r # scan.start
      /\ scan' = [scan EXCEPT !.base = b, !.rover = n,
                    !.at = IF Fits(b, scan.size) THEN "found" ELSE "scan"]
      /\ block' = block /\ zrover' = zrover /\ asked' = asked
  BY <1>1, <1>2, <1>3 DEF Scan
<1>5. /\ r \in DOMAIN block /\ n \in DOMAIN block /\ b \in DOMAIN block
      /\ scan.start \in DOMAIN block
  BY <1>1, <1>2, <1>3, <1>4, Zenon DEF ZoneTypes, ScanTypes, ZoneConsistent, Tiled
<1>6. /\ r \in 0..Cap /\ n \in 0..Cap /\ b \in 0..Cap /\ scan.start \in 0..Cap
      /\ block[r].size \in Nat
  BY <1>5, Rows DEF ZoneTypes
<1>7. /\ scan'.base = b /\ scan'.rover = n /\ scan'.start = scan.start
      /\ scan'.size = scan.size /\ scan'.want = scan.want
      /\ scan'.at = IF Fits(b, scan.size) THEN "found" ELSE "scan"
  BY <1>4 DEF ZoneTypes, ScanTypes
<1>8. ScanTypes'
  BY <1>4, <1>5, <1>6, Zenon DEF ZoneTypes, ScanTypes
<1>9. block[r].tag = 0 => b = r /\ block[n].tag # 0
  BY <1>1, <1>2, <1>3, <1>4, <1>5 DEF ScanInv, ZoneConsistent, NoFreeNeighbours
<1>10. ASSUME ~Fits(b, scan.size), NEW x \in DOMAIN block, Fits(x, scan.size)
       PROVE  Ahead(x)'
  <2>1. x # r /\ x \in 0..Cap
    BY <1>9, <1>10, Rows DEF Fits, ZoneTypes
  <2>2. Ahead(x)
    BY <1>4, <1>10 DEF ScanInv
  <2>t. IsList(block) /\ Tiled(block)
    BY DEF ZoneTypes, ZoneConsistent
  <2>3. CASE r = Cap
    <3>1. n = 0
      BY <1>2, <1>5, <2>t, <2>3, Links
    <3>. QED
      BY <1>1, <1>4, <1>6, <1>7, <2>1, <2>2, <2>3, <3>1 DEF Ahead
  <2>4. CASE r # Cap
    <3>1. n = r + block[r].size /\ r < n
      BY <1>2, <1>5, <2>t, <2>4, Links
    <3>2. (r < x => n <= x) /\ (r < scan.start => n <= scan.start)
      BY <1>2, <1>5, <1>10, <2>t, Apart
    <3>. QED
      BY <1>1, <1>4, <1>6, <1>7, <2>1, <2>2, <3>1, <3>2 DEF Ahead
  <2>. QED
    BY <2>3, <2>4
<1>11. ScanInv'
  <2>1. scan'.at = "found" => Fits(b, scan.size)
    BY <1>7
  <2>2. scan'.at = "scan" => ~Fits(b, scan.size)
    BY <1>7
  <2>3. block[n].tag = 0 => b = n
    BY <1>3, <1>9
  <2>4. Fits(n, scan.size) => block[n].tag = 0
    BY DEF Fits
  <2>5. \A x \in DOMAIN block : Fits(x, scan.size)' <=> Fits(x, scan.size)
    BY <1>4, <1>7 DEF Fits
  <2>. QED
    BY <1>4, <1>5, <1>7, <1>10, <2>1, <2>2, <2>3, <2>4, <2>5 DEF ScanInv, Fits
<1>12. ScanComplete'
  BY <1>7 DEF ScanComplete
<1>. QED
  BY <1>4, <1>8, <1>11, <1>12 DEF ZoneTypes, ZoneConsistent

(* Giving up leaves no block ahead.                                        *)
LEMMA GiveUpInv ==
  ASSUME ZoneInv, GiveUp
  PROVE  ZoneInv'
<1>. USE DEF ZoneInv
<1>1. /\ scan.at = "scan" /\ scan.rover = scan.start
      /\ scan' = [scan EXCEPT !.at = "null"]
      /\ block' = block /\ zrover' = zrover /\ asked' = asked
  BY DEF GiveUp
<1>2. /\ scan'.at = "null" /\ scan'.size = scan.size
      /\ scan.start \in DOMAIN block /\ scan.start \in 0..Cap
  BY <1>1 DEF ZoneTypes, ScanTypes
<1>3. ScanTypes'
  BY <1>1 DEF ZoneTypes, ScanTypes
<1>4. ASSUME NEW x \in DOMAIN block
      PROVE  ~Fits(x, scan.size)
  <2>1. x \in 0..Cap
    BY <1>4, Rows DEF ZoneTypes
  <2>. QED
    BY <1>1, <1>2, <2>1 DEF ScanInv, Ahead
<1>5. ScanInv' /\ ScanComplete'
  BY <1>1, <1>2, <1>4 DEF ScanInv, ScanComplete, Fits
<1>. QED
  BY <1>1, <1>3, <1>5 DEF ZoneTypes, ZoneConsistent

(* The block taken keeps all bytes asked for, and what is split off it     *)
(* lies before a block in use.                                             *)
LEMMA TakeInv ==
  ASSUME ZoneInv, Take
  PROVE  ZoneInv'
<1>. USE DEF ZoneInv
<1>1. PICK a : a = scan.base
  OBVIOUS
<1>2. PICK size : size = scan.size
  OBVIOUS
<1>3. PICK z : z = IF block[a].size - size > MINFRAGMENT
                   THEN Split(block, a, size) ELSE block
  OBVIOUS
<1>4. /\ scan.at = "found" /\ block' = Mark(z, a, 1) /\ zrover' = z[a].next
      /\ asked' = [x \in DOMAIN asked \cup {a} |->
                     IF x = a THEN scan.want ELSE asked[x]]
      /\ scan' = NotScanning
  BY <1>1, <1>2, <1>3 DEF Take
<1>5. /\ a \in DOMAIN block /\ block[a].tag = 0 /\ size <= block[a].size
      /\ scan.want \in Nat /\ size \in Nat /\ HEADER + scan.want + 4 <= size
  BY <1>1, <1>2, <1>4, BlockSizes DEF ZoneTypes, ScanTypes, ScanInv, Fits
<1>6. /\ a # Cap /\ IsList(block) /\ Tiled(block) /\ NoFreeNeighbours(block)
      /\ HEADER <= size /\ block[a].size \in Nat
  <2>1. IsList(block) /\ Tiled(block) /\ NoFreeNeighbours(block)
    BY DEF ZoneTypes, ZoneConsistent
  <2>2. a # Cap /\ block[a].size \in Nat
    BY <1>5, <2>1, Links, Rows
  <2>. QED
    BY <1>5, <2>1, <2>2, ZoneAssumption
<1>7. /\ IsList(z) /\ Tiled(z) /\ DOMAIN block \subseteq DOMAIN z
      /\ size <= z[a].size
      /\ \A x \in DOMAIN block : /\ z[x].tag = block[x].tag
                                 /\ x # a => z[x].size = block[x].size
                                 /\ x # a => z[x].next = block[x].next
      /\ \A x \in DOMAIN z \ DOMAIN block :
           z[x].tag = 0 /\ z[x].next = block[a].next
  <2>1. CASE block[a].size - size > MINFRAGMENT
    <3>1. PICK n : n = a + size
      OBVIOUS
    <3>2. PICK c : c = block[a].next
      OBVIOUS
    <3>3. z = Split(block, a, size)
      BY <1>3, <2>1
    <3>4. MINFRAGMENT < block[a].size - size
      BY <1>5, <1>6, <2>1, ZoneAssumption
    <3>5. Tiled(z)
      BY <1>5, <1>6, <3>3, <3>4, SplitTiled
    <3>r. SplitOf(z, block, a, size, n, c) /\ IsList(z)
      BY <1>5, <1>6, <3>1, <3>2, <3>3, <3>4, SplitRows
    <3>6. /\ DOMAIN z = DOMAIN block \cup {n} /\ n \notin DOMAIN block
          /\ \A x \in DOMAIN block :
               /\ z[x].tag = block[x].tag
               /\ z[x].size = IF x = a THEN size ELSE block[x].size
               /\ z[x].next = IF x = a THEN n ELSE block[x].next
               /\ z[x].prev = IF x = c THEN n ELSE block[x].prev
          /\ z[n] = [size |-> block[a].size - size, tag |-> 0,
                     next |-> c, prev |-> a]
      BY <3>r DEF SplitOf
    <3>. QED
      BY <1>5, <3>2, <3>5, <3>r, <3>6
  <2>2. CASE ~(block[a].size - size > MINFRAGMENT)
    BY <1>3, <1>5, <1>6, <2>2
  <2>. QED
    BY <2>1, <2>2
<1>r. MarkOf(block', z, a, 1) /\ IsList(block')
  BY <1>4, <1>5, <1>7, MarkRows
<1>8. /\ DOMAIN block' = DOMAIN z /\ IsList(block') /\ Tiled(block')
      /\ \A x \in DOMAIN z :
           /\ block'[x].tag = IF x = a THEN 1 ELSE z[x].tag
           /\ block'[x].size = z[x].size
           /\ block'[x].next = z[x].next
  <2>1. Tiled(block')
    BY <1>4, <1>5, <1>6, <1>7, MarkTiled
  <2>. QED
    BY <1>r, <2>1 DEF MarkOf
<1>9. NoFreeNeighbours(block')
  <2>. SUFFICES ASSUME NEW x \in DOMAIN block', block'[x].tag = 0
                PROVE  block'[block'[x].next].tag # 0
    BY DEF NoFreeNeighbours
  <2>1. x # a /\ x \in DOMAIN z /\ z[x].tag = 0 /\ block'[x].next = z[x].next
    BY <1>8
  <2>2. block[a].next \in DOMAIN block /\ block[block[a].next].tag # 0
    BY <1>5, <1>6, Zenon DEF Tiled, NoFreeNeighbours
  <2>3. CASE x \in DOMAIN block
    <3>1. /\ block[x].tag = 0 /\ block[x].next \in DOMAIN block
          /\ block[block[x].next].tag # 0 /\ z[x].next = block[x].next
      BY <1>6, <1>7, <2>1, <2>3, Zenon DEF Tiled, NoFreeNeighbours
    <3>. QED
      BY <1>7, <1>8, <2>1, <3>1
  <2>4. CASE x \notin DOMAIN block
    BY <1>7, <1>8, <2>1, <2>2, <2>4
  <2>. QED
    BY <2>3, <2>4
<1>10. zrover' \in DOMAIN block'
  BY <1>4, <1>5, <1>7, <1>8 DEF Tiled
<1>11. /\ DOMAIN asked' = DOMAIN asked \cup {a}
       /\ asked'[a] = scan.want
       /\ \A x \in DOMAIN asked : x # a => asked'[x] = asked[x]
       /\ asked' \in [DOMAIN asked' -> Nat]
  BY <1>4, <1>5 DEF ZoneTypes
<1>12. DOMAIN asked' = {x \in DOMAIN block' \ {Cap} : block'[x].tag = 1}
  <2>1. DOMAIN asked = {x \in DOMAIN block \ {Cap} : block[x].tag = 1}
    BY DEF ZoneConsistent
  <2>. QED
    BY <1>5, <1>6, <1>7, <1>8, <1>11, <2>1
<1>13. \A x \in DOMAIN asked' : HEADER + asked'[x] + 4 <= block'[x].size
  <2>1. HEADER + scan.want + 4 <= block'[a].size
    <3>1. z[a].size \in Nat
      BY <1>5, <1>7, Rows
    <3>. QED
      BY <1>5, <1>7, <1>8, <3>1, ZoneAssumption
  <2>2. ASSUME NEW x \in DOMAIN asked, x # a
        PROVE  HEADER + asked[x] + 4 <= block'[x].size
    BY <1>7, <1>8, <2>2 DEF ZoneConsistent
  <2>. QED
    BY <1>11, <2>1, <2>2
<1>14. ScanTypes' /\ ScanInv' /\ ScanComplete'
  BY <1>4, ZoneAssumption DEF NotScanning, ScanTypes, ScanInv, ScanComplete
<1>. QED
  BY <1>8, <1>9, <1>10, <1>11, <1>12, <1>13, <1>14, Zenon DEF ZoneTypes, ZoneConsistent

-----------------------------------------------------------------------------
(* In the list z only block b may be free beside a free block after it.    *)
Loose(z, b) ==
  \A x \in DOMAIN z : z[x].tag = 0 /\ z[z[x].next].tag = 0 => x = b

(* What freeing changes, for the owners of the other blocks: nothing.      *)
SameInUse(z, a) ==
  /\ \A x \in DOMAIN block \ {a} : block[x].tag = 1 =>
       x \in DOMAIN z /\ z[x].tag = 1 /\ z[x].size = block[x].size
  /\ \A x \in DOMAIN z : z[x].tag = 1 =>
       x \in DOMAIN block \ {a} /\ block[x].tag = 1

(* The first half of Z_Free: joined with the free block before it, the     *)
(* freed block can only touch a free block after it.                       *)
LEMMA FreedBefore ==
  ASSUME ZoneInv, NEW a \in DOMAIN block \ {Cap}, block[a].tag = 1
  PROVE  LET z == FreedList(a)
             b == FreedBlock(a)
         IN  /\ IsList(z) /\ Tiled(z) /\ b \in DOMAIN z \ {Cap}
             /\ z[b].tag = 0
             /\ Loose(z, b)
             /\ SameInUse(z, a)
             /\ \A x \in DOMAIN block : x # a => x \in DOMAIN z
             /\ MergedBefore(a) \/ a \in DOMAIN z
<1>. USE DEF ZoneInv
<1>1. PICK y : y = Mark(block, a, 0)
  OBVIOUS
<1>2. PICK p : p = block[a].prev
  OBVIOUS
<1>3. IsList(block) /\ Tiled(block) /\ NoFreeNeighbours(block)
  BY DEF ZoneTypes, ZoneConsistent
<1>4. /\ IsList(y) /\ Tiled(y) /\ DOMAIN y = DOMAIN block
      /\ \A x \in DOMAIN block :
           /\ y[x].tag = IF x = a THEN 0 ELSE block[x].tag
           /\ y[x].size = block[x].size
           /\ y[x].next = block[x].next
           /\ y[x].prev = block[x].prev
  <2>1. MarkOf(y, block, a, 0) /\ IsList(y)
    BY <1>1, <1>3, MarkRows
  <2>2. Tiled(y)
    BY <1>1, <1>3, MarkTiled
  <2>. QED
    BY <2>1, <2>2 DEF MarkOf
<1>5. p \in DOMAIN block /\ block[p].next = a
  BY <1>2, <1>3 DEF Tiled
<1>6. \A x \in DOMAIN block : block[x].next = a => x = p
  BY <1>2, <1>3, Zenon DEF Tiled
<1>7. \A x \in DOMAIN block : block[x].next \in DOMAIN block
  BY <1>3 DEF Tiled
<1>8. CASE MergedBefore(a)
  <2>1. block[p].tag = 0 /\ p # Cap /\ p # a
    <3>1. block[p].tag = 0 /\ p # a
      BY <1>2, <1>8 DEF MergedBefore
    <3>2. block[Cap].tag = 1
      BY <1>3, CapRow
    <3>. QED
      BY <3>1, <3>2
  <2>2. PICK z : z = Merge(y, p)
    OBVIOUS
  <2>3. FreedList(a) = z /\ FreedBlock(a) = p
    BY <1>1, <1>2, <1>8, <2>2 DEF FreedList, FreedBlock
  <2>4. y[p].next = a /\ p \in DOMAIN y /\ y[a].next # p
    <3>1. y[p].next = a /\ p \in DOMAIN y
      BY <1>4, <1>5
    <3>2. p < a /\ a < y[a].next /\ p \in 0..Cap /\ a \in 0..Cap
          /\ y[a].next \in 0..Cap
      BY <1>4, <2>1, <3>1, Links, Rows, Zenon
    <3>. QED
      BY <3>1, <3>2
  <2>5. PICK c : c = y[a].next
    OBVIOUS
  <2>r. MergeOf(z, y, p, a, c) /\ IsList(z)
    BY <1>4, <2>1, <2>2, <2>4, <2>5, MergeRows
  <2>6. /\ DOMAIN z = DOMAIN y \ {a}
        /\ \A x \in DOMAIN z :
             /\ z[x].tag = y[x].tag
             /\ z[x].size = IF x = p THEN y[p].size + y[a].size ELSE y[x].size
             /\ z[x].next = IF x = p THEN c ELSE y[x].next
             /\ z[x].prev = IF x = c THEN p ELSE y[x].prev
        /\ IsList(z)
    BY <2>r DEF MergeOf
  <2>7. Tiled(z)
    BY <1>4, <2>1, <2>2, <2>4, MergeTiled
  <2>8. p \in DOMAIN z \ {Cap} /\ z[p].tag = 0
    BY <1>4, <1>5, <2>1, <2>6
  <2>9. Loose(z, p)
    <3>. SUFFICES ASSUME NEW x \in DOMAIN z, z[x].tag = 0,
                         z[z[x].next].tag = 0, x # p
                  PROVE  FALSE
      BY DEF Loose
    <3>1. x \in DOMAIN block /\ x # a /\ block[x].tag = 0
          /\ z[x].next = block[x].next
      BY <1>4, <2>6
    <3>2. block[x].next # a /\ block[x].next \in DOMAIN block
      BY <1>6, <1>7, <3>1
    <3>3. z[z[x].next].tag = block[block[x].next].tag
      BY <1>4, <2>6, <3>1, <3>2
    <3>. QED
      BY <1>3, <3>1, <3>3 DEF NoFreeNeighbours
  <2>10. SameInUse(z, a)
    BY <1>4, <2>1, <2>6 DEF SameInUse
  <2>. QED
    BY <1>4, <1>8, <2>3, <2>6, <2>7, <2>8, <2>9, <2>10
<1>9. CASE ~MergedBefore(a)
  <2>1. FreedList(a) = y /\ FreedBlock(a) = a /\ block[p].tag # 0
    BY <1>1, <1>2, <1>9 DEF FreedList, FreedBlock, MergedBefore
  <2>2. Loose(y, a)
    <3>. SUFFICES ASSUME NEW x \in DOMAIN y, y[x].tag = 0,
                         y[y[x].next].tag = 0, x # a
                  PROVE  FALSE
      BY DEF Loose
    <3>1. x \in DOMAIN block /\ block[x].tag = 0 /\ y[x].next = block[x].next
      BY <1>4
    <3>2. block[x].next # a /\ block[x].next \in DOMAIN block
      BY <1>6, <1>7, <2>1, <3>1
    <3>. QED
      BY <1>3, <1>4, <3>1, <3>2 DEF NoFreeNeighbours
  <2>3. SameInUse(y, a)
    BY <1>4 DEF SameInUse
  <2>. QED
    BY <1>4, <1>9, <2>1, <2>2, <2>3
<1>. QED
  BY <1>8, <1>9

(* The second half of Z_Free: joined with the free block after it, the     *)
(* freed block touches no free block.                                      *)
LEMMA FreedAfter ==
  ASSUME NEW z, IsList(z), Tiled(z), NEW b \in DOMAIN z, b # Cap,
         z[b].tag = 0, Loose(z, b), NEW n, n = z[b].next,
         NEW m, m = IF z[n].tag = 0 THEN Merge(z, b) ELSE z
  PROVE  /\ IsList(m) /\ Tiled(m) /\ NoFreeNeighbours(m)
         /\ b \in DOMAIN m
         /\ \A x \in DOMAIN z : x \in DOMAIN m \/ (x = n /\ z[n].tag = 0)
         /\ \A x \in DOMAIN m : x \in DOMAIN z /\ m[x].tag = z[x].tag
                                /\ (m[x].tag = 1 => m[x].size = z[x].size)
<1>1. CASE z[n].tag = 0
  <2>1. n # Cap /\ n \in DOMAIN z
    <3>1. n \in DOMAIN z
      BY Links
    <3>. QED
      BY <1>1, <3>1, CapRow
  <2>2. PICK c : c = z[n].next
    OBVIOUS
  <2>r. MergeOf(m, z, b, n, c) /\ IsList(m)
    BY <1>1, <2>1, <2>2, MergeRows
  <2>3. /\ DOMAIN m = DOMAIN z \ {n} /\ b < n /\ n < c
        /\ \A x \in DOMAIN m :
             /\ m[x].tag = z[x].tag
             /\ m[x].size = IF x = b THEN z[b].size + z[n].size ELSE z[x].size
             /\ m[x].next = IF x = b THEN c ELSE z[x].next
             /\ m[x].prev = IF x = c THEN b ELSE z[x].prev
        /\ IsList(m)
    BY <2>r DEF MergeOf
  <2>4. Tiled(m)
    BY <1>1, <2>1, MergeTiled
  <2>5. c \in DOMAIN z /\ b \in 0..Cap /\ n \in 0..Cap /\ c \in 0..Cap
    BY <2>1, <2>2, Rows, Zenon DEF Tiled
  <2>6. NoFreeNeighbours(m)
    <3>. SUFFICES ASSUME NEW x \in DOMAIN m, m[x].tag = 0,
                         m[m[x].next].tag = 0
                  PROVE  FALSE
      BY DEF NoFreeNeighbours
    <3>1. m[x].next \in DOMAIN m
      BY <2>4, Zenon DEF Tiled
    <3>2. CASE x = b
      <4>1. z[c].tag = 0
        BY <2>3, <3>1, <3>2
      <4>. QED
        BY <1>1, <2>1, <2>2, <2>3, <2>5, <4>1 DEF Loose
    <3>3. CASE x # b
      BY <2>3, <3>1, <3>3 DEF Loose
    <3>. QED
      BY <3>2, <3>3
  <2>. QED
    BY <1>1, <2>3, <2>4, <2>5, <2>6
<1>2. CASE z[n].tag # 0
  BY <1>2 DEF Loose, NoFreeNeighbours
<1>. QED
  BY <1>1, <1>2

(* Z_Free keeps the zone consistent.                                       *)
LEMMA FreeInv ==
  ASSUME ZoneInv, NEW a \in DOMAIN asked, Z_Free(a)
  PROVE  ZoneInv'
<1>. USE DEF ZoneInv
<1>1. a \in DOMAIN block \ {Cap} /\ block[a].tag = 1
  BY DEF ZoneConsistent
<1>2. PICK z : z = FreedList(a)
  OBVIOUS
<1>3. PICK b : b = FreedBlock(a)
  OBVIOUS
<1>4. PICK n : n = z[b].next
  OBVIOUS
<1>5. PICK r : r = IF zrover = a THEN b ELSE zrover
  OBVIOUS
<1>6. /\ scan.at = "idle" /\ scan' = scan
      /\ block' = IF z[n].tag = 0 THEN Merge(z, b) ELSE z
      /\ zrover' = IF z[n].tag = 0 /\ r = n THEN b ELSE r
      /\ asked' = [x \in DOMAIN asked \ {a} |-> asked[x]]
  BY <1>2, <1>3, <1>4, <1>5 DEF Z_Free
<1>7. /\ IsList(z) /\ Tiled(z) /\ b \in DOMAIN z /\ b # Cap
      /\ z[b].tag = 0 /\ Loose(z, b) /\ SameInUse(z, a)
      /\ \A x \in DOMAIN block : x # a => x \in DOMAIN z
  BY <1>1, <1>2, <1>3, FreedBefore
<1>8. /\ IsList(block') /\ Tiled(block') /\ NoFreeNeighbours(block')
      /\ b \in DOMAIN block'
      /\ \A x \in DOMAIN z : x \in DOMAIN block' \/ (x = n /\ z[n].tag = 0)
      /\ \A x \in DOMAIN block' :
           /\ x \in DOMAIN z /\ block'[x].tag = z[x].tag
           /\ block'[x].tag = 1 => block'[x].size = z[x].size
  BY <1>4, <1>6, <1>7, FreedAfter
<1>9. zrover' \in DOMAIN block'
  <2>1. zrover \in DOMAIN block
    BY DEF ZoneConsistent
  <2>2. r \in DOMAIN z
    BY <1>5, <1>7, <2>1
  <2>. QED
    BY <1>6, <1>8, <2>2
<1>10. /\ DOMAIN asked' = DOMAIN asked \ {a}
       /\ \A x \in DOMAIN asked' : asked'[x] = asked[x]
       /\ asked' \in [DOMAIN asked' -> Nat]
  BY <1>6 DEF ZoneTypes
<1>11. DOMAIN asked' = {x \in DOMAIN block' \ {Cap} : block'[x].tag = 1}
  <2>1. DOMAIN asked = {x \in DOMAIN block \ {Cap} : block[x].tag = 1}
    BY DEF ZoneConsistent
  <2>. QED
    BY <1>7, <1>8, <1>10, <2>1 DEF SameInUse
<1>12. \A x \in DOMAIN asked' : HEADER + asked'[x] + 4 <= block'[x].size
  <2>. SUFFICES ASSUME NEW x \in DOMAIN asked'
                PROVE  HEADER + asked'[x] + 4 <= block'[x].size
    OBVIOUS
  <2>1. x \in DOMAIN asked /\ x # a /\ asked'[x] = asked[x]
    BY <1>10
  <2>2. x \in DOMAIN block' /\ block'[x].tag = 1 /\ x \in DOMAIN block
        /\ block[x].tag = 1
    BY <1>11, <2>1 DEF ZoneConsistent
  <2>3. block'[x].size = block[x].size
    BY <1>7, <1>8, <2>1, <2>2 DEF SameInUse
  <2>4. HEADER + asked[x] + 4 <= block[x].size
    BY <2>1 DEF ZoneConsistent
  <2>. QED
    BY <2>1, <2>3, <2>4
<1>13. ScanTypes' /\ ScanInv' /\ ScanComplete'
  BY <1>6 DEF ZoneTypes, ScanTypes, ScanInv, ScanComplete
<1>14. ZoneTypes'
  BY <1>8, <1>10, <1>13 DEF ZoneTypes
<1>15. ZoneConsistent'
  BY <1>8, <1>9, <1>11, <1>12, Zenon DEF ZoneConsistent
<1>. QED
  BY <1>13, <1>14, <1>15

-----------------------------------------------------------------------------
(* Every step keeps the invariant.                                         *)
LEMMA ZoneStepInv == ZoneInv /\ [ZoneNext]_zoneVars => ZoneInv'
<1>. SUFFICES ASSUME ZoneInv, [ZoneNext]_zoneVars PROVE ZoneInv'
  OBVIOUS
<1>1. CASE \E want \in Sizes : Z_Malloc(want)
  BY <1>1, MallocInv
<1>2. CASE Scan
  BY <1>2, ScanStepInv
<1>3. CASE GiveUp
  BY <1>3, GiveUpInv
<1>4. CASE Take
  BY <1>4, TakeInv
<1>5. CASE \E a \in DOMAIN asked : Z_Free(a)
  BY <1>5, FreeInv
<1>6. CASE UNCHANGED zoneVars
  BY <1>6 DEF zoneVars, ZoneInv, ZoneTypes, ScanTypes, ScanInv, ScanComplete,
              ZoneConsistent, Fits, Ahead
<1>. QED
  BY <1>1, <1>2, <1>3, <1>4, <1>5, <1>6 DEF ZoneNext

(* Whatever Z_Malloc and Z_Free are called for and in whatever order, the  *)
(* blocks tile the zone, no two free ones touch, the rover is on the list  *)
(* and every allocation has its bytes.                                     *)
THEOREM ZoneStaysConsistent == ZoneSpec => []ZoneConsistent
<1>1. ZoneInv => ZoneConsistent
  BY DEF ZoneInv
<1>. QED
  BY <1>1, ZoneInitInv, ZoneStepInv, PTL DEF ZoneSpec

(* Z_TagMalloc returns NULL only if no free block is large enough.         *)
THEOREM ScanMissesNothing == ZoneSpec => []ScanComplete
<1>1. ZoneInv => ScanComplete
  BY DEF ZoneInv
<1>. QED
  BY <1>1, ZoneInitInv, ZoneStepInv, PTL DEF ZoneSpec

-----------------------------------------------------------------------------
\* Slot i of the script n holds what the save number s wrote, complete.
Holds(n, i, s) == \E f \in disk[n][i] : f.save = s /\ f.whole

\* The saves SavesSurvive speaks of.
Recent(n, s) == Age(n, s) = 0 \/ Age(n, s) < backups

FilesTypes ==
    /\ backups \in 0 .. MaxBackups
    /\ disk = [n \in Name |-> disk[n]]
    /\ \A n \in Name : disk[n] = [i \in Slots |-> disk[n][i]]
    /\ started \in [Name -> Nat]
    /\ completed \in [Name -> SUBSET Nat]
    /\ script = [name |-> script.name, version |-> script.version]
    /\ pc = [at |-> pc.at, i |-> pc.i]
    /\ pc.at \in {"idle", "remove", "rename", "open", "write"}
    /\ pc.i \in Int
    /\ pc.at = "idle" => pc = Idle

\* Some save of the script n is under way.
Busy(n) == pc.at # "idle" /\ n = script.name

\* What is known of the slots while a save is under way.
Rotation ==
    /\ pc.at # "idle" => script.name \in Name /\ started[script.name] > 0
    /\ pc.at = "remove" => backups > 0 /\ pc.i = backups - 2
    /\ pc.at = "rename" => pc.i \in 0 .. backups - 2 /\ disk[script.name][pc.i + 1] = {}

\* The slot a save may be in: a rotation has moved those above pc.i already.
Place(n, s, i) ==
    CASE ~Busy(n) -> i <= Age(n, s)
      [] Busy(n) /\ pc.at = "remove" -> i < Age(n, s)
      [] Busy(n) /\ pc.at = "rename" ->
            (i <= pc.i /\ i < Age(n, s)) \/ (i > pc.i + 1 /\ i <= Age(n, s))
      [] OTHER -> i > 0 /\ i <= Age(n, s)

Numbered ==
    \A n \in Name : \A s \in completed[n] :
        s <= started[n] /\ (Busy(n) => s < started[n])

Found ==
    \A n \in Name : \A s \in completed[n] :
        Recent(n, s) => \E i \in Slots : Place(n, s, i) /\ Holds(n, i, s)

FilesInv == FilesTypes /\ Rotation /\ Numbered /\ Found
-----------------------------------------------------------------------------
\* Without saves there is nothing to find.
LEMMA FilesInitInv == Init => FilesInv
<1> SUFFICES ASSUME Init PROVE FilesInv
    OBVIOUS
<1>1. FilesTypes
    <2>1. \A n \in Name : disk[n] = [i \in Slots |-> {}]
        BY DEF Init
    <2>2. \A n \in Name : disk[n] = [i \in Slots |-> disk[n][i]]
        BY <2>1
    <2>3. disk = [n \in Name |-> disk[n]]
        BY <2>1 DEF Init
    <2>4. started \in [Name -> Nat] /\ completed \in [Name -> SUBSET Nat]
        BY DEF Init
    <2>5. backups \in 0 .. MaxBackups /\ pc = [at |-> "idle", i |-> 0]
        BY DEF Init, Idle
    <2>6. script = [name |-> script.name, version |-> script.version]
        BY DEF Init, NoScript
    <2>7. pc = [at |-> pc.at, i |-> pc.i] /\ pc.at = "idle" /\ pc.i \in Int /\ pc = Idle
        BY <2>5 DEF Idle
    <2> QED
        BY <2>2, <2>3, <2>4, <2>5, <2>6, <2>7 DEF FilesTypes
<1>2. Rotation
    BY DEF Init, Rotation, Idle
<1>3. Numbered /\ Found
    BY DEF Init, Numbered, Found
<1> QED
    BY <1>1, <1>2, <1>3 DEF FilesInv

\* Outside of a save the commands change only what is in memory.
LEMMA MemoryStep ==
    ASSUME FilesInv,
           UNCHANGED <<backups, disk, started, completed>>,
           script' = [name |-> script'.name, version |-> script'.version],
           pc' = Idle
    PROVE  FilesInv'
<1> USE DEF FilesInv
<1>1. FilesTypes'
    BY DEF FilesTypes, Idle
<1>2. Rotation'
    BY DEF Rotation, Idle
<1>3. \A n : ~Busy(n)'
    BY DEF Busy, Idle
<1>4. Numbered'
    BY <1>3 DEF Numbered
<1>5. \A n \in Name : \A s \in completed[n] : \A i \in Slots : Place(n, s, i) => Place(n, s, i)'
    BY <1>3 DEF Place, Age, FilesTypes, Slots
<1>6. Found'
    BY <1>5 DEF Found, Recent, Age, Holds
<1> QED
    BY <1>1, <1>2, <1>4, <1>6

\* A save begins: every earlier one is a save older.
LEMMA BeginStep ==
    ASSUME FilesInv, NEW n \in Name, pc = Idle, Write_To_File(n),
           UNCHANGED <<backups, disk, completed>>,
           script' = [name |-> n, version |-> script'.version]
    PROVE  FilesInv'
<1> USE DEF FilesInv
<1>1. FilesTypes'
    BY DEF FilesTypes, Write_To_File, Idle
<1>2. script'.name = n /\ started'[n] = started[n] + 1 /\ started[n] \in Nat
    BY DEF FilesTypes, Write_To_File
<1>3. pc'.at = (IF backups = 0 THEN "open" ELSE "remove") /\ pc'.i = backups - 2
    BY DEF Write_To_File
<1>4. Rotation'
    BY <1>2, <1>3 DEF Rotation, FilesTypes
<1>5. ASSUME NEW m \in Name, NEW s \in completed[m]
      PROVE  s <= started'[m] /\ (Busy(m)' => s < started'[m])
    BY <1>2, <1>3 DEF Numbered, FilesTypes, Write_To_File, Busy, Idle
<1>6. ASSUME NEW m \in Name, NEW s \in completed[m], Recent(m, s)'
      PROVE  \E i \in Slots : Place(m, s, i)' /\ Holds(m, i, s)'
    <2>1. s \in Nat /\ started[m] \in Nat /\ s <= started[m] /\ ~Busy(m)
        BY DEF FilesTypes, Numbered, Busy, Idle
    <2>2. CASE m # n
        <3>1. started'[m] = started[m] /\ ~Busy(m)'
            BY <2>2, <1>2 DEF Write_To_File, FilesTypes, Busy
        <3>2. Recent(m, s)
            BY <1>6, <3>1 DEF Recent, Age
        <3>3. PICK i \in Slots : Place(m, s, i) /\ Holds(m, i, s)
            BY <3>2 DEF Found
        <3> QED
            BY <3>1, <3>3, <2>1 DEF Place, Age, Holds
    <2>3. CASE m = n
        <3>1. Busy(m)' /\ Age(m, s)' = Age(m, s) + 1
            BY <2>3, <2>1, <1>2, <1>3 DEF Busy, Age
        <3>2. Recent(m, s) /\ backups # 0
            BY <1>6, <3>1, <2>1 DEF Recent, Age, FilesTypes
        <3>3. PICK i \in Slots : Place(m, s, i) /\ Holds(m, i, s)
            BY <3>2 DEF Found
        <3>4. i <= Age(m, s) /\ i \in Int /\ Age(m, s) \in Int
            BY <3>3, <2>1 DEF Place, Age, Slots
        <3>5. Place(m, s, i)'
            BY <3>1, <3>2, <3>4, <1>3 DEF Place
        <3> QED
            BY <3>3, <3>5 DEF Holds
    <2> QED
        BY <2>2, <2>3
<1>7. Numbered' /\ Found'
    BY <1>5, <1>6 DEF Numbered, Found
<1> QED
    BY <1>1, <1>4, <1>7

\* The rotation and the file, one call to the file system at a time.
LEMMA RemoveStep == FilesInv /\ Move_Saves_Remove => FilesInv'
<1> SUFFICES ASSUME FilesInv, Move_Saves_Remove PROVE FilesInv'
    OBVIOUS
<1> USE FilesAssumption DEF FilesInv
<1> DEFINE n == script.name
<1>1. n \in Name /\ backups \in 1 .. MaxBackups /\ pc.i = backups - 2
    BY DEF FilesTypes, Rotation, Move_Saves_Remove
<1>2. /\ UNCHANGED <<backups, script, started, completed>>
      /\ pc' = [at |-> IF pc.i >= 0 THEN "rename" ELSE "open", i |-> pc.i]
    BY DEF Move_Saves_Remove, FilesTypes
<1>3. /\ \A m \in Name, i \in Slots : m # n \/ i # backups - 1 => disk'[m][i] = disk[m][i]
      /\ disk'[n][backups - 1] = {}
      /\ disk' = [m \in Name |-> disk'[m]]
      /\ \A m \in Name : disk'[m] = [i \in Slots |-> disk'[m][i]]
    <2>1. backups - 1 \in Slots
        BY <1>1 DEF Slots
    <2>2. /\ disk' = [m \in Name |-> disk'[m]]
          /\ \A m \in Name : m # n => disk'[m] = disk[m]
          /\ disk'[n] = [disk[n] EXCEPT ![backups - 1] = {}]
        BY <1>1 DEF Move_Saves_Remove, FilesTypes
    <2>3. disk[n] = [i \in Slots |-> disk[n][i]]
        BY <1>1 DEF FilesTypes
    <2>4. /\ disk'[n] = [i \in Slots |-> disk'[n][i]]
          /\ disk'[n][backups - 1] = {}
          /\ \A i \in Slots : i # backups - 1 => disk'[n][i] = disk[n][i]
        BY <2>1, <2>2, <2>3
    <2>5. \A m \in Name : m # n => disk'[m] = [i \in Slots |-> disk'[m][i]]
        BY <2>2 DEF FilesTypes
    <2>6. \A m \in Name : disk'[m] = [i \in Slots |-> disk'[m][i]]
        BY <2>4, <2>5
    <2>7. \A m \in Name, i \in Slots : m # n \/ i # backups - 1 => disk'[m][i] = disk[m][i]
        BY <2>2, <2>4
    <2> QED
        BY <2>2, <2>4, <2>6, <2>7
<1>4. FilesTypes'
    BY <1>1, <1>2, <1>3 DEF FilesTypes, Idle
<1>5. Rotation'
    BY <1>1, <1>2, <1>3 DEF Rotation, FilesTypes, Move_Saves_Remove
<1>6. \A m : Busy(m)' <=> Busy(m)
    BY <1>2 DEF Busy, Move_Saves_Remove
<1>7. Numbered'
    BY <1>2, <1>6 DEF Numbered
<1>8. ASSUME NEW m \in Name, NEW s \in completed[m], Recent(m, s)
      PROVE  \E i \in Slots : Place(m, s, i)' /\ Holds(m, i, s)'
    <2>1. PICK i \in Slots : Place(m, s, i) /\ Holds(m, i, s)
        BY <1>8 DEF Found
    <2>2. i \in Int /\ Age(m, s) \in Int /\ Age(m, s)' = Age(m, s)
        BY <1>2 DEF Age, FilesTypes, Slots
    <2>3. CASE m # n
        BY <2>1, <2>2, <2>3, <1>2, <1>3, <1>6 DEF Place, Holds, Busy
    <2>4. CASE m = n
        <3>1. Busy(m) /\ i < Age(m, s)
            BY <2>1, <2>4 DEF Place, Busy, Move_Saves_Remove
        <3>2. i < backups - 1
            BY <3>1, <2>2, <1>1, <1>8 DEF Recent, Slots
        <3>3. Place(m, s, i)'
            BY <3>1, <3>2, <2>2, <1>1, <1>2, <1>6 DEF Place, Slots
        <3>4. Holds(m, i, s)'
            BY <2>1, <3>2, <1>1, <1>3 DEF Holds
        <3> QED
            BY <3>3, <3>4
    <2> QED
        BY <2>3, <2>4
<1>9. Found'
    BY <1>2, <1>8 DEF Found, Recent, Age
<1> QED
    BY <1>4, <1>5, <1>7, <1>9

\* A row of slots after two of its files have changed.
LEMMA TwoUpdates ==
    ASSUME NEW S, NEW f, f = [i \in S |-> f[i]],
           NEW a \in S, NEW b \in S, a # b, NEW x, NEW y,
           NEW g, g = [f EXCEPT ![a] = x, ![b] = y]
    PROVE  /\ g = [i \in S |-> g[i]]
           /\ g[a] = x /\ g[b] = y
           /\ \A i \in S : i # a /\ i # b => g[i] = f[i]
<1>1. DOMAIN f = S
    OBVIOUS
<1>2. DOMAIN g = S
    BY <1>1
<1>3. g[b] = y
    BY <1>1
<1>4. g[a] = x
    BY <1>1
<1>5. \A i \in S : i # a /\ i # b => g[i] = f[i]
    BY <1>1
<1>6. g = [i \in S |-> g[i]]
    BY <1>1, <1>2
<1> QED
    BY <1>3, <1>4, <1>5, <1>6

\* A file is moved up into the slot that was freed before it.
LEMMA RenameStep == FilesInv /\ Move_Saves_Rename => FilesInv'
<1> SUFFICES ASSUME FilesInv, Move_Saves_Rename PROVE FilesInv'
    OBVIOUS
<1> USE FilesAssumption DEF FilesInv
<1> DEFINE n == script.name
<1>0. PICK k : k = pc.i
    OBVIOUS
<1>1. n \in Name /\ backups \in 2 .. MaxBackups /\ k \in 0 .. backups - 2 /\ disk[n][k + 1] = {}
    <2>1. n \in Name /\ k \in 0 .. backups - 2 /\ disk[n][k + 1] = {}
        BY <1>0 DEF Rotation, Move_Saves_Rename
    <2>2. backups \in 0 .. MaxBackups
        BY DEF FilesTypes
    <2> QED
        BY <2>1, <2>2
<1>2. /\ UNCHANGED <<backups, script, started, completed>>
      /\ pc' = [at |-> IF k > 0 THEN "rename" ELSE "open", i |-> k - 1]
    BY <1>0 DEF Move_Saves_Rename
<1>3. k \in Slots /\ k + 1 \in Slots /\ k # k + 1
    BY <1>1 DEF Slots, FilesTypes
<1>4. /\ \A m \in Name, i \in Slots : m # n \/ i \notin {k, k + 1} => disk'[m][i] = disk[m][i]
      /\ disk'[n][k] = {}
      /\ disk'[n][k + 1] = disk[n][k]
      /\ disk' = [m \in Name |-> disk'[m]]
      /\ \A m \in Name : disk'[m] = [i \in Slots |-> disk'[m][i]]
    <2>1. CASE disk[n][k] = {}
        BY <2>1, <1>0, <1>1 DEF Move_Saves_Rename, FilesTypes
    <2>2. CASE disk[n][k] # {}
        <3>1. /\ disk' = [m \in Name |-> disk'[m]]
              /\ \A m \in Name : m # n => disk'[m] = disk[m]
              /\ disk'[n] = [disk[n] EXCEPT ![k + 1] = disk[n][k], ![k] = {}]
            BY <2>2, <1>0, <1>1 DEF Move_Saves_Rename, FilesTypes
        <3>2. disk[n] = [i \in Slots |-> disk[n][i]]
            BY <1>1 DEF FilesTypes
        <3>3. /\ disk'[n] = [i \in Slots |-> disk'[n][i]]
              /\ disk'[n][k] = {} /\ disk'[n][k + 1] = disk[n][k]
              /\ \A i \in Slots : i \notin {k, k + 1} => disk'[n][i] = disk[n][i]
            <4>1. disk'[n] = [disk[n] EXCEPT ![k + 1] = disk[n][k], ![k] = {}]
                BY <3>1
            <4>2. /\ disk'[n] = [i \in Slots |-> disk'[n][i]]
                  /\ disk'[n][k + 1] = disk[n][k] /\ disk'[n][k] = {}
                  /\ \A i \in Slots : i # k + 1 /\ i # k => disk'[n][i] = disk[n][i]
                BY <1>3, <3>2, <4>1, TwoUpdates, Zenon
            <4> QED
                BY <4>2
        <3>4. \A m \in Name : disk[m] = [i \in Slots |-> disk[m][i]]
            BY DEF FilesTypes
        <3>5. ASSUME NEW m \in Name PROVE disk'[m] = [i \in Slots |-> disk'[m][i]]
            <4>1. CASE m = n
                BY <4>1, <3>3, Zenon
            <4>2. m # n => disk'[m] = disk[m]
                BY <3>1
            <4>3. CASE m # n
                BY <4>2, <4>3, <3>4, Zenon
            <4> QED
                BY <4>1, <4>3
        <3>6. ASSUME NEW m \in Name, NEW i \in Slots, m # n \/ i \notin {k, k + 1}
              PROVE  disk'[m][i] = disk[m][i]
            BY <3>1, <3>3, <3>6
        <3> QED
            BY <3>1, <3>3, <3>5, <3>6
    <2> QED
        BY <2>1, <2>2
<1>5. FilesTypes'
    BY <1>1, <1>2, <1>4 DEF FilesTypes, Idle
<1>6. Rotation'
    <2>1. k > 0 => (k - 1) + 1 = k /\ k - 1 \in 0 .. backups - 2
        BY <1>1
    <2>2. n \in Name /\ started[n] > 0
        BY <1>1 DEF Rotation, Move_Saves_Rename
    <2> QED
        BY <2>1, <2>2, <1>2, <1>4 DEF Rotation
<1>7. \A m : Busy(m)' <=> Busy(m)
    BY <1>2 DEF Busy, Move_Saves_Rename
<1>8. Numbered'
    BY <1>2, <1>7 DEF Numbered
<1>9. ASSUME NEW m \in Name, NEW s \in completed[m], Recent(m, s)
      PROVE  \E i \in Slots : Place(m, s, i)' /\ Holds(m, i, s)'
    <2>1. PICK i \in Slots : Place(m, s, i) /\ Holds(m, i, s)
        BY <1>9 DEF Found
    <2>2. i \in Int /\ Age(m, s) \in Int /\ Age(m, s)' = Age(m, s)
        BY <1>2 DEF Age, FilesTypes, Slots
    <2>3. CASE m # n
        BY <2>1, <2>2, <2>3, <1>2, <1>4, <1>7 DEF Place, Holds, Busy
    <2>4. CASE m = n
        <3>1. Busy(m) /\ ((i <= k /\ i < Age(m, s)) \/ (i > k + 1 /\ i <= Age(m, s)))
            BY <2>1, <2>4, <1>0 DEF Place, Busy, Move_Saves_Rename
        <3>2. CASE i = k
            <4>1. Place(m, s, k + 1)'
                BY <3>1, <3>2, <2>2, <1>1, <1>2, <1>7 DEF Place
            <4>2. Holds(m, k + 1, s)'
                BY <2>1, <2>4, <3>2, <1>4 DEF Holds
            <4> QED
                BY <4>1, <4>2, <1>3
        <3>3. CASE i # k
            <4>1. Place(m, s, i)'
                BY <3>1, <3>3, <2>2, <1>1, <1>2, <1>7 DEF Place, Slots
            <4>2. i # k + 1
                BY <3>1, <2>2, <1>1
            <4>3. Holds(m, i, s)'
                BY <2>1, <2>4, <3>3, <4>2, <1>4 DEF Holds
            <4> QED
                BY <4>1, <4>3
        <3> QED
            BY <3>2, <3>3
    <2> QED
        BY <2>3, <2>4
<1>10. Found'
    BY <1>2, <1>9 DEF Found, Recent, Age
<1> QED
    BY <1>5, <1>6, <1>8, <1>10

\* A row, and then the disk, after the file in slot 0 of one script has changed.
LEMMA FirstSlot ==
    ASSUME FilesTypes, NEW n \in Name, NEW x, disk' = [disk EXCEPT ![n][0] = x]
    PROVE  /\ disk' = [m \in Name |-> disk'[m]]
           /\ \A m \in Name : disk'[m] = [i \in Slots |-> disk'[m][i]]
           /\ disk'[n][0] = x
           /\ \A m \in Name, i \in Slots : m # n \/ i # 0 => disk'[m][i] = disk[m][i]
<1>1. 0 \in Slots
    BY FilesAssumption DEF Slots
<1>2. /\ disk' = [m \in Name |-> disk'[m]]
      /\ \A m \in Name : m # n => disk'[m] = disk[m]
      /\ disk'[n] = [disk[n] EXCEPT ![0] = x]
    BY DEF FilesTypes
<1>3. \A m \in Name : disk[m] = [i \in Slots |-> disk[m][i]]
    BY DEF FilesTypes
<1>4. /\ disk'[n] = [i \in Slots |-> disk'[n][i]]
      /\ disk'[n][0] = x
      /\ \A i \in Slots : i # 0 => disk'[n][i] = disk[n][i]
    BY <1>1, <1>2, <1>3
<1>5. ASSUME NEW m \in Name PROVE disk'[m] = [i \in Slots |-> disk'[m][i]]
    <2>1. CASE m = n
        BY <2>1, <1>4, Zenon
    <2>2. CASE m # n
        BY <2>2, <1>2, <1>3, Zenon
    <2> QED
        BY <2>1, <2>2
<1>6. ASSUME NEW m \in Name, NEW i \in Slots, m # n \/ i # 0
      PROVE  disk'[m][i] = disk[m][i]
    BY <1>2, <1>4, <1>6
<1> QED
    BY <1>2, <1>4, <1>5, <1>6

\* The new file starts in a slot no earlier save is looked for in.
LEMMA OpenStep == FilesInv /\ Write_To_File_Open => FilesInv'
<1> SUFFICES ASSUME FilesInv, Write_To_File_Open PROVE FilesInv'
    OBVIOUS
<1> USE DEF FilesInv
<1> DEFINE n == script.name
<1>1. n \in Name /\ started[n] > 0
    BY DEF Rotation, Write_To_File_Open
<1>2. /\ UNCHANGED <<backups, script, started, completed>>
      /\ pc' = [at |-> "write", i |-> pc.i]
    BY DEF Write_To_File_Open, FilesTypes
<1>3. /\ disk' = [m \in Name |-> disk'[m]]
      /\ \A m \in Name : disk'[m] = [i \in Slots |-> disk'[m][i]]
      /\ disk'[n][0] = {[version |-> script.version, save |-> started[n], whole |-> FALSE]}
      /\ \A m \in Name, i \in Slots : m # n \/ i # 0 => disk'[m][i] = disk[m][i]
    BY <1>1, FirstSlot DEF Write_To_File_Open
<1>4. FilesTypes'
    BY <1>2, <1>3 DEF FilesTypes, Idle
<1>5. Rotation'
    BY <1>1, <1>2, <1>3 DEF Rotation
<1>6. \A m : Busy(m)' <=> Busy(m)
    BY <1>2 DEF Busy, Write_To_File_Open
<1>7. Numbered'
    BY <1>2, <1>6 DEF Numbered
<1>8. ASSUME NEW m \in Name, NEW s \in completed[m], Recent(m, s)
      PROVE  \E i \in Slots : Place(m, s, i)' /\ Holds(m, i, s)'
    <2>1. PICK i \in Slots : Place(m, s, i) /\ Holds(m, i, s)
        BY <1>8 DEF Found
    <2>2. i \in Int /\ Age(m, s)' = Age(m, s)
        BY <1>2 DEF Age, Slots
    <2>3. m = n => Busy(m) /\ i > 0
        BY <2>1 DEF Place, Busy, Write_To_File_Open
    <2>4. Place(m, s, i)'
        BY <2>1, <2>2, <1>2, <1>6 DEF Place, Write_To_File_Open
    <2>5. Holds(m, i, s)'
        BY <2>1, <2>2, <2>3, <1>3 DEF Holds
    <2> QED
        BY <2>4, <2>5
<1>9. Found'
    BY <1>2, <1>8 DEF Found, Recent, Age
<1> QED
    BY <1>4, <1>5, <1>7, <1>9

\* A save that ends is complete in slot 0, and the earlier ones are where they were.
LEMMA FinalizeStep == FilesInv /\ Write_To_File_Finalize => FilesInv'
<1> SUFFICES ASSUME FilesInv, Write_To_File_Finalize PROVE FilesInv'
    OBVIOUS
<1> USE DEF FilesInv
<1> DEFINE n == script.name
           file == [version |-> script.version, save |-> started[n], whole |-> TRUE]
<1>1. n \in Name /\ started[n] \in Nat
    BY DEF Rotation, FilesTypes, Write_To_File_Finalize
<1>2. /\ UNCHANGED <<backups, script, started>>
      /\ pc' = Idle
      /\ completed' = [completed EXCEPT ![n] = @ \cup {started[n]}]
    BY DEF Write_To_File_Finalize
<1>3. /\ disk' = [m \in Name |-> disk'[m]]
      /\ \A m \in Name : disk'[m] = [i \in Slots |-> disk'[m][i]]
      /\ disk'[n][0] = {file}
      /\ \A m \in Name, i \in Slots : m # n \/ i # 0 => disk'[m][i] = disk[m][i]
    BY <1>1, FirstSlot DEF Write_To_File_Finalize
<1>4. file \in disk'[n][0] /\ file.save = started[n] /\ file.whole
    BY <1>3
<1>5. FilesTypes'
    <2>1. completed' \in [Name -> SUBSET Nat]
        BY <1>1, <1>2 DEF FilesTypes
    <2>2. started' \in [Name -> Nat] /\ backups' \in 0 .. MaxBackups
        BY <1>2 DEF FilesTypes
    <2>3. script' = [name |-> script'.name, version |-> script'.version]
        BY <1>2 DEF FilesTypes
    <2>4. pc' = [at |-> pc'.at, i |-> pc'.i] /\ pc'.at = "idle" /\ pc'.i \in Int /\ pc' = Idle
        BY <1>2 DEF Idle
    <2> QED
        BY <2>1, <2>2, <2>3, <2>4, <1>3 DEF FilesTypes
<1>6. Rotation' /\ \A m : ~Busy(m)'
    BY <1>2 DEF Rotation, Busy, Idle
<1>7. \A m \in Name : \A s \in completed'[m] : s \in completed[m] \/ (m = n /\ s = started[n])
    BY <1>1, <1>2 DEF FilesTypes
<1>8. Numbered'
    BY <1>1, <1>2, <1>6, <1>7 DEF Numbered
<1>9. ASSUME NEW m \in Name, NEW s \in completed'[m], Recent(m, s)'
      PROVE  \E i \in Slots : Place(m, s, i)' /\ Holds(m, i, s)'
    <2>1. CASE m = n /\ s = started[n]
        <3>1. Holds(m, 0, s)'
            BY <2>1, <1>4 DEF Holds
        <3>2. 0 \in Slots /\ Place(m, s, 0)'
            BY <2>1, <1>1, <1>2, <1>6, FilesAssumption DEF Place, Age, Slots
        <3> QED
            BY <3>1, <3>2
    <2>2. CASE s \in completed[m]
        <3>1. Recent(m, s)
            BY <1>2, <1>9 DEF Recent, Age
        <3>2. PICK i \in Slots : Place(m, s, i) /\ Holds(m, i, s)
            BY <2>2, <3>1 DEF Found
        <3>3. i \in Int /\ Age(m, s)' = Age(m, s)
            BY <1>2 DEF Age, Slots
        <3>4. (m = n => i > 0) /\ i <= Age(m, s)
            BY <3>2 DEF Place, Busy, Write_To_File_Finalize
        <3>5. Place(m, s, i)'
            BY <3>3, <3>4, <1>6 DEF Place
        <3>6. Holds(m, i, s)'
            BY <3>2, <3>3, <3>4, <1>3 DEF Holds
        <3> QED
            BY <3>5, <3>6
    <2> QED
        BY <2>1, <2>2, <1>7
<1>10. Found'
    BY <1>9 DEF Found
<1> QED
    BY <1>5, <1>6, <1>8, <1>10
-----------------------------------------------------------------------------
\* Every step keeps the invariant.
LEMMA FilesStepInv == FilesInv /\ [Next]_vars => FilesInv'
<1> SUFFICES ASSUME FilesInv, [Next]_vars PROVE FilesInv'
    OBVIOUS
<1>1. script = [name |-> script.name, version |-> script.version]
    BY DEF FilesInv, FilesTypes
<1>2. CASE Edit
    BY <1>2, <1>1, MemoryStep DEF Edit
<1>3. CASE Cmd_TAS_Script_Init
    BY <1>3, BeginStep DEF Cmd_TAS_Script_Init
<1>4. CASE Cmd_TAS_Script_Load
    BY <1>4, MemoryStep DEF Cmd_TAS_Script_Load
<1>5. CASE Cmd_TAS_Edit_Save
    <2>1. PICK n \in Name :
              /\ script' = [script EXCEPT !.name = n]
              /\ IF script.version = 0 THEN UNCHANGED <<pc, started>> ELSE Write_To_File(n)
        BY <1>5 DEF Cmd_TAS_Edit_Save
    <2>2. script' = [name |-> n, version |-> script'.version]
        BY <2>1, <1>1
    <2>3. pc = Idle /\ UNCHANGED <<backups, disk, completed>>
        BY <1>5 DEF Cmd_TAS_Edit_Save
    <2>4. CASE script.version = 0
        BY <2>1, <2>2, <2>3, <2>4, MemoryStep
    <2>5. CASE script.version # 0
        BY <2>1, <2>2, <2>3, <2>5, BeginStep
    <2> QED
        BY <2>4, <2>5
<1>6. CASE Save
    <2>1. CASE Write_To_File_Refused
        BY <2>1, <1>1, MemoryStep DEF Write_To_File_Refused
    <2> QED
        BY <1>6, <2>1, RemoveStep, RenameStep, OpenStep, FinalizeStep DEF Save
<1>7. CASE Crash
    BY <1>7, MemoryStep DEF Crash, NoScript
<1>8. CASE UNCHANGED vars
    <2>1. FilesTypes'
        BY <1>8 DEF vars, FilesInv, FilesTypes
    <2>2. Rotation' /\ Numbered'
        BY <1>8 DEF vars, FilesInv, Rotation, Numbered, Busy
    <2>3. Found'
        BY <1>8 DEF vars, FilesInv, Found, Recent, Age, Place, Busy, Holds
    <2> QED
        BY <2>1, <2>2, <2>3 DEF FilesInv
<1> QED
    BY <1>2, <1>3, <1>4, <1>5, <1>6, <1>7, <1>8 DEF Next

\* A save that ended stays on disk, complete, until as many saves of that script have
\* begun as files are kept, wherever those were cut off: for every number of backups,
\* whatever crashes and failures there are (Move_Saves, Write_To_File).
THEOREM SavesSurviveAlways == Spec => []SavesSurvive
<1>1. FilesInv => SavesSurvive
    <2> SUFFICES ASSUME FilesInv, NEW n \in Name, NEW s \in completed[n], Recent(n, s)
                 PROVE  \E i \in 0 .. Age(n, s) : \E f \in disk[n][i] : f.save = s /\ f.whole
        BY DEF SavesSurvive, Recent
    <2>1. PICK i \in Slots : Place(n, s, i) /\ Holds(n, i, s)
        BY DEF FilesInv, Found
    <2>2. i \in Nat /\ Age(n, s) \in Int
        BY DEF FilesInv, FilesTypes, Slots, Age
    <2>3. i <= Age(n, s)
        BY <2>1, <2>2 DEF Place
    <2> QED
        BY <2>1, <2>2, <2>3 DEF Holds
<1> QED
    BY <1>1, FilesInitInv, FilesStepInv, PTL DEF Spec

=============================================================================
