-------------------------------- MODULE Hunk --------------------------------
(***************************************************************************)
(* The hunk of zone.c and the cache that lives in its middle.  The low     *)
(* hunk grows up and shrinks to marks taken earlier, the temporary buffer  *)
(* takes the top, and models and sounds are cached in whatever is left     *)
(* between them.  When a hunk grows into cached items they are moved, or   *)
(* thrown out; their owners find out when they look at their pointer.      *)
(*                                                                         *)
(* Sizes and addresses are in units of 16 bytes, to which every size is    *)
(* rounded up, and sizes include the header.  The doubly linked lists are  *)
(* sequences, from cache_head.next to cache_head.prev.  Only               *)
(* Hunk_TempAlloc allocates at the top.  A hunk allocation that does not   *)
(* fit ends the program.                                                   *)
(***************************************************************************)
EXTENDS Integers, Sequences, FiniteSets

CONSTANTS hunk_size,
          Users,       \* the cache_user_t of models and sounds
          HunkSizes,   \* sizes of allocations at either end
          CacheSizes   \* sizes of cached items

ASSUME HunkAssumption ==
  /\ hunk_size \in Nat /\ IsFiniteSet(Users)
  /\ HunkSizes \subseteq Nat \ {0} /\ CacheSizes \subseteq Nat \ {0}

VARIABLES
  hunk_low_used, marks,  \* marks: the marks callers may free to
  hunk_high_used, hunk_tempactive, hunk_tempmark,
  items,  \* the list of cached items, in the order of their links
  lru,    \* the list from the most to the least recently used: addresses
  data,   \* where the item of each user is
  hcall   \* the loop that is running, and its locals

hunkVars == <<hunk_low_used, marks, hunk_high_used, hunk_tempactive,
              hunk_tempmark, items, lru, data, hcall>>

NULL == -1
NoCall == [at |-> "idle", user |-> NULL, size |-> 0, prev |-> NULL]

End(i) == i.at + i.size
Top == hunk_size - hunk_high_used

(* An element is linked in front of the k-th, and the k-th is unlinked.    *)
Link(list, k, x) == SubSeq(list, 1, k - 1) \o <<x>> \o SubSeq(list, k, Len(list))
Unlink(list, k) == SubSeq(list, 1, k - 1) \o SubSeq(list, k + 1, Len(list))

Cache_UnlinkLRU(list, at) ==
  Unlink(list, CHOOSE k \in DOMAIN list : list[k] = at)

Cache_MakeLRU(list, at) == Link(list, 1, at)

Elements(list) == {list[k] : k \in DOMAIN list}

-----------------------------------------------------------------------------
(* Before item k of the list, or after the last for k = Len(items) + 1:    *)
GapStart(k) == IF k = 1 THEN hunk_low_used ELSE End(items[k - 1])
GapEnd(k) == IF k = Len(items) + 1 THEN Top ELSE items[k].at

(* Cache_TryAlloc: the first gap that is large enough; not the one at the  *)
(* bottom if nobottom.                                                     *)
Gaps(size, nobottom) ==
  {k \in 1..Len(items) + 1 :
     (nobottom => k # 1) /\ size <= GapEnd(k) - GapStart(k)}

Place(size, nobottom) ==
  CHOOSE k \in Gaps(size, nobottom) : \A m \in Gaps(size, nobottom) : k <= m

(* Cache_Free: out of both lists.                                          *)
WithoutItem(list, at) ==
  Unlink(list, CHOOSE k \in DOMAIN list : list[k].at = at)

Cache_Unlink(u) ==
  /\ items' = WithoutItem(items, data[u])
  /\ lru' = Cache_UnlinkLRU(lru, data[u])
  /\ data' = [data EXCEPT ![u] = NULL]

(* Cache_Move: a copy of item c is made in another gap, and becomes the    *)
(* most recently used, before c is freed; without a gap c is only freed.   *)
Cache_Move_Bug(c) ==
  IF Gaps(c.size, TRUE) # {}
  THEN LET k == Place(c.size, TRUE)
           at == GapStart(k)
       IN  /\ items' = WithoutItem(
                         Link(items, k, [c EXCEPT !.at = at]), c.at)
           /\ lru' = Cache_UnlinkLRU(Cache_MakeLRU(lru, at), c.at)
           /\ data' = [data EXCEPT ![c.user] = at]
  ELSE UNCHANGED <<items, lru, data>>

Cache_Move(c) ==
  IF Gaps(c.size, TRUE) # {}
  THEN LET k == Place(c.size, TRUE)
           at == GapStart(k)
       IN  /\ items' = WithoutItem(
                         Link(items, k, [c EXCEPT !.at = at]), c.at)
           /\ lru' = Cache_UnlinkLRU(Cache_MakeLRU(lru, at), c.at)
           /\ data' = [data EXCEPT ![c.user] = at]
  ELSE Cache_Unlink(c.user)

-----------------------------------------------------------------------------
(* Hunk_AllocName raises the mark, then makes room under it.               *)
Hunk_AllocName(size) ==
  /\ hcall.at = "idle"
  /\ size <= hunk_size - hunk_low_used - hunk_high_used
  /\ hunk_low_used' = hunk_low_used + size
  /\ marks' = marks \cup {hunk_low_used}
  /\ hcall' = [NoCall EXCEPT !.at = "low"]
  /\ UNCHANGED <<hunk_high_used, hunk_tempactive, hunk_tempmark,
                 items, lru, data>>

Cache_FreeLow_Bug ==
  /\ hcall.at = "low"
  /\ IF items = <<>> \/ hunk_low_used <= End(items[1])
     THEN hcall' = NoCall /\ UNCHANGED <<items, lru, data>>
     ELSE Cache_Move(items[1]) /\ UNCHANGED hcall
  /\ UNCHANGED <<hunk_low_used, marks, hunk_high_used, hunk_tempactive,
                 hunk_tempmark>>

Cache_FreeLow ==
  /\ hcall.at = "low"
  /\ IF items = <<>> \/ hunk_low_used <= items[1].at
     THEN hcall' = NoCall /\ UNCHANGED <<items, lru, data>>
     ELSE Cache_Move(items[1]) /\ UNCHANGED hcall
  /\ UNCHANGED <<hunk_low_used, marks, hunk_high_used, hunk_tempactive,
                 hunk_tempmark>>

Hunk_FreeToLowMark(mark) ==
  /\ hcall.at = "idle"
  /\ hunk_low_used' = mark
  /\ marks' = {m \in marks : m < mark}
  /\ UNCHANGED <<hunk_high_used, hunk_tempactive, hunk_tempmark,
                 items, lru, data, hcall>>

(* Hunk_TempAlloc frees the temporary buffer there is, marks the top of    *)
(* the hunk (Hunk_HighMark) and allocates there (Hunk_HighAllocName).      *)
Hunk_HighMark == IF hunk_tempactive THEN hunk_tempmark ELSE hunk_high_used

Hunk_TempAlloc(size) ==
  /\ hcall.at = "idle"
  /\ size <= hunk_size - hunk_low_used - Hunk_HighMark
  /\ hunk_tempmark' = Hunk_HighMark
  /\ hunk_high_used' = Hunk_HighMark + size
  /\ hunk_tempactive' = TRUE
  /\ hcall' = [NoCall EXCEPT !.at = "high"]
  /\ UNCHANGED <<hunk_low_used, marks, items, lru, data>>

(* prev is the item that was last: if it still is, it goes.                *)
Cache_FreeHigh ==
  /\ hcall.at = "high"
  /\ IF items = <<>> \/ End(items[Len(items)]) <= Top
     THEN hcall' = NoCall /\ UNCHANGED <<items, lru, data>>
     ELSE LET c == items[Len(items)]
          IN  IF c.at = hcall.prev
              THEN Cache_Unlink(c.user) /\ UNCHANGED hcall
              ELSE /\ Cache_Move(c)
                   /\ hcall' = [hcall EXCEPT !.prev = c.at]
  /\ UNCHANGED <<hunk_low_used, marks, hunk_high_used, hunk_tempactive,
                 hunk_tempmark>>

-----------------------------------------------------------------------------
Cache_Alloc(u, size) ==
  /\ hcall.at = "idle"
  /\ data[u] = NULL
  /\ hcall' = [at |-> "cache", user |-> u, size |-> size, prev |-> NULL]
  /\ UNCHANGED <<hunk_low_used, marks, hunk_high_used, hunk_tempactive,
                 hunk_tempmark, items, lru, data>>

(* An iteration of its loop: the item is placed, or the least recently     *)
(* used one thrown out.  With nothing to throw out the program ends.       *)
Cache_TryAlloc ==
  LET size == hcall.size
      k == Place(size, FALSE)
      at == GapStart(k)
  IN  /\ hcall.at = "cache"
      /\ \/ /\ Gaps(size, FALSE) # {}
            /\ items' = Link(items, k,
                       [at |-> at, size |-> size, user |-> hcall.user])
            /\ lru' = Cache_MakeLRU(lru, at)
            /\ data' = [data EXCEPT ![hcall.user] = at]
            /\ hcall' = NoCall
         \/ /\ Gaps(size, FALSE) = {} /\ items # <<>>
            /\ \E u \in Users : data[u] = lru[Len(lru)] /\ Cache_Unlink(u)
            /\ UNCHANGED hcall
         \/ /\ Gaps(size, FALSE) = {} /\ items = <<>>
            /\ hcall' = [hcall EXCEPT !.at = "exit"]
            /\ UNCHANGED <<items, lru, data>>
      /\ UNCHANGED <<hunk_low_used, marks, hunk_high_used, hunk_tempactive,
                     hunk_tempmark>>

Cache_Check(u) ==
  /\ hcall.at = "idle"
  /\ data[u] # NULL
  /\ lru' = Cache_MakeLRU(Cache_UnlinkLRU(lru, data[u]), data[u])
  /\ UNCHANGED <<hunk_low_used, marks, hunk_high_used, hunk_tempactive,
                 hunk_tempmark, items, data, hcall>>

Cache_Free(u) ==
  /\ hcall.at = "idle"
  /\ data[u] # NULL
  /\ Cache_Unlink(u)
  /\ UNCHANGED <<hunk_low_used, marks, hunk_high_used, hunk_tempactive,
                 hunk_tempmark, hcall>>

Cache_Flush ==
  /\ hcall.at = "idle"
  /\ items' = <<>> /\ lru' = <<>> /\ data' = [u \in Users |-> NULL]
  /\ UNCHANGED <<hunk_low_used, marks, hunk_high_used, hunk_tempactive,
                 hunk_tempmark, hcall>>

-----------------------------------------------------------------------------
(* After Memory_Init, which allocates the zone at the bottom.              *)
Memory_Init ==
  /\ hunk_low_used = 1 /\ marks = {}
  /\ hunk_high_used = 0 /\ hunk_tempactive = FALSE /\ hunk_tempmark = 0
  /\ items = <<>> /\ lru = <<>> /\ data = [u \in Users |-> NULL]
  /\ hcall = NoCall

Loops == Cache_FreeLow \/ Cache_FreeHigh \/ Cache_TryAlloc

HunkNext ==
  \/ \E size \in HunkSizes : Hunk_AllocName(size)
  \/ \E size \in HunkSizes : Hunk_TempAlloc(size)
  \/ \E mark \in marks : Hunk_FreeToLowMark(mark)
  \/ \E u \in Users, size \in CacheSizes : Cache_Alloc(u, size)
  \/ \E u \in Users : Cache_Check(u)
  \/ \E u \in Users : Cache_Free(u)
  \/ Cache_Flush
  \/ Cache_FreeLow
  \/ Cache_FreeHigh
  \/ Cache_TryAlloc

(* At every moment, also while items are being moved, they lie in the      *)
(* order of their links without overlapping, every pointer of a user leads *)
(* to the user's own item, and both lists hold the same items.  When a     *)
(* call returns, they are clear of both hunks, so that what is written     *)
(* there does not run over what is cached.                                 *)
CacheSound ==
  /\ \A k \in 1..Len(items) - 1 : End(items[k]) <= items[k + 1].at
  /\ \A i \in Elements(items) : data[i.user] = i.at
  /\ \A u \in Users : data[u] # NULL =>
       \E i \in Elements(items) : i.user = u /\ i.at = data[u]
  /\ Elements(lru) = {i.at : i \in Elements(items)} /\ Len(lru) = Len(items)
  /\ hcall.at = "idle" =>
       \A i \in Elements(items) : hunk_low_used <= i.at /\ End(i) <= Top
=============================================================================
