----------------------------- MODULE HunkProofs -----------------------------
(***************************************************************************)
(* The cache in the middle of the hunk stays sound, for hunks and items of *)
(* any size and any number of users, also while its items are being moved. *)
(***************************************************************************)
EXTENDS Hunk, WellFoundedInduction, TLAPS

-----------------------------------------------------------------------------
(* A nonempty set of natural numbers has a least element.                  *)
LEMMA Least ==
  ASSUME NEW T, T \subseteq Nat, T # {}
  PROVE  \E x \in T : \A y \in T : x <= y
<1>. DEFINE Less == OpToRel(<, Nat)
<1>1. IsWellFoundedOn(Less, Nat)
  BY NatLessThanWellFounded
<1>2. \A x, y \in Nat : x < y => <<x, y>> \in Less
  BY DEF OpToRel
<1>. HIDE DEF Less
<1>3. PICK x \in T : \A y \in T : ~ (<<y, x>> \in Less)
  BY <1>1, WFMin, Zenon
<1>4. \A y \in T : x \in Nat /\ y \in Nat /\ ~ (y < x)
  BY <1>2, <1>3, Zenon
<1>5. \A y \in T : x <= y
  BY <1>4
<1>. QED
  BY <1>5, Zenon

(* A list is a function of its places.                                     *)
LEMMA Listed ==
  ASSUME NEW S, NEW s \in Seq(S)
  PROVE  /\ Len(s) \in Nat /\ DOMAIN s = 1..Len(s) /\ s \in [1..Len(s) -> S]
         /\ s = <<>> <=> Len(s) = 0
OBVIOUS

(* The elements of a list are of its kind.                                 *)
LEMMA OfKind ==
  ASSUME NEW S, NEW s \in Seq(S), NEW j \in 1..Len(s)
  PROVE  s[j] \in S
OBVIOUS

(* A list put behind another.                                              *)
LEMMA Joined ==
  ASSUME NEW S, NEW l \in Seq(S), NEW r \in Seq(S)
  PROVE  /\ l \o r \in Seq(S) /\ Len(l \o r) = Len(l) + Len(r)
         /\ \A j \in 1..Len(l) + Len(r) :
              (l \o r)[j] = IF j <= Len(l) THEN l[j] ELSE r[j - Len(l)]
OBVIOUS

(* A part of a list.                                                       *)
LEMMA Part ==
  ASSUME NEW S, NEW s \in Seq(S), NEW m \in 1..Len(s) + 1, NEW n \in m - 1..Len(s)
  PROVE  /\ SubSeq(s, m, n) \in Seq(S) /\ Len(SubSeq(s, m, n)) = n + 1 - m
         /\ \A j \in 1..n + 1 - m : SubSeq(s, m, n)[j] = s[j - 1 + m]
OBVIOUS

(* The elements of a list with an element put in front of the k-th.        *)
HasLinked(t, s, k, x) ==
  /\ Len(t) = Len(s) + 1
  /\ \A j \in 1..Len(s) + 1 :
       t[j] = IF j < k THEN s[j] ELSE IF j = k THEN x ELSE s[j - 1]

(* Link puts it there.                                                     *)
LEMMA Linked ==
  ASSUME NEW S, NEW s \in Seq(S), NEW x \in S, NEW k \in 1..Len(s) + 1
  PROVE  Link(s, k, x) \in Seq(S) /\ HasLinked(Link(s, k, x), s, k, x)
<1>. DEFINE l == SubSeq(s, 1, k - 1)
            one == <<x>>
            r == SubSeq(s, k, Len(s))
<1>0. Len(s) \in Nat /\ k \in Nat /\ k - 1 \in 0..Len(s)
  BY Listed
<1>1. /\ l \in Seq(S) /\ Len(l) = k - 1
      /\ \A j \in 1..k - 1 : l[j] = s[j]
  BY <1>0, Part
<1>2. /\ r \in Seq(S) /\ Len(r) = Len(s) + 1 - k
      /\ \A j \in 1..Len(s) + 1 - k : r[j] = s[j - 1 + k]
  BY <1>0, Part
<1>3. one \in Seq(S) /\ Len(one) = 1 /\ one[1] = x
  OBVIOUS
<1>. HIDE DEF l, one, r
<1>. DEFINE lx == l \o one
<1>4. /\ lx \in Seq(S) /\ Len(lx) = Len(l) + Len(one)
      /\ \A j \in 1..Len(l) + Len(one) :
           lx[j] = IF j <= Len(l) THEN l[j] ELSE one[j - Len(l)]
  BY <1>1, <1>3, Joined, Zenon
<1>. HIDE DEF lx
<1>5. /\ Len(lx) = k
      /\ \A j \in 1..k : lx[j] = IF j < k THEN s[j] ELSE x
  <2>1. \A j \in 1..k : (j < k /\ j \in 1..k - 1) \/ (j = k /\ j - (k - 1) = 1)
    BY <1>0
  <2>. QED
    BY <1>0, <1>1, <1>3, <1>4, <2>1
<1>. DEFINE t == lx \o r
<1>9. lx \in Seq(S) /\ r \in Seq(S)
  BY <1>2, <1>4
<1>6. /\ t \in Seq(S) /\ Len(t) = Len(lx) + Len(r)
      /\ \A j \in 1..Len(lx) + Len(r) :
           t[j] = IF j <= Len(lx) THEN lx[j] ELSE r[j - Len(lx)]
  BY <1>9, Joined, Zenon
<1>. HIDE DEF t
<1>7. Len(t) = Len(s) + 1
  BY <1>0, <1>2, <1>5, <1>6
<1>8. ASSUME NEW j \in 1..Len(s) + 1
      PROVE  t[j] = IF j < k THEN s[j] ELSE IF j = k THEN x ELSE s[j - 1]
  <2>1. CASE j <= k
    BY <1>0, <1>5, <1>6, <1>7, <2>1
  <2>2. CASE j > k
    <3>1. j - k \in 1..Len(s) + 1 - k /\ (j - k) - 1 + k = j - 1
      BY <1>0, <2>2
    <3>2. t[j] = r[j - k]
      BY <1>0, <1>5, <1>6, <1>7, <2>2
    <3>. QED
      BY <1>0, <1>2, <2>2, <3>1, <3>2
  <2>. QED
    BY <1>0, <2>1, <2>2
<1>. QED
  <2>1. HasLinked(t, s, k, x)
    BY <1>7, <1>8 DEF HasLinked
  <2>. QED
    BY <1>6, <2>1, Zenon DEF Link, t, lx, l, one, r

(* The elements of a list without the k-th.                                *)
LEMMA Unlinked ==
  ASSUME NEW S, NEW s \in Seq(S), NEW k \in 1..Len(s)
  PROVE  /\ Unlink(s, k) \in Seq(S)
         /\ Len(Unlink(s, k)) = Len(s) - 1
         /\ \A j \in 1..Len(s) - 1 :
              Unlink(s, k)[j] = IF j < k THEN s[j] ELSE s[j + 1]
<1>. DEFINE l == SubSeq(s, 1, k - 1)
            r == SubSeq(s, k + 1, Len(s))
<1>0. Len(s) \in Nat /\ k \in Nat /\ k - 1 \in 0..Len(s) /\ k + 1 \in 1..Len(s) + 1
  BY Listed
<1>1. /\ l \in Seq(S) /\ Len(l) = k - 1
      /\ \A j \in 1..k - 1 : l[j] = s[j]
  BY <1>0, Part
<1>2. /\ r \in Seq(S) /\ Len(r) = Len(s) - k
      /\ \A j \in 1..Len(s) - k : r[j] = s[j + k]
  <2>1. PICK m \in 1..Len(s) + 1 : m = k + 1
    BY <1>0
  <2>2. /\ SubSeq(s, m, Len(s)) \in Seq(S) /\ Len(SubSeq(s, m, Len(s))) = Len(s) + 1 - m
        /\ \A j \in 1..Len(s) + 1 - m : SubSeq(s, m, Len(s))[j] = s[j - 1 + m]
    BY <1>0, Part
  <2>. QED
    BY <1>0, <2>1, <2>2
<1>. HIDE DEF l, r
<1>. DEFINE t == l \o r
<1>3. /\ t \in Seq(S) /\ Len(t) = Len(l) + Len(r)
      /\ \A j \in 1..Len(l) + Len(r) :
           t[j] = IF j <= Len(l) THEN l[j] ELSE r[j - Len(l)]
  BY <1>1, <1>2, Joined, Zenon
<1>. HIDE DEF t
<1>4. Len(t) = Len(s) - 1
  BY <1>0, <1>1, <1>2, <1>3
<1>5. ASSUME NEW j \in 1..Len(s) - 1
      PROVE  t[j] = IF j < k THEN s[j] ELSE s[j + 1]
  <2>1. CASE j < k
    <3>1. j \in 1..k - 1 /\ j \in 1..Len(l) + Len(r) /\ j <= Len(l)
      BY <1>0, <1>1, <1>2, <2>1
    <3>. QED
      BY <1>1, <1>3, <2>1, <3>1
  <2>2. CASE j >= k
    <3>1. j - (k - 1) \in 1..Len(s) - k /\ (j - (k - 1)) + k = j + 1
      BY <1>0, <2>2
    <3>2. t[j] = r[j - (k - 1)]
      <4>1. j \in 1..Len(l) + Len(r) /\ ~(j <= Len(l)) /\ j - Len(l) = j - (k - 1)
        BY <1>0, <1>1, <1>2, <2>2
      <4>2. t[j] = r[j - Len(l)]
        BY <1>3, <4>1, Zenon
      <4>. QED
        BY <4>1, <4>2, Zenon
    <3>. QED
      BY <1>0, <1>2, <2>2, <3>1, <3>2
  <2>. QED
    BY <1>0, <2>1, <2>2
<1>. QED
  BY <1>3, <1>4, <1>5, Zenon DEF Unlink, t, l, r

-----------------------------------------------------------------------------
(* All pairs of a list are in a relation.                                  *)
Paired(s, R) == \A i, j \in 1..Len(s) : i < j => <<s[i], s[j]>> \in R

(* The elements of a list, by their places.                                *)
LEMMA Places ==
  ASSUME NEW s, DOMAIN s = 1..Len(s)
  PROVE  \A y : y \in Elements(s) <=> \E i \in 1..Len(s) : y = s[i]
BY DEF Elements

(* Linking keeps the pairs of a list if it gives none that is not allowed. *)
LEMMA LinkPairs ==
  ASSUME NEW S, NEW R, NEW s \in Seq(S), NEW x \in S, NEW k \in 1..Len(s) + 1,
         Paired(s, R),
         \A i \in 1..Len(s) : i < k => <<s[i], x>> \in R,
         \A i \in 1..Len(s) : i >= k => <<x, s[i]>> \in R
  PROVE  /\ Link(s, k, x) \in Seq(S) /\ Len(Link(s, k, x)) = Len(s) + 1
         /\ Paired(Link(s, k, x), R)
         /\ Elements(Link(s, k, x)) = Elements(s) \cup {x}
<1>0. Len(s) \in Nat /\ k \in Nat /\ DOMAIN s = 1..Len(s)
  BY Listed
<1>1. PICK t : t = Link(s, k, x)
  OBVIOUS
<1>2. /\ t \in Seq(S) /\ Len(t) = Len(s) + 1
      /\ \A j \in 1..Len(s) + 1 :
           t[j] = IF j < k THEN s[j] ELSE IF j = k THEN x ELSE s[j - 1]
  <2>1. t \in Seq(S) /\ HasLinked(t, s, k, x)
    BY <1>1, Linked, Zenon
  <2>. QED
    BY <2>1, Zenon DEF HasLinked
<1>3. DOMAIN t = 1..Len(t) /\ k \in 1..Len(t) /\ t[k] = x
  BY <1>0, <1>2, Listed
<1>4. \A j \in 1..Len(t) : \/ j < k /\ j \in 1..Len(s) /\ t[j] = s[j]
                           \/ j = k /\ t[j] = x
                           \/ j > k /\ j - 1 \in 1..Len(s) /\ j - 1 >= k /\ t[j] = s[j - 1]
  BY <1>0, <1>2
<1>5. ASSUME NEW i \in 1..Len(t), NEW j \in 1..Len(t), i < j
      PROVE  <<t[i], t[j]>> \in R
  <2>0. \A a, b \in 1..Len(s) : a < b => <<s[a], s[b]>> \in R
    BY DEF Paired
  <2>1. CASE j < k
    <3>1. i < k /\ i # k /\ ~(i > k) /\ j # k /\ ~(j > k)
      BY <1>0, <1>2, <1>5, <2>1
    <3>2. i \in 1..Len(s) /\ t[i] = s[i] /\ j \in 1..Len(s) /\ t[j] = s[j]
      BY <1>4, <3>1
    <3>. QED
      BY <1>5, <2>0, <3>2
  <2>2. CASE j = k
    <3>1. i \in 1..Len(s) /\ t[i] = s[i] /\ t[j] = x
      BY <1>0, <1>4, <1>5, <2>2
    <3>. QED
      BY <1>5, <2>2, <3>1
  <2>3. CASE j > k
    <3>1. j - 1 \in 1..Len(s) /\ j - 1 >= k /\ t[j] = s[j - 1]
      BY <1>0, <1>4, <2>3
    <3>2. CASE i < k
      <4>1. i \in 1..Len(s) /\ t[i] = s[i] /\ i < j - 1
        BY <1>0, <1>4, <2>3, <3>2
      <4>. QED
        BY <2>0, <3>1, <4>1
    <3>3. CASE i = k
      BY <1>3, <3>1, <3>3
    <3>4. CASE i > k
      <4>1. i - 1 \in 1..Len(s) /\ t[i] = s[i - 1] /\ i - 1 < j - 1
        BY <1>0, <1>2, <1>4, <1>5, <3>4
      <4>. QED
        BY <2>0, <3>1, <4>1
    <3>. QED
      BY <1>0, <1>2, <3>2, <3>3, <3>4
  <2>. QED
    BY <1>0, <1>2, <2>1, <2>2, <2>3
<1>6. \A j \in 1..Len(s) : \E i \in 1..Len(t) : t[i] = s[j]
  <2>. TAKE j \in 1..Len(s)
  <2>1. CASE j < k
    <3>1. j \in 1..Len(t) /\ t[j] = s[j]
      BY <1>0, <1>2, <2>1
    <3>. QED
      BY <3>1
  <2>2. CASE j >= k
    <3>1. j + 1 \in 1..Len(s) + 1 /\ ~(j + 1 < k) /\ j + 1 # k /\ (j + 1) - 1 = j
      BY <1>0, <2>2
    <3>2. t[j + 1] = s[j]
      BY <1>2, <3>1
    <3>. QED
      BY <1>2, <3>1, <3>2, Zenon
  <2>. QED
    BY <1>0, <2>1, <2>2
<1>7. \A j \in 1..Len(t) : t[j] = x \/ \E i \in 1..Len(s) : t[j] = s[i]
  BY <1>4
<1>8. Elements(t) = Elements(s) \cup {x}
  <2>1. \A y : y \in Elements(t) <=> \E i \in 1..Len(t) : y = t[i]
    BY <1>3, Places, Zenon
  <2>2. \A y : y \in Elements(s) <=> \E i \in 1..Len(s) : y = s[i]
    BY <1>0, Places, Zenon
  <2>3. \A y \in Elements(s) \cup {x} : y \in Elements(t)
    BY <1>3, <1>6, <2>1, <2>2
  <2>4. \A y \in Elements(t) : y \in Elements(s) \cup {x}
    BY <1>7, <2>1, <2>2
  <2>. QED
    BY <2>3, <2>4
<1>. QED
  BY <1>1, <1>2, <1>5, <1>8 DEF Paired

(* Unlinking keeps the pairs of a list.                                    *)
LEMMA UnlinkPairs ==
  ASSUME NEW S, NEW R, NEW s \in Seq(S), NEW k \in 1..Len(s), Paired(s, R),
         \A i \in 1..Len(s) : i # k => s[i] # s[k]
  PROVE  /\ Unlink(s, k) \in Seq(S) /\ Len(Unlink(s, k)) = Len(s) - 1
         /\ Paired(Unlink(s, k), R)
         /\ Elements(Unlink(s, k)) = Elements(s) \ {s[k]}
<1>0. Len(s) \in Nat /\ k \in Nat /\ DOMAIN s = 1..Len(s)
  BY Listed
<1>1. PICK t : t = Unlink(s, k)
  OBVIOUS
<1>2. /\ t \in Seq(S) /\ Len(t) = Len(s) - 1
      /\ \A j \in 1..Len(s) - 1 : t[j] = IF j < k THEN s[j] ELSE s[j + 1]
  BY <1>1, Unlinked, Zenon
<1>3. DOMAIN t = 1..Len(t)
  BY <1>2, Listed
<1>4. \A j \in 1..Len(t) : \/ j < k /\ j \in 1..Len(s) /\ t[j] = s[j]
                           \/ j >= k /\ j + 1 \in 1..Len(s) /\ t[j] = s[j + 1]
  BY <1>0, <1>2
<1>5. ASSUME NEW i \in 1..Len(t), NEW j \in 1..Len(t), i < j
      PROVE  <<t[i], t[j]>> \in R
  <2>0. \A a, b \in 1..Len(s) : a < b => <<s[a], s[b]>> \in R
    BY DEF Paired
  <2>1. CASE j < k
    <3>1. ~(i >= k) /\ ~(j >= k)
      BY <1>0, <1>2, <1>5, <2>1
    <3>2. i \in 1..Len(s) /\ t[i] = s[i] /\ j \in 1..Len(s) /\ t[j] = s[j]
      BY <1>4, <3>1
    <3>. QED
      BY <1>5, <2>0, <3>2
  <2>2. CASE j >= k
    <3>1. j + 1 \in 1..Len(s) /\ t[j] = s[j + 1]
      BY <1>0, <1>4, <2>2
    <3>2. CASE i < k
      <4>1. i \in 1..Len(s) /\ t[i] = s[i] /\ i < j + 1
        BY <1>0, <1>4, <2>2, <3>2
      <4>. QED
        BY <2>0, <3>1, <4>1
    <3>3. CASE i >= k
      <4>1. i + 1 \in 1..Len(s) /\ t[i] = s[i + 1] /\ i + 1 < j + 1
        BY <1>0, <1>2, <1>4, <1>5, <3>3
      <4>. QED
        BY <2>0, <3>1, <4>1
    <3>. QED
      BY <1>0, <1>2, <3>2, <3>3
  <2>. QED
    BY <1>0, <1>2, <2>1, <2>2
<1>6. \A j \in 1..Len(s) : j # k => \E i \in 1..Len(t) : t[i] = s[j]
  <2>. TAKE j \in 1..Len(s)
  <2>1. CASE j < k
    <3>1. j \in 1..Len(s) - 1
      BY <1>0, <2>1
    <3>2. t[j] = s[j]
      BY <1>2, <2>1, <3>1
    <3>. QED
      BY <1>2, <3>1, <3>2
  <2>2. CASE j > k
    <3>1. j - 1 \in 1..Len(s) - 1 /\ ~(j - 1 < k) /\ (j - 1) + 1 = j
      BY <1>0, <2>2
    <3>2. t[j - 1] = s[j]
      BY <1>2, <3>1
    <3>. QED
      BY <1>2, <3>1, <3>2
  <2>. QED
    BY <1>0, <2>1, <2>2
<1>7. \A j \in 1..Len(t) : \E i \in 1..Len(s) : i # k /\ t[j] = s[i]
  <2>. TAKE j \in 1..Len(t)
  <2>1. CASE j < k
    BY <1>4, <2>1
  <2>2. CASE j >= k
    <3>1. j + 1 \in 1..Len(s) /\ j + 1 # k /\ t[j] = s[j + 1]
      BY <1>0, <1>2, <1>4, <2>2
    <3>. QED
      BY <3>1
  <2>3. j < k \/ j >= k
    BY <1>0
  <2>. QED
    BY <2>1, <2>2, <2>3
<1>8. Elements(t) = Elements(s) \ {s[k]}
  <2>1. \A y : y \in Elements(t) <=> \E i \in 1..Len(t) : y = t[i]
    BY <1>3, Places, Zenon
  <2>2. \A y : y \in Elements(s) <=> \E i \in 1..Len(s) : y = s[i]
    BY <1>0, Places, Zenon
  <2>3. \A y \in Elements(s) : y # s[k] => y \in Elements(t)
    BY <1>6, <2>1, <2>2
  <2>4. \A y \in Elements(t) : y \in Elements(s) /\ y # s[k]
    BY <1>7, <2>1, <2>2
  <2>. QED
    BY <2>3, <2>4
<1>. QED
  BY <1>1, <1>2, <1>5, <1>8 DEF Paired

-----------------------------------------------------------------------------
Address == Nat
Item == [at : Address, size : Nat \ {0}, user : Users]
Behind == {p \in Item \X Item : End(p[1]) <= p[2].at}
Other == {p \in Address \X Address : p[1] # p[2]}

(* The two lists of the cache: items in the order of their addresses, and  *)
(* the same items in the order of their use.                               *)
Lists(its, l) ==
  /\ its \in Seq(Item) /\ l \in Seq(Address)
  /\ Paired(its, Behind) /\ Paired(l, Other)
  /\ Len(l) = Len(its)
  /\ Elements(l) = {y.at : y \in Elements(its)}

(* What the two relations say.                                             *)
LEMMA Relations ==
  /\ \A a, b \in Item : <<a, b>> \in Behind <=> End(a) <= b.at
  /\ \A a, b \in Address : <<a, b>> \in Other <=> a # b
<1>1. ASSUME NEW a \in Item, NEW b \in Item
      PROVE  <<a, b>> \in Behind <=> End(a) <= b.at
  BY DEF Behind
<1>2. ASSUME NEW a \in Address, NEW b \in Address
      PROVE  <<a, b>> \in Other <=> a # b
  BY DEF Other
<1>. QED
  BY <1>1, <1>2

(* Items that follow one another are at different addresses.               *)
LEMMA Different ==
  ASSUME NEW a \in Item, NEW b \in Item, <<a, b>> \in Behind \/ <<b, a>> \in Behind
  PROVE  a.at # b.at
<1>1. a.at \in Nat /\ b.at \in Nat /\ a.size \in Nat \ {0} /\ b.size \in Nat \ {0}
  BY DEF Item, Address
<1>2. a.at + a.size <= b.at \/ b.at + b.size <= a.at
  BY Relations DEF End
<1>. QED
  BY <1>1, <1>2

(* Cache_MakeLRU of an address that is not in the list.                    *)
LEMMA AddressMade ==
  ASSUME NEW l \in Seq(Address), Paired(l, Other), NEW a \in Address, a \notin Elements(l)
  PROVE  /\ Cache_MakeLRU(l, a) \in Seq(Address) /\ Paired(Cache_MakeLRU(l, a), Other)
         /\ Len(Cache_MakeLRU(l, a)) = Len(l) + 1
         /\ Elements(Cache_MakeLRU(l, a)) = Elements(l) \cup {a}
<1>0. DOMAIN l = 1..Len(l) /\ Len(l) \in Nat /\ 1 \in 1..Len(l) + 1
  BY Listed
<1>1. \A i \in 1..Len(l) : l[i] \in Address /\ l[i] # a
  <2>. TAKE i \in 1..Len(l)
  <2>1. l[i] \in Elements(l)
    BY <1>0, Places
  <2>2. l[i] \in Address
    BY OfKind
  <2>. QED
    BY <2>1, <2>2
<1>2. \A i \in 1..Len(l) : i < 1 => <<l[i], a>> \in Other
  BY <1>0
<1>3. \A i \in 1..Len(l) : i >= 1 => <<a, l[i]>> \in Other
  BY <1>1, Relations
<1>4. /\ Link(l, 1, a) \in Seq(Address) /\ Len(Link(l, 1, a)) = Len(l) + 1
      /\ Paired(Link(l, 1, a), Other)
      /\ Elements(Link(l, 1, a)) = Elements(l) \cup {a}
  BY <1>0, <1>2, <1>3, LinkPairs
<1>. QED
  BY <1>4, Zenon DEF Cache_MakeLRU

(* Cache_UnlinkLRU of an address in the list.                              *)
LEMMA AddressUnlinked ==
  ASSUME NEW l \in Seq(Address), Paired(l, Other), NEW a \in Elements(l)
  PROVE  /\ Cache_UnlinkLRU(l, a) \in Seq(Address) /\ Paired(Cache_UnlinkLRU(l, a), Other)
         /\ Len(Cache_UnlinkLRU(l, a)) = Len(l) - 1
         /\ Elements(Cache_UnlinkLRU(l, a)) = Elements(l) \ {a}
<1>0. DOMAIN l = 1..Len(l) /\ Len(l) \in Nat
  BY Listed
<1>1. PICK k : k = CHOOSE j \in DOMAIN l : l[j] = a
  OBVIOUS
<1>2. \E j \in 1..Len(l) : l[j] = a
  BY <1>0, Places
<1>3. k \in 1..Len(l) /\ l[k] = a
  BY <1>0, <1>1, <1>2
<1>4. ASSUME NEW i \in 1..Len(l), i # k
      PROVE  l[i] # l[k]
  <2>1. l[i] \in Address /\ l[k] \in Address
    BY <1>3, OfKind
  <2>2. i < k \/ k < i
    BY <1>0, <1>3, <1>4
  <2>3. <<l[i], l[k]>> \in Other \/ <<l[k], l[i]>> \in Other
    BY <1>3, <2>2 DEF Paired
  <2>. QED
    BY <2>1, <2>3, Relations
<1>5. /\ Unlink(l, k) \in Seq(Address) /\ Paired(Unlink(l, k), Other)
      /\ Len(Unlink(l, k)) = Len(l) - 1
      /\ Elements(Unlink(l, k)) = Elements(l) \ {l[k]}
  <2>1. \A i \in 1..Len(l) : i # k => l[i] # l[k]
    BY <1>4, Zenon
  <2>. QED
    BY <1>3, <2>1, UnlinkPairs
<1>. QED
  BY <1>1, <1>3, <1>5, Zenon DEF Cache_UnlinkLRU

(* An item of a list: its place, and that no other has its address.        *)
LEMMA ItemPlaces ==
  ASSUME NEW its, NEW l, Lists(its, l)
  PROVE  /\ Len(its) \in Nat /\ DOMAIN its = 1..Len(its)
         /\ \A y : y \in Elements(its) <=> \E i \in 1..Len(its) : y = its[i]
         /\ \A i \in 1..Len(its) : its[i] \in Item
         /\ \A i, j \in 1..Len(its) : i # j => its[i].at # its[j].at
<1>1. its \in Seq(Item) /\ Paired(its, Behind)
  BY DEF Lists
<1>2. Len(its) \in Nat /\ DOMAIN its = 1..Len(its)
  BY <1>1, Listed
<1>3. \A i \in 1..Len(its) : its[i] \in Item
  BY <1>1, OfKind
<1>4. ASSUME NEW i \in 1..Len(its), NEW j \in 1..Len(its), i # j
      PROVE  its[i].at # its[j].at
  <2>1. i < j \/ j < i
    BY <1>2, <1>4
  <2>2. <<its[i], its[j]>> \in Behind \/ <<its[j], its[i]>> \in Behind
    BY <1>1, <2>1 DEF Paired
  <2>. QED
    BY <1>3, <2>2, Different
<1>5. \A y : y \in Elements(its) <=> \E i \in 1..Len(its) : y = its[i]
  BY <1>2, Places, Zenon
<1>. QED
  BY <1>2, <1>3, <1>4, <1>5

(* Cache_TryAlloc links an item into both lists.                           *)
LEMMA ItemLinked ==
  ASSUME NEW its, NEW l, Lists(its, l), NEW x \in Item, NEW k \in 1..Len(its) + 1,
         \A i \in 1..Len(its) : i < k => <<its[i], x>> \in Behind,
         \A i \in 1..Len(its) : i >= k => <<x, its[i]>> \in Behind
  PROVE  /\ Lists(Link(its, k, x), Cache_MakeLRU(l, x.at))
         /\ Elements(Link(its, k, x)) = Elements(its) \cup {x}
         /\ \A y \in Elements(its) : y.at # x.at
<1>0. /\ its \in Seq(Item) /\ l \in Seq(Address)
      /\ Paired(its, Behind) /\ Paired(l, Other)
      /\ Len(l) = Len(its) /\ Elements(l) = {y.at : y \in Elements(its)}
  BY DEF Lists
<1>1. /\ Len(its) \in Nat /\ k \in Nat
      /\ \A y : y \in Elements(its) <=> \E i \in 1..Len(its) : y = its[i]
      /\ \A i \in 1..Len(its) : its[i] \in Item
  BY ItemPlaces
<1>2. \A i \in 1..Len(its) : its[i].at # x.at
  <2>. TAKE i \in 1..Len(its)
  <2>1. <<its[i], x>> \in Behind \/ <<x, its[i]>> \in Behind
    BY <1>1
  <2>. QED
    BY <1>1, <2>1, Different
<1>3. \A y \in Elements(its) : y.at # x.at
  BY <1>1, <1>2
<1>4. x.at \in Address /\ x.at \notin Elements(l)
  BY <1>0, <1>3 DEF Item
<1>5. /\ Link(its, k, x) \in Seq(Item) /\ Len(Link(its, k, x)) = Len(its) + 1
      /\ Paired(Link(its, k, x), Behind)
      /\ Elements(Link(its, k, x)) = Elements(its) \cup {x}
  BY <1>0, LinkPairs
<1>6. /\ Cache_MakeLRU(l, x.at) \in Seq(Address) /\ Paired(Cache_MakeLRU(l, x.at), Other)
      /\ Len(Cache_MakeLRU(l, x.at)) = Len(l) + 1
      /\ Elements(Cache_MakeLRU(l, x.at)) = Elements(l) \cup {x.at}
  BY <1>0, <1>4, AddressMade
<1>7. Elements(l) \cup {x.at} = {y.at : y \in Elements(its) \cup {x}}
  BY <1>0
<1>8. Lists(Link(its, k, x), Cache_MakeLRU(l, x.at))
  BY <1>0, <1>5, <1>6, <1>7, Zenon DEF Lists
<1>. QED
  BY <1>3, <1>5, <1>8

(* Cache_Free takes an item out of both lists.                             *)
LEMMA ItemUnlinked ==
  ASSUME NEW its, NEW l, Lists(its, l), NEW c \in Elements(its)
  PROVE  /\ Lists(WithoutItem(its, c.at), Cache_UnlinkLRU(l, c.at))
         /\ Elements(WithoutItem(its, c.at)) = Elements(its) \ {c}
<1>0. /\ its \in Seq(Item) /\ l \in Seq(Address)
      /\ Paired(its, Behind) /\ Paired(l, Other)
      /\ Len(l) = Len(its) /\ Elements(l) = {y.at : y \in Elements(its)}
  BY DEF Lists
<1>1. /\ Len(its) \in Nat /\ DOMAIN its = 1..Len(its)
      /\ \A y : y \in Elements(its) <=> \E i \in 1..Len(its) : y = its[i]
      /\ \A i, j \in 1..Len(its) : i # j => its[i].at # its[j].at
  BY ItemPlaces
<1>2. PICK k : k = CHOOSE j \in DOMAIN its : its[j].at = c.at
  OBVIOUS
<1>3. k \in 1..Len(its) /\ its[k].at = c.at
  <2>1. \E j \in 1..Len(its) : its[j].at = c.at
    BY <1>1
  <2>. QED
    BY <1>1, <1>2, <2>1
<1>4. its[k] = c
  BY <1>1, <1>3
<1>5. /\ Unlink(its, k) \in Seq(Item) /\ Len(Unlink(its, k)) = Len(its) - 1
      /\ Paired(Unlink(its, k), Behind)
      /\ Elements(Unlink(its, k)) = Elements(its) \ {its[k]}
  <2>1. \A i \in 1..Len(its) : i # k => its[i] # its[k]
    BY <1>1, <1>3
  <2>. QED
    BY <1>0, <1>3, <2>1, UnlinkPairs
<1>6. WithoutItem(its, c.at) = Unlink(its, k)
  BY <1>2, Zenon DEF WithoutItem
<1>7. c.at \in Elements(l)
  BY <1>0
<1>8. /\ Cache_UnlinkLRU(l, c.at) \in Seq(Address) /\ Paired(Cache_UnlinkLRU(l, c.at), Other)
      /\ Len(Cache_UnlinkLRU(l, c.at)) = Len(l) - 1
      /\ Elements(Cache_UnlinkLRU(l, c.at)) = Elements(l) \ {c.at}
  BY <1>0, <1>7, AddressUnlinked
<1>9. \A y \in Elements(its) : y # c => y.at # c.at
  BY <1>1, <1>4, <1>3
<1>10. Elements(l) \ {c.at} = {y.at : y \in Elements(its) \ {c}}
  BY <1>0, <1>9
<1>. QED
  BY <1>0, <1>4, <1>5, <1>6, <1>8, <1>10, Zenon DEF Lists

(* Cache_Check brings an item to the front of the list of use.             *)
LEMMA ItemUsed ==
  ASSUME NEW its, NEW l, Lists(its, l), NEW a \in Elements(l)
  PROVE  Lists(its, Cache_MakeLRU(Cache_UnlinkLRU(l, a), a))
<1>0. /\ its \in Seq(Item) /\ l \in Seq(Address)
      /\ Paired(its, Behind) /\ Paired(l, Other)
      /\ Len(l) = Len(its) /\ Elements(l) = {y.at : y \in Elements(its)}
  BY DEF Lists
<1>1. a \in Address /\ Len(l) \in Nat
  <2>1. DOMAIN l = 1..Len(l) /\ Len(l) \in Nat
    BY <1>0, Listed
  <2>2. \E i \in 1..Len(l) : a = l[i]
    BY <2>1, Places
  <2>. QED
    BY <1>0, <2>1, <2>2, OfKind
<1>2. PICK m : m = Cache_UnlinkLRU(l, a)
  OBVIOUS
<1>3. /\ m \in Seq(Address) /\ Paired(m, Other) /\ Len(m) = Len(l) - 1
      /\ Elements(m) = Elements(l) \ {a}
  BY <1>0, <1>2, AddressUnlinked
<1>4. a \notin Elements(m)
  BY <1>3
<1>5. /\ Cache_MakeLRU(m, a) \in Seq(Address) /\ Paired(Cache_MakeLRU(m, a), Other)
      /\ Len(Cache_MakeLRU(m, a)) = Len(m) + 1
      /\ Elements(Cache_MakeLRU(m, a)) = Elements(m) \cup {a}
  BY <1>1, <1>3, <1>4, AddressMade
<1>6. Elements(m) \cup {a} = Elements(l) /\ Len(m) + 1 = Len(l)
  BY <1>1, <1>3
<1>. QED
  BY <1>0, <1>2, <1>5, <1>6, Zenon DEF Lists

-----------------------------------------------------------------------------
(* The pointers of the users, and the items they own.                      *)
Owned(E, d) ==
  /\ d \in [Users -> Address \cup {NULL}]
  /\ \A y \in E : d[y.user] = y.at
  /\ \A u \in Users : d[u] # NULL => \E y \in E : y.user = u

(* What is clear of the low hunk, and of the high one.                     *)
Above(E) == \A y \in E : hunk_low_used <= y.at
Below(E) == \A y \in E : End(y) <= Top

(* A user without an item gets one.                                        *)
LEMMA OwnerAdds ==
  ASSUME NEW E, E \subseteq Item, NEW d, Owned(E, d), NEW x \in Item, d[x.user] = NULL
  PROVE  Owned(E \cup {x}, [d EXCEPT ![x.user] = x.at])
<1>0. x.user \in Users /\ x.at \in Address /\ NULL \notin Address
  BY DEF Item, Address, NULL
<1>1. /\ d \in [Users -> Address \cup {NULL}]
      /\ \A y \in E : d[y.user] = y.at
      /\ \A u \in Users : d[u] # NULL => \E y \in E : y.user = u
  BY DEF Owned
<1>2. PICK e : e = [d EXCEPT ![x.user] = x.at]
  BY Zenon
<1>3. /\ e \in [Users -> Address \cup {NULL}]
      /\ \A u \in Users : e[u] = IF u = x.user THEN x.at ELSE d[u]
  BY <1>0, <1>1, <1>2
<1>4. \A y \in E : y.user \in Users /\ y.user # x.user
  BY <1>0, <1>1 DEF Item
<1>5. \A y \in E \cup {x} : e[y.user] = y.at
  BY <1>0, <1>1, <1>3, <1>4
<1>6. \A u \in Users : e[u] # NULL => \E y \in E \cup {x} : y.user = u
  BY <1>1, <1>3
<1>. QED
  BY <1>2, <1>3, <1>5, <1>6 DEF Owned

(* A user's item goes.                                                     *)
LEMMA OwnerFrees ==
  ASSUME NEW E, E \subseteq Item, NEW d, Owned(E, d), NEW c \in E,
         \A y \in E : y # c => y.at # c.at
  PROVE  Owned(E \ {c}, [d EXCEPT ![c.user] = NULL])
<1>0. \A y \in E : y.user \in Users
  BY DEF Item
<1>1. /\ d \in [Users -> Address \cup {NULL}]
      /\ \A y \in E : d[y.user] = y.at
      /\ \A u \in Users : d[u] # NULL => \E y \in E : y.user = u
  BY DEF Owned
<1>2. PICK e : e = [d EXCEPT ![c.user] = NULL]
  BY Zenon
<1>3. /\ e \in [Users -> Address \cup {NULL}]
      /\ \A u \in Users : e[u] = IF u = c.user THEN NULL ELSE d[u]
  BY <1>0, <1>1, <1>2
<1>4. \A y \in E \ {c} : y.user # c.user
  BY <1>1
<1>5. \A y \in E \ {c} : e[y.user] = y.at
  BY <1>0, <1>1, <1>3, <1>4
<1>6. \A u \in Users : e[u] # NULL => \E y \in E \ {c} : y.user = u
  BY <1>1, <1>3
<1>. QED
  BY <1>2, <1>3, <1>5, <1>6 DEF Owned

(* A user's item is replaced by its copy.                                  *)
LEMMA OwnerMoves ==
  ASSUME NEW E, E \subseteq Item, NEW d, Owned(E, d), NEW c \in E,
         \A y \in E : y # c => y.at # c.at,
         NEW x \in Item, x.user = c.user, x # c
  PROVE  Owned((E \cup {x}) \ {c}, [d EXCEPT ![c.user] = x.at])
<1>0. (\A y \in E : y.user \in Users) /\ x.at \in Address
  BY DEF Item
<1>1. /\ d \in [Users -> Address \cup {NULL}]
      /\ \A y \in E : d[y.user] = y.at
      /\ \A u \in Users : d[u] # NULL => \E y \in E : y.user = u
  BY DEF Owned
<1>2. PICK e : e = [d EXCEPT ![c.user] = x.at]
  BY Zenon
<1>3. /\ e \in [Users -> Address \cup {NULL}]
      /\ \A u \in Users : e[u] = IF u = c.user THEN x.at ELSE d[u]
  BY <1>0, <1>1, <1>2
<1>4. \A y \in E \ {c} : y.user # c.user
  BY <1>1
<1>5. \A y \in (E \cup {x}) \ {c} : e[y.user] = y.at
  BY <1>0, <1>1, <1>3, <1>4
<1>6. \A u \in Users : e[u] # NULL => \E y \in (E \cup {x}) \ {c} : y.user = u
  BY <1>1, <1>3
<1>. QED
  BY <1>2, <1>3, <1>5, <1>6 DEF Owned

(* The items of the list are items, and no two are at the same address.    *)
LEMMA ItemsApart ==
  ASSUME NEW its, NEW l, Lists(its, l)
  PROVE  /\ Elements(its) \subseteq Item
         /\ \A y, z \in Elements(its) : y # z => y.at # z.at
<1>1. /\ \A y : y \in Elements(its) <=> \E i \in 1..Len(its) : y = its[i]
      /\ \A i \in 1..Len(its) : its[i] \in Item
      /\ \A i, j \in 1..Len(its) : i # j => its[i].at # its[j].at
  BY ItemPlaces
<1>2. ASSUME NEW y \in Elements(its), NEW z \in Elements(its), y # z
      PROVE  y.at # z.at
  BY <1>1, <1>2
<1>. QED
  BY <1>1, <1>2

(* An item put in a gap that is large enough overlaps with no other.       *)
LEMMA GapHolds ==
  ASSUME Lists(items, lru), hunk_low_used \in Nat, hunk_high_used \in Nat,
         NEW size \in Nat \ {0}, NEW nobottom, NEW k \in Gaps(size, nobottom),
         NEW u \in Users, NEW x, x = [at |-> GapStart(k), size |-> size, user |-> u]
  PROVE  /\ x \in Item /\ k \in 1..Len(items) + 1
         /\ \A i \in 1..Len(items) : i < k => <<items[i], x>> \in Behind
         /\ \A i \in 1..Len(items) : i >= k => <<x, items[i]>> \in Behind
         /\ Above(Elements(items)) => hunk_low_used <= x.at
         /\ Below(Elements(items)) => End(x) <= Top
<1>0. /\ Len(items) \in Nat
      /\ \A y : y \in Elements(items) <=> \E i \in 1..Len(items) : y = items[i]
      /\ \A i \in 1..Len(items) : items[i] \in Item
  BY ItemPlaces
<1>1. k \in 1..Len(items) + 1 /\ size <= GapEnd(k) - GapStart(k)
  BY DEF Gaps
<1>2. \A i \in 1..Len(items) : items[i].at \in Nat /\ items[i].size \in Nat /\ End(items[i]) \in Nat
  BY <1>0 DEF Item, End, Address
<1>3. \A i, j \in 1..Len(items) : i < j => End(items[i]) <= items[j].at
  BY <1>0, Relations, Zenon DEF Lists, Paired
<1>4. x.at \in Nat /\ GapStart(k) \in Nat
  <2>1. k # 1 => k - 1 \in 1..Len(items)
    BY <1>0, <1>1
  <2>. QED
    BY <1>2, <2>1 DEF GapStart
<1>5. x \in Item /\ x.at = GapStart(k) /\ x.size = size /\ Top \in Int
  BY <1>4, HunkAssumption DEF Item, Address, Top
<1>6. End(x) = GapStart(k) + size /\ GapEnd(k) \in Int
  <2>1. k # Len(items) + 1 => k \in 1..Len(items)
    BY <1>0, <1>1
  <2>. QED
    BY <1>2, <1>5, <2>1 DEF End, GapEnd
<1>7. ASSUME NEW i \in 1..Len(items), i < k
      PROVE  <<items[i], x>> \in Behind
  <2>1. k # 1 /\ k - 1 \in 1..Len(items) /\ (i < k - 1 \/ i = k - 1)
    BY <1>0, <1>1, <1>7
  <2>2. GapStart(k) = items[k - 1].at + items[k - 1].size
    BY <2>1 DEF GapStart, End
  <2>3. items[k - 1].at <= GapStart(k)
    BY <1>2, <2>1, <2>2
  <2>4. End(items[i]) <= GapStart(k)
    <3>1. CASE i < k - 1
      <4>1. End(items[i]) <= items[k - 1].at
        BY <1>3, <2>1, <3>1
      <4>. QED
        BY <1>2, <1>4, <2>1, <2>3, <4>1
    <3>2. CASE i = k - 1
      BY <1>2, <2>2, <3>2 DEF End
    <3>. QED
      BY <2>1, <3>1, <3>2
  <2>. QED
    BY <1>0, <1>5, <2>4, Relations
<1>8. ASSUME NEW i \in 1..Len(items), i >= k
      PROVE  <<x, items[i]>> \in Behind
  <2>1. k # Len(items) + 1 /\ k \in 1..Len(items) /\ (k < i \/ i = k)
    BY <1>0, <1>1, <1>8
  <2>2. End(x) <= items[k].at
    BY <1>1, <1>2, <1>4, <1>6, <2>1 DEF GapEnd
  <2>3. items[k].at <= items[i].at
    <3>1. CASE k < i
      <4>1. End(items[k]) <= items[i].at
        BY <1>3, <2>1, <3>1
      <4>2. items[k].at <= End(items[k])
        BY <1>2, <2>1 DEF End
      <4>. QED
        BY <1>2, <2>1, <4>1, <4>2
    <3>2. CASE i = k
      BY <1>2, <3>2
    <3>. QED
      BY <2>1, <3>1, <3>2
  <2>4. End(x) <= items[i].at
    BY <1>2, <1>4, <1>6, <2>1, <2>2, <2>3
  <2>. QED
    BY <1>0, <1>5, <2>4, Relations
<1>9. ASSUME Above(Elements(items))
      PROVE  hunk_low_used <= x.at
  <2>1. CASE k = 1
    BY <2>1 DEF GapStart
  <2>2. CASE k # 1
    <3>1. k - 1 \in 1..Len(items)
      BY <1>0, <1>1, <2>2
    <3>2. hunk_low_used <= items[k - 1].at
      BY <1>0, <1>9, <3>1 DEF Above
    <3>. QED
      BY <1>2, <2>2, <3>1, <3>2 DEF GapStart, End
  <2>. QED
    BY <2>1, <2>2
<1>10. ASSUME Below(Elements(items))
       PROVE  End(x) <= Top
  <2>1. CASE k = Len(items) + 1
    BY <1>1, <1>4, <1>5, <1>6, <2>1 DEF GapEnd
  <2>2. CASE k # Len(items) + 1
    <3>1. k \in 1..Len(items)
      BY <1>0, <1>1, <2>2
    <3>2. items[k].at + items[k].size <= Top
      BY <1>0, <1>10, <3>1 DEF Below, End
    <3>. QED
      BY <1>1, <1>2, <1>4, <1>5, <1>6, <2>2, <3>1, <3>2 DEF GapEnd
  <2>. QED
    BY <2>1, <2>2
<1>. QED
  BY <1>1, <1>5, <1>7, <1>8, <1>9, <1>10

-----------------------------------------------------------------------------
(* The first of the gaps is one.                                           *)
LEMMA PlaceIsGap ==
  ASSUME Len(items) \in Nat, NEW size, NEW nobottom, Gaps(size, nobottom) # {}
  PROVE  Place(size, nobottom) \in Gaps(size, nobottom)
<1>1. Gaps(size, nobottom) \subseteq Nat
  BY DEF Gaps
<1>. QED
  BY <1>1, Least, Zenon DEF Place

(* The lists and the pointers to them.                                     *)
Cached == Lists(items, lru) /\ Owned(Elements(items), data)

(* Cache_Free keeps them.                                                  *)
LEMMA Unlinks ==
  ASSUME Cached, NEW u \in Users, data[u] # NULL, Cache_Unlink(u)
  PROVE  /\ Cached' /\ Elements(items') \subseteq Elements(items)
         /\ \A v \in Users : data[v] = NULL => data'[v] = NULL
<1>0. Lists(items, lru) /\ Owned(Elements(items), data)
  BY DEF Cached
<1>1. PICK c \in Elements(items) : c.user = u
  BY <1>0 DEF Owned
<1>2. data[u] = c.at /\ data \in [Users -> Address \cup {NULL}]
  BY <1>0, <1>1 DEF Owned
<1>3. /\ items' = WithoutItem(items, c.at) /\ lru' = Cache_UnlinkLRU(lru, c.at)
      /\ data' = [data EXCEPT ![c.user] = NULL]
  BY <1>1, <1>2 DEF Cache_Unlink
<1>4. Lists(items', lru') /\ Elements(items') = Elements(items) \ {c}
  BY <1>0, <1>3, ItemUnlinked
<1>5. Owned(Elements(items) \ {c}, data')
  BY <1>0, <1>3, ItemsApart, OwnerFrees, Zenon
<1>6. \A v \in Users : data[v] = NULL => data'[v] = NULL
  BY <1>1, <1>2, <1>3
<1>. QED
  BY <1>4, <1>5, <1>6 DEF Cached

(* So does Cache_TryAlloc, and puts nothing where a hunk is.               *)
LEMMA Placed ==
  ASSUME Cached, hunk_low_used \in Nat, hunk_high_used \in Nat,
         NEW size \in Nat \ {0}, NEW u \in Users, data[u] = NULL,
         NEW k \in Gaps(size, FALSE),
         items' = Link(items, k, [at |-> GapStart(k), size |-> size, user |-> u]),
         lru' = Cache_MakeLRU(lru, GapStart(k)),
         data' = [data EXCEPT ![u] = GapStart(k)]
  PROVE  /\ Cached'
         /\ Above(Elements(items)) => Above(Elements(items'))
         /\ Below(Elements(items)) => Below(Elements(items'))
<1>0. Lists(items, lru) /\ Owned(Elements(items), data)
  BY DEF Cached
<1>1. PICK x : x = [at |-> GapStart(k), size |-> size, user |-> u]
  OBVIOUS
<1>2. x.at = GapStart(k) /\ x.user = u
  BY <1>1
<1>3. /\ x \in Item /\ k \in 1..Len(items) + 1
      /\ \A i \in 1..Len(items) : i < k => <<items[i], x>> \in Behind
      /\ \A i \in 1..Len(items) : i >= k => <<x, items[i]>> \in Behind
      /\ Above(Elements(items)) => hunk_low_used <= x.at
      /\ Below(Elements(items)) => End(x) <= Top
  BY <1>0, <1>1, GapHolds, Zenon
<1>4. /\ items' = Link(items, k, x) /\ lru' = Cache_MakeLRU(lru, x.at)
      /\ data' = [data EXCEPT ![x.user] = x.at]
  BY <1>1, <1>2
<1>5. Lists(items', lru') /\ Elements(items') = Elements(items) \cup {x}
  <2>1. /\ Lists(Link(items, k, x), Cache_MakeLRU(lru, x.at))
        /\ Elements(Link(items, k, x)) = Elements(items) \cup {x}
    BY <1>0, <1>3, ItemLinked
  <2>. QED
    BY <1>4, <2>1, Zenon
<1>6. Owned(Elements(items) \cup {x}, data')
  <2>1. Elements(items) \subseteq Item
    BY <1>0, ItemsApart
  <2>2. data[x.user] = NULL
    BY <1>2
  <2>3. Owned(Elements(items) \cup {x}, [data EXCEPT ![x.user] = x.at])
    BY <1>0, <1>3, <2>1, <2>2, OwnerAdds, Zenon
  <2>. QED
    BY <1>4, <2>3, Zenon
<1>7. /\ Above(Elements(items)) => Above(Elements(items) \cup {x})
      /\ Below(Elements(items)) => Below(Elements(items) \cup {x})
  BY <1>3 DEF Above, Below
<1>. QED
  BY <1>5, <1>6, <1>7 DEF Cached

(* So does Cache_Move.                                                     *)
LEMMA Moves ==
  ASSUME Cached, hunk_low_used \in Nat, hunk_high_used \in Nat,
         NEW c \in Elements(items), Cache_Move(c)
  PROVE  /\ Cached'
         /\ Above(Elements(items)) => Above(Elements(items'))
         /\ Below(Elements(items)) => Below(Elements(items'))
<1>0. Lists(items, lru) /\ Owned(Elements(items), data)
  BY DEF Cached
<1>1. /\ c \in Item /\ c.size \in Nat \ {0} /\ c.user \in Users /\ c.at \in Address
      /\ Len(items) \in Nat
      /\ \A y \in Elements(items) : y # c => y.at # c.at
  BY <1>0, ItemsApart, ItemPlaces DEF Item
<1>2. CASE Gaps(c.size, TRUE) # {}
  <2>1. PICK k : k = Place(c.size, TRUE)
    BY Zenon
  <2>2. k \in Gaps(c.size, TRUE)
    BY <1>1, <1>2, <2>1, PlaceIsGap, Zenon
  <2>3. PICK x : x = [at |-> GapStart(k), size |-> c.size, user |-> c.user]
    BY Zenon
  <2>4. x.at = GapStart(k) /\ x.user = c.user /\ x = [c EXCEPT !.at = GapStart(k)]
    BY <1>1, <2>3 DEF Item
  <2>5. /\ items' = WithoutItem(Link(items, k, x), c.at)
        /\ lru' = Cache_UnlinkLRU(Cache_MakeLRU(lru, x.at), c.at)
        /\ data' = [data EXCEPT ![c.user] = x.at]
    BY <1>2, <2>1, <2>4, Zenon DEF Cache_Move
  <2>6. /\ x \in Item /\ k \in 1..Len(items) + 1
        /\ \A i \in 1..Len(items) : i < k => <<items[i], x>> \in Behind
        /\ \A i \in 1..Len(items) : i >= k => <<x, items[i]>> \in Behind
        /\ Above(Elements(items)) => hunk_low_used <= x.at
        /\ Below(Elements(items)) => End(x) <= Top
    BY <1>0, <1>1, <2>2, <2>3, GapHolds, Zenon
  <2>7. PICK its, l : its = Link(items, k, x) /\ l = Cache_MakeLRU(lru, x.at)
    OBVIOUS
  <2>8. /\ Lists(its, l) /\ Elements(its) = Elements(items) \cup {x}
        /\ \A y \in Elements(items) : y.at # x.at
    BY <1>0, <2>6, <2>7, ItemLinked
  <2>9. c \in Elements(its) /\ x # c
    BY <2>8
  <2>10. Lists(items', lru') /\ Elements(items') = (Elements(items) \cup {x}) \ {c}
    BY <2>5, <2>7, <2>8, <2>9, ItemUnlinked
  <2>11. Elements(items) \subseteq Item
    BY <1>0, ItemsApart
  <2>12. Owned((Elements(items) \cup {x}) \ {c}, [data EXCEPT ![c.user] = x.at])
    BY <1>0, <1>1, <2>4, <2>6, <2>9, <2>11, OwnerMoves, Zenon
  <2>13. /\ Above(Elements(items)) => Above((Elements(items) \cup {x}) \ {c})
         /\ Below(Elements(items)) => Below((Elements(items) \cup {x}) \ {c})
    BY <2>6 DEF Above, Below
  <2>. QED
    BY <2>5, <2>10, <2>12, <2>13 DEF Cached
<1>3. CASE Gaps(c.size, TRUE) = {}
  <2>1. Cache_Unlink(c.user)
    BY <1>3, Zenon DEF Cache_Move
  <2>2. data[c.user] # NULL
    BY <1>0, <1>1 DEF Owned, Address, NULL
  <2>3. Cached' /\ Elements(items') \subseteq Elements(items)
    BY <1>1, <2>1, <2>2, Unlinks
  <2>. QED
    BY <2>3 DEF Above, Below
<1>. QED
  BY <1>2, <1>3, Zenon

-----------------------------------------------------------------------------
(* The inductive invariant.  Every item is clear of a hunk except of the   *)
(* one that has just grown and is being cleared, and the user that waits   *)
(* for a place in the cache has none yet.                                  *)
CallSound ==
  /\ hcall \in [at : {"idle", "low", "high", "cache", "exit"},
                user : Users \cup {NULL}, size : Nat, prev : Int]
  /\ hcall.at = "cache" =>
       hcall.user \in Users /\ hcall.size # 0 /\ data[hcall.user] = NULL

HunkInv ==
  /\ hunk_low_used \in Nat /\ hunk_high_used \in Nat
  /\ hunk_tempmark \in Nat /\ hunk_tempactive \in BOOLEAN
  /\ marks \subseteq Nat /\ \A m \in marks : m <= hunk_low_used
  /\ CallSound
  /\ Cached
  /\ hcall.at # "low" => Above(Elements(items))
  /\ hcall.at # "high" => Below(Elements(items))

(* A call that is not one of the cache's is sound.                         *)
LEMMA CallsSound ==
  /\ hcall' = NoCall => CallSound'
  /\ hcall' = [NoCall EXCEPT !.at = "low"] => CallSound' /\ hcall'.at = "low"
  /\ hcall' = [NoCall EXCEPT !.at = "high"] => CallSound' /\ hcall'.at = "high"
BY DEF CallSound, NoCall, NULL

(* A step of the cache leaves the hunks alone.                             *)
LEMMA CacheSteps ==
  ASSUME HunkInv,
         UNCHANGED <<hunk_low_used, marks, hunk_high_used, hunk_tempactive,
                     hunk_tempmark>>,
         CallSound', Cached',
         hcall'.at # "low" => Above(Elements(items')),
         hcall'.at # "high" => Below(Elements(items'))
  PROVE  HunkInv'
BY DEF HunkInv, Above, Below, Top

(* A cache with nothing in it.                                             *)
LEMMA EmptyCache ==
  ASSUME NEW its, NEW l, NEW d, its = <<>>, l = <<>>, d = [u \in Users |-> NULL]
  PROVE  Lists(its, l) /\ Owned(Elements(its), d) /\ Elements(its) = {}
<1>1. Elements(its) = {} /\ Elements(l) = {}
  BY DEF Elements
<1>2. Paired(its, Behind) /\ Paired(l, Other)
  BY DEF Paired
<1>3. its \in Seq(Item) /\ l \in Seq(Address) /\ Len(its) = Len(l)
  OBVIOUS
<1>4. {y.at : y \in Elements(its)} = {}
  BY <1>1
<1>5. Owned(Elements(its), d)
  BY <1>1 DEF Owned
<1>. QED
  BY <1>1, <1>2, <1>3, <1>4, <1>5 DEF Lists

(* Memory_Init.                                                            *)
LEMMA InitInv == Memory_Init => HunkInv
<1>. SUFFICES ASSUME Memory_Init PROVE HunkInv
  OBVIOUS
<1>1. /\ hunk_low_used = 1 /\ marks = {}
      /\ hunk_high_used = 0 /\ hunk_tempactive = FALSE /\ hunk_tempmark = 0
      /\ items = <<>> /\ lru = <<>> /\ data = [u \in Users |-> NULL]
      /\ hcall = NoCall
  BY DEF Memory_Init
<1>2. CallSound /\ hcall.at = "idle"
  BY <1>1 DEF CallSound, NoCall, NULL
<1>3. Lists(items, lru) /\ Owned(Elements(items), data) /\ Elements(items) = {}
  BY <1>1, EmptyCache
<1>. QED
  BY <1>1, <1>2, <1>3, Zenon DEF HunkInv, Cached, Above, Below

(* Hunk_AllocName.                                                         *)
LEMMA AllocStep ==
  ASSUME HunkInv, NEW size \in HunkSizes, Hunk_AllocName(size)
  PROVE  HunkInv'
<1>0. size \in Nat /\ hunk_low_used \in Nat
  BY HunkAssumption DEF HunkInv
<1>1. CallSound' /\ hcall'.at = "low"
  BY CallsSound DEF Hunk_AllocName
<1>2. Cached'
  BY DEF HunkInv, Cached, Hunk_AllocName
<1>3. Below(Elements(items))'
  BY DEF HunkInv, Hunk_AllocName, Below, Top
<1>4. hunk_low_used' \in Nat /\ marks' \subseteq Nat /\ \A m \in marks' : m <= hunk_low_used'
  BY <1>0 DEF HunkInv, Hunk_AllocName
<1>. QED
  BY <1>1, <1>2, <1>3, <1>4 DEF HunkInv, Hunk_AllocName

(* Hunk_TempAlloc.                                                         *)
LEMMA TempStep ==
  ASSUME HunkInv, NEW size \in HunkSizes, Hunk_TempAlloc(size)
  PROVE  HunkInv'
<1>0. size \in Nat /\ Hunk_HighMark \in Nat
  BY HunkAssumption DEF HunkInv, Hunk_HighMark
<1>1. CallSound' /\ hcall'.at = "high"
  BY CallsSound DEF Hunk_TempAlloc
<1>2. Cached'
  BY DEF HunkInv, Cached, Hunk_TempAlloc
<1>3. Above(Elements(items))'
  BY DEF HunkInv, Hunk_TempAlloc, Above
<1>4. hunk_high_used' \in Nat /\ hunk_tempmark' \in Nat /\ hunk_tempactive' \in BOOLEAN
  BY <1>0 DEF Hunk_TempAlloc
<1>. QED
  BY <1>1, <1>2, <1>3, <1>4 DEF HunkInv, Hunk_TempAlloc

(* Hunk_FreeToLowMark.                                                     *)
LEMMA FreeToMarkStep ==
  ASSUME HunkInv, NEW mark \in marks, Hunk_FreeToLowMark(mark)
  PROVE  HunkInv'
<1>0. mark \in Nat /\ mark <= hunk_low_used /\ hunk_low_used \in Nat
  BY DEF HunkInv
<1>1. Cached' /\ CallSound'
  BY DEF HunkInv, Cached, CallSound, Hunk_FreeToLowMark
<1>2. Above(Elements(items))'
  <2>1. \A y \in Elements(items) : y.at \in Nat
    BY ItemsApart DEF HunkInv, Cached, Item, Address
  <2>. QED
    BY <1>0, <2>1 DEF HunkInv, Hunk_FreeToLowMark, Above
<1>3. Below(Elements(items))'
  BY DEF HunkInv, Hunk_FreeToLowMark, Below, Top
<1>4. hunk_low_used' \in Nat /\ marks' \subseteq Nat /\ \A m \in marks' : m <= hunk_low_used'
  <2>1. hunk_low_used' = mark /\ marks' = {m \in marks : m < mark} /\ marks \subseteq Nat
    BY DEF HunkInv, Hunk_FreeToLowMark
  <2>2. \A m \in marks' : m \in Nat /\ m < mark
    BY <2>1
  <2>3. \A m \in marks' : m <= mark
    BY <1>0, <2>2
  <2>4. marks' \subseteq Nat /\ hunk_low_used' = mark
    BY <2>1, <2>2, Zenon
  <2>. QED
    BY <1>0, <2>3, <2>4
<1>. QED
  BY <1>1, <1>2, <1>3, <1>4 DEF HunkInv, Hunk_FreeToLowMark

(* Cache_FreeLow: an item that ends the loop has all others behind it.     *)
LEMMA FreeLowStep ==
  ASSUME HunkInv, Cache_FreeLow
  PROVE  HunkInv'
<1>0. /\ Cached /\ Lists(items, lru) /\ hcall.at = "low" /\ CallSound
      /\ hunk_low_used \in Nat /\ hunk_high_used \in Nat /\ Below(Elements(items))
      /\ UNCHANGED <<hunk_low_used, marks, hunk_high_used, hunk_tempactive,
                     hunk_tempmark>>
  BY DEF HunkInv, Cached, Cache_FreeLow
<1>1. /\ Len(items) \in Nat
      /\ \A y : y \in Elements(items) <=> \E i \in 1..Len(items) : y = items[i]
      /\ \A i \in 1..Len(items) : items[i] \in Item
  BY <1>0, ItemPlaces
<1>2. CASE items = <<>> \/ hunk_low_used <= items[1].at
  <2>1. hcall' = NoCall /\ UNCHANGED <<items, lru, data>>
    BY <1>2 DEF Cache_FreeLow
  <2>2. ASSUME NEW i \in 1..Len(items)
        PROVE  hunk_low_used <= items[i].at
    <3>1. items # <<>> /\ 1 \in 1..Len(items) /\ hunk_low_used <= items[1].at
      BY <1>1, <1>2
    <3>2. CASE i = 1
      BY <3>1, <3>2
    <3>3. CASE i # 1
      <4>1. 1 < i
        BY <1>1, <3>3
      <4>2. End(items[1]) <= items[i].at
        BY <1>0, <1>1, <3>1, <4>1, Relations, Zenon DEF Lists, Paired
      <4>3. items[1].at \in Nat /\ items[1].size \in Nat /\ items[i].at \in Nat
        BY <1>1, <3>1 DEF Item, Address
      <4>. QED
        BY <1>0, <3>1, <4>2, <4>3 DEF End
    <3>. QED
      BY <3>2, <3>3
  <2>3. Above(Elements(items))
    BY <1>1, <2>2 DEF Above
  <2>4. CallSound' /\ Cached'
    BY <1>0, <2>1, CallsSound DEF Cached
  <2>. QED
    BY <1>0, <2>1, <2>3, <2>4, CacheSteps
<1>3. CASE ~(items = <<>> \/ hunk_low_used <= items[1].at)
  <2>1. Cache_Move(items[1]) /\ UNCHANGED hcall
    BY <1>3 DEF Cache_FreeLow
  <2>2. items[1] \in Elements(items)
    <3>1. items \in Seq(Item) /\ items # <<>>
      BY <1>0, <1>3 DEF Lists
    <3>2. 1 \in 1..Len(items)
      BY <1>1, <3>1, Listed
    <3>. QED
      BY <1>1, <3>2
  <2>3. Cached' /\ Below(Elements(items'))
    BY <1>0, <2>1, <2>2, Moves
  <2>4. CallSound'
    BY <1>0, <2>1 DEF CallSound
  <2>. QED
    BY <1>0, <2>1, <2>3, <2>4, CacheSteps
<1>. QED
  BY <1>2, <1>3

(* Cache_FreeHigh, the same from the other end.                            *)
LEMMA FreeHighStep ==
  ASSUME HunkInv, Cache_FreeHigh
  PROVE  HunkInv'
<1>0. /\ Cached /\ Lists(items, lru) /\ hcall.at = "high" /\ CallSound
      /\ hunk_low_used \in Nat /\ hunk_high_used \in Nat /\ Above(Elements(items))
      /\ UNCHANGED <<hunk_low_used, marks, hunk_high_used, hunk_tempactive,
                     hunk_tempmark>>
  BY DEF HunkInv, Cached, Cache_FreeHigh
<1>1. /\ Len(items) \in Nat
      /\ \A y : y \in Elements(items) <=> \E i \in 1..Len(items) : y = items[i]
      /\ \A i \in 1..Len(items) : items[i] \in Item
  BY <1>0, ItemPlaces
<1>. DEFINE c == items[Len(items)]
<1>2. CASE items = <<>> \/ End(c) <= Top
  <2>1. hcall' = NoCall /\ UNCHANGED <<items, lru, data>>
    BY <1>2 DEF Cache_FreeHigh
  <2>2. ASSUME NEW i \in 1..Len(items)
        PROVE  End(items[i]) <= Top
    <3>1. items # <<>> /\ Len(items) \in 1..Len(items) /\ End(c) <= Top /\ Top \in Int
      BY <1>0, <1>1, <1>2, HunkAssumption DEF Top
    <3>2. CASE i = Len(items)
      BY <3>1, <3>2
    <3>3. CASE i # Len(items)
      <4>1. i < Len(items)
        BY <1>1, <3>3
      <4>2. End(items[i]) <= c.at
        BY <1>0, <1>1, <3>1, <4>1, Relations, Zenon DEF Lists, Paired
      <4>3. c.at \in Nat /\ c.size \in Nat /\ End(items[i]) \in Nat
        BY <1>1, <3>1 DEF Item, Address, End
      <4>. QED
        BY <3>1, <4>2, <4>3 DEF End
    <3>. QED
      BY <3>2, <3>3
  <2>3. Below(Elements(items))
    BY <1>1, <2>2 DEF Below
  <2>4. CallSound' /\ Cached'
    BY <1>0, <2>1, CallsSound DEF Cached
  <2>. QED
    BY <1>0, <2>1, <2>3, <2>4, CacheSteps
<1>3. CASE ~(items = <<>> \/ End(c) <= Top)
  <2>1. \/ c.at = hcall.prev /\ Cache_Unlink(c.user) /\ UNCHANGED hcall
        \/ Cache_Move(c) /\ hcall' = [hcall EXCEPT !.prev = c.at]
    BY <1>3 DEF Cache_FreeHigh
  <2>2. c \in Elements(items) /\ c \in Item
    <3>1. items \in Seq(Item) /\ items # <<>>
      BY <1>0, <1>3 DEF Lists
    <3>2. Len(items) \in 1..Len(items)
      BY <1>1, <3>1, Listed
    <3>. QED
      BY <1>1, <3>2
  <2>3. c.user \in Users /\ c.at \in Int /\ data[c.user] # NULL
    BY <1>0, <2>2 DEF Cached, Owned, Item, Address, NULL
  <2>. HIDE DEF c
  <2>4. CallSound' /\ hcall'.at = "high"
    BY <1>0, <2>1, <2>3 DEF CallSound
  <2>5. Cached' /\ Above(Elements(items'))
    <3>1. CASE Cache_Unlink(c.user)
      <4>1. Cached' /\ Elements(items') \subseteq Elements(items)
        BY <1>0, <2>3, <3>1, Unlinks
      <4>. QED
        BY <1>0, <4>1 DEF Above
    <3>2. CASE Cache_Move(c)
      BY <1>0, <2>2, <3>2, Moves
    <3>. QED
      BY <2>1, <3>1, <3>2
  <2>. QED
    BY <1>0, <2>4, <2>5, CacheSteps
<1>. QED
  BY <1>2, <1>3

(* Cache_Alloc.                                                            *)
LEMMA CacheAllocStep ==
  ASSUME HunkInv, NEW u \in Users, NEW size \in CacheSizes, Cache_Alloc(u, size)
  PROVE  HunkInv'
<1>1. size \in Nat /\ size # 0
  BY HunkAssumption
<1>2. /\ hcall' = [at |-> "cache", user |-> u, size |-> size, prev |-> NULL]
      /\ data[u] = NULL /\ UNCHANGED <<items, lru, data>> /\ hcall.at = "idle"
      /\ UNCHANGED <<hunk_low_used, marks, hunk_high_used, hunk_tempactive,
                     hunk_tempmark>>
  BY DEF Cache_Alloc
<1>3. CallSound'
  BY <1>1, <1>2 DEF CallSound, NULL
<1>4. Cached' /\ Above(Elements(items')) /\ Below(Elements(items'))
  BY <1>2 DEF HunkInv, Cached
<1>. QED
  BY <1>2, <1>3, <1>4, CacheSteps

(* Cache_TryAlloc.                                                         *)
LEMMA TryAllocStep ==
  ASSUME HunkInv, Cache_TryAlloc
  PROVE  HunkInv'
<1>0. /\ Cached /\ Lists(items, lru) /\ hcall.at = "cache" /\ CallSound
      /\ hunk_low_used \in Nat /\ hunk_high_used \in Nat
      /\ Above(Elements(items)) /\ Below(Elements(items))
      /\ UNCHANGED <<hunk_low_used, marks, hunk_high_used, hunk_tempactive,
                     hunk_tempmark>>
  BY DEF HunkInv, Cached, Cache_TryAlloc
<1>1. /\ hcall.user \in Users /\ hcall.size \in Nat \ {0} /\ data[hcall.user] = NULL
      /\ Len(items) \in Nat
  BY <1>0, ItemPlaces DEF CallSound
<1>2. CASE Gaps(hcall.size, FALSE) # {}
  <2>1. PICK k : k = Place(hcall.size, FALSE)
    BY Zenon
  <2>2. k \in Gaps(hcall.size, FALSE)
    BY <1>1, <1>2, <2>1, PlaceIsGap, Zenon
  <2>3. /\ items' = Link(items, k, [at |-> GapStart(k), size |-> hcall.size,
                                    user |-> hcall.user])
        /\ lru' = Cache_MakeLRU(lru, GapStart(k))
        /\ data' = [data EXCEPT ![hcall.user] = GapStart(k)]
        /\ hcall' = NoCall
    BY <1>2, <2>1, Zenon DEF Cache_TryAlloc
  <2>4. Cached' /\ Above(Elements(items')) /\ Below(Elements(items'))
    BY <1>0, <1>1, <2>2, <2>3, Placed, Zenon
  <2>. QED
    BY <1>0, <2>3, <2>4, CallsSound, CacheSteps
<1>3. CASE Gaps(hcall.size, FALSE) = {} /\ items # <<>>
  <2>1. PICK u \in Users : data[u] = lru[Len(lru)] /\ Cache_Unlink(u)
    BY <1>3, Zenon DEF Cache_TryAlloc
  <2>2. UNCHANGED hcall
    BY <1>3, Zenon DEF Cache_TryAlloc
  <2>3. data[u] # NULL
    <3>1. /\ items \in Seq(Item) /\ items # <<>>
          /\ lru \in Seq(Address) /\ Len(lru) = Len(items)
      BY <1>0, <1>3 DEF Lists
    <3>2. Len(lru) \in 1..Len(lru)
      BY <1>1, <3>1, Listed
    <3>3. lru[Len(lru)] \in Address
      BY <3>1, <3>2, OfKind
    <3>. QED
      BY <2>1, <3>3 DEF Address, NULL
  <2>4. /\ Cached' /\ Elements(items') \subseteq Elements(items)
        /\ \A v \in Users : data[v] = NULL => data'[v] = NULL
    BY <1>0, <2>1, <2>3, Unlinks
  <2>5. Above(Elements(items')) /\ Below(Elements(items'))
    BY <1>0, <2>4 DEF Above, Below
  <2>6. CallSound'
    BY <1>0, <1>1, <2>2, <2>4 DEF CallSound
  <2>. QED
    BY <1>0, <2>4, <2>5, <2>6, CacheSteps
<1>4. CASE Gaps(hcall.size, FALSE) = {} /\ items = <<>>
  <2>1. hcall' = [hcall EXCEPT !.at = "exit"] /\ UNCHANGED <<items, lru, data>>
    BY <1>4, Zenon DEF Cache_TryAlloc
  <2>2. CallSound' /\ Cached'
    BY <1>0, <2>1 DEF CallSound, Cached
  <2>. QED
    BY <1>0, <2>1, <2>2, CacheSteps
<1>. QED
  BY <1>2, <1>3, <1>4, Zenon

(* Cache_Check.                                                            *)
LEMMA CheckStep ==
  ASSUME HunkInv, NEW u \in Users, Cache_Check(u)
  PROVE  HunkInv'
<1>0. /\ Lists(items, lru) /\ Owned(Elements(items), data) /\ CallSound
      /\ hcall.at = "idle" /\ Above(Elements(items)) /\ Below(Elements(items))
      /\ data[u] # NULL /\ UNCHANGED <<items, data, hcall>>
      /\ lru' = Cache_MakeLRU(Cache_UnlinkLRU(lru, data[u]), data[u])
      /\ UNCHANGED <<hunk_low_used, marks, hunk_high_used, hunk_tempactive,
                     hunk_tempmark>>
  BY DEF HunkInv, Cached, Cache_Check
<1>1. data[u] \in Elements(lru)
  <2>1. PICK y \in Elements(items) : y.user = u
    BY <1>0 DEF Owned
  <2>2. data[u] = y.at
    BY <1>0, <2>1 DEF Owned
  <2>. QED
    BY <1>0, <2>2 DEF Lists
<1>2. Cached'
  BY <1>0, <1>1, ItemUsed DEF Cached
<1>3. CallSound'
  BY <1>0 DEF CallSound
<1>. QED
  BY <1>0, <1>2, <1>3, CacheSteps

(* Cache_Free.                                                             *)
LEMMA FreeStep ==
  ASSUME HunkInv, NEW u \in Users, Cache_Free(u)
  PROVE  HunkInv'
<1>0. /\ Cached /\ CallSound /\ hcall.at = "idle" /\ UNCHANGED hcall
      /\ Above(Elements(items)) /\ Below(Elements(items))
      /\ data[u] # NULL /\ Cache_Unlink(u)
      /\ UNCHANGED <<hunk_low_used, marks, hunk_high_used, hunk_tempactive,
                     hunk_tempmark>>
  BY DEF HunkInv, Cache_Free
<1>1. Cached' /\ Elements(items') \subseteq Elements(items)
  BY <1>0, Unlinks
<1>2. Above(Elements(items')) /\ Below(Elements(items'))
  BY <1>0, <1>1 DEF Above, Below
<1>3. CallSound'
  BY <1>0 DEF CallSound
<1>. QED
  BY <1>0, <1>1, <1>2, <1>3, CacheSteps

(* Cache_Flush.                                                            *)
LEMMA FlushStep ==
  ASSUME HunkInv, Cache_Flush
  PROVE  HunkInv'
<1>0. /\ items' = <<>> /\ lru' = <<>> /\ data' = [u \in Users |-> NULL]
      /\ CallSound /\ hcall.at = "idle" /\ UNCHANGED hcall
      /\ UNCHANGED <<hunk_low_used, marks, hunk_high_used, hunk_tempactive,
                     hunk_tempmark>>
  BY DEF HunkInv, Cache_Flush
<1>1. Cached' /\ Elements(items') = {}
  BY <1>0, EmptyCache DEF Cached
<1>2. CallSound'
  BY <1>0 DEF CallSound
<1>. QED
  BY <1>0, <1>1, <1>2, CacheSteps DEF Above, Below

(* The soundness of the cache, for all sizes and users: what is cached     *)
(* never overlaps, is found by its owner alone, and is clear of both hunks *)
(* whenever Hunk_AllocName, Hunk_TempAlloc or Cache_Alloc has returned,    *)
(* whatever they had to move or throw out.                                 *)
THEOREM CacheStaysSound == Memory_Init /\ [][HunkNext]_hunkVars => []CacheSound
<1>1. Memory_Init => HunkInv
  BY InitInv
<1>2. HunkInv /\ [HunkNext]_hunkVars => HunkInv'
  <2>. SUFFICES ASSUME HunkInv, [HunkNext]_hunkVars PROVE HunkInv'
    OBVIOUS
  <2>1. CASE UNCHANGED hunkVars
    BY <2>1 DEF hunkVars, HunkInv, CallSound, Cached, Above, Below, Top
  <2>. QED
    BY <2>1, AllocStep, TempStep, FreeToMarkStep, CacheAllocStep, CheckStep,
       FreeStep, FlushStep, FreeLowStep, FreeHighStep, TryAllocStep
    DEF HunkNext
<1>3. HunkInv => CacheSound
  <2>. SUFFICES ASSUME HunkInv PROVE CacheSound
    OBVIOUS
  <2>1. Lists(items, lru) /\ Owned(Elements(items), data)
    BY DEF HunkInv, Cached
  <2>2. /\ Len(items) \in Nat
        /\ \A i \in 1..Len(items) : items[i] \in Item
    BY <2>1, ItemPlaces
  <2>3. ASSUME NEW k \in 1..Len(items) - 1
        PROVE  End(items[k]) <= items[k + 1].at
    <3>1. k \in 1..Len(items) /\ k + 1 \in 1..Len(items) /\ k < k + 1
      BY <2>2
    <3>. QED
      BY <2>1, <2>2, <3>1, Relations, Zenon DEF Lists, Paired
  <2>4. \A i \in Elements(items) : data[i.user] = i.at
    BY <2>1 DEF Owned
  <2>5. \A u \in Users : data[u] # NULL =>
          \E i \in Elements(items) : i.user = u /\ i.at = data[u]
    BY <2>1, <2>4 DEF Owned
  <2>6. Elements(lru) = {i.at : i \in Elements(items)} /\ Len(lru) = Len(items)
    BY <2>1 DEF Lists
  <2>7. hcall.at = "idle" =>
          \A i \in Elements(items) : hunk_low_used <= i.at /\ End(i) <= Top
    BY DEF HunkInv, Above, Below
  <2>. QED
    BY <2>3, <2>4, <2>5, <2>6, <2>7, Zenon DEF CacheSound
<1>. QED
  BY <1>1, <1>2, <1>3, PTL
=============================================================================
