------------------------ MODULE ScriptLibraryProofs ------------------------
(***************************************************************************)
(* A script under any sequence of editing operations, for scripts of any     *)
(* length and arguments of any value: its blocks stay in order, it comes     *)
(* back as it was from a file and from a message, and the patch the drag     *)
(* editor sends makes the simulator's script equal to the editor's.          *)
(*                                                                          *)
(* The inductive invariant, InOrder, is that the script is a sequence of     *)
(* well-formed blocks whose frames do not decrease; every operation has a    *)
(* lemma that it keeps such a script such a script.                          *)
(***************************************************************************)
EXTENDS ScriptLibrary, ScriptTextProofs

\* A nonempty set of natural numbers has a least element.
LEMMA LeastNat ==
    ASSUME NEW T, T \subseteq Nat, T # {}
    PROVE  \E x \in T : \A y \in T : x <= y
<1> SUFFICES ASSUME \A x \in T : \E y \in T : ~(x <= y) PROVE FALSE
  OBVIOUS
<1>1. PICK n \in T : n \in Nat
  BY Zenon
<1> DEFINE G == {i \in 0 .. n : \A j \in 0 .. i : j \notin T}
<1>2. 0 \in G
  BY <1>1
<1>3. ASSUME NEW i \in 1 .. n, i - 1 \in G PROVE i \in G
  <2>1. i \in Nat /\ \A j \in Nat : ~(i <= j) => j \in 0 .. i - 1
    BY <1>1
  <2>2. i \notin T
    BY <1>3, <2>1
  <2> QED
    BY <1>3, <2>2
<1> HIDE DEF G
<1>4. n \in G
  BY <1>1, <1>2, <1>3, UpTo, Zenon
<1> QED
  BY <1>1, <1>4 DEF G

\* What Keep has kept after each of the elements.
Kept(f, s, I) ==
    /\ f[0] = <<>>
    /\ \A i \in 1 .. Len(s) : f[i] = IF i \in I THEN Append(f[i - 1], s[i]) ELSE f[i - 1]
    /\ Keep(s, I) = f[Len(s)]

\* Keep takes those steps.
LEMMA KeepSteps ==
    ASSUME NEW s, Len(s) \in Nat, NEW I
    PROVE  \E f : Kept(f, s, I)
<1> DEFINE n == Len(s)
           Step(x, i) == IF i \in I THEN Append(x, s[i]) ELSE x
           Good(g, m) == g[0] = <<>> /\ \A i \in 1 .. m : g[i] = Step(g[i - 1], i)
           G == {m \in 0 .. n : \E g : Good(g, m)}
           Eq(f) == f = [i \in 0 .. n |-> IF i = 0 THEN <<>> ELSE Step(f[i - 1], i)]
           F == CHOOSE f : Eq(f)
<1>0. Keep(s, I) = F[n]
  BY DEF Keep
<1> HIDE DEF Step
<1>1. 0 \in G
  <2> DEFINE g == [i \in {0} |-> <<>>]
  <2>1. Good(g, 0)
    OBVIOUS
  <2> HIDE DEF g, Good
  <2> QED
    BY <2>1
<1>2. ASSUME NEW m \in 1 .. n, m - 1 \in G PROVE m \in G
  <2>1. PICK g : Good(g, m - 1)
    BY <1>2
  <2> DEFINE h == [i \in 0 .. m |-> IF i = m THEN Step(g[m - 1], m) ELSE g[i]]
  <2>2. h[0] = <<>>
    BY <2>1
  <2>3. ASSUME NEW i \in 1 .. m PROVE h[i] = Step(h[i - 1], i)
    BY <2>1
  <2>4. Good(h, m)
    BY <2>2, <2>3, Zenon
  <2> HIDE DEF h, Good
  <2> QED
    BY <2>4
<1>3. n \in G
  BY <1>1, <1>2, UpTo, Zenon
<1>4. PICK g : Good(g, n)
  BY <1>3
<1> DEFINE h == [i \in 0 .. n |-> g[i]]
<1>5. Eq(h)
  BY <1>4
<1>6. Eq(F)
  BY <1>5, Zenon
<1> HIDE DEF F
<1>7. F[0] = <<>> /\ \A i \in 1 .. n : F[i] = Step(F[i - 1], i)
  BY <1>6
<1>8. Kept(F, s, I)
  BY <1>0, <1>7 DEF Step, Kept
<1> QED
  BY <1>8, Zenon

-----------------------------------------------------------------------------
(* Blocks, and sequences of blocks in order.                                 *)

\* A block as NewBlock makes it.
LEMMA NewIsBlock ==
    ASSUME NEW frame \in Nat
    PROVE  IsBlock(NewBlock(frame)) /\ NewBlock(frame).frame = frame
  BY NoEntries DEF IsBlock, NewBlock

\* Setting or removing an entry leaves finitely many.
LEMMA EntriesFinite ==
    ASSUME NEW f, IsEntries(f), NEW name, NEW value
    PROVE  IsEntries(With(f, name, value)) /\ IsEntries(Without(f, name))
<1>1. DOMAIN With(f, name, value) = (DOMAIN f) \cup {name} /\ IsFiniteSet(DOMAIN f)
  BY DEF With, IsEntries
<1>2. DOMAIN Without(f, name) = DOMAIN f \ {name}
  BY DEF Without, Restrict
<1>3. IsFiniteSet(DOMAIN With(f, name, value)) /\ IsFiniteSet(DOMAIN Without(f, name))
  BY <1>1, <1>2, FiniteFacts, Zenon
<1> QED
  BY <1>3 DEF With, Without, Restrict, IsEntries

\* A block of which one part was replaced is a block.
LEMMA ChangedIsBlock ==
    ASSUME NEW b, IsBlock(b), NEW x
    PROVE  /\ x \in Nat => IsBlock([b EXCEPT !.frame = x]) /\ [b EXCEPT !.frame = x].frame = x
           /\ IsEntries(x) => /\ IsBlock([b EXCEPT !.convars = x])
                              /\ [b EXCEPT !.convars = x].frame = b.frame
           /\ IsEntries(x) => /\ IsBlock([b EXCEPT !.toggles = x])
                              /\ [b EXCEPT !.toggles = x].frame = b.frame
           /\ x \in Seq(Range(x)) => /\ IsBlock([b EXCEPT !.commands = x])
                                     /\ [b EXCEPT !.commands = x].frame = b.frame
  BY DEF IsBlock

\* Stacking a block on another makes a block on the frame of the other.
LEMMA StackIsBlock ==
    ASSUME NEW st, IsBlock(st), NEW b, IsBlock(b)
    PROVE  IsBlock(Stack(st, b)) /\ Stack(st, b).frame = st.frame
<1> DEFINE t == Over(b.toggles, st.toggles)
           c == Over(Restrict(b.convars, DOMAIN b.convars \ Unstackable), st.convars)
           u == [st EXCEPT !.toggles = t]
<1>1. Stack(st, b) = [u EXCEPT !.convars = c]
  BY DEF Stack, IsBlock
<1>2. IsEntries(t)
  <2>1. DOMAIN t = DOMAIN b.toggles \cup DOMAIN st.toggles
    BY DEF Over
  <2>2. IsFiniteSet(DOMAIN b.toggles) /\ IsFiniteSet(DOMAIN st.toggles)
    BY DEF IsBlock, IsEntries
  <2>3. t = [x \in DOMAIN t |-> t[x]]
    BY DEF Over
  <2> HIDE DEF t
  <2>4. IsFiniteSet(DOMAIN t)
    BY <2>1, <2>2, FiniteFacts, Zenon
  <2> QED
    BY <2>3, <2>4 DEF IsEntries
<1>3. IsEntries(c)
  <2>1. DOMAIN c = (DOMAIN b.convars \ Unstackable) \cup DOMAIN st.convars
    BY DEF Restrict, Over
  <2>2. IsFiniteSet(DOMAIN b.convars \ Unstackable) /\ IsFiniteSet(DOMAIN st.convars)
    <3>1. IsFiniteSet(DOMAIN b.convars) /\ IsFiniteSet(DOMAIN st.convars)
      BY DEF IsBlock, IsEntries
    <3>2. DOMAIN b.convars \ Unstackable \subseteq DOMAIN b.convars
      BY Zenon
    <3> QED
      BY <3>1, <3>2, FiniteFacts, Zenon
  <2>3. c = [x \in DOMAIN c |-> c[x]]
    BY DEF Over
  <2> HIDE DEF c
  <2>4. IsFiniteSet(DOMAIN c)
    BY <2>1, <2>2, FiniteFacts, Zenon
  <2> QED
    BY <2>3, <2>4 DEF IsEntries
<1> HIDE DEF t, c
<1>4. IsBlock(u) /\ u.frame = st.frame
  BY <1>2, ChangedIsBlock, Zenon
<1> HIDE DEF u
<1>5. IsBlock([u EXCEPT !.convars = c]) /\ [u EXCEPT !.convars = c].frame = u.frame
  BY <1>3, <1>4, ChangedIsBlock, Zenon
<1> QED
  BY <1>1, <1>4, <1>5, Zenon

\* A sequence of blocks with frames that do not decrease is in order.
LEMMA OrderedIntro ==
    ASSUME NEW S, NEW t \in Seq(S),
           \A i \in DOMAIN t : IsBlock(t[i]),
           \A i, j \in DOMAIN t : i <= j => t[i].frame <= t[j].frame
    PROVE  Ordered(t)
  BY OwnValues DEF Ordered

\* A part of a script in order is in order.
LEMMA PartOrdered ==
    ASSUME NEW s, Ordered(s), NEW m \in 1 .. Len(s) + 1, NEW n \in 0 .. Len(s)
    PROVE  /\ Ordered(SubSeq(s, m, n))
           /\ Len(SubSeq(s, m, n)) = IF m <= n THEN n - m + 1 ELSE 0
           /\ \A k \in DOMAIN SubSeq(s, m, n) :
                 k - 1 + m \in DOMAIN s /\ k - 1 + m <= n /\ SubSeq(s, m, n)[k] = s[k - 1 + m]
<1> DEFINE S == Range(s)
           t == SubSeq(s, m, n)
<1>1. s \in Seq(S) /\ Len(s) \in Nat /\ DOMAIN s = 1 .. Len(s)
  BY OrderedFacts
<1> HIDE DEF S
<1>2. /\ t \in Seq(S)
      /\ Len(t) = IF m <= n THEN n - m + 1 ELSE 0
      /\ DOMAIN t = 1 .. Len(t)
      /\ \A k \in 1 .. Len(t) : t[k] = s[k - 1 + m]
  <2>0. m \in Int /\ n \in Int
    BY <1>1
  <2>1. CASE m <= n
    BY <1>1, <2>0, <2>1
  <2>2. CASE ~(m <= n)
    BY <1>1, <2>0, <2>2
  <2> QED
    BY <2>1, <2>2
<1> HIDE DEF t
<1>3. \A k \in DOMAIN t : k \in Int /\ k - 1 + m \in DOMAIN s /\ k - 1 + m <= n /\ t[k] = s[k - 1 + m]
  <2> SUFFICES ASSUME NEW k \in 1 .. Len(t)
               PROVE  k \in Int /\ k - 1 + m \in DOMAIN s /\ k - 1 + m <= n /\ t[k] = s[k - 1 + m]
    BY <1>2, Zenon
  <2>1. k \in 1 .. (n - m + 1) /\ m \in 1 .. Len(s) + 1 /\ n \in 0 .. Len(s)
    BY <1>1, <1>2
  <2>2. k \in Int /\ k - 1 + m \in DOMAIN s /\ k - 1 + m <= n
    BY <1>1, <2>1
  <2> QED
    BY <1>2, <2>2, Zenon
<1>4. \A i \in DOMAIN t : IsBlock(t[i])
  BY <1>3, OrderedFacts
<1>5. ASSUME NEW i \in DOMAIN t, NEW j \in DOMAIN t, i <= j PROVE t[i].frame <= t[j].frame
  <2>1. i - 1 + m <= j - 1 + m
    BY <1>3, <1>5
  <2> QED
    BY <1>3, <2>1, OrderedFacts
<1>6. Ordered(t)
  BY <1>2, <1>4, <1>5, OrderedIntro, Zenon
<1> QED
  BY <1>2, <1>3, <1>6 DEF t

\* Two scripts in order, of which the second is not before the first, one after
\* the other.
LEMMA JoinOrdered ==
    ASSUME NEW s, Ordered(s), NEW t, Ordered(t),
           \A i \in DOMAIN s : \A j \in DOMAIN t : s[i].frame <= t[j].frame
    PROVE  /\ Ordered(s \o t)
           /\ Len(s \o t) = Len(s) + Len(t)
           /\ \A k \in DOMAIN (s \o t) :
                 \/ k \in DOMAIN s /\ (s \o t)[k] = s[k]
                 \/ k > Len(s) /\ k - Len(s) \in DOMAIN t /\ (s \o t)[k] = t[k - Len(s)]
<1> DEFINE S == Range(s) \cup Range(t)
           u == s \o t
<1>1. /\ s \in Seq(S) /\ Len(s) \in Nat /\ DOMAIN s = 1 .. Len(s)
      /\ t \in Seq(S) /\ Len(t) \in Nat /\ DOMAIN t = 1 .. Len(t)
  <2> DEFINE A == Range(s)
             B == Range(t)
  <2>1. /\ s \in Seq(A) /\ Len(s) \in Nat /\ DOMAIN s = 1 .. Len(s)
        /\ t \in Seq(B) /\ Len(t) \in Nat /\ DOMAIN t = 1 .. Len(t)
    BY OrderedFacts
  <2>2. A \subseteq S /\ B \subseteq S
    BY Zenon
  <2> HIDE DEF A, B, S
  <2> QED
    BY <2>1, <2>2, SeqFacts
<1> HIDE DEF S
<1>2. /\ u \in Seq(S) /\ Len(u) = Len(s) + Len(t) /\ DOMAIN u = 1 .. Len(u)
      /\ \A k \in 1 .. Len(u) : u[k] = IF k <= Len(s) THEN s[k] ELSE t[k - Len(s)]
  BY <1>1
<1> HIDE DEF u
<1>3. \A k \in DOMAIN u : /\ k \in Int
                          /\ k <= Len(s) => k \in DOMAIN s /\ u[k] = s[k]
                          /\ k > Len(s) => k - Len(s) \in DOMAIN t /\ u[k] = t[k - Len(s)]
  BY <1>1, <1>2
<1>4. ASSUME NEW k \in DOMAIN u PROVE IsBlock(u[k])
  <2>1. CASE k <= Len(s)
    BY <1>3, <2>1, OrderedFacts
  <2>2. CASE k > Len(s)
    BY <1>3, <2>2, OrderedFacts
  <2> QED
    BY <1>1, <1>3, <2>1, <2>2
<1>5. ASSUME NEW i \in DOMAIN u, NEW j \in DOMAIN u, i <= j PROVE u[i].frame <= u[j].frame
  <2>1. CASE j <= Len(s)
    <3>1. i <= Len(s)
      BY <1>1, <1>3, <1>5, <2>1
    <3> QED
      BY <1>3, <1>5, <2>1, <3>1, OrderedFacts
  <2>2. CASE i > Len(s)
    <3>1. j > Len(s) /\ i - Len(s) <= j - Len(s)
      BY <1>1, <1>3, <1>5, <2>2
    <3> QED
      BY <1>3, <2>2, <3>1, OrderedFacts
  <2>3. CASE i <= Len(s) /\ j > Len(s)
    BY <1>3, <2>3
  <2> QED
    BY <1>1, <1>3, <2>1, <2>2, <2>3
<1>6. Ordered(u)
  BY <1>2, <1>4, <1>5, OrderedIntro, Zenon
<1> QED
  BY <1>1, <1>2, <1>3, <1>6 DEF u

\* A script of one block.
LEMMA OneOrdered ==
    ASSUME NEW b, IsBlock(b)
    PROVE  Ordered(<<b>>) /\ Len(<<b>>) = 1 /\ DOMAIN <<b>> = {1} /\ <<b>>[1] = b
<1>1. <<b>> \in Seq({b}) /\ Len(<<b>>) = 1 /\ DOMAIN <<b>> = {1} /\ <<b>>[1] = b
  OBVIOUS
<1>2. b.frame <= b.frame
  BY DEF IsBlock
<1> QED
  BY <1>1, <1>2, OrderedIntro, Zenon

\* The blocks that are kept are in order, and they are blocks of the script.
LEMMA KeepOrdered ==
    ASSUME NEW s, Ordered(s), NEW I
    PROVE  /\ Ordered(Keep(s, I))
           /\ \A k \in DOMAIN Keep(s, I) : \E j \in DOMAIN s : j \in I /\ Keep(s, I)[k] = s[j]
<1>1. Len(s) \in Nat /\ DOMAIN s = 1 .. Len(s)
  BY OrderedFacts
<1>0. PICK f : Kept(f, s, I)
  BY <1>1, KeepSteps, Zenon
<1>2. /\ f[0] = <<>>
      /\ \A i \in 1 .. Len(s) : f[i] = IF i \in I THEN Append(f[i - 1], s[i]) ELSE f[i - 1]
      /\ Keep(s, I) = f[Len(s)]
  BY <1>0, Zenon DEF Kept
<1> DEFINE Good(i) == /\ Ordered(f[i])
                      /\ \A k \in DOMAIN f[i] : \E j \in DOMAIN s : j \in I /\ j <= i /\ f[i][k] = s[j]
           G == {i \in 0 .. Len(s) : Good(i)}
<1>3. 0 \in G
  <2>1. f[0] \in Seq({}) /\ DOMAIN f[0] = {}
    BY <1>2
  <2>2. Ordered(f[0])
    BY <2>1, OrderedIntro
  <2> QED
    BY <1>1, <2>1, <2>2
<1>4. ASSUME NEW i \in 1 .. Len(s), i - 1 \in G PROVE i \in G
  <2>1. Good(i - 1)
    BY <1>4
  <2>2. CASE i \notin I
    <3>1. f[i] = f[i - 1]
      BY <1>2, <2>2
    <3> QED
      BY <1>1, <2>1, <3>1
  <2>3. CASE i \in I
    <3> DEFINE t == f[i - 1]
               o == <<s[i]>>
    <3>1. f[i] = Append(t, s[i])
      BY <1>2, <2>3, Zenon
    <3>2. Ordered(t) /\ \A k \in DOMAIN t : \E j \in DOMAIN s : j \in I /\ j <= i - 1 /\ t[k] = s[j]
      BY <2>1
    <3> HIDE DEF t
    <3>3. IsBlock(s[i])
      BY <1>1, OrderedFacts
    <3>4. Ordered(o) /\ Len(o) = 1 /\ DOMAIN o = {1} /\ o[1] = s[i]
      BY <3>3, OneOrdered
    <3> HIDE DEF o
    <3>5. \A j \in DOMAIN s : j <= i - 1 => s[j].frame <= s[i].frame
      <4>1. \A j \in DOMAIN s : j <= i - 1 => j <= i
        BY <1>1
      <4> QED
        BY <1>1, <4>1, OrderedFacts
    <3>6. \A k \in DOMAIN t : \A j \in DOMAIN o : t[k].frame <= o[j].frame
      BY <3>2, <3>4, <3>5
    <3>7. /\ Ordered(t \o o)
          /\ \A k \in DOMAIN (t \o o) :
                \/ k \in DOMAIN t /\ (t \o o)[k] = t[k]
                \/ k > Len(t) /\ k - Len(t) \in DOMAIN o /\ (t \o o)[k] = o[k - Len(t)]
      BY <3>2, <3>4, <3>6, JoinOrdered, Zenon
    <3>8. f[i] = t \o o
      <4>1. t \in Seq(Range(t))
        BY <3>2, OrderedFacts
      <4> QED
        BY <3>1, <4>1 DEF o
    <3>9. ASSUME NEW k \in DOMAIN f[i]
          PROVE  \E j \in DOMAIN s : j \in I /\ j <= i /\ f[i][k] = s[j]
      <4>1. CASE k \in DOMAIN t /\ f[i][k] = t[k]
        BY <1>1, <3>2, <4>1
      <4>2. CASE f[i][k] = o[1]
        BY <1>1, <2>3, <3>4, <4>2
      <4> QED
        BY <3>4, <3>7, <3>8, <4>1, <4>2
    <3>10. Good(i)
      BY <3>7, <3>8, <3>9
    <3> HIDE DEF Good
    <3> QED
      BY <1>1, <3>10
  <2> QED
    BY <2>2, <2>3
<1>5. Len(s) \in G
  BY <1>1, <1>3, <1>4, UpTo, Zenon
<1> QED
  BY <1>2, <1>5

-----------------------------------------------------------------------------
(* Finding, inserting and changing a block.                                  *)

\* GetBlockIndex: every block before the index is too early, the one at the
\* index is not.
LEMMA BlockIndex ==
    ASSUME NEW s, Ordered(s), NEW frame \in Nat
    PROVE  /\ GetBlockIndex(s, frame) \in 1 .. Len(s) + 1
           /\ \A i \in DOMAIN s : i < GetBlockIndex(s, frame) <=> s[i].frame < frame
<1> DEFINE late == {i \in DOMAIN s : s[i].frame >= frame}
           m == GetBlockIndex(s, frame)
<1>1. /\ Len(s) \in Nat /\ DOMAIN s = 1 .. Len(s)
      /\ \A i \in DOMAIN s : i \in Nat /\ s[i].frame \in Nat
      /\ \A i, j \in DOMAIN s : i <= j => s[i].frame <= s[j].frame
  <2>1. Len(s) \in Nat /\ DOMAIN s = 1 .. Len(s)
    BY OrderedFacts
  <2>2. \A i \in DOMAIN s : i \in Nat
    BY <2>1
  <2> QED
    BY <2>1, <2>2, OrderedFacts, Zenon
<1>2. \A i \in DOMAIN s : i \in late <=> ~(s[i].frame < frame)
  BY <1>1
<1>3. m = IF late = {} THEN Len(s) + 1 ELSE CHOOSE i \in late : \A j \in late : i <= j
  BY DEF GetBlockIndex
<1>4. late # {} => m \in late /\ \A j \in late : m <= j
  <2>1. late \subseteq Nat
    BY <1>1
  <2> HIDE DEF late
  <2> QED
    BY <1>3, <2>1, LeastNat, Zenon
<1>5. late \subseteq DOMAIN s
  OBVIOUS
<1> HIDE DEF late, m
<1>6. CASE late = {}
  BY <1>1, <1>2, <1>3, <1>6 DEF m
<1>7. CASE late # {}
  <2>1. m \in DOMAIN s /\ s[m].frame >= frame
    BY <1>1, <1>2, <1>4, <1>5, <1>7
  <2>2. ASSUME NEW i \in DOMAIN s PROVE i < m <=> s[i].frame < frame
    <3>1. CASE i < m
      BY <1>1, <1>2, <1>4, <1>7, <2>1, <3>1
    <3>2. CASE ~(i < m)
      <4>1. m <= i
        BY <1>1, <2>1, <3>2
      <4>2. s[m].frame <= s[i].frame
        BY <1>1, <2>1, <4>1
      <4>3. s[m].frame \in Nat /\ s[i].frame \in Nat
        BY <1>1, <2>1
      <4> QED
        BY <2>1, <3>2, <4>2, <4>3
    <3> QED
      BY <3>1, <3>2
  <2> QED
    BY <1>1, <2>1, <2>2 DEF m
<1> QED
  BY <1>6, <1>7

\* What BlocksBefore returns: the blocks before the frame.
LEMMA BeforeOrdered ==
    ASSUME NEW s, Ordered(s), NEW frame \in Nat
    PROVE  LET t == BlocksBefore(s, frame)
           IN  /\ Ordered(t) /\ Len(t) = GetBlockIndex(s, frame) - 1
               /\ \A k \in DOMAIN t : k \in DOMAIN s /\ t[k] = s[k] /\ t[k].frame < frame
<1> DEFINE n == GetBlockIndex(s, frame) - 1
           t == SubSeq(s, 1, n)
<1>1. BlocksBefore(s, frame) = t
  BY DEF BlocksBefore
<1>2. Len(s) \in Nat /\ DOMAIN s = 1 .. Len(s)
  BY OrderedFacts
<1>3. n \in 0 .. Len(s) /\ \A i \in DOMAIN s : i <= n => s[i].frame < frame
  <2> DEFINE m == GetBlockIndex(s, frame)
  <2>1. m \in 1 .. Len(s) + 1 /\ \A i \in DOMAIN s : i < m <=> s[i].frame < frame
    BY BlockIndex
  <2> HIDE DEF m
  <2>2. m - 1 \in 0 .. Len(s) /\ \A i \in DOMAIN s : i <= m - 1 => i < m
    BY <1>2, <2>1
  <2> QED
    BY <2>1, <2>2 DEF m
<1> HIDE DEF n
<1>4. /\ Ordered(t)
      /\ Len(t) = IF 1 <= n THEN n - 1 + 1 ELSE 0
      /\ \A k \in DOMAIN t : k - 1 + 1 \in DOMAIN s /\ k - 1 + 1 <= n /\ t[k] = s[k - 1 + 1]
  BY <1>2, <1>3, PartOrdered
<1> HIDE DEF t
<1>5. Len(t) = n
  BY <1>3, <1>4
<1>6. DOMAIN t = 1 .. Len(t)
  BY <1>4, OrderedFacts
<1>7. \A k \in DOMAIN t : k - 1 + 1 = k
  BY <1>2, <1>3, <1>5, <1>6
<1>8. \A k \in DOMAIN t : k \in DOMAIN s /\ t[k] = s[k] /\ k <= n
  BY <1>4, <1>7
<1> QED
  BY <1>1, <1>3, <1>4, <1>5, <1>8 DEF n

\* GetBlockForInsertion puts a new block where the order wants it, if there is none
\* for the frame, and leaves the others.
LEMMA Insertion ==
    ASSUME NEW s, Ordered(s), NEW frame \in Nat
    PROVE  LET i == GetBlockIndex(s, frame)
               w == GetBlockForInsertion(s, frame)
           IN  /\ Ordered(w) /\ i \in DOMAIN w /\ w[i].frame = frame
               /\ \/ w = s
                  \/ /\ w[i] = NewBlock(frame) /\ Len(w) = Len(s) + 1
                     /\ \A k \in DOMAIN w : k < i => k \in DOMAIN s /\ w[k] = s[k]
                     /\ \A k \in DOMAIN w : k > i => k - 1 \in DOMAIN s /\ k - 1 >= i /\ w[k] = s[k - 1]
<1> DEFINE i == GetBlockIndex(s, frame)
           w == GetBlockForInsertion(s, frame)
           b == NewBlock(frame)
           l == SubSeq(s, 1, i - 1)
           r == SubSeq(s, i, Len(s))
           o == <<b>>
           lo == l \o o
<1>1. Len(s) \in Nat /\ DOMAIN s = 1 .. Len(s)
  BY OrderedFacts
<1>2. i \in 1 .. Len(s) + 1 /\ \A k \in DOMAIN s : k < i <=> s[k].frame < frame
  BY BlockIndex
<1>3. w = IF i <= Len(s) /\ s[i].frame = frame THEN s ELSE lo \o r
  BY DEF GetBlockForInsertion
<1>4. IsBlock(b) /\ b.frame = frame
  BY NewIsBlock
<1> HIDE DEF i, w, b
<1>5. CASE i <= Len(s) /\ s[i].frame = frame
  BY <1>1, <1>2, <1>3, <1>5 DEF i, w
<1>6. CASE ~(i <= Len(s) /\ s[i].frame = frame)
  <2>1. /\ Ordered(l) /\ Len(l) = i - 1
        /\ \A k \in DOMAIN l : k \in DOMAIN s /\ l[k] = s[k] /\ l[k].frame < frame
    BY BeforeOrdered, Zenon DEF BlocksBefore, i
  <2>2. /\ Ordered(r) /\ Len(r) = Len(s) - i + 1
        /\ \A k \in DOMAIN r : k - 1 + i \in DOMAIN s /\ k - 1 + i >= i /\ r[k] = s[k - 1 + i] /\ r[k].frame >= frame
    <3>1. /\ Ordered(r) /\ Len(r) = IF i <= Len(s) THEN Len(s) - i + 1 ELSE 0
          /\ \A k \in DOMAIN r : k - 1 + i \in DOMAIN s /\ k - 1 + i <= Len(s) /\ r[k] = s[k - 1 + i]
      BY <1>1, <1>2, PartOrdered
    <3>2. Len(r) \in Nat /\ DOMAIN r = 1 .. Len(r) /\ \A k \in DOMAIN r : r[k].frame \in Nat
      BY <3>1, OrderedFacts, Zenon
    <3> HIDE DEF r
    <3>3. Len(r) = Len(s) - i + 1
      BY <1>1, <1>2, <3>1
    <3>4. \A k \in DOMAIN r : k - 1 + i >= i /\ ~(k - 1 + i < i)
      BY <1>1, <1>2, <3>2, <3>3
    <3>5. ASSUME NEW k \in DOMAIN r PROVE r[k].frame >= frame
      <4>1. r[k].frame \in Nat /\ ~(r[k].frame < frame)
        BY <1>2, <3>1, <3>2, <3>4
      <4> QED
        BY <4>1
    <3> QED
      BY <3>1, <3>3, <3>4, <3>5
  <2>3. Ordered(o) /\ Len(o) = 1 /\ DOMAIN o = {1} /\ o[1] = b
    BY <1>4, OneOrdered
  <2> HIDE DEF l, r, o
  <2>4. \A k \in DOMAIN l : l[k].frame <= frame
    <3>1. \A k \in DOMAIN l : l[k].frame \in Nat
      BY <2>1, OrderedFacts
    <3> QED
      BY <2>1, <3>1
  <2>5. \A k \in DOMAIN l : \A j \in DOMAIN o : l[k].frame <= o[j].frame
    BY <1>4, <2>3, <2>4
  <2>6. /\ Ordered(lo) /\ Len(lo) = Len(l) + Len(o)
        /\ \A k \in DOMAIN lo : \/ k \in DOMAIN l /\ lo[k] = l[k]
                                \/ k > Len(l) /\ k - Len(l) \in DOMAIN o /\ lo[k] = o[k - Len(l)]
    BY <2>1, <2>3, <2>5, JoinOrdered, Zenon
  <2> HIDE DEF lo
  <2>7. /\ Len(lo) = i
        /\ \A k \in DOMAIN lo : \/ k < i /\ k \in DOMAIN s /\ lo[k] = s[k]
                                \/ k = i /\ lo[k] = b
    <3>1. DOMAIN l = 1 .. Len(l) /\ i \in Nat
      BY <1>1, <1>2, <2>1, OrderedFacts
    <3>2. Len(lo) = i
      BY <2>1, <2>3, <2>6, <3>1
    <3>3. \A k \in DOMAIN l : k < i
      BY <2>1, <3>1
    <3>4. DOMAIN lo = 1 .. i
      BY <2>6, <3>2, OrderedFacts
    <3>5. \A k \in DOMAIN lo : k - Len(l) = 1 => k = i
      BY <2>1, <3>1, <3>4
    <3> QED
      BY <2>1, <2>3, <2>6, <3>2, <3>3, <3>5
  <2>8. \A k \in DOMAIN lo : \A j \in DOMAIN r : lo[k].frame <= r[j].frame
    <3>1. \A k \in DOMAIN lo : lo[k].frame \in Nat /\ lo[k].frame <= frame
      <4>1. \A k \in DOMAIN lo : lo[k].frame \in Nat
        BY <2>6, OrderedFacts
      <4>2. \A k \in DOMAIN lo : lo[k].frame < frame \/ lo[k].frame = frame
        BY <1>2, <1>4, <2>7
      <4> QED
        BY <4>1, <4>2
    <3>2. \A j \in DOMAIN r : r[j].frame \in Nat /\ r[j].frame >= frame
      BY <2>2, OrderedFacts
    <3> QED
      BY <3>1, <3>2
  <2>9. /\ Ordered(w) /\ Len(w) = Len(lo) + Len(r)
        /\ \A k \in DOMAIN w : \/ k \in DOMAIN lo /\ w[k] = lo[k]
                               \/ k > Len(lo) /\ k - Len(lo) \in DOMAIN r /\ w[k] = r[k - Len(lo)]
    <3>1. w = lo \o r
      BY <1>3, <1>6
    <3> QED
      <4>1. /\ Ordered(lo \o r) /\ Len(lo \o r) = Len(lo) + Len(r)
            /\ \A k \in DOMAIN (lo \o r) :
                  \/ k \in DOMAIN lo /\ (lo \o r)[k] = lo[k]
                  \/ k > Len(lo) /\ k - Len(lo) \in DOMAIN r /\ (lo \o r)[k] = r[k - Len(lo)]
        BY <2>2, <2>6, <2>8, JoinOrdered, Zenon
      <4> QED
        BY <3>1, <4>1, Zenon
  <2>10. Len(w) = Len(s) + 1 /\ DOMAIN w = 1 .. Len(s) + 1
    <3>1. Len(w) = Len(s) + 1
      BY <1>1, <1>2, <2>2, <2>7, <2>9
    <3> QED
      BY <2>9, <3>1, OrderedFacts
  <2>11. DOMAIN lo = 1 .. i
    BY <2>6, <2>7, OrderedFacts
  <2>12. ASSUME NEW k \in DOMAIN w
         PROVE  /\ k < i => k \in DOMAIN s /\ w[k] = s[k]
                /\ k = i => w[k] = b
                /\ k > i => k - 1 \in DOMAIN s /\ k - 1 >= i /\ w[k] = s[k - 1]
    <3>1. CASE k <= i
      <4>1. k \in DOMAIN lo /\ ~(k > Len(lo)) /\ ~(k > i)
        BY <1>1, <1>2, <2>7, <2>10, <2>11, <3>1
      <4>2. w[k] = lo[k]
        BY <2>9, <4>1
      <4>3. k < i => k # i
        BY <1>1, <1>2, <2>10
      <4>4. k = i => ~(k < i)
        BY <1>1, <1>2, <2>10
      <4> QED
        BY <2>7, <4>1, <4>2, <4>3, <4>4
    <3>2. CASE k > i
      <4>1. k \notin DOMAIN lo /\ k - i - 1 + i = k - 1 /\ ~(k < i) /\ k # i
        BY <1>1, <1>2, <2>10, <2>11, <3>2
      <4>2. k - i \in DOMAIN r /\ w[k] = r[k - i]
        BY <2>7, <2>9, <4>1
      <4>3. k - i - 1 + i \in DOMAIN s /\ k - i - 1 + i >= i /\ r[k - i] = s[k - i - 1 + i]
        BY <2>2, <4>2
      <4> QED
        BY <4>1, <4>2, <4>3
    <3> QED
      BY <1>1, <1>2, <2>10, <3>1, <3>2
  <2>13. i \in DOMAIN w
    BY <1>1, <1>2, <2>10
  <2>14. w[i] = b /\ w[i].frame = frame
    BY <1>4, <2>12, <2>13
  <2> QED
    BY <2>9, <2>10, <2>12, <2>13, <2>14, Zenon DEF i, w, b
<1> QED
  BY <1>5, <1>6

\* A script with a block for another on the same frame.
LEMMA Replacement ==
    ASSUME NEW w, Ordered(w), NEW i \in DOMAIN w, NEW b, IsBlock(b), b.frame = w[i].frame
    PROVE  LET r == SubSeq(w, 1, i - 1) \o <<b>> \o SubSeq(w, i + 1, Len(w))
           IN  /\ Ordered(r) /\ DOMAIN r = DOMAIN w
               /\ \A k \in DOMAIN w : r[k] = IF k = i THEN b ELSE w[k]
<1> DEFINE W == Range(w) \cup {b}
           r == SubSeq(w, 1, i - 1) \o <<b>> \o SubSeq(w, i + 1, Len(w))
<1>1. w \in Seq(Range(w)) /\ Len(w) \in Nat /\ DOMAIN w = 1 .. Len(w)
  BY OrderedFacts
<1>2. Range(w) \subseteq W /\ b \in W
  BY Zenon
<1> HIDE DEF W
<1>3. w \in Seq(W)
  BY <1>1, <1>2, SeqFacts, Zenon
<1>4. i - 1 \in 0 .. Len(w) /\ i + 1 \in 1 .. Len(w) + 1
  BY <1>1
<1>5. r \in Seq(W) /\ Len(r) = Len(w) /\ \A k \in 1 .. Len(w) : r[k] = IF k = i THEN b ELSE w[k]
  <2> DEFINE l == SubSeq(w, 1, i - 1)
             lb == l \o <<b>>
             h == SubSeq(w, i + 1, Len(w))
  <2>1. l \in Seq(W) /\ Len(l) = i - 1 /\ \A k \in 1 .. i - 1 : l[k] = w[k]
    BY <1>1, <1>3, <1>4
  <2>2. h \in Seq(W) /\ Len(h) = Len(w) - i /\ \A k \in 1 .. Len(w) - i : h[k] = w[k + i]
    <3> DEFINE m == i + 1
    <3>1. m \in 1 .. Len(w) + 1
      BY <1>4
    <3> HIDE DEF m
    <3>2. /\ SubSeq(w, m, Len(w)) \in Seq(W)
          /\ Len(SubSeq(w, m, Len(w))) = IF m <= Len(w) THEN Len(w) - m + 1 ELSE 0
          /\ \A k \in 1 .. Len(w) - m + 1 : SubSeq(w, m, Len(w))[k] = w[k - 1 + m]
      BY <1>1, <1>3, <3>1
    <3>3. Len(w) - m + 1 = Len(w) - i /\ \A k \in 1 .. Len(w) - i : k - 1 + m = k + i
      BY <1>1 DEF m
    <3>4. (IF m <= Len(w) THEN Len(w) - m + 1 ELSE 0) = Len(w) - i
      BY <1>1 DEF m
    <3> QED
      BY <3>2, <3>3, <3>4 DEF m
  <2> HIDE DEF l, h
  <2>3. lb \in Seq(W) /\ Len(lb) = i /\ \A k \in 1 .. i : lb[k] = IF k = i THEN b ELSE w[k]
    BY <1>1, <1>2, <2>1
  <2> HIDE DEF lb
  <2>4. /\ lb \o h \in Seq(W) /\ Len(lb \o h) = Len(w)
        /\ \A k \in 1 .. Len(w) : (lb \o h)[k] = IF k <= i THEN lb[k] ELSE h[k - i]
    <3>1. /\ lb \o h \in Seq(W) /\ Len(lb \o h) = Len(lb) + Len(h)
          /\ \A k \in 1 .. Len(lb) + Len(h) :
                (lb \o h)[k] = IF k <= Len(lb) THEN lb[k] ELSE h[k - Len(lb)]
      <4>1. lb \in Seq(W) /\ h \in Seq(W)
        BY <2>2, <2>3
      <4> QED
        BY <4>1
    <3>2. Len(lb) + Len(h) = Len(w)
      BY <1>1, <2>2, <2>3
    <3> QED
      BY <2>3, <3>1, <3>2
  <2>5. \A k \in 1 .. Len(w) : k > i => k - i \in 1 .. Len(w) - i /\ k - i + i = k /\ k # i
    BY <1>1
  <2>6. \A k \in 1 .. Len(w) : (lb \o h)[k] = IF k = i THEN b ELSE w[k]
    <3> SUFFICES ASSUME NEW k \in 1 .. Len(w) PROVE (lb \o h)[k] = IF k = i THEN b ELSE w[k]
      BY Zenon
    <3>1. CASE k <= i
      <4>1. k \in 1 .. i
        BY <1>1, <3>1
      <4> QED
        BY <2>3, <2>4, <3>1, <4>1
    <3>2. CASE k > i
      <4>1. ~(k <= i)
        BY <1>1, <3>2
      <4> QED
        BY <2>2, <2>4, <2>5, <3>2, <4>1, Zenon
    <3>3. k <= i \/ k > i
      BY <1>1
    <3> QED
      BY <3>1, <3>2, <3>3, Zenon
  <2>7. r = lb \o h
    BY DEF l, lb, h
  <2> QED
    BY <2>4, <2>6, <2>7, Zenon
<1> HIDE DEF r
<1>6. DOMAIN r = DOMAIN w /\ \A k \in DOMAIN w : r[k] = IF k = i THEN b ELSE w[k]
  BY <1>1, <1>5, SeqFacts
<1>7. \A k \in DOMAIN r : IsBlock(r[k]) /\ r[k].frame = w[k].frame
  BY <1>6, OrderedFacts
<1>8. \A k, j \in DOMAIN r : k <= j => r[k].frame <= r[j].frame
  BY <1>6, <1>7, OrderedFacts
<1>9. Ordered(r)
  BY <1>5, <1>7, <1>8, OrderedIntro
<1> QED
  BY <1>6, <1>9, Zenon DEF r

\* The block for a frame, after GetBlockForInsertion, replaced by another on the frame.
LEMMA EditOrdered ==
    ASSUME NEW s, Ordered(s), NEW frame \in Nat, NEW b, IsBlock(b), b.frame = frame
    PROVE  LET i == GetBlockIndex(s, frame)
               w == GetBlockForInsertion(s, frame)
               r == SubSeq(w, 1, i - 1) \o <<b>> \o SubSeq(w, i + 1, Len(w))
           IN  Ordered(r) /\ Len(r) >= Len(s)
<1> DEFINE i == GetBlockIndex(s, frame)
           w == GetBlockForInsertion(s, frame)
           r == SubSeq(w, 1, i - 1) \o <<b>> \o SubSeq(w, i + 1, Len(w))
<1>1. Ordered(w) /\ i \in DOMAIN w /\ w[i].frame = frame /\ (w = s \/ Len(w) = Len(s) + 1)
  BY Insertion
<1> HIDE DEF i, w
<1>2. Ordered(r) /\ DOMAIN r = DOMAIN w
  BY <1>1, Replacement
<1> HIDE DEF r
<1>3. /\ Len(s) \in Nat
      /\ Len(w) \in Nat /\ DOMAIN w = 1 .. Len(w)
      /\ Len(r) \in Nat /\ DOMAIN r = 1 .. Len(r)
  BY <1>1, <1>2, OrderedFacts
<1>4. Len(r) = Len(w)
  BY <1>2, <1>3
<1>5. Len(w) >= Len(s)
  <2>1. CASE w = s
    BY <1>3, <2>1
  <2>2. CASE Len(w) = Len(s) + 1
    BY <1>3, <2>2
  <2> QED
    BY <1>1, <2>1, <2>2, Zenon
<1>6. Ordered(r) /\ Len(r) >= Len(s)
  BY <1>2, <1>4, <1>5, Zenon
<1> QED
  BY <1>6, Zenon DEF i, w, r

\* AddCvar, AddToggle and AddCommand keep the order and lose no block.
LEMMA AddOrdered ==
    ASSUME NEW s, Ordered(s), NEW cmd, NEW value, NEW frame \in Nat
    PROVE  /\ Ordered(AddCvar(s, cmd, value, frame)) /\ Len(AddCvar(s, cmd, value, frame)) >= Len(s)
           /\ Ordered(AddToggle(s, cmd, value, frame))
           /\ Ordered(AddCommand(s, cmd, frame))
<1> DEFINE i == GetBlockIndex(s, frame)
           w == GetBlockForInsertion(s, frame)
           b == w[i]
           Edited(c) == SubSeq(w, 1, i - 1) \o <<c>> \o SubSeq(w, i + 1, Len(w))
<1>1. Ordered(w) /\ i \in DOMAIN w /\ b.frame = frame
  BY Insertion, Zenon
<1>2. ASSUME NEW c, IsBlock(c), c.frame = frame PROVE Ordered(Edited(c)) /\ Len(Edited(c)) >= Len(s)
  BY <1>2, EditOrdered, Zenon
<1> DEFINE cvar == [b EXCEPT !.convars = With(@, cmd, value)]
           toggle == [b EXCEPT !.toggles = With(@, cmd, value)]
           command == [b EXCEPT !.commands = Append(@, cmd)]
<1>3. /\ AddCvar(s, cmd, value, frame) = Edited(cvar)
      /\ AddToggle(s, cmd, value, frame) = Edited(toggle)
      /\ AddCommand(s, cmd, frame) = Edited(command)
  BY Zenon DEF AddCvar, AddToggle, AddCommand, EditBlock
<1> HIDE DEF Edited, i, w
<1>4. IsBlock(b)
  BY <1>1, OrderedFacts, Zenon
<1> HIDE DEF b
<1>5. IsBlock(cvar) /\ cvar.frame = frame /\ IsBlock(toggle) /\ toggle.frame = frame
  <2> DEFINE c == With(b.convars, cmd, value)
             t == With(b.toggles, cmd, value)
  <2>1. IsEntries(b.convars) /\ IsEntries(b.toggles)
    BY <1>4 DEF IsBlock
  <2>2. IsEntries(c) /\ IsEntries(t)
    BY <2>1, EntriesFinite
  <2> HIDE DEF c, t
  <2>3. /\ IsBlock([b EXCEPT !.convars = c]) /\ [b EXCEPT !.convars = c].frame = b.frame
        /\ IsBlock([b EXCEPT !.toggles = t]) /\ [b EXCEPT !.toggles = t].frame = b.frame
    BY <1>4, <2>2, ChangedIsBlock, Zenon
  <2> QED
    BY <1>1, <2>3 DEF c, t, b
<1>6. IsBlock(command) /\ command.frame = frame
  <2> DEFINE c == Append(b.commands, cmd)
             C == Range(b.commands)
  <2>1. b.commands \in Seq(C)
    BY <1>4 DEF IsBlock
  <2> HIDE DEF C
  <2>2. c \in Seq(C \cup {cmd})
    <3>1. b.commands \in Seq(C \cup {cmd})
      BY <2>1, SeqFacts
    <3> QED
      BY <3>1
  <2> HIDE DEF c
  <2>3. c \in Seq(Range(c))
    BY <2>2, OwnValues
  <2>4. IsBlock([b EXCEPT !.commands = c]) /\ [b EXCEPT !.commands = c].frame = b.frame
    BY <1>4, <2>3, ChangedIsBlock, Zenon
  <2> QED
    BY <1>1, <2>4 DEF c, b
<1> HIDE DEF cvar, toggle, command
<1> QED
  BY <1>2, <1>3, <1>5, <1>6

\* As many blocks as a script in order has, with frames that do not decrease.
LEMMA MovedOrdered ==
    ASSUME NEW s, Ordered(s), NEW r, DOMAIN r = DOMAIN s, r = [k \in DOMAIN r |-> r[k]],
           \A k \in DOMAIN s : IsBlock(r[k]),
           \A k, j \in DOMAIN s : k <= j => r[k].frame <= r[j].frame
    PROVE  Ordered(r)
<1> DEFINE R == Range(r)
<1>1. Len(s) \in Nat /\ DOMAIN s = 1 .. Len(s)
  BY OrderedFacts
<1>2. r \in [1 .. Len(s) -> R]
  BY <1>1 DEF Range
<1> HIDE DEF R
<1>3. r \in Seq(R)
  BY <1>1, <1>2
<1> QED
  BY <1>3, OrderedIntro

\* A script of which the blocks changed but not their frames.
LEMMA MapOrdered ==
    ASSUME NEW s, Ordered(s), NEW r, DOMAIN r = DOMAIN s, r = [k \in DOMAIN r |-> r[k]],
           \A k \in DOMAIN s : IsBlock(r[k]) /\ r[k].frame = s[k].frame
    PROVE  Ordered(r)
<1>1. \A k, j \in DOMAIN s : k <= j => s[k].frame <= s[j].frame
  BY OrderedFacts, Zenon
<1> QED
  BY <1>1, MovedOrdered

\* RemoveCvarsFromRange and RemoveTogglesFromRange keep the order.
LEMMA RemoveOrdered ==
    ASSUME NEW s, Ordered(s), NEW name, NEW lo, NEW hi
    PROVE  Ordered(RemoveCvarsFromRange(s, name, lo, hi)) /\ Ordered(RemoveTogglesFromRange(s, name, lo, hi))
<1> DEFINE c == RemoveCvarsFromRange(s, name, lo, hi)
           t == RemoveTogglesFromRange(s, name, lo, hi)
           C(b) == [b EXCEPT !.convars = Without(@, name)]
           T(b) == [b EXCEPT !.toggles = Without(@, name)]
<1>1. c = [k \in DOMAIN s |-> IF s[k].frame \in lo .. hi THEN C(s[k]) ELSE s[k]]
  BY DEF RemoveCvarsFromRange
<1>2. t = [k \in DOMAIN s |-> IF s[k].frame \in lo .. hi THEN T(s[k]) ELSE s[k]]
  BY DEF RemoveTogglesFromRange
<1>3. ASSUME NEW b, IsBlock(b)
      PROVE  IsBlock(C(b)) /\ C(b).frame = b.frame /\ IsBlock(T(b)) /\ T(b).frame = b.frame
  <2> DEFINE x == Without(b.convars, name)
             y == Without(b.toggles, name)
  <2>1. IsEntries(b.convars) /\ IsEntries(b.toggles)
    BY <1>3 DEF IsBlock
  <2>2. IsEntries(x) /\ IsEntries(y)
    BY <2>1, EntriesFinite
  <2> HIDE DEF x, y
  <2>3. /\ IsBlock([b EXCEPT !.convars = x]) /\ [b EXCEPT !.convars = x].frame = b.frame
        /\ IsBlock([b EXCEPT !.toggles = y]) /\ [b EXCEPT !.toggles = y].frame = b.frame
    BY <1>3, <2>2, ChangedIsBlock, Zenon
  <2> QED
    BY <2>3 DEF x, y
<1> HIDE DEF c, t, C, T
<1>4. \A k \in DOMAIN s : IsBlock(s[k])
  BY OrderedFacts, Zenon
<1>5. DOMAIN c = DOMAIN s /\ \A k \in DOMAIN s : IsBlock(c[k]) /\ c[k].frame = s[k].frame
  BY <1>1, <1>3, <1>4
<1>6. DOMAIN t = DOMAIN s /\ \A k \in DOMAIN s : IsBlock(t[k]) /\ t[k].frame = s[k].frame
  BY <1>2, <1>3, <1>4
<1>7. Ordered(c)
  <2>1. c = [k \in DOMAIN c |-> c[k]]
    BY <1>1
  <2> QED
    BY <1>5, <2>1, MapOrdered
<1>8. Ordered(t)
  <2>1. t = [k \in DOMAIN t |-> t[k]]
    BY <1>2
  <2> QED
    BY <1>6, <2>1, MapOrdered
<1> QED
  BY <1>7, <1>8 DEF c, t

-----------------------------------------------------------------------------
(* Shifting blocks, shots and scripts added to a script.                     *)

\* MinDelta: a block that moves left no further keeps behind its predecessor.
LEMMA LeftLimit ==
    ASSUME NEW s, Ordered(s), NEW i \in DOMAIN s, NEW d \in Int, d >= MinDelta(s, i)
    PROVE  /\ s[i].frame + d \in Nat
           /\ \A k \in DOMAIN s : k < i => s[k].frame <= s[i].frame + d
<1>1. /\ Len(s) \in Nat /\ DOMAIN s = 1 .. Len(s)
      /\ \A k \in DOMAIN s : s[k].frame \in Nat
      /\ \A k, j \in DOMAIN s : k <= j => s[k].frame <= s[j].frame
  BY OrderedFacts, Zenon
<1>2. CASE i = 1
  <2>1. MinDelta(s, i) = 0 - s[i].frame
    BY <1>2 DEF MinDelta
  <2>2. \A k \in DOMAIN s : ~(k < i)
    BY <1>1, <1>2
  <2> QED
    BY <1>1, <2>1, <2>2
<1>3. CASE i # 1
  <2> DEFINE p == i - 1
  <2>1. p \in DOMAIN s /\ \A k \in DOMAIN s : k < i => k <= p
    BY <1>1, <1>3
  <2>2. MinDelta(s, i) = s[p].frame - s[i].frame
    BY <1>3 DEF MinDelta
  <2> HIDE DEF p
  <2>3. s[p].frame \in Nat /\ s[i].frame \in Nat
    BY <1>1, <2>1
  <2>4. s[p].frame <= s[i].frame + d
    BY <2>2, <2>3
  <2>5. ASSUME NEW k \in DOMAIN s, k < i PROVE s[k].frame <= s[i].frame + d
    <3>1. s[k].frame <= s[p].frame /\ s[k].frame \in Nat
      BY <1>1, <2>1, <2>5
    <3> QED
      BY <2>3, <2>4, <3>1
  <2> QED
    BY <2>3, <2>4, <2>5
<1> QED
  BY <1>2, <1>3

\* MinDelta is a move to the left, or none.
LEMMA MinDeltaFacts ==
    ASSUME NEW s, Ordered(s), NEW i \in DOMAIN s
    PROVE  MinDelta(s, i) \in Int /\ MinDelta(s, i) <= 0
<1>1. /\ Len(s) \in Nat /\ DOMAIN s = 1 .. Len(s)
      /\ \A k \in DOMAIN s : s[k].frame \in Nat
      /\ \A k, j \in DOMAIN s : k <= j => s[k].frame <= s[j].frame
  BY OrderedFacts, Zenon
<1>2. CASE i = 1
  BY <1>1, <1>2 DEF MinDelta
<1>3. CASE i # 1
  <2>1. i - 1 \in DOMAIN s /\ i - 1 <= i
    BY <1>1, <1>3
  <2>2. s[i - 1].frame \in Nat /\ s[i].frame \in Nat /\ s[i - 1].frame <= s[i].frame
    BY <1>1, <2>1
  <2> QED
    BY <1>3, <2>2 DEF MinDelta
<1> QED
  BY <1>2, <1>3

\* ShiftSingleBlock keeps the order: the block stays between its neighbours.
LEMMA ShiftSingleOrdered ==
    ASSUME NEW s, Ordered(s), NEW i \in DOMAIN s, NEW delta \in Int
    PROVE  Ordered(ShiftSingleBlock(s, i, delta))
<1> DEFINE d == IF delta < 0 THEN MaxOf(delta, MinDelta(s, i))
                ELSE IF i = Len(s) THEN delta
                ELSE MinOf(delta, s[i + 1].frame - s[i].frame)
           x == s[i].frame + d
           b == [s[i] EXCEPT !.frame = x]
           r == [s EXCEPT ![i] = b]
<1>1. ShiftSingleBlock(s, i, delta) = [s EXCEPT ![i].frame = @ + d]
  BY DEF ShiftSingleBlock
<1>2. [s EXCEPT ![i].frame = @ + d] = r
  OBVIOUS
<1>3. /\ s \in Seq(Range(s))
      /\ Len(s) \in Nat /\ DOMAIN s = 1 .. Len(s)
      /\ \A k \in DOMAIN s : IsBlock(s[k]) /\ s[k].frame \in Nat
      /\ \A k, j \in DOMAIN s : k <= j => s[k].frame <= s[j].frame
  BY OrderedFacts, Zenon
<1>4. MinDelta(s, i) \in Int /\ MinDelta(s, i) <= 0
  BY MinDeltaFacts
<1>5. i # Len(s) => /\ i + 1 \in DOMAIN s /\ i <= i + 1
                    /\ \A k \in DOMAIN s : k > i => i + 1 <= k
  BY <1>3
<1>6. i # Len(s) => s[i + 1].frame \in Nat /\ s[i].frame <= s[i + 1].frame
  BY <1>3, <1>5
<1>7. /\ d \in Int /\ d >= MinDelta(s, i)
      /\ i # Len(s) => d <= s[i + 1].frame - s[i].frame
  <2>1. s[i].frame \in Nat
    BY <1>3
  <2> DEFINE m == MinDelta(s, i)
             n == s[i + 1].frame
  <2>2. m \in Int /\ m <= 0 /\ (i # Len(s) => n \in Nat /\ s[i].frame <= n)
    BY <1>4, <1>6
  <2> HIDE DEF m, n
  <2>3. CASE delta < 0
    <3>1. d = MaxOf(delta, m)
      BY <2>3 DEF m
    <3> HIDE DEF d
    <3> QED
      BY <2>1, <2>2, <2>3, <3>1 DEF MaxOf, m, n
  <2>4. CASE ~(delta < 0) /\ i = Len(s)
    BY <2>2, <2>4 DEF m
  <2>5. CASE ~(delta < 0) /\ i # Len(s)
    <3>1. d = MinOf(delta, n - s[i].frame)
      BY <2>5 DEF n
    <3> HIDE DEF d
    <3> QED
      BY <2>1, <2>2, <2>5, <3>1 DEF MinOf, m, n
  <2> QED
    BY <2>3, <2>4, <2>5, Zenon
<1> HIDE DEF d
<1>8. x \in Nat /\ \A k \in DOMAIN s : k < i => s[k].frame <= x
  BY <1>7, LeftLimit
<1>9. ASSUME NEW k \in DOMAIN s, k > i PROVE x <= s[k].frame
  <2>1. i # Len(s)
    BY <1>3, <1>9
  <2>2. s[i + 1].frame <= s[k].frame /\ s[k].frame \in Nat /\ s[i].frame \in Nat
    BY <1>3, <1>5, <1>9, <2>1
  <2> QED
    BY <1>6, <1>7, <2>1, <2>2
<1> HIDE DEF x
<1>10. IsBlock(b) /\ b.frame = x
  BY <1>3, <1>8, ChangedIsBlock, Zenon
<1> HIDE DEF b
<1>11. r = [k \in DOMAIN s |-> IF k = i THEN b ELSE s[k]]
  OBVIOUS
<1> HIDE DEF r
<1>12. \A k \in DOMAIN s : IsBlock(r[k])
  BY <1>3, <1>10, <1>11
<1>13. ASSUME NEW k \in DOMAIN s, NEW j \in DOMAIN s, k <= j PROVE r[k].frame <= r[j].frame
  <2>1. r[i].frame = x /\ \A l \in DOMAIN s : l # i => r[l].frame = s[l].frame
    BY <1>10, <1>11
  <2>2. CASE k = i
    <3>1. CASE j = i
      BY <1>8, <2>1, <2>2, <3>1
    <3>2. CASE j # i
      <4>1. j > i
        BY <1>3, <1>13, <2>2, <3>2
      <4> QED
        BY <1>9, <2>1, <2>2, <3>2, <4>1
    <3> QED
      BY <3>1, <3>2
  <2>3. CASE k # i
    <3>1. CASE j = i
      <4>1. k < i
        BY <1>3, <1>13, <2>3, <3>1
      <4> QED
        BY <1>8, <2>1, <2>3, <3>1, <4>1
    <3>2. CASE j # i
      BY <1>3, <1>13, <2>1, <2>3, <3>2
    <3> QED
      BY <3>1, <3>2
  <2> QED
    BY <2>2, <2>3
<1>14. Ordered(r)
  <2>1. DOMAIN r = DOMAIN s /\ r = [k \in DOMAIN r |-> r[k]]
    BY <1>11
  <2> QED
    BY <1>12, <1>13, <2>1, MovedOrdered
<1> QED
  BY <1>1, <1>2, <1>14, Zenon

\* ShiftBlocks keeps the order: the blocks from the index on move together.
LEMMA ShiftBlocksOrdered ==
    ASSUME NEW s, Ordered(s), NEW i \in DOMAIN s, NEW delta \in Int
    PROVE  Ordered(ShiftBlocks(s, i, delta))
<1> DEFINE d == IF delta < 0 THEN MaxOf(delta, MinDelta(s, i)) ELSE delta
           moved(k) == [s[k] EXCEPT !.frame = s[k].frame + d]
           r == ShiftBlocks(s, i, delta)
<1>1. r = [k \in DOMAIN s |-> IF k >= i THEN moved(k) ELSE s[k]]
  BY DEF ShiftBlocks
<1>2. /\ Len(s) \in Nat /\ DOMAIN s = 1 .. Len(s)
      /\ \A k \in DOMAIN s : IsBlock(s[k]) /\ s[k].frame \in Nat
      /\ \A k, j \in DOMAIN s : k <= j => s[k].frame <= s[j].frame
  BY OrderedFacts, Zenon
<1>3. MinDelta(s, i) \in Int /\ MinDelta(s, i) <= 0
  BY MinDeltaFacts
<1>4. d \in Int /\ d >= MinDelta(s, i)
  BY <1>3 DEF MaxOf
<1> HIDE DEF d
<1>5. s[i].frame + d \in Nat /\ \A k \in DOMAIN s : k < i => s[k].frame <= s[i].frame + d
  BY <1>4, LeftLimit
<1>6. ASSUME NEW k \in DOMAIN s, k >= i
      PROVE  s[k].frame + d \in Nat /\ s[i].frame + d <= s[k].frame + d
  <2>1. s[i].frame <= s[k].frame /\ s[i].frame \in Nat /\ s[k].frame \in Nat
    BY <1>2, <1>6
  <2> QED
    BY <1>4, <1>5, <2>1
<1>7. ASSUME NEW k \in DOMAIN s, k >= i
      PROVE  IsBlock(moved(k)) /\ moved(k).frame = s[k].frame + d
  <2>1. IsBlock(s[k]) /\ s[k].frame + d \in Nat
    BY <1>2, <1>6, <1>7
  <2> QED
    BY <2>1, ChangedIsBlock, Zenon
<1> HIDE DEF moved
<1>8. \A k \in DOMAIN s : (k >= i \/ k < i) /\ (k < i => ~(k >= i))
  BY <1>2
<1> HIDE DEF r
<1>9. \A k \in DOMAIN s : IsBlock(r[k])
  BY <1>1, <1>2, <1>7
<1>10. ASSUME NEW k \in DOMAIN s, NEW j \in DOMAIN s, k <= j PROVE r[k].frame <= r[j].frame
  <2>1. CASE k >= i
    <3>1. j >= i /\ s[k].frame <= s[j].frame /\ s[k].frame \in Nat /\ s[j].frame \in Nat
      BY <1>2, <1>10, <2>1
    <3>2. r[k].frame = s[k].frame + d /\ r[j].frame = s[j].frame + d
      BY <1>1, <1>7, <2>1, <3>1
    <3> QED
      BY <1>4, <3>1, <3>2
  <2>2. CASE k < i /\ j >= i
    <3>1. r[k].frame = s[k].frame /\ r[j].frame = s[j].frame + d
      BY <1>1, <1>7, <1>8, <2>2
    <3>2. s[k].frame \in Nat /\ s[j].frame + d \in Nat
      BY <1>2, <1>6, <2>2
    <3> QED
      BY <1>5, <1>6, <2>2, <3>1, <3>2
  <2>3. CASE k < i /\ j < i
    BY <1>1, <1>2, <1>8, <1>10, <2>3
  <2> QED
    BY <1>8, <2>1, <2>2, <2>3
<1>11. Ordered(r)
  <2>1. DOMAIN r = DOMAIN s /\ r = [k \in DOMAIN r |-> r[k]]
    BY <1>1
  <2> QED
    BY <1>9, <1>10, <2>1, MovedOrdered
<1> QED
  BY <1>11 DEF r

\* The frames of a shot are natural numbers.
LEMMA ShotFrames ==
    ASSUME NEW frame \in Nat, NEW turn_frames \in Nat
    PROVE  /\ TurnFrame(frame, turn_frames) \in Nat
           /\ ShootFrame(frame) \in Nat /\ ShootOffFrame(frame) \in Nat
  BY LibraryAssumption DEF TurnFrame, ShootFrame, ShootOffFrame, MaxOf

\* AddShot and RemoveShot keep the order.
LEMMA ShotOrdered ==
    ASSUME NEW s, Ordered(s), NEW pitch, NEW yaw, NEW frame \in Nat, NEW turn_frames \in Nat
    PROVE  /\ Ordered(AddShot(s, pitch, yaw, frame, turn_frames).blocks)
           /\ Ordered(RemoveShot(s, frame, turn_frames))
<1> DEFINE turn == TurnFrame(frame, turn_frames)
           shoot == ShootFrame(frame)
           off == ShootOffFrame(frame)
<1>1. turn \in Nat /\ shoot \in Nat /\ off \in Nat
  BY ShotFrames, Zenon
<1> HIDE DEF turn, shoot, off
<1>2. Ordered(PlaceShot(s, pitch, yaw, frame, turn_frames))
  <2> DEFINE noyaw   == RemoveCvarsFromRange(s, "tas_view_yaw", turn - CLEAR_RANGE, turn + CLEAR_RANGE)
             noview  == RemoveCvarsFromRange(noyaw, "tas_view_pitch", turn - CLEAR_RANGE, turn + CLEAR_RANGE)
             cleared == RemoveTogglesFromRange(noview, "attack", shoot - CLEAR_RANGE, off + CLEAR_RANGE)
             turned  == AddCvar(cleared, "tas_view_yaw", yaw, turn)
             view    == AddCvar(turned, "tas_view_pitch", pitch, turn)
             pressed == AddToggle(view, "attack", TRUE, shoot)
             placed  == AddToggle(pressed, "attack", FALSE, off)
  <2>1. PlaceShot(s, pitch, yaw, frame, turn_frames) = Prune(placed, turn - CLEAR_RANGE, off + CLEAR_RANGE)
    BY DEF PlaceShot, turn, shoot, off
  <2>2. Ordered(noyaw)
    BY RemoveOrdered
  <2> HIDE DEF noyaw
  <2>3. Ordered(noview)
    BY <2>2, RemoveOrdered
  <2> HIDE DEF noview
  <2>4. Ordered(cleared)
    BY <2>3, RemoveOrdered
  <2> HIDE DEF cleared
  <2>5. Ordered(turned)
    BY <1>1, <2>4, AddOrdered
  <2> HIDE DEF turned
  <2>6. Ordered(view)
    BY <1>1, <2>5, AddOrdered
  <2> HIDE DEF view
  <2>7. Ordered(pressed)
    BY <1>1, <2>6, AddOrdered, Zenon
  <2> HIDE DEF pressed
  <2>8. Ordered(placed)
    BY <1>1, <2>7, AddOrdered, Zenon
  <2> HIDE DEF placed
  <2> QED
    BY <2>1, <2>8, KeepOrdered DEF Prune
<1>3. Ordered(AddShot(s, pitch, yaw, frame, turn_frames).blocks)
  BY <1>2 DEF AddShot
<1>4. Ordered(RemoveShot(s, frame, turn_frames))
  <2> DEFINE noyaw  == RemoveCvarsFromRange(s, "tas_view_yaw", turn, turn)
             noview == RemoveCvarsFromRange(noyaw, "tas_view_pitch", turn, turn)
             noshot == RemoveTogglesFromRange(noview, "attack", shoot, off)
  <2>1. RemoveShot(s, frame, turn_frames) = Prune(noshot, turn, off)
    BY DEF RemoveShot, turn, shoot, off
  <2>2. Ordered(noyaw)
    BY RemoveOrdered
  <2> HIDE DEF noyaw
  <2>3. Ordered(noview)
    BY <2>2, RemoveOrdered
  <2> HIDE DEF noview
  <2>4. Ordered(noshot)
    BY <2>3, RemoveOrdered
  <2> HIDE DEF noshot
  <2> QED
    BY <2>1, <2>4, KeepOrdered DEF Prune
<1> QED
  BY <1>3, <1>4

\* What StackAll has stacked after each of the blocks.
LEMMA StackSteps ==
    ASSUME NEW s, Len(s) \in Nat
    PROVE  \E f : /\ f[0] = NewBlock(0)
                  /\ \A i \in 1 .. Len(s) : f[i] = Stack(f[i - 1], s[i])
                  /\ StackAll(s) = f[Len(s)]
<1> DEFINE n == Len(s)
           Step(x, i) == Stack(x, s[i])
           Good(g, m) == g[0] = NewBlock(0) /\ \A i \in 1 .. m : g[i] = Step(g[i - 1], i)
           G == {m \in 0 .. n : \E g : Good(g, m)}
           Eq(f) == f = [i \in 0 .. n |-> IF i = 0 THEN NewBlock(0) ELSE Step(f[i - 1], i)]
           F == CHOOSE f : Eq(f)
<1>0. StackAll(s) = F[n]
  BY DEF StackAll
<1> HIDE DEF Step
<1>1. 0 \in G
  <2> DEFINE g == [i \in {0} |-> NewBlock(0)]
  <2>1. Good(g, 0)
    OBVIOUS
  <2> HIDE DEF g, Good
  <2> QED
    BY <2>1
<1>2. ASSUME NEW m \in 1 .. n, m - 1 \in G PROVE m \in G
  <2>1. PICK g : Good(g, m - 1)
    BY <1>2
  <2> DEFINE h == [i \in 0 .. m |-> IF i = m THEN Step(g[m - 1], m) ELSE g[i]]
  <2>2. h[0] = NewBlock(0)
    BY <2>1
  <2>3. ASSUME NEW i \in 1 .. m PROVE h[i] = Step(h[i - 1], i)
    BY <2>1
  <2> HIDE DEF h
  <2>4. Good(h, m)
    BY <2>2, <2>3
  <2> HIDE DEF Good
  <2> QED
    BY <2>4
<1> HIDE DEF G
<1>3. n \in G
  BY <1>1, <1>2, UpTo, Zenon
<1>4. PICK g : Good(g, n)
  BY <1>3 DEF G
<1> DEFINE h == [i \in 0 .. n |-> g[i]]
<1>5. Eq(h)
  BY <1>4
<1>6. Eq(F)
  BY <1>5, Zenon
<1> HIDE DEF F
<1>7. F[0] = NewBlock(0) /\ \A i \in 1 .. n : F[i] = Step(F[i - 1], i)
  BY <1>6
<1> QED
  BY <1>0, <1>7 DEF Step

\* Stacking blocks makes a block on frame 0.
LEMMA StackAllIsBlock ==
    ASSUME NEW s, Len(s) \in Nat, \A i \in 1 .. Len(s) : IsBlock(s[i])
    PROVE  IsBlock(StackAll(s)) /\ StackAll(s).frame = 0
<1>1. PICK f : /\ f[0] = NewBlock(0)
               /\ \A i \in 1 .. Len(s) : f[i] = Stack(f[i - 1], s[i])
               /\ StackAll(s) = f[Len(s)]
  BY StackSteps
<1> DEFINE G == {i \in 0 .. Len(s) : IsBlock(f[i]) /\ f[i].frame = 0}
<1>2. 0 \in G
  <2>1. 0 \in 0 .. Len(s) /\ 0 \in Nat
    OBVIOUS
  <2> QED
    BY <1>1, <2>1, NewIsBlock
<1>3. ASSUME NEW i \in 1 .. Len(s), i - 1 \in G PROVE i \in G
  <2>1. IsBlock(f[i - 1]) /\ f[i - 1].frame = 0 /\ IsBlock(s[i])
    BY <1>3
  <2>2. IsBlock(Stack(f[i - 1], s[i])) /\ Stack(f[i - 1], s[i]).frame = 0
    BY <2>1, StackIsBlock, Zenon
  <2>3. i \in 0 .. Len(s)
    OBVIOUS
  <2> QED
    BY <1>1, <2>2, <2>3
<1> HIDE DEF G
<1>4. Len(s) \in G
  BY <1>2, <1>3, UpTo, Zenon
<1> QED
  BY <1>1, <1>4 DEF G

\* GetTimeShiftedVersion makes a script in order.
LEMMA TimeShiftedOrdered ==
    ASSUME NEW s, Ordered(s), NEW start_frame \in Nat
    PROVE  Ordered(GetTimeShiftedVersion(s, start_frame))
<1> DEFINE past    == RemoveBlocksAfterFrame(s, start_frame)
           future  == Keep(s, {i \in DOMAIN s : s[i].frame > start_frame})
           at      == Keep(past, {i \in DOMAIN past : past[i].frame = start_frame})
           cmds    == IF at = <<>> THEN <<>> ELSE at[Len(at)].commands
           stacked == [StackAll(past) EXCEPT !.commands = cmds]
           back(i) == [future[i] EXCEPT !.frame = future[i].frame - start_frame]
           moved   == [i \in DOMAIN future |-> back(i)]
<1>1. GetTimeShiftedVersion(s, start_frame) = <<stacked>> \o moved
  BY DEF GetTimeShiftedVersion
<1>2. Ordered(past)
  BY KeepOrdered DEF RemoveBlocksAfterFrame
<1> HIDE DEF past
<1>3. Ordered(at)
  BY <1>2, KeepOrdered
<1> HIDE DEF at
<1>4. cmds \in Seq(Range(cmds))
  <2>1. CASE at = <<>>
    <3>1. cmds = <<>>
      BY <2>1
    <3> HIDE DEF cmds
    <3> QED
      BY <3>1
  <2>2. CASE at # <<>>
    <3>1. /\ at \in Seq(Range(at))
          /\ Len(at) \in Nat /\ DOMAIN at = 1 .. Len(at) /\ \A k \in DOMAIN at : IsBlock(at[k])
      BY <1>3, OrderedFacts, Zenon
    <3>2. Len(at) # 0
      BY <2>2, <3>1
    <3>3. Len(at) \in DOMAIN at
      BY <3>1, <3>2
    <3>4. IsBlock(at[Len(at)])
      BY <3>1, <3>3
    <3>5. cmds = at[Len(at)].commands
      BY <2>2
    <3> HIDE DEF cmds
    <3> QED
      BY <3>4, <3>5 DEF IsBlock
  <2> QED
    BY <2>1, <2>2
<1> HIDE DEF cmds
<1>5. IsBlock(stacked) /\ stacked.frame = 0
  <2>1. Len(past) \in Nat /\ \A i \in 1 .. Len(past) : IsBlock(past[i])
    BY <1>2, OrderedFacts, Zenon
  <2>2. IsBlock(StackAll(past)) /\ StackAll(past).frame = 0
    BY <2>1, StackAllIsBlock
  <2> QED
    BY <1>4, <2>2, ChangedIsBlock, Zenon
<1> HIDE DEF stacked
<1>6. Ordered(future) /\ \A i \in DOMAIN future : future[i].frame > start_frame
  <2> DEFINE late == {i \in DOMAIN s : s[i].frame > start_frame}
  <2>1. \A j \in late : s[j].frame > start_frame
    OBVIOUS
  <2> HIDE DEF late
  <2>2. Ordered(Keep(s, late)) /\ \A k \in DOMAIN Keep(s, late) : \E j \in DOMAIN s : j \in late /\ Keep(s, late)[k] = s[j]
    BY KeepOrdered
  <2>3. future = Keep(s, late)
    BY DEF late
  <2> HIDE DEF future
  <2> QED
    BY <2>1, <2>2, <2>3
<1> HIDE DEF future
<1>7. /\ \A i \in DOMAIN future : IsBlock(future[i]) /\ future[i].frame \in Nat
      /\ \A i, j \in DOMAIN future : i <= j => future[i].frame <= future[j].frame
  BY <1>6, OrderedFacts, Zenon
<1>8. ASSUME NEW i \in DOMAIN future
      PROVE  /\ future[i].frame - start_frame \in Nat
             /\ IsBlock(back(i)) /\ back(i).frame = future[i].frame - start_frame
  <2>1. IsBlock(future[i]) /\ future[i].frame - start_frame \in Nat
    BY <1>6, <1>7
  <2> QED
    BY <2>1, ChangedIsBlock, Zenon
<1> HIDE DEF back
<1>9. DOMAIN moved = DOMAIN future /\ moved = [i \in DOMAIN moved |-> moved[i]] /\ \A i \in DOMAIN future : moved[i] = back(i)
  OBVIOUS
<1> HIDE DEF moved
<1>10. \A i, j \in DOMAIN future : i <= j => moved[i].frame <= moved[j].frame
  BY <1>7, <1>8, <1>9
<1>11. Ordered(moved) /\ \A i \in DOMAIN moved : moved[i].frame \in Nat
  BY <1>6, <1>8, <1>9, <1>10, MovedOrdered
<1>12. Ordered(<<stacked>>) /\ Len(<<stacked>>) = 1 /\ DOMAIN <<stacked>> = {1} /\ <<stacked>>[1] = stacked
  BY <1>5, OneOrdered, Zenon
<1> DEFINE o == <<stacked>>
<1> HIDE DEF o
<1>13. \A i \in DOMAIN o : \A j \in DOMAIN moved : o[i].frame <= moved[j].frame
  BY <1>5, <1>11, <1>12 DEF o
<1>14. Ordered(o \o moved)
  BY <1>11, <1>12, <1>13, JoinOrdered, Zenon DEF o
<1> QED
  BY <1>1, <1>14 DEF o

\* AddScript keeps the order: the other script starts on the frame.
LEMMA AddScriptOrdered ==
    ASSUME NEW s, Ordered(s), NEW script, Ordered(script), NEW frame \in Nat
    PROVE  Ordered(AddScript(s, script, frame))
<1> DEFINE at(i)  == [script[i] EXCEPT !.frame = script[i].frame + frame]
           moved  == [i \in DOMAIN script |-> at(i)]
           before == BlocksBefore(s, frame)
           full   == {i \in DOMAIN moved : ~Contentless(moved[i])}
           kept   == Keep(moved, full)
<1>1. AddScript(s, script, frame) = before \o kept
  BY DEF AddScript
<1>2. Ordered(before) /\ \A k \in DOMAIN before : before[k].frame < frame
  BY BeforeOrdered, Zenon
<1> HIDE DEF before
<1>3. /\ \A i \in DOMAIN script : IsBlock(script[i]) /\ script[i].frame \in Nat
      /\ \A i, j \in DOMAIN script : i <= j => script[i].frame <= script[j].frame
  BY OrderedFacts, Zenon
<1>4. ASSUME NEW i \in DOMAIN script
      PROVE  /\ script[i].frame + frame \in Nat /\ script[i].frame + frame >= frame
             /\ IsBlock(at(i)) /\ at(i).frame = script[i].frame + frame
  <2>1. IsBlock(script[i]) /\ script[i].frame + frame \in Nat /\ script[i].frame + frame >= frame
    BY <1>3
  <2> QED
    BY <2>1, ChangedIsBlock, Zenon
<1> HIDE DEF at
<1>5. DOMAIN moved = DOMAIN script /\ moved = [i \in DOMAIN moved |-> moved[i]] /\ \A i \in DOMAIN script : moved[i] = at(i)
  OBVIOUS
<1> HIDE DEF moved
<1>6. \A i, j \in DOMAIN script : i <= j => moved[i].frame <= moved[j].frame
  BY <1>3, <1>4, <1>5
<1>7. Ordered(moved) /\ \A i \in DOMAIN moved : moved[i].frame \in Nat /\ moved[i].frame >= frame
  BY <1>4, <1>5, <1>6, MovedOrdered
<1> HIDE DEF full
<1>8. Ordered(kept) /\ \A k \in DOMAIN kept : \E j \in DOMAIN moved : j \in full /\ kept[k] = moved[j]
  BY <1>7, KeepOrdered
<1> HIDE DEF kept
<1>9. \A i \in DOMAIN before : \A j \in DOMAIN kept : before[i].frame <= kept[j].frame
  <2>1. \A i \in DOMAIN before : before[i].frame \in Nat
    BY <1>2, OrderedFacts, Zenon
  <2>2. \A j \in DOMAIN kept : kept[j].frame \in Nat /\ kept[j].frame >= frame
    BY <1>7, <1>8
  <2> QED
    BY <1>2, <2>1, <2>2
<1>10. Ordered(before \o kept)
  BY <1>2, <1>8, <1>9, JoinOrdered, Zenon
<1> QED
  BY <1>1, <1>10, Zenon

-----------------------------------------------------------------------------
\* The inductive invariant: the blocks of the script are blocks, in order.
InOrder == Ordered(blocks)

\* A script starts in order, as the loader makes it.
LEMMA InitInOrder == Init => InOrder
  BY LibraryAssumption DEF Init, InOrder

\* Every operation keeps the order.
LEMMA StepInOrder == InOrder /\ [Next]_vars => InOrder'
<1> SUFFICES ASSUME Ordered(blocks), [Next]_vars PROVE Ordered(blocks')
  BY DEF InOrder
<1>1. \A x \in Frames : x \in Nat
  BY LibraryAssumption
<1>2. \A x \in TurnFrames : x \in Nat
  BY LibraryAssumption
<1>3. \A x \in Deltas : x \in Int
  BY LibraryAssumption
<1>4. \A r : Edit(r) => blocks' = r
  BY DEF Edit
<1>5. CASE DoAddCvar
  <2>1. PICK n \in Names, v \in Values, f \in Frames : Edit(AddCvar(blocks, n, v, f))
    BY <1>5 DEF DoAddCvar
  <2> QED
    BY <1>1, <1>4, <2>1, AddOrdered
<1>6. CASE DoAddToggle
  <2>1. PICK state \in BOOLEAN, f \in Frames : Edit(AddToggle(blocks, "attack", state, f))
    BY <1>6 DEF DoAddToggle
  <2> QED
    BY <1>1, <1>4, <2>1, AddOrdered
<1>7. CASE DoAddCommand
  <2>1. PICK f \in Frames : Edit(AddCommand(blocks, "impulse", f))
    BY <1>7 DEF DoAddCommand
  <2> QED
    BY <1>1, <1>4, <2>1, AddOrdered
<1>8. CASE DoAddShot
  <2>1. PICK p \in Values, y \in Values, f \in Frames, t \in TurnFrames : Edit(AddShot(blocks, p, y, f, t).blocks)
    BY <1>8 DEF DoAddShot
  <2> QED
    BY <1>1, <1>2, <1>4, <2>1, ShotOrdered
<1>9. CASE DoRemoveShot
  <2>1. PICK f \in Frames, t \in TurnFrames : Edit(RemoveShot(blocks, f, t))
    BY <1>9 DEF DoRemoveShot
  <2> QED
    BY <1>1, <1>2, <1>4, <2>1, ShotOrdered
<1>10. CASE DoRemoveCvars
  <2>1. PICK n \in Names, lo \in Frames, hi \in Frames : Edit(RemoveCvarsFromRange(blocks, n, lo, hi))
    BY <1>10 DEF DoRemoveCvars
  <2> QED
    BY <1>4, <2>1, RemoveOrdered
<1>11. CASE DoRemoveToggles
  <2>1. PICK lo \in Frames, hi \in Frames : Edit(RemoveTogglesFromRange(blocks, "attack", lo, hi))
    BY <1>11 DEF DoRemoveToggles
  <2> QED
    BY <1>4, <2>1, RemoveOrdered
<1>12. CASE DoPrune
  <2>1. PICK lo \in Frames, hi \in Frames : Edit(Prune(blocks, lo, hi))
    BY <1>12 DEF DoPrune
  <2> QED
    BY <1>4, <2>1, KeepOrdered DEF Prune
<1>13. CASE DoPruneFrom
  <2>1. PICK lo \in Frames : Edit(PruneFrom(blocks, lo))
    BY <1>13 DEF DoPruneFrom
  <2> QED
    BY <1>4, <2>1, KeepOrdered DEF PruneFrom
<1>14. CASE DoRemoveBlocksAfterFrame
  <2>1. PICK f \in Frames : Edit(RemoveBlocksAfterFrame(blocks, f))
    BY <1>14 DEF DoRemoveBlocksAfterFrame
  <2> QED
    BY <1>4, <2>1, KeepOrdered DEF RemoveBlocksAfterFrame
<1>15. CASE DoShiftSingleBlock
  <2>1. PICK i \in DOMAIN blocks, d \in Deltas : Edit(ShiftSingleBlock(blocks, i, d))
    BY <1>15 DEF DoShiftSingleBlock
  <2> QED
    BY <1>3, <1>4, <2>1, ShiftSingleOrdered
<1>16. CASE DoShiftBlocks
  <2>1. PICK i \in DOMAIN blocks, d \in Deltas : Edit(ShiftBlocks(blocks, i, d))
    BY <1>16 DEF DoShiftBlocks
  <2> QED
    BY <1>3, <1>4, <2>1, ShiftBlocksOrdered
<1>17. CASE DoAddScript
  <2>1. PICK f \in Frames : Edit(AddScript(blocks, GetTimeShiftedVersion(blocks, f), f))
    BY <1>17 DEF DoAddScript
  <2>2. f \in Nat /\ Ordered(GetTimeShiftedVersion(blocks, f))
    BY <1>1, TimeShiftedOrdered
  <2>3. Ordered(AddScript(blocks, GetTimeShiftedVersion(blocks, f), f))
    BY <2>2, AddScriptOrdered
  <2> QED
    BY <1>4, <2>1, <2>3
<1>18. CASE DoReload
  <2>1. blocks' = _Load_From_File(_Write_To_File(blocks))
    BY <1>18 DEF DoReload, Edit
  <2> QED
    BY <2>1, FileRoundTrip
<1>19. CASE Finished \/ UNCHANGED vars
  BY <1>19 DEF Finished, vars
<1> QED
  BY <1>5, <1>6, <1>7, <1>8, <1>9, <1>10, <1>11, <1>12, <1>13, <1>14, <1>15, <1>16, <1>17, <1>18, <1>19 DEF Next

\* The script stays in order whatever operations are done on it, in any sequence and
\* with any arguments, on scripts of any length.
THEOREM EditsKeepOrder == Spec => []Sorted
<1>1. InOrder => Sorted
  BY OrderedFacts DEF InOrder, Sorted
<1> QED
  BY <1>1, InitInOrder, StepInOrder, PTL DEF Spec

-----------------------------------------------------------------------------
(* Patches.                                                                  *)

\* FirstDifference: the scripts agree before it, or as far as both go.
LEMMA DifferenceFacts ==
    ASSUME NEW a, Ordered(a), NEW b, Ordered(b)
    PROVE  LET i == FirstDifference(a, b)
               keep == IF i = 0 THEN MinOf(Len(a), Len(b)) ELSE i - 1
           IN  /\ keep \in Nat /\ keep <= Len(a) /\ keep <= Len(b)
               /\ \A k \in 1 .. keep : a[k] = b[k]
               /\ i # 0 => i \in DOMAIN a /\ i \in DOMAIN b /\ keep = i - 1
<1> DEFINE common == MinOf(Len(a), Len(b))
           differ == {k \in 1 .. common : a[k] # b[k]}
           i == FirstDifference(a, b)
<1>1. Len(a) \in Nat /\ DOMAIN a = 1 .. Len(a) /\ Len(b) \in Nat /\ DOMAIN b = 1 .. Len(b)
  BY OrderedFacts
<1>2. common \in Nat /\ common <= Len(a) /\ common <= Len(b)
  BY <1>1 DEF MinOf
<1>3. i = IF differ = {} THEN 0 ELSE CHOOSE k \in differ : \A j \in differ : k <= j
  BY DEF FirstDifference
<1> HIDE DEF common, i
<1>4. CASE differ = {}
  <2>1. i = 0
    BY <1>3, <1>4
  <2>2. \A k \in 1 .. common : a[k] = b[k]
    BY <1>4
  <2> QED
    BY <1>2, <2>1, <2>2 DEF common, i
<1>5. CASE differ # {}
  <2>1. differ \subseteq Nat
    BY <1>2
  <2>2. i \in differ /\ \A j \in differ : i <= j
    <3> HIDE DEF differ
    <3>1. \E k \in differ : \A j \in differ : k <= j
      BY <1>5, <2>1, LeastNat, Zenon
    <3> QED
      BY <1>3, <1>5, <3>1, Zenon
  <2>3. i \in 1 .. common
    BY <2>2
  <2>4. i # 0 /\ i - 1 \in Nat /\ i - 1 <= Len(a) /\ i - 1 <= Len(b) /\ i \in DOMAIN a /\ i \in DOMAIN b
    BY <1>1, <1>2, <2>3
  <2>5. ASSUME NEW k \in 1 .. i - 1 PROVE a[k] = b[k]
    <3>1. k \in 1 .. common /\ ~(i <= k)
      BY <1>2, <2>3
    <3> QED
      BY <2>2, <3>1
  <2> QED
    BY <2>4, <2>5 DEF i
<1> QED
  BY <1>4, <1>5

\* The two parts of a sequence, joined.
LEMMA PartsJoin ==
    ASSUME NEW S, NEW b \in Seq(S), NEW n \in Nat, n <= Len(b)
    PROVE  SubSeq(b, 1, n) \o SubSeq(b, n + 1, Len(b)) = b
<1> DEFINE x == SubSeq(b, 1, n)
           y == SubSeq(b, n + 1, Len(b))
           j == x \o y
<1>1. x \in Seq(S) /\ Len(x) = n /\ \A k \in 1 .. n : x[k] = b[k]
  OBVIOUS
<1>2. y \in Seq(S) /\ Len(y) = Len(b) - n /\ \A k \in 1 .. Len(b) - n : y[k] = b[n + k]
  OBVIOUS
<1> HIDE DEF x, y
<1>3. j \in Seq(S) /\ Len(j) = Len(b) /\ \A k \in 1 .. Len(b) : j[k] = IF k <= n THEN x[k] ELSE y[k - n]
  BY <1>1, <1>2
<1> HIDE DEF j
<1>4. \A k \in 1 .. Len(b) : j[k] = b[k]
  BY <1>1, <1>2, <1>3
<1>5. j = b
  BY <1>3, <1>4
<1> QED
  BY <1>5, Zenon DEF j, x, y

\* ApplyChanges makes the script equal to the one received.
LEMMA ApplyGivesScript ==
    ASSUME NEW a, Ordered(a), NEW b, Ordered(b)
    PROVE  ApplyChanges(a, b) = b
<1> DEFINE i == FirstDifference(a, b)
           keep == IF i = 0 THEN MinOf(Len(a), Len(b)) ELSE i - 1
           S == Range(a) \cup Range(b)
<1>1. keep \in Nat /\ keep <= Len(a) /\ keep <= Len(b) /\ \A k \in 1 .. keep : a[k] = b[k]
  BY DifferenceFacts, Zenon
<1>2. ApplyChanges(a, b) = SubSeq(a, 1, keep) \o SubSeq(b, keep + 1, Len(b))
  BY DEF ApplyChanges
<1> HIDE DEF keep
<1>3. a \in Seq(S) /\ b \in Seq(S)
  <2>1. a \in Seq(Range(a)) /\ b \in Seq(Range(b)) /\ Range(a) \subseteq S /\ Range(b) \subseteq S
    BY OrderedFacts
  <2> HIDE DEF S
  <2> QED
    BY <2>1, SeqFacts, Zenon
<1> HIDE DEF S
<1>4. SubSeq(a, 1, keep) = SubSeq(b, 1, keep)
  BY <1>1, <1>3
<1>5. SubSeq(b, 1, keep) \o SubSeq(b, keep + 1, Len(b)) = b
  BY <1>1, <1>3, PartsJoin, Zenon
<1> QED
  BY <1>2, <1>4, <1>5, Zenon

\* Two scripts that agree up to some block, after which both are not before the frame,
\* have the same blocks before the frame.
LEMMA SameBefore ==
    ASSUME NEW a, Ordered(a), NEW b, Ordered(b), NEW frame \in Nat,
           NEW n \in Nat, n <= Len(a), n <= Len(b), \A k \in 1 .. n : a[k] = b[k],
           n + 1 \in DOMAIN a => a[n + 1].frame >= frame,
           n + 1 \in DOMAIN b => b[n + 1].frame >= frame
    PROVE  BlocksBefore(a, frame) = BlocksBefore(b, frame)
<1> DEFINE i == GetBlockIndex(a, frame)
           j == GetBlockIndex(b, frame)
<1>1. /\ Len(a) \in Nat /\ DOMAIN a = 1 .. Len(a) /\ \A k \in DOMAIN a : a[k].frame \in Nat
      /\ Len(b) \in Nat /\ DOMAIN b = 1 .. Len(b) /\ \A k \in DOMAIN b : b[k].frame \in Nat
  BY OrderedFacts, Zenon
<1>2. /\ i \in 1 .. Len(a) + 1 /\ \A k \in DOMAIN a : k < i <=> a[k].frame < frame
      /\ j \in 1 .. Len(b) + 1 /\ \A k \in DOMAIN b : k < j <=> b[k].frame < frame
  BY BlockIndex, Zenon
<1>3. BlocksBefore(a, frame) = SubSeq(a, 1, i - 1) /\ BlocksBefore(b, frame) = SubSeq(b, 1, j - 1)
  BY DEF BlocksBefore
<1> HIDE DEF i, j
<1>4. i <= n + 1
  <2>0. i \in 1 .. Len(a) + 1 /\ Len(a) \in Nat /\ DOMAIN a = 1 .. Len(a)
    BY <1>1, <1>2, Zenon
  <2>1. CASE n + 1 \in DOMAIN a
    <3>1. n + 1 < i => a[n + 1].frame < frame
      BY <1>2, <2>1, Zenon
    <3>2. a[n + 1].frame \in Nat /\ a[n + 1].frame >= frame
      BY <1>1, <2>1, Zenon
    <3> QED
      BY <2>0, <3>1, <3>2
  <2>2. CASE n + 1 \notin DOMAIN a
    BY <2>0, <2>2
  <2> QED
    BY <2>1, <2>2
<1>5. j <= n + 1
  <2>0. j \in 1 .. Len(b) + 1 /\ Len(b) \in Nat /\ DOMAIN b = 1 .. Len(b)
    BY <1>1, <1>2, Zenon
  <2>1. CASE n + 1 \in DOMAIN b
    <3>1. n + 1 < j => b[n + 1].frame < frame
      BY <1>2, <2>1, Zenon
    <3>2. b[n + 1].frame \in Nat /\ b[n + 1].frame >= frame
      BY <1>1, <2>1, Zenon
    <3> QED
      BY <2>0, <3>1, <3>2
  <2>2. CASE n + 1 \notin DOMAIN b
    BY <2>0, <2>2
  <2> QED
    BY <2>1, <2>2
<1>6. i = j
  <2>1. \A k \in 1 .. n : k < i <=> k < j
    <3> SUFFICES ASSUME NEW k \in 1 .. n PROVE k < i <=> k < j
      OBVIOUS
    <3>1. k \in DOMAIN a /\ k \in DOMAIN b /\ a[k] = b[k]
      BY <1>1
    <3> QED
      BY <1>2, <3>1
  <2>2. i \in Nat \ {0} /\ j \in Nat \ {0}
    BY <1>1, <1>2
  <2>3. ~(i < j)
    <3>1. i < j => i \in 1 .. n /\ ~(i < i)
      BY <1>5, <2>2
    <3> QED
      BY <2>1, <3>1, Zenon
  <2>4. ~(j < i)
    <3>1. j < i => j \in 1 .. n /\ ~(j < j)
      BY <1>4, <2>2
    <3> QED
      BY <2>1, <3>1, Zenon
  <2> QED
    BY <2>2, <2>3, <2>4
<1> DEFINE S == Range(a) \cup Range(b)
<1>7. a \in Seq(S) /\ b \in Seq(S)
  <2>1. a \in Seq(Range(a)) /\ b \in Seq(Range(b)) /\ Range(a) \subseteq S /\ Range(b) \subseteq S
    BY OrderedFacts
  <2> HIDE DEF S
  <2> QED
    BY <2>1, SeqFacts, Zenon
<1> HIDE DEF S
<1>8. SubSeq(a, 1, i - 1) = SubSeq(b, 1, i - 1)
  <2> DEFINE m == i - 1
  <2>1. m \in Nat /\ m <= n
    BY <1>1, <1>2, <1>4
  <2> HIDE DEF m
  <2>2. SubSeq(a, 1, m) = SubSeq(b, 1, m)
    BY <1>1, <1>7, <2>1
  <2> QED
    BY <2>2, Zenon DEF m
<1> QED
  BY <1>3, <1>6, <1>8, Zenon

\* No frame up to first_changed_frame sees a change, as far as the new script goes.
LEMMA NoChangeBefore ==
    ASSUME NEW a, Ordered(a), NEW b, Ordered(b), NEW frame \in Nat,
           frame <= MinOf(first_changed_frame(a, b), Get_Last_Frame(b))
    PROVE  BlocksBefore(a, frame) = BlocksBefore(b, frame)
<1> DEFINE i == FirstDifference(a, b)
           keep == IF i = 0 THEN MinOf(Len(a), Len(b)) ELSE i - 1
<1>1. /\ Len(a) \in Nat /\ DOMAIN a = 1 .. Len(a) /\ \A k \in DOMAIN a : a[k].frame \in Nat
      /\ Len(b) \in Nat /\ DOMAIN b = 1 .. Len(b) /\ \A k \in DOMAIN b : b[k].frame \in Nat
  BY OrderedFacts, Zenon
<1>2. /\ keep \in Nat /\ keep <= Len(a) /\ keep <= Len(b) /\ \A k \in 1 .. keep : a[k] = b[k]
      /\ i # 0 => i \in DOMAIN a /\ i \in DOMAIN b /\ keep = i - 1
  BY DifferenceFacts, Zenon
<1>3. Get_Last_Frame(a) \in Nat /\ Get_Last_Frame(b) \in Nat
  <2>1. a # <<>> => Len(a) \in DOMAIN a
    BY <1>1, OrderedFacts
  <2>2. b # <<>> => Len(b) \in DOMAIN b
    BY <1>1, OrderedFacts
  <2> QED
    BY <1>1, <2>1, <2>2 DEF Get_Last_Frame
<1>4. i = 0 => keep = MinOf(Len(a), Len(b))
  OBVIOUS
<1>5. first_changed_frame(a, b) = IF i = 0 THEN Get_Last_Frame(a) ELSE MinOf(a[i].frame, b[i].frame)
  BY DEF first_changed_frame
<1> HIDE DEF i, keep
<1>6. CASE i # 0
  <2>1. keep + 1 = i /\ i \in DOMAIN a /\ i \in DOMAIN b
    BY <1>1, <1>2, <1>6
  <2>2. a[i].frame \in Nat /\ b[i].frame \in Nat
    BY <1>1, <2>1
  <2>3. a[keep + 1].frame >= frame /\ b[keep + 1].frame >= frame
    BY <1>3, <1>5, <1>6, <2>1, <2>2 DEF MinOf
  <2> QED
    BY <1>2, <2>3, SameBefore
<1>7. ASSUME i = 0 PROVE frame <= Get_Last_Frame(a) /\ frame <= Get_Last_Frame(b)
  BY <1>3, <1>5, <1>7 DEF MinOf
<1>8. CASE i = 0 /\ (a = <<>> \/ b = <<>>)
  <2>1. frame = 0
    BY <1>7, <1>8 DEF Get_Last_Frame
  <2>2. \A k \in DOMAIN a : a[k].frame >= frame
    BY <1>1, <2>1
  <2>3. \A k \in DOMAIN b : b[k].frame >= frame
    BY <1>1, <2>1
  <2>4. \A k \in 1 .. 0 : a[k] = b[k]
    OBVIOUS
  <2>5. 0 \in Nat /\ 0 <= Len(a) /\ 0 <= Len(b)
    BY <1>1
  <2> QED
    BY <2>2, <2>3, <2>4, <2>5, SameBefore
<1>9. CASE i = 0 /\ a # <<>> /\ b # <<>>
  <2> DEFINE n == keep - 1
  <2>1. Len(a) # 0 /\ Len(b) # 0
    <3>1. a \in Seq(Range(a)) /\ b \in Seq(Range(b))
      BY OrderedFacts
    <3> QED
      BY <1>9, <3>1
  <2>2. keep = Len(a) \/ keep = Len(b)
    BY <1>1, <1>4, <1>9 DEF MinOf
  <2>3. /\ keep \in 1 .. keep /\ keep \in DOMAIN a /\ keep \in DOMAIN b
        /\ n \in Nat /\ n <= Len(a) /\ n <= Len(b) /\ n + 1 = keep
        /\ \A k \in 1 .. n : k \in 1 .. keep
    <3>1. keep \in Nat /\ keep # 0 /\ keep <= Len(a) /\ keep <= Len(b)
      BY <1>2, <2>1, <2>2
    <3>2. keep \in DOMAIN a /\ keep \in DOMAIN b
      BY <1>1, <3>1
    <3>3. n \in Nat /\ n <= Len(a) /\ n <= Len(b) /\ n + 1 = keep
      BY <1>1, <3>1
    <3> QED
      BY <3>1, <3>2, <3>3
  <2>4. a[keep].frame >= frame /\ a[keep] = b[keep]
    <3>1. a[keep] = b[keep]
      BY <1>2, <2>3
    <3>2. frame <= a[Len(a)].frame /\ frame <= b[Len(b)].frame
      BY <1>7, <1>9 DEF Get_Last_Frame
    <3>3. a[keep].frame \in Nat
      BY <1>1, <2>3
    <3> QED
      BY <2>2, <3>1, <3>2, <3>3
  <2>5. a[n + 1].frame >= frame /\ b[n + 1].frame >= frame
    BY <2>3, <2>4
  <2>6. \A k \in 1 .. n : a[k] = b[k]
    BY <1>2, <2>3
  <2> HIDE DEF n
  <2> QED
    BY <2>3, <2>5, <2>6, SameBefore
<1> QED
  BY <1>6, <1>8, <1>9

\* A patch makes the script equal to the one received and, as far as that goes, reports a
\* frame up to which nothing changed, in every script that edits reach and for any change
\* of a variable and any cut.
THEOREM PatchesStaySound == Spec => []PatchesSound
<1>1. InOrder => PatchesSound
  <2> SUFFICES ASSUME Ordered(blocks), NEW n \in Names, NEW v \in Values, NEW f \in Frames, NEW h \in Frames
               PROVE  LET edited == RemoveBlocksAfterFrame(AddCvar(blocks, n, v, f), h)
                          good   == MinOf(first_changed_frame(blocks, edited), Get_Last_Frame(edited))
                      IN  /\ ApplyChanges(blocks, edited) = edited
                          /\ \A g \in Frames : g <= good => BlocksBefore(blocks, g) = BlocksBefore(edited, g)
    BY DEF InOrder, PatchesSound
  <2> DEFINE longer == AddCvar(blocks, n, v, f)
             edited == RemoveBlocksAfterFrame(longer, h)
  <2>1. f \in Nat
    BY LibraryAssumption
  <2>2. Ordered(longer)
    BY <2>1, AddOrdered
  <2> HIDE DEF longer
  <2>3. Ordered(edited)
    BY <2>2, KeepOrdered DEF RemoveBlocksAfterFrame
  <2> HIDE DEF edited
  <2>4. ApplyChanges(blocks, edited) = edited
    BY <2>3, ApplyGivesScript
  <2>5. ASSUME NEW g \in Frames,
               g <= MinOf(first_changed_frame(blocks, edited), Get_Last_Frame(edited))
        PROVE  BlocksBefore(blocks, g) = BlocksBefore(edited, g)
    <3>1. g \in Nat
      BY LibraryAssumption
    <3> QED
      BY <2>3, <2>5, <3>1, NoChangeBefore
  <2> QED
    BY <2>4, <2>5 DEF edited, longer
<1> QED
  BY <1>1, InitInOrder, StepInOrder, PTL DEF Spec

\* A script comes back as it was, from its file and from a message with any number of
\* bytes before it, whatever edits were made.
THEOREM ScriptsComeBack == Spec => []RoundTrips
<1>1. InOrder => RoundTrips
  <2> SUFFICES ASSUME Ordered(blocks) PROVE RoundTrips
    BY DEF InOrder
  <2>1. _Load_From_File(_Write_To_File(blocks)) = blocks
    BY FileRoundTrip
  <2>2. ASSUME NEW offset \in 1 .. BUFFER_SIZE
        PROVE  LET buffer  == [NewBuffer EXCEPT !.data = [k \in 1 .. offset |-> <<"byte">>]]
                   message == Write_To_Memory(blocks, buffer)
               IN  Load_From_Memory(message.data, offset) = blocks
    <3> DEFINE bytes == [k \in 1 .. offset |-> <<"byte">>]
               buffer == [NewBuffer EXCEPT !.data = bytes]
    <3>1. offset \in Nat
      BY BufferAssumption
    <3>2. "data" \in DOMAIN buffer /\ buffer.data = bytes
      <4> HIDE DEF bytes
      <4> QED
        BY DEF NewBuffer
    <3> HIDE DEF buffer
    <3>3. Load_From_Memory(Write_To_Memory(blocks, buffer).data, offset) = blocks
      BY <3>1, <3>2, MemoryRoundTrip
    <3> QED
      BY <3>3, Zenon DEF buffer
  <2> QED
    BY <2>1, <2>2, Zenon DEF RoundTrips
<1> QED
  BY <1>1, InitInOrder, StepInOrder, PTL DEF Spec

=============================================================================
