-------------------------- MODULE ScriptTextProofs --------------------------
(***************************************************************************)
(* A script written as text comes back as it was.  FileRoundTrip: a script   *)
(* in order is read from the lines _Write_To_File makes as it was, however  *)
(* many blocks it has and whatever is in them.  MemoryRoundTrip: so it is    *)
(* from a message with any number of bytes before it, where the buffer may  *)
(* have cut the newline of any line off.                                    *)
(*                                                                          *)
(* Loops are recursive functions of the model.  The proof that one has the   *)
(* values its equation gives goes by UpTo, induction up to a number, which   *)
(* rests on there being no one to one map from 1 .. n + 1 into 1 .. n.       *)
(***************************************************************************)
EXTENDS Buffer, FunctionTheorems, TLAPS

\* A set of natural numbers up to n that has 0, and with a number the next one,
\* has n: if it had not, 0 .. n could be mapped into 1 .. n one to one.
LEMMA UpTo ==
    ASSUME NEW n \in Nat, NEW G, 0 \in G, \A i \in 1 .. n : i - 1 \in G => i \in G
    PROVE  n \in G
<1> SUFFICES ASSUME n \notin G PROVE FALSE
  OBVIOUS
<1> DEFINE f == [j \in 1 .. n + 1 |-> IF j - 1 \in G THEN j ELSE j - 1]
<1>1. f \in [1 .. n + 1 -> 1 .. n]
  OBVIOUS
<1>2. \A i, j \in 1 .. n + 1 : f[i] = f[j] => i = j
  OBVIOUS
<1>3. DOMAIN f = 1 .. n + 1
  OBVIOUS
<1> HIDE DEF f
<1>4. ExistsInjection(1 .. n + 1, 1 .. n)
  BY <1>1, <1>2, <1>3, Zenon DEF ExistsInjection, Injection, IsInjective
<1>5. n + 1 \in Nat
  OBVIOUS
<1>6. n + 1 <= n
  BY <1>4, <1>5, Fun_NatInjLeq, Zenon
<1> QED
  BY <1>6

\* The number that Cardinality's recursion computes for a set of n elements.
Count(T) == CHOOSE n \in Nat : ExistsBijection(1 .. n, T)

\* A set with n elements has n elements to Cardinality.
LEMMA Counted ==
    ASSUME NEW S, NEW n \in Nat, ExistsBijection(1 .. n, S)
    PROVE  Cardinality(S) = n
<1> DEFINE Step(f) == [T \in SUBSET S |-> IF T = {} THEN 0 ELSE 1 + f[T \ {CHOOSE x : x \in T}]]
           c == CHOOSE f : f = Step(f)
           g == [T \in SUBSET S |-> Count(T)]
<1>1. Cardinality(S) = c[S]
  BY DEF Cardinality
<1>2. ASSUME NEW T \in SUBSET S PROVE \E m \in Nat : ExistsBijection(1 .. m, T)
  BY Fun_NatBijSubset, Zenon
<1>3. ASSUME NEW T \in SUBSET S, NEW m \in Nat, ExistsBijection(1 .. m, T) PROVE Count(T) = m
  BY <1>3, Fun_NatBijSame, Zenon DEF Count
<1>4. ASSUME NEW T \in SUBSET S PROVE IF T = {} THEN Count(T) = 0 ELSE Count(T) = 1 + Count(T \ {CHOOSE x : x \in T})
  <2>1. PICK m \in Nat : ExistsBijection(1 .. m, T)
    BY <1>2
  <2>2. Count(T) = m
    BY <1>3, <2>1
  <2>3. CASE T = {}
    <3>1. ExistsBijection(1 .. 0, T)
      BY <2>3, Fun_NatBijEmpty, Zenon
    <3> QED
      BY <1>3, <2>3, <3>1
  <2>4. CASE T # {}
    <3> DEFINE x == CHOOSE x : x \in T
    <3>1. x \in T
      BY <2>4, Zenon
    <3> HIDE DEF x
    <3>2. ExistsBijection(1 .. (m - 1), T \ {x})
      BY <2>1, <3>1, Fun_NatBijSubElem, Zenon
    <3>3. m # 0
      BY <2>1, <2>4, Fun_NatBijEmpty, Zenon
    <3>4. m - 1 \in Nat /\ m = 1 + (m - 1)
      BY <3>3
    <3>5. Count(T \ {x}) = m - 1
      BY <1>3, <3>2, <3>4, Zenon
    <3> QED
      BY <2>2, <2>4, <3>4, <3>5 DEF x
  <2> QED
    BY <2>3, <2>4
<1>5. g = Step(g)
  BY <1>4
<1>6. c = Step(c)
  <2> HIDE DEF g, Step
  <2> QED
    BY <1>5, Zenon
<1> HIDE DEF c, g
<1> DEFINE Right(k) == \A T \in SUBSET S : ExistsBijection(1 .. k, T) => c[T] = k
           G == {k \in 0 .. n : Right(k)}
<1>7. Right(0)
  BY <1>6, Fun_NatBijEmpty, Zenon
<1>8. ASSUME NEW k \in 1 .. n, Right(k - 1) PROVE Right(k)
  <2> SUFFICES ASSUME NEW T \in SUBSET S, ExistsBijection(1 .. k, T) PROVE c[T] = k
    OBVIOUS
  <2>1. k \in Nat /\ k - 1 \in Nat /\ k # 0 /\ k = 1 + (k - 1) /\ 0 \in Nat
    OBVIOUS
  <2>2. T # {}
    BY <2>1, Fun_NatBijEmpty, Fun_NatBijSame, Zenon
  <2> DEFINE x == CHOOSE x : x \in T
  <2>3. x \in T
    BY <2>2, Zenon
  <2>4. c[T] = 1 + c[T \ {x}]
    BY <1>6, <2>2
  <2> HIDE DEF x
  <2>5. ExistsBijection(1 .. (k - 1), T \ {x})
    BY <2>1, <2>3, Fun_NatBijSubElem, Zenon
  <2>6. c[T \ {x}] = k - 1
    BY <1>8, <2>5, Zenon
  <2> QED
    BY <2>1, <2>4, <2>6
<1>9. 0 \in G
  BY <1>7
<1>10. \A i \in 1 .. n : i - 1 \in G => i \in G
  <2> HIDE DEF Right
  <2> QED
    BY <1>8
<1> HIDE DEF G
<1>11. n \in G
  BY <1>9, <1>10, UpTo, Zenon
<1> QED
  BY <1>1, <1>11 DEF G

\* A finite set can be counted.
LEMMA FiniteCounted ==
    ASSUME NEW S
    PROVE  IsFiniteSet(S) <=> \E n \in Nat : ExistsBijection(1 .. n, S)
<1>1. ASSUME NEW t \in Seq(S), \A x \in S : \E k \in 1 .. Len(t) : t[k] = x
      PROVE  \E n \in Nat : ExistsBijection(1 .. n, S)
  <2>1. Len(t) \in Nat /\ t \in [1 .. Len(t) -> S]
    OBVIOUS
  <2>2. ExistsSurjection(1 .. Len(t), S)
    BY <1>1, <2>1, Zenon DEF ExistsSurjection, Surjection
  <2> QED
    BY <2>1, <2>2, Fun_NatSurjImpliesNatBij, Zenon
<1>2. ASSUME NEW n \in Nat, ExistsBijection(1 .. n, S)
      PROVE  IsFiniteSet(S)
  <2>1. PICK t \in [1 .. n -> S] : \A x \in S : \E k \in 1 .. n : t[k] = x
    BY <1>2, Zenon DEF ExistsBijection, Bijection, Surjection, Injection
  <2>2. t \in Seq(S) /\ Len(t) = n
    BY <2>1
  <2> QED
    BY <2>1, <2>2, Zenon DEF IsFiniteSet
<1> QED
  BY <1>1, <1>2, Zenon DEF IsFiniteSet

\* What is built from finite sets is finite.
LEMMA FiniteFacts ==
    ASSUME NEW S, NEW T
    PROVE  /\ IsFiniteSet({}) /\ \A x : IsFiniteSet({x})
           /\ IsFiniteSet(T) /\ S \subseteq T => IsFiniteSet(S)
           /\ IsFiniteSet(S) /\ IsFiniteSet(T) => IsFiniteSet(S \cup T)
<1>1. IsFiniteSet({})
  <2>1. 0 \in Nat /\ ExistsBijection(1 .. 0, {})
    BY Fun_NatBijEmpty, Zenon
  <2> QED
    BY <2>1, FiniteCounted, Zenon
<1>2. ASSUME NEW x PROVE IsFiniteSet({x})
  <2>1. 1 \in Nat /\ ExistsBijection(1 .. 1, {x})
    BY Fun_NatBijSingleton, Zenon
  <2> QED
    BY <2>1, FiniteCounted, Zenon
<1>3. ASSUME IsFiniteSet(T), S \subseteq T PROVE IsFiniteSet(S)
  BY <1>3, FiniteCounted, Fun_NatBijSubset, Zenon
<1>4. ASSUME IsFiniteSet(S), IsFiniteSet(T) PROVE IsFiniteSet(S \cup T)
  <2>1. PICK s \in Seq(S) : \A x \in S : \E k \in 1 .. Len(s) : s[k] = x
    BY <1>4, Zenon DEF IsFiniteSet
  <2>2. PICK t \in Seq(T) : \A x \in T : \E k \in 1 .. Len(t) : t[k] = x
    BY <1>4, Zenon DEF IsFiniteSet
  <2>3. s \in Seq(S \cup T) /\ t \in Seq(S \cup T)
    OBVIOUS
  <2>4. /\ s \o t \in Seq(S \cup T) /\ Len(s \o t) = Len(s) + Len(t)
        /\ \A k \in 1 .. Len(s) : k \in 1 .. Len(s \o t) /\ (s \o t)[k] = s[k]
        /\ \A k \in 1 .. Len(t) : Len(s) + k \in 1 .. Len(s \o t) /\ (s \o t)[Len(s) + k] = t[k]
    BY <2>3
  <2> DEFINE u == s \o t
  <2>5. ASSUME NEW x \in S \cup T PROVE \E k \in 1 .. Len(u) : u[k] = x
    <3>1. CASE x \in S
      BY <2>1, <2>4, <3>1, Zenon
    <3>2. CASE x \in T
      BY <2>2, <2>4, <3>2, Zenon
    <3> QED
      BY <3>1, <3>2
  <2> HIDE DEF u
  <2> QED
    BY <2>4, <2>5, Zenon DEF IsFiniteSet, u
<1> QED
  BY <1>1, <1>2, <1>3, <1>4

\* No entries, and no commands.
LEMMA NoEntries == IsEntries(<<>>) /\ <<>> \in Seq(Range(<<>>)) /\ DOMAIN <<>> = {}
<1>1. DOMAIN <<>> = {} /\ <<>> = [x \in {} |-> <<>>[x]]
  OBVIOUS
<1>2. <<>> \in Seq(Range(<<>>))
  OBVIOUS
<1> QED
  BY <1>1, <1>2, FiniteFacts DEF IsEntries

-----------------------------------------------------------------------------
(* Sequences, and scripts in order.                                          *)

\* A sequence is a function on the numbers up to its length, and a sequence over
\* any larger set.
LEMMA SeqFacts ==
    ASSUME NEW S, NEW s \in Seq(S)
    PROVE  /\ Len(s) \in Nat /\ s \in [1 .. Len(s) -> S] /\ DOMAIN s = 1 .. Len(s)
           /\ \A T : S \subseteq T => s \in Seq(T)
  OBVIOUS

\* What being in order says of a script.
LEMMA OrderedFacts ==
    ASSUME NEW s, Ordered(s)
    PROVE  /\ s \in Seq(Range(s))
           /\ Len(s) \in Nat /\ DOMAIN s = 1 .. Len(s)
           /\ \A i \in DOMAIN s : IsBlock(s[i]) /\ s[i].frame \in Nat
           /\ \A i, j \in DOMAIN s : i <= j => s[i].frame <= s[j].frame
<1>1. s \in Seq(Range(s))
  BY DEF Ordered
<1>2. Len(s) \in Nat /\ DOMAIN s = 1 .. Len(s)
  BY <1>1, SeqFacts
<1>3. \A b : IsBlock(b) => b.frame \in Nat
  BY DEF IsBlock
<1> QED
  BY <1>1, <1>2, <1>3 DEF Ordered

\* A sequence is a sequence of its own elements.
LEMMA OwnValues ==
    ASSUME NEW S, NEW t \in Seq(S)
    PROVE  t \in Seq(Range(t))
<1> DEFINE T == Range(t)
<1>1. Len(t) \in Nat /\ DOMAIN t = 1 .. Len(t)
  BY SeqFacts
<1>2. t \in [1 .. Len(t) -> T]
  BY <1>1 DEF Range
<1> HIDE DEF T
<1>3. t \in Seq(T)
  BY <1>1, <1>2
<1> QED
  BY <1>3 DEF T

-----------------------------------------------------------------------------
(* The lines of a block, and what the parser makes of them.                  *)

\* The names of a finite set, each once, in some order.
LEMMA NamesFacts ==
    ASSUME NEW f, IsEntries(f)
    PROVE  LET n == NamesOf(f)
               c == Cardinality(DOMAIN f)
           IN  /\ c \in Nat /\ n \in [1 .. c -> DOMAIN f]
               /\ {n[k] : k \in 1 .. c} = DOMAIN f
<1> DEFINE c == Cardinality(DOMAIN f)
           B == Bijection(1 .. c, DOMAIN f)
<1>1. c \in Nat /\ B # {}
  BY Counted, FiniteCounted, Zenon DEF ExistsBijection, IsEntries
<1>2. NamesOf(f) = CHOOSE n \in B : TRUE
  BY DEF NamesOf
<1> HIDE DEF B
<1>3. NamesOf(f) \in B
  BY <1>1, <1>2, Zenon
<1> DEFINE n == NamesOf(f)
<1> HIDE DEF n
<1>4. n \in [1 .. c -> DOMAIN f] /\ \A x \in DOMAIN f : \E k \in 1 .. c : n[k] = x
  BY <1>3, Zenon DEF B, n, Bijection, Injection, Surjection
<1>5. {n[k] : k \in 1 .. c} = DOMAIN f
  <2> HIDE DEF c
  <2>1. \A k \in 1 .. c : n[k] \in DOMAIN f
    BY <1>4
  <2> QED
    BY <1>4, <2>1, Zenon
<1> QED
  BY <1>1, <1>4, <1>5 DEF n

\* Two sequences, one after the other.
LEMMA JoinSeq ==
    ASSUME NEW S, NEW a \in Seq(S), NEW c \in Seq(S)
    PROVE  /\ a \o c \in Seq(S) /\ Len(a \o c) = Len(a) + Len(c)
           /\ \A k \in 1 .. Len(a) : (a \o c)[k] = a[k]
           /\ \A k \in 1 .. Len(c) : (a \o c)[Len(a) + k] = c[k]
  OBVIOUS

\* The entries that the first k names have in f.
Entries(f, names, k) == [x \in {names[j] : j \in 1 .. k} |-> f[x]]

\* The entries, set one by one in the order of the names.
LEMMA EntriesOneByOne ==
    ASSUME NEW f, IsEntries(f)
    PROVE  LET n == NamesOf(f)
               c == Cardinality(DOMAIN f)
           IN  /\ Entries(f, n, 0) = <<>> /\ Entries(f, n, c) = f
               /\ \A k \in 1 .. c : With(Entries(f, n, k - 1), n[k], f[n[k]]) = Entries(f, n, k)
<1> DEFINE n == NamesOf(f)
           c == Cardinality(DOMAIN f)
<1>1. c \in Nat /\ n \in [1 .. c -> DOMAIN f] /\ {n[k] : k \in 1 .. c} = DOMAIN f
  BY NamesFacts, Zenon
<1> HIDE DEF n, c
<1>2. Entries(f, n, 0) = <<>>
  <2>1. {n[j] : j \in 1 .. 0} = {}
    OBVIOUS
  <2>2. Entries(f, n, 0) = [x \in {} |-> f[x]]
    BY <2>1 DEF Entries
  <2>3. <<>> = [x \in {} |-> <<>>[x]]
    BY NoEntries DEF IsEntries
  <2> QED
    BY <2>2, <2>3
<1>3. Entries(f, n, c) = f
  BY <1>1 DEF Entries, IsEntries
<1>4. ASSUME NEW k \in 1 .. c PROVE With(Entries(f, n, k - 1), n[k], f[n[k]]) = Entries(f, n, k)
  <2> DEFINE A == {n[j] : j \in 1 .. k - 1}
             B == {n[j] : j \in 1 .. k}
             e == [x \in A |-> f[x]]
  <2>1. A \cup {n[k]} = B
    OBVIOUS
  <2> HIDE DEF A, B
  <2>2. With(e, n[k], f[n[k]]) = [x \in B |-> f[x]]
    BY <2>1 DEF With
  <2> QED
    BY <2>2 DEF Entries, A, B
<1> QED
  BY <1>2, <1>3, <1>4 DEF n, c

\* The lines of a block: its frame number, its console variables, toggles and commands.
LEMMA BlockLinesFacts ==
    ASSUME NEW b, IsBlock(b), NEW previous \in Nat, previous <= b.frame
    PROVE  LET B == BlockLines(b, previous)
               n == NamesOf(b.convars)
               t == NamesOf(b.toggles)
               nc == Cardinality(DOMAIN b.convars)
               nt == Cardinality(DOMAIN b.toggles)
           IN  /\ B \in Seq(Range(B)) /\ nc \in Nat /\ nt \in Nat /\ Len(b.commands) \in Nat
               /\ Len(B) = 1 + nc + nt + Len(b.commands)
               /\ B[1] = [kind |-> "frame", name |-> b.frame - previous]
               /\ \A k \in 1 .. nc : B[1 + k] = [kind |-> "convar", name |-> n[k], value |-> b.convars[n[k]]]
               /\ \A k \in 1 .. nt : B[1 + nc + k] = [kind |-> "toggle", name |-> t[k], value |-> b.toggles[t[k]]]
               /\ \A k \in 1 .. Len(b.commands) :
                     B[1 + nc + nt + k] = [kind |-> "command", name |-> b.commands[k]]
<1> DEFINE B == BlockLines(b, previous)
           n == NamesOf(b.convars)
           t == NamesOf(b.toggles)
           nc == Cardinality(DOMAIN b.convars)
           nt == Cardinality(DOMAIN b.toggles)
           m == Len(b.commands)
           f == [kind |-> "frame", name |-> b.frame - previous]
           L(k) == [kind |-> "convar", name |-> n[k], value |-> b.convars[n[k]]]
           T(k) == [kind |-> "toggle", name |-> t[k], value |-> b.toggles[t[k]]]
           C(k) == [kind |-> "command", name |-> b.commands[k]]
           S == {f} \cup {L(k) : k \in 1 .. nc} \cup {T(k) : k \in 1 .. nt} \cup {C(k) : k \in 1 .. m}
           ls == [k \in 1 .. nc |-> L(k)]
           ts == [k \in 1 .. nt |-> T(k)]
           cs == [k \in 1 .. m |-> C(k)]
<1>1. /\ nc \in Nat /\ n \in [1 .. nc -> DOMAIN b.convars]
      /\ nt \in Nat /\ t \in [1 .. nt -> DOMAIN b.toggles]
  <2>1. IsEntries(b.convars) /\ IsEntries(b.toggles)
    BY DEF IsBlock
  <2> QED
    BY <2>1, NamesFacts, Zenon
<1>2. m \in Nat /\ DOMAIN b.commands = 1 .. m
  BY SeqFacts DEF IsBlock
<1>3. FrameLine(b.frame - previous) = f
  BY DEF FrameLine, IsBlock
<1> HIDE DEF nc, nt, m, n, t, f
<1>4. B = <<f>> \o ls \o ts \o cs
  <2>1. DOMAIN n = 1 .. nc /\ DOMAIN t = 1 .. nt
    BY <1>1
  <2>2. B = <<FrameLine(b.frame - previous)>> \o [k \in DOMAIN n |-> L(k)]
            \o [k \in DOMAIN t |-> T(k)] \o [k \in DOMAIN b.commands |-> C(k)]
    BY DEF BlockLines, n, t
  <2> HIDE DEF L, T, C, B
  <2> QED
    BY <1>2, <1>3, <2>1, <2>2, Zenon
<1> HIDE DEF L, T, C
<1>5. /\ ls \in Seq(S) /\ Len(ls) = nc /\ \A k \in 1 .. nc : ls[k] = L(k)
      /\ ts \in Seq(S) /\ Len(ts) = nt /\ \A k \in 1 .. nt : ts[k] = T(k)
      /\ cs \in Seq(S) /\ Len(cs) = m /\ \A k \in 1 .. m : cs[k] = C(k)
  <2>1. ls \in [1 .. nc -> S] /\ ts \in [1 .. nt -> S] /\ cs \in [1 .. m -> S]
    OBVIOUS
  <2>2. \A k \in 1 .. nc : ls[k] = L(k)
    OBVIOUS
  <2>3. \A k \in 1 .. nt : ts[k] = T(k)
    OBVIOUS
  <2>4. \A k \in 1 .. m : cs[k] = C(k)
    OBVIOUS
  <2> HIDE DEF S, ls, ts, cs
  <2>5. ls \in Seq(S) /\ Len(ls) = nc
    BY <1>1, <2>1
  <2>6. ts \in Seq(S) /\ Len(ts) = nt
    BY <1>1, <2>1
  <2>7. cs \in Seq(S) /\ Len(cs) = m
    BY <1>2, <2>1
  <2> QED
    BY <2>2, <2>3, <2>4, <2>5, <2>6, <2>7, Zenon
<1>6. f \in S
  OBVIOUS
<1> HIDE DEF ls, ts, cs, S
<1>7. /\ B \in Seq(S) /\ Len(B) = 1 + nc + nt + m /\ B[1] = f
      /\ \A k \in 1 .. nc : B[1 + k] = L(k)
      /\ \A k \in 1 .. nt : B[1 + nc + k] = T(k)
      /\ \A k \in 1 .. m : B[1 + nc + nt + k] = C(k)
  <2> DEFINE fl == <<f>> \o ls
             flt == fl \o ts
  <2>1. fl \in Seq(S) /\ Len(fl) = 1 + nc /\ fl[1] = f /\ \A k \in 1 .. nc : fl[1 + k] = ls[k]
    BY <1>1, <1>5, <1>6
  <2> HIDE DEF fl
  <2>2. /\ flt \in Seq(S) /\ Len(flt) = 1 + nc + nt
        /\ \A k \in 1 .. 1 + nc : flt[k] = fl[k]
        /\ \A k \in 1 .. nt : flt[1 + nc + k] = ts[k]
    <3>1. /\ fl \o ts \in Seq(S) /\ Len(fl \o ts) = Len(fl) + Len(ts)
          /\ \A k \in 1 .. Len(fl) : (fl \o ts)[k] = fl[k]
          /\ \A k \in 1 .. Len(ts) : (fl \o ts)[Len(fl) + k] = ts[k]
      <4>1. fl \in Seq(S) /\ ts \in Seq(S)
        BY <1>5, <2>1
      <4> QED
        BY <4>1, JoinSeq
    <3> QED
      BY <1>5, <2>1, <3>1, Zenon
  <2> HIDE DEF flt
  <2>3. /\ flt \o cs \in Seq(S) /\ Len(flt \o cs) = 1 + nc + nt + m
        /\ \A k \in 1 .. 1 + nc + nt : (flt \o cs)[k] = flt[k]
        /\ \A k \in 1 .. m : (flt \o cs)[1 + nc + nt + k] = cs[k]
    <3>1. /\ flt \o cs \in Seq(S) /\ Len(flt \o cs) = Len(flt) + Len(cs)
          /\ \A k \in 1 .. Len(flt) : (flt \o cs)[k] = flt[k]
          /\ \A k \in 1 .. Len(cs) : (flt \o cs)[Len(flt) + k] = cs[k]
      <4>1. flt \in Seq(S) /\ cs \in Seq(S)
        BY <1>5, <2>2
      <4> QED
        BY <4>1, JoinSeq
    <3> QED
      BY <1>5, <2>2, <3>1, Zenon
  <2>4. B = flt \o cs
    BY <1>4 DEF fl, flt
  <2> HIDE DEF B
  <2>5. B[1] = f
    BY <1>1, <2>1, <2>2, <2>3, <2>4
  <2>6. ASSUME NEW k \in 1 .. nc PROVE B[1 + k] = L(k)
    <3>1. 1 + k \in 1 .. 1 + nc /\ 1 + k \in 1 .. 1 + nc + nt
      BY <1>1
    <3>2. B[1 + k] = flt[1 + k]
      BY <2>3, <2>4, <3>1, Zenon
    <3>3. flt[1 + k] = fl[1 + k]
      BY <2>2, <3>1, Zenon
    <3>4. fl[1 + k] = ls[k] /\ ls[k] = L(k)
      BY <1>5, <2>1, Zenon
    <3> QED
      BY <3>2, <3>3, <3>4, Zenon
  <2>7. ASSUME NEW k \in 1 .. nt PROVE B[1 + nc + k] = T(k)
    <3>1. 1 + nc + k \in 1 .. 1 + nc + nt
      BY <1>1
    <3> QED
      BY <1>5, <2>2, <2>3, <2>4, <3>1, Zenon
  <2>8. ASSUME NEW k \in 1 .. m PROVE B[1 + nc + nt + k] = C(k)
    BY <1>5, <2>3, <2>4, Zenon
  <2> QED
    BY <2>3, <2>4, <2>5, <2>6, <2>7, <2>8, Zenon
<1> HIDE DEF B
<1>8. B \in Seq(Range(B))
  BY <1>7, OwnValues
<1> QED
  BY <1>1, <1>2, <1>7, <1>8 DEF B, n, t, nc, nt, m, f, L, T, C

\* A block with these parts.
Block(frame, convars, toggles, commands) ==
    [frame |-> frame, convars |-> convars, toggles |-> toggles, commands |-> commands]

\* The parser has read some blocks and is reading this one.
Reading(p, read, frame, convars, toggles, commands) ==
    /\ DOMAIN p = {"blocks", "fb", "parsed", "running"}
    /\ p.blocks = read /\ p.fb = Block(frame, convars, toggles, commands) /\ p.parsed /\ p.running = frame

\* The parser before the first line.
Unread == [blocks |-> <<>>, fb |-> NewBlock(0), parsed |-> FALSE, running |-> 0]

\* The parts of a block, and a block of which one part was replaced.
LEMMA BlockFields ==
    ASSUME NEW f, NEW c, NEW t, NEW m, NEW y
    PROVE  LET b == Block(f, c, t, m)
           IN  /\ b.frame = f /\ b.convars = c /\ b.toggles = t /\ b.commands = m
               /\ [b EXCEPT !.frame = y] = Block(y, c, t, m)
               /\ [b EXCEPT !.convars = y] = Block(f, y, t, m)
               /\ [b EXCEPT !.toggles = y] = Block(f, c, y, m)
               /\ [b EXCEPT !.commands = y] = Block(f, c, t, y)
  BY DEF Block

\* What ParseLine makes of each kind of line, with a block being read.
LEMMA ParseLineSteps ==
    ASSUME NEW p, NEW read, NEW frame, NEW c, NEW t, NEW m, Reading(p, read, frame, c, t, m), NEW line
    PROVE  /\ line.kind = "convar" =>
                 Reading(ParseLine(p, line), read, frame, With(c, line.name, line.value), t, m)
           /\ line.kind = "toggle" =>
                 Reading(ParseLine(p, line), read, frame, c, With(t, line.name, line.value), m)
           /\ line.kind = "command" =>
                 Reading(ParseLine(p, line), read, frame, c, t, Append(m, line.name))
           /\ line.kind = "frame" =>
                 Reading(ParseLine(p, line), Append(read, p.fb), line.name + frame, <<>>, <<>>, <<>>)
<1> DEFINE b == Block(frame, c, t, m)
<1>1. DOMAIN p = {"blocks", "fb", "parsed", "running"}
  BY DEF Reading
<1>2. p.blocks = read /\ p.fb = b /\ p.parsed /\ p.running = frame
  BY DEF Reading
<1>3. /\ b.convars = c /\ b.toggles = t /\ b.commands = m
      /\ \A y : /\ [b EXCEPT !.convars = y] = Block(frame, y, t, m)
                /\ [b EXCEPT !.toggles = y] = Block(frame, c, y, m)
                /\ [b EXCEPT !.commands = y] = Block(frame, c, t, y)
  BY BlockFields
<1> HIDE DEF b
<1>4. ASSUME line.kind = "convar"
      PROVE Reading(ParseLine(p, line), read, frame, With(c, line.name, line.value), t, m)
  <2>1. ParseLine(p, line) = [p EXCEPT !.fb = [b EXCEPT !.convars = With(c, line.name, line.value)]]
    BY <1>2, <1>3, <1>4 DEF ParseLine
  <2> QED
    BY <1>1, <1>2, <1>3, <2>1 DEF Reading
<1>5. ASSUME line.kind = "toggle"
      PROVE Reading(ParseLine(p, line), read, frame, c, With(t, line.name, line.value), m)
  <2>1. ParseLine(p, line) = [p EXCEPT !.fb = [b EXCEPT !.toggles = With(t, line.name, line.value)]]
    BY <1>2, <1>3, <1>5 DEF ParseLine
  <2> QED
    BY <1>1, <1>2, <1>3, <2>1 DEF Reading
<1>6. ASSUME line.kind = "command"
      PROVE Reading(ParseLine(p, line), read, frame, c, t, Append(m, line.name))
  <2> DEFINE x == Append(m, line.name)
  <2>1. ParseLine(p, line) = [p EXCEPT !.fb = [b EXCEPT !.commands = x]]
    BY <1>2, <1>3, <1>6 DEF ParseLine
  <2> HIDE DEF x
  <2>2. Reading(ParseLine(p, line), read, frame, c, t, x)
    BY <1>1, <1>2, <1>3, <2>1 DEF Reading
  <2> QED
    BY <2>2 DEF x
<1>7. ASSUME line.kind = "frame"
      PROVE Reading(ParseLine(p, line), Append(read, p.fb), line.name + frame, <<>>, <<>>, <<>>)
  <2>1. \A x : [NewBlock(0) EXCEPT !.frame = x] = Block(x, <<>>, <<>>, <<>>)
    BY DEF Block, NewBlock
  <2>2. ParseLine(p, line) =
           [blocks |-> Append(read, p.fb), fb |-> [NewBlock(0) EXCEPT !.frame = line.name + frame],
            parsed |-> TRUE, running |-> line.name + frame]
    BY <1>2, <1>7 DEF ParseLine
  <2> QED
    BY <2>1, <2>2 DEF Reading
<1> QED
  BY <1>4, <1>5, <1>6, <1>7

\* The first line of a file is a frame number.
LEMMA FirstLine ==
    ASSUME NEW d
    PROVE  Reading(ParseLine(Unread, [kind |-> "frame", name |-> d]), <<>>, d + 0, <<>>, <<>>, <<>>)
<1> DEFINE line == [kind |-> "frame", name |-> d]
<1>1. Unread.blocks = <<>> /\ Unread.fb = NewBlock(0) /\ ~Unread.parsed /\ Unread.running = 0
  BY DEF Unread
<1>2. line.kind = "frame" /\ line.name = d
  OBVIOUS
<1> HIDE DEF line
<1>3. \A x : [NewBlock(0) EXCEPT !.frame = x] = Block(x, <<>>, <<>>, <<>>)
  BY DEF Block, NewBlock
<1>4. ParseLine(Unread, line) =
         [blocks |-> <<>>, fb |-> [NewBlock(0) EXCEPT !.frame = d + 0], parsed |-> TRUE, running |-> d + 0]
  BY <1>1, <1>2 DEF ParseLine
<1>5. Reading(ParseLine(Unread, line), <<>>, d + 0, <<>>, <<>>, <<>>)
  BY <1>3, <1>4 DEF Reading
<1> QED
  BY <1>5 DEF line

\* The lines of a block, read from its frame number on, give the block.
LEMMA ReadBlock ==
    ASSUME NEW b, IsBlock(b), NEW previous \in Nat, previous <= b.frame, NEW read, NEW h,
           Reading(h[1], read, b.frame, <<>>, <<>>, <<>>),
           \A k \in 2 .. Len(BlockLines(b, previous)) : h[k] = ParseLine(h[k - 1], BlockLines(b, previous)[k])
    PROVE  Reading(h[Len(BlockLines(b, previous))], read, b.frame, b.convars, b.toggles, b.commands)
<1> DEFINE B == BlockLines(b, previous)
           n == NamesOf(b.convars)
           t == NamesOf(b.toggles)
           nc == Cardinality(DOMAIN b.convars)
           nt == Cardinality(DOMAIN b.toggles)
           m == Len(b.commands)
           c(k) == Entries(b.convars, n, k)
           g(k) == Entries(b.toggles, t, k)
           d(k) == SubSeq(b.commands, 1, k)
           At(k, x, y, z) == Reading(h[k], read, b.frame, x, y, z)
<1>1. /\ nc \in Nat /\ nt \in Nat /\ m \in Nat /\ Len(B) = 1 + nc + nt + m
      /\ \A k \in 1 .. nc : B[1 + k] = [kind |-> "convar", name |-> n[k], value |-> b.convars[n[k]]]
      /\ \A k \in 1 .. nt : B[1 + nc + k] = [kind |-> "toggle", name |-> t[k], value |-> b.toggles[t[k]]]
      /\ \A k \in 1 .. m : B[1 + nc + nt + k] = [kind |-> "command", name |-> b.commands[k]]
  BY BlockLinesFacts, Zenon
<1>2. IsEntries(b.convars) /\ IsEntries(b.toggles) /\ b.commands \in Seq(Range(b.commands))
  BY DEF IsBlock
<1>3. /\ c(0) = <<>> /\ c(nc) = b.convars
      /\ \A k \in 1 .. nc : With(c(k - 1), n[k], b.convars[n[k]]) = c(k)
      /\ g(0) = <<>> /\ g(nt) = b.toggles
      /\ \A k \in 1 .. nt : With(g(k - 1), t[k], b.toggles[t[k]]) = g(k)
  BY <1>2, EntriesOneByOne, Zenon
<1>4. d(0) = <<>> /\ d(m) = b.commands /\ \A k \in 1 .. m : Append(d(k - 1), b.commands[k]) = d(k)
  BY <1>1, <1>2
<1>5. /\ At(1, <<>>, <<>>, <<>>)
      /\ \A k \in 2 .. 1 + nc + nt + m : h[k] = ParseLine(h[k - 1], B[k])
  BY <1>1, Zenon
<1> HIDE DEF B, n, t, nc, nt, m, c, g, d
<1>6. ASSUME NEW k \in 1 .. nc + nt + m, NEW x, NEW y, NEW z, At(k, x, y, z), NEW line, line = B[1 + k]
      PROVE  /\ line.kind = "convar" => At(1 + k, With(x, line.name, line.value), y, z)
             /\ line.kind = "toggle" => At(1 + k, x, With(y, line.name, line.value), z)
             /\ line.kind = "command" => At(1 + k, x, y, Append(z, line.name))
  <2>1. 1 + k \in 2 .. 1 + nc + nt + m /\ 1 + k - 1 = k
    BY <1>1
  <2>2. h[1 + k] = ParseLine(h[k], line)
    BY <1>5, <1>6, <2>1
  <2> QED
    BY <1>6, <2>2, ParseLineSteps
<1> HIDE DEF At
<1>7. At(1 + nc, b.convars, <<>>, <<>>)
  <2> DEFINE G == {k \in 0 .. nc : At(1 + k, c(k), <<>>, <<>>)}
  <2>1. 0 \in G
    BY <1>1, <1>3, <1>5
  <2>2. ASSUME NEW k \in 1 .. nc, k - 1 \in G PROVE k \in G
    <3>1. At(1 + (k - 1), c(k - 1), <<>>, <<>>)
      BY <2>2
    <3> DEFINE line == B[1 + k]
               j == k
    <3>2. j \in 1 .. nc + nt + m /\ 1 + (k - 1) = j /\ 1 + j = 1 + k
      BY <1>1
    <3>3. line.kind = "convar" /\ line.name = n[k] /\ line.value = b.convars[n[k]]
      <4>1. line = [kind |-> "convar", name |-> n[k], value |-> b.convars[n[k]]]
        BY <1>1, Zenon
      <4> QED
        BY <4>1
    <3>4. line = B[1 + j] /\ At(j, c(k - 1), <<>>, <<>>)
      BY <3>1, <3>2
    <3> HIDE DEF line, j
    <3>5. At(1 + j, c(k), <<>>, <<>>)
      BY <1>6, <1>3, <3>2, <3>3, <3>4
    <3>6. At(1 + k, c(k), <<>>, <<>>)
      BY <3>2, <3>5
    <3> QED
      BY <1>1, <3>6
  <2> HIDE DEF G
  <2>3. nc \in G
    BY <1>1, <2>1, <2>2, UpTo, Zenon
  <2> QED
    BY <1>3, <2>3 DEF G
<1>8. At(1 + nc + nt, b.convars, b.toggles, <<>>)
  <2> DEFINE G == {k \in 0 .. nt : At(1 + nc + k, b.convars, g(k), <<>>)}
  <2>1. 0 \in G
    BY <1>1, <1>3, <1>7
  <2>2. ASSUME NEW k \in 1 .. nt, k - 1 \in G PROVE k \in G
    <3>1. At(1 + nc + (k - 1), b.convars, g(k - 1), <<>>)
      BY <2>2
    <3> DEFINE line == B[1 + nc + k]
               j == nc + k
    <3>2. j \in 1 .. nc + nt + m /\ 1 + nc + (k - 1) = j /\ 1 + j = 1 + nc + k
      BY <1>1
    <3>3. line.kind = "toggle" /\ line.name = t[k] /\ line.value = b.toggles[t[k]]
      <4>1. line = [kind |-> "toggle", name |-> t[k], value |-> b.toggles[t[k]]]
        BY <1>1, Zenon
      <4> QED
        BY <4>1
    <3>4. line = B[1 + j] /\ At(j, b.convars, g(k - 1), <<>>)
      BY <3>1, <3>2
    <3> HIDE DEF line, j
    <3>5. At(1 + j, b.convars, g(k), <<>>)
      BY <1>6, <1>3, <3>2, <3>3, <3>4
    <3>6. At(1 + nc + k, b.convars, g(k), <<>>)
      BY <3>2, <3>5
    <3> QED
      BY <1>1, <3>6
  <2> HIDE DEF G
  <2>3. nt \in G
    BY <1>1, <2>1, <2>2, UpTo, Zenon
  <2> QED
    BY <1>3, <2>3 DEF G
<1>9. At(1 + nc + nt + m, b.convars, b.toggles, b.commands)
  <2> DEFINE G == {k \in 0 .. m : At(1 + nc + nt + k, b.convars, b.toggles, d(k))}
  <2>1. 0 \in G
    BY <1>1, <1>4, <1>8
  <2>2. ASSUME NEW k \in 1 .. m, k - 1 \in G PROVE k \in G
    <3>1. At(1 + nc + nt + (k - 1), b.convars, b.toggles, d(k - 1))
      BY <2>2
    <3> DEFINE line == B[1 + nc + nt + k]
               j == nc + nt + k
    <3>2. j \in 1 .. nc + nt + m /\ 1 + nc + nt + (k - 1) = j /\ 1 + j = 1 + nc + nt + k
      BY <1>1
    <3>3. line.kind = "command" /\ line.name = b.commands[k]
      <4>1. line = [kind |-> "command", name |-> b.commands[k]]
        BY <1>1, Zenon
      <4> QED
        BY <4>1
    <3>4. line = B[1 + j] /\ At(j, b.convars, b.toggles, d(k - 1))
      BY <3>1, <3>2
    <3> HIDE DEF line, j
    <3>5. At(1 + j, b.convars, b.toggles, d(k))
      <4>1. Append(d(k - 1), line.name) = d(k)
        BY <1>4, <3>3
      <4>2. At(1 + j, b.convars, b.toggles, Append(d(k - 1), line.name))
        BY <1>6, <3>2, <3>3, <3>4
      <4> QED
        BY <4>1, <4>2, Zenon
    <3>6. At(1 + nc + nt + k, b.convars, b.toggles, d(k))
      BY <3>2, <3>5
    <3> QED
      BY <1>1, <3>6
  <2> HIDE DEF G
  <2>3. m \in G
    BY <1>1, <2>1, <2>2, UpTo, Zenon
  <2> QED
    BY <1>4, <2>3 DEF G
<1> QED
  BY <1>1, <1>9 DEF B, At

-----------------------------------------------------------------------------
(* The lines of a script: the lines of its blocks, joined.                   *)

\* Sequences put one after the other.
Joined(S, n, g, part) == \A i \in 1 .. n : part[i] \in Seq(S) /\ g[i] = g[i - 1] \o part[i]

\* Where the elements of each of them are.
Placed(S, n, g, part) ==
    /\ \A i \in 0 .. n : /\ g[i] \in Seq(S) /\ Len(g[i]) \in Nat /\ Len(g[i]) <= Len(g[n])
                         /\ \A k \in 1 .. Len(g[i]) : g[n][k] = g[i][k]
    /\ \A i \in 1 .. n : /\ Len(g[i]) = Len(g[i - 1]) + Len(part[i])
                         /\ \A k \in 1 .. Len(part[i]) : g[n][Len(g[i - 1]) + k] = part[i][k]

\* Sequences put one after the other: where the elements of each one are.
LEMMA JoinedParts ==
    ASSUME NEW S, NEW n \in Nat, NEW g, NEW part, g[0] \in Seq(S), Joined(S, n, g, part)
    PROVE  Placed(S, n, g, part)
<1>1. ASSUME NEW i \in 0 .. n PROVE g[i] \in Seq(S) /\ Len(g[i]) \in Nat
  <2> DEFINE G == {j \in 0 .. i : g[j] \in Seq(S)}
  <2>1. 0 \in G
    OBVIOUS
  <2>2. ASSUME NEW j \in 1 .. i, j - 1 \in G PROVE j \in G
    <3>1. j \in 1 .. n /\ j \in 0 .. i
      OBVIOUS
    <3>2. part[j] \in Seq(S) /\ g[j] = g[j - 1] \o part[j] /\ g[j - 1] \in Seq(S)
      BY <2>2, <3>1, Zenon DEF Joined
    <3>3. g[j] \in Seq(S)
      BY <3>2, JoinSeq, Zenon
    <3> QED
      BY <3>1, <3>3
  <2> HIDE DEF G
  <2>3. i \in G
    BY <2>1, <2>2, UpTo
  <2>4. g[i] \in Seq(S)
    BY <2>3 DEF G
  <2> QED
    BY <2>4, SeqFacts
<1>2. ASSUME NEW i \in 1 .. n
      PROVE  /\ Len(part[i]) \in Nat /\ Len(g[i]) = Len(g[i - 1]) + Len(part[i])
             /\ \A k \in 1 .. Len(g[i - 1]) : g[i][k] = g[i - 1][k]
             /\ \A k \in 1 .. Len(part[i]) : g[i][Len(g[i - 1]) + k] = part[i][k]
  <2> DEFINE a == g[i - 1]
             c == part[i]
  <2>1. a \in Seq(S) /\ c \in Seq(S) /\ g[i] = a \o c
    <3>1. i - 1 \in 0 .. n
      OBVIOUS
    <3> QED
      BY <1>1, <3>1, Zenon DEF Joined
  <2> HIDE DEF a, c
  <2>2. Len(c) \in Nat
    BY <2>1, SeqFacts
  <2>3. /\ Len(a \o c) = Len(a) + Len(c)
        /\ \A k \in 1 .. Len(a) : (a \o c)[k] = a[k]
        /\ \A k \in 1 .. Len(c) : (a \o c)[Len(a) + k] = c[k]
    BY <2>1, JoinSeq
  <2> QED
    BY <2>1, <2>2, <2>3, Zenon DEF a, c
<1>3. ASSUME NEW i \in 0 .. n
      PROVE  Len(g[i]) <= Len(g[n]) /\ \A k \in 1 .. Len(g[i]) : g[n][k] = g[i][k]
  <2> DEFINE P(j) == Len(g[i]) <= Len(g[j]) /\ \A k \in 1 .. Len(g[i]) : g[j][k] = g[i][k]
             G == {j \in 0 .. n : j >= i => P(j)}
  <2>1. P(i)
    BY <1>1
  <2>2. 0 \in G
    <3>1. 0 >= i => i = 0
      OBVIOUS
    <3> QED
      BY <2>1, <3>1
  <2>3. ASSUME NEW j \in 1 .. n, j - 1 \in G PROVE j \in G
    <3>1. j \in 0 .. n /\ j - 1 \in 0 .. n
      OBVIOUS
    <3>2. CASE j <= i
      <4>1. j >= i => j = i
        BY <3>2
      <4> HIDE DEF P
      <4> QED
        BY <2>1, <3>1, <4>1
    <3>3. CASE j > i
      <4>1. P(j - 1)
        BY <2>3, <3>3
      <4>2. /\ Len(g[i]) \in Nat /\ Len(g[j - 1]) \in Nat /\ Len(part[j]) \in Nat
            /\ Len(g[j]) = Len(g[j - 1]) + Len(part[j])
            /\ \A k \in 1 .. Len(g[j - 1]) : g[j][k] = g[j - 1][k]
        BY <1>1, <1>2, <3>1, Zenon
      <4>3. Len(g[i]) <= Len(g[j]) /\ \A k \in 1 .. Len(g[i]) : k \in 1 .. Len(g[j - 1])
        <5> DEFINE a == Len(g[i])
                   d == Len(g[j - 1])
                   e == Len(part[j])
        <5>1. a \in Nat /\ d \in Nat /\ e \in Nat /\ Len(g[j]) = d + e /\ a <= d
          BY <4>1, <4>2
        <5> HIDE DEF a, d, e
        <5> QED
          BY <5>1 DEF a, d
      <4>4. P(j)
        BY <4>1, <4>2, <4>3, Zenon
      <4> HIDE DEF P
      <4> QED
        BY <3>1, <4>4
    <3> QED
      BY <3>2, <3>3
  <2> HIDE DEF G
  <2>4. n \in G
    BY <2>2, <2>3, UpTo
  <2> HIDE DEF P
  <2>5. P(n)
    BY <2>4 DEF G
  <2> QED
    BY <2>5 DEF P
<1>4. ASSUME NEW i \in 1 .. n, NEW k \in 1 .. Len(part[i])
      PROVE  g[n][Len(g[i - 1]) + k] = part[i][k]
  <2>1. i \in 0 .. n /\ i - 1 \in 0 .. n
    OBVIOUS
  <2>2. Len(g[i - 1]) \in Nat
    BY <1>1, <2>1
  <2>3. Len(g[i - 1]) + k \in 1 .. Len(g[i])
    <3> DEFINE a == Len(g[i - 1])
               d == Len(part[i])
    <3>1. a \in Nat /\ d \in Nat /\ Len(g[i]) = a + d /\ k \in 1 .. d
      BY <1>2, <2>2, Zenon
    <3> HIDE DEF a, d
    <3> QED
      BY <3>1 DEF a
  <2>4. g[n][Len(g[i - 1]) + k] = g[i][Len(g[i - 1]) + k]
    BY <1>3, <2>1, <2>3, Zenon
  <2>5. g[i][Len(g[i - 1]) + k] = part[i][k]
    BY <1>2, Zenon
  <2> QED
    BY <2>4, <2>5
<1> QED
  BY <1>1, <1>2, <1>3, <1>4, Zenon DEF Placed

\* What _Write_To_File has written after each of the blocks.
LEMMA WriteSteps ==
    ASSUME NEW s, Len(s) \in Nat
    PROVE  \E f : /\ f[0] = <<>>
                  /\ \A i \in 1 .. Len(s) :
                        f[i] = f[i - 1] \o BlockLines(s[i], IF i = 1 THEN 0 ELSE s[i - 1].frame)
                  /\ _Write_To_File(s) = f[Len(s)]
<1> DEFINE n == Len(s)
           Step(x, i) == x \o BlockLines(s[i], IF i = 1 THEN 0 ELSE s[i - 1].frame)
           Good(g, m) == g[0] = <<>> /\ \A i \in 1 .. m : g[i] = Step(g[i - 1], i)
           G == {m \in 0 .. n : \E g : Good(g, m)}
           Eq(f) == f = [i \in 0 .. n |-> IF i = 0 THEN <<>> ELSE Step(f[i - 1], i)]
           F == CHOOSE f : Eq(f)
<1>0. _Write_To_File(s) = F[n]
  BY DEF _Write_To_File
<1> HIDE DEF Step
<1>1. 0 \in G
  <2> DEFINE g == [i \in {0} |-> <<>>]
  <2>1. Good(g, 0)
    OBVIOUS
  <2> HIDE DEF g, Good
  <2> QED
    BY <2>1
<1>2. ASSUME NEW m \in 1 .. n, m - 1 \in G PROVE m \in G
  <2>1. PICK g : Good(g, m - 1)
    BY <1>2
  <2> DEFINE h == [i \in 0 .. m |-> IF i = m THEN Step(g[m - 1], m) ELSE g[i]]
  <2>2. h[0] = <<>>
    BY <2>1
  <2>3. ASSUME NEW i \in 1 .. m PROVE h[i] = Step(h[i - 1], i)
    BY <2>1
  <2> HIDE DEF h
  <2>4. Good(h, m)
    BY <2>2, <2>3
  <2> HIDE DEF Good
  <2> QED
    BY <2>4
<1> HIDE DEF G
<1>3. n \in G
  BY <1>1, <1>2, UpTo, Zenon
<1>4. PICK g : Good(g, n)
  BY <1>3 DEF G
<1> DEFINE h == [i \in 0 .. n |-> g[i]]
<1>5. Eq(h)
  BY <1>4
<1>6. Eq(F)
  BY <1>5, Zenon
<1> HIDE DEF F
<1>7. F[0] = <<>> /\ \A i \in 1 .. n : F[i] = Step(F[i - 1], i)
  BY <1>6
<1> QED
  BY <1>0, <1>7, Zenon DEF Step

\* The parser's state after each of the lines.
LEMMA ParseSteps ==
    ASSUME NEW lines, Len(lines) \in Nat
    PROVE  \E f : /\ f[0] = Unread
                  /\ \A i \in 1 .. Len(lines) : f[i] = ParseLine(f[i - 1], lines[i])
                  /\ Parsed(lines) = f[Len(lines)]
<1> DEFINE n == Len(lines)
           Step(x, i) == ParseLine(x, lines[i])
           Good(g, m) == g[0] = Unread /\ \A i \in 1 .. m : g[i] = Step(g[i - 1], i)
           G == {m \in 0 .. n : \E g : Good(g, m)}
           Eq(f) == f = [i \in 0 .. n |-> IF i = 0 THEN Unread ELSE Step(f[i - 1], i)]
           F == CHOOSE f : Eq(f)
<1>0. Parsed(lines) = F[n]
  BY DEF Parsed, Unread
<1> HIDE DEF Step
<1>1. 0 \in G
  <2> DEFINE g == [i \in {0} |-> Unread]
  <2>1. Good(g, 0)
    OBVIOUS
  <2> HIDE DEF g, Good
  <2> QED
    BY <2>1
<1>2. ASSUME NEW m \in 1 .. n, m - 1 \in G PROVE m \in G
  <2>1. PICK g : Good(g, m - 1)
    BY <1>2
  <2> DEFINE h == [i \in 0 .. m |-> IF i = m THEN Step(g[m - 1], m) ELSE g[i]]
  <2>2. h[0] = Unread
    BY <2>1
  <2>3. ASSUME NEW i \in 1 .. m PROVE h[i] = Step(h[i - 1], i)
    BY <2>1
  <2> HIDE DEF h
  <2>4. Good(h, m)
    BY <2>2, <2>3
  <2> HIDE DEF Good
  <2> QED
    BY <2>4
<1> HIDE DEF G
<1>3. n \in G
  BY <1>1, <1>2, UpTo, Zenon
<1>4. PICK g : Good(g, n)
  BY <1>3 DEF G
<1> DEFINE h == [i \in 0 .. n |-> g[i]]
<1>5. Eq(h)
  BY <1>4
<1>6. Eq(F)
  BY <1>5, Zenon
<1> HIDE DEF F
<1>7. F[0] = Unread /\ \A i \in 1 .. n : F[i] = Step(F[i - 1], i)
  BY <1>6
<1> QED
  BY <1>0, <1>7 DEF Step

\* The kinds of lines.
Kinds == {"frame", "convar", "toggle", "command"}

\* Every line of a block is of one of the kinds.
LEMMA BlockLineKinds ==
    ASSUME NEW b, IsBlock(b), NEW previous \in Nat, previous <= b.frame, NEW k \in 1 .. Len(BlockLines(b, previous))
    PROVE  BlockLines(b, previous)[k].kind \in Kinds
<1> DEFINE B == BlockLines(b, previous)
           n == NamesOf(b.convars)
           t == NamesOf(b.toggles)
           nc == Cardinality(DOMAIN b.convars)
           nt == Cardinality(DOMAIN b.toggles)
           m == Len(b.commands)
<1>1. /\ nc \in Nat /\ nt \in Nat /\ m \in Nat /\ Len(B) = 1 + nc + nt + m
      /\ B[1] = [kind |-> "frame", name |-> b.frame - previous]
      /\ \A i \in 1 .. nc : B[1 + i] = [kind |-> "convar", name |-> n[i], value |-> b.convars[n[i]]]
      /\ \A i \in 1 .. nt : B[1 + nc + i] = [kind |-> "toggle", name |-> t[i], value |-> b.toggles[t[i]]]
      /\ \A i \in 1 .. m : B[1 + nc + nt + i] = [kind |-> "command", name |-> b.commands[i]]
  BY BlockLinesFacts, Zenon
<1>2. k \in 1 .. Len(B)
  OBVIOUS
<1> HIDE DEF B, n, t, nc, nt, m
<1>3. \/ k = 1
      \/ \E i \in 1 .. nc : k = 1 + i
      \/ \E i \in 1 .. nt : k = 1 + nc + i
      \/ \E i \in 1 .. m : k = 1 + nc + nt + i
  <2>1. nc \in Nat /\ nt \in Nat /\ m \in Nat /\ k \in 1 .. 1 + nc + nt + m
    BY <1>1, <1>2
  <2>2. CASE k \in 2 .. 1 + nc
    <3>1. k - 1 \in 1 .. nc /\ k = 1 + (k - 1)
      BY <2>1, <2>2
    <3> QED
      BY <3>1
  <2>3. CASE k \in 2 + nc .. 1 + nc + nt
    <3>1. k - 1 - nc \in 1 .. nt /\ k = 1 + nc + (k - 1 - nc)
      BY <2>1, <2>3
    <3> QED
      BY <3>1
  <2>4. CASE k \in 2 + nc + nt .. 1 + nc + nt + m
    <3>1. k - 1 - nc - nt \in 1 .. m /\ k = 1 + nc + nt + (k - 1 - nc - nt)
      BY <2>1, <2>4
    <3> QED
      BY <3>1
  <2> QED
    BY <2>1, <2>2, <2>3, <2>4
<1>4. CASE k = 1
  BY <1>1, <1>4 DEF B, Kinds
<1>5. ASSUME NEW i \in 1 .. nc, k = 1 + i PROVE B[k].kind \in Kinds
  <2>1. B[k] = [kind |-> "convar", name |-> n[i], value |-> b.convars[n[i]]]
    BY <1>1, <1>5, Zenon
  <2> QED
    BY <2>1 DEF Kinds
<1>6. ASSUME NEW i \in 1 .. nt, k = 1 + nc + i PROVE B[k].kind \in Kinds
  <2>1. B[k] = [kind |-> "toggle", name |-> t[i], value |-> b.toggles[t[i]]]
    BY <1>1, <1>6, Zenon
  <2> QED
    BY <2>1 DEF Kinds
<1>7. ASSUME NEW i \in 1 .. m, k = 1 + nc + nt + i PROVE B[k].kind \in Kinds
  <2>1. B[k] = [kind |-> "command", name |-> b.commands[i]]
    BY <1>1, <1>7, Zenon
  <2> QED
    BY <2>1 DEF Kinds
<1> QED
  BY <1>3, <1>4, <1>5, <1>6, <1>7 DEF B

\* The file of a script in order: the lines of its blocks, one block after the other.
LEMMA FileLines ==
    ASSUME NEW s, Ordered(s)
    PROVE  \E S, g, part :
              /\ g[0] = <<>> /\ g[Len(s)] = _Write_To_File(s) /\ Joined(S, Len(s), g, part)
              /\ \A i \in 1 .. Len(s) : part[i] = BlockLines(s[i], IF i = 1 THEN 0 ELSE s[i - 1].frame)
              /\ \A x \in S : x.kind \in Kinds
<1> DEFINE prev(i) == IF i = 1 THEN 0 ELSE s[i - 1].frame
           part == [i \in 1 .. Len(s) |-> BlockLines(s[i], prev(i))]
           S == {part[p[1]][p[2]] : p \in {q \in (1 .. Len(s)) \X Nat : q[2] \in 1 .. Len(part[q[1]])}}
<1>1. Len(s) \in Nat
  BY OrderedFacts
<1>2. PICK g : /\ g[0] = <<>>
               /\ \A i \in 1 .. Len(s) : g[i] = g[i - 1] \o BlockLines(s[i], prev(i))
               /\ _Write_To_File(s) = g[Len(s)]
  BY <1>1, WriteSteps, Zenon
<1>3. ASSUME NEW i \in 1 .. Len(s)
      PROVE  IsBlock(s[i]) /\ prev(i) \in Nat /\ prev(i) <= s[i].frame
  <2>1. /\ DOMAIN s = 1 .. Len(s)
        /\ \A k \in DOMAIN s : IsBlock(s[k]) /\ s[k].frame \in Nat
        /\ \A k, j \in DOMAIN s : k <= j => s[k].frame <= s[j].frame
    BY OrderedFacts, Zenon
  <2>2. CASE i = 1
    BY <2>1, <2>2
  <2>3. CASE i # 1
    <3>1. i - 1 \in DOMAIN s /\ i - 1 <= i
      BY <1>1, <2>1, <2>3
    <3> QED
      BY <2>1, <2>3, <3>1
  <2> QED
    BY <2>2, <2>3
<1>4. ASSUME NEW i \in 1 .. Len(s) PROVE part[i] = BlockLines(s[i], prev(i))
  OBVIOUS
<1> HIDE DEF prev
<1>5. ASSUME NEW i \in 1 .. Len(s)
      PROVE  part[i] \in Seq(Range(part[i])) /\ \A k \in 1 .. Len(part[i]) : part[i][k].kind \in Kinds
  <2>1. BlockLines(s[i], prev(i)) \in Seq(Range(BlockLines(s[i], prev(i))))
    BY <1>3, BlockLinesFacts, Zenon
  <2>2. \A k \in 1 .. Len(BlockLines(s[i], prev(i))) : BlockLines(s[i], prev(i))[k].kind \in Kinds
    BY <1>3, BlockLineKinds, Zenon
  <2> QED
    BY <1>4, <2>1, <2>2, Zenon
<1> HIDE DEF part
<1>6. \A x \in S : x.kind \in Kinds
  BY <1>5
<1>7. ASSUME NEW i \in 1 .. Len(s) PROVE part[i] \in Seq(S)
  <2>1. part[i] \in Seq(Range(part[i]))
    BY <1>5
  <2>2. DOMAIN part[i] = 1 .. Len(part[i]) /\ Len(part[i]) \in Nat
    BY <2>1, SeqFacts
  <2>3. ASSUME NEW k \in 1 .. Len(part[i]) PROVE part[i][k] \in S
    <3> DEFINE p == <<i, k>>
    <3>1. p[1] = i /\ p[2] = k /\ p \in {q \in (1 .. Len(s)) \X Nat : q[2] \in 1 .. Len(part[q[1]])}
      BY <2>2
    <3> QED
      BY <3>1
  <2>4. Range(part[i]) \subseteq S
    <3> HIDE DEF S
    <3> QED
      BY <2>2, <2>3 DEF Range
  <2> HIDE DEF S
  <2> QED
    BY <2>1, <2>4, SeqFacts, Zenon
<1> HIDE DEF S
<1>8. Joined(S, Len(s), g, part)
  BY <1>2, <1>4, <1>7, Zenon DEF Joined
<1> QED
  BY <1>2, <1>4, <1>6, <1>8, Zenon DEF prev

\* _Load_From_File gives the script back that _Write_To_File wrote.
LEMMA FileRoundTrip ==
    ASSUME NEW s, Ordered(s)
    PROVE  _Load_From_File(_Write_To_File(s)) = s
<1> DEFINE n == Len(s)
           L == _Write_To_File(s)
           prev(i) == IF i = 1 THEN 0 ELSE s[i - 1].frame
<1>1. /\ s \in Seq(Range(s)) /\ n \in Nat /\ DOMAIN s = 1 .. n
      /\ \A i \in DOMAIN s : IsBlock(s[i]) /\ s[i].frame \in Nat
      /\ \A i, j \in DOMAIN s : i <= j => s[i].frame <= s[j].frame
  BY OrderedFacts, Zenon
<1>2. PICK S, g, part :
              /\ g[0] = <<>> /\ g[n] = L /\ Joined(S, n, g, part)
              /\ \A i \in 1 .. n : part[i] = BlockLines(s[i], prev(i))
              /\ \A x \in S : x.kind \in Kinds
  BY FileLines
<1>3. /\ \A i \in 0 .. n : g[i] \in Seq(S) /\ Len(g[i]) \in Nat /\ Len(g[i]) <= Len(L)
      /\ \A i \in 1 .. n : /\ Len(g[i]) = Len(g[i - 1]) + Len(part[i])
                           /\ \A k \in 1 .. Len(part[i]) : L[Len(g[i - 1]) + k] = part[i][k]
  <2>1. n \in Nat /\ g[0] \in Seq(S) /\ Joined(S, n, g, part)
    BY <1>1, <1>2
  <2> HIDE DEF n
  <2>2. Placed(S, n, g, part)
    BY <2>1, JoinedParts, Zenon
  <2>3. g[n] = L
    BY <1>2
  <2> QED
    BY <2>2, <2>3, Zenon DEF Placed
<1>4. L \in Seq(S) /\ Len(L) \in Nat
  <2>1. n \in 0 .. n
    BY <1>1
  <2> QED
    BY <1>2, <1>3, <2>1
<1>5. PICK f : /\ f[0] = Unread
               /\ \A i \in 1 .. Len(L) : f[i] = ParseLine(f[i - 1], L[i])
               /\ Parsed(L) = f[Len(L)]
  BY <1>4, ParseSteps, Zenon
<1> DEFINE E(i) == Reading(f[Len(g[i])], SubSeq(s, 1, i - 1), s[i].frame, s[i].convars, s[i].toggles, s[i].commands)
           G == {i \in 0 .. n : i = 0 \/ E(i)}
<1> HIDE DEF L
<1>6. ASSUME NEW i \in 1 .. n, i - 1 \in G PROVE E(i)
  <2> DEFINE b == s[i]
             B == part[i]
             m == Len(g[i - 1])
             h == [k \in 1 .. Len(B) |-> f[m + k]]
  <2>1. i \in 0 .. n /\ i - 1 \in 0 .. n /\ i \in DOMAIN s
    BY <1>1
  <2>2. IsBlock(b) /\ b.frame \in Nat /\ prev(i) \in Nat /\ prev(i) <= b.frame
    <3>1. CASE i = 1
      BY <1>1, <2>1, <3>1
    <3>2. CASE i # 1
      <4>1. i - 1 \in DOMAIN s /\ i - 1 <= i
        BY <1>1, <3>2
      <4> QED
        BY <1>1, <2>1, <3>2, <4>1
    <3> QED
      BY <3>1, <3>2
  <2>3. B = BlockLines(b, prev(i))
    BY <1>2
  <2> DEFINE d == b.frame - prev(i)
  <2>4. B[1] = [kind |-> "frame", name |-> d] /\ Len(B) \in Nat /\ Len(B) >= 1
    <3>1. PICK x \in Nat, y \in Nat, z \in Nat :
             B[1] = [kind |-> "frame", name |-> d] /\ Len(B) = 1 + x + y + z
      <4> DEFINE q == prev(i)
      <4>1. q \in Nat /\ q <= b.frame
        BY <2>2
      <4> HIDE DEF q, b
      <4>2. LET C == BlockLines(b, q)
            IN  /\ C[1] = [kind |-> "frame", name |-> b.frame - q]
                /\ Len(C) = 1 + Cardinality(DOMAIN b.convars) + Cardinality(DOMAIN b.toggles) + Len(b.commands)
                /\ Cardinality(DOMAIN b.convars) \in Nat /\ Cardinality(DOMAIN b.toggles) \in Nat /\ Len(b.commands) \in Nat
        BY <2>2, <4>1, BlockLinesFacts, Zenon
      <4> QED
        BY <2>3, <4>2, Zenon DEF q
    <3>2. 1 + x + y + z \in Nat /\ 1 + x + y + z >= 1
      OBVIOUS
    <3> QED
      BY <3>1, <3>2, Zenon
  <2>5. m \in Nat /\ Len(g[i]) = m + Len(B) /\ Len(g[i]) <= Len(L) /\ \A k \in 1 .. Len(B) : L[m + k] = B[k]
    BY <1>3, <2>1, Zenon
  <2> HIDE DEF m, B
  <2>6. ASSUME NEW k \in 1 .. Len(B) PROVE f[m + k] = ParseLine(f[m + k - 1], B[k])
    <3>1. m \in Nat /\ Len(g[i]) = m + Len(B) /\ Len(g[i]) <= Len(L) /\ Len(B) \in Nat
      BY <2>4, <2>5, Zenon
    <3>2. m + k \in 1 .. Len(L)
      BY <1>4, <3>1
    <3>3. f[m + k] = ParseLine(f[(m + k) - 1], L[m + k]) /\ L[m + k] = B[k]
      BY <1>5, <2>5, <3>2, Zenon
    <3>4. (m + k) - 1 = m + k - 1
      BY <3>1
    <3> QED
      BY <3>3, <3>4, Zenon
  <2>7. h[1] = ParseLine(f[m], [kind |-> "frame", name |-> d])
    <3>1. 1 \in 1 .. Len(B) /\ m + 1 - 1 = m
      BY <2>4, <2>5
    <3>2. f[m + 1] = ParseLine(f[m], B[1])
      BY <2>6, <3>1
    <3>3. h[1] = f[m + 1]
      BY <3>1
    <3> QED
      BY <2>4, <3>2, <3>3, Zenon
  <2>8. Reading(h[1], SubSeq(s, 1, i - 1), b.frame, <<>>, <<>>, <<>>)
    <3> HIDE DEF h
    <3>1. CASE i = 1
      <4>1. m = 0
        <5>1. m = Len(g[0])
          BY <3>1 DEF m
        <5> QED
          BY <1>2, <5>1
      <4>2. d + 0 = b.frame
        BY <2>2, <3>1
      <4>3. SubSeq(s, 1, i - 1) = <<>>
        BY <1>1, <3>1
      <4> HIDE DEF d
      <4>4. Reading(h[1], <<>>, d + 0, <<>>, <<>>, <<>>)
        BY <1>5, <2>7, <4>1, FirstLine, Zenon
      <4> QED
        BY <4>2, <4>3, <4>4, Zenon
    <3>2. CASE i # 1
      <4> DEFINE a == s[i - 1]
                 line == [kind |-> "frame", name |-> d]
      <4>1. Reading(f[m], SubSeq(s, 1, i - 2), a.frame, a.convars, a.toggles, a.commands)
        <5>1. E(i - 1) /\ i - 1 - 1 = i - 2
          BY <1>6, <3>2
        <5> QED
          BY <5>1 DEF m
      <4>2. i - 1 \in DOMAIN s
        BY <1>1, <3>2
      <4>3. IsBlock(a) /\ a.frame \in Nat
        BY <1>1, <4>2, Zenon
      <4>4. f[m].fb = a
        <5>1. f[m].fb = Block(a.frame, a.convars, a.toggles, a.commands)
          BY <4>1 DEF Reading
        <5>2. a = Block(a.frame, a.convars, a.toggles, a.commands)
          BY <4>3 DEF IsBlock, Block
        <5> QED
          BY <5>1, <5>2
      <4>5. d + a.frame = b.frame
        BY <2>2, <3>2, <4>3
      <4>6. Append(SubSeq(s, 1, i - 2), a) = SubSeq(s, 1, i - 1)
        BY <1>1, <4>2
      <4>7. line.kind = "frame" /\ line.name = d
        OBVIOUS
      <4> HIDE DEF a, line, d
      <4>8. Reading(ParseLine(f[m], line), Append(SubSeq(s, 1, i - 2), f[m].fb), line.name + a.frame, <<>>, <<>>, <<>>)
        BY <4>1, <4>7, ParseLineSteps, Zenon
      <4>9. h[1] = ParseLine(f[m], line)
        BY <2>7 DEF line
      <4> QED
        BY <4>4, <4>5, <4>6, <4>7, <4>8, <4>9, Zenon
    <3> QED
      BY <3>1, <3>2
  <2>9. ASSUME NEW k \in 2 .. Len(B) PROVE h[k] = ParseLine(h[k - 1], B[k])
    <3>0. m \in Nat /\ Len(B) \in Nat
      BY <2>4, <2>5, Zenon
    <3>1. k \in 1 .. Len(B) /\ k - 1 \in 1 .. Len(B) /\ m + k - 1 = m + (k - 1)
      BY <3>0
    <3>2. f[m + k] = ParseLine(f[m + (k - 1)], B[k])
      BY <2>6, <3>1
    <3> QED
      BY <3>1, <3>2
  <2>10. h[Len(B)] = f[Len(g[i])]
    BY <2>4, <2>5
  <2> HIDE DEF h, d
  <2>11. Reading(h[Len(B)], SubSeq(s, 1, i - 1), b.frame, b.convars, b.toggles, b.commands)
    <3> HIDE DEF b, prev
    <3> QED
      BY <2>2, <2>3, <2>8, <2>9, ReadBlock, Zenon
  <2> QED
    BY <2>10, <2>11
<1>7. n \in G
  <2>1. 0 \in G
    BY <1>1
  <2>2. \A i \in 1 .. n : i - 1 \in G => i \in G
    <3> SUFFICES ASSUME NEW i \in 1 .. n, i - 1 \in G PROVE i \in G
      OBVIOUS
    <3>1. E(i)
      BY <1>6
    <3> HIDE DEF E
    <3> QED
      BY <1>1, <3>1
  <2> HIDE DEF G
  <2> QED
    BY <1>1, <2>1, <2>2, UpTo, Zenon
<1>8. _Load_From_File(L) = IF f[Len(L)].parsed THEN Append(f[Len(L)].blocks, f[Len(L)].fb) ELSE f[Len(L)].blocks
  BY <1>5 DEF _Load_From_File
<1>9. CASE n = 0
  <2>1. Len(L) = 0
    BY <1>2, <1>9
  <2>2. _Load_From_File(L) = <<>>
    BY <1>5, <1>8, <2>1 DEF Unread
  <2>3. s = <<>>
    BY <1>1, <1>9
  <2> QED
    BY <2>2, <2>3 DEF L
<1>10. CASE n # 0
  <2> DEFINE b == s[n]
  <2>1. Reading(f[Len(L)], SubSeq(s, 1, n - 1), b.frame, b.convars, b.toggles, b.commands)
    BY <1>2, <1>7, <1>10
  <2>2. n \in DOMAIN s
    BY <1>1, <1>10
  <2>3. b = Block(b.frame, b.convars, b.toggles, b.commands)
    BY <1>1, <2>2 DEF IsBlock, Block
  <2>4. f[Len(L)].parsed /\ f[Len(L)].blocks = SubSeq(s, 1, n - 1) /\ f[Len(L)].fb = b
    <3> HIDE DEF b
    <3> QED
      BY <2>1, <2>3 DEF Reading
  <2>5. Append(SubSeq(s, 1, n - 1), b) = s
    BY <1>1, <2>2
  <2> HIDE DEF b
  <2> QED
    BY <1>8, <2>4, <2>5, Zenon DEF L
<1> QED
  BY <1>9, <1>10, Zenon

-----------------------------------------------------------------------------
(* The script in a message: characters, the buffer and the lines read back.  *)

\* The first k characters of a line.
Characters(line, k) == [j \in 1 .. k |-> <<line, j>>]

\* A line in the buffer: its characters and what ends it.
InBuffer(text, line, m) ==
    /\ m \in Nat \ {0, 1} /\ Len(text) = m
    /\ \A k \in 1 .. m - 1 : text[k] = <<line, k>>
    /\ EndsLine(text[m])

\* The characters that the buffer may hold.
Bytes(T) == {<<"byte">>, <<"0">>, Newline, Null} \cup (T \X Nat)

\* No character of a line ends it.
LEMMA CharactersGoOn ==
    ASSUME NEW line, NEW k
    PROVE  ~EndsLine(<<line, k>>)
<1>1. Len(<<line, k>>) = 2 /\ Len(Newline) = 1 /\ Len(Null) = 1
  BY DEF Newline, Null
<1>2. <<line, k>> # Newline /\ <<line, k>> # Null
  BY <1>1
<1> QED
  BY <1>2, Zenon DEF EndsLine

\* One more character of a line.
LEMMA NextCharacter ==
    ASSUME NEW line, NEW k \in Nat \ {0}
    PROVE  /\ Characters(line, k) # <<>>
           /\ Append(Characters(line, k - 1), <<line, k>>) = Characters(line, k)
<1> DEFINE S == {line} \X Nat
<1>1. Characters(line, k - 1) \in Seq(S) /\ Len(Characters(line, k - 1)) = k - 1
  BY DEF Characters
<1>2. Characters(line, k) \in Seq(S) /\ Len(Characters(line, k)) = k
  BY DEF Characters
<1>3. Append(Characters(line, k - 1), <<line, k>>) = Characters(line, k)
  BY DEF Characters
<1> QED
  BY <1>2, <1>3

\* The text of a line, whole or with its newline lost, and the line it is read as.
LEMMA TextFacts ==
    ASSUME NEW T, NEW line \in T, line.kind \in Kinds
    PROVE  LET m == LineLength[line.kind]
           IN  /\ Text(line) \in Seq(Bytes(T)) /\ InBuffer(Text(line), line, m)
               /\ Append(Front(Text(line)), Null) \in Seq(Bytes(T))
               /\ InBuffer(Append(Front(Text(line)), Null), line, m)
               /\ LineOf(Characters(line, m - 1)) = line
<1> DEFINE m == LineLength[line.kind]
           S == Bytes(T)
           t == Text(line)
<1>1. m \in Nat \ {0, 1}
  BY BufferAssumption DEF Kinds
<1>2. t = [k \in 1 .. m |-> IF k = m THEN Newline ELSE <<line, k>>]
  BY DEF Text
<1>3. Newline \in S /\ Null \in S /\ \A k \in Nat : <<line, k>> \in S
  BY DEF Bytes
<1> HIDE DEF m, S, t
<1>4. t \in Seq(S) /\ Len(t) = m
  BY <1>1, <1>2, <1>3
<1>5. (\A k \in 1 .. m - 1 : t[k] = <<line, k>>) /\ t[m] = Newline
  BY <1>1, <1>2
<1>6. InBuffer(t, line, m)
  BY <1>1, <1>4, <1>5 DEF InBuffer, EndsLine
<1>7. Front(t) = Characters(line, m - 1)
  BY <1>1, <1>4, <1>5 DEF Front, Characters
<1> DEFINE c == Characters(line, m - 1)
           u == Append(c, Null)
<1>8. c \in Seq(S) /\ Len(c) = m - 1 /\ \A k \in 1 .. m - 1 : c[k] = <<line, k>>
  BY <1>1, <1>3 DEF Characters
<1>9. c[1] = <<line, 1>>
  BY <1>1, <1>8
<1> HIDE DEF c
<1>10. u \in Seq(S) /\ Len(u) = m /\ (\A k \in 1 .. m - 1 : u[k] = <<line, k>>) /\ u[m] = Null
  BY <1>1, <1>3, <1>8
<1> HIDE DEF u
<1>11. InBuffer(u, line, m)
  BY <1>1, <1>10 DEF InBuffer, EndsLine
<1>12. LineOf(c) = line
  <2>1. c[1][1] = line
    BY <1>9
  <2>2. c = Front(Text(line))
    BY <1>7 DEF c, t
  <2> QED
    BY <2>1, <2>2, Zenon DEF LineOf
<1> QED
  BY <1>4, <1>6, <1>7, <1>10, <1>11, <1>12, Zenon DEF m, S, t, c, u

\* The text at the end of the buffer, whole or with a null character for its last.
Wrote(data, before, text) == data = before \o text \/ data = before \o Append(Front(text), Null)

\* A text with a null character for its last.
LEMMA LostLast ==
    ASSUME NEW S, Null \in S, NEW text \in Seq(S), NEW n \in Nat \ {0}, Len(text) = n
    PROVE  Append(Front(text), Null) \in Seq(S) /\ Len(Append(Front(text), Null)) = n
<1> DEFINE a == SubSeq(text, 1, Len(text) - 1)
<1>1. a \in Seq(S) /\ Len(a) = n - 1
  OBVIOUS
<1> HIDE DEF a
<1>2. Append(a, Null) \in Seq(S) /\ Len(Append(a, Null)) = n
  BY <1>1
<1> QED
  BY <1>2, Zenon DEF a, Front

\* A write puts the text at the end of the buffer.
LEMMA WriteFacts ==
    ASSUME NEW buffer, "data" \in DOMAIN buffer, NEW text
    PROVE  /\ "data" \in DOMAIN Write(buffer, text)
           /\ Wrote(Write(buffer, text).data, buffer.data, text)
<1> DEFINE grown == IF Len(text) # buffer.size - Len(buffer.data)
                    THEN AllocateSpaceForWrite(buffer, Len(text)) ELSE buffer
           added == IF Len(text) = grown.size - Len(grown.data) THEN Append(Front(text), Null) ELSE text
<1>1. "data" \in DOMAIN grown /\ grown.data = buffer.data
  BY DEF AllocateSpaceForWrite
<1>2. Write(buffer, text) = [grown EXCEPT !.data = grown.data \o added]
  BY DEF Write
<1>3. added = text \/ added = Append(Front(text), Null)
  OBVIOUS
<1> DEFINE data == grown.data \o added
<1> HIDE DEF grown, added
<1>4. data = buffer.data \o added
  BY <1>1, Zenon
<1>5. Write(buffer, text) = [grown EXCEPT !.data = data]
  BY <1>2, Zenon
<1> HIDE DEF data
<1>6. "data" \in DOMAIN Write(buffer, text) /\ Write(buffer, text).data = data
  BY <1>1, <1>5
<1> QED
  BY <1>3, <1>4, <1>6, Zenon DEF Wrote

\* The placeholder, and the data with the length in its place.
Zeros == [k \in 1 .. 4 |-> <<"0">>]

Filled(data, from, to) ==
    [k \in DOMAIN data |-> IF k \in from + 1 .. to THEN <<Len(data) - to>> ELSE data[k]]

\* The buffer after each of the lines of a script.
BufferRun(f, s, buffer, n) ==
    /\ f[0] = Write(buffer, Zeros)
    /\ \A i \in 1 .. n : f[i] = Write(f[i - 1], Text(_Write_To_File(s)[i]))
    /\ Write_To_Memory(s, buffer).data = Filled(f[n].data, Len(buffer.data), Len(f[0].data))

\* There is such a run: writing is defined for every number of lines.
LEMMA BufferSteps ==
    ASSUME NEW s, NEW buffer, NEW n \in Nat, Len(_Write_To_File(s)) = n
    PROVE  \E f : BufferRun(f, s, buffer, n)
<1> DEFINE placed == Write(buffer, Zeros)
           lines == _Write_To_File(s)
           Step(x, i) == Write(x, Text(lines[i]))
           Good(g, m) == g[0] = placed /\ \A i \in 1 .. m : g[i] = Step(g[i - 1], i)
           G == {m \in 0 .. n : \E g : Good(g, m)}
           Eq(f) == f = [i \in 0 .. n |-> IF i = 0 THEN placed ELSE Step(f[i - 1], i)]
           F == CHOOSE f : Eq(f)
<1>0. Write_To_Memory(s, buffer).data = Filled(F[n].data, Len(buffer.data), Len(placed.data))
  BY DEF Write_To_Memory, Filled, Zeros
<1> HIDE DEF Step, placed, lines
<1>1. 0 \in G
  <2> DEFINE g == [i \in {0} |-> placed]
  <2>1. Good(g, 0)
    OBVIOUS
  <2> HIDE DEF g, Good
  <2> QED
    BY <2>1
<1>2. ASSUME NEW m \in 1 .. n, m - 1 \in G PROVE m \in G
  <2>1. PICK g : Good(g, m - 1)
    BY <1>2
  <2> DEFINE h == [i \in 0 .. m |-> IF i = m THEN Step(g[m - 1], m) ELSE g[i]]
  <2>2. h[0] = placed
    BY <2>1
  <2>3. ASSUME NEW i \in 1 .. m PROVE h[i] = Step(h[i - 1], i)
    BY <2>1
  <2> HIDE DEF h
  <2>4. Good(h, m)
    BY <2>2, <2>3
  <2> HIDE DEF Good
  <2> QED
    BY <2>4
<1> HIDE DEF G
<1>3. n \in G
  BY <1>1, <1>2, UpTo, Zenon
<1>4. PICK g : Good(g, n)
  BY <1>3 DEF G
<1> DEFINE h == [i \in 0 .. n |-> g[i]]
<1>5. Eq(h)
  BY <1>4
<1>6. Eq(F)
  BY <1>5, Zenon
<1> HIDE DEF F
<1>7. F[0] = placed /\ \A i \in 1 .. n : F[i] = Step(F[i - 1], i)
  BY <1>6
<1>8. Write_To_Memory(s, buffer).data = Filled(F[n].data, Len(buffer.data), Len(F[0].data))
  BY <1>0, <1>7, Zenon
<1> QED
  BY <1>7, <1>8, Zenon DEF BufferRun, Step, placed, lines

\* What the line reader has read, and what it does with a character.
Reader(lines, line) == [lines |-> lines, line |-> line]

ReadCharacter(acc, c) ==
    IF ~EndsLine(c) THEN [acc EXCEPT !.line = Append(@, c)]
    ELSE [lines |-> IF acc.line = <<>> THEN acc.lines ELSE Append(acc.lines, acc.line), line |-> <<>>]

\* The line reader after each of the characters.
LEMMA ReadSteps ==
    ASSUME NEW d, NEW n \in Nat, Len(d) = n
    PROVE  \E f : /\ f[0] = Reader(<<>>, <<>>)
                  /\ \A i \in 1 .. n : f[i] = ReadCharacter(f[i - 1], d[i])
                  /\ f[n].line = <<>> => GetLines(d) = f[n].lines
<1> DEFINE none == [lines |-> <<>>, line |-> <<>>]
           Step(x, i) == ReadCharacter(x, d[i])
           Good(g, m) == g[0] = none /\ \A i \in 1 .. m : g[i] = Step(g[i - 1], i)
           G == {m \in 0 .. n : \E g : Good(g, m)}
           Eq(f) == f = [i \in 0 .. n |-> IF i = 0 THEN none ELSE Step(f[i - 1], i)]
           F == CHOOSE f : Eq(f)
<1>0. GetLines(d) = IF F[n].line = <<>> THEN F[n].lines ELSE Append(F[n].lines, F[n].line)
  BY DEF GetLines, ReadCharacter
<1> HIDE DEF Step, none
<1>1. 0 \in G
  <2> DEFINE g == [i \in {0} |-> none]
  <2>1. Good(g, 0)
    OBVIOUS
  <2> HIDE DEF g, Good
  <2> QED
    BY <2>1
<1>2. ASSUME NEW m \in 1 .. n, m - 1 \in G PROVE m \in G
  <2>1. PICK g : Good(g, m - 1)
    BY <1>2
  <2> DEFINE h == [i \in 0 .. m |-> IF i = m THEN Step(g[m - 1], m) ELSE g[i]]
  <2>2. h[0] = none
    BY <2>1
  <2>3. ASSUME NEW i \in 1 .. m PROVE h[i] = Step(h[i - 1], i)
    BY <2>1
  <2> HIDE DEF h
  <2>4. Good(h, m)
    BY <2>2, <2>3
  <2> HIDE DEF Good
  <2> QED
    BY <2>4
<1> HIDE DEF G
<1>3. n \in G
  BY <1>1, <1>2, UpTo, Zenon
<1>4. PICK g : Good(g, n)
  BY <1>3 DEF G
<1> DEFINE h == [i \in 0 .. n |-> g[i]]
<1>5. Eq(h)
  BY <1>4
<1>6. Eq(F)
  BY <1>5, Zenon
<1> HIDE DEF F
<1>7. F[0] = none /\ \A i \in 1 .. n : F[i] = Step(F[i - 1], i)
  BY <1>6
<1>8. F[n].line = <<>> => GetLines(d) = F[n].lines
  BY <1>0
<1> QED
  BY <1>7, <1>8, Zenon DEF Step, none, Reader

\* A character that does not end the line.
LEMMA ReadOn ==
    ASSUME NEW lines, NEW line, NEW c, ~EndsLine(c)
    PROVE  ReadCharacter(Reader(lines, line), c) = Reader(lines, Append(line, c))
<1> DEFINE more == Append(line, c)
<1>1. Reader(lines, line).line = line
  BY DEF Reader
<1>2. ReadCharacter(Reader(lines, line), c) = [Reader(lines, line) EXCEPT !.line = more]
  BY <1>1, Zenon DEF ReadCharacter
<1> HIDE DEF more
<1>3. [Reader(lines, line) EXCEPT !.line = more] = Reader(lines, more)
  BY DEF Reader
<1> QED
  BY <1>2, <1>3 DEF more

\* The reader goes over m characters, and they are those of a line.
Reads(r, d, p, m) == \A k \in 1 .. m : r[p + k] = ReadCharacter(r[(p + k) - 1], d[p + k])

LineAt(d, p, line, m) ==
    /\ \A k \in 1 .. m - 1 : d[p + k] = <<line, k>>
    /\ EndsLine(d[p + m])

\* The line reader over a line in the buffer.
LEMMA ReadLine ==
    ASSUME NEW r, NEW d, NEW p \in Nat, NEW lines, NEW line, NEW m \in Nat \ {0, 1},
           r[p] = Reader(lines, <<>>),
           Reads(r, d, p, m), LineAt(d, p, line, m)
    PROVE  r[p + m] = Reader(Append(lines, Characters(line, m - 1)), <<>>)
<1> DEFINE G == {k \in 0 .. m - 1 : r[p + k] = Reader(lines, Characters(line, k))}
<1>0. m - 1 \in Nat
  OBVIOUS
<1>1. 0 \in G
  <2>1. Characters(line, 0) = <<>>
    BY DEF Characters
  <2>2. r[p + 0] = r[p]
    OBVIOUS
  <2> QED
    BY <2>1, <2>2
<1>2. ASSUME NEW k \in 1 .. m - 1, k - 1 \in G PROVE k \in G
  <2>1. k \in 1 .. m /\ k \in Nat \ {0} /\ k \in 0 .. m - 1 /\ (p + k) - 1 = p + (k - 1)
    OBVIOUS
  <2>2. r[(p + k) - 1] = Reader(lines, Characters(line, k - 1))
    BY <1>2, <2>1
  <2> DEFINE c == <<line, k>>
             a == Characters(line, k - 1)
  <2>3. r[p + k] = ReadCharacter(Reader(lines, a), c)
    <3>1. r[p + k] = ReadCharacter(r[(p + k) - 1], d[p + k]) /\ d[p + k] = c
      BY <2>1, Zenon DEF Reads, LineAt
    <3> QED
      BY <2>2, <3>1, Zenon
  <2>4. ~EndsLine(c)
    BY CharactersGoOn, Zenon
  <2>5. Append(a, c) = Characters(line, k)
    BY <2>1, NextCharacter, Zenon
  <2> HIDE DEF a, c
  <2>6. ReadCharacter(Reader(lines, a), c) = Reader(lines, Append(a, c))
    BY <2>4, ReadOn
  <2> QED
    BY <2>1, <2>3, <2>5, <2>6
<1> HIDE DEF G
<1>3. m - 1 \in G
  BY <1>0, <1>1, <1>2, UpTo, Zenon
<1>4. r[p + (m - 1)] = Reader(lines, Characters(line, m - 1))
  BY <1>3 DEF G
<1>5. Characters(line, m - 1) # <<>>
  <2>1. m - 1 \in Nat \ {0}
    OBVIOUS
  <2> QED
    BY <2>1, NextCharacter, Zenon
<1>6. r[p + m] = ReadCharacter(Reader(lines, Characters(line, m - 1)), d[p + m])
  <2>1. m \in 1 .. m /\ (p + m) - 1 = p + (m - 1)
    OBVIOUS
  <2>2. r[p + m] = ReadCharacter(r[(p + m) - 1], d[p + m])
    BY <2>1, Zenon DEF Reads
  <2> QED
    BY <1>4, <2>1, <2>2
<1> QED
  BY <1>5, <1>6 DEF ReadCharacter, Reader, LineAt

\* One more element of a sequence.
LEMMA NextElement ==
    ASSUME NEW c, NEW i \in Nat \ {0}
    PROVE  Append([j \in 1 .. i - 1 |-> c[j]], c[i]) = [j \in 1 .. i |-> c[j]]
<1> DEFINE S == {c[j] : j \in 1 .. i}
           a == [j \in 1 .. i - 1 |-> c[j]]
           b == [j \in 1 .. i |-> c[j]]
<1>1. a \in Seq(S) /\ Len(a) = i - 1 /\ b \in Seq(S) /\ Len(b) = i /\ c[i] \in S
  OBVIOUS
<1> HIDE DEF S
<1> QED
  BY <1>1

\* The lines are in the buffer; what is read of them; and the data is the buffer's from
\* some place on.
AllInBuffer(n, part, lines, len) == \A i \in 1 .. n : InBuffer(part[i], lines[i], len[i])

LineTexts(n, lines, len) == [i \in 1 .. n |-> Characters(lines[i], len[i] - 1)]

Shown(d, data, from) == Len(d) = Len(data) - from /\ \A k \in 1 .. Len(d) : d[k] = data[from + k]

\* What the line reader makes of lines in the buffer.
LEMMA LinesRead ==
    ASSUME NEW S, NEW n \in Nat, NEW lines, NEW len, NEW g, NEW part, g[0] \in Seq(S), Joined(S, n, g, part),
           AllInBuffer(n, part, lines, len), NEW d, Shown(d, g[n], Len(g[0]))
    PROVE  GetLines(d) = LineTexts(n, lines, len)
<1> DEFINE base == Len(g[0])
           size == Len(g[n])
           end == Len(d)
           pos(i) == Len(g[i]) - base
           c == [i \in 1 .. n |-> Characters(lines[i], len[i] - 1)]
           read(i) == [j \in 1 .. i |-> c[j]]
<1>1. Placed(S, n, g, part)
  BY JoinedParts, Zenon
<1>2. /\ \A i \in 0 .. n : Len(g[i]) \in Nat /\ Len(g[i]) <= size
      /\ \A i \in 1 .. n : Len(g[i]) = Len(g[i - 1]) + Len(part[i])
      /\ \A i \in 1 .. n : \A k \in 1 .. Len(part[i]) : g[n][Len(g[i - 1]) + k] = part[i][k]
  BY <1>1, Zenon DEF Placed
<1>3. /\ base \in Nat /\ size \in Nat /\ base <= size /\ end = size - base
      /\ \A k \in 1 .. end : d[k] = g[n][base + k]
  <2>1. 0 \in 0 .. n /\ n \in 0 .. n
    OBVIOUS
  <2> QED
    BY <1>2, <2>1, Zenon DEF Shown
<1> HIDE DEF base, size, end
<1>4. end \in Nat
  BY <1>3
<1>5. PICK r : /\ r[0] = Reader(<<>>, <<>>)
               /\ \A i \in 1 .. end : r[i] = ReadCharacter(r[i - 1], d[i])
               /\ r[end].line = <<>> => GetLines(d) = r[end].lines
  BY <1>4, ReadSteps, Zenon DEF end
<1> DEFINE Here(i) == base <= Len(g[i]) /\ r[pos(i)] = Reader(read(i), <<>>)
           G == {i \in 0 .. n : Here(i)}
<1>6. 0 \in G
  <2>1. read(0) = <<>>
    OBVIOUS
  <2>2. pos(0) = 0 /\ base <= Len(g[0])
    BY <1>3 DEF base
  <2> HIDE DEF read, pos
  <2>3. Here(0)
    BY <1>5, <2>1, <2>2, Zenon
  <2> HIDE DEF Here
  <2> QED
    BY <2>3
<1> HIDE DEF read
<1>7. ASSUME NEW i \in 1 .. n, i - 1 \in G PROVE i \in G
  <2> DEFINE p == pos(i - 1)
             m == len[i]
             l == lines[i]
             at == Len(g[i - 1])
             next == Len(g[i])
  <2>1. i - 1 \in 0 .. n /\ i \in 0 .. n /\ i \in Nat \ {0}
    OBVIOUS
  <2>2. base <= at /\ r[p] = Reader(read(i - 1), <<>>)
    <3> HIDE DEF Here
    <3>1. Here(i - 1)
      BY <1>7
    <3> QED
      BY <3>1 DEF Here
  <2>3. /\ m \in Nat \ {0, 1} /\ Len(part[i]) = m /\ EndsLine(part[i][m])
        /\ \A k \in 1 .. m - 1 : part[i][k] = <<l, k>>
    BY Zenon DEF InBuffer, AllInBuffer
  <2>4. /\ at \in Nat /\ next = at + m /\ next \in Nat /\ next <= size
        /\ \A k \in 1 .. m : g[n][at + k] = part[i][k]
    BY <1>2, <2>1, <2>3, Zenon
  <2>5. p = at - base /\ pos(i) = next - base
    OBVIOUS
  <2> HIDE DEF p, m, l, at, next, pos
  <2>6. p \in Nat /\ base + p = at /\ pos(i) = p + m /\ p + m <= end /\ base <= next
    BY <1>3, <2>2, <2>3, <2>4, <2>5
  <2>7. ASSUME NEW k \in 1 .. m
        PROVE  /\ r[p + k] = ReadCharacter(r[(p + k) - 1], d[p + k])
               /\ d[p + k] = part[i][k]
    <3>0. base \in Nat /\ end \in Nat /\ at \in Nat /\ m \in Nat
      BY <1>3, <1>4, <2>3, <2>4
    <3>1. p + k \in 1 .. end /\ base + (p + k) = at + k
      BY <2>6, <3>0
    <3>2. d[p + k] = g[n][base + (p + k)]
      BY <1>3, <3>1, Zenon
    <3>3. g[n][at + k] = part[i][k]
      BY <2>4, Zenon
    <3>4. r[p + k] = ReadCharacter(r[(p + k) - 1], d[p + k])
      BY <1>5, <3>1, Zenon
    <3> QED
      BY <3>1, <3>2, <3>3, <3>4, Zenon
  <2>8. LineAt(d, p, l, m)
    <3>1. m \in 1 .. m /\ \A k \in 1 .. m - 1 : k \in 1 .. m
      BY <2>3
    <3> QED
      BY <2>3, <2>7, <3>1, Zenon DEF LineAt
  <2>9. r[p + m] = Reader(Append(read(i - 1), Characters(l, m - 1)), <<>>)
    <3>1. Reads(r, d, p, m)
      BY <2>7, Zenon DEF Reads
    <3>2. p \in Nat /\ m \in Nat \ {0, 1} /\ r[p] = Reader(read(i - 1), <<>>)
      BY <2>2, <2>3, <2>6, Zenon
    <3> QED
      BY <2>8, <3>1, <3>2, ReadLine
  <2>10. Append(read(i - 1), Characters(l, m - 1)) = read(i)
    <3>1. c[i] = Characters(l, m - 1)
      BY DEF l, m
    <3> HIDE DEF c
    <3>2. Append([j \in 1 .. i - 1 |-> c[j]], c[i]) = [j \in 1 .. i |-> c[j]]
      BY <2>1, NextElement, Zenon
    <3> QED
      BY <3>1, <3>2, Zenon DEF read
  <2>11. Here(i)
    BY <2>6, <2>9, <2>10, Zenon DEF next
  <2> HIDE DEF Here
  <2> QED
    BY <2>1, <2>11
<1> HIDE DEF G
<1>8. n \in G
  BY <1>6, <1>7, UpTo, Zenon
<1>9. r[pos(n)] = Reader(read(n), <<>>)
  <2> HIDE DEF Here
  <2>1. Here(n)
    BY <1>8 DEF G
  <2> QED
    BY <2>1 DEF Here
<1>10. pos(n) = end
  BY <1>3 DEF size
<1>11. r[end].line = <<>> /\ r[end].lines = read(n)
  BY <1>9, <1>10 DEF Reader
<1>12. read(n) = c
  BY DEF read
<1> QED
  BY <1>5, <1>11, <1>12, Zenon DEF LineTexts

\* Every line is of one of the kinds.
AllKinds(T) == \A x \in T : x.kind \in Kinds

\* The lines of a script, and their kinds.
LEMMA LinesOfScript ==
    ASSUME NEW s, Ordered(s)
    PROVE  \E T : _Write_To_File(s) \in Seq(T) /\ AllKinds(T)
<1>1. PICK T, g, part :
          /\ g[0] = <<>> /\ g[Len(s)] = _Write_To_File(s) /\ Joined(T, Len(s), g, part)
          /\ \A x \in T : x.kind \in Kinds
  BY FileLines, Zenon
<1>2. Len(s) \in Nat /\ Len(s) \in 0 .. Len(s)
  BY OrderedFacts
<1>3. g[0] \in Seq(T)
  BY <1>1
<1>4. Placed(T, Len(s), g, part)
  BY <1>1, <1>2, <1>3, JoinedParts, Zenon
<1>5. g[Len(s)] \in Seq(T)
  BY <1>2, <1>4, Zenon DEF Placed
<1> QED
  BY <1>1, <1>5, Zenon DEF AllKinds

\* What the buffer holds once a script is written after some bytes: the bytes, the
\* placeholder and the lines, each ended by a newline or a null character.
Lengths(n, lines) == [i \in 1 .. n |-> LineLength[lines[i].kind]]

Holding(g, part, T, n, offset, lines, data) ==
    /\ g[0] \in Seq(Bytes(T)) /\ Len(g[0]) = offset + 4 /\ Joined(Bytes(T), n, g, part)
    /\ AllInBuffer(n, part, lines, Lengths(n, lines))
    /\ data = Filled(g[n], offset, offset + 4)

\* Write_To_Memory leaves the buffer so.
LEMMA BufferHolds ==
    ASSUME NEW s, Ordered(s), NEW offset \in Nat, NEW buffer, "data" \in DOMAIN buffer,
           buffer.data = [k \in 1 .. offset |-> <<"byte">>],
           NEW T, _Write_To_File(s) \in Seq(T), AllKinds(T), NEW n \in Nat,
           Len(_Write_To_File(s)) = n
    PROVE  \E g, part : Holding(g, part, T, n, offset, _Write_To_File(s), Write_To_Memory(s, buffer).data)
<1> DEFINE S == Bytes(T)
           lines == _Write_To_File(s)
           len == Lengths(n, lines)
<1>0. PICK f : BufferRun(f, s, buffer, n)
  BY BufferSteps, Zenon
<1>1. /\ f[0] = Write(buffer, Zeros)
      /\ \A i \in 1 .. n : f[i] = Write(f[i - 1], Text(lines[i]))
      /\ Write_To_Memory(s, buffer).data = Filled(f[n].data, Len(buffer.data), Len(f[0].data))
  BY <1>0, Zenon DEF BufferRun
<1> DEFINE g == [i \in 0 .. n |-> f[i].data]
           lost(i) == Append(Front(Text(lines[i])), Null)
           part == [i \in 1 .. n |-> IF f[i].data = f[i - 1].data \o Text(lines[i])
                                     THEN Text(lines[i]) ELSE lost(i)]
<1>2. buffer.data \in Seq(S) /\ Len(buffer.data) = offset
  BY DEF Bytes
<1>3. Zeros \in Seq(S) /\ Len(Zeros) = 4 /\ Null \in S
  BY DEF Bytes, Zeros
<1> HIDE DEF S
<1>4. "data" \in DOMAIN f[0] /\ f[0].data \in Seq(S) /\ Len(f[0].data) = offset + 4
  <2> DEFINE lostZero == Append(Front(Zeros), Null)
  <2>1. "data" \in DOMAIN f[0] /\ Wrote(f[0].data, buffer.data, Zeros)
    BY <1>1, WriteFacts
  <2>2. f[0].data = buffer.data \o Zeros \/ f[0].data = buffer.data \o lostZero
    BY <2>1, Zenon DEF Wrote
  <2>3. lostZero \in Seq(S) /\ Len(lostZero) = 4
    <3>1. 4 \in Nat \ {0}
      OBVIOUS
    <3> QED
      BY <1>3, <3>1, LostLast, Zenon
  <2> HIDE DEF lostZero
  <2>4. \A z \in Seq(S) : /\ buffer.data \o z \in Seq(S)
                          /\ Len(buffer.data \o z) = offset + Len(z)
    BY <1>2, JoinSeq
  <2> QED
    BY <1>3, <2>1, <2>2, <2>3, <2>4, Zenon
<1> DEFINE G == {i \in 0 .. n : "data" \in DOMAIN f[i]}
<1>5. ASSUME NEW i \in 1 .. n, "data" \in DOMAIN f[i - 1]
      PROVE  /\ "data" \in DOMAIN f[i]
             /\ f[i].data = f[i - 1].data \o Text(lines[i]) \/ f[i].data = f[i - 1].data \o lost(i)
  <2> HIDE DEF lines
  <2>1. f[i] = Write(f[i - 1], Text(lines[i]))
    BY <1>1, Zenon
  <2>2. "data" \in DOMAIN f[i] /\ Wrote(f[i].data, f[i - 1].data, Text(lines[i]))
    BY <1>5, <2>1, WriteFacts
  <2> QED
    BY <2>2, Zenon DEF Wrote
<1>6. ASSUME NEW i \in 0 .. n PROVE "data" \in DOMAIN f[i]
  <2>1. 0 \in G
    BY <1>4
  <2>2. ASSUME NEW j \in 1 .. n, j - 1 \in G PROVE j \in G
    <3>1. "data" \in DOMAIN f[j - 1]
      BY <2>2
    <3>2. "data" \in DOMAIN f[j]
      BY <1>5, <3>1, Zenon
    <3> QED
      BY <3>2
  <2> HIDE DEF G
  <2>3. ASSUME NEW j \in 1 .. i, j - 1 \in G PROVE j \in G
    <3>1. j \in 1 .. n
      OBVIOUS
    <3> QED
      BY <2>2, <2>3, <3>1, Zenon
  <2>4. i \in G
    BY <2>1, <2>3, UpTo
  <2> QED
    BY <2>4 DEF G
<1>7. ASSUME NEW i \in 1 .. n
      PROVE  /\ part[i] \in Seq(S) /\ g[i] = g[i - 1] \o part[i]
             /\ InBuffer(part[i], lines[i], len[i])
  <2>1. i - 1 \in 0 .. n /\ i \in 0 .. n
    OBVIOUS
  <2>2. f[i].data = f[i - 1].data \o Text(lines[i]) \/ f[i].data = f[i - 1].data \o lost(i)
    BY <1>5, <1>6, <2>1, Zenon
  <2>3. lines[i] \in T /\ lines[i].kind \in Kinds
    <3> HIDE DEF lines
    <3>1. lines \in Seq(T) /\ Len(lines) = n
      BY DEF lines
    <3> QED
      BY <3>1 DEF AllKinds
  <2>4. /\ Text(lines[i]) \in Seq(S) /\ InBuffer(Text(lines[i]), lines[i], LineLength[lines[i].kind])
        /\ lost(i) \in Seq(S) /\ InBuffer(lost(i), lines[i], LineLength[lines[i].kind])
    BY <2>3, TextFacts, Zenon DEF S
  <2>5. len[i] = LineLength[lines[i].kind] /\ g[i] = f[i].data /\ g[i - 1] = f[i - 1].data
    BY <2>1 DEF Lengths
  <2>6. part[i] = IF f[i].data = f[i - 1].data \o Text(lines[i]) THEN Text(lines[i]) ELSE lost(i)
    OBVIOUS
  <2> HIDE DEF g, part, len, lost, lines, S
  <2> QED
    BY <2>2, <2>4, <2>5, <2>6, Zenon
<1>8. g[0] = f[0].data /\ g[n] = f[n].data
  OBVIOUS
<1> HIDE DEF g, part
<1>9. Joined(S, n, g, part) /\ AllInBuffer(n, part, lines, len)
  BY <1>7, Zenon DEF Joined, AllInBuffer
<1>10. Write_To_Memory(s, buffer).data = Filled(g[n], offset, offset + 4)
  BY <1>1, <1>2, <1>4, <1>8, Zenon
<1>11. g[0] \in Seq(S) /\ Len(g[0]) = offset + 4
  BY <1>4, <1>8, Zenon
<1> QED
  BY <1>9, <1>10, <1>11, Zenon DEF Holding, S, lines, len

\* The part of the message that the reader gets.
LEMMA FilledShows ==
    ASSUME NEW S, NEW data \in Seq(S), NEW offset \in Nat, offset + 4 <= Len(data)
    PROVE  LET filled == Filled(data, offset, offset + 4)
               length == filled[offset + 1][1]
           IN  Shown(SubSeq(filled, offset + 5, offset + 4 + length), data, offset + 4)
<1> DEFINE filled == Filled(data, offset, offset + 4)
           length == Len(data) - (offset + 4)
           size == <<length>>
           U == S \cup {size}
           d == SubSeq(filled, offset + 5, offset + 4 + length)
<1>1. Len(data) \in Nat /\ DOMAIN data = 1 .. Len(data) /\ \A k \in 1 .. Len(data) : data[k] \in S
  OBVIOUS
<1>2. length \in Nat /\ offset + 4 + length = Len(data)
  BY <1>1
<1>3. filled = [k \in 1 .. Len(data) |-> IF k \in offset + 1 .. offset + 4 THEN size ELSE data[k]]
  BY <1>1, Zenon DEF Filled
<1>4. size[1] = length
  OBVIOUS
<1> HIDE DEF filled, length, size
<1>5. filled \in Seq(U) /\ Len(filled) = Len(data)
  <2>1. \A k \in 1 .. Len(data) : (IF k \in offset + 1 .. offset + 4 THEN size ELSE data[k]) \in U
    BY <1>1
  <2> HIDE DEF U
  <2> QED
    BY <1>1, <1>3, <2>1
<1> HIDE DEF U
<1>6. filled[offset + 1] = size
  BY <1>1, <1>3
<1>7. ASSUME NEW k \in 1 .. length PROVE filled[offset + 4 + k] = data[offset + 4 + k]
  BY <1>1, <1>2, <1>3
<1>8. Len(d) = length /\ \A k \in 1 .. length : d[k] = filled[offset + 4 + k]
  BY <1>1, <1>2, <1>5
<1>9. Shown(d, data, offset + 4)
  <2> HIDE DEF d
  <2> QED
    BY <1>7, <1>8, Zenon DEF Shown, length
<1>10. filled[offset + 1][1] = length
  BY <1>4, <1>6, Zenon
<1> QED
  BY <1>9, <1>10, Zenon DEF filled, d

\* A script written into a message after some bytes is read from it as it was.
LEMMA MemoryRoundTrip ==
    ASSUME NEW s, Ordered(s), NEW offset \in Nat, NEW buffer, "data" \in DOMAIN buffer,
           buffer.data = [k \in 1 .. offset |-> <<"byte">>]
    PROVE  Load_From_Memory(Write_To_Memory(s, buffer).data, offset) = s
<1> DEFINE lines == _Write_To_File(s)
           n == Len(lines)
           len == Lengths(n, lines)
<1>1. PICK T : lines \in Seq(T) /\ AllKinds(T)
  BY LinesOfScript, Zenon
<1> DEFINE S == Bytes(T)
<1>2. n \in Nat
  BY <1>1
<1>0. PICK g, part : Holding(g, part, T, n, offset, lines, Write_To_Memory(s, buffer).data)
  BY <1>1, <1>2, BufferHolds
<1>3. /\ g[0] \in Seq(S) /\ Len(g[0]) = offset + 4 /\ Joined(S, n, g, part)
      /\ AllInBuffer(n, part, lines, len)
      /\ Write_To_Memory(s, buffer).data = Filled(g[n], offset, offset + 4)
  BY <1>0, Zenon DEF Holding
<1> DEFINE data == Filled(g[n], offset, offset + 4)
           d == SubSeq(data, offset + 5, offset + 4 + data[offset + 1][1])
           c == [i \in 1 .. n |-> Characters(lines[i], len[i] - 1)]
<1>4. g[n] \in Seq(S) /\ offset + 4 <= Len(g[n])
  <2>1. Placed(S, n, g, part)
    BY <1>2, <1>3, JoinedParts, Zenon
  <2>2. n \in 0 .. n /\ 0 \in 0 .. n
    BY <1>2
  <2> QED
    BY <1>3, <2>1, <2>2, Zenon DEF Placed
<1> HIDE DEF S
<1>5. Shown(d, g[n], offset + 4)
  BY <1>4, FilledShows, Zenon
<1>6. GetLines(d) = c
  <2>0. c = LineTexts(n, lines, len)
    BY Zenon DEF LineTexts
  <2>1. Shown(d, g[n], Len(g[0]))
    BY <1>3, <1>5, Zenon
  <2> HIDE DEF c, d, len, lines, n
  <2>2. GetLines(d) = LineTexts(n, lines, len)
    <3>1. n \in Nat /\ g[0] \in Seq(S) /\ Joined(S, n, g, part) /\ AllInBuffer(n, part, lines, len)
      BY <1>2, <1>3, Zenon
    <3> QED
      BY <2>1, <3>1, LinesRead
  <2> QED
    BY <2>0, <2>2, Zenon
<1>7. ASSUME NEW i \in 1 .. n PROVE LineOf(c[i]) = lines[i]
  <2>1. lines[i] \in T /\ lines[i].kind \in Kinds
    <3> HIDE DEF lines
    <3> QED
      BY <1>1 DEF AllKinds
  <2>2. LineOf(Characters(lines[i], LineLength[lines[i].kind] - 1)) = lines[i]
    BY <2>1, TextFacts, Zenon
  <2>3. c[i] = Characters(lines[i], LineLength[lines[i].kind] - 1)
    <3> HIDE DEF lines
    <3> QED
      BY DEF Lengths
  <2> QED
    BY <2>2, <2>3, Zenon
<1>8. [k \in DOMAIN c |-> LineOf(c[k])] = lines
  <2>1. DOMAIN c = 1 .. n
    OBVIOUS
  <2> HIDE DEF c
  <2>2. [k \in DOMAIN c |-> LineOf(c[k])] = [k \in 1 .. n |-> lines[k]]
    BY <1>7, <2>1
  <2>3. [k \in 1 .. n |-> lines[k]] = lines
    <3> HIDE DEF lines
    <3> QED
      BY <1>1
  <2> QED
    BY <2>2, <2>3, Zenon
<1>9. Load_From_Memory(data, offset) = _Load_From_File([k \in DOMAIN c |-> LineOf(c[k])])
  <2> HIDE DEF c, data
  <2> QED
    BY <1>6, Zenon DEF Load_From_Memory
<1>10. _Load_From_File(lines) = s
  BY FileRoundTrip, Zenon
<1> HIDE DEF c, data, lines
<1> QED
  BY <1>3, <1>8, <1>9, <1>10, Zenon DEF data

=============================================================================
