---------------------------- MODULE LoopTheorems ----------------------------
(***************************************************************************)
(* What the proofs about the loops of the program need: induction over the  *)
(* natural numbers, stated for the members of a set (the theorems of the    *)
(* library take an operator), the values of a loop that is defined by       *)
(* recursion, and the members of sequences that grow.                       *)
(***************************************************************************)
EXTENDS Loops, SequencesExt, SequenceTheorems, WellFoundedInduction, TLAPS

-----------------------------------------------------------------------------
(* Induction and recursion over the natural numbers.                        *)

\* "Less than" on the natural numbers, as a set of pairs, has no infinite descent.
LEMMA BelowIsWellFounded == IsWellFoundedOn({ss \in Nat \X Nat : ss[1] < ss[2]}, Nat)
BY NatLessThanWellFounded, Zenon DEF OpToRel

\* A set with 0 and with the successor of each of its numbers has every number.
LEMMA SetInduction ==
  ASSUME NEW S, 0 \in S, \A n \in Nat : n \in S => n + 1 \in S
  PROVE  Nat \subseteq S
<1> SUFFICES ASSUME Nat \ S # {}
             PROVE  FALSE
  OBVIOUS
<1> DEFINE R == {ss \in Nat \X Nat : ss[1] < ss[2]}
<1>1. PICK x \in Nat \ S : \A y \in Nat \ S : ~(<<y, x>> \in R)
  <2>1. IsWellFoundedOn(R, Nat)
    BY BelowIsWellFounded
  <2> HIDE DEF R
  <2>2. Nat \ S \subseteq Nat /\ Nat \ S # {}
    OBVIOUS
  <2>3. QED
    BY <2>1, <2>2, WFMin, Zenon
<1>2. x # 0
  OBVIOUS
<1>3. x - 1 \in Nat /\ x - 1 < x /\ (x - 1) + 1 = x
  BY <1>2
<1>4. <<x - 1, x>> \in R
  BY <1>3
<1>5. QED
  BY <1>1, <1>3, <1>4

\* The same up to a number: what holds at 0 and goes from each number to the
\* next one holds up to n.
LEMMA InductionUpTo ==
  ASSUME NEW n \in Nat, NEW S, 0 \in S, \A k \in 1..n : k - 1 \in S => k \in S
  PROVE  \A k \in 0..n : k \in S
<1> DEFINE T == {k \in Nat : k <= n => k \in S}
<1>1. 0 \in T
  OBVIOUS
<1>2. ASSUME NEW k \in Nat, k \in T
      PROVE  k + 1 \in T
  <2>1. CASE k + 1 <= n
    <3>1. k + 1 \in 1..n /\ (k + 1) - 1 = k /\ k \in S
      BY <1>2, <2>1
    <3>2. QED
      BY <3>1
  <2>2. CASE ~(k + 1 <= n)
    BY <2>2
  <2>3. QED
    BY <2>1, <2>2
<1>3. Nat \subseteq T
  <2> HIDE DEF T
  <2>1. QED
    BY <1>1, <1>2, SetInduction
<1>4. QED
  BY <1>3

\* f holds the values, in S, of a loop that starts with `first` and takes n steps.
IsLoop(f, S, first, n, step) ==
  /\ f \in [0..n -> S]
  /\ f[0] = first
  /\ \A k \in 1..n : f[k] = step[<<f[k - 1], k>>]

\* Such a loop has a value after each of its steps.
LEMMA Recursion ==
  ASSUME NEW S, NEW first \in S, NEW n \in Nat, NEW step \in [S \X (1..n) -> S]
  PROVE  \E f : IsLoop(f, S, first, n, step)
<1> USE DEF IsLoop
<1> DEFINE Loop(f, m) == IsLoop(f, S, first, m, step)
           T == {m \in 0..n : \E f : Loop(f, m)}
<1>1. 0 \in T
  <2>1. Loop([k \in 0..0 |-> first], 0)
    OBVIOUS
  <2> HIDE DEF Loop, IsLoop
  <2>2. \E f : Loop(f, 0)
    BY <2>1, Zenon
  <2>3. QED
    BY <2>2
<1>2. ASSUME NEW m \in 1..n, m - 1 \in T
      PROVE  m \in T
  <2>1. PICK f : Loop(f, m - 1)
    BY <1>2
  <2> DEFINE g == [k \in 0..m |-> IF k = m THEN step[<<f[m - 1], m>>] ELSE f[k]]
  <2>2. f[m - 1] \in S /\ step[<<f[m - 1], m>>] \in S
    BY <2>1
  <2>3. g \in [0..m -> S] /\ g[0] = first
    BY <2>1, <2>2
  <2>4. ASSUME NEW k \in 1..m
        PROVE  g[k] = step[<<g[k - 1], k>>]
    <3>1. CASE k = m
      <4>1. g[m] = step[<<f[m - 1], m>>] /\ g[m - 1] = f[m - 1]
        OBVIOUS
      <4> HIDE DEF g
      <4>2. QED
        BY <3>1, <4>1
    <3>2. CASE k # m
      <4>1. k \in 1..(m - 1) /\ k - 1 \in 0..m /\ k - 1 # m
        BY <3>2
      <4>2. g[k] = f[k] /\ g[k - 1] = f[k - 1]
        BY <4>1
      <4>3. f[k] = step[<<f[k - 1], k>>]
        BY <2>1, <4>1
      <4> HIDE DEF g
      <4>4. QED
        BY <4>2, <4>3
    <3>3. QED
      BY <3>1, <3>2
  <2>5. Loop(g, m)
    BY <2>3, <2>4
  <2> HIDE DEF Loop, IsLoop, g
  <2>6. \E h : Loop(h, m)
    BY <2>5, Zenon
  <2>7. QED
    BY <2>6
<1>3. n \in T
  <2> HIDE DEF T
  <2>1. QED
    BY <1>1, <1>2, InductionUpTo
<1>4. QED
  BY <1>3

-----------------------------------------------------------------------------
(* Sequences.                                                               *)

\* A sequence has its members in every set that contains them.
LEMMA SeqIn ==
  ASSUME NEW S, NEW T, NEW s \in Seq(S), Range(s) \subseteq T
  PROVE  s \in Seq(T)
<1>1. s \in [1..Len(s) -> S] /\ Len(s) \in Nat /\ DOMAIN s = 1..Len(s)
  OBVIOUS
<1>2. \A k \in 1..Len(s) : s[k] \in T
  BY <1>1 DEF Range
<1>3. s \in [1..Len(s) -> T]
  BY <1>1, <1>2
<1>4. QED
  BY <1>1, <1>3

\* The members of a sequence are in the set it is over.
LEMMA RangeIn ==
  ASSUME NEW S, NEW s \in Seq(S)
  PROVE  Range(s) \subseteq S
BY DEF Range

\* Appending adds one member.
LEMMA RangeAppend ==
  ASSUME NEW S, NEW s \in Seq(S), NEW e \in S
  PROVE  /\ Append(s, e) \in Seq(S)
         /\ Range(Append(s, e)) = Range(s) \cup {e}
<1> DEFINE t == Append(s, e)
<1>1. t \in Seq(S) /\ Len(t) = Len(s) + 1 /\ t[Len(s) + 1] = e
  OBVIOUS
<1>2. \A k \in 1..Len(s) : t[k] = s[k]
  OBVIOUS
<1>3. DOMAIN t = 1..(Len(s) + 1) /\ DOMAIN s = 1..Len(s) /\ Len(s) \in Nat
  BY <1>1
<1> HIDE DEF t
<1>4. Range(t) \subseteq Range(s) \cup {e}
  BY <1>1, <1>2, <1>3 DEF Range
<1>5. Range(s) \cup {e} \subseteq Range(t)
  BY <1>1, <1>2, <1>3 DEF Range
<1>6. QED
  BY <1>1, <1>4, <1>5 DEF t

\* A concatenation has the members of both.
LEMMA RangeConcat ==
  ASSUME NEW S, NEW s \in Seq(S), NEW t \in Seq(S)
  PROVE  /\ s \o t \in Seq(S)
         /\ Range(s \o t) = Range(s) \cup Range(t)
<1> DEFINE u == s \o t
<1>1. u \in Seq(S) /\ Len(u) = Len(s) + Len(t)
  OBVIOUS
<1>2. /\ \A k \in 1..Len(s) : u[k] = s[k]
      /\ \A k \in 1..Len(t) : u[Len(s) + k] = t[k]
  BY ConcatProperties
<1>3. /\ DOMAIN u = 1..(Len(s) + Len(t)) /\ DOMAIN s = 1..Len(s) /\ DOMAIN t = 1..Len(t)
      /\ Len(s) \in Nat /\ Len(t) \in Nat
  BY <1>1
<1> HIDE DEF u
<1>4. Range(u) \subseteq Range(s) \cup Range(t)
  <2> SUFFICES ASSUME NEW k \in DOMAIN u
               PROVE  u[k] \in Range(s) \cup Range(t)
    BY DEF Range
  <2>1. CASE k \in 1..Len(s)
    BY <1>2, <1>3, <2>1 DEF Range
  <2>2. CASE k \notin 1..Len(s)
    <3>1. k - Len(s) \in 1..Len(t) /\ Len(s) + (k - Len(s)) = k
      BY <1>3, <2>2
    <3>2. QED
      BY <1>2, <1>3, <3>1 DEF Range
  <2>3. QED
    BY <2>1, <2>2
<1>5. Range(s) \subseteq Range(u)
  BY <1>2, <1>3 DEF Range
<1>6. Range(t) \subseteq Range(u)
  <2> SUFFICES ASSUME NEW k \in 1..Len(t)
               PROVE  t[k] \in Range(u)
    BY <1>3 DEF Range
  <2>1. Len(s) + k \in DOMAIN u /\ u[Len(s) + k] = t[k]
    BY <1>2, <1>3
  <2>2. QED
    BY <2>1 DEF Range
<1>7. QED
  BY <1>1, <1>4, <1>5, <1>6 DEF u

-----------------------------------------------------------------------------
(* Positions.                                                               *)

\* A set of positions that is not empty has a last one.
LEMMA LastPosition ==
  ASSUME NEW n \in Nat, NEW S, S \subseteq 1..n, S # {}
  PROVE  Max(S) \in S /\ \A y \in S : y <= Max(S)
<1> DEFINE T == {m \in 0..n : \A x \in S : x <= m => \E z \in S : \A y \in S : y <= m => y <= z}
<1>1. 0 \in T
  OBVIOUS
<1>2. ASSUME NEW m \in 1..n, m - 1 \in T
      PROVE  m \in T
  <2> SUFFICES ASSUME NEW x \in S, x <= m
               PROVE  \E z \in S : \A y \in S : y <= m => y <= z
    OBVIOUS
  <2>1. CASE m \in S
    BY <2>1
  <2>2. CASE m \notin S
    <3>1. \A y \in S : y <= m => y <= m - 1
      BY <2>2
    <3>2. PICK z \in S : \A y \in S : y <= m - 1 => y <= z
      BY <1>2, <3>1
    <3>3. QED
      BY <3>1, <3>2
  <2>3. QED
    BY <2>1, <2>2
<1>3. n \in T
  <2> HIDE DEF T
  <2>1. \A m \in 0..n : m \in T
    BY <1>1, <1>2, InductionUpTo, Zenon
  <2>2. QED
    BY <2>1
<1>4. \E z \in S : \A y \in S : z >= y
  <2>1. PICK z \in S : \A y \in S : y <= n => y <= z
    BY <1>3
  <2>2. QED
    BY <2>1
<1>5. Max(S) \in S /\ \A y \in S : Max(S) >= y
  <2> HIDE DEF T
  <2>1. QED
    BY <1>4, Zenon DEF Max
<1>6. QED
  BY <1>5

-----------------------------------------------------------------------------
(* Filtering.                                                               *)

\* Kept is what its loop has after the last member.
LEMMA KeptLoop ==
  ASSUME NEW T, NEW s \in Seq(T), NEW S
  PROVE  \E kept : /\ Kept(s, S) = kept[Len(s)]
                   /\ kept[0] = <<>>
                   /\ \A k \in 1..Len(s) :
                        kept[k] = IF s[k] \in S THEN Append(kept[k - 1], s[k]) ELSE kept[k - 1]
<1> DEFINE n == Len(s)
           kept == CHOOSE f : f = [k \in 0..Len(s) |->
                     IF k = 0 THEN <<>>
                     ELSE IF s[k] \in S THEN Append(f[k - 1], s[k]) ELSE f[k - 1]]
           step == [p \in Seq(T) \X (1..n) |->
                     IF s[p[2]] \in S THEN Append(p[1], s[p[2]]) ELSE p[1]]
<1>1. n \in Nat /\ \A k \in 1..n : s[k] \in T
  OBVIOUS
<1>2. step \in [Seq(T) \X (1..n) -> Seq(T)]
  BY <1>1
<1>3. \A a \in Seq(T), k \in 1..n :
        step[<<a, k>>] = IF s[k] \in S THEN Append(a, s[k]) ELSE a
  BY <1>1
<1>4. PICK g : IsLoop(g, Seq(T), <<>>, n, step)
  <2> DEFINE V == Seq(T)
             first == <<>>
  <2>1. n \in Nat /\ first \in V /\ step \in [V \X (1..n) -> V]
    BY <1>1, <1>2
  <2> HIDE DEF V, first, n, step
  <2>2. \E f : IsLoop(f, V, first, n, step)
    BY <2>1, Recursion, Zenon
  <2>3. QED
    BY <2>2 DEF V, first
<1>5. g = [k \in 0..Len(s) |->
             IF k = 0 THEN <<>>
             ELSE IF s[k] \in S THEN Append(g[k - 1], s[k]) ELSE g[k - 1]]
  <2> SUFFICES ASSUME NEW k \in 0..n
               PROVE  g[k] = IF k = 0 THEN <<>>
                             ELSE IF s[k] \in S THEN Append(g[k - 1], s[k]) ELSE g[k - 1]
    BY <1>4 DEF IsLoop
  <2>1. CASE k = 0
    BY <1>4, <2>1 DEF IsLoop
  <2>2. CASE k # 0
    <3>1. k \in 1..n /\ k - 1 \in 0..n
      BY <1>1, <2>2
    <3>2. g[k - 1] \in Seq(T) /\ g[k] = step[<<g[k - 1], k>>]
      BY <1>4, <3>1 DEF IsLoop
    <3> HIDE DEF step
    <3>3. QED
      BY <1>3, <2>2, <3>1, <3>2
  <2>3. QED
    BY <2>1, <2>2
<1>6. kept = [k \in 0..Len(s) |->
                IF k = 0 THEN <<>>
                ELSE IF s[k] \in S THEN Append(kept[k - 1], s[k]) ELSE kept[k - 1]]
  BY <1>5, Zenon
<1>7. Kept(s, S) = kept[n]
  BY Zenon DEF Kept
<1> HIDE DEF kept, step
<1>8. kept[0] = <<>>
  BY <1>1, <1>6
<1>9. ASSUME NEW k \in 1..n
      PROVE  kept[k] = IF s[k] \in S THEN Append(kept[k - 1], s[k]) ELSE kept[k - 1]
  <2>1. k \in 0..Len(s) /\ k # 0
    BY <1>1
  <2>2. QED
    BY <1>6, <2>1
<1>10. QED
  BY <1>7, <1>8, <1>9

\* Kept filters: it is a sequence of the members of s that are in S.
LEMMA KeptRange ==
  ASSUME NEW T, NEW s \in Seq(T), NEW S
  PROVE  /\ Kept(s, S) \in Seq(T)
         /\ Range(Kept(s, S)) = Range(s) \cap S
<1> DEFINE n == Len(s)
<1>1. n \in Nat /\ \A k \in 1..n : s[k] \in T
  OBVIOUS
<1>2. PICK kept :
        /\ Kept(s, S) = kept[n]
        /\ kept[0] = <<>>
        /\ \A k \in 1..n : kept[k] = IF s[k] \in S THEN Append(kept[k - 1], s[k]) ELSE kept[k - 1]
  BY KeptLoop
<1> DEFINE UpTo(k) == {s[m] : m \in 1..k} \cap S
           Good == {k \in 0..n : kept[k] \in Seq(T) /\ Range(kept[k]) = UpTo(k)}
<1>3. 0 \in Good
  <2>1. <<>> \in Seq(T) /\ Range(<<>>) = {}
    BY DEF Range
  <2>2. UpTo(0) = {} /\ 0 \in 0..n
    BY <1>1
  <2> HIDE DEF UpTo
  <2>3. QED
    BY <1>2, <2>1, <2>2
<1>4. ASSUME NEW k \in 1..n, k - 1 \in Good
      PROVE  k \in Good
  <2>1. kept[k - 1] \in Seq(T) /\ Range(kept[k - 1]) = UpTo(k - 1)
    BY <1>4
  <2>2. kept[k] = IF s[k] \in S THEN Append(kept[k - 1], s[k]) ELSE kept[k - 1]
    BY <1>2
  <2>3. {s[m] : m \in 1..k} = {s[m] : m \in 1..(k - 1)} \cup {s[k]}
    <3>1. 1..k = (1..(k - 1)) \cup {k}
      BY <1>1
    <3>2. QED
      BY <3>1
  <2>4. s[k] \in T
    BY <1>1
  <2>5. CASE s[k] \in S
    <3>1. /\ Append(kept[k - 1], s[k]) \in Seq(T)
          /\ Range(Append(kept[k - 1], s[k])) = Range(kept[k - 1]) \cup {s[k]}
      BY <2>1, <2>4, RangeAppend
    <3>2. UpTo(k) = UpTo(k - 1) \cup {s[k]}
      BY <2>3, <2>5
    <3>3. kept[k] = Append(kept[k - 1], s[k]) /\ k \in 0..n
      BY <1>1, <2>2, <2>5
    <3> HIDE DEF UpTo
    <3>4. QED
      BY <2>1, <3>1, <3>2, <3>3
  <2>6. CASE s[k] \notin S
    <3>1. UpTo(k) = UpTo(k - 1)
      BY <2>3, <2>6
    <3>2. kept[k] = kept[k - 1] /\ k \in 0..n
      BY <1>1, <2>2, <2>6
    <3> HIDE DEF UpTo
    <3>3. QED
      BY <2>1, <3>1, <3>2
  <2>7. QED
    BY <2>5, <2>6
<1>5. n \in Good
  <2> HIDE DEF Good, n
  <2>1. \A k \in 0..n : k \in Good
    BY <1>1, <1>3, <1>4, InductionUpTo, Zenon
  <2>2. QED
    BY <1>1, <2>1
<1>6. {s[m] : m \in 1..n} = Range(s)
  BY DEF Range
<1>7. QED
  BY <1>2, <1>5, <1>6

\* a stands before b in s.
Before(s, a, b) == \E l, m \in 1..Len(s) : l < m /\ s[l] = a /\ s[m] = b

\* Kept leaves its members in their order.
LEMMA KeptOrder ==
  ASSUME NEW T, NEW s \in Seq(T), NEW S
  PROVE  \A i, j \in 1..Len(Kept(s, S)) : i < j => Before(s, Kept(s, S)[i], Kept(s, S)[j])
<1> DEFINE n == Len(s)
<1>1. n \in Nat /\ \A k \in 1..n : s[k] \in T
  OBVIOUS
<1>2. PICK kept :
        /\ Kept(s, S) = kept[n]
        /\ kept[0] = <<>>
        /\ \A k \in 1..n : kept[k] = IF s[k] \in S THEN Append(kept[k - 1], s[k]) ELSE kept[k - 1]
  BY KeptLoop
<1> DEFINE From(f, k) == \A i \in 1..Len(f) : \E l \in 1..k : s[l] = f[i]
           InOrder(f) == \A i, j \in 1..Len(f) : i < j => Before(s, f[i], f[j])
           Good == {k \in 0..n : kept[k] \in Seq(T) /\ From(kept[k], k) /\ InOrder(kept[k])}
<1>3. 0 \in Good
  <2>1. <<>> \in Seq(T) /\ Len(<<>>) = 0 /\ 0 \in 0..n
    BY <1>1
  <2>2. From(<<>>, 0) /\ InOrder(<<>>)
    BY <2>1
  <2> HIDE DEF From, InOrder
  <2>3. QED
    BY <1>2, <2>1, <2>2
<1>4. ASSUME NEW k \in 1..n, k - 1 \in Good
      PROVE  k \in Good
  <2> DEFINE f == kept[k - 1]
             g == Append(f, s[k])
  <2>1. f \in Seq(T) /\ From(f, k - 1) /\ InOrder(f) /\ k \in 0..n
    BY <1>1, <1>4
  <2>2. kept[k] = IF s[k] \in S THEN g ELSE f
    BY <1>2
  <2>3. From(f, k)
    <3>1. 1..(k - 1) \subseteq 1..k
      BY <1>1
    <3>2. QED
      BY <2>1, <3>1
  <2>4. g \in Seq(T) /\ From(g, k) /\ InOrder(g)
    <3> HIDE DEF f
    <3>1. /\ g \in Seq(T) /\ Len(g) = Len(f) + 1 /\ Len(f) \in Nat
          /\ \A i \in 1..Len(f) : g[i] = f[i]
          /\ g[Len(f) + 1] = s[k]
      BY <1>1, <2>1
    <3>2. 1..Len(g) = (1..Len(f)) \cup {Len(f) + 1}
      BY <3>1
    <3> HIDE DEF g
    <3>3. From(g, k)
      <4> SUFFICES ASSUME NEW i \in 1..Len(g)
                   PROVE  \E l \in 1..k : s[l] = g[i]
        OBVIOUS
      <4>1. CASE i \in 1..Len(f)
        BY <2>3, <3>1, <4>1
      <4>2. CASE i = Len(f) + 1
        BY <1>1, <3>1, <4>2
      <4>3. QED
        BY <3>2, <4>1, <4>2
    <3>4. InOrder(g)
      <4> SUFFICES ASSUME NEW i \in 1..Len(g), NEW j \in 1..Len(g), i < j
                   PROVE  Before(s, g[i], g[j])
        OBVIOUS
      <4>1. i \in 1..Len(f)
        BY <3>1, <3>2
      <4>2. CASE j \in 1..Len(f)
        BY <2>1, <3>1, <4>1, <4>2
      <4>3. CASE j = Len(f) + 1
        <5>1. PICK l \in 1..(k - 1) : s[l] = f[i]
          BY <2>1, <4>1
        <5>2. l \in 1..n /\ k \in 1..n /\ l < k /\ s[l] = g[i] /\ s[k] = g[j]
          BY <1>1, <3>1, <4>1, <4>3, <5>1
        <5>3. QED
          BY <5>2 DEF Before
      <4>4. QED
        BY <3>2, <4>2, <4>3
    <3>5. QED
      BY <3>1, <3>3, <3>4
  <2> HIDE DEF From, InOrder, f, g
  <2>5. QED
    BY <2>1, <2>2, <2>3, <2>4 DEF f
<1>5. n \in Good
  <2> HIDE DEF Good, n
  <2>1. \A k \in 0..n : k \in Good
    BY <1>1, <1>3, <1>4, InductionUpTo, Zenon
  <2>2. QED
    BY <1>1, <2>1
<1>6. QED
  BY <1>2, <1>5
=====================
