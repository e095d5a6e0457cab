------------------------ MODULE ThreadHistory_proof ------------------------
(***************************************************************************)
(* Proofs about ThreadHistory.                                              *)
(*                                                                          *)
(* What the conversion computes is shown by induction: over the loop of     *)
(* convertEvent, over a filtered sequence and over a concatenation, with    *)
(* the lemmas of LoopTheorems.  The rest is an invariant of the session and *)
(* its reader.                                                              *)
(***************************************************************************)
EXTENDS ThreadHistory, LoopTheorems

-----------------------------------------------------------------------------
(* Sequences that are flattened.                                           *)

\* FlattenSeq concatenates: it has the members of all the sequences.
LEMMA FlattenRange ==
  ASSUME NEW S, NEW ss \in Seq(Seq(S))
  PROVE  /\ FlattenSeq(ss) \in Seq(S)
         /\ Range(FlattenSeq(ss)) = UNION {Range(ss[k]) : k \in DOMAIN ss}
<1>1. CASE Len(ss) = 0
  <2>1. ss = <<>> /\ FlattenSeq(ss) = ss
    BY <1>1, Zenon, EmptySeq DEF FlattenSeq
  <2>2. <<>> \in Seq(S) /\ DOMAIN <<>> = {}
    OBVIOUS
  <2>3. Range(<<>>) = {} /\ UNION {Range(<<>>[k]) : k \in DOMAIN <<>>} = {}
    BY <2>2, Zenon DEF Range
  <2>4. QED
    BY <2>1, <2>2, <2>3, Zenon
<1>2. CASE Len(ss) # 0
  <2> DEFINE n == Len(ss)
             flatten == CHOOSE f : f = [i \in 1..Len(ss) |->
                          IF i = 1 THEN ss[i] ELSE f[i - 1] \o ss[i]]
             step == [p \in Seq(S) \X (1..(n - 1)) |-> p[1] \o ss[p[2] + 1]]
  <2>1. n \in Nat \ {0} /\ \A k \in 1..n : ss[k] \in Seq(S)
    BY <1>2
  <2>2. step \in [Seq(S) \X (1..(n - 1)) -> Seq(S)]
    <3>1. \A k \in 1..(n - 1) : k + 1 \in 1..n
      BY <2>1
    <3>2. \A a \in Seq(S), k \in 1..(n - 1) : a \o ss[k + 1] \in Seq(S)
      BY <2>1, <3>1, ConcatProperties
    <3>3. QED
      BY <3>2
  <2>3. \A a \in Seq(S), k \in 1..(n - 1) : step[<<a, k>>] = a \o ss[k + 1]
    OBVIOUS
  <2>4. PICK g : IsLoop(g, Seq(S), ss[1], n - 1, step)
    <3> DEFINE V == Seq(S)
               first == ss[1]
               m == n - 1
    <3>1. m \in Nat /\ first \in V /\ step \in [V \X (1..m) -> V]
      BY <2>1, <2>2
    <3> HIDE DEF V, first, m, step
    <3>2. \E f : IsLoop(f, V, first, m, step)
      BY <3>1, Recursion, Zenon
    <3>3. QED
      BY <3>2 DEF V, first, m
  <2> DEFINE h == [i \in 1..n |-> g[i - 1]]
  <2>5. h = [i \in 1..Len(ss) |-> IF i = 1 THEN ss[i] ELSE h[i - 1] \o ss[i]]
    <3> SUFFICES ASSUME NEW i \in 1..n
                 PROVE  h[i] = IF i = 1 THEN ss[i] ELSE h[i - 1] \o ss[i]
      OBVIOUS
    <3>1. CASE i = 1
      BY <2>1, <2>4, <3>1 DEF IsLoop
    <3>2. CASE i # 1
      <4>1. i - 1 \in 1..(n - 1) /\ i - 1 \in 1..n /\ i - 2 \in 0..(n - 1) /\ (i - 1) + 1 = i
            /\ (i - 1) - 1 = i - 2
        BY <2>1, <3>2
      <4>2. h[i] = g[i - 1] /\ h[i - 1] = g[i - 2]
        BY <4>1
      <4>3. g[i - 2] \in Seq(S) /\ g[i - 1] = step[<<g[i - 2], i - 1>>]
        BY <2>4, <4>1 DEF IsLoop
      <4> HIDE DEF h, step
      <4>4. step[<<g[i - 2], i - 1>>] = g[i - 2] \o ss[i]
        BY <2>3, <4>1, <4>3
      <4>5. QED
        BY <3>2, <4>2, <4>3, <4>4
    <3>3. QED
      BY <3>1, <3>2
  <2>6. flatten = [i \in 1..Len(ss) |-> IF i = 1 THEN ss[i] ELSE flatten[i - 1] \o ss[i]]
    <3> HIDE DEF h
    <3>1. QED
      BY <2>5, Zenon
  <2>7. FlattenSeq(ss) = flatten[n]
    BY <1>2, Zenon DEF FlattenSeq
  <2> HIDE DEF flatten, step, h
  <2> DEFINE UpTo(k) == UNION {Range(ss[m]) : m \in 1..k}
             Good == {k \in 0..(n - 1) :
                        flatten[k + 1] \in Seq(S) /\ Range(flatten[k + 1]) = UpTo(k + 1)}
  <2>8. 0 \in Good
    <3>1. flatten[1] = ss[1] /\ 0 \in 0..(n - 1) /\ 0 + 1 = 1 /\ ss[1] \in Seq(S)
      BY <2>1, <2>6
    <3>2. 1..1 = {1}
      OBVIOUS
    <3>3. UpTo(1) = Range(ss[1])
      BY <3>2, Zenon
    <3> HIDE DEF UpTo
    <3>4. QED
      BY <3>1, <3>3
  <2>9. ASSUME NEW k \in 1..(n - 1), k - 1 \in Good
        PROVE  k \in Good
    <3>1. k + 1 \in 1..n /\ (k + 1) - 1 = k /\ (k - 1) + 1 = k /\ k + 1 # 1 /\ k \in 0..(n - 1)
      BY <2>1
    <3>2. flatten[k] \in Seq(S) /\ Range(flatten[k]) = UpTo(k)
      <4> HIDE DEF UpTo
      <4>1. QED
        BY <2>9, <3>1
    <3>3. flatten[k + 1] = flatten[k] \o ss[k + 1]
      BY <2>6, <3>1
    <3>4. /\ flatten[k + 1] \in Seq(S)
          /\ Range(flatten[k + 1]) = Range(flatten[k]) \cup Range(ss[k + 1])
      BY <2>1, <3>1, <3>2, <3>3, RangeConcat
    <3>5. 1..(k + 1) = (1..k) \cup {k + 1}
      BY <3>1
    <3>6. UpTo(k + 1) = UpTo(k) \cup Range(ss[k + 1])
      BY <3>5, Zenon
    <3> HIDE DEF UpTo
    <3>7. QED
      BY <3>1, <3>2, <3>4, <3>6
  <2>10. n - 1 \in Good
    <3> DEFINE m == n - 1
    <3>1. m \in Nat
      BY <2>1
    <3>2. \A k \in 1..m : k - 1 \in Good => k \in Good
      BY <2>9
    <3> HIDE DEF Good, m
    <3>3. \A k \in 0..m : k \in Good
      BY <2>8, <3>1, <3>2, InductionUpTo, Zenon
    <3>4. QED
      BY <3>1, <3>3 DEF m
  <2>11. (n - 1) + 1 = n /\ DOMAIN ss = 1..n
    BY <2>1
  <2>12. QED
    BY <2>7, <2>10, <2>11
<1>3. QED
  BY <1>1, <1>2

-----------------------------------------------------------------------------
(* Adding a message.                                                        *)

\* Where the pieces of the i-th event are.
Spots(i) == {i} \X Nat \X Nat

Roles == {"author", "tool", "reasoning", "folded"}

\* The messages that the i-th event may have.
MessageOf(i) == [id : {i} \X Nat, role : Roles, of : Seq(Spots(i)) \ {<<>>}]

\* The pieces that the messages so far show.
Told(acc) == UNION {Range(m.of) : m \in Range(acc.msgs)}

Fields(acc, i) ==
  acc \in [msgs : Seq(MessageOf(i)), n : Nat, text : Seq(Spots(i)),
           calls : Seq(Spots(i)), thoughts : Seq(Spots(i))]

Numbered(acc, i) ==
  /\ acc.n = Len(acc.msgs)
  /\ \A p \in 1..Len(acc.msgs) : acc.msgs[p].id = <<i, p - 1>>

\* No piece is shown by two messages.
Apart(acc) ==
  \A p, q \in 1..Len(acc.msgs) :
    p # q => Range(acc.msgs[p].of) \cap Range(acc.msgs[q].of) = {}

Filed(acc, i) == Fields(acc, i) /\ Numbered(acc, i) /\ Apart(acc)

\* The buffers are the same.
SameBuffers(a, b) == a.text = b.text /\ a.calls = b.calls /\ a.thoughts = b.thoughts

\* What a run of messages shows.
TellAll(ofs) == UNION {Range(ofs[k]) : k \in 1..Len(ofs)}

\* Messages of pieces that are not shown yet get the next numbers.
LEMMA AddAllFiles ==
  ASSUME NEW i \in Nat, NEW acc, Filed(acc, i), NEW role \in Roles,
         NEW ofs \in Seq(Seq(Spots(i)) \ {<<>>}), TellAll(ofs) \cap Told(acc) = {},
         \A k, l \in 1..Len(ofs) : k # l => Range(ofs[k]) \cap Range(ofs[l]) = {},
         NEW new, new = AddAll(acc, i, role, ofs)
  PROVE  /\ Filed(new, i)
         /\ Told(new) = Told(acc) \cup TellAll(ofs)
         /\ SameBuffers(new, acc)
<1> DEFINE len == Len(acc.msgs)
           more == Len(ofs)
           ms == [k \in 1..more |-> [id |-> <<i, acc.n + k - 1>>, role |-> role, of |-> ofs[k]]]
<1>1. /\ acc.msgs \in Seq(MessageOf(i)) /\ acc.n \in Nat /\ acc.n = len /\ len \in Nat
      /\ acc.text \in Seq(Spots(i)) /\ acc.calls \in Seq(Spots(i)) /\ acc.thoughts \in Seq(Spots(i))
      /\ more \in Nat
  BY DEF Filed, Fields, Numbered
<1>2. /\ ms \in Seq(MessageOf(i)) /\ Len(ms) = more
      /\ \A k \in 1..more : ms[k].id = <<i, len + k - 1>> /\ ms[k].of = ofs[k]
  <2>1. ASSUME NEW k \in 1..more
        PROVE  [id |-> <<i, acc.n + k - 1>>, role |-> role, of |-> ofs[k]] \in MessageOf(i)
    <3>1. acc.n + k - 1 \in Nat /\ ofs[k] \in Seq(Spots(i)) \ {<<>>}
      BY <1>1
    <3>2. <<i, acc.n + k - 1>> \in {i} \X Nat
      BY <3>1
    <3>3. QED
      BY <3>1, <3>2 DEF MessageOf
  <2>2. ms \in [1..more -> MessageOf(i)]
    BY <2>1
  <2>3. \A k \in 1..more : ms[k].id = <<i, len + k - 1>> /\ ms[k].of = ofs[k]
    BY <1>1
  <2>4. more \in Nat
    BY <1>1
  <2> HIDE DEF ms, more
  <2>5. ms \in Seq(MessageOf(i)) /\ Len(ms) = more
    BY <2>2, <2>4
  <2>6. QED
    BY <2>3, <2>5
<1>3. new = [msgs |-> acc.msgs \o ms, n |-> acc.n + more, text |-> acc.text,
             calls |-> acc.calls, thoughts |-> acc.thoughts]
  BY DEF Filed, Fields, AddAll, Listed
<1> HIDE DEF ms
<1>4. /\ new.msgs = acc.msgs \o ms /\ new.n = acc.n + more /\ new.text = acc.text
      /\ new.calls = acc.calls /\ new.thoughts = acc.thoughts
  BY <1>3
<1>5. /\ new.msgs \in Seq(MessageOf(i))
      /\ Range(new.msgs) = Range(acc.msgs) \cup Range(ms)
  BY <1>1, <1>2, <1>4, RangeConcat
<1> HIDE DEF len, more
<1>6. /\ Len(new.msgs) = len + more
      /\ \A p \in 1..len : new.msgs[p] = acc.msgs[p]
      /\ \A k \in 1..more : new.msgs[len + k] = ms[k]
  <2>1. /\ Len(acc.msgs \o ms) = Len(acc.msgs) + Len(ms)
        /\ \A p \in 1..(Len(acc.msgs) + Len(ms)) :
             (acc.msgs \o ms)[p] = IF p <= Len(acc.msgs) THEN acc.msgs[p] ELSE ms[p - Len(acc.msgs)]
    <3> DEFINE old == acc.msgs
    <3>1. old \in Seq(MessageOf(i)) /\ ms \in Seq(MessageOf(i))
      BY <1>1, <1>2
    <3> HIDE DEF old
    <3>2. /\ Len(old \o ms) = Len(old) + Len(ms)
          /\ \A p \in 1..(Len(old) + Len(ms)) :
               (old \o ms)[p] = IF p <= Len(old) THEN old[p] ELSE ms[p - Len(old)]
      BY <3>1
    <3>3. QED
      BY <3>2 DEF old
  <2>2. ASSUME NEW k \in 1..more
        PROVE  (acc.msgs \o ms)[len + k] = ms[k]
    <3>1. len + k \in 1..(len + more) /\ ~(len + k <= len) /\ (len + k) - len = k
      BY <1>1
    <3>2. QED
      BY <1>2, <2>1, <3>1 DEF len
  <2>3. ASSUME NEW p \in 1..len
        PROVE  (acc.msgs \o ms)[p] = acc.msgs[p]
    BY <1>1, <1>2, <2>1 DEF len
  <2>4. QED
    BY <1>2, <1>4, <2>1, <2>2, <2>3 DEF len
<1>7. Fields(new, i)
  BY <1>1, <1>3, <1>4, <1>5 DEF Fields
<1>8. \A p \in 1..(len + more) : p \in 1..len \/ \E k \in 1..more : p = len + k
  <2> SUFFICES ASSUME NEW p \in 1..(len + more), p \notin 1..len
               PROVE  \E k \in 1..more : p = len + k
    OBVIOUS
  <2>1. p - len \in 1..more /\ p = len + (p - len)
    BY <1>1
  <2>2. QED
    BY <2>1
<1>9. Numbered(new, i)
  <2> SUFFICES ASSUME NEW p \in 1..(len + more)
               PROVE  new.msgs[p].id = <<i, p - 1>>
    BY <1>1, <1>4, <1>6 DEF Numbered
  <2>1. CASE p \in 1..len
    BY <1>6, <2>1 DEF Filed, Numbered, len
  <2>2. CASE p \notin 1..len
    <3>1. PICK k \in 1..more : p = len + k
      BY <1>8, <2>2
    <3>2. new.msgs[p].id = <<i, len + k - 1>>
      BY <1>2, <1>6, <3>1
    <3>3. p - 1 = len + k - 1
      BY <1>1, <3>1
    <3>4. QED
      BY <3>2, <3>3
  <2>3. QED
    BY <2>1, <2>2
<1>10. /\ \A p \in 1..len : Range(acc.msgs[p].of) \subseteq Told(acc)
       /\ \A k \in 1..more : Range(ms[k].of) \subseteq TellAll(ofs)
  <2>1. \A p \in 1..len : acc.msgs[p] \in Range(acc.msgs)
    BY <1>1 DEF Range, len
  <2>2. QED
    BY <1>2, <2>1 DEF Told, TellAll, more
<1>11. Apart(new)
  <2> SUFFICES ASSUME NEW p \in 1..(len + more), NEW q \in 1..(len + more), p # q
               PROVE  Range(new.msgs[p].of) \cap Range(new.msgs[q].of) = {}
    BY <1>6 DEF Apart
  <2>1. CASE p \in 1..len /\ q \in 1..len
    BY <1>6, <2>1 DEF Filed, Apart, len
  <2>2. CASE p \in 1..len /\ q \notin 1..len
    <3>1. PICK k \in 1..more : q = len + k
      BY <1>8, <2>2
    <3>2. QED
      BY <1>6, <1>10, <2>2, <3>1
  <2>3. CASE p \notin 1..len /\ q \in 1..len
    <3>1. PICK k \in 1..more : p = len + k
      BY <1>8, <2>3
    <3>2. QED
      BY <1>6, <1>10, <2>3, <3>1
  <2>4. CASE p \notin 1..len /\ q \notin 1..len
    <3>1. PICK k \in 1..more : p = len + k
      BY <1>8, <2>4
    <3>2. PICK l \in 1..more : q = len + l
      BY <1>8, <2>4
    <3>3. k # l
      BY <3>1, <3>2
    <3>4. Range(ofs[k]) \cap Range(ofs[l]) = {}
      BY <3>3 DEF more
    <3>5. QED
      BY <1>2, <1>6, <3>1, <3>2, <3>4
  <2>5. QED
    BY <2>1, <2>2, <2>3, <2>4
<1>12. Told(new) = Told(acc) \cup TellAll(ofs)
  <2>1. Range(ms) = {ms[k] : k \in 1..more}
    <3>1. DOMAIN ms = 1..more
      BY <1>2
    <3>2. QED
      BY <3>1 DEF Range
  <2>2. UNION {Range(m.of) : m \in Range(ms)} = TellAll(ofs)
    <3>1. {Range(m.of) : m \in Range(ms)} = {Range(ms[k].of) : k \in 1..more}
      BY <2>1
    <3>2. {Range(ms[k].of) : k \in 1..more} = {Range(ofs[k]) : k \in 1..more}
      BY <1>2
    <3>3. QED
      BY <3>1, <3>2 DEF TellAll, more
  <2>3. QED
    BY <1>5, <2>2 DEF Told
<1>13. QED
  BY <1>4, <1>7, <1>9, <1>11, <1>12 DEF Filed, SameBuffers

\* The same for one message.
LEMMA AddFiles ==
  ASSUME NEW i \in Nat, NEW acc, Filed(acc, i), NEW role \in Roles,
         NEW of \in Seq(Spots(i)), of # <<>>, Range(of) \cap Told(acc) = {},
         NEW new, new = Add(acc, i, role, of)
  PROVE  /\ Filed(new, i)
         /\ Told(new) = Told(acc) \cup Range(of)
         /\ SameBuffers(new, acc)
<1> DEFINE ofs == <<of>>
<1>1. ofs \in Seq(Seq(Spots(i)) \ {<<>>}) /\ Len(ofs) = 1 /\ ofs[1] = of
  OBVIOUS
<1>2. new = AddAll(acc, i, role, ofs)
  BY DEF Add
<1> HIDE DEF ofs
<1>3. 1..Len(ofs) = {1}
  BY <1>1
<1>4. TellAll(ofs) = Range(of)
  BY <1>1, <1>3 DEF TellAll
<1>5. TellAll(ofs) \cap Told(acc) = {}
  BY <1>4
<1>6. \A k, l \in 1..Len(ofs) : k # l => Range(ofs[k]) \cap Range(ofs[l]) = {}
  BY <1>3
<1>7. QED
  BY <1>1, <1>2, <1>4, <1>5, <1>6, AddAllFiles

\* The same for a buffer, which makes no message when it is empty.
LEMMA AddUnlessEmptyFiles ==
  ASSUME NEW i \in Nat, NEW acc, Filed(acc, i), NEW role \in Roles,
         NEW of \in Seq(Spots(i)), Range(of) \cap Told(acc) = {},
         NEW new, new = AddUnlessEmpty(acc, i, role, of)
  PROVE  /\ Filed(new, i)
         /\ Told(new) = Told(acc) \cup Range(of)
         /\ SameBuffers(new, acc)
<1>1. CASE of = <<>>
  BY <1>1 DEF AddUnlessEmpty, Range, SameBuffers
<1>2. CASE of # <<>>
  BY <1>2, AddFiles DEF AddUnlessEmpty
<1>3. QED
  BY <1>1, <1>2

-----------------------------------------------------------------------------
(* Taking the parts of an event.                                            *)

\* The pieces that are told or buffered.
Held(acc) == Told(acc) \cup Range(acc.text) \cup Range(acc.calls) \cup Range(acc.thoughts)

\* No piece is buffered twice, nor told and buffered.
Separate(acc) ==
  /\ Told(acc) \cap Range(acc.text) = {}
  /\ Told(acc) \cap Range(acc.calls) = {}
  /\ Told(acc) \cap Range(acc.thoughts) = {}
  /\ Range(acc.text) \cap Range(acc.calls) = {}
  /\ Range(acc.text) \cap Range(acc.thoughts) = {}
  /\ Range(acc.calls) \cap Range(acc.thoughts) = {}

\* What a change of the buffers alone keeps.
LEMMA SameMessagesFile ==
  ASSUME NEW i, NEW acc, Filed(acc, i), NEW new, Fields(new, i),
         new.msgs = acc.msgs, new.n = acc.n
  PROVE  Filed(new, i) /\ Told(new) = Told(acc)
BY DEF Filed, Numbered, Apart, Told

\* The text buffer becomes a message.
LEMMA FlushTextFiles ==
  ASSUME NEW i \in Nat, NEW acc, Filed(acc, i), Separate(acc),
         NEW new, new = FlushText(acc, i)
  PROVE  /\ Filed(new, i) /\ Separate(new) /\ Held(new) = Held(acc)
         /\ new.calls = acc.calls
<1> DEFINE mid == AddUnlessEmpty(acc, i, "author", acc.text)
<1>1. acc.text \in Seq(Spots(i)) /\ "author" \in Roles /\ Range(acc.text) \cap Told(acc) = {}
  BY DEF Filed, Fields, Roles, Separate
<1>2. Filed(mid, i) /\ Told(mid) = Told(acc) \cup Range(acc.text) /\ SameBuffers(mid, acc)
  BY <1>1, AddUnlessEmptyFiles
<1> HIDE DEF mid
<1>3. /\ Fields(new, i)
      /\ new.msgs = mid.msgs /\ new.n = mid.n /\ new.text = <<>>
      /\ new.calls = mid.calls /\ new.thoughts = mid.thoughts
  <2>1. new = [mid EXCEPT !.text = <<>>]
    BY DEF FlushText, mid
  <2>2. Fields(mid, i) /\ <<>> \in Seq(Spots(i))
    BY <1>2 DEF Filed
  <2>3. QED
    BY <2>1, <2>2 DEF Fields
<1>4. Filed(new, i) /\ Told(new) = Told(mid)
  BY <1>2, <1>3, SameMessagesFile
<1>5. Range(new.text) = {}
  BY <1>3 DEF Range
<1>6. QED
  BY <1>2, <1>3, <1>4, <1>5 DEF SameBuffers, Separate, Held

\* The pieces of a part that a converter does not handle.
PieceOf(i, j, kind) == {<<i, j, k>> : k \in 1..Pieces(kind)}

\* Each kind is of one sort, and has a number of pieces.
LEMMA KindSorts ==
  ASSUME NEW kind
  PROVE  /\ kind \in DOMAIN Folded => Pieces(kind) = Folded[kind] /\ Folded[kind] \in Nat
         /\ kind \in OwnKinds => kind \notin DOMAIN Folded
         /\ kind \in {"text", "thought", "call", "response"} =>
              kind \in OwnKinds /\ Pieces(kind) = 1
         /\ kind \notin DOMAIN Folded \cup {"text", "thought", "call", "response"} =>
              Pieces(kind) = 0
<1>1. /\ Folded \in [DOMAIN Folded -> Nat] /\ \A k \in OwnKinds : k \notin DOMAIN Folded
      /\ {"text", "thought", "call", "response"} \subseteq OwnKinds
  BY HistoryFolded DEF OwnKinds
<1>2. QED
  BY <1>1 DEF Pieces

\* The pieces of a part are told or buffered.
LEMMA TakeFiles ==
  ASSUME NEW i \in Nat, NEW j \in Nat, NEW kind, NEW acc, Filed(acc, i), Separate(acc),
         PieceOf(i, j, kind) \cap Held(acc) = {},
         NEW new, new = Take(acc, i, j, kind)
  PROVE  /\ Filed(new, i) /\ Separate(new)
         /\ Held(new) = Held(acc) \cup PieceOf(i, j, kind)
<1> DEFINE spot == <<i, j, 1>>
           own == {"text", "thought", "call", "response"}
<1>1. spot \in Spots(i)
  BY DEF Spots
<1>2. <<spot>> \in Seq(Spots(i)) /\ <<spot>> # <<>> /\ Range(<<spot>>) = {spot}
  BY <1>1 DEF Range
<1>3. kind \in own => PieceOf(i, j, kind) = {spot} /\ spot \notin Held(acc) /\ kind \notin DOMAIN Folded
  <2> SUFFICES ASSUME kind \in own
               PROVE  PieceOf(i, j, kind) = {spot} /\ spot \notin Held(acc) /\ kind \notin DOMAIN Folded
    OBVIOUS
  <2>1. Pieces(kind) = 1 /\ kind \notin DOMAIN Folded
    BY KindSorts
  <2>2. 1..1 = {1}
    OBVIOUS
  <2>3. PieceOf(i, j, kind) = {spot}
    BY <2>1, <2>2 DEF PieceOf
  <2>4. QED
    BY <2>1, <2>3
<1>4. Fields(acc, i)
  BY DEF Filed
<1>5. ASSUME kind = "response"
      PROVE  /\ Filed(new, i) /\ Separate(new)
             /\ Held(new) = Held(acc) \cup {spot}
  <2>1. PICK role \in Roles : new = Add(acc, i, role, <<spot>>)
    BY <1>3, <1>5 DEF Take, Roles
  <2> DEFINE of == <<spot>>
  <2>2. /\ of \in Seq(Spots(i)) /\ of # <<>> /\ Range(of) = {spot}
        /\ Range(of) \cap Told(acc) = {} /\ new = Add(acc, i, role, of)
    BY <1>2, <1>3, <1>5, <2>1 DEF Held
  <2> HIDE DEF spot, of
  <2>3. /\ Filed(new, i)
        /\ Told(new) = Told(acc) \cup Range(of)
        /\ SameBuffers(new, acc)
    BY <2>2, AddFiles
  <2>4. QED
    BY <1>3, <1>5, <2>2, <2>3 DEF SameBuffers, Held, Separate
<1>6. ASSUME kind = "thought"
      PROVE  /\ Filed(new, i) /\ Separate(new)
             /\ Held(new) = Held(acc) \cup {spot}
  <2>1. new = [acc EXCEPT !.thoughts = Append(@, spot)]
    BY <1>3, <1>6 DEF Take
  <2> HIDE DEF spot
  <2>2. acc.thoughts \in Seq(Spots(i))
    BY <1>4 DEF Fields
  <2>3. /\ Append(acc.thoughts, spot) \in Seq(Spots(i))
        /\ Range(Append(acc.thoughts, spot)) = Range(acc.thoughts) \cup {spot}
    BY <1>1, <2>2, RangeAppend
  <2>4. /\ Fields(new, i)
        /\ new.msgs = acc.msgs /\ new.n = acc.n /\ new.text = acc.text
        /\ new.calls = acc.calls /\ new.thoughts = Append(acc.thoughts, spot)
    BY <1>4, <2>1, <2>3 DEF Fields
  <2>5. Filed(new, i) /\ Told(new) = Told(acc)
    BY <2>4, SameMessagesFile
  <2>6. QED
    BY <1>3, <1>6, <2>3, <2>4, <2>5 DEF Held, Separate
<1>7. ASSUME kind = "text"
      PROVE  /\ Filed(new, i) /\ Separate(new)
             /\ Held(new) = Held(acc) \cup {spot}
  <2>1. new = [acc EXCEPT !.text = Append(@, spot)]
    BY <1>3, <1>7 DEF Take
  <2> HIDE DEF spot
  <2>2. acc.text \in Seq(Spots(i))
    BY <1>4 DEF Fields
  <2>3. /\ Append(acc.text, spot) \in Seq(Spots(i))
        /\ Range(Append(acc.text, spot)) = Range(acc.text) \cup {spot}
    BY <1>1, <2>2, RangeAppend
  <2>4. /\ Fields(new, i)
        /\ new.msgs = acc.msgs /\ new.n = acc.n /\ new.text = Append(acc.text, spot)
        /\ new.calls = acc.calls /\ new.thoughts = acc.thoughts
    BY <1>4, <2>1, <2>3 DEF Fields
  <2>5. Filed(new, i) /\ Told(new) = Told(acc)
    BY <2>4, SameMessagesFile
  <2>6. QED
    BY <1>3, <1>7, <2>3, <2>4, <2>5 DEF Held, Separate
<1>8. ASSUME kind = "call"
      PROVE  /\ Filed(new, i) /\ Separate(new)
             /\ Held(new) = Held(acc) \cup {spot}
  <2> DEFINE mid == FlushText(acc, i)
  <2>1. new = [mid EXCEPT !.calls = Append(@, spot)]
    BY <1>3, <1>8 DEF Take
  <2> HIDE DEF spot
  <2>2. Filed(mid, i) /\ Separate(mid) /\ Held(mid) = Held(acc)
    BY FlushTextFiles
  <2> HIDE DEF mid
  <2>3. mid.calls \in Seq(Spots(i))
    BY <2>2 DEF Filed, Fields
  <2>4. /\ Append(mid.calls, spot) \in Seq(Spots(i))
        /\ Range(Append(mid.calls, spot)) = Range(mid.calls) \cup {spot}
    BY <1>1, <2>3, RangeAppend
  <2>5. /\ Fields(new, i)
        /\ new.msgs = mid.msgs /\ new.n = mid.n /\ new.text = mid.text
        /\ new.calls = Append(mid.calls, spot) /\ new.thoughts = mid.thoughts
    BY <2>1, <2>2, <2>4 DEF Filed, Fields
  <2>6. Filed(new, i) /\ Told(new) = Told(mid)
    BY <2>2, <2>5, SameMessagesFile
  <2>7. spot \notin Held(mid)
    BY <1>3, <1>8, <2>2
  <2>8. Separate(new) /\ Held(new) = Held(mid) \cup {spot}
    BY <2>2, <2>4, <2>5, <2>6, <2>7 DEF Held, Separate
  <2>9. QED
    BY <2>2, <2>6, <2>8
<1>9. ASSUME kind \in DOMAIN Folded
      PROVE  /\ Filed(new, i) /\ Separate(new)
             /\ Held(new) = Held(acc) \cup PieceOf(i, j, kind)
  <2> DEFINE n == Folded[kind]
             ofs == [k \in 1..n |-> <<<<i, j, k>>>>]
  <2>1. new = AddAll(acc, i, "folded", ofs)
    <3>1. kind \notin OwnKinds
      BY <1>9, KindSorts
    <3>2. kind # "text" /\ kind # "thought" /\ kind # "call" /\ kind # "response"
      BY <3>1 DEF OwnKinds
    <3>3. Take(acc, i, j, kind) = Fold(acc, i, j, kind)
      BY <1>9, <3>2 DEF Take
    <3>4. QED
      BY <3>3 DEF Fold
  <2>2. n \in Nat /\ PieceOf(i, j, kind) = {<<i, j, k>> : k \in 1..n}
    BY <1>9, KindSorts DEF PieceOf
  <2>3. ASSUME NEW k \in 1..n
        PROVE  /\ <<<<i, j, k>>>> \in Seq(Spots(i)) \ {<<>>}
               /\ Range(<<<<i, j, k>>>>) = {<<i, j, k>>}
    <3>1. <<i, j, k>> \in Spots(i)
      BY <2>2 DEF Spots
    <3>2. QED
      BY <3>1 DEF Range
  <2>4. ofs \in Seq(Seq(Spots(i)) \ {<<>>}) /\ Len(ofs) = n
    <3> DEFINE X == Seq(Spots(i)) \ {<<>>}
    <3>1. \A k \in 1..n : <<<<i, j, k>>>> \in X
      BY <2>3
    <3> HIDE DEF X
    <3>2. ofs \in [1..n -> X]
      BY <3>1
    <3>3. n \in Nat
      BY <2>2
    <3> HIDE DEF ofs, n
    <3>4. ofs \in Seq(X) /\ Len(ofs) = n
      BY <3>2, <3>3
    <3>5. QED
      BY <3>4 DEF X
  <2>5. \A k \in 1..n : Range(ofs[k]) = {<<i, j, k>>}
    BY <2>3
  <2> HIDE DEF n, ofs
  <2>6. TellAll(ofs) = PieceOf(i, j, kind)
    BY <2>2, <2>4, <2>5 DEF TellAll
  <2>7. TellAll(ofs) \cap Told(acc) = {}
    BY <2>6 DEF Held
  <2>8. \A k, l \in 1..Len(ofs) : k # l => Range(ofs[k]) \cap Range(ofs[l]) = {}
    BY <2>4, <2>5
  <2>9. /\ Filed(new, i)
        /\ Told(new) = Told(acc) \cup TellAll(ofs)
        /\ SameBuffers(new, acc)
    <3>1. "folded" \in Roles
      BY DEF Roles
    <3>2. QED
      BY <2>1, <2>4, <2>7, <2>8, <3>1, AddAllFiles
  <2>10. QED
    BY <2>6, <2>9 DEF SameBuffers, Held, Separate
<1>10. ASSUME kind \notin DOMAIN Folded \cup own
       PROVE  new = acc /\ PieceOf(i, j, kind) = {}
  <2>1. new = acc
    BY <1>10 DEF Take
  <2>2. Pieces(kind) = 0 /\ 1..0 = {}
    BY <1>10, KindSorts
  <2>3. QED
    BY <2>1, <2>2 DEF PieceOf
<1>11. QED
  <2> HIDE DEF spot
  <2>1. CASE kind \in own
    BY <1>3, <1>5, <1>6, <1>7, <1>8, <2>1
  <2>2. CASE kind \in DOMAIN Folded
    BY <1>9, <2>2
  <2>3. CASE kind \notin DOMAIN Folded \cup own
    BY <1>10, <2>3
  <2>4. QED
    BY <2>1, <2>2, <2>3

\* The loop over the parts has a value after each part: Taken is defined by it.
LEMMA TakenUnfolds ==
  ASSUME NEW i, NEW ev, Len(ev.parts) \in Nat
  PROVE  /\ Taken(ev, i)[0] = Empty
         /\ \A j \in 1..Len(ev.parts) :
              Taken(ev, i)[j] = Take(Taken(ev, i)[j - 1], i, j, ev.parts[j])
<1> DEFINE Loops(f, m) ==
             f = [j \in 0..m |-> IF j = 0 THEN Empty ELSE Take(f[j - 1], i, j, ev.parts[j])]
           n == Len(ev.parts)
           T == {m \in 0..n : \E f : Loops(f, m)}
<1>1. 0 \in T
  <2> DEFINE f == [j \in 0..0 |-> Empty]
  <2>1. f = [j \in 0..0 |-> IF j = 0 THEN Empty ELSE Take(f[j - 1], i, j, ev.parts[j])]
    OBVIOUS
  <2> HIDE DEF f
  <2>2. Loops(f, 0)
    BY <2>1
  <2> HIDE DEF Loops
  <2>3. \E g : Loops(g, 0)
    BY <2>2, Zenon
  <2>4. QED
    BY <2>3
<1>2. ASSUME NEW m \in 1..n, m - 1 \in T
      PROVE  m \in T
  <2>1. PICK f : Loops(f, m - 1)
    BY <1>2
  <2> DEFINE last == Take(f[m - 1], i, m, ev.parts[m])
             g == [j \in 0..m |-> IF j = m THEN last ELSE f[j]]
  <2>2. /\ g[m] = last /\ g[m - 1] = f[m - 1]
        /\ \A j \in 0..(m - 1) : g[j] = f[j]
    OBVIOUS
  <2>3. \A j \in 0..(m - 1) :
          f[j] = IF j = 0 THEN Empty ELSE Take(f[j - 1], i, j, ev.parts[j])
    BY <2>1, Zenon
  <2>4. g = [j \in 0..m |-> g[j]]
    OBVIOUS
  <2> HIDE DEF g, last
  <2>5. ASSUME NEW j \in 0..m
        PROVE  g[j] = IF j = 0 THEN Empty ELSE Take(g[j - 1], i, j, ev.parts[j])
    <3>1. CASE j = m
      <4>1. m # 0
        OBVIOUS
      <4>2. QED
        BY <2>2, <3>1, <4>1, Zenon DEF last
    <3>2. CASE j # m /\ j # 0
      <4>1. j \in 0..(m - 1) /\ j - 1 \in 0..(m - 1)
        BY <3>2
      <4>2. g[j] = f[j] /\ g[j - 1] = f[j - 1]
        BY <2>2, <4>1
      <4>3. QED
        BY <2>3, <3>2, <4>1, <4>2, Zenon
    <3>3. CASE j # m /\ j = 0
      <4>1. j \in 0..(m - 1)
        BY <3>3
      <4>2. QED
        BY <2>2, <2>3, <3>3, <4>1, Zenon
    <3>4. QED
      BY <3>1, <3>2, <3>3
  <2>6. Loops(g, m)
    BY <2>4, <2>5, Zenon
  <2> HIDE DEF Loops
  <2>7. \E h : Loops(h, m)
    BY <2>6, Zenon
  <2>8. QED
    BY <2>7
<1>3. \A m \in 0..n : m \in T
  <2> HIDE DEF T, n
  <2>1. n \in Nat
    BY DEF n
  <2>2. QED
    BY <1>1, <1>2, <2>1, InductionUpTo, Zenon
<1>4. \E f : Loops(f, n)
  <2> HIDE DEF Loops
  <2>1. QED
    BY <1>3
<1>5. Taken(ev, i) =
        [j \in 0..Len(ev.parts) |->
           IF j = 0 THEN Empty ELSE Take(Taken(ev, i)[j - 1], i, j, ev.parts[j])]
  BY <1>4, Zenon DEF Taken
<1> HIDE DEF T, Loops
<1>6. \A j \in 0..n :
        Taken(ev, i)[j] = IF j = 0 THEN Empty
                          ELSE Take(Taken(ev, i)[j - 1], i, j, ev.parts[j])
  BY <1>5, Zenon
<1>7. 0 \in 0..n /\ \A j \in 1..n : j \in 0..n /\ j # 0
  OBVIOUS
<1>8. QED
  BY <1>6, <1>7, Zenon

\* What there is after j parts: each of their pieces is told or buffered, once.
PiecesUpTo(i, parts, j) == UNION {PieceOf(i, l, parts[l]) : l \in 1..j}

AfterParts(acc, i, parts, j) ==
  Filed(acc, i) /\ Separate(acc) /\ Held(acc) = PiecesUpTo(i, parts, j)

\* Induction over the parts of an event.
LEMMA TakenFiles ==
  ASSUME NEW i \in Nat, NEW ev, Len(ev.parts) \in Nat
  PROVE  \A j \in 0..Len(ev.parts) : AfterParts(Taken(ev, i)[j], i, ev.parts, j)
<1> DEFINE n == Len(ev.parts)
           After(j) == AfterParts(Taken(ev, i)[j], i, ev.parts, j)
           T == {j \in 0..n : After(j)}
<1>1. 0 \in T
  <2>1. Taken(ev, i)[0] = Empty
    BY TakenUnfolds
  <2>2. /\ Empty.msgs = <<>> /\ Empty.n = 0 /\ Empty.text = <<>> /\ Empty.calls = <<>>
        /\ Empty.thoughts = <<>>
    BY DEF Empty
  <2>3. Fields(Empty, i)
    <3>1. <<>> \in Seq(MessageOf(i)) /\ <<>> \in Seq(Spots(i))
      OBVIOUS
    <3>2. QED
      BY <3>1 DEF Empty, Fields
  <2>4. Filed(Empty, i)
    BY <2>2, <2>3 DEF Filed, Numbered, Apart
  <2>5. Range(<<>>) = {}
    BY DEF Range
  <2>6. Told(Empty) = {}
    BY <2>2, <2>5, Zenon DEF Told
  <2>7. Separate(Empty) /\ Held(Empty) = {}
    BY <2>2, <2>5, <2>6 DEF Separate, Held
  <2>8. PiecesUpTo(i, ev.parts, 0) = {}
    <3>1. 1..0 = {}
      OBVIOUS
    <3>2. QED
      BY <3>1 DEF PiecesUpTo
  <2>9. After(0)
    BY <2>1, <2>4, <2>7, <2>8 DEF AfterParts
  <2>10. 0 \in 0..n
    OBVIOUS
  <2> HIDE DEF After
  <2>11. QED
    BY <2>9, <2>10
<1>2. ASSUME NEW j \in 1..n, j - 1 \in T
      PROVE  j \in T
  <2> DEFINE acc == Taken(ev, i)[j - 1]
             new == Taken(ev, i)[j]
             Shows(k) == PiecesUpTo(i, ev.parts, k)
             piece == PieceOf(i, j, ev.parts[j])
  <2>1. new = Take(acc, i, j, ev.parts[j])
    BY TakenUnfolds
  <2>2. Filed(acc, i) /\ Separate(acc) /\ Held(acc) = Shows(j - 1)
    BY <1>2 DEF AfterParts
  <2>3. j \in Nat /\ 1..j = (1..(j - 1)) \cup {j} /\ j \notin 1..(j - 1)
    OBVIOUS
  <2>4. piece \cap Shows(j - 1) = {}
    BY <2>3 DEF PieceOf, PiecesUpTo
  <2>5. Shows(j) = Shows(j - 1) \cup piece
    BY <2>3 DEF PiecesUpTo
  <2> HIDE DEF acc, new, Shows
  <2>6. /\ Filed(new, i) /\ Separate(new)
        /\ Held(new) = Held(acc) \cup piece
    BY <2>1, <2>2, <2>3, <2>4, TakeFiles
  <2>7. Held(new) = Shows(j)
    BY <2>2, <2>5, <2>6
  <2>8. After(j)
    BY <2>6, <2>7 DEF AfterParts, new, Shows
  <2>9. QED
    BY <2>8
<1>3. \A j \in 0..n : j \in T
  <2> HIDE DEF T, n
  <2>1. n \in Nat
    BY DEF n
  <2>2. QED
    BY <1>1, <1>2, <2>1, InductionUpTo, Zenon
<1>4. QED
  BY <1>3

\* The messages of one event.  convertEvent shows every text, thought, call and
\* response of the event, and every message a converter's events fold to, and
\* nothing else; it shows each of them in one message only, and numbers the
\* messages without a gap: for every sequence of parts and every converter.
ShowsOnce(msgs, ev, i) ==
  /\ msgs \in Seq(MessageOf(i))
  /\ \A p \in 1..Len(msgs) : msgs[p].id = <<i, p - 1>>
  /\ \A p, q \in 1..Len(msgs) : p # q => Range(msgs[p].of) \cap Range(msgs[q].of) = {}
  /\ UNION {Range(m.of) : m \in Range(msgs)} = PiecesOf(ev, i)

\* ConvertEvent, with the flushes of the three buffers at its end, loses no piece
\* and shows none of them twice.
THEOREM ConvertEventShowsOnce ==
  ASSUME NEW i \in Nat, NEW ev, Len(ev.parts) \in Nat, DOMAIN ev.parts = 1..Len(ev.parts)
  PROVE  ShowsOnce(ConvertEvent(ev, i), ev, i)
<1> DEFINE end      == Taken(ev, i)[Len(ev.parts)]
           calls    == AddUnlessEmpty(end, i, "author", end.calls)
           text     == AddUnlessEmpty(calls, i, "author", end.text)
           thoughts == AddUnlessEmpty(text, i, "reasoning", end.thoughts)
           shows    == PiecesOf(ev, i)
<1>1. ConvertEvent(ev, i) = thoughts.msgs
  BY DEF ConvertEvent
<1>2. Filed(end, i) /\ Separate(end) /\ Held(end) = shows
  <2>1. Len(ev.parts) \in 0..Len(ev.parts)
    OBVIOUS
  <2>2. AfterParts(end, i, ev.parts, Len(ev.parts))
    BY <2>1, TakenFiles
  <2>3. PiecesUpTo(i, ev.parts, Len(ev.parts)) = shows
    BY DEF PiecesUpTo, PiecesOf, PieceOf
  <2>4. QED
    BY <2>2, <2>3 DEF AfterParts
<1> HIDE DEF end, shows
<1>3. /\ end.calls \in Seq(Spots(i)) /\ end.text \in Seq(Spots(i)) /\ end.thoughts \in Seq(Spots(i))
      /\ "author" \in Roles /\ "reasoning" \in Roles
  BY <1>2 DEF Filed, Fields, Roles
<1>4. /\ Filed(calls, i)
      /\ Told(calls) = Told(end) \cup Range(end.calls)
  <2>1. Range(end.calls) \cap Told(end) = {}
    BY <1>2 DEF Separate
  <2>2. QED
    BY <1>2, <1>3, <2>1, AddUnlessEmptyFiles
<1> HIDE DEF calls
<1>5. /\ Filed(text, i)
      /\ Told(text) = Told(calls) \cup Range(end.text)
  <2>1. Range(end.text) \cap Told(calls) = {}
    BY <1>2, <1>4 DEF Separate
  <2>2. QED
    BY <1>3, <1>4, <2>1, AddUnlessEmptyFiles
<1> HIDE DEF text
<1>6. /\ Filed(thoughts, i)
      /\ Told(thoughts) = Told(text) \cup Range(end.thoughts)
  <2>1. Range(end.thoughts) \cap Told(text) = {}
    BY <1>2, <1>4, <1>5 DEF Separate
  <2>2. QED
    BY <1>3, <1>5, <2>1, AddUnlessEmptyFiles
<1> HIDE DEF thoughts
<1>7. Told(thoughts) = shows
  BY <1>2, <1>4, <1>5, <1>6 DEF Held
<1>8. QED
  BY <1>1, <1>6, <1>7 DEF Filed, Fields, Numbered, Apart, Told, ShowsOnce, shows
-----------------------------------------------------------------------------
(* The inductive invariant of the session and its reader.                   *)

\* The messages of the i-th event.
OfEvent(i) == Range(ConvertEvent(events[i], i))

\* The client has messages of stored events only.
GotIsHistory == \A m \in got : \E i \in DOMAIN events : m \in OfEvent(i)

\* The session is in the order of time, up to now.
InOrder ==
  /\ \A i, k \in DOMAIN events : i <= k => events[i].time <= events[k].time
  /\ \A i \in DOMAIN events : events[i].time <= clock

\* What the session got since the last page is not before the cursor.
CursorBeforeNew == \A i \in DOMAIN events : i > upTo.events => events[i].time >= cursor

\* As long as no page was cut off, the client has every part that the session
\* had when the last page was cut.
UncutPagesAreComplete ==
  upTo.all => \A p \in Displayable \ Delivered : p[1] > upTo.events

IInv ==
  /\ TypeOK
  /\ GotIsHistory
  /\ InOrder
  /\ CursorBeforeNew
  /\ UncutPagesAreComplete

\* The scope of a session has a number of parts and of events.
LEMMA ScopeType ==
  ASSUME scope \in Scopes
  PROVE  /\ scope.kinds \subseteq Kinds /\ scope.parts \in Nat /\ scope.events \in Nat
BY HistoryScopes

\* Stored events have a time, a flag and a bounded sequence of parts.
LEMMA EventType ==
  ASSUME TypeOK, NEW i \in DOMAIN events
  PROVE  /\ i \in Nat /\ events[i] \in StoredEvent
         /\ events[i].time \in 1..MaxTime
         /\ Len(events[i].parts) \in Nat /\ DOMAIN events[i].parts = 1..Len(events[i].parts)
         /\ 1..Len(events[i].parts) \subseteq 1..scope.parts
<1>1. i \in 1..Len(events) /\ Len(events) \in Nat /\ events[i] \in StoredEvent
  BY DEF TypeOK
<1>2. events[i].time \in 1..MaxTime /\ events[i].parts \in BoundedSeq(scope.kinds, scope.parts)
  BY <1>1 DEF StoredEvent
<1>3. scope.parts \in Nat
  BY ScopeType DEF TypeOK
<1>4. PICK n \in 0..scope.parts : events[i].parts \in [1..n -> scope.kinds]
  BY <1>2 DEF BoundedSeq, SeqOf
<1>5. n \in Nat /\ n <= scope.parts
  BY <1>3
<1>6. Len(events[i].parts) = n /\ DOMAIN events[i].parts = 1..n
  BY <1>4, <1>5
<1>7. QED
  BY <1>1, <1>2, <1>3, <1>5, <1>6

\* Messages of an event are messages.
LEMMA MessageOfIn ==
  ASSUME NEW i \in Nat
  PROVE  MessageOf(i) \subseteq Message
<1> SUFFICES ASSUME NEW m \in MessageOf(i)
             PROVE  m \in Message
  OBVIOUS
<1>1. /\ m = [id |-> m.id, role |-> m.role, of |-> m.of]
      /\ m.id \in {i} \X Nat /\ m.role \in Roles /\ m.of \in Seq(Spots(i)) /\ m.of # <<>>
  BY DEF MessageOf
<1>2. Spots(i) \subseteq Seq(Nat)
  <2> SUFFICES ASSUME NEW spot \in Spots(i)
               PROVE  spot \in Seq(Nat)
    OBVIOUS
  <2>1. PICK l \in Nat, k \in Nat : spot = <<i, l, k>>
    BY DEF Spots
  <2>2. <<i, l, k>> \in Seq(Nat)
    OBVIOUS
  <2>3. QED
    BY <2>1, <2>2
<1>3. m.id \in Seq(Nat)
  <2>1. PICK l \in Nat : m.id = <<i, l>>
    BY <1>1
  <2>2. <<i, l>> \in Seq(Nat)
    OBVIOUS
  <2>3. QED
    BY <2>1, <2>2
<1>4. m.of \in Seq(Seq(Nat))
  <2>1. Range(m.of) \subseteq Seq(Nat)
    BY <1>1, <1>2, RangeIn
  <2>2. QED
    BY <1>1, <2>1, SeqIn
<1>5. QED
  BY <1>1, <1>3, <1>4 DEF Message, Roles

\* The messages of a stored event.
LEMMA OfEventShowsOnce ==
  ASSUME TypeOK, NEW i \in DOMAIN events
  PROVE  /\ ShowsOnce(ConvertEvent(events[i], i), events[i], i)
         /\ ConvertEvent(events[i], i) \in Seq(Message)
         /\ \A m \in OfEvent(i) : Range(m.of) \subseteq Spots(i) /\ m.of # <<>>
         /\ \A m \in OfEvent(i) : Range(m.of) # {}
<1> DEFINE msgs == ConvertEvent(events[i], i)
<1>1. /\ i \in Nat /\ Len(events[i].parts) \in Nat
      /\ DOMAIN events[i].parts = 1..Len(events[i].parts)
  BY EventType
<1>2. ShowsOnce(msgs, events[i], i)
  BY <1>1, ConvertEventShowsOnce
<1>3. OfEvent(i) = Range(msgs)
  BY DEF OfEvent
<1> HIDE DEF msgs
<1>4. msgs \in Seq(MessageOf(i))
  BY <1>2 DEF ShowsOnce
<1>5. Range(msgs) \subseteq MessageOf(i)
  BY <1>4, RangeIn
<1>6. msgs \in Seq(Message)
  BY <1>1, <1>4, <1>5, MessageOfIn, SeqIn
<1>7. ASSUME NEW m \in OfEvent(i)
      PROVE  Range(m.of) \subseteq Spots(i) /\ m.of # <<>> /\ Range(m.of) # {}
  <2>1. m.of \in Seq(Spots(i)) /\ m.of # <<>>
    BY <1>3, <1>5 DEF MessageOf
  <2>2. Range(m.of) \subseteq Spots(i)
    BY <2>1, RangeIn
  <2>3. 1 \in DOMAIN m.of
    BY <2>1
  <2>4. QED
    BY <2>1, <2>2, <2>3 DEF Range
<1>8. QED
  BY <1>2, <1>6, <1>7 DEF msgs

\* What a page is made of: the complete events among those that were counted.
LEMMA PageShows ==
  ASSUME TypeOK, NEW after \in Nat, NEW limit \in Nat
  PROVE  /\ Range(Counted(after)) = {i \in DOMAIN events : events[i].parts # <<>> /\ InRange(i, after)}
         /\ Range(Shown(after, limit)) = Range(Processed(after, limit)) \cap Complete
         /\ Range(Shown(after, limit)) \subseteq DOMAIN events
         /\ Page(after, limit) \in Seq(Message)
         /\ Range(Page(after, limit)) = UNION {OfEvent(i) : i \in Range(Shown(after, limit))}
<1> DEFINE D == DOMAIN events
           ids == [i \in D |-> i]
           wanted == {i \in D : events[i].parts # <<>> /\ InRange(i, after)}
           counted == Counted(after)
           processed == Processed(after, limit)
           shown == Shown(after, limit)
           pages == [k \in DOMAIN shown |-> ConvertEvent(events[shown[k]], shown[k])]
<1>1. D = 1..Len(events) /\ Len(events) \in Nat
  BY DEF TypeOK
<1>2. ids \in Seq(D) /\ Range(ids) = D
  <2>1. ids \in [1..Len(events) -> D] /\ DOMAIN ids = D
    BY <1>1
  <2>2. Range(ids) = D
    BY <2>1 DEF Range
  <2>3. QED
    BY <1>1, <2>1, <2>2
<1>3. counted \in Seq(D) /\ Range(counted) = wanted
  <2>1. counted = Kept(ids, wanted) /\ wanted \subseteq D
    BY DEF Counted
  <2> HIDE DEF D, ids, wanted, counted
  <2>2. Kept(ids, wanted) \in Seq(D) /\ Range(Kept(ids, wanted)) = Range(ids) \cap wanted
    BY <1>2, KeptRange
  <2>3. QED
    BY <1>2, <2>1, <2>2
<1>4. processed \in Seq(D)
  <2>1. processed = IF limit > 0 /\ limit < Len(counted) THEN SubSeq(counted, 1, limit) ELSE counted
    BY DEF Processed
  <2> HIDE DEF D, counted, processed
  <2>2. QED
    BY <1>3, <2>1
<1>5. shown \in Seq(D) /\ Range(shown) = Range(processed) \cap Complete
  <2>1. shown = Kept(processed, Complete)
    BY DEF Shown
  <2> HIDE DEF D, processed, shown
  <2>2. QED
    BY <1>4, <2>1, KeptRange
<1>6. Range(shown) \subseteq D
  BY <1>5, RangeIn
<1>7. Page(after, limit) = FlattenSeq(pages)
  BY DEF Page
<1> HIDE DEF D, shown
<1>8. DOMAIN shown = 1..Len(shown) /\ Len(shown) \in Nat /\ \A k \in DOMAIN shown : shown[k] \in D
  BY <1>5
<1>9. \A k \in DOMAIN shown : ConvertEvent(events[shown[k]], shown[k]) \in Seq(Message)
  BY <1>8, OfEventShowsOnce DEF D
<1>10. pages \in Seq(Seq(Message))
  <2>1. pages \in [1..Len(shown) -> Seq(Message)]
    BY <1>8, <1>9
  <2>2. QED
    BY <1>8, <2>1
<1>11. DOMAIN pages = DOMAIN shown /\ \A k \in DOMAIN shown : Range(pages[k]) = OfEvent(shown[k])
  BY DEF OfEvent
<1> HIDE DEF pages
<1>12. /\ FlattenSeq(pages) \in Seq(Message)
       /\ Range(FlattenSeq(pages)) = UNION {Range(pages[k]) : k \in DOMAIN pages}
  BY <1>10, FlattenRange
<1>13. UNION {Range(pages[k]) : k \in DOMAIN pages} = UNION {OfEvent(i) : i \in Range(shown)}
  <2>1. Range(shown) = {shown[k] : k \in DOMAIN shown}
    BY DEF Range
  <2>2. QED
    BY <1>11, <2>1
<1>14. QED
  BY <1>3, <1>5, <1>6, <1>7, <1>12, <1>13 DEF shown, D

-----------------------------------------------------------------------------
(* The invariant is inductive.                                              *)

\* An empty session is fully read.
LEMMA InitInv == Init => IInv
<1> SUFFICES ASSUME Init
             PROVE  IInv
  OBVIOUS
<1>1. MaxTime \in Nat \ {0}
  BY HistoryBounds
<1>2. events = <<>> /\ DOMAIN events = {} /\ Len(events) = 0 /\ events \in Seq(StoredEvent)
  BY DEF Init
<1>3. TypeOK
  BY <1>1, <1>2 DEF Init, TypeOK
<1>4. Displayable = {}
  BY <1>2 DEF Displayable, Complete
<1>5. GotIsHistory /\ InOrder /\ CursorBeforeNew /\ UncutPagesAreComplete
  BY <1>2, <1>4 DEF Init, GotIsHistory, InOrder, CursorBeforeNew, UncutPagesAreComplete
<1>6. QED
  BY <1>3, <1>5 DEF IInv

\* A new event carries the time of the clock, which no cursor is past.
LEMMA AppendEventInv == IInv /\ AppendEvent => IInv'
<1> SUFFICES ASSUME IInv, AppendEvent
             PROVE  IInv'
  OBVIOUS
<1> DEFINE n == Len(events)
<1>1. PICK partial \in BOOLEAN, parts \in BoundedSeq(scope.kinds, scope.parts) :
        events' = Append(events, [time |-> clock, partial |-> partial, parts |-> parts])
  BY DEF AppendEvent
<1> DEFINE ev == [time |-> clock, partial |-> partial, parts |-> parts]
<1>2. UNCHANGED <<scope, clock, cursor, got, phase, upTo>>
  BY DEF AppendEvent
<1>3. TypeOK /\ StoredEvent' = StoredEvent
  BY <1>2 DEF IInv, StoredEvent
<1>4. events \in Seq(StoredEvent) /\ clock \in 1..MaxTime /\ cursor \in 0..clock
      /\ upTo \in [events : 0..n, all : BOOLEAN]
  BY <1>3 DEF TypeOK
<1>5. ev \in StoredEvent /\ ev.time = clock
  BY <1>4 DEF StoredEvent
<1> HIDE DEF ev
<1>6. /\ events' \in Seq(StoredEvent) /\ Len(events') = n + 1 /\ n \in Nat
      /\ DOMAIN events = 1..n /\ DOMAIN events' = 1..(n + 1)
      /\ events'[n + 1] = ev
      /\ \A i \in 1..n : events'[i] = events[i]
  BY <1>1, <1>4, <1>5 DEF ev
<1> HIDE DEF n
<1>7. upTo.events \in 0..n /\ upTo \in [events : 0..(n + 1), all : BOOLEAN]
  BY <1>4, <1>6
<1>8. MaxTime \in Nat
  BY HistoryBounds
<1>9. TypeOK'
  BY <1>2, <1>3, <1>6, <1>7 DEF TypeOK
<1>10. \A i \in 1..n : OfEvent(i)' = OfEvent(i)
  BY <1>6 DEF OfEvent
<1>11. GotIsHistory'
  <2>1. \A m \in got : \E i \in 1..n : m \in OfEvent(i)
    BY <1>6 DEF IInv, GotIsHistory
  <2>2. \A m \in got' : \E i \in 1..n : m \in OfEvent(i)'
    BY <1>2, <1>10, <2>1
  <2>3. 1..n \subseteq DOMAIN events'
    BY <1>6
  <2>4. QED
    BY <2>2, <2>3 DEF GotIsHistory
<1>12. InOrder'
  <2>1. \A i \in 1..n : events'[i].time <= clock
    BY <1>6 DEF IInv, InOrder
  <2>2. \A i \in 1..(n + 1) : events'[i].time <= clock
    BY <1>4, <1>5, <1>6, <1>8, <2>1
  <2>3. \A i, k \in 1..n : i <= k => events'[i].time <= events'[k].time
    BY <1>6 DEF IInv, InOrder
  <2>4. \A i, k \in 1..(n + 1) : i <= k => events'[i].time <= events'[k].time
    <3> SUFFICES ASSUME NEW i \in 1..(n + 1), NEW k \in 1..(n + 1), i <= k
                 PROVE  events'[i].time <= events'[k].time
      OBVIOUS
    <3>1. CASE k = n + 1
      BY <1>5, <1>6, <2>2, <3>1
    <3>2. CASE k # n + 1
      BY <1>6, <2>3, <3>2
    <3>3. QED
      BY <3>1, <3>2
  <2>5. QED
    BY <1>2, <1>6, <2>2, <2>4 DEF InOrder
<1>13. CursorBeforeNew'
  <2> SUFFICES ASSUME NEW i \in 1..(n + 1), i > upTo.events
               PROVE  events'[i].time >= cursor
    BY <1>2, <1>6 DEF CursorBeforeNew
  <2>1. CASE i = n + 1
    BY <1>4, <1>5, <1>6, <1>8, <2>1
  <2>2. CASE i # n + 1
    <3>1. i \in 1..n
      BY <1>6, <2>2
    <3>2. QED
      BY <1>6, <3>1 DEF IInv, CursorBeforeNew
  <2>3. QED
    BY <2>1, <2>2
<1>14. UncutPagesAreComplete'
  <2> SUFFICES ASSUME upTo.all, NEW p \in Displayable', p \notin Delivered'
               PROVE  p[1] > upTo.events
    BY <1>2 DEF UncutPagesAreComplete
  <2>1. Delivered' = Delivered
    BY <1>2 DEF Delivered
  <2>2. PICK i \in Complete' : p \in PiecesOf(events'[i], i)
    BY DEF Displayable, PiecesOf, Pieces
  <2>3. i \in 1..(n + 1) /\ ~events'[i].partial /\ p[1] = i
    BY <1>6, <2>2 DEF Complete, PiecesOf
  <2>4. CASE i = n + 1
    BY <1>6, <1>7, <2>3, <2>4
  <2>5. CASE i # n + 1
    <3>1. i \in 1..n
      BY <1>6, <2>3, <2>5
    <3>2. i \in Complete
      BY <1>6, <2>3, <3>1 DEF Complete
    <3>3. p \in PiecesOf(events[i], i)
      BY <1>6, <2>2, <3>1
    <3>4. p \in Displayable
      BY <3>2, <3>3 DEF Displayable
    <3>5. QED
      BY <2>1, <3>4 DEF IInv, UncutPagesAreComplete
  <2>6. QED
    BY <2>4, <2>5
<1>15. QED
  BY <1>9, <1>11, <1>12, <1>13, <1>14 DEF IInv

\* The passing of time changes nothing that is stored.
LEMMA TickInv == IInv /\ Tick => IInv'
<1> SUFFICES ASSUME IInv, Tick
             PROVE  IInv'
  OBVIOUS
<1>1. /\ UNCHANGED <<scope, events, cursor, got, phase, upTo>>
      /\ clock' = clock + 1 /\ clock < MaxTime
  BY DEF Tick
<1>2. /\ TypeOK /\ GotIsHistory /\ InOrder /\ CursorBeforeNew /\ UncutPagesAreComplete
      /\ MaxTime \in Nat
  BY HistoryBounds DEF IInv
<1>3. StoredEvent' = StoredEvent
  BY <1>1 DEF StoredEvent
<1>4. clock' \in 1..MaxTime /\ cursor \in 0..clock'
  BY <1>1, <1>2 DEF TypeOK
<1>5. TypeOK'
  BY <1>1, <1>2, <1>3, <1>4 DEF TypeOK
<1>6. GotIsHistory'
  BY <1>1, <1>2 DEF GotIsHistory, OfEvent
<1>7. InOrder'
  <2>1. \A i \in DOMAIN events : events[i].time \in 1..MaxTime /\ clock \in Nat
    BY <1>2, EventType DEF TypeOK
  <2>2. QED
    BY <1>1, <1>2, <2>1 DEF InOrder
<1>8. CursorBeforeNew'
  BY <1>1, <1>2 DEF CursorBeforeNew
<1>9. UncutPagesAreComplete'
  BY <1>1, <1>2 DEF UncutPagesAreComplete, Displayable, Complete, Delivered
<1>10. QED
  BY <1>5, <1>6, <1>7, <1>8, <1>9 DEF IInv

\* A failed page gives the client nothing.
LEMMA FetchFailsInv == IInv /\ FetchFails => IInv'
<1> SUFFICES ASSUME IInv, FetchFails
             PROVE  IInv'
  OBVIOUS
<1>1. UNCHANGED <<scope, events, clock, cursor, got, upTo>> /\ phase' = "failed"
  BY DEF FetchFails
<1>2. TypeOK /\ GotIsHistory /\ InOrder /\ CursorBeforeNew /\ UncutPagesAreComplete
  BY DEF IInv
<1>3. TypeOK'
  BY <1>1, <1>2 DEF TypeOK, StoredEvent
<1>4. GotIsHistory' /\ InOrder' /\ CursorBeforeNew'
  BY <1>1, <1>2 DEF GotIsHistory, OfEvent, InOrder, CursorBeforeNew
<1>5. UncutPagesAreComplete'
  BY <1>1, <1>2 DEF UncutPagesAreComplete, Displayable, Complete, Delivered
<1>6. QED
  BY <1>3, <1>4, <1>5 DEF IInv

\* The cursor that a page gives is none or the time of the last event.
LEMMA NextCursorType ==
  ASSUME IInv, NEW limit \in Nat, NEW accept, NEW messages \in Nat
  PROVE  /\ NextCursor(limit, accept, messages) \in 0..clock
         /\ LastUpdateTime \in 0..clock
<1>1. TypeOK /\ InOrder /\ clock \in 1..MaxTime /\ MaxTime \in Nat
  BY HistoryBounds DEF IInv, TypeOK
<1>2. LastUpdateTime \in 0..clock
  <2>1. CASE events = <<>>
    BY <1>1, <2>1 DEF LastUpdateTime
  <2>2. CASE events # <<>>
    <3>1. Len(events) \in DOMAIN events
      BY <1>1, <2>2 DEF TypeOK
    <3>2. Last(events).time \in 1..MaxTime /\ Last(events).time <= clock
      BY <1>1, <3>1, EventType DEF InOrder, Last
    <3>3. QED
      BY <1>1, <2>2, <3>2 DEF LastUpdateTime
  <2>3. QED
    BY <2>1, <2>2
<1>3. QED
  BY <1>1, <1>2 DEF NextCursor

\* A page that is not cut off shows every part that was not shown yet: those
\* before the cursor were shown by an earlier page.
LEMMA UncutPageCompletes ==
  ASSUME IInv, NEW limit \in Nat, upTo.all, Processed(cursor, limit) = Counted(cursor),
         NEW p \in Displayable, p \notin Delivered
  PROVE  \E m \in Range(Page(cursor, limit)) : p \in Range(m.of)
<1>1. TypeOK /\ cursor \in Nat
  BY DEF IInv, TypeOK
<1>2. PICK i \in Complete : p \in PiecesOf(events[i], i)
  BY DEF Displayable
<1>3. i \in DOMAIN events /\ p[1] = i
  BY <1>2 DEF Complete, PiecesOf
<1>4. events[i].time >= cursor
  BY <1>3 DEF IInv, UncutPagesAreComplete, CursorBeforeNew
<1>5. events[i].parts # <<>>
  <2>1. DOMAIN events[i].parts # {}
    BY <1>2 DEF PiecesOf
  <2>2. QED
    BY <2>1
<1>6. events[i].parts # <<>> /\ InRange(i, cursor)
  BY <1>4, <1>5 DEF InRange
<1> DEFINE counted == Range(Counted(cursor))
           processed == Range(Processed(cursor, limit))
           shown == Range(Shown(cursor, limit))
           page == Range(Page(cursor, limit))
<1>7. /\ counted = {k \in DOMAIN events : events[k].parts # <<>> /\ InRange(k, cursor)}
      /\ shown = processed \cap Complete
      /\ page = UNION {OfEvent(k) : k \in shown}
  BY <1>1, PageShows
<1>8. processed = counted
  OBVIOUS
<1> HIDE DEF counted, processed, shown, page
<1>9. OfEvent(i) \subseteq page
  <2>1. i \in counted
    BY <1>3, <1>6, <1>7
  <2>2. i \in shown
    BY <1>2, <1>7, <1>8, <2>1
  <2>3. QED
    BY <1>7, <2>2
<1>11. p \in UNION {Range(m.of) : m \in OfEvent(i)}
  BY <1>1, <1>2, <1>3, OfEventShowsOnce DEF ShowsOnce, OfEvent
<1>12. QED
  BY <1>9, <1>11 DEF page

\* A page adds messages of stored events, and a page that is not cut off
\* completes what the client has.
LEMMA FetchInv == IInv /\ Fetch => IInv'
<1> SUFFICES ASSUME IInv, Fetch
             PROVE  IInv'
  OBVIOUS
<1>1. PICK limit \in Limits, accept \in Accepts :
        /\ got' = got \cup Range(Page(cursor, limit))
        /\ cursor' = NextCursor(limit, accept, Len(Page(cursor, limit)))
        /\ phase' = IF cursor' = 0 THEN "end" ELSE "more"
        /\ upTo' = [events |-> Len(events),
                    all |-> upTo.all /\ Processed(cursor, limit) = Counted(cursor)]
  BY Zenon DEF Fetch
<1> DEFINE page == Page(cursor, limit)
           uncut == Processed(cursor, limit) = Counted(cursor)
<1>2. UNCHANGED <<scope, events, clock>>
  BY DEF Fetch
<1>3. /\ TypeOK /\ GotIsHistory /\ InOrder /\ CursorBeforeNew /\ UncutPagesAreComplete
      /\ limit \in Nat /\ cursor \in Nat
  BY HistoryBounds DEF IInv, TypeOK
<1>4. /\ page \in Seq(Message)
      /\ Range(page) = UNION {OfEvent(i) : i \in Range(Shown(cursor, limit))}
      /\ Range(Shown(cursor, limit)) \subseteq DOMAIN events
  BY <1>3, PageShows
<1>5. got' = got \cup Range(page) /\ cursor' \in 0..clock
  <2>1. Len(page) \in Nat
    BY <1>4
  <2>2. QED
    BY <1>1, <1>3, <2>1, NextCursorType
<1>6. upTo' = [events |-> Len(events), all |-> upTo.all /\ uncut]
  BY <1>1
<1>7. phase' \in {"more", "end"}
  BY <1>1
<1>8. \A p \in Displayable : upTo.all /\ uncut /\ p \notin Delivered =>
        \E m \in Range(page) : p \in Range(m.of)
  BY <1>3, UncutPageCompletes
<1> HIDE DEF page, uncut
<1>9. TypeOK'
  <2>1. Range(page) \subseteq Message
    BY <1>4, RangeIn
  <2>2. got' \in SUBSET Message
    BY <1>3, <1>5, <2>1 DEF TypeOK
  <2>3. (upTo.all /\ uncut) \in BOOLEAN
    OBVIOUS
  <2>4. Len(events) \in 0..Len(events)
    BY <1>3 DEF TypeOK
  <2>5. upTo' \in [events : 0..Len(events), all : BOOLEAN]
    BY <1>6, <2>3, <2>4
  <2>6. StoredEvent' = StoredEvent
    BY <1>2 DEF StoredEvent
  <2>7. QED
    BY <1>2, <1>3, <1>5, <1>7, <2>2, <2>5, <2>6 DEF TypeOK
<1>10. GotIsHistory'
  <2>1. \A m \in Range(page) : \E i \in DOMAIN events : m \in OfEvent(i)
    BY <1>4
  <2>2. \A i \in DOMAIN events : OfEvent(i)' = OfEvent(i)
    BY <1>2 DEF OfEvent
  <2>3. QED
    BY <1>2, <1>3, <1>5, <2>1, <2>2 DEF GotIsHistory
<1>11. InOrder'
  BY <1>2, <1>3 DEF InOrder
<1>12. CursorBeforeNew'
  <2>1. upTo'.events = Len(events) /\ DOMAIN events = 1..Len(events) /\ Len(events) \in Nat
    BY <1>3, <1>6 DEF TypeOK
  <2>2. QED
    BY <1>2, <2>1 DEF CursorBeforeNew
<1>13. UncutPagesAreComplete'
  <2>1. Displayable' = Displayable
    BY <1>2 DEF Displayable, Complete
  <2>2. Delivered' = Delivered \cup UNION {Range(m.of) : m \in Range(page)}
    BY <1>5 DEF Delivered
  <2>3. upTo'.all => upTo.all /\ uncut
    BY <1>6
  <2>4. upTo'.all => \A p \in Displayable : p \in Delivered'
    BY <1>8, <2>2, <2>3
  <2>5. QED
    BY <2>1, <2>4 DEF UncutPagesAreComplete
<1>14. QED
  BY <1>9, <1>10, <1>11, <1>12, <1>13 DEF IInv
-----------------------------------------------------------------------------
(* The theorems.                                                            *)

\* Every reachable state of the session and its reader satisfies the invariant.
THEOREM Invariance == Spec => []IInv
<1>1. Init => IInv
  BY InitInv
<1>2. IInv /\ [Next]_vars => IInv'
  <2> SUFFICES ASSUME IInv, [Next]_vars
               PROVE  IInv'
    OBVIOUS
  <2>1. CASE AppendEvent
    BY <2>1, AppendEventInv
  <2>2. CASE Tick
    BY <2>2, TickInv
  <2>3. CASE Fetch
    BY <2>3, FetchInv
  <2>4. CASE FetchFails
    BY <2>4, FetchFailsInv
  <2>5. CASE UNCHANGED vars
    <3>1. /\ TypeOK /\ GotIsHistory /\ InOrder /\ CursorBeforeNew /\ UncutPagesAreComplete
      BY DEF IInv
    <3>2. TypeOK'
      BY <2>5, <3>1 DEF TypeOK, StoredEvent, vars
    <3>3. GotIsHistory' /\ InOrder' /\ CursorBeforeNew'
      BY <2>5, <3>1 DEF GotIsHistory, OfEvent, InOrder, CursorBeforeNew, vars
    <3>4. UncutPagesAreComplete'
      BY <2>5, <3>1 DEF UncutPagesAreComplete, Displayable, Complete, Delivered, vars
    <3>5. QED
      BY <3>2, <3>3, <3>4 DEF IInv
  <2>6. CASE Over
    BY <2>5, <2>6 DEF Over
  <2>7. QED
    BY <2>1, <2>2, <2>3, <2>4, <2>5, <2>6 DEF Next
<1>3. QED
  BY <1>1, <1>2, PTL DEF Spec

\* Type correctness, for every bound: a page has messages that show something,
\* a cursor is not past the clock.
THEOREM TypeCorrect == Spec => []TypeOK
<1>1. IInv => TypeOK
  BY DEF IInv
<1>2. QED
  BY <1>1, Invariance, PTL

\* In all its pages, and whatever the session gets between them, a message is
\* known by its id: convertEvent numbers the messages of an event by their
\* order, and shows a part in one of them only.
THEOREM IdsAlwaysIdentify == Spec => []IdsIdentify
<1>1. IInv => IdsIdentify
  <2> SUFFICES ASSUME IInv, NEW a \in got, NEW b \in got
               PROVE  a # b => a.id # b.id /\ Range(a.of) \cap Range(b.of) = {}
    BY DEF IdsIdentify
  <2>1. PICK i \in DOMAIN events : a \in OfEvent(i)
    BY DEF IInv, GotIsHistory
  <2>2. PICK k \in DOMAIN events : b \in OfEvent(k)
    BY DEF IInv, GotIsHistory
  <2>3. TypeOK
    BY DEF IInv
  <2> DEFINE am == ConvertEvent(events[i], i)
             bm == ConvertEvent(events[k], k)
  <2>4. ShowsOnce(am, events[i], i) /\ ShowsOnce(bm, events[k], k)
    BY <2>3, OfEventShowsOnce
  <2>5. /\ Range(a.of) \subseteq Spots(i) /\ Range(b.of) \subseteq Spots(k)
        /\ Range(a.of) # {}
    BY <2>1, <2>2, <2>3, OfEventShowsOnce
  <2>6. am \in Seq(MessageOf(i)) /\ bm \in Seq(MessageOf(k))
    BY <2>4 DEF ShowsOnce
  <2>7. a \in Range(am) /\ b \in Range(bm)
    BY <2>1, <2>2 DEF OfEvent
  <2>8. i = k => am = bm
    OBVIOUS
  <2> HIDE DEF am, bm
  <2>9. PICK p \in 1..Len(am) : a = am[p]
    <3>1. DOMAIN am = 1..Len(am)
      BY <2>6, LenProperties
    <3>2. QED
      BY <2>7, <3>1, Zenon DEF Range
  <2>10. PICK q \in 1..Len(bm) : b = bm[q]
    <3>1. DOMAIN bm = 1..Len(bm)
      BY <2>6, LenProperties
    <3>2. QED
      BY <2>7, <3>1, Zenon DEF Range
  <2>11. a.id = <<i, p - 1>> /\ b.id = <<k, q - 1>>
    BY <2>4, <2>9, <2>10 DEF ShowsOnce
  <2>12. ASSUME a.id = b.id
         PROVE  a = b
    <3>1. i = k /\ p - 1 = q - 1
      BY <2>11, <2>12
    <3>2. p = q
      BY <3>1
    <3>3. QED
      BY <2>8, <2>9, <2>10, <3>1, <3>2
  <2>13. ASSUME Range(a.of) \cap Range(b.of) # {}
         PROVE  a = b
    <3>1. i = k
      BY <2>5, <2>13 DEF Spots
    <3>2. am = bm
      BY <2>8, <3>1
    <3>3. p = q
      BY <2>4, <2>9, <2>10, <2>13, <3>2 DEF ShowsOnce
    <3>4. QED
      BY <2>9, <2>10, <3>2, <3>3
  <2>14. QED
    BY <2>12, <2>13
<1>2. QED
  BY <1>1, Invariance, PTL

\* A client whose pages were never cut off by their limit misses nothing, for any
\* session and any times of its events: what it lacks is not before its cursor.
THEOREM UncutPagesNeverMiss == Spec => []UncutPagesMissNothing
<1>1. IInv => UncutPagesMissNothing
  <2> SUFFICES ASSUME IInv, upTo.all, phase # "first", NEW p \in Displayable \ Delivered
               PROVE  IF phase = "more" THEN events[p[1]].time >= cursor ELSE p[1] > upTo.events
    BY DEF UncutPagesMissNothing
  <2>1. p[1] > upTo.events
    BY DEF IInv, UncutPagesAreComplete
  <2>2. p[1] \in DOMAIN events
    BY DEF Displayable, Complete, PiecesOf
  <2>3. events[p[1]].time >= cursor
    BY <2>1, <2>2 DEF IInv, CursorBeforeNew
  <2>4. QED
    BY <2>1, <2>3
<1>2. QED
  BY <1>1, Invariance, PTL
=============================================================================
