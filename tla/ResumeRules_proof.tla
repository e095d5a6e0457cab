------------------------- MODULE ResumeRules_proof -------------------------
(***************************************************************************)
(* Theorems about ResumeRules: which answers to interrupts /run_sse accepts *)
(* and what the agent hears of them, for every request and every thread.    *)
(***************************************************************************)
EXTENDS ResumeRules, LoopTheorems, FiniteSetTheorems

-----------------------------------------------------------------------------
(* The data of a case.                                                      *)

\* Sequences by their positions.
LEMMA Positions ==
  ASSUME NEW s, IsSeq(s)
  PROVE  /\ Len(s) \in Nat /\ DOMAIN s = 1..Len(s)
         /\ (s = <<>> <=> DOMAIN s = {})
         /\ (s = <<>> <=> Len(s) = 0)
BY DEF IsSeq

\* What a request and the interrupts of its thread are.
LEMMA CaseType ==
  ASSUME case \in Cases
  PROVE  /\ IsSeq(case.pending) /\ IsSeq(case.resume) /\ IsSeq(case.messages)
         /\ \A i \in DOMAIN case.pending :
              /\ Expiry(case.pending[i].expires)
              /\ \A name \in DOMAIN case.pending[i].schema.properties :
                   IsFragment(case.pending[i].schema.properties[name])
         /\ \A i \in DOMAIN case.messages : IsContent(case.messages[i].content)
BY ResumeCases

\* The ids of a sequence of records or entries are as many as it is long exactly
\* if they differ.
LEMMA IdsCount ==
  ASSUME NEW s, IsSeq(s), NEW ids, ids = {s[i].id : i \in DOMAIN s}
  PROVE  /\ IsFiniteSet(ids)
         /\ Len(s) = Cardinality(ids) <=> \A i, j \in DOMAIN s : s[i].id = s[j].id => i = j
<1> DEFINE n == Len(s)
           f == [i \in 1..n |-> s[i].id]
<1>1. n \in Nat /\ DOMAIN s = 1..n
  BY Positions
<1>2. IsFiniteSet(1..n) /\ Cardinality(1..n) = n
  <2> HIDE DEF n
  <2>1. 1 \in Int /\ n \in Int
    BY <1>1
  <2>2. IsFiniteSet(1..n) /\ Cardinality(1..n) = IF 1 > n THEN 0 ELSE n - 1 + 1
    BY <2>1, FS_Interval
  <2>3. QED
    BY <1>1, <2>2
<1>3. f \in Surjection(1..n, ids)
  BY <1>1 DEF Surjection
<1>4. IsFiniteSet(ids) /\ (Cardinality(ids) = Cardinality(1..n) <=> f \in Injection(1..n, ids))
  BY <1>2, <1>3, FS_Surjection
<1>5. f \in Injection(1..n, ids) <=> \A i, j \in 1..n : s[i].id = s[j].id => i = j
  <2>1. f \in [1..n -> ids] /\ DOMAIN f = 1..n
    BY <1>3 DEF Surjection
  <2>2. QED
    BY <2>1 DEF Injection, IsInjective
<1>6. QED
  BY <1>1, <1>2, <1>4, <1>5

\* The record of an open interrupt is one of the thread's, of that id.
LEMMA RecordIsPending ==
  ASSUME NEW pending, IsSeq(pending), NEW id \in PendingIds(pending)
  PROVE  \E i \in DOMAIN pending : RecordOf(pending, id) = pending[i] /\ pending[i].id = id
<1> DEFINE S == {i \in DOMAIN pending : pending[i].id = id}
<1>1. Len(pending) \in Nat /\ S \subseteq 1..Len(pending) /\ S # {}
  BY Positions DEF PendingIds
<1>2. Max(S) \in S
  <2> HIDE DEF S
  <2>1. QED
    BY <1>1, LastPosition
<1>3. QED
  BY <1>2 DEF RecordOf

\* isInterruptExpired: at the time or after it; a time that cannot be read never
\* comes.
LEMMA ExpiredMeans ==
  ASSUME NEW record, Expiry(record.expires), now \in Nat
  PROVE  Expired(record) <=> record.expires \in {<<"at", n>> : n \in 0..now}
<1>1. CASE record.expires \in {<<"none">>, <<"unparseable">>}
  <2>1. record.expires[1] # "at"
    BY <1>1
  <2>2. \A n \in 0..now : <<"at", n>>[1] = "at"
    OBVIOUS
  <2>3. QED
    BY <2>1, <2>2 DEF Expired
<1>2. CASE record.expires[1] = "at" /\ record.expires = <<"at", record.expires[2]>>
           /\ record.expires[2] \in Nat
  <2> DEFINE e == record.expires
             t == e[2]
  <2>1. e = <<"at", t>> /\ t \in Nat /\ e[1] = "at"
    BY <1>2
  <2> HIDE DEF e, t
  <2>2. e \in {<<"at", n>> : n \in 0..now} <=> t \in 0..now
    BY <2>1
  <2>3. Expired(record) <=> t <= now
    BY <2>1 DEF Expired, e, t
  <2>4. QED
    BY <2>1, <2>2, <2>3 DEF e
<1>3. QED
  BY <1>1, <1>2 DEF Expiry

-----------------------------------------------------------------------------
(* The schema.                                                              *)

\* The two ways to say what a fragment allows.
LEMMA AllowedMeans ==
  ASSUME NEW v, NEW s, s.enum = <<>> \/ s.enum = <<s.enum[1]>>
  PROVE  (s.enum = <<>> \/ v \in s.enum[1]) <=> \A allowed \in Range(s.enum) : v \in allowed
<1>1. CASE s.enum = <<>>
  BY <1>1 DEF Range
<1>2. CASE s.enum = <<s.enum[1]>> /\ s.enum # <<>>
  <2> DEFINE e == s.enum[1]
  <2>1. Range(<<e>>) = {e}
    BY DEF Range
  <2>2. Range(s.enum) = {e}
    <3> HIDE DEF e
    <3>1. s.enum = <<e>>
      BY <1>2 DEF e
    <3>2. QED
      BY <2>1, <3>1
  <2>3. QED
    BY <1>2, <2>2
<1>3. QED
  BY <1>1, <1>2

\* What a fragment at one place of a schema asks of the value there.
Asks(s, v) ==
  /\ TypeMatches(s.type, v)
  /\ \A allowed \in Range(s.enum) : v \in allowed

\* validateJSONSchemaValue asks for the place and for the places below it.
LEMMA ValueConformsMeans ==
  ASSUME NEW v, NEW s, IsFragment(s)
  PROVE  ValueConforms(v, s) <=>
           /\ Asks(s, v)
           /\ s.type = "object" /\ v[1] = "object" =>
                \A name \in DOMAIN s.properties \cap Members(v) :
                  Asks(s.properties[name], v[2][name])
<1>1. FlatConforms(v, s) <=> Asks(s, v)
  BY AllowedMeans DEF IsFragment, FlatConforms, Asks
<1>2. ASSUME s.type = "object", NEW name \in DOMAIN s.properties
      PROVE  FlatConforms(v[2][name], s.properties[name]) <=> Asks(s.properties[name], v[2][name])
  <2> DEFINE b == s.properties[name]
             w == v[2][name]
  <2>1. b.enum = <<>> \/ b.enum = <<b.enum[1]>>
    BY <1>2 DEF IsFragment
  <2> HIDE DEF b, w
  <2>2. FlatConforms(w, b) <=> Asks(b, w)
    BY <2>1, AllowedMeans DEF FlatConforms, Asks
  <2>3. QED
    BY <2>2 DEF b, w
<1>3. s.type = "object" /\ Asks(s, v) => v[1] = "object"
  BY DEF Asks, TypeMatches
<1>4. QED
  BY <1>1, <1>2, <1>3 DEF ValueConforms

\* The walk through the payload and the list of all its places say the same.
LEMMA FitsMeans ==
  ASSUME NEW payload, NEW schema,
         \A name \in DOMAIN schema.properties : IsFragment(schema.properties[name])
  PROVE  PayloadConforms(payload, schema) <=> Fits(payload, schema)
<1> DEFINE props == schema.properties
           At1(a) == a \in Members(payload) => Asks(props[a], payload[2][a])
           At2(a, b) == /\ a \in Members(payload) /\ payload[2][a][1] = "object"
                        /\ b \in Members(payload[2][a])
                        => Asks(props[a].properties[b], payload[2][a][2][b])
           Nested == {a \in DOMAIN props : props[a].type = "object"}
<1>1. \A a, b : /\ Len(<<a>>) = 1 /\ <<a>>[1] = a
                /\ Len(<<a, b>>) = 2 /\ <<a, b>>[1] = a /\ <<a, b>>[2] = b
  OBVIOUS
<1>2. ASSUME NEW a
      PROVE  IsAt(payload, <<a>>) <=> a \in Members(payload)
  BY <1>1 DEF IsAt
<1>3. Fits(payload, schema) <=>
        /\ \A name \in schema.required : name \in Members(payload)
        /\ \A path \in Places(schema) :
             IsAt(payload, path) => Asks(FragmentAt(schema, path), ValueAt(payload, path))
  BY <1>2 DEF Fits, Asks
<1>4. \A path : path \in Places(schema) <=>
        \/ \E a \in DOMAIN props : path = <<a>>
        \/ \E a \in Nested : \E b \in DOMAIN props[a].properties : path = <<a, b>>
  BY DEF Places
<1>5. ASSUME NEW a
      PROVE  (IsAt(payload, <<a>>) => Asks(FragmentAt(schema, <<a>>), ValueAt(payload, <<a>>)))
               <=> At1(a)
  BY <1>1, <1>2 DEF FragmentAt, ValueAt
<1>6. ASSUME NEW a, NEW b
      PROVE  (IsAt(payload, <<a, b>>) => Asks(FragmentAt(schema, <<a, b>>), ValueAt(payload, <<a, b>>)))
               <=> At2(a, b)
  BY <1>1 DEF IsAt, FragmentAt, ValueAt
<1>7. Fits(payload, schema) <=>
        /\ \A name \in schema.required : name \in Members(payload)
        /\ \A a \in DOMAIN props : At1(a)
        /\ \A a \in Nested : \A b \in DOMAIN props[a].properties : At2(a, b)
  <2> DEFINE P(path) == IsAt(payload, path) => Asks(FragmentAt(schema, path), ValueAt(payload, path))
             places == Places(schema)
  <2>1. \A a : P(<<a>>) <=> At1(a)
    BY <1>5
  <2>2. \A a, b : P(<<a, b>>) <=> At2(a, b)
    BY <1>6
  <2>3. Fits(payload, schema) <=>
          /\ \A name \in schema.required : name \in Members(payload)
          /\ \A path \in places : P(path)
    BY <1>3
  <2> HIDE DEF At1, At2, Nested, props, P, places
  <2>4. \A path : path \in places <=>
          \/ \E a \in DOMAIN props : path = <<a>>
          \/ \E a \in Nested : \E b \in DOMAIN props[a].properties : path = <<a, b>>
    BY <1>4 DEF places
  <2>5. (\A path \in places : P(path)) <=>
          /\ \A a \in DOMAIN props : P(<<a>>)
          /\ \A a \in Nested : \A b \in DOMAIN props[a].properties : P(<<a, b>>)
    <3>1. ASSUME \A path \in places : P(path)
          PROVE  /\ \A a \in DOMAIN props : P(<<a>>)
                 /\ \A a \in Nested : \A b \in DOMAIN props[a].properties : P(<<a, b>>)
      <4>1. \A a \in DOMAIN props : <<a>> \in places
        BY <2>4
      <4>2. \A a \in Nested : \A b \in DOMAIN props[a].properties : <<a, b>> \in places
        BY <2>4
      <4>3. QED
        BY <3>1, <4>1, <4>2, Zenon
    <3>2. ASSUME \A a \in DOMAIN props : P(<<a>>),
                 \A a \in Nested : \A b \in DOMAIN props[a].properties : P(<<a, b>>),
                 NEW path \in places
          PROVE  P(path)
      <4>1. CASE \E a \in DOMAIN props : path = <<a>>
        BY <3>2, <4>1
      <4>2. CASE \E a \in Nested : \E b \in DOMAIN props[a].properties : path = <<a, b>>
        BY <3>2, <4>2
      <4>3. QED
        BY <2>4, <4>1, <4>2, Zenon
    <3>3. QED
      BY <3>1, <3>2, Zenon
  <2>6. QED
    BY <2>1, <2>2, <2>3, <2>5, Zenon
<1>8. ASSUME NEW a \in DOMAIN props \cap Members(payload)
      PROVE  ValueConforms(payload[2][a], props[a]) <=>
               /\ At1(a)
               /\ a \in Nested => \A b \in DOMAIN props[a].properties : At2(a, b)
  <2>1. IsFragment(props[a])
    OBVIOUS
  <2> DEFINE v == payload[2][a]
             s == props[a]
  <2>2. ValueConforms(v, s) <=>
           /\ Asks(s, v)
           /\ s.type = "object" /\ v[1] = "object" =>
                \A b \in DOMAIN s.properties \cap Members(v) :
                  Asks(s.properties[b], v[2][b])
    BY <2>1, ValueConformsMeans
  <2>3. QED
    BY <2>2
<1>9. PayloadConforms(payload, schema) <=>
        /\ \A name \in schema.required : name \in Members(payload)
        /\ \A a \in DOMAIN props \cap Members(payload) : ValueConforms(payload[2][a], props[a])
  BY DEF PayloadConforms
<1>10. \A a \in DOMAIN props \ Members(payload) : At1(a) /\ \A b : At2(a, b)
  OBVIOUS
<1>11. Nested \subseteq DOMAIN props
  OBVIOUS
<1>12. QED
  <2> HIDE DEF At1, At2, Nested, props
  <2>1. QED
    BY <1>7, <1>8, <1>9, <1>10, <1>11
-----------------------------------------------------------------------------
(* validateResumeAgainstPending.                                            *)

\* What a thread's records are.
ThreadRecords(pending) ==
  /\ IsSeq(pending)
  /\ \A i \in DOMAIN pending :
       /\ Expiry(pending[i].expires)
       /\ \A name \in DOMAIN pending[i].schema.properties :
            IsFragment(pending[i].schema.properties[name])

\* The rules for one entry and its record, and for a whole request.
EntryRules(e, r) ==
  /\ r.expires \notin {<<"at", n>> : n \in 0..now}
  /\ e.status \in {"resolved", "cancelled"}
  /\ e.status = "cancelled" => e.payload = Null
  /\ e.status = "resolved" => e.payload[1] = "object" /\ Fits(e.payload, r.schema)
Rules(resume, pending) ==
  LET ids == PendingIds(pending)
  IN  /\ Len(resume) = Cardinality(ids) /\ "" \notin ids
      /\ {resume[i].id : i \in DOMAIN resume} = ids
      /\ \A i \in DOMAIN resume : EntryRules(resume[i], RecordOf(pending, resume[i].id))

\* One entry.
LEMMA EntryValidMeans ==
  ASSUME NEW pending, ThreadRecords(pending), NEW id \in PendingIds(pending), NEW e, now \in Nat
  PROVE  EntryValid(e, RecordOf(pending, id)) <=> EntryRules(e, RecordOf(pending, id))
<1> DEFINE r == RecordOf(pending, id)
<1>1. PICK i \in DOMAIN pending : r = pending[i]
  BY RecordIsPending DEF ThreadRecords
<1>2. /\ Expiry(r.expires)
      /\ \A name \in DOMAIN r.schema.properties : IsFragment(r.schema.properties[name])
  BY <1>1 DEF ThreadRecords
<1> HIDE DEF r
<1>3. Expired(r) <=> r.expires \in {<<"at", n>> : n \in 0..now}
  BY <1>2, ExpiredMeans
<1>4. PayloadConforms(e.payload, r.schema) <=> Fits(e.payload, r.schema)
  <2> DEFINE schema == r.schema
  <2>1. \A name \in DOMAIN schema.properties : IsFragment(schema.properties[name])
    BY <1>2
  <2> HIDE DEF schema
  <2>2. PayloadConforms(e.payload, schema) <=> Fits(e.payload, schema)
    BY <2>1, FitsMeans
  <2>3. QED
    BY <2>2 DEF schema
<1>5. EntryValid(e, r) <=> EntryRules(e, r)
  BY <1>3, <1>4 DEF EntryValid, EntryRules
<1>6. QED
  BY <1>5 DEF r

\* The loop with its early returns and the rules say the same, for any request
\* on any thread.
LEMMA AcceptsMeans ==
  ASSUME NEW pending, ThreadRecords(pending), NEW resume, IsSeq(resume), now \in Nat
  PROVE  Accepts(resume, pending) <=> Rules(resume, pending)
<1> DEFINE ids == PendingIds(pending)
           rids == {resume[i].id : i \in DOMAIN resume}
<1>1. /\ Len(resume) \in Nat /\ DOMAIN resume = 1..Len(resume)
      /\ (resume = <<>> <=> DOMAIN resume = {}) /\ (resume = <<>> <=> Len(resume) = 0)
  BY Positions
<1>2. pending = <<>> <=> DOMAIN pending = {}
  BY Positions DEF ThreadRecords
<1>3. CASE pending = <<>>
  <2>1. ids = {} /\ Cardinality(ids) = 0
    BY <1>2, <1>3, FS_EmptySet DEF PendingIds
  <2>2. Rules(resume, pending) <=>
          /\ Len(resume) = Cardinality(ids) /\ "" \notin ids /\ rids = ids
          /\ \A i \in DOMAIN resume : EntryRules(resume[i], RecordOf(pending, resume[i].id))
    BY DEF Rules
  <2>3. Rules(resume, pending) => resume = <<>>
    BY <1>1, <2>1, <2>2
  <2>4. resume = <<>> => Rules(resume, pending)
    BY <1>1, <2>1, <2>2
  <2>5. QED
    BY <1>3, <2>3, <2>4 DEF Accepts
<1>4. CASE pending # <<>>
  <2>1. ids # {}
    BY <1>2, <1>4 DEF PendingIds
  <2>2. Len(resume) = Cardinality(rids) <=>
          \A i, j \in DOMAIN resume : resume[i].id = resume[j].id => i = j
    BY IdsCount
  <2>3. \A i \in DOMAIN resume : resume[i].id \in ids =>
          (EntryValid(resume[i], RecordOf(pending, resume[i].id)) <=>
           EntryRules(resume[i], RecordOf(pending, resume[i].id)))
    <3> TAKE i \in DOMAIN resume
    <3>1. QED
      BY EntryValidMeans
  <2>4. (\A i, j \in DOMAIN resume : resume[i].id = resume[j].id => i = j) <=>
          \A i \in DOMAIN resume : \A j \in 1..i-1 : resume[j].id # resume[i].id
    BY <1>1
  <2>5. ASSUME Accepts(resume, pending)
        PROVE  Rules(resume, pending)
    <3>1. AnswersAll(resume, pending)
      BY <1>4, <2>5 DEF Accepts
    <3>2. rids = ids /\ "" \notin ids
      BY <3>1 DEF AnswersAll
    <3>3. Len(resume) = Cardinality(ids)
      BY <2>2, <2>4, <3>1, <3>2 DEF AnswersAll
    <3>4. \A i \in DOMAIN resume : EntryRules(resume[i], RecordOf(pending, resume[i].id))
      BY <2>3, <3>1 DEF AnswersAll
    <3>5. QED
      BY <3>2, <3>3, <3>4 DEF Rules
  <2>6. ASSUME Rules(resume, pending)
        PROVE  Accepts(resume, pending)
    <3>1. rids = ids /\ "" \notin ids /\ Len(resume) = Cardinality(rids)
      BY <2>6 DEF Rules
    <3>2. \A i \in DOMAIN resume : \A j \in 1..i-1 : resume[j].id # resume[i].id
      BY <2>2, <2>4, <3>1
    <3>3. \A i \in DOMAIN resume : resume[i].id \in ids /\ resume[i].id # ""
      BY <3>1
    <3>4. \A i \in DOMAIN resume : EntryValid(resume[i], RecordOf(pending, resume[i].id))
      BY <2>3, <2>6, <3>3 DEF Rules
    <3>5. resume # <<>>
      BY <1>1, <2>1, <3>1
    <3>6. \A id \in PendingIds(pending) : \E i \in DOMAIN resume : resume[i].id = id
      BY <3>1
    <3>7. QED
      BY <1>4, <3>2, <3>3, <3>4, <3>5, <3>6 DEF Accepts, AnswersAll
  <2>7. QED
    BY <2>5, <2>6
<1>5. QED
  BY <1>3, <1>4

-----------------------------------------------------------------------------
(* The inductive invariant.                                                 *)

\* The case stays; each phase tells what was decided, from the case alone.
Decided ==
  /\ phase \in {"valid", "resumed", "error", "sent"} => Accepts(case.resume, case.pending)
  /\ phase = "refused" => ~Accepts(case.resume, case.pending)
AllMapped == \A i \in DOMAIN case.resume : Mapped(case.resume[i])
Converted ==
  /\ phase = "resumed" =>
       /\ case.resume # <<>> /\ AllMapped
       /\ content = [i \in DOMAIN case.resume |-> Response(case.resume[i])]
  /\ phase = "error" =>
       IF case.resume # <<>> THEN ~AllMapped ELSE "error" \in Range(LastTurn(case.messages))
  /\ phase = "sent" =>
       /\ case.resume = <<>> /\ "error" \notin Range(LastTurn(case.messages))
       /\ content = LastTurn(case.messages)
IInv ==
  /\ case \in Cases /\ now \in 0..MaxTime
  /\ phase \in {"received", "valid", "refused", "resumed", "error", "sent"}
  /\ Decided
  /\ Converted

\* The invariant holds at the start.
LEMMA InitInvariant == Init => IInv
BY ResumeBound DEF Init, IInv, Decided, Converted

\* The clock, the check and the mapping keep it: time moves only before the
\* check.
LEMMA NextInvariant == IInv /\ [Next]_vars => IInv'
<1> SUFFICES ASSUME IInv, [Next]_vars
             PROVE  IInv'
  OBVIOUS
<1> USE DEF IInv
<1>1. CASE Tick
  <2>1. now' \in 0..MaxTime /\ UNCHANGED <<case, phase, content>> /\ phase = "received"
    BY <1>1, ResumeBound DEF Tick
  <2>2. QED
    BY <2>1 DEF Decided, Converted
<1>2. CASE Validate
  <2>1. UNCHANGED <<case, now, content>>
    BY <1>2 DEF Validate
  <2>2. Accepts(case.resume, case.pending)' <=> Accepts(case.resume, case.pending)
    BY <2>1 DEF Accepts, AnswersAll, EntryValid, Expired
  <2>3. phase' \in {"valid", "refused"}
        /\ (phase' = "valid" <=> Accepts(case.resume, case.pending))
    BY <1>2 DEF Validate
  <2>4. Decided'
    BY <2>2, <2>3 DEF Decided
  <2>5. Converted'
    BY <2>3 DEF Converted
  <2>6. QED
    BY <2>1, <2>3, <2>4, <2>5
<1>3. CASE Convert
  <2>1. UNCHANGED <<case, now>> /\ phase = "valid"
    BY <1>3 DEF Convert
  <2>2. phase' \in {"resumed", "error", "sent"}
    BY <1>3 DEF Convert
  <2>3. Accepts(case.resume, case.pending)' <=> Accepts(case.resume, case.pending)
    BY <2>1 DEF Accepts, AnswersAll, EntryValid, Expired
  <2>4. Decided'
    BY <2>1, <2>2, <2>3 DEF Decided
  <2>5. Converted'
    <3>1. CASE case.resume # <<>> /\ AllMapped
      BY <1>3, <2>1, <3>1 DEF Convert, Converted, AllMapped
    <3>2. CASE case.resume # <<>> /\ ~AllMapped
      BY <1>3, <2>1, <3>2 DEF Convert, Converted, AllMapped
    <3>3. CASE case.resume = <<>>
      BY <1>3, <2>1, <3>3 DEF Convert, Converted, AllMapped
    <3>4. QED
      BY <3>1, <3>2, <3>3
  <2>6. QED
    BY <2>1, <2>2, <2>4, <2>5
<1>4. CASE UNCHANGED vars
  <2>1. UNCHANGED <<case, now, phase, content>>
    BY <1>4 DEF vars
  <2>2. Accepts(case.resume, case.pending)' <=> Accepts(case.resume, case.pending)
    BY <2>1 DEF Accepts, AnswersAll, EntryValid, Expired
  <2>3. Decided' /\ Converted'
    BY <2>1, <2>2 DEF Decided, Converted, AllMapped
  <2>4. QED
    BY <2>1, <2>3
<1>5. QED
  BY <1>1, <1>2, <1>3, <1>4 DEF Next

\* Every step keeps the invariant.
THEOREM Invariance == Spec => []IInv
BY InitInvariant, NextInvariant, PTL DEF Spec

\* The data of the case, in every state.
LEMMA CaseData ==
  ASSUME IInv
  PROVE  /\ ThreadRecords(case.pending) /\ IsSeq(case.resume) /\ IsSeq(case.messages)
         /\ now \in Nat
BY CaseType, ResumeBound DEF IInv, ThreadRecords

\* A request is refused exactly when it breaks a rule (agui/interrupt_state.go,
\* validateResumeAgainstPending): the early returns of the loop, the last record
\* of an id, the expiry and the walk through the schema let nothing slip, for
\* requests and threads of any size.
THEOREM RefusalIsExact == Spec => []RefusesExactlyTheRest
<1>1. IInv => RefusesExactlyTheRest
  <2> SUFFICES ASSUME IInv
               PROVE  RefusesExactlyTheRest
    OBVIOUS
  <2>1. Accepts(case.resume, case.pending) <=> Rules(case.resume, case.pending)
    BY CaseData, AcceptsMeans
  <2>2. phase # "received" => (phase # "refused" <=> Accepts(case.resume, case.pending))
    BY DEF IInv, Decided
  <2>3. phase # "received" => (phase # "refused" <=> Rules(case.resume, case.pending))
    BY <2>1, <2>2
  <2>4. QED
    BY <2>3 DEF RefusesExactlyTheRest, Rules, EntryRules
<1>2. QED
  BY <1>1, Invariance, PTL

-----------------------------------------------------------------------------
(* What the agent hears.                                                    *)

\* An answer that passes toolConfirmationResponseSchema can be mapped.
LEMMA SchemaMeansMapped ==
  ASSUME NEW e, NEW r, r.schema = ToolSchema, EntryValid(e, r), e.id # ""
  PROVE  Mapped(e)
<1>1. CASE e.status = "cancelled"
  BY <1>1 DEF Mapped
<1>2. CASE e.status = "resolved" /\ e.payload[1] = "object" /\ PayloadConforms(e.payload, ToolSchema)
  <2> DEFINE value == e.payload[2]["approved"]
             boolean == Fragment("boolean", <<>>, <<>>)
  <2>1. /\ "approved" \in ToolSchema.required
        /\ "approved" \in DOMAIN ToolSchema.properties
        /\ ToolSchema.properties["approved"] = boolean
    BY DEF ToolSchema, Schema
  <2>2. "approved" \in Members(e.payload)
    BY <1>2, <2>1 DEF PayloadConforms
  <2>3. ValueConforms(value, boolean)
    BY <1>2, <2>1, <2>2 DEF PayloadConforms
  <2>4. boolean.type = "boolean"
    BY DEF Fragment
  <2> HIDE DEF boolean, value
  <2>5. value[1] = "boolean"
    BY <2>3, <2>4 DEF ValueConforms, FlatConforms, TypeMatches
  <2>6. QED
    BY <1>2, <2>2, <2>5 DEF Mapped, value
<1>3. QED
  BY <1>1, <1>2 DEF EntryValid

\* The check and the mapping agree (validateResumeAgainstPending against
\* confirmationResponseFromResumeEntry): an answer to interrupts of emitInterrupt
\* that was accepted reaches the agent, once for each interrupt, for any number
\* of interrupts.
THEOREM AnswersArrive == Spec => []EveryAnswerArrives
<1>1. IInv => EveryAnswerArrives
  <2> SUFFICES ASSUME IInv, AllRaised, case.resume # <<>>, phase \in {"resumed", "error"}
               PROVE  /\ phase = "resumed"
                      /\ {content[i].id : i \in DOMAIN content} = PendingIds(case.pending)
                      /\ Len(content) = Cardinality(PendingIds(case.pending))
    BY DEF EveryAnswerArrives
  <2> DEFINE pending == case.pending
             resume == case.resume
  <2>1. Accepts(resume, pending)
    BY DEF IInv, Decided
  <2>2. Rules(resume, pending) /\ ThreadRecords(pending) /\ IsSeq(resume)
    BY <2>1, CaseData, AcceptsMeans
  <2>3. AnswersAll(resume, pending)
    BY <2>1 DEF Accepts
  <2>4. ASSUME NEW i \in DOMAIN resume
        PROVE  Mapped(resume[i])
    <3>1. /\ resume[i].id # "" /\ resume[i].id \in PendingIds(pending)
          /\ EntryValid(resume[i], RecordOf(pending, resume[i].id))
      BY <2>3, <2>4 DEF AnswersAll
    <3>2. RecordOf(pending, resume[i].id).schema = ToolSchema
      <4>1. \E k \in DOMAIN pending : RecordOf(pending, resume[i].id) = pending[k]
        BY <2>2, <3>1, RecordIsPending DEF ThreadRecords
      <4>2. \A k \in DOMAIN pending : pending[k].schema = ToolSchema
        BY DEF AllRaised, Raised
      <4>3. QED
        BY <4>1, <4>2
    <3>3. QED
      BY <3>1, <3>2, SchemaMeansMapped
  <2>5. phase = "resumed" /\ content = [i \in DOMAIN resume |-> Response(resume[i])]
    BY <2>4 DEF IInv, Converted, AllMapped
  <2>6. DOMAIN content = DOMAIN resume /\ \A i \in DOMAIN resume : content[i].id = resume[i].id
    BY <2>5 DEF Response
  <2>7. DOMAIN resume = 1..Len(resume) /\ Len(resume) \in Nat
    BY <2>2, Positions
  <2>8. Len(content) = Len(resume)
    <3> DEFINE n == Len(resume)
               F(i) == Response(resume[i])
    <3>1. content = [i \in 1..n |-> F(i)] /\ n \in Nat
      BY <2>5, <2>7
    <3> HIDE DEF n, F
    <3>2. Len(content) = n
      BY <3>1
    <3>3. QED
      BY <3>2 DEF n
  <2>9. {content[i].id : i \in DOMAIN content} = {resume[i].id : i \in DOMAIN resume}
    BY <2>6
  <2>10. QED
    BY <2>2, <2>5, <2>8, <2>9 DEF Rules
<1>2. QED
  BY <1>1, Invariance, PTL

\* The agent hears a confirmation only if the user approved that very interrupt,
\* and the edited arguments replace all others
\* (confirmationResponseFromResumeEntry, toolPayload in agui/resume.go).
THEOREM ConsentAlwaysExplicit == Spec => []ConsentIsExplicit
<1>1. IInv => ConsentIsExplicit
  <2> SUFFICES ASSUME IInv, phase = "resumed", NEW i \in DOMAIN content
               PROVE  \E j \in DOMAIN case.resume :
                        LET e == case.resume[j]
                        IN  /\ e.id = content[i].id
                            /\ content[i].confirmed => e.status = "resolved"
                                 /\ e.payload[2].approved = Bool(TRUE)
                            /\ e.status = "resolved" /\ "editedArgs" \in Members(e.payload) =>
                                 content[i].payload = e.payload[2].editedArgs
    BY DEF ConsentIsExplicit
  <2> DEFINE e == case.resume[i]
  <2>1. content = [j \in DOMAIN case.resume |-> Response(case.resume[j])]
    BY DEF IInv, Converted
  <2>2. i \in DOMAIN case.resume /\ content[i] = Response(e)
    BY <2>1
  <2> HIDE DEF e
  <2>3. /\ Response(e).id = e.id
        /\ Response(e).confirmed = Approved(e)
        /\ Response(e).payload = IF e.status = "cancelled" THEN Absent ELSE ToolPayload(e.payload)
    BY DEF Response
  <2>4. content[i].confirmed => e.status = "resolved" /\ e.payload[2].approved = Bool(TRUE)
    BY <2>2, <2>3 DEF Approved
  <2>5. e.status = "resolved" /\ "editedArgs" \in Members(e.payload) =>
          content[i].payload = e.payload[2].editedArgs
    BY <2>2, <2>3 DEF ToolPayload
  <2>6. QED
    BY <2>2, <2>3, <2>4, <2>5 DEF e
<1>2. QED
  BY <1>1, Invariance, PTL

\* A plain run sends the newest user turn whole, or nothing
\* (extractLastUserMessage in agui/agui.go), for histories of any length.
THEOREM NewestTurnIsSent == Spec => []NewestTurnOrNone
<1>1. IInv => NewestTurnOrNone
  <2> SUFFICES ASSUME IInv, phase = "sent"
               PROVE  \E i \in DOMAIN case.messages :
                        LET c == case.messages[i].content
                        IN  /\ \A j \in DOMAIN case.messages :
                                 j > i => case.messages[j].role # "user"
                            /\ case.messages[i].role = "user"
                            /\ Len(content) = IF c[1] = "parts" THEN Len(c[2]) ELSE 1
    BY DEF NewestTurnOrNone
  <2> DEFINE messages == case.messages
             turns == {i \in DOMAIN messages : messages[i].role = "user"}
  <2>1. content = LastTurn(messages) /\ "error" \notin Range(LastTurn(messages))
    BY DEF IInv, Converted
  <2>2. "error" \in Range(<<"error">>)
    BY DEF Range
  <2>3. turns # {}
    BY <2>1, <2>2 DEF LastTurn
  <2>4. Len(messages) \in Nat /\ DOMAIN messages = 1..Len(messages)
    BY CaseData, Positions
  <2>5. Max(turns) \in turns /\ \A j \in turns : j <= Max(turns)
    <3>1. turns \subseteq 1..Len(messages)
      BY <2>4
    <3> HIDE DEF turns, messages
    <3>2. QED
      BY <2>3, <2>4, <3>1, LastPosition
  <2> DEFINE m == Max(turns)
             c == messages[m].content
  <2>6. content = TurnOf(messages[m])
    BY <2>1, <2>3 DEF LastTurn
  <2>7. m \in DOMAIN messages /\ messages[m].role = "user"
    BY <2>5
  <2>8. \A j \in DOMAIN messages : j > m => messages[j].role # "user"
    <3> SUFFICES ASSUME NEW j \in DOMAIN messages, j > m, messages[j].role = "user"
                 PROVE  FALSE
      OBVIOUS
    <3>1. j \in turns
      OBVIOUS
    <3>2. j <= m /\ j \in Nat /\ m \in Nat
      <4> HIDE DEF turns
      <4>1. QED
        BY <2>4, <2>5, <2>7, <3>1
    <3> HIDE DEF m
    <3>3. QED
      BY <3>2
  <2>9. IsContent(c)
    <3>1. \A i \in DOMAIN case.messages : IsContent(case.messages[i].content)
      BY CaseType DEF IInv
    <3> HIDE DEF m
    <3>2. QED
      BY <2>7, <3>1
  <2>10. content = CASE c[1] = "parts" /\ c[2] # <<>> -> [i \in DOMAIN c[2] |-> InputPart(c[2][i])]
                     [] c[1] = "text" -> <<"text">>
                     [] OTHER -> <<"error">>
    BY <2>6 DEF TurnOf
  <2>0. "error" \notin Range(content)
    BY <2>1
  <2>11. Len(content) = IF c[1] = "parts" THEN Len(c[2]) ELSE 1
    <3> HIDE DEF c, m, turns, messages
    <3>1. CASE c[1] = "parts"
      <4> DEFINE parts == c[2]
                 n == Len(parts)
                 F(i) == InputPart(parts[i])
      <4>1. \A x \in {<<"text">>, <<"empty">>} : x[1] # "parts"
        OBVIOUS
      <4>2. IsSeq(parts)
        BY <2>9, <3>1, <4>1 DEF IsContent
      <4>3. DOMAIN parts = 1..n /\ n \in Nat
        <5> HIDE DEF parts
        <5>1. QED
          BY <4>2, Positions
      <4>4. content = [i \in 1..n |-> F(i)]
        <5>1. parts # <<>>
          <6>1. ASSUME parts = <<>>
                PROVE  content = <<"error">>
            BY <2>10, <3>1, <6>1
          <6>2. QED
            BY <2>0, <2>2, <6>1
        <5>2. QED
          BY <2>10, <3>1, <4>3, <5>1
      <4> HIDE DEF n, F, parts
      <4>5. Len(content) = n
        BY <4>3, <4>4
      <4>6. QED
        BY <3>1, <4>5 DEF n, parts
    <3>2. CASE c[1] # "parts"
      BY <2>10, <3>2
    <3>3. QED
      BY <3>1, <3>2
  <2>12. QED
    BY <2>7, <2>8, <2>11
<1>2. QED
  BY <1>1, Invariance, PTL

-----------------------------------------------------------------------------
(* A way out.                                                               *)

\* SetToSeq lists a finite set without doubles.
LEMMA SetToSeqLists ==
  ASSUME NEW S, IsFiniteSet(S)
  PROVE  LET s == SetToSeq(S)
             n == Cardinality(S)
         IN  /\ n \in Nat /\ s \in [1..n -> S]
             /\ \A i, j \in 1..n : s[i] = s[j] => i = j
             /\ \A x \in S : \E i \in 1..n : s[i] = x
<1> DEFINE n == Cardinality(S)
           s == SetToSeq(S)
<1>1. n \in Nat /\ ExistsBijection(1..n, S)
  BY FS_CardinalityType
<1>2. \E f \in [1..n -> S] : IsInjective(f)
  BY <1>1 DEF ExistsBijection, Bijection, Injection
<1>3. s \in [1..n -> S] /\ IsInjective(s)
  BY <1>2, Zenon DEF SetToSeq
<1>4. s \in Injection(1..n, S)
  BY <1>3 DEF Injection
<1>5. IsFiniteSet(1..n) /\ Cardinality(1..n) = n
  <2> HIDE DEF n
  <2>1. 1 \in Int /\ n \in Int
    BY <1>1
  <2>2. IsFiniteSet(1..n) /\ Cardinality(1..n) = IF 1 > n THEN 0 ELSE n - 1 + 1
    BY <2>1, FS_Interval
  <2>3. QED
    BY <1>1, <2>2
<1>6. s \in Surjection(1..n, S)
  BY <1>4, <1>5, FS_Injection
<1>7. \A i, j \in 1..n : s[i] = s[j] => i = j
  BY <1>3 DEF IsInjective
<1>8. \A x \in S : \E i \in 1..n : s[i] = x
  BY <1>6 DEF Surjection
<1>9. QED
  BY <1>1, <1>3, <1>7, <1>8

\* The approval with edited arguments fits toolConfirmationResponseSchema.
LEMMA ApprovalConforms ==
  PayloadConforms(Object([approved |-> Bool(TRUE), editedArgs |-> Object(<<>>)]), ToolSchema)
<1> DEFINE f == [approved |-> Bool(TRUE), editedArgs |-> Object(<<>>)]
           payload == Object(f)
           boolean == Fragment("boolean", <<>>, <<>>)
           object == Fragment("object", <<>>, <<>>)
<1>1. payload[2] = f /\ DOMAIN f = {"approved", "editedArgs"}
      /\ f["approved"] = Bool(TRUE) /\ f["editedArgs"] = Object(<<>>)
  BY DEF Object
<1>2. /\ ToolSchema.required = {"approved"}
      /\ DOMAIN ToolSchema.properties = {"approved", "editedArgs"}
      /\ ToolSchema.properties["approved"] = boolean
      /\ ToolSchema.properties["editedArgs"] = object
  BY DEF ToolSchema, Schema
<1>3. Bool(TRUE) # Absent
  BY DEF Bool, Absent
<1>4. "approved" \in Members(payload)
  <2> HIDE DEF f, payload
  <2>1. QED
    BY <1>1, <1>3 DEF Members
<1>5. /\ boolean.type = "boolean" /\ boolean.enum = <<>>
      /\ object.type = "object" /\ object.enum = <<>> /\ object.properties = <<>>
  BY DEF Fragment
<1>6. Bool(TRUE)[1] = "boolean" /\ Object(<<>>)[1] = "object"
  BY DEF Bool, Object
<1>7. ValueConforms(Bool(TRUE), boolean)
  <2> HIDE DEF boolean
  <2>1. QED
    BY <1>5, <1>6 DEF ValueConforms, FlatConforms, TypeMatches
<1>8. ValueConforms(Object(<<>>), object)
  <2> HIDE DEF object
  <2>1. DOMAIN object.properties = {}
    BY <1>5
  <2>2. QED
    BY <1>5, <1>6, <2>1 DEF ValueConforms, FlatConforms, TypeMatches
<1>9. QED
  <2> HIDE DEF f, payload, boolean, object
  <2>1. PayloadConforms(payload, ToolSchema)
    BY <1>1, <1>2, <1>4, <1>7, <1>8 DEF PayloadConforms
  <2>2. QED
    BY <2>1 DEF f, payload

\* One valid answer for each open interrupt is accepted.
LEMMA OneEachIsAccepted ==
  ASSUME NEW pending, ThreadRecords(pending),
         \A i \in DOMAIN pending : Raised(pending[i]),
         NEW status, NEW payload,
         \A id \in PendingIds(pending) :
           EntryValid([id |-> id, status |-> status, payload |-> payload], RecordOf(pending, id))
  PROVE  LET ids == SetToSeq(PendingIds(pending))
         IN  Accepts([i \in DOMAIN ids |-> [id |-> ids[i], status |-> status, payload |-> payload]],
                     pending)
<1> DEFINE P == PendingIds(pending)
           ids == SetToSeq(P)
           n == Cardinality(P)
           entry(id) == [id |-> id, status |-> status, payload |-> payload]
           resume == [i \in DOMAIN ids |-> entry(ids[i])]
<1>1. IsFiniteSet(P)
  BY IdsCount DEF PendingIds, ThreadRecords
<1>2. /\ n \in Nat /\ ids \in [1..n -> P]
      /\ \A i, j \in 1..n : ids[i] = ids[j] => i = j
      /\ \A x \in P : \E i \in 1..n : ids[i] = x
  BY <1>1, SetToSeqLists
<1>3. pending = <<>> <=> P = {}
  <2>1. pending = <<>> <=> DOMAIN pending = {}
    BY Positions DEF ThreadRecords
  <2>2. QED
    BY <2>1 DEF PendingIds
<1>4. "" \notin P
  BY DEF PendingIds, Raised
<1>5. \A id \in P : EntryValid(entry(id), RecordOf(pending, id)) /\ entry(id).id = id
  OBVIOUS
<1> HIDE DEF P, ids, n, entry
<1>6. DOMAIN resume = 1..n /\ \A i \in 1..n : resume[i] = entry(ids[i]) /\ ids[i] \in P
  BY <1>2
<1> HIDE DEF resume
<1>7. Accepts(resume, pending)
  <2>1. CASE pending = <<>>
    <3>1. n = 0
      BY <1>2, <1>3, <2>1, FS_EmptySet DEF n
    <3>2. resume = <<>>
      <4>1. DOMAIN ids = {}
        BY <1>2, <3>1
      <4>2. QED
        BY <4>1 DEF resume
    <3>3. QED
      BY <2>1, <3>2 DEF Accepts
  <2>2. CASE pending # <<>>
    <3>1. resume # <<>>
      BY <1>2, <1>3, <1>6, <2>2
    <3>2. ASSUME NEW i \in DOMAIN resume
          PROVE  /\ resume[i].id # ""
                 /\ \A j \in 1..i-1 : resume[j].id # resume[i].id
                 /\ resume[i].id \in PendingIds(pending)
                 /\ EntryValid(resume[i], RecordOf(pending, resume[i].id))
      <4>1. resume[i] = entry(ids[i]) /\ ids[i] \in P /\ resume[i].id = ids[i]
        BY <1>5, <1>6
      <4>2. \A j \in 1..i-1 : resume[j].id = ids[j] /\ j \in 1..n /\ j # i
        BY <1>2, <1>5, <1>6
      <4>3. \A j \in 1..i-1 : resume[j].id # resume[i].id
        BY <1>2, <1>6, <4>1, <4>2
      <4>4. resume[i].id # "" /\ resume[i].id \in PendingIds(pending)
        BY <1>4, <4>1 DEF P
      <4>5. EntryValid(resume[i], RecordOf(pending, resume[i].id))
        BY <1>5, <4>1
      <4>6. QED
        BY <4>3, <4>4, <4>5
    <3>3. \A id \in PendingIds(pending) : \E i \in DOMAIN resume : resume[i].id = id
      BY <1>2, <1>5, <1>6 DEF P
    <3>4. QED
      BY <2>2, <3>1, <3>2, <3>3 DEF Accepts, AnswersAll
  <2>3. QED
    BY <2>1, <2>2
<1>8. QED
  BY <1>7 DEF resume, entry, ids, P

\* Interrupts of emitInterrupt never lock a thread: to cancel all and to approve
\* all with edited arguments is accepted (validateResumeAgainstPending against
\* emitInterrupt), for any number of interrupts, ids told twice included.
THEOREM ThreadNeverStuck == Spec => []NeverStuck
<1>1. IInv => NeverStuck
  <2> SUFFICES ASSUME IInv, AllRaised
               PROVE  NeverStuck
    BY DEF NeverStuck
  <2> DEFINE pending == case.pending
             approval == Object([approved |-> Bool(TRUE), editedArgs |-> Object(<<>>)])
  <2>1. ThreadRecords(pending) /\ \A i \in DOMAIN pending : Raised(pending[i])
    BY CaseData DEF AllRaised
  <2>2. ASSUME NEW id \in PendingIds(pending)
        PROVE  /\ EntryValid([id |-> id, status |-> "cancelled", payload |-> Null],
                             RecordOf(pending, id))
               /\ EntryValid([id |-> id, status |-> "resolved", payload |-> approval],
                             RecordOf(pending, id))
    <3> DEFINE r == RecordOf(pending, id)
    <3>1. \E k \in DOMAIN pending : r = pending[k]
      BY <2>1, RecordIsPending DEF ThreadRecords
    <3>2. Raised(r)
      BY <2>1, <3>1
    <3> HIDE DEF r
    <3>3. r.schema = ToolSchema /\ ~Expired(r)
      <4>1. r.schema = ToolSchema /\ r.expires = <<"none">>
        BY <3>2 DEF Raised
      <4>2. r.expires[1] = "none"
        BY <4>1
      <4>3. QED
        BY <4>1, <4>2 DEF Expired
    <3>4. approval[1] = "object" /\ PayloadConforms(approval, ToolSchema)
      BY ApprovalConforms DEF Object
    <3> HIDE DEF approval
    <3>5. QED
      BY <3>3, <3>4 DEF EntryValid, r
  <2> HIDE DEF approval
  <2> DEFINE ids == SetToSeq(PendingIds(pending))
             All(status, payload) ==
               [i \in DOMAIN ids |-> [id |-> ids[i], status |-> status, payload |-> payload]]
  <2>3. Accepts(All("cancelled", Null), pending)
    BY <2>1, <2>2, OneEachIsAccepted
  <2>4. Accepts(All("resolved", approval), pending)
    BY <2>1, <2>2, OneEachIsAccepted
  <2>5. QED
    BY <2>3, <2>4 DEF NeverStuck, approval
<1>2. QED
  BY <1>1, Invariance, PTL

=============================================================================
