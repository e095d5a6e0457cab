---------------------------- MODULE Stream_proof ----------------------------
(***************************************************************************)
(* Theorems about Stream: its types, that a handler that returned has ended *)
(* the run, and that it implements AGUIProtocol, whatever the agent yields, *)
(* wherever an emit fails and whichever Unobtrusive converter and hooks the *)
(* application adds.                                                        *)
(*                                                                          *)
(* The events in the outbox are a script: what the client will read, unless *)
(* an emit fails.  The invariant says that the client can read all of it,   *)
(* and that the client it then is agrees with streamState.                  *)
(***************************************************************************)
EXTENDS Stream, SequenceTheorems, TLAPS

PEvent == Protocol!Event
PClient == Protocol!Client

-----------------------------------------------------------------------------
(* Scripts.                                                                 *)

\* f is the client before and after each event of script s.
Reading(c, s, d, f) ==
  /\ s \in Seq(PEvent)
  /\ f \in [0..Len(s) -> PClient]
  /\ f[0] = c
  /\ f[Len(s)] = d
  /\ \A i \in 1..Len(s) : Protocol!Allowed(f[i - 1], s[i]) /\ f[i] = Protocol!Reads(f[i - 1], s[i])

\* Client c can read script s and is client d then.
Plays(c, s, d) == \E f : Reading(c, s, d, f)

\* A script of no event.
LEMMA EmptyPlays ==
  ASSUME NEW c \in PClient
  PROVE  Plays(c, <<>>, c)
<1>1. Reading(c, <<>>, c, [i \in 0..0 |-> c])
  BY DEF Reading
<1>2. QED
  BY <1>1 DEF Plays

\* What an empty script does.
LEMMA PlaysNothing ==
  ASSUME NEW c, NEW d, Plays(c, <<>>, d)
  PROVE  c = d
BY DEF Plays, Reading

\* A script of one event.
LEMMA OnePlays ==
  ASSUME NEW c \in PClient, NEW e \in PEvent, Protocol!Allowed(c, e), Protocol!Reads(c, e) \in PClient
  PROVE  Plays(c, <<e>>, Protocol!Reads(c, e))
<1> DEFINE f == [i \in 0..1 |-> IF i = 0 THEN c ELSE Protocol!Reads(c, e)]
<1>1. /\ <<e>> \in Seq(PEvent) /\ Len(<<e>>) = 1 /\ <<e>>[1] = e
      /\ f \in [0..1 -> PClient] /\ f[0] = c /\ f[1] = Protocol!Reads(c, e)
  OBVIOUS
<1>2. Reading(c, <<e>>, Protocol!Reads(c, e), f)
  <2> HIDE DEF f
  <2>1. 1..1 = {1} /\ 1 - 1 = 0
    OBVIOUS
  <2>2. QED
    BY <1>1, <2>1 DEF Reading
<1>3. QED
  BY <1>2 DEF Plays

\* One script after the other.
LEMMA BothPlay ==
  ASSUME NEW c, NEW s, NEW d, NEW t, NEW e, Plays(c, s, d), Plays(d, t, e)
  PROVE  Plays(c, s \o t, e)
<1>1. PICK f : Reading(c, s, d, f)
  BY DEF Plays
<1>2. PICK g : Reading(d, t, e, g)
  BY DEF Plays
<1> DEFINE m == Len(s)
           n == Len(t)
           h == [i \in 0..(m + n) |-> IF i <= m THEN f[i] ELSE g[i - m]]
<1>3. /\ s \in Seq(PEvent) /\ t \in Seq(PEvent) /\ m \in Nat /\ n \in Nat
      /\ s \o t \in Seq(PEvent) /\ Len(s \o t) = m + n
      /\ \A i \in 1..(m + n) : (s \o t)[i] = IF i <= m THEN s[i] ELSE t[i - m]
  BY <1>1, <1>2 DEF Reading
<1>4. /\ f \in [0..m -> PClient] /\ f[0] = c /\ f[m] = d
      /\ g \in [0..n -> PClient] /\ g[0] = d /\ g[n] = e
  BY <1>1, <1>2 DEF Reading
<1>5. /\ h \in [0..(m + n) -> PClient]
      /\ \A i \in 0..m : h[i] = f[i]
      /\ \A i \in 0..n : h[m + i] = g[i]
  <2> HIDE DEF m, n
  <2>1. QED
    BY <1>3, <1>4
<1>6. ASSUME NEW i \in 1..(m + n)
      PROVE  /\ Protocol!Allowed(h[i - 1], (s \o t)[i])
             /\ h[i] = Protocol!Reads(h[i - 1], (s \o t)[i])
  <2>1. CASE i <= m
    <3>1. /\ i \in 1..m /\ i \in 0..m /\ i - 1 \in 0..m
          /\ (s \o t)[i] = s[i]
      BY <2>1, <1>3
    <3>2. h[i] = f[i] /\ h[i - 1] = f[i - 1]
      BY <3>1, <1>5
    <3>3. Protocol!Allowed(f[i - 1], s[i]) /\ f[i] = Protocol!Reads(f[i - 1], s[i])
      BY <3>1, <1>1 DEF Reading
    <3>4. QED
      BY <3>1, <3>2, <3>3
  <2>2. CASE i > m
    <3>1. PICK j \in 1..n : i = m + j
      <4>1. i - m \in 1..n /\ i = m + (i - m)
        BY <2>2, <1>3
      <4>2. QED
        BY <4>1
    <3>2. /\ j \in 0..n /\ j - 1 \in 0..n /\ i - 1 = m + (j - 1)
          /\ (s \o t)[i] = t[j]
      BY <3>1, <2>2, <1>3
    <3>3. h[i] = g[j] /\ h[i - 1] = g[j - 1]
      BY <3>1, <3>2, <1>5
    <3>4. Protocol!Allowed(g[j - 1], t[j]) /\ g[j] = Protocol!Reads(g[j - 1], t[j])
      BY <3>1, <1>2 DEF Reading
    <3>5. QED
      BY <3>2, <3>3, <3>4
  <2>3. QED
    BY <2>1, <2>2, <1>3
<1>7. Reading(c, s \o t, e, h)
  <2>1. h[0] = c /\ h[m + n] = e
    BY <1>3, <1>4, <1>5
  <2> HIDE DEF h, m, n
  <2>2. QED
    BY <2>1, <1>3, <1>5, <1>6 DEF Reading
<1>8. QED
  BY <1>7 DEF Plays

\* The first event of a script, and the rest.
LEMMA HeadPlays ==
  ASSUME NEW c, NEW s, NEW d, Plays(c, s, d), s # <<>>
  PROVE  /\ s \in Seq(PEvent) /\ Head(s) \in PEvent
         /\ Protocol!Allowed(c, Head(s))
         /\ Plays(Protocol!Reads(c, Head(s)), Tail(s), d)
<1>1. PICK f : Reading(c, s, d, f)
  BY DEF Plays
<1> DEFINE g == [i \in 0..(Len(s) - 1) |-> f[i + 1]]
<1>2. s \in Seq(PEvent) /\ Len(s) \in Nat /\ Len(s) > 0 /\ Head(s) = s[1] /\ s[1] \in PEvent
  BY <1>1 DEF Reading
<1>3. /\ Tail(s) \in Seq(PEvent) /\ Len(Tail(s)) = Len(s) - 1
      /\ \A i \in 1..(Len(s) - 1) : Tail(s)[i] = s[i + 1]
  BY <1>2
<1>4. Protocol!Allowed(c, Head(s)) /\ f[1] = Protocol!Reads(c, Head(s))
  BY <1>1, <1>2 DEF Reading
<1>5. Reading(f[1], Tail(s), d, g)
  <2>1. f \in [0..Len(s) -> PClient] /\ f[Len(s)] = d
    BY <1>1 DEF Reading
  <2>2. g \in [0..(Len(s) - 1) -> PClient] /\ g[0] = f[1] /\ g[Len(s) - 1] = d
    BY <2>1, <1>2
  <2>3. ASSUME NEW i \in 1..(Len(s) - 1)
        PROVE  /\ Protocol!Allowed(g[i - 1], Tail(s)[i])
               /\ g[i] = Protocol!Reads(g[i - 1], Tail(s)[i])
    <3>1. /\ i + 1 \in 1..Len(s) /\ (i + 1) - 1 = i /\ i \in 0..(Len(s) - 1)
          /\ i - 1 \in 0..(Len(s) - 1) /\ (i - 1) + 1 = i
      BY <1>2
    <3>2. g[i] = f[i + 1] /\ g[i - 1] = f[i] /\ Tail(s)[i] = s[i + 1]
      BY <3>1, <1>3
    <3>3. Protocol!Allowed(f[i], s[i + 1]) /\ f[i + 1] = Protocol!Reads(f[i], s[i + 1])
      BY <3>1, <1>1 DEF Reading
    <3>4. QED
      BY <3>2, <3>3
  <2> HIDE DEF g
  <2>4. QED
    BY <2>2, <2>3, <1>3 DEF Reading
<1>6. QED
  BY <1>2, <1>4, <1>5 DEF Plays

-----------------------------------------------------------------------------
(* What the client holds open is what streamState says.                     *)

\* Client c agrees with streamState s after n parts.
Agrees(c, s, n) ==
  /\ c.status = "running" /\ c.tool = 0
  /\ c.text = s.text /\ c.phase = s.phase /\ c.message = s.message /\ c.step = s.step
  /\ s.last \in c.closed \cup {0}
  /\ c.closed \subseteq 1..n /\ s.text <= n
  /\ s.text = 0 \/ s.phase = 0
  /\ s.phase = 0 <=> s.message = 0
  /\ s.final = FALSE

\* The client reads one event, of a kind that is not terminal.
LEMMA EventType ==
  ASSUME NEW k \in {"StepStarted", "StepFinished", "TextMessageStart", "TextMessageContent",
                    "TextMessageEnd", "ReasoningStart", "ReasoningMessageStart",
                    "ReasoningMessageContent", "ReasoningMessageEnd", "ReasoningEnd",
                    "ToolCallStart", "ToolCallArgs", "ToolCallEnd", "RunStarted",
                    "RunFinished", "RunError"} \cup Protocol!Standalone,
         NEW i \in Ids \cup {0},
         NEW o \in (Authors \ {Root}) \cup {NoAuthor} \cup Ids \cup {0}
  PROVE  Event(k, i, o) \in PEvent
BY DEF Event, PEvent, Protocol!Event, Protocol!Standalone, Protocol!Terminal

\* closeOpenText.
LEMMA CloseTextPlays ==
  ASSUME NEW s \in StreamState, NEW c \in PClient, NEW n \in 0..MaxParts, Agrees(c, s, n)
  PROVE  /\ TextClosed(s) \in StreamState
         /\ \E d \in PClient : Plays(c, CloseText(s), d) /\ Agrees(d, TextClosed(s), n)
<1>1. TextClosed(s) \in StreamState
  BY DEF TextClosed, StreamState
<1>2. CASE s.text = 0
  BY <1>2, EmptyPlays DEF CloseText, TextClosed
<1>3. CASE s.text # 0
  <2> DEFINE e == Event("TextMessageEnd", s.text, 0)
             d == [c EXCEPT !.text = 0, !.closed = @ \cup {s.text}]
  <2>1. e \in PEvent
    BY EventType DEF StreamState
  <2>2. Protocol!Allowed(c, e)
    BY <1>3 DEF Agrees, Event, Protocol!Allowed
  <2>3. Protocol!Reads(c, e) = d
    BY DEF Event, Protocol!Reads, Protocol!Terminal
  <2>4. d \in PClient
    BY <1>3 DEF PClient, Protocol!Client, StreamState
  <2>5. Agrees(d, TextClosed(s), n)
    BY <1>3, StreamBounds DEF Agrees, TextClosed, StreamState, PClient, Protocol!Client, Ids
  <2>6. Plays(c, <<e>>, d)
    BY <2>1, <2>2, <2>3, <2>4, OnePlays
  <2>7. QED
    BY <1>1, <1>3, <2>4, <2>5, <2>6 DEF CloseText
<1>4. QED
  BY <1>1, <1>2, <1>3

\* closeReasoning, for the phase and the message that are open or not together.
LEMMA CloseReasoningPlays ==
  ASSUME NEW s \in StreamState, NEW c \in PClient, NEW n \in 0..MaxParts, Agrees(c, s, n)
  PROVE  /\ ReasoningClosed(s) \in StreamState
         /\ \E d \in PClient : Plays(c, CloseReasoning(s), d) /\ Agrees(d, ReasoningClosed(s), n)
<1>1. ReasoningClosed(s) \in StreamState
  <2>1. 0 \in 0..MaxThought
    BY StreamBounds
  <2>2. QED
    BY <2>1 DEF ReasoningClosed, StreamState
<1>2. CASE s.phase = 0
  <2>1. s.message = 0
    BY <1>2 DEF Agrees
  <2>2. CloseReasoning(s) = <<>>
    BY <1>2, <2>1 DEF CloseReasoning
  <2>3. Agrees(c, ReasoningClosed(s), n)
    BY <1>2, <2>1 DEF Agrees, ReasoningClosed, StreamState
  <2>4. QED
    BY <1>1, <2>2, <2>3, EmptyPlays
<1>3. CASE s.phase # 0
  <2> DEFINE e == Event("ReasoningMessageEnd", s.message, 0)
             m == [c EXCEPT !.message = 0]
             g == Event("ReasoningEnd", s.phase, 0)
             d == [m EXCEPT !.phase = 0]
  <2>1. s.message # 0
    BY <1>3 DEF Agrees
  <2>2. e \in PEvent /\ g \in PEvent
    BY EventType DEF StreamState
  <2>3. Protocol!Allowed(c, e) /\ Protocol!Allowed(m, g)
    <3>1. Protocol!Allowed(c, e)
      BY <2>1 DEF Agrees, Event, Protocol!Allowed
    <3>2. Protocol!Allowed(m, g)
      BY <1>3 DEF Agrees, Event, Protocol!Allowed, PClient, Protocol!Client
    <3>3. QED
      BY <3>1, <3>2
  <2>4. Protocol!Reads(c, e) = m /\ Protocol!Reads(m, g) = d
    BY DEF Event, Protocol!Reads, Protocol!Terminal
  <2>5. m \in PClient /\ d \in PClient
    BY DEF PClient, Protocol!Client
  <2>6. Agrees(d, ReasoningClosed(s), n)
    BY <1>3 DEF Agrees, ReasoningClosed, StreamState, PClient, Protocol!Client
  <2>7. Plays(c, <<e>>, m) /\ Plays(m, <<g>>, d)
    BY <2>2, <2>3, <2>4, <2>5, OnePlays
  <2>8. CloseReasoning(s) = <<e>> \o <<g>>
    BY <1>3, <2>1 DEF CloseReasoning
  <2>9. QED
    BY <1>1, <2>5, <2>6, <2>7, <2>8, BothPlay
<1>4. QED
  BY <1>2, <1>3

\* closeStep.
LEMMA CloseStepPlays ==
  ASSUME NEW s \in StreamState, NEW c \in PClient, NEW n \in 0..MaxParts, Agrees(c, s, n)
  PROVE  /\ StepClosed(s) \in StreamState
         /\ \E d \in PClient : Plays(c, CloseStep(s), d) /\ Agrees(d, StepClosed(s), n)
<1>1. StepClosed(s) \in StreamState
  BY DEF StepClosed, StreamState
<1>2. CASE s.step = NoAuthor
  <2>1. StepClosed(s) = s
    BY <1>2 DEF StepClosed, StreamState
  <2>2. QED
    BY <1>1, <1>2, <2>1, EmptyPlays DEF CloseStep
<1>3. CASE s.step # NoAuthor
  <2> DEFINE e == Event("StepFinished", 0, s.step)
             d == [c EXCEPT !.step = NoAuthor]
  <2>1. s.step \in Authors \ {Root}
    BY <1>3 DEF Agrees, PClient, Protocol!Client
  <2>2. e \in PEvent
    BY <2>1, EventType
  <2>3. Protocol!Allowed(c, e)
    BY <1>3 DEF Agrees, Event, Protocol!Allowed
  <2>4. Protocol!Reads(c, e) = d
    BY DEF Event, Protocol!Reads, Protocol!Terminal, Agrees, PClient, Protocol!Client
  <2>5. d \in PClient
    BY DEF PClient, Protocol!Client
  <2>6. Agrees(d, StepClosed(s), n)
    BY DEF Agrees, StepClosed, StreamState, PClient, Protocol!Client
  <2>7. Plays(c, <<e>>, d)
    BY <2>2, <2>3, <2>4, <2>5, OnePlays
  <2>8. QED
    BY <1>1, <1>3, <2>5, <2>6, <2>7 DEF CloseStep
<1>4. QED
  BY <1>2, <1>3

\* finalizeLifecycle.
LEMMA FinalizePlays ==
  ASSUME NEW s \in StreamState, NEW c \in PClient, NEW n \in 0..MaxParts, Agrees(c, s, n)
  PROVE  /\ Finalized(s) \in StreamState
         /\ \E d \in PClient : Plays(c, Finalize(s), d) /\ Agrees(d, Finalized(s), n)
<1> DEFINE t == TextClosed(s)
           r == ReasoningClosed(t)
<1>1. PICK c1 \in PClient : t \in StreamState /\ Plays(c, CloseText(s), c1) /\ Agrees(c1, t, n)
  BY CloseTextPlays
<1>2. PICK c2 \in PClient : r \in StreamState /\ Plays(c1, CloseReasoning(t), c2) /\ Agrees(c2, r, n)
  BY <1>1, CloseReasoningPlays
<1>3. PICK d \in PClient : StepClosed(r) \in StreamState /\ Plays(c2, CloseStep(r), d)
                           /\ Agrees(d, StepClosed(r), n)
  BY <1>2, CloseStepPlays
<1>4. CloseReasoning(t) = CloseReasoning(s) /\ CloseStep(r) = CloseStep(s)
  BY DEF CloseReasoning, CloseStep, TextClosed, ReasoningClosed, StreamState
<1>5. Plays(c, Finalize(s), d)
  BY <1>1, <1>2, <1>3, <1>4, BothPlay DEF Finalize
<1>6. QED
  BY <1>3, <1>5 DEF Finalized

-----------------------------------------------------------------------------
(* Types.                                                                   *)

\* What is not on the wire.
Locals ==
  /\ pc \in {"preamble", "loop", "parts", "finish", "done"}
  /\ st \in StreamState
  /\ cur \in [author : Authors \cup {NoAuthor}, partial : BOOLEAN]
  /\ parts \in 0..MaxParts
  /\ broken \in BOOLEAN
  /\ voice \in [Authors -> 0..MaxThought]
  /\ told \in [Authors -> Nat]
  /\ order \in Voices

\* The closing helpers leave a streamState.
LEMMA ClosedType ==
  ASSUME NEW s \in StreamState
  PROVE  /\ TextClosed(s) \in StreamState /\ ReasoningClosed(s) \in StreamState
         /\ StepClosed(s) \in StreamState /\ Finalized(s) \in StreamState
         /\ [s EXCEPT !.final = TRUE] \in StreamState
<1>1. \A r \in StreamState : ReasoningClosed(r) \in StreamState
  <2>1. 0 \in 0..MaxThought
    BY StreamBounds
  <2>2. QED
    BY <2>1 DEF ReasoningClosed, StreamState
<1>2. \A r \in StreamState : StepClosed(r) \in StreamState
  BY DEF StepClosed, StreamState
<1>3. TextClosed(s) \in StreamState
  BY DEF TextClosed, StreamState
<1>4. [s EXCEPT !.final = TRUE] \in StreamState
  BY DEF StreamState
<1>5. QED
  BY <1>1, <1>2, <1>3, <1>4 DEF Finalized

\* The end of a thought.
LEMMA ThoughtOverType ==
  ASSUME Locals, NEW a, ThoughtOver(a)
  PROVE  /\ voice' \in [Authors -> 0..MaxThought] /\ told' \in [Authors -> Nat]
         /\ order' \in Voices
<1>1. 0 \in 0..MaxThought
  BY StreamBounds
<1>2. QED
  BY <1>1 DEF Locals, ThoughtOver

\* Every step of the handler keeps the types of its locals.
LEMMA HandleType ==
  ASSUME Locals, Handle
  PROVE  Locals'
<1> USE DEF Locals
<1>1. ASSUME NEW e, NEW s \in StreamState, SendError(e, s)
      PROVE  pc' = "finish" /\ st' \in StreamState
  BY <1>1, ClosedType DEF SendError
<1>2. CASE LeaveUnstarted \/ StartRun \/ AgentEnds
  BY <1>2 DEF LeaveUnstarted, StartRun, AgentEnds, agent
<1>3. CASE RefuseRun
  BY <1>3, ClosedType DEF RefuseRun, agent
<1>4. CASE NextEvent
  <2>1. PICK a \in Authors \cup {NoAuthor}, partial \in BOOLEAN :
          cur' = [author |-> a, partial |-> partial] /\ st' = StepChanged(a)
    BY <1>4 DEF NextEvent
  <2>2. st' \in StreamState
    BY <2>1 DEF StepChanged, StreamState
  <2>3. QED
    BY <1>4, <2>1, <2>2 DEF NextEvent, agent
<1>5. CASE AgentFails \/ StopBroken \/ StopAfterTail
  BY <1>1, <1>5 DEF AgentFails, StopBroken, StopAfterTail, agent
<1>6. ASSUME Part
      PROVE  parts' \in 0..MaxParts /\ NewId \in Ids /\ cur' = cur /\ broken' = broken /\ pc = "parts"
  BY <1>6, StreamBounds DEF Part, NewId, Ids, Ready
<1>7. CASE Converted \/ FunctionResponse
  BY <1>6, <1>7 DEF Converted, FunctionResponse, agent
<1>8. CASE PartFails
  BY <1>1, <1>6, <1>8 DEF PartFails, agent
<1>9. CASE Thought
  <2> DEFINE phase == IF st.phase = 0 THEN NewId ELSE st.phase
             message == IF st.message = 0 THEN NewId ELSE st.message
  <2>1. PICK len \in 1..MaxThought :
          /\ voice' = [voice EXCEPT ![cur.author] = len]
          /\ IF len <= st.rlen
             THEN UNCHANGED <<st, told>>
             ELSE /\ st' = [TextClosed(st) EXCEPT !.rlen = len, !.phase = phase, !.message = message]
                  /\ told' = [told EXCEPT ![cur.author] = @ + (len - st.rlen)]
    BY <1>9 DEF Thought, Emitted
  <2>2. cur.author \in Authors /\ st.rlen \in Nat /\ len \in Nat /\ len \in 0..MaxThought
    BY <1>9, StreamBounds DEF Thought, StreamState
  <2>3. phase \in Ids /\ message \in Ids
    BY <1>6, <1>9 DEF Thought, StreamState
  <2> HIDE DEF phase, message
  <2>4. st' \in StreamState
    <3>1. \A r \in StreamState :
            [r EXCEPT !.rlen = len, !.phase = phase, !.message = message] \in StreamState
      BY <2>2, <2>3 DEF StreamState
    <3>2. st' = st \/ st' = [TextClosed(st) EXCEPT !.rlen = len, !.phase = phase, !.message = message]
      BY <2>1
    <3>3. st \in StreamState /\ TextClosed(st) \in StreamState
      BY ClosedType
    <3>4. [TextClosed(st) EXCEPT !.rlen = len, !.phase = phase, !.message = message] \in StreamState
      BY <3>1, <3>3
    <3>5. QED
      BY <3>2, <3>3, <3>4, Zenon
  <2>5. voice' \in [Authors -> 0..MaxThought]
    BY <2>1, <2>2
  <2>6. told' \in [Authors -> Nat]
    <3>1. CASE len <= st.rlen
      BY <2>1, <3>1
    <3>2. CASE ~(len <= st.rlen)
      <4>1. told[cur.author] + (len - st.rlen) \in Nat
        BY <2>2, <3>2
      <4>2. told' = [told EXCEPT ![cur.author] = told[cur.author] + (len - st.rlen)]
        BY <2>1, <3>2
      <4>3. QED
        BY <4>1, <4>2
    <3>3. QED
      BY <3>1, <3>2
  <2>7. QED
    BY <1>6, <1>9, <2>4, <2>5, <2>6 DEF Thought
<1>10. CASE Text
  <2>1. NewId \in Ids
    BY <1>6, <1>10 DEF Text
  <2>2. \E id \in Ids : st' = [ReasoningClosed(st) EXCEPT !.text = id]
    <3> DEFINE s == ReasoningClosed(st)
               id == IF s.text = 0 THEN NewId ELSE s.text
    <3>1. id \in Ids
      BY <2>1, ClosedType DEF StreamState
    <3>2. st' = [s EXCEPT !.text = id]
      BY <1>10 DEF Text
    <3>3. QED
      BY <3>1, <3>2
  <2>3. \A r \in StreamState, id \in Ids : [r EXCEPT !.text = id] \in StreamState
    BY DEF StreamState
  <2>4. st' \in StreamState
    <3>1. ReasoningClosed(st) \in StreamState
      BY ClosedType
    <3>2. PICK id \in Ids : st' = [ReasoningClosed(st) EXCEPT !.text = id]
      BY <2>2
    <3>3. [ReasoningClosed(st) EXCEPT !.text = id] \in StreamState
      BY <2>3, <3>1
    <3>4. QED
      BY <3>2, <3>3, Zenon
  <2>5. QED
    BY <1>6, <1>10, <2>4, ThoughtOverType DEF Text
<1>11. CASE Repeated
  BY <1>6, <1>11, ClosedType, ThoughtOverType DEF Repeated, agent
<1>12. CASE FunctionCall
  BY <1>6, <1>12, ClosedType, ThoughtOverType DEF FunctionCall
<1>13. CASE FunctionCallFails \/ ConfirmationFails
  BY <1>1, <1>6, <1>13, ClosedType DEF FunctionCallFails, ConfirmationFails, agent
<1>14. CASE Confirmation
  BY <1>6, <1>14, ClosedType DEF Confirmation, agent
<1>15. CASE EndEvent
  <2>1. cur' = Silent /\ cur' \in [author : Authors \cup {NoAuthor}, partial : BOOLEAN]
    BY <1>15 DEF EndEvent, Silent
  <2>2. st' \in StreamState
    BY <1>15, ClosedType DEF EndEvent
  <2>3. QED
    BY <1>15, <2>1, <2>2, ThoughtOverType DEF EndEvent, agent
<1>16. CASE Finish
  BY <1>16, ClosedType DEF Finish, agent
<1>17. QED
  BY <1>2, <1>3, <1>4, <1>5, <1>7, <1>8, <1>9, <1>10, <1>11, <1>12, <1>13, <1>14, <1>15, <1>16
     DEF Handle

-----------------------------------------------------------------------------
(* The scripts of the handler's steps.                                      *)

\* A run that is over has nothing left to close.
Over(s) ==
  s.final /\ s.text = 0 /\ s.phase = 0 /\ s.message = 0 /\ s.step = NoAuthor

\* What finalizeLifecycle leaves.
LEMMA FinalizedShut ==
  ASSUME NEW s \in StreamState
  PROVE  /\ Finalized(s).text = 0 /\ Finalized(s).phase = 0 /\ Finalized(s).message = 0
         /\ Finalized(s).step = NoAuthor /\ Finalized(s).last = TextClosed(s).last
         /\ Finalized(s).final = s.final
         /\ Over([Finalized(s) EXCEPT !.final = TRUE])
<1>1. /\ TextClosed(s) \in StreamState /\ TextClosed(s).text = 0
      /\ TextClosed(s).final = s.final
  BY ClosedType DEF TextClosed, StreamState
<1>2. \A r \in StreamState :
        /\ ReasoningClosed(r) \in StreamState /\ ReasoningClosed(r).text = r.text
        /\ ReasoningClosed(r).phase = 0 /\ ReasoningClosed(r).message = 0
        /\ ReasoningClosed(r).last = r.last /\ ReasoningClosed(r).final = r.final
  BY ClosedType DEF ReasoningClosed, StreamState
<1>3. \A r \in StreamState :
        /\ StepClosed(r) \in StreamState /\ StepClosed(r).step = NoAuthor
        /\ StepClosed(r).text = r.text /\ StepClosed(r).phase = r.phase
        /\ StepClosed(r).message = r.message /\ StepClosed(r).last = r.last
        /\ StepClosed(r).final = r.final
  BY ClosedType DEF StepClosed, StreamState
<1>4. /\ Finalized(s) \in StreamState
      /\ Finalized(s).text = 0 /\ Finalized(s).phase = 0 /\ Finalized(s).message = 0
      /\ Finalized(s).step = NoAuthor /\ Finalized(s).last = TextClosed(s).last
      /\ Finalized(s).final = s.final
  BY <1>1, <1>2, <1>3 DEF Finalized
<1>5. \A r \in StreamState :
        r.text = 0 /\ r.phase = 0 /\ r.message = 0 /\ r.step = NoAuthor
          => Over([r EXCEPT !.final = TRUE])
  BY DEF Over, StreamState
<1>6. QED
  BY <1>4, <1>5

\* A part is behind: ids that were fresh stay known.
LEMMA AgreesLater ==
  ASSUME NEW c, NEW s \in StreamState, NEW n \in 0..MaxParts, Agrees(c, s, n)
  PROVE  Agrees(c, s, n + 1)
BY StreamBounds DEF Agrees, StreamState, Ids

\* Two sequences of one element.
LEMMA TwoOnes ==
  ASSUME NEW S, NEW x \in S, NEW y \in S
  PROVE  <<x>> \o <<y>> = <<x, y>>
<1>1. <<x>> \in Seq(S) /\ <<y>> \in Seq(S) /\ <<x, y>> \in Seq(S)
  OBVIOUS
<1>2. /\ Len(<<x>>) = 1 /\ <<x>>[1] = x /\ Len(<<y>>) = 1 /\ <<y>>[1] = y
      /\ Len(<<x, y>>) = 2 /\ <<x, y>>[1] = x /\ <<x, y>>[2] = y
  OBVIOUS
<1> DEFINE a == <<x>>
           b == <<y>>
           ab == <<x, y>>
<1> HIDE DEF a, b, ab
<1>3. /\ a \in Seq(S) /\ b \in Seq(S) /\ ab \in Seq(S) /\ Len(a) = 1 /\ a[1] = x
      /\ Len(b) = 1 /\ b[1] = y /\ Len(ab) = 2 /\ ab[1] = x /\ ab[2] = y
  BY <1>1, <1>2 DEF a, b, ab
<1>4. /\ a \o b \in Seq(S) /\ Len(a \o b) = 2
      /\ \A i \in 1..2 : (a \o b)[i] = IF i <= 1 THEN a[i] ELSE b[i - 1]
  <2>1. /\ a \o b \in Seq(S) /\ Len(a \o b) = Len(a) + Len(b)
        /\ \A i \in 1..(Len(a) + Len(b)) :
             (a \o b)[i] = IF i <= Len(a) THEN a[i] ELSE b[i - Len(a)]
    BY <1>3, ConcatProperties
  <2>2. Len(a) + Len(b) = 2
    BY <1>3
  <2> HIDE DEF a, b
  <2>3. QED
    BY <1>3, <2>1, <2>2
<1>5. \A i \in 1..2 : (a \o b)[i] = ab[i]
  <2>1. \A i \in 1..2 : i = 1 \/ i = 2
    OBVIOUS
  <2>2. (a \o b)[1] = x /\ (a \o b)[2] = y
    BY <1>3, <1>4
  <2>3. QED
    BY <1>3, <2>1, <2>2
<1>6. a \o b = ab
  BY <1>3, <1>4, <1>5, SeqEqual
<1>7. QED
  BY <1>6 DEF a, b, ab

\* Events that stand alone leave the client as it is.
LEMMA StandalonePlays ==
  ASSUME NEW c \in PClient, c.status = "running", c.tool = 0, NEW k \in Protocol!Standalone
  PROVE  Plays(c, <<Plain(k)>>, c)
<1>1. Plain(k) \in PEvent
  BY EventType DEF Plain
<1>2. Protocol!Allowed(c, Plain(k)) /\ Protocol!Reads(c, Plain(k)) = c
  <2>1. Plain(k).kind = k
    BY DEF Plain, Event
  <2>2. Protocol!Allowed(c, Plain(k))
    BY <2>1 DEF Protocol!Allowed
  <2>3. Protocol!Reads(c, Plain(k)) = c
    BY <2>1 DEF Protocol!Reads, Protocol!Standalone, Protocol!Terminal
  <2>4. QED
    BY <2>2, <2>3
<1>3. QED
  BY <1>1, <1>2, OnePlays

\* To a client that is in the middle of a run such an event makes no difference.
LEMMA AsideReads ==
  ASSUME NEW c, NEW e, e.kind \in Protocol!Standalone
  PROVE  /\ Protocol!Reads(c, e) = c
         /\ c.status = "running" /\ c.tool = 0 => Protocol!Allowed(c, e)
         /\ Protocol!Allowed(c, e) => c.status = "running" /\ c.tool = 0
<1>1. Protocol!Reads(c, e) = c
  BY DEF Protocol!Reads, Protocol!Standalone, Protocol!Terminal
<1>2. c.status = "running" /\ c.tool = 0 => Protocol!Allowed(c, e)
  BY DEF Protocol!Allowed
<1>3. Protocol!Allowed(c, e) => c.status = "running" /\ c.tool = 0
  BY DEF Protocol!Allowed, Protocol!Standalone
<1>4. QED
  BY <1>1, <1>2, <1>3

\* Nor does any number of them.
LEMMA AsidePlays ==
  ASSUME NEW c \in PClient, c.status = "running", c.tool = 0, NEW s \in Seq(PEvent),
         \A i \in 1..Len(s) : s[i].kind \in Protocol!Standalone
  PROVE  Plays(c, s, c)
<1> DEFINE f == [i \in 0..Len(s) |-> c]
<1>1. Len(s) \in Nat
  OBVIOUS
<1>2. \A i \in 1..Len(s) : Protocol!Allowed(c, s[i]) /\ c = Protocol!Reads(c, s[i])
  BY AsideReads
<1>3. f \in [0..Len(s) -> PClient] /\ f[0] = c /\ f[Len(s)] = c
  BY <1>1
<1>4. \A i \in 1..Len(s) : f[i - 1] = c /\ f[i] = c
  BY <1>1
<1>5. Reading(c, s, c, f)
  <2> HIDE DEF f
  <2>1. QED
    BY <1>2, <1>3, <1>4 DEF Reading
<1>6. QED
  BY <1>5 DEF Plays

\* A tool call, when text and reasoning are closed.
LEMMA ToolCallStartPlays ==
  ASSUME NEW c \in PClient, c.status = "running", c.tool = 0, c.text = 0, c.phase = 0,
         NEW id \in Ids, NEW parent \in c.closed \cup {0}
  PROVE  LET d == [c EXCEPT !.tool = id, !.args = FALSE]
         IN  d \in PClient /\ Plays(c, <<Event("ToolCallStart", id, parent)>>, d)
<1> DEFINE e == Event("ToolCallStart", id, parent)
           d == [c EXCEPT !.tool = id, !.args = FALSE]
<1>1. parent \in Ids \cup {0}
  BY DEF PClient, Protocol!Client
<1>2. e \in PEvent
  BY <1>1, EventType
<1>3. Protocol!Allowed(c, e)
  BY DEF Event, Protocol!Allowed
<1>4. Protocol!Reads(c, e) = d
  BY DEF Event, Protocol!Reads, Protocol!Terminal
<1>5. d \in PClient
  BY DEF PClient, Protocol!Client
<1>6. QED
  BY <1>2, <1>3, <1>4, <1>5, OnePlays

LEMMA ToolCallPlays ==
  ASSUME NEW s \in StreamState, NEW c \in PClient, NEW n \in 0..MaxParts, Agrees(c, s, n),
         s.text = 0, s.phase = 0, NEW id \in Ids
  PROVE  \E d \in PClient : Plays(c, ToolCall(id, s.last), d) /\ Agrees(d, s, n)
<1> DEFINE c1 == [c EXCEPT !.tool = id, !.args = FALSE]
           c2 == [c1 EXCEPT !.args = TRUE]
           d == [c2 EXCEPT !.tool = 0]
           a == Event("ToolCallArgs", id, 0)
           e == Event("ToolCallEnd", id, 0)
<1>1. c1 \in PClient /\ Plays(c, <<Event("ToolCallStart", id, s.last)>>, c1)
  BY ToolCallStartPlays DEF Agrees
<1>2. a \in PEvent /\ e \in PEvent
  BY EventType
<1>3. id # 0
  BY StreamBounds DEF Ids
<1>4. c1.status = "running" /\ c1.tool = id /\ c1.args = FALSE
  BY DEF Agrees, PClient, Protocol!Client
<1>5. Protocol!Allowed(c1, a)
  BY <1>3, <1>4 DEF Event, Protocol!Allowed
<1>6. Protocol!Reads(c1, a) = c2
  BY DEF Event, Protocol!Reads, Protocol!Terminal
<1>7. c2 \in PClient /\ c2.status = "running" /\ c2.tool = id /\ c2.args = TRUE
  BY <1>1, <1>4 DEF PClient, Protocol!Client
<1>8. Protocol!Allowed(c2, e)
  BY <1>3, <1>7 DEF Event, Protocol!Allowed
<1>9. Protocol!Reads(c2, e) = d
  BY DEF Event, Protocol!Reads, Protocol!Terminal
<1>10. d \in PClient
  BY <1>7 DEF PClient, Protocol!Client
<1>11. Agrees(d, s, n)
  BY DEF Agrees, PClient, Protocol!Client
<1>12. Plays(c1, <<a>>, c2) /\ Plays(c2, <<e>>, d)
  <2> HIDE DEF c1, c2, d, a, e
  <2>1. QED
    BY <1>1, <1>2, <1>5, <1>6, <1>7, <1>8, <1>9, <1>10, OnePlays
<1>13. ToolCall(id, s.last) = <<Event("ToolCallStart", id, s.last)>> \o <<a>> \o <<e>>
  BY DEF ToolCall
<1>14. QED
  <2> HIDE DEF c1, c2, d, a, e
  <2>1. QED
    BY <1>1, <1>10, <1>11, <1>12, <1>13, BothPlay

\* The terminal events.
LEMMA EndPlays ==
  ASSUME NEW c \in PClient, c.text = 0, c.phase = 0, c.message = 0, c.step = NoAuthor,
         NEW k \in {"RunError", "RunFinished"},
         IF k = "RunError" THEN c.status \in {"running", "cut"}
                           ELSE c.status = "running" /\ c.tool = 0
  PROVE  \E d \in PClient : Plays(c, <<Plain(k)>>, d) /\ d.status = "ended"
<1> DEFINE d == [c EXCEPT !.status = "ended"]
<1>1. Plain(k) \in PEvent
  BY EventType DEF Plain
<1>2. Plain(k).kind = k
  BY DEF Plain, Event
<1>3. Protocol!Allowed(c, Plain(k))
  BY <1>2 DEF Protocol!Allowed, Protocol!NothingOpen, PClient, Protocol!Client
<1>4. Protocol!Reads(c, Plain(k)) = d
  BY <1>2 DEF Protocol!Reads, Protocol!Terminal
<1>5. d \in PClient /\ d.status = "ended"
  BY DEF PClient, Protocol!Client, Protocol!Status
<1>6. QED
  BY <1>1, <1>3, <1>4, <1>5, OnePlays

\* emitError after `events`: everything is closed, then RunError.
LEMMA ErrorPlays ==
  ASSUME NEW events, NEW c \in PClient, NEW c1 \in PClient, Plays(c, events, c1),
         NEW s \in StreamState, NEW n \in 0..MaxParts, Agrees(c1, s, n)
  PROVE  \E d \in PClient : Plays(c, events \o Finalize(s) \o <<Plain("RunError")>>, d)
                            /\ d.status = "ended"
<1>1. PICK c2 \in PClient : Plays(c1, Finalize(s), c2) /\ Agrees(c2, Finalized(s), n)
  BY FinalizePlays
<1>2. PICK d \in PClient : Plays(c2, <<Plain("RunError")>>, d) /\ d.status = "ended"
  BY <1>1, FinalizedShut, EndPlays DEF Agrees
<1>3. Plays(c, events \o Finalize(s), c2)
  BY <1>1, BothPlay
<1>4. QED
  BY <1>2, <1>3, BothPlay

\* emitError in the middle of a tool call: only a step is left to close.
LEMMA CutPlays ==
  ASSUME NEW events, NEW c \in PClient, NEW c1 \in PClient, Plays(c, events, c1),
         NEW s \in StreamState, NEW n \in 0..MaxParts, Agrees(c1, s, n),
         s.text = 0, s.phase = 0, s.message = 0, NEW id \in Ids
  PROVE  \E d \in PClient :
           /\ Plays(c, events \o <<Event("ToolCallStart", id, s.last)>>
                        \o Finalize(s) \o <<Plain("RunError")>>, d)
           /\ d.status = "ended"
<1> DEFINE e == Event("ToolCallStart", id, s.last)
           c2 == [c1 EXCEPT !.tool = id, !.args = FALSE]
<1>1. c2 \in PClient /\ Plays(c1, <<e>>, c2)
  BY ToolCallStartPlays DEF Agrees
<1>2. /\ c2.text = 0 /\ c2.phase = 0 /\ c2.message = 0 /\ c2.step = s.step
      /\ c2.status = "running" /\ c2.tool # 0
  BY StreamBounds DEF Agrees, PClient, Protocol!Client, Ids
<1>3. PICK c3 \in PClient : /\ Plays(c2, CloseStep(s), c3) /\ c3.status \in {"running", "cut"}
                            /\ c3.text = 0 /\ c3.phase = 0 /\ c3.message = 0 /\ c3.step = NoAuthor
  <2>1. CASE s.step = NoAuthor
    BY <1>1, <1>2, <2>1, EmptyPlays DEF CloseStep
  <2>2. CASE s.step # NoAuthor
    <3> DEFINE g == Event("StepFinished", 0, s.step)
               c3 == [c2 EXCEPT !.step = NoAuthor, !.status = "cut"]
    <3>1. s.step \in Authors \ {Root}
      BY <1>1, <1>2, <2>2 DEF PClient, Protocol!Client
    <3>2. g \in PEvent
      BY <3>1, EventType
    <3> HIDE DEF c2
    <3>3. Protocol!Allowed(c2, g)
      BY <1>2, <2>2 DEF Event, Protocol!Allowed
    <3>4. Protocol!Reads(c2, g) = c3
      BY <1>2 DEF Event, Protocol!Reads, Protocol!Terminal
    <3>5. c3 \in PClient
      BY <1>1 DEF PClient, Protocol!Client, Protocol!Status
    <3>6. Plays(c2, <<g>>, c3)
      BY <1>1, <3>2, <3>3, <3>4, <3>5, OnePlays
    <3>7. /\ c3.status = "cut" /\ c3.step = NoAuthor
          /\ c3.text = 0 /\ c3.phase = 0 /\ c3.message = 0
      BY <1>1, <1>2 DEF PClient, Protocol!Client
    <3>8. CloseStep(s) = <<g>>
      BY <2>2 DEF CloseStep
    <3>9. QED
      BY <3>5, <3>6, <3>7, <3>8
  <2>3. QED
    BY <2>1, <2>2
<1>4. PICK d \in PClient : Plays(c3, <<Plain("RunError")>>, d) /\ d.status = "ended"
  BY <1>3, EndPlays
<1> HIDE DEF c2, e
<1>5. Plays(c2, Finalize(s), c3)
  <2>1. Plays(c2, <<>>, c2)
    BY <1>1, EmptyPlays
  <2>2. Plays(c2, <<>> \o <<>>, c2)
    BY <2>1, BothPlay
  <2>3. CloseText(s) = <<>> /\ CloseReasoning(s) = <<>> \o <<>>
    BY DEF CloseText, CloseReasoning
  <2>4. Plays(c2, CloseText(s) \o CloseReasoning(s), c2)
    BY <2>1, <2>2, <2>3, BothPlay
  <2>5. QED
    BY <2>4, <1>3, BothPlay DEF Finalize
<1>6. Plays(c, events \o <<e>>, c2)
  BY <1>1, BothPlay
<1>7. Plays(c, events \o <<e>> \o Finalize(s), c3)
  BY <1>5, <1>6, BothPlay
<1>8. Plays(c, events \o <<e>> \o Finalize(s) \o <<Plain("RunError")>>, d)
  BY <1>4, <1>7, BothPlay
<1>9. QED
  BY <1>4, <1>8 DEF e

-----------------------------------------------------------------------------
(* The invariant.                                                           *)

\* The client that has read the outbox, for a handler at p in state s.
Follows(p, s, n, d) ==
  /\ p \in {"preamble", "loop", "parts"} => Agrees(d, s, n)
  /\ p = "preamble" => s.text = 0 /\ s.phase = 0 /\ s.step = NoAuthor
  /\ p = "finish" => Agrees(d, s, n) \/ (Over(s) /\ d.status = "ended")
  /\ p = "done" => d.status = "ended"

Scripted ==
  IF broken THEN outbox = <<>>
  ELSE \E d \in PClient : Plays(client, outbox, d) /\ Follows(pc, st, parts, d)

\* A step of the handler whose script is `events`.
LEMMA SendsScript ==
  ASSUME NEW events, NEW d \in PClient, ~broken, broken' = broken, client' = client,
         Send(events), Plays(client, events, d), Follows(pc', st', parts', d)
  PROVE  Scripted'
BY DEF Scripted, Send, Plays, Follows, Agrees, Over, Reading

\* A broken emitter sends nothing any more.
LEMMA StaysBroken ==
  ASSUME Locals, Scripted, broken, Handle
  PROVE  Scripted'
<1>1. outbox = <<>>
  BY DEF Scripted
<1>2. broken' = broken /\ outbox' = <<>>
  BY <1>1 DEF Handle, LeaveUnstarted, RefuseRun, StartRun, NextEvent, AgentFails, StopBroken,
              Converted, PartFails, Thought, Text, Repeated, FunctionCall, FunctionCallFails,
              FunctionResponse, Confirmation, ConfirmationFails, EndEvent, StopAfterTail,
              AgentEnds, Finish, SendError, Send, Part
<1>3. QED
  BY <1>2 DEF Scripted

\* While the emitter works every step of the handler adds a script that the
\* client can read and after which it agrees with streamState again.
LEMMA HandleScripts ==
  ASSUME ConverterStandsAside, Locals, Scripted, client \in PClient, ~broken, Handle
  PROVE  Scripted'
<1>1. /\ outbox = <<>> /\ broken' = broken /\ client' = client
      /\ st \in StreamState /\ parts \in 0..MaxParts /\ parts' \in 0..MaxParts
  <2>1. outbox = <<>> /\ broken' = broken /\ client' = client
    BY DEF Handle, LeaveUnstarted, RefuseRun, StartRun, NextEvent, AgentFails, StopBroken,
           Converted, PartFails, Thought, Text, Repeated, FunctionCall, FunctionCallFails,
           FunctionResponse, Confirmation, ConfirmationFails, EndEvent, StopAfterTail,
           AgentEnds, Finish, Part, Ready, wire
  <2>2. QED
    BY <2>1, HandleType DEF Locals
<1>2. Plays(client, <<>>, client)
  BY EmptyPlays
<1>3. Follows(pc, st, parts, client)
  BY <1>1, PlaysNothing DEF Scripted
<1>4. pc \in {"preamble", "loop", "parts"} => Agrees(client, st, parts)
  BY <1>3 DEF Follows
<1>5. ASSUME NEW events, NEW c \in PClient, Plays(client, events, c), NEW s \in StreamState,
             NEW n \in 0..MaxParts, Agrees(c, s, n), SendError(events, s)
      PROVE  Scripted'
  <2>1. PICK d \in PClient :
          /\ Plays(client, events \o Finalize(s) \o <<Plain("RunError")>>, d)
          /\ d.status = "ended"
    BY <1>5, ErrorPlays
  <2>2. Over(st') /\ pc' = "finish"
    BY <1>5, FinalizedShut DEF SendError
  <2>3. Follows(pc', st', parts', d)
    BY <2>1, <2>2 DEF Follows
  <2>4. QED
    BY <1>1, <1>5, <2>1, <2>3, SendsScript DEF SendError
<1>6. ASSUME Part
      PROVE  /\ pc = "parts" /\ parts' = parts + 1 /\ NewId \in Ids /\ NewId = parts'
             /\ Agrees(client, st, parts) /\ Agrees(client, st, parts')
             /\ client.status = "running" /\ client.tool = 0
  <2>1. pc = "parts" /\ parts' = parts + 1 /\ NewId \in Ids /\ NewId = parts'
    BY <1>6, StreamBounds DEF Part, Ready, NewId, Ids, Locals
  <2>2. Agrees(client, st, parts)
    BY <2>1, <1>4
  <2>3. QED
    BY <1>1, <2>1, <2>2, AgreesLater DEF Agrees
<1>7. CASE LeaveUnstarted \/ StopBroken \/ StopAfterTail
  BY <1>7 DEF LeaveUnstarted, StopBroken, StopAfterTail
<1>8. CASE RefuseRun
  <2>1. PICK events \in {<<>>, <<Plain("StateSnapshot")>>} : Send(events \o <<Plain("RunError")>>)
    BY <1>8 DEF RefuseRun
  <2>2. Agrees(client, st, parts)
    BY <1>4, <1>8 DEF RefuseRun, Ready
  <2>3. Plays(client, events, client)
    BY <1>2, <2>1, <2>2, StandalonePlays DEF Agrees, Protocol!Standalone
  <2>4. pc = "preamble" /\ pc' = "done"
    BY <1>8 DEF RefuseRun, Ready
  <2>5. PICK d \in PClient : Plays(client, <<Plain("RunError")>>, d) /\ d.status = "ended"
    <3>1. /\ client.text = 0 /\ client.phase = 0 /\ client.message = 0 /\ client.step = NoAuthor
          /\ client.status = "running"
      BY <1>3, <2>2, <2>4 DEF Follows, Agrees
    <3>2. QED
      BY <3>1, EndPlays
  <2>6. Plays(client, events \o <<Plain("RunError")>>, d)
    BY <2>3, <2>5, BothPlay
  <2>7. Follows(pc', st', parts', d)
    BY <2>4, <2>5 DEF Follows
  <2>8. QED
    BY <1>1, <2>1, <2>5, <2>6, <2>7, SendsScript
<1>9. CASE StartRun
  <2>1. PICK events \in {<<>>, <<Plain("StateSnapshot")>>} : Send(events)
    BY <1>9 DEF StartRun
  <2>2. Agrees(client, st, parts)
    BY <1>4, <1>9 DEF StartRun, Ready
  <2>3. Plays(client, events, client)
    BY <1>2, <2>1, <2>2, StandalonePlays DEF Agrees, Protocol!Standalone
  <2>4. pc' = "loop" /\ st' = st /\ parts' = parts
    BY <1>9 DEF StartRun
  <2>5. Follows(pc', st', parts', client)
    BY <2>2, <2>4 DEF Follows
  <2>6. QED
    BY <1>1, <2>1, <2>3, <2>5, SendsScript
<1>10. CASE NextEvent
  <2>1. PICK a \in Authors \cup {NoAuthor} : Send(StepChange(a)) /\ st' = StepChanged(a)
    BY <1>10 DEF NextEvent
  <2>2. Agrees(client, st, parts) /\ pc' = "parts" /\ parts' = parts
    BY <1>4, <1>10 DEF NextEvent, Ready
  <2>3. CASE a \in {NoAuthor, st.step}
    <3>1. StepChange(a) = <<>> /\ StepChanged(a) = st
      BY <2>3 DEF StepChange, StepChanged
    <3>2. Follows(pc', st', parts', client)
      BY <2>1, <2>2, <3>1 DEF Follows
    <3>3. QED
      BY <1>1, <1>2, <2>1, <3>1, <3>2, SendsScript
  <2>4. CASE a \notin {NoAuthor, st.step}
    <3>1. PICK c \in PClient : Plays(client, CloseStep(st), c) /\ Agrees(c, StepClosed(st), parts)
      BY <1>1, <2>2, CloseStepPlays
    <3>2. CASE a = Root
      <4>1. StepChanged(a) = StepClosed(st)
        BY <2>4, <3>2 DEF StepChanged, StepClosed
      <4>2. StepChange(a) = CloseStep(st) \o <<>>
        BY <2>4, <3>2 DEF StepChange
      <4>3. Plays(client, CloseStep(st) \o <<>>, c)
        BY <3>1, EmptyPlays, BothPlay
      <4>4. Follows(pc', st', parts', c)
        BY <2>1, <2>2, <3>1, <4>1 DEF Follows
      <4>5. QED
        BY <1>1, <2>1, <4>2, <4>3, <4>4, SendsScript
    <3>3. CASE a # Root
      <4> DEFINE e == Event("StepStarted", 0, a)
                 d == [c EXCEPT !.step = a]
      <4>1. a \in Authors \ {Root} /\ e \in PEvent
        BY <2>4, <3>3, EventType
      <4>2. c.step = NoAuthor /\ c.status = "running" /\ c.tool = 0
        BY <3>1 DEF Agrees, StepClosed, StreamState
      <4>3. Protocol!Allowed(c, e)
        BY <4>2 DEF Event, Protocol!Allowed
      <4>4. Protocol!Reads(c, e) = d
        BY DEF Event, Protocol!Reads, Protocol!Terminal
      <4>5. d \in PClient
        BY <4>1 DEF PClient, Protocol!Client
      <4>6. Agrees(d, [st EXCEPT !.step = a], parts)
        BY <1>1, <3>1 DEF Agrees, StepClosed, StreamState, PClient, Protocol!Client
      <4>7. Plays(client, CloseStep(st) \o <<e>>, d)
        BY <3>1, <4>1, <4>3, <4>4, <4>5, OnePlays, BothPlay
      <4>8. StepChanged(a) = [st EXCEPT !.step = a] /\ StepChange(a) = CloseStep(st) \o <<e>>
        BY <2>4, <3>3 DEF StepChanged, StepChange
      <4>9. Follows(pc', st', parts', d)
        BY <2>1, <2>2, <4>6, <4>8 DEF Follows
      <4>10. QED
        BY <1>1, <2>1, <4>5, <4>7, <4>8, <4>9, SendsScript
    <3>4. QED
      BY <3>2, <3>3
  <2>5. QED
    BY <2>3, <2>4
<1>11. CASE AgentFails
  BY <1>1, <1>2, <1>4, <1>5, <1>11 DEF AgentFails, Ready
<1>12. CASE Converted
  <2>1. PICK events \in Conversions : Send(events)
    BY <1>12 DEF Converted
  <2>2. /\ events \in Seq(PEvent)
        /\ \A i \in 1..Len(events) : events[i].kind \in Protocol!Standalone
    BY ConversionsAssumption DEF ConverterStandsAside, PEvent
  <2>3. Plays(client, events, client)
    <3>1. client.status = "running" /\ client.tool = 0
      BY <1>4, <1>6, <1>12 DEF Converted, Agrees
    <3>2. QED
      BY <2>2, <3>1, AsidePlays
  <2>4. Follows(pc', st', parts', client)
    BY <1>6, <1>12 DEF Converted, Follows
  <2>5. QED
    BY <1>1, <2>1, <2>3, <2>4, SendsScript
<1>13. CASE PartFails
  BY <1>1, <1>2, <1>5, <1>6, <1>13 DEF PartFails
<1>14. CASE FunctionResponse
  <2>1. Plays(client, <<Plain("ToolCallResult")>>, client)
    BY <1>6, <1>14, StandalonePlays DEF FunctionResponse, Protocol!Standalone
  <2>2. Follows(pc', st', parts', client)
    BY <1>6, <1>14 DEF FunctionResponse, Follows
  <2>3. QED
    BY <1>1, <1>14, <2>1, <2>2, SendsScript DEF FunctionResponse
<1>15. CASE Repeated
  <2>1. PICK c \in PClient :
          Plays(client, CloseReasoning(st), c) /\ Agrees(c, ReasoningClosed(st), parts')
    BY <1>1, <1>6, <1>15, CloseReasoningPlays DEF Repeated
  <2>2. CASE Send(<<>>) /\ st' = st
    <3>1. Follows(pc', st', parts', client)
      BY <1>6, <1>15, <2>2 DEF Repeated, Follows
    <3>2. QED
      BY <1>1, <1>2, <2>2, <3>1, SendsScript
  <2>3. CASE Send(CloseReasoning(st)) /\ st' = ReasoningClosed(st)
    <3>1. Follows(pc', st', parts', c)
      BY <1>6, <1>15, <2>1, <2>3 DEF Repeated, Follows
    <3>2. QED
      BY <1>1, <2>1, <2>3, <3>1, SendsScript
  <2>4. QED
    BY <1>15, <2>2, <2>3 DEF Repeated
<1>16. CASE Thought
  <2> DEFINE phase == IF st.phase = 0 THEN NewId ELSE st.phase
             message == IF st.message = 0 THEN NewId ELSE st.message
             starts == IF st.phase = 0 THEN <<Event("ReasoningStart", phase, 0)>> ELSE <<>>
             opens == IF st.message = 0 THEN <<Event("ReasoningMessageStart", message, 0)>> ELSE <<>>
             says == <<Event("ReasoningMessageContent", message, 0)>>
  <2>0. Part /\ pc' = pc
    BY <1>16 DEF Thought
  <2>1. PICK len \in 1..MaxThought :
          IF len <= st.rlen
          THEN Send(<<>>) /\ st' = st
          ELSE /\ Send(CloseText(st) \o (starts \o opens) \o says)
               /\ st' = [TextClosed(st) EXCEPT !.rlen = len, !.phase = phase, !.message = message]
    BY <1>16 DEF Thought, Emitted
  <2>2. CASE len <= st.rlen
    <3>1. Follows(pc', st', parts', client)
      BY <1>6, <2>0, <2>1, <2>2 DEF Follows
    <3>2. QED
      BY <1>1, <1>2, <2>1, <2>2, <3>1, SendsScript
  <2>3. CASE ~(len <= st.rlen)
    <3>1. /\ phase \in Ids /\ message \in Ids /\ phase # 0 /\ message # 0
      BY <1>1, <1>6, <2>0, StreamBounds DEF StreamState, Ids
    <3>2. PICK c \in PClient : /\ TextClosed(st) \in StreamState
                               /\ Plays(client, CloseText(st), c) /\ Agrees(c, TextClosed(st), parts')
      BY <1>1, <1>6, <2>0, CloseTextPlays
    <3>3. /\ c.status = "running" /\ c.tool = 0 /\ c.text = 0
          /\ c.phase = st.phase /\ c.message = st.message /\ (st.phase = 0 <=> st.message = 0)
      BY <1>1, <3>2 DEF Agrees, TextClosed, StreamState
    <3> DEFINE c1 == [c EXCEPT !.phase = phase]
               d == [c1 EXCEPT !.message = message]
    <3>4. c1 \in PClient /\ d \in PClient
      BY <3>1 DEF PClient, Protocol!Client
    <3>5. Plays(c, starts, c1)
      <4>1. CASE st.phase = 0
        <5> DEFINE e == Event("ReasoningStart", phase, 0)
        <5>1. e \in PEvent
          BY <3>1, EventType
        <5>2. Protocol!Allowed(c, e)
          BY <3>3, <4>1 DEF Event, Protocol!Allowed
        <5>3. Protocol!Reads(c, e) = c1
          BY DEF Event, Protocol!Reads, Protocol!Terminal
        <5> HIDE DEF c1
        <5>4. QED
          BY <3>4, <4>1, <5>1, <5>2, <5>3, OnePlays
      <4>2. CASE st.phase # 0
        <5>1. c1 = c
          BY <3>3, <4>2 DEF PClient, Protocol!Client
        <5>2. QED
          BY <4>2, <5>1, EmptyPlays
      <4>3. QED
        BY <4>1, <4>2
    <3>6. Plays(c1, opens, d)
      <4>0. /\ c1.phase # 0 /\ c1.message = st.message /\ c1.status = "running" /\ c1.tool = 0
        BY <3>1, <3>3 DEF PClient, Protocol!Client
      <4>1. CASE st.message = 0
        <5> DEFINE e == Event("ReasoningMessageStart", message, 0)
        <5>1. e \in PEvent
          BY <3>1, EventType
        <5> HIDE DEF c1
        <5>2. Protocol!Allowed(c1, e)
          BY <4>0, <4>1 DEF Event, Protocol!Allowed
        <5>3. Protocol!Reads(c1, e) = d
          BY DEF Event, Protocol!Reads, Protocol!Terminal
        <5> HIDE DEF d
        <5>4. QED
          BY <3>4, <4>1, <5>1, <5>2, <5>3, OnePlays
      <4>2. CASE st.message # 0
        <5>1. d = c1
          BY <3>3, <4>2 DEF PClient, Protocol!Client
        <5>2. QED
          BY <3>4, <4>2, <5>1, EmptyPlays
      <4>3. QED
        BY <4>1, <4>2
    <3>7. Plays(d, says, d)
      <4> DEFINE e == Event("ReasoningMessageContent", message, 0)
      <4>1. e \in PEvent
        BY <3>1, EventType
      <4>2. d.message = message /\ d.status = "running" /\ d.tool = 0
        BY <3>3 DEF PClient, Protocol!Client
      <4> HIDE DEF d
      <4>3. Protocol!Allowed(d, e)
        BY <3>1, <4>2 DEF Event, Protocol!Allowed
      <4>4. Protocol!Reads(d, e) = d
        BY DEF Event, Protocol!Reads, Protocol!Terminal
      <4>5. QED
        BY <3>4, <4>1, <4>3, <4>4, OnePlays
    <3>8. Agrees(d, st', parts')
      <4> DEFINE t == TextClosed(st)
      <4>1. t \in StreamState /\ t.text = 0 /\ Agrees(c, t, parts')
        BY <1>1, <3>2 DEF TextClosed, StreamState
      <4>2. st' = [t EXCEPT !.rlen = len, !.phase = phase, !.message = message]
        BY <2>1, <2>3
      <4> HIDE DEF t, phase, message
      <4>3. /\ st'.text = t.text /\ st'.phase = phase /\ st'.message = message
            /\ st'.step = t.step /\ st'.last = t.last /\ st'.final = t.final
        BY <4>1, <4>2 DEF StreamState
      <4>4. /\ d.status = c.status /\ d.tool = c.tool /\ d.text = c.text /\ d.phase = phase
            /\ d.message = message /\ d.step = c.step /\ d.closed = c.closed
        BY <3>2 DEF PClient, Protocol!Client
      <4> HIDE DEF d
      <4>5. QED
        BY <3>1, <4>1, <4>3, <4>4 DEF Agrees
    <3> HIDE DEF c1, d, starts, opens, says, phase, message
    <3>9. Plays(client, CloseText(st) \o (starts \o opens) \o says, d)
      BY <3>2, <3>5, <3>6, <3>7, BothPlay
    <3>10. Follows(pc', st', parts', d)
      BY <1>6, <2>0, <3>8 DEF Follows
    <3>11. QED
      BY <1>1, <2>1, <2>3, <3>4, <3>9, <3>10, SendsScript
  <2>4. QED
    BY <2>2, <2>3
<1>17. CASE Text
  <2> DEFINE s == ReasoningClosed(st)
             id == IF s.text = 0 THEN NewId ELSE s.text
             starts == IF s.text = 0 THEN <<Event("TextMessageStart", id, 0)>> ELSE <<>>
             says == <<Event("TextMessageContent", id, 0)>>
  <2>1. /\ Part /\ pc' = pc /\ Send(CloseReasoning(st) \o starts \o says)
        /\ st' = [s EXCEPT !.text = id]
    BY <1>17 DEF Text
  <2>2. PICK c \in PClient : /\ s \in StreamState
                             /\ Plays(client, CloseReasoning(st), c) /\ Agrees(c, s, parts)
    BY <1>1, <1>6, <2>1, CloseReasoningPlays
  <2>3. s.phase = 0 /\ s.message = 0
    BY <1>1 DEF ReasoningClosed, StreamState
  <2>4. id \in Ids /\ id # 0 /\ id <= parts' /\ (s.text = 0 => id \notin c.closed)
    BY <1>1, <1>6, <2>1, <2>2, StreamBounds DEF Agrees, StreamState, Ids
  <2> DEFINE d == [c EXCEPT !.text = id]
  <2> HIDE DEF s, id
  <2>5. d \in PClient
    BY <2>4 DEF PClient, Protocol!Client
  <2>6. Plays(c, starts, d)
    <3>1. CASE s.text = 0
      <4> DEFINE e == Event("TextMessageStart", id, 0)
      <4>1. e \in PEvent
        BY <2>4, EventType
      <4>2. Protocol!Allowed(c, e)
        BY <2>2, <2>3, <2>4, <3>1 DEF Event, Protocol!Allowed, Agrees
      <4>3. Protocol!Reads(c, e) = d
        BY DEF Event, Protocol!Reads, Protocol!Terminal
      <4> HIDE DEF d
      <4>4. QED
        BY <2>5, <3>1, <4>1, <4>2, <4>3, OnePlays
    <3>2. CASE s.text # 0
      <4>1. d = c
        BY <2>2, <3>2 DEF id, Agrees, PClient, Protocol!Client
      <4>2. QED
        BY <3>2, <4>1, EmptyPlays
    <3>3. QED
      BY <3>1, <3>2
  <2>7. Plays(d, says, d)
    <3> DEFINE e == Event("TextMessageContent", id, 0)
    <3>1. e \in PEvent
      BY <2>4, EventType
    <3>2. d.text = id /\ d.status = "running" /\ d.tool = 0
      BY <2>2 DEF Agrees, PClient, Protocol!Client
    <3> HIDE DEF d
    <3>3. Protocol!Allowed(d, e)
      BY <2>4, <3>2 DEF Event, Protocol!Allowed
    <3>4. Protocol!Reads(d, e) = d
      BY DEF Event, Protocol!Reads, Protocol!Terminal
    <3>5. QED
      BY <2>5, <3>1, <3>3, <3>4, OnePlays
  <2>8. Agrees(d, st', parts')
    <3>1. Agrees(c, s, parts')
      BY <1>1, <1>6, <2>1, <2>2, AgreesLater
    <3>2. QED
      BY <2>1, <2>2, <2>3, <2>4, <3>1 DEF Agrees, StreamState, PClient, Protocol!Client
  <2> HIDE DEF d, starts, says
  <2>9. Plays(client, CloseReasoning(st) \o starts \o says, d)
    BY <2>2, <2>6, <2>7, BothPlay
  <2>10. Follows(pc', st', parts', d)
    BY <1>6, <2>1, <2>8 DEF Follows
  <2>11. QED
    BY <1>1, <2>1, <2>5, <2>9, <2>10, SendsScript
<1> DEFINE t == TextClosed(st)
           r == ReasoningClosed(t)
<1>18. /\ t \in StreamState /\ r \in StreamState /\ r.last = t.last
       /\ r.text = 0 /\ r.phase = 0 /\ r.message = 0
  <2>1. t \in StreamState /\ t.text = 0
    BY <1>1, ClosedType DEF TextClosed, StreamState
  <2>2. ASSUME NEW q \in StreamState
        PROVE  /\ ReasoningClosed(q) \in StreamState /\ ReasoningClosed(q).text = q.text
               /\ ReasoningClosed(q).last = q.last
               /\ ReasoningClosed(q).phase = 0 /\ ReasoningClosed(q).message = 0
    BY ClosedType DEF ReasoningClosed, StreamState
  <2> HIDE DEF t
  <2>3. QED
    BY <2>1, <2>2
<1>19. ASSUME Part
       PROVE  \E c \in PClient : /\ Plays(client, CloseText(st) \o CloseReasoning(st), c)
                                 /\ Agrees(c, r, parts')
  <2>1. PICK b \in PClient : Plays(client, CloseText(st), b) /\ Agrees(b, t, parts')
    BY <1>1, <1>6, <1>19, CloseTextPlays
  <2>2. PICK c \in PClient : Plays(b, CloseReasoning(t), c) /\ Agrees(c, r, parts')
    BY <1>1, <1>18, <2>1, CloseReasoningPlays
  <2>3. CloseReasoning(t) = CloseReasoning(st)
    BY <1>1 DEF CloseReasoning, TextClosed, StreamState
  <2>4. QED
    BY <2>1, <2>2, <2>3, BothPlay
<1> HIDE DEF t, r
<1>20. CASE FunctionCall
  <2>1. /\ Part /\ pc' = pc /\ st' = r
        /\ Send(CloseText(st) \o CloseReasoning(st) \o ToolCall(NewId, t.last))
    BY <1>20 DEF FunctionCall, r, t
  <2>2. PICK c \in PClient : /\ Plays(client, CloseText(st) \o CloseReasoning(st), c)
                             /\ Agrees(c, r, parts')
    BY <1>19, <2>1
  <2>3. PICK d \in PClient : Plays(c, ToolCall(NewId, t.last), d) /\ Agrees(d, r, parts')
    BY <1>1, <1>6, <1>18, <2>1, <2>2, ToolCallPlays
  <2>4. Plays(client, CloseText(st) \o CloseReasoning(st) \o ToolCall(NewId, t.last), d)
    BY <2>2, <2>3, BothPlay
  <2>5. Follows(pc', st', parts', d)
    BY <1>6, <2>1, <2>3 DEF Follows
  <2>6. QED
    BY <1>1, <2>1, <2>3, <2>4, <2>5, SendsScript
<1>21. ASSUME NEW events, NEW c \in PClient, Plays(client, events, c), NEW s \in StreamState,
              Part, Agrees(c, s, parts'), s.text = 0, s.phase = 0, s.message = 0,
              SendError(events \o <<Event("ToolCallStart", NewId, s.last)>>, s)
       PROVE  Scripted'
  <2>1. PICK d \in PClient :
          /\ Plays(client, events \o <<Event("ToolCallStart", NewId, s.last)>>
                             \o Finalize(s) \o <<Plain("RunError")>>, d)
          /\ d.status = "ended"
    BY <1>1, <1>6, <1>21, CutPlays
  <2>2. Over(st') /\ pc' = "finish"
    BY <1>21, FinalizedShut DEF SendError
  <2>3. Follows(pc', st', parts', d)
    BY <2>1, <2>2 DEF Follows
  <2>4. QED
    BY <1>1, <1>21, <2>1, <2>3, SendsScript DEF SendError
<1>22. CASE FunctionCallFails
  <2>1. Part /\ SendError(CloseText(st) \o CloseReasoning(st) \o <<Event("ToolCallStart", NewId, t.last)>>, r)
    BY <1>22 DEF FunctionCallFails, r, t
  <2>2. PICK c \in PClient : /\ Plays(client, CloseText(st) \o CloseReasoning(st), c)
                             /\ Agrees(c, r, parts')
    BY <1>19, <2>1
  <2>3. QED
    BY <1>18, <1>21, <2>1, <2>2
<1>23. ASSUME Part
       PROVE  \E c \in PClient : Plays(client, Finalize(st), c) /\ Agrees(c, Finalized(st), parts')
  BY <1>1, <1>6, <1>23, FinalizePlays
<1>24. CASE ConfirmationFails
  <2>1. Part /\ SendError(Finalize(st) \o <<Event("ToolCallStart", NewId, Finalized(st).last)>>, Finalized(st))
    BY <1>1, <1>24, FinalizedShut DEF ConfirmationFails
  <2>2. PICK c \in PClient : Plays(client, Finalize(st), c) /\ Agrees(c, Finalized(st), parts')
    BY <1>23, <2>1
  <2>3. QED
    BY <1>1, <1>21, <2>1, <2>2, FinalizedShut, ClosedType
<1>25. CASE Confirmation
  <2> DEFINE s == Finalized(st)
             state == <<Plain("StateSnapshot")>>
             messages == <<Plain("MessagesSnapshot")>>
  <2>1. PICK snapshots \in {<<>>, state, messages, <<Plain("StateSnapshot"), Plain("MessagesSnapshot")>>} :
          Send(Finalize(st) \o ToolCall(NewId, s.last) \o snapshots \o <<Plain("RunFinished")>>)
    BY <1>1, <1>25, FinalizedShut DEF Confirmation
  <2>2. Part /\ pc' = "finish" /\ Over(st')
    BY <1>1, <1>25, FinalizedShut DEF Confirmation
  <2>3. PICK c \in PClient : Plays(client, Finalize(st), c) /\ Agrees(c, s, parts')
    BY <1>23, <2>2
  <2>4. /\ s \in StreamState /\ s.text = 0 /\ s.phase = 0 /\ s.message = 0 /\ s.step = NoAuthor
    BY <1>1, FinalizedShut, ClosedType
  <2> HIDE DEF s
  <2>5. PICK b \in PClient : Plays(c, ToolCall(NewId, s.last), b) /\ Agrees(b, s, parts')
    BY <1>1, <1>6, <2>2, <2>3, <2>4, ToolCallPlays
  <2>6. Plays(b, snapshots, b)
    <3>1. Plays(b, state, b) /\ Plays(b, messages, b) /\ Plays(b, <<>>, b)
      BY <2>5, StandalonePlays, EmptyPlays DEF Agrees, Protocol!Standalone
    <3>2. Plays(b, state \o messages, b)
      BY <3>1, BothPlay
    <3>3. state \o messages = <<Plain("StateSnapshot"), Plain("MessagesSnapshot")>>
      <4>1. Plain("StateSnapshot") \in PEvent /\ Plain("MessagesSnapshot") \in PEvent
        BY EventType DEF Plain, Protocol!Standalone
      <4>2. QED
        BY <4>1, TwoOnes
    <3>4. QED
      BY <2>1, <3>1, <3>2, <3>3
  <2>7. PICK d \in PClient : Plays(b, <<Plain("RunFinished")>>, d) /\ d.status = "ended"
    BY <2>4, <2>5, EndPlays DEF Agrees
  <2>8. Plays(client, Finalize(st) \o ToolCall(NewId, s.last), b)
    BY <2>3, <2>5, BothPlay
  <2>9. Plays(client, Finalize(st) \o ToolCall(NewId, s.last) \o snapshots, b)
    BY <2>6, <2>8, BothPlay
  <2>10. Plays(client, Finalize(st) \o ToolCall(NewId, s.last) \o snapshots \o <<Plain("RunFinished")>>, d)
    BY <2>7, <2>9, BothPlay
  <2>11. Follows(pc', st', parts', d)
    BY <2>2, <2>7 DEF Follows
  <2>12. QED
    BY <1>1, <2>1, <2>7, <2>10, <2>11, SendsScript
<1>26. CASE EndEvent
  <2>1. Agrees(client, st, parts) /\ pc' = "loop" /\ parts' = parts
    BY <1>4, <1>26 DEF EndEvent, Ready
  <2>2. PICK delta \in {<<>>, <<Plain("StateDelta")>>} :
          \/ Send(delta \o Finalize(st)) /\ st' = Finalized(st)
          \/ Send(delta) /\ st' = st
    BY <1>26 DEF EndEvent
  <2>3. Plays(client, delta, client)
    BY <1>2, <2>1, <2>2, StandalonePlays DEF Agrees, Protocol!Standalone
  <2>4. CASE Send(delta) /\ st' = st
    <3>1. Follows(pc', st', parts', client)
      BY <2>1, <2>4 DEF Follows
    <3>2. QED
      BY <1>1, <2>3, <2>4, <3>1, SendsScript
  <2>5. CASE Send(delta \o Finalize(st)) /\ st' = Finalized(st)
    <3>1. PICK d \in PClient : Plays(client, Finalize(st), d) /\ Agrees(d, Finalized(st), parts)
      BY <1>1, <2>1, FinalizePlays
    <3>2. Plays(client, delta \o Finalize(st), d)
      BY <2>3, <3>1, BothPlay
    <3>3. Follows(pc', st', parts', d)
      BY <2>1, <2>5, <3>1 DEF Follows
    <3>4. QED
      BY <1>1, <2>5, <3>1, <3>2, <3>3, SendsScript
  <2>6. QED
    BY <2>2, <2>4, <2>5
<1>27. CASE AgentEnds
  <2>1. Follows(pc', st', parts', client) /\ outbox' = <<>>
    BY <1>1, <1>4, <1>27 DEF AgentEnds, Ready, Follows
  <2>2. QED
    BY <1>1, <1>2, <2>1, SendsScript DEF Send
<1>28. CASE Finish
  <2>1. pc = "finish" /\ pc' = "done"
    BY <1>28 DEF Finish, Ready
  <2>2. Send(Finalize(st) \o (IF st.final THEN <<>> ELSE <<Plain("RunFinished")>>))
    BY <1>28 DEF Finish
  <2>3. CASE Agrees(client, st, parts)
    <3>1. PICK c \in PClient : Plays(client, Finalize(st), c) /\ Agrees(c, Finalized(st), parts)
      BY <1>1, <2>3, FinalizePlays
    <3>2. PICK d \in PClient : Plays(c, <<Plain("RunFinished")>>, d) /\ d.status = "ended"
      BY <1>1, <3>1, FinalizedShut, EndPlays DEF Agrees
    <3>3. st.final = FALSE
      BY <2>3 DEF Agrees
    <3>4. Plays(client, Finalize(st) \o (IF st.final THEN <<>> ELSE <<Plain("RunFinished")>>), d)
      BY <3>1, <3>2, <3>3, BothPlay
    <3>5. Follows(pc', st', parts', d)
      BY <2>1, <3>2 DEF Follows
    <3>6. QED
      BY <1>1, <2>2, <3>2, <3>4, <3>5, SendsScript
  <2>4. CASE Over(st) /\ client.status = "ended"
    <3>1. CloseText(st) = <<>> /\ CloseReasoning(st) = <<>> \o <<>> /\ CloseStep(st) = <<>>
      BY <2>4 DEF Over, CloseText, CloseReasoning, CloseStep
    <3>2. Plays(client, <<>> \o <<>>, client)
      BY <1>2, BothPlay
    <3>3. Plays(client, CloseText(st) \o CloseReasoning(st), client)
      BY <1>2, <3>1, <3>2, BothPlay
    <3>4. Plays(client, Finalize(st), client)
      BY <1>2, <3>1, <3>3, BothPlay DEF Finalize
    <3>5. Plays(client, Finalize(st) \o (IF st.final THEN <<>> ELSE <<Plain("RunFinished")>>), client)
      BY <1>2, <2>4, <3>4, BothPlay DEF Over
    <3>6. Follows(pc', st', parts', client)
      BY <2>1, <2>4 DEF Follows
    <3>7. QED
      BY <1>1, <2>2, <3>5, <3>6, SendsScript
  <2>5. QED
    BY <1>3, <2>1, <2>3, <2>4 DEF Follows
<1>29. QED
  BY <1>7, <1>8, <1>9, <1>10, <1>11, <1>12, <1>13, <1>14, <1>15, <1>16, <1>17, <1>20, <1>22,
     <1>24, <1>25, <1>26, <1>27, <1>28 DEF Handle

-----------------------------------------------------------------------------
(* The theorems.                                                            *)

StreamInv ==
  /\ Locals
  /\ client \in PClient
  /\ outbox \in Seq(PEvent)
  /\ Scripted

\* A script that can be read is a sequence of events.
LEMMA ScriptType ==
  ASSUME Scripted
  PROVE  outbox \in Seq(PEvent)
<1>1. CASE broken
  BY <1>1 DEF Scripted
<1>2. CASE ~broken
  BY <1>2 DEF Scripted, Plays, Reading
<1>3. QED
  BY <1>1, <1>2

\* The handler starts with RunStarted on its way to a client that expects it.
LEMMA InitScripted ==
  ASSUME Init
  PROVE  StreamInv
<1> DEFINE c == Protocol!NewClient
           e == Plain("RunStarted")
           d == [c EXCEPT !.status = "running"]
<1>1. Locals
  <2>1. 0 \in 0..MaxParts /\ 0 \in 0..MaxThought
    BY StreamBounds
  <2>2. st \in StreamState
    BY <2>1 DEF Init, StreamState
  <2>3. cur \in [author : Authors \cup {NoAuthor}, partial : BOOLEAN]
    BY DEF Init, Silent
  <2>4. voice \in [Authors -> 0..MaxThought] /\ told \in [Authors -> Nat]
    BY <2>1 DEF Init
  <2>5. QED
    BY <2>1, <2>2, <2>3, <2>4 DEF Init, Locals
<1>2. client = c /\ c \in PClient /\ d \in PClient
  BY DEF Init, Protocol!Init, Protocol!NewClient, PClient, Protocol!Client, Protocol!Status
<1>3. e \in PEvent /\ e.kind = "RunStarted"
  BY EventType DEF Plain, Event
<1>4. Agrees(d, st, parts)
  BY DEF Init, Agrees, Protocol!NewClient
<1>5. c.status = "new"
  BY DEF Protocol!NewClient
<1>6. Follows(pc, st, parts, d)
  BY <1>4 DEF Init, Follows
<1> HIDE DEF c, e
<1>7. Protocol!Allowed(c, e) /\ Protocol!Reads(c, e) = d
  <2>1. Protocol!Allowed(c, e)
    BY <1>3, <1>5 DEF Protocol!Allowed
  <2>2. Protocol!Reads(c, e) = d
    BY <1>3 DEF Protocol!Reads, Protocol!Terminal
  <2>3. QED
    BY <2>1, <2>2
<1> HIDE DEF d
<1>8. Plays(c, <<e>>, d)
  BY <1>2, <1>3, <1>7, OnePlays
<1>9. Scripted
  BY <1>2, <1>6, <1>8 DEF Scripted, Init, e
<1>10. QED
  BY <1>1, <1>2, <1>9, ScriptType DEF StreamInv

\* What the handler decides reaches the client by an emit only.
LEMMA HandleKeepsWire ==
  ASSUME Handle
  PROVE  client' = client /\ shown' = shown
BY DEF Handle, LeaveUnstarted, RefuseRun, StartRun, NextEvent, AgentFails, StopBroken,
       Converted, PartFails, Thought, Text, Repeated, FunctionCall, FunctionCallFails,
       FunctionResponse, Confirmation, ConfirmationFails, EndEvent, StopAfterTail,
       AgentEnds, Finish, Part, wire

\* One emit takes the head of the script.  What the hooks make of it is as good to the
\* client, who can read it.
LEMMA EmitReads ==
  ASSUME HooksKeepBrackets, StreamInv, Emit
  PROVE  /\ \E e \in PEvent : /\ Protocol!Allowed(client, e)
                             /\ client' = Protocol!Reads(client, e)
                             /\ shown' = <<e, 1 - shown[2]>>
         /\ StreamInv'
<1>1. ~broken
  BY DEF StreamInv, Emit, Scripted
<1>2. PICK d \in PClient : Plays(client, outbox, d) /\ Follows(pc, st, parts, d)
  BY <1>1 DEF StreamInv, Scripted
<1> DEFINE h == Head(outbox)
<1>9. /\ h \in PEvent /\ Protocol!Allowed(client, h)
      /\ Plays(Protocol!Reads(client, h), Tail(outbox), d)
  BY <1>2, HeadPlays DEF Emit
<1>10. PICK e \in OnEmit[h] \ {Nil} : client' = Protocol!Reads(client, e)
                                   /\ shown' = <<e, 1 - shown[2]>>
  BY DEF Emit
<1>11. e \in PEvent /\ Protocol!Allowed(client, e)
       /\ Protocol!Reads(client, e) = Protocol!Reads(client, h)
  <2> HIDE DEF h
  <2>1. CASE h.kind \in Protocol!Standalone
    <3>1. e \in PEvent /\ e.kind \in Protocol!Standalone
      BY <1>9, <1>10, <2>1 DEF HooksKeepBrackets, PEvent
    <3>2. QED
      BY <1>9, <2>1, <3>1, AsideReads
  <2>2. CASE h.kind \notin Protocol!Standalone
    <3>1. e = h
      BY <1>9, <1>10, <2>2 DEF HooksKeepBrackets, PEvent
    <3>2. QED
      BY <1>9, <3>1
  <2>3. QED
    BY <2>1, <2>2
<1>3. /\ \E x \in PEvent : /\ Protocol!Allowed(client, x)
                          /\ client' = Protocol!Reads(client, x)
                          /\ shown' = <<x, 1 - shown[2]>>
      /\ Plays(client', outbox', d)
  <2>1. outbox' = Tail(outbox)
    BY DEF Emit
  <2> HIDE DEF h
  <2>2. QED
    BY <1>9, <1>10, <1>11, <2>1
<1>4. UNCHANGED <<pc, st, cur, parts, broken, voice, told, order>>
  BY DEF Emit, agent
<1>5. Locals'
  BY <1>4 DEF StreamInv, Locals
<1>6. client' \in PClient /\ outbox' \in Seq(PEvent)
  BY <1>3 DEF Plays, Reading
<1>7. Scripted'
  <2>1. d \in PClient /\ Plays(client', outbox', d) /\ Follows(pc', st', parts', d) /\ ~broken'
    BY <1>1, <1>2, <1>3, <1>4
  <2>2. QED
    BY <2>1 DEF Scripted, Plays, Reading, Follows, Agrees, Over
<1>8. QED
  BY <1>3, <1>5, <1>6, <1>7 DEF StreamInv

\* A swallowed event opens and closes nothing, so the rest can be read as well.
LEMMA SuppressSkips ==
  ASSUME HooksKeepBrackets, StreamInv, Suppress
  PROVE  StreamInv' /\ client' = client /\ shown' = shown
<1>1. ~broken
  BY DEF StreamInv, Suppress, Scripted
<1>2. PICK d \in PClient : Plays(client, outbox, d) /\ Follows(pc, st, parts, d)
  BY <1>1 DEF StreamInv, Scripted
<1>3. UNCHANGED <<pc, st, cur, parts, broken, voice, told, order, client, shown>>
  BY DEF Suppress, agent, wire
<1>4. Head(outbox) \in PEvent /\ Plays(Protocol!Reads(client, Head(outbox)), outbox', d)
  BY <1>2, HeadPlays DEF Suppress
<1>5. Protocol!Reads(client, Head(outbox)) = client
  <2>1. Head(outbox).kind \in Protocol!Standalone
    <3>1. Nil \in OnEmit[Head(outbox)]
      BY DEF Suppress
    <3>2. Nil \notin PEvent
      BY DEF Nil, Plain, Event, PEvent, Protocol!Event, Protocol!Standalone, Protocol!Terminal
    <3>3. QED
      BY <1>4, <3>1, <3>2 DEF HooksKeepBrackets, PEvent
  <2>2. QED
    BY <2>1, AsideReads
<1>6. Scripted'
  <2>1. d \in PClient /\ Plays(client', outbox', d) /\ Follows(pc', st', parts', d) /\ ~broken'
    BY <1>1, <1>2, <1>3, <1>4, <1>5
  <2>2. QED
    BY <2>1 DEF Scripted, Plays, Reading, Follows, Agrees, Over
<1>7. Locals'
  BY <1>3 DEF StreamInv, Locals
<1>8. outbox' \in Seq(PEvent)
  BY <1>4 DEF Plays, Reading
<1>9. QED
  BY <1>3, <1>6, <1>7, <1>8 DEF StreamInv

\* A failed emit ends the script.
LEMMA EmitFailsSilences ==
  ASSUME StreamInv, EmitFails
  PROVE  StreamInv' /\ client' = client /\ shown' = shown
<1>1. /\ broken' = TRUE /\ outbox' = <<>>
      /\ UNCHANGED <<pc, st, cur, parts, voice, told, order, client, shown>>
  BY DEF EmitFails, agent, wire
<1>2. Locals'
  BY <1>1 DEF StreamInv, Locals
<1>3. Scripted'
  BY <1>1 DEF Scripted
<1>4. QED
  BY <1>1, <1>2, <1>3 DEF StreamInv

\* A step of the handler adds a script.
LEMMA HandleSends ==
  ASSUME ConverterStandsAside, StreamInv, Handle
  PROVE  StreamInv' /\ client' = client /\ shown' = shown
<1>1. Locals' /\ client' = client /\ shown' = shown
  BY HandleType, HandleKeepsWire DEF StreamInv
<1>2. Scripted'
  BY StaysBroken, HandleScripts DEF StreamInv
<1>3. outbox' \in Seq(PEvent)
  <2>1. CASE broken'
    BY <1>2, <2>1 DEF Scripted
  <2>2. CASE ~broken'
    BY <1>2, <2>2 DEF Scripted, Plays, Reading
  <2>3. QED
    BY <2>1, <2>2
<1>4. QED
  BY <1>1, <1>2, <1>3 DEF StreamInv

\* Nothing happens.
LEMMA StutterKeeps ==
  ASSUME StreamInv, UNCHANGED vars
  PROVE  StreamInv' /\ client' = client /\ shown' = shown
<1>1. /\ UNCHANGED <<pc, st, cur, parts, outbox, broken, voice, told, order>>
      /\ client' = client /\ shown' = shown
  BY DEF vars
<1>2. Locals'
  BY <1>1 DEF StreamInv, Locals
<1>3. Scripted'
  <2>1. CASE broken
    BY <1>1, <2>1 DEF StreamInv, Scripted
  <2>2. CASE ~broken
    <3>1. PICK d \in PClient : Plays(client, outbox, d) /\ Follows(pc, st, parts, d)
      BY <2>2 DEF StreamInv, Scripted
    <3>2. d \in PClient /\ Plays(client', outbox', d) /\ Follows(pc', st', parts', d) /\ ~broken'
      BY <1>1, <2>2, <3>1
    <3>3. QED
      BY <3>2 DEF Scripted, Plays, Reading, Follows, Agrees, Over
  <2>3. QED
    BY <2>1, <2>2
<1>4. QED
  BY <1>1, <1>2, <1>3 DEF StreamInv

\* No step of the specification leaves the invariant.
LEMMA StepInv ==
  ASSUME Unobtrusive, StreamInv, [Next]_vars
  PROVE  StreamInv'
<1> USE DEF Unobtrusive
<1>1. CASE Emit
  BY <1>1, EmitReads
<1>2. CASE Suppress
  BY <1>2, SuppressSkips
<1>3. CASE EmitFails
  BY <1>3, EmitFailsSilences
<1>4. CASE Handle
  BY <1>4, HandleSends
<1>5. CASE Returned \/ UNCHANGED vars
  BY <1>5, StutterKeeps DEF Returned
<1>6. QED
  BY <1>1, <1>2, <1>3, <1>4, <1>5 DEF Next

\* In every state what processEvent and the helpers of stream.go decided to
\* emit can be read by the client to the end, and streamState then says what
\* the client holds open (agui/stream.go).
THEOREM StreamInvariance == Unobtrusive => (Spec => []StreamInv)
<1> SUFFICES ASSUME Unobtrusive
             PROVE  Spec => []StreamInv
  OBVIOUS
<1>1. Init => StreamInv
  BY InitScripted
<1>2. StreamInv /\ [Next]_vars => StreamInv'
  BY StepInv
<1>3. QED
  BY <1>1, <1>2, PTL DEF Spec

\* streamState, the outbox and the client keep their types: the ids are those of
\* parts, and an Unobtrusive converter and OnEmit do not let the client hold what
\* never was (agui/stream.go, type streamState).
THEOREM TypeCorrect == Unobtrusive => (Spec => []TypeOK)
<1> SUFFICES ASSUME Unobtrusive
             PROVE  Spec => []TypeOK
  OBVIOUS
<1>1. StreamInv => TypeOK
  BY DEF StreamInv, Locals, TypeOK, PEvent, PClient
<1>2. QED
  BY <1>1, StreamInvariance, PTL

\* When runSSEFunc has returned and every emit succeeded, the client has read its
\* terminal event, on whichever path the run ended, whatever Unobtrusive converter and
\* hooks do (agui/agui.go).
THEOREM ReturnedHasEnded == Unobtrusive => (Spec => []ReturnedMeansEnded)
<1> SUFFICES ASSUME Unobtrusive
             PROVE  Spec => []ReturnedMeansEnded
  OBVIOUS
<1>1. StreamInv => ReturnedMeansEnded
  <2> SUFFICES ASSUME StreamInv, Ready("done"), ~broken
               PROVE  client.status = "ended"
    BY DEF ReturnedMeansEnded
  <2>1. PICK d \in PClient : Plays(client, <<>>, d) /\ Follows("done", st, parts, d)
    BY DEF StreamInv, Scripted, Ready
  <2>2. client = d
    BY <2>1, PlaysNothing
  <2>3. QED
    BY <2>1, <2>2 DEF Follows
<1>2. QED
  BY <1>1, StreamInvariance, PTL

\* The handler implements the AG-UI protocol: whatever the agent yields, wherever an
\* emit fails and however many events a converter returns, every event that reaches
\* the client is one it may read then.  This takes a converter whose events stand
\* alone and hooks that leave the other events as they are: the launcher passes on
\* whatever they return (agui/stream.go, agui/agui.go, agui/interceptor.go).
THEOREM KeepsProtocol == Unobtrusive => (Spec => ProtocolSpec)
<1> SUFFICES ASSUME Unobtrusive
             PROVE  Spec => ProtocolSpec
  OBVIOUS
<1>1. Init => Protocol!Init
  BY DEF Init
<1>2. StreamInv /\ [Next]_vars => [Protocol!Next]_(Protocol!pvars)
  <2> SUFFICES ASSUME StreamInv, [Next]_vars
               PROVE  Protocol!Next \/ (client' = client /\ shown' = shown)
    BY DEF Protocol!pvars
  <2>1. CASE Emit
    <3>1. PICK e \in PEvent : /\ Protocol!Allowed(client, e)
                              /\ client' = Protocol!Reads(client, e)
                              /\ shown' = <<e, 1 - shown[2]>>
      BY <2>1, EmitReads DEF Unobtrusive
    <3>2. shown'[1] = e
      BY <3>1
    <3>3. QED
      BY <3>1, <3>2 DEF Protocol!Next, Protocol!Read, PEvent
  <2>2. CASE Suppress
    BY <2>2, SuppressSkips DEF Unobtrusive
  <2>3. CASE EmitFails
    BY <2>3, EmitFailsSilences
  <2>4. CASE Handle
    BY <2>4, HandleSends DEF Unobtrusive
  <2>5. CASE Returned \/ UNCHANGED vars
    BY <2>5, StutterKeeps DEF Returned
  <2>6. QED
    BY <2>1, <2>2, <2>3, <2>4, <2>5 DEF Next
<1>3. QED
  BY <1>1, <1>2, StreamInvariance, PTL DEF Spec, ProtocolSpec, Protocol!Spec

-----------------------------------------------------------------------------
(* Thoughts in turns.                                                       *)

\* When authors take turns at most one of them is in a thought, and
\* emittedReasoningLen is about that one.
OneThinks ==
  /\ \A a, b \in Authors : voice[a] # 0 /\ voice[b] # 0 => a = b
  /\ \A a \in Authors : voice[a] # 0 => st.rlen = voice[a]
  /\ (\A a \in Authors : voice[a] = 0) => st.rlen = 0
  /\ pc = "parts" => \A b \in Authors \ {cur.author} : voice[b] = 0

TurnInv ==
  order = "turns" /\ ~broken =>
    /\ \A a \in Authors : told[a] = voice[a]
    /\ pc \in {"preamble", "loop", "parts"} => OneThinks

\* Which helpers reset emittedReasoningLen and which leave it.
LEMMA LengthOfClosed ==
  ASSUME NEW s \in StreamState
  PROVE  /\ ReasoningClosed(s).rlen = 0 /\ TextClosed(s).rlen = s.rlen
         /\ ReasoningClosed(TextClosed(s)).rlen = 0
         /\ Finalized(s).rlen = 0
<1>1. \A r \in StreamState : ReasoningClosed(r).rlen = 0
  BY DEF ReasoningClosed, StreamState
<1>2. \A r \in StreamState : StepClosed(r).rlen = r.rlen
  BY DEF StepClosed, StreamState
<1>3. TextClosed(s).rlen = s.rlen /\ TextClosed(s) \in StreamState
  BY ClosedType DEF TextClosed, StreamState
<1>4. QED
  BY <1>1, <1>2, <1>3, ClosedType DEF Finalized

\* When the author who has the turn stops thinking nobody thinks.
LEMMA ThoughtOverTurns ==
  ASSUME Locals, TurnInv, order = "turns", ~broken, pc = "parts",
         ThoughtOver(cur.author), st'.rlen = 0
  PROVE  (\A a \in Authors : told'[a] = voice'[a] /\ voice'[a] = 0) /\ OneThinks'
<1>1. \A a \in Authors : told[a] = voice[a] /\ (a # cur.author => voice[a] = 0)
  BY DEF TurnInv, OneThinks
<1>2. \A a \in Authors : voice'[a] = 0 /\ told'[a] = 0
  BY <1>1 DEF ThoughtOver
<1>3. QED
  BY <1>2 DEF OneThinks

\* Every step of the handler keeps the one thinker and what he was told of.
LEMMA HandleTurns ==
  ASSUME Locals, TurnInv, Handle
  PROVE  TurnInv'
<1>1. SUFFICES ASSUME order' = "turns", ~broken'
               PROVE  /\ \A a \in Authors : told'[a] = voice'[a]
                      /\ pc' \in {"preamble", "loop", "parts"} => OneThinks'
  BY DEF TurnInv
<1>2. order = "turns" /\ ~broken
  <2>1. \A a : ThoughtOver(a) => order' = order
    BY DEF ThoughtOver
  <2>2. UNCHANGED agent => order' = order
    BY DEF agent
  <2>3. order' = order
    BY <2>1, <2>2
       DEF Handle, LeaveUnstarted, RefuseRun, StartRun, NextEvent, AgentFails, StopBroken,
           Converted, PartFails, Thought, Text, Repeated, FunctionCall, FunctionCallFails,
           FunctionResponse, Confirmation, ConfirmationFails, EndEvent, StopAfterTail,
           AgentEnds, Finish
  <2>4. broken' = broken
    BY DEF Handle, LeaveUnstarted, RefuseRun, StartRun, NextEvent, AgentFails, StopBroken,
           Converted, PartFails, Thought, Text, Repeated, FunctionCall, FunctionCallFails,
           FunctionResponse, Confirmation, ConfirmationFails, EndEvent, StopAfterTail,
           AgentEnds, Finish, Part
  <2>5. QED
    BY <1>1, <2>3, <2>4
<1>3. /\ \A a \in Authors : told[a] = voice[a]
      /\ pc \in {"preamble", "loop", "parts"} => OneThinks
      /\ st \in StreamState
  BY <1>2 DEF TurnInv, Locals
<1>4. ASSUME UNCHANGED agent, pc' \in {"done", "finish"}
      PROVE  TurnInv'
  BY <1>3, <1>4 DEF agent, TurnInv
<1>5. CASE LeaveUnstarted \/ RefuseRun \/ AgentFails \/ StopBroken \/ PartFails
           \/ FunctionCallFails \/ Confirmation \/ ConfirmationFails \/ StopAfterTail
           \/ AgentEnds \/ Finish
  <2>1. UNCHANGED agent /\ pc' \in {"done", "finish"}
    BY <1>5 DEF LeaveUnstarted, RefuseRun, AgentFails, StopBroken, PartFails, FunctionCallFails,
                Confirmation, ConfirmationFails, StopAfterTail, AgentEnds, Finish, SendError
  <2>2. QED
    BY <1>1, <1>4, <2>1 DEF TurnInv
<1>6. CASE StartRun
  <2>1. UNCHANGED <<st, cur, voice, told>> /\ pc = "preamble" /\ pc' = "loop"
    BY <1>6 DEF StartRun, Ready, agent
  <2>2. QED
    BY <1>3, <2>1 DEF OneThinks
<1>7. CASE NextEvent
  <2>1. PICK a \in Authors \cup {NoAuthor}, partial \in BOOLEAN :
          MaySpeak(a) /\ cur' = [author |-> a, partial |-> partial] /\ st' = StepChanged(a)
    BY <1>7 DEF NextEvent
  <2>2. UNCHANGED <<voice, told>> /\ pc = "loop" /\ pc' = "parts"
    BY <1>7 DEF NextEvent, Ready, agent
  <2>3. st'.rlen = st.rlen
    BY <1>3, <2>1 DEF StepChanged, StreamState
  <2>4. \A b \in Authors \ {a} : voice[b] = 0
    BY <1>2, <2>1 DEF MaySpeak
  <2>5. QED
    BY <1>3, <2>1, <2>2, <2>3, <2>4 DEF OneThinks
<1>8. CASE Converted \/ FunctionResponse
  <2>1. UNCHANGED <<pc, st, cur, voice, told>>
    BY <1>8 DEF Converted, FunctionResponse, Part, agent
  <2>2. QED
    BY <1>3, <2>1 DEF OneThinks
<1>9. CASE Thought
  <2> DEFINE a == cur.author
  <2>1. PICK len \in {n \in 1..MaxThought : n >= voice[a]} :
          /\ voice' = [voice EXCEPT ![a] = len]
          /\ \/ len <= st.rlen /\ UNCHANGED <<st, told>>
             \/ /\ len > st.rlen /\ st'.rlen = len
                /\ told' = [told EXCEPT ![a] = @ + (len - st.rlen)]
    <3>1. PICK len \in {n \in 1..MaxThought : n >= voice[a]} :
            /\ voice' = [voice EXCEPT ![a] = len]
            /\ IF len <= st.rlen
               THEN UNCHANGED <<st, told>>
               ELSE /\ \E p, m : st' = [TextClosed(st) EXCEPT !.rlen = Emitted(len), !.phase = p, !.message = m]
                    /\ told' = [told EXCEPT ![a] = @ + (len - st.rlen)]
      BY <1>9 DEF Thought
    <3>2. \A s \in StreamState : \A p, m :
            [s EXCEPT !.rlen = Emitted(len), !.phase = p, !.message = m].rlen = len
      BY DEF Emitted, StreamState
    <3>3. len > st.rlen <=> ~(len <= st.rlen)
      BY <1>3, StreamBounds DEF StreamState
    <3>4. TextClosed(st) \in StreamState
      BY <1>3, ClosedType
    <3>5. len > st.rlen => st'.rlen = len
      <4> SUFFICES ASSUME len > st.rlen
                   PROVE  st'.rlen = len
        OBVIOUS
      <4>1. PICK p, m : st' = [TextClosed(st) EXCEPT !.rlen = Emitted(len), !.phase = p, !.message = m]
        BY <3>1, <3>3
      <4>2. [TextClosed(st) EXCEPT !.rlen = Emitted(len), !.phase = p, !.message = m].rlen = len
        BY <3>2, <3>4
      <4>3. QED
        BY <4>1, <4>2
    <3>6. /\ len <= st.rlen => UNCHANGED <<st, told>>
          /\ len > st.rlen => told' = [told EXCEPT ![a] = @ + (len - st.rlen)]
          /\ len <= st.rlen \/ len > st.rlen
      BY <3>1, <3>3
    <3> HIDE DEF a
    <3>7. QED
      BY <3>1, <3>5, <3>6
  <2>2. a \in Authors /\ pc = "parts" /\ pc' = "parts" /\ cur' = cur
    BY <1>9 DEF Thought, Part, Ready
  <2>3. /\ voice \in [Authors -> 0..MaxThought] /\ told \in [Authors -> Nat]
        /\ st.rlen \in Nat /\ len \in Nat /\ len > 0 /\ voice[a] \in Nat /\ voice[a] <= len
        /\ told[a] \in Nat
    BY <1>3, <2>1, <2>2, StreamBounds DEF Locals, StreamState
  <2>4. told[a] = voice[a] /\ st.rlen = voice[a] /\ \A b \in Authors \ {a} : voice[b] = 0
    BY <1>3, <2>2 DEF OneThinks
  <2>5. voice'[a] = len /\ \A b \in Authors \ {a} : voice'[b] = voice[b]
    BY <2>1, <2>2, <2>3
  <2>6. told'[a] = len /\ (\A b \in Authors \ {a} : told'[b] = told[b]) /\ st'.rlen = len
    BY <2>1, <2>2, <2>3, <2>4
  <2> HIDE DEF a
  <2>7. \A b \in Authors : told'[b] = voice'[b]
    BY <1>3, <2>5, <2>6
  <2>8. OneThinks'
    BY <2>2, <2>3, <2>4, <2>5, <2>6 DEF OneThinks, a
  <2>9. QED
    BY <2>7, <2>8
<1>10. CASE Text
  <2>1. pc = "parts" /\ ThoughtOver(cur.author)
    BY <1>10 DEF Text, Part, Ready
  <2>2. st'.rlen = 0
    <3>1. \E id : st' = [ReasoningClosed(st) EXCEPT !.text = id]
      BY <1>10 DEF Text
    <3>2. \A s \in StreamState : \A id : [s EXCEPT !.text = id].rlen = s.rlen
      BY DEF StreamState
    <3>3. QED
      BY <1>3, <3>1, <3>2, ClosedType, LengthOfClosed
  <2>3. QED
    BY <1>2, <2>1, <2>2, ThoughtOverTurns
<1>11. CASE Repeated
  <2>1. pc = "parts" /\ pc' = pc /\ cur' = cur
    BY <1>11 DEF Repeated, Part, Ready
  <2>2. \/ UNCHANGED <<st, voice, told>>
        \/ st' = ReasoningClosed(st) /\ ThoughtOver(cur.author)
    BY <1>11 DEF Repeated, agent
  <2>3. CASE UNCHANGED <<st, voice, told>>
    BY <1>3, <2>1, <2>3 DEF OneThinks
  <2>4. CASE st' = ReasoningClosed(st) /\ ThoughtOver(cur.author)
    BY <1>2, <1>3, <2>1, <2>4, LengthOfClosed, ThoughtOverTurns
  <2>5. QED
    BY <2>2, <2>3, <2>4
<1>12. CASE FunctionCall
  <2>1. pc = "parts" /\ ThoughtOver(cur.author) /\ st' = ReasoningClosed(TextClosed(st))
    BY <1>12 DEF FunctionCall, Part, Ready
  <2>2. QED
    BY <1>2, <1>3, <2>1, LengthOfClosed, ThoughtOverTurns
<1>13. CASE EndEvent
  <2>1. /\ pc = "parts" /\ pc' = "loop"
        /\ \/ st' = Finalized(st) /\ ThoughtOver(cur.author)
           \/ UNCHANGED <<st, voice, told>>
    BY <1>13 DEF EndEvent, Ready, agent
  <2>2. CASE st' = Finalized(st) /\ ThoughtOver(cur.author)
    BY <1>2, <1>3, <2>1, <2>2, LengthOfClosed, ThoughtOverTurns
  <2>3. CASE UNCHANGED <<st, voice, told>>
    BY <1>3, <2>1, <2>3 DEF OneThinks
  <2>4. QED
    BY <2>1, <2>2, <2>3
<1>14. QED
  BY <1>5, <1>6, <1>7, <1>8, <1>9, <1>10, <1>11, <1>12, <1>13 DEF Handle

\* Under authors that take turns, each author's thoughts reach the client
\* entirely and once, although partial events repeat them and one length
\* serves all authors (agui/stream.go, emittedReasoningLen).
THEOREM TurnsDeliverThoughts == Spec => []TurnsArriveOnce
<1> DEFINE Inv == Locals /\ TurnInv
<1>1. Init => Inv
  <2> SUFFICES ASSUME Init
               PROVE  Inv
    OBVIOUS
  <2>1. Locals
    BY InitScripted DEF StreamInv
  <2>2. TurnInv
    BY DEF Init, TurnInv, OneThinks
  <2>3. QED
    BY <2>1, <2>2
<1>2. Inv /\ [Next]_vars => Inv'
  <2> SUFFICES ASSUME Locals, TurnInv, [Next]_vars
               PROVE  Locals' /\ TurnInv'
    OBVIOUS
  <2>1. CASE Emit \/ Suppress \/ EmitFails
    <3>1. UNCHANGED <<pc, st, cur, parts, voice, told, order>> /\ broken' \in {broken, TRUE}
      BY <2>1 DEF Emit, Suppress, EmitFails, agent
    <3>2. QED
      BY <3>1 DEF Locals, TurnInv, OneThinks
  <2>2. CASE Handle
    BY <2>2, HandleType, HandleTurns
  <2>3. CASE Returned \/ UNCHANGED vars
    BY <2>3 DEF Returned, vars, Locals, TurnInv, OneThinks
  <2>4. QED
    BY <2>1, <2>2, <2>3 DEF Next
<1>3. Inv => TurnsArriveOnce
  BY DEF TurnInv, TurnsArriveOnce, ThoughtsArriveOnce
<1>4. QED
  BY <1>1, <1>2, <1>3, PTL DEF Spec
=============================================================================
