------------------------------ MODULE Stream ------------------------------
(***************************************************************************)
(* How one run_sse request turns the events of the ADK agent into AG-UI     *)
(* events (agui/stream.go, and the event loop of runSSEFunc in              *)
(* agui/agui.go).                                                           *)
(*                                                                          *)
(* The handler decides on a few AG-UI events at a time and emits them one   *)
(* by one.  Nothing but the emitter's sticky error depends on the outcome   *)
(* of an emit before the next part is looked at, so an action of the        *)
(* handler puts its events in `outbox` and Emit takes them out, one step    *)
(* per call of emitter.emit.                                                *)
(*                                                                          *)
(* An operator marked "Mutant" is wrong on purpose and used nowhere: put in *)
(* the place of the definition below it, it must break a property.          *)
(***************************************************************************)
EXTENDS Naturals, Sequences

CONSTANTS
  Authors,       \* the authors of ADK events
  Root,          \* config.appName: the author without steps
  NoAuthor,      \* currentStepAuthor = "", or an event without author
  MaxParts,      \* bound: content parts in a run; a part number is a fresh id
  MaxThought,    \* bound: length of the thought text of one model call
  Voices,        \* who may speak when: see MaySpeak
  Unmarshalable, \* may arguments fail to marshal to JSON
  Conversions,   \* the lists of events GenAIPartConverter may return for a part
  OnEmit         \* what the OnEmit chain may make of each event

ASSUME StreamBounds == MaxParts \in Nat /\ MaxThought \in Nat
ASSUME StreamAuthors == Root \in Authors /\ NoAuthor \notin Authors
ASSUME StreamOptions == Voices \subseteq {"turns", "parallel"} /\ Unmarshalable \in BOOLEAN

VARIABLES
  pc,      \* where the handler is
  st,      \* streamState
  cur,     \* the ADK event in processEvent: author, partial
  parts,   \* how many parts were processed
  outbox,  \* events decided on and not yet emitted
  broken,  \* emitter.err # nil
  voice,   \* per author: length of the thought text in its current model call
  told,    \* per author: how much of that the run has put in REASONING events
  order,   \* one of Voices, for the whole run
  client,  \* what the client holds open (AGUIProtocol)
  shown    \* the last event that reached it

vars == <<pc, st, cur, parts, outbox, broken, voice, told, order, client, shown>>
agent == <<voice, told, order>>
wire == <<client, shown>>

Ids == 1..MaxParts
Protocol == INSTANCE AGUIProtocol WITH Ids <- Ids, Authors <- Authors \ {Root}

\* currentTextMessageID, currentReasoningPhaseID, currentReasoningMessageID,
\* lastTextMessageID, currentStepAuthor, emittedReasoningLen, runFinalized.
StreamState == [text : Ids \cup {0}, phase : Ids \cup {0}, message : Ids \cup {0},
                last : Ids \cup {0}, step : Authors \cup {NoAuthor},
                rlen : 0..MaxThought, final : BOOLEAN]

Event(kind, id, of) == [kind |-> kind, id |-> id, of |-> of]
Plain(kind) == Event(kind, 0, 0)

\* An OnEmit hook returns the event, another one, or nil.  Both the converter and the
\* hooks are the application's, and the launcher checks neither.
Nil == Plain("nil")
ASSUME ConversionsAssumption == Conversions \subseteq Seq(Protocol!Event)
ASSUME OnEmitAssumption ==
  OnEmit \in [Protocol!Event -> (SUBSET (Protocol!Event \cup {Nil})) \ {{}}]

\* What an application has to respect for the launcher's brackets to reach the client
\* unharmed: its own events stand alone, and hooks drop or exchange only those that do.
ConverterStandsAside ==
  \A events \in Conversions : \A i \in 1..Len(events) : events[i].kind \in Protocol!Standalone
HooksKeepBrackets ==
  \A e \in Protocol!Event :
    OnEmit[e] \subseteq IF e.kind \in Protocol!Standalone
                        THEN {Nil} \cup {f \in Protocol!Event : f.kind \in Protocol!Standalone}
                        ELSE {e}
Unobtrusive == ConverterStandsAside /\ HooksKeepBrackets

Silent == [author |-> NoAuthor, partial |-> FALSE]

Init ==
  /\ pc = "preamble"
  /\ st = [text |-> 0, phase |-> 0, message |-> 0, last |-> 0,
           step |-> NoAuthor, rlen |-> 0, final |-> FALSE]
  /\ cur = Silent
  /\ parts = 0
  /\ outbox = <<Plain("RunStarted")>>
  /\ broken = FALSE
  /\ voice = [a \in Authors |-> 0]
  /\ told = [a \in Authors |-> 0]
  /\ order \in Voices
  /\ Protocol!Init

-----------------------------------------------------------------------------
(* The closing helpers: the events they emit and the state they leave.      *)

CloseText(s) == IF s.text = 0 THEN <<>> ELSE <<Event("TextMessageEnd", s.text, 0)>>
TextClosed(s) ==
  IF s.text = 0 THEN s ELSE [s EXCEPT !.last = s.text, !.text = 0]

CloseReasoning(s) ==
  (IF s.message = 0 THEN <<>> ELSE <<Event("ReasoningMessageEnd", s.message, 0)>>) \o
  (IF s.phase = 0 THEN <<>> ELSE <<Event("ReasoningEnd", s.phase, 0)>>)
\* Mutant: the length emitted survives.
ReasoningClosedNotReset(s) == [s EXCEPT !.message = 0, !.phase = 0]
ReasoningClosed(s) == [s EXCEPT !.message = 0, !.phase = 0, !.rlen = 0]

CloseStep(s) == IF s.step = NoAuthor THEN <<>> ELSE <<Event("StepFinished", 0, s.step)>>
StepClosed(s) == [s EXCEPT !.step = NoAuthor]

\* finalizeLifecycle.  Mutant: the run counts as ended.
Finalize(s) == CloseText(s) \o CloseReasoning(s) \o CloseStep(s)
FinalizedForGood(s) == [StepClosed(ReasoningClosed(TextClosed(s))) EXCEPT !.final = TRUE]
Finalized(s) == StepClosed(ReasoningClosed(TextClosed(s)))

ToolCall(id, parent) ==
  <<Event("ToolCallStart", id, parent), Event("ToolCallArgs", id, 0), Event("ToolCallEnd", id, 0)>>

\* The handler runs on only when its last emit has returned.
Ready(p) == pc = p /\ outbox = <<>>

\* After an emit failed, the later ones do nothing.
Send(events) == outbox' = IF broken THEN <<>> ELSE events

\* emitError, after `events` and from state s: the loop breaks.
SendError(events, s) ==
  /\ Send(events \o Finalize(s) \o <<Plain("RunError")>>)
  /\ st' = [Finalized(s) EXCEPT !.final = TRUE]
  /\ pc' = "finish"

-----------------------------------------------------------------------------
(* The emitter.                                                             *)

\* One emit: an event comes out of the OnEmit chain and the write succeeds.
Emit ==
  /\ outbox # <<>>
  /\ \E e \in OnEmit[Head(outbox)] \ {Nil} :
       /\ client' = Protocol!Reads(client, e)
       /\ shown' = <<e, 1 - shown[2]>>
  /\ outbox' = Tail(outbox)
  /\ UNCHANGED <<pc, st, cur, parts, broken, agent>>

\* An OnEmit hook returns nil: nothing is written and nothing is wrong.
Suppress ==
  /\ outbox # <<>>
  /\ Nil \in OnEmit[Head(outbox)]
  /\ outbox' = Tail(outbox)
  /\ UNCHANGED <<pc, st, cur, parts, broken, agent, wire>>

\* OnEmit or the write fails: from here on nothing is emitted.
EmitFails ==
  /\ outbox # <<>>
  /\ broken' = TRUE
  /\ outbox' = <<>>
  /\ UNCHANGED <<pc, st, cur, parts, agent, wire>>

-----------------------------------------------------------------------------
(* Before the event loop.                                                   *)

\* RunStarted could not be written: the handler returns.
LeaveUnstarted ==
  /\ Ready("preamble")
  /\ broken
  /\ pc' = "done"
  /\ UNCHANGED <<st, cur, parts, outbox, broken, agent, wire>>

\* Loading, validating, the session, the message or the runner failed, before
\* or after the snapshot; the handler returns without a second terminal event.
RefuseRun ==
  /\ Ready("preamble")
  /\ ~broken
  /\ \E events \in {<<>>, <<Plain("StateSnapshot")>>} :
       Send(events \o <<Plain("RunError")>>)
  /\ st' = [st EXCEPT !.final = TRUE]
  /\ pc' = "done"
  /\ UNCHANGED <<cur, parts, broken, agent, wire>>

\* The runner starts; the baseline state is sent when it is not empty.
StartRun ==
  /\ Ready("preamble")
  /\ ~broken
  /\ \E events \in {<<>>, <<Plain("StateSnapshot")>>} : Send(events)
  /\ pc' = "loop"
  /\ UNCHANGED <<st, cur, parts, broken, agent, wire>>

-----------------------------------------------------------------------------
(* One ADK event: its header, its parts, its end.                           *)

\* "turns": an author speaks when no other author is in the middle of a thought;
\* "parallel": sub-agents run side by side and their events interleave.
MaySpeak(a) == order = "parallel" \/ \A b \in Authors \ {a} : voice[b] = 0

\* The thoughts of a's model call are complete: its text, its call or its turn's
\* end has come.
ThoughtOver(a) ==
  /\ voice' = [b \in Authors |-> IF b = a THEN 0 ELSE voice[b]]
  /\ told' = [b \in Authors |-> IF b = a THEN 0 ELSE told[b]]
  /\ UNCHANGED order

\* Step events when the author changes; the root agent has none.
\* Mutant: the last author's step is not closed.
StepOnlyStarted(a) ==
  IF a \in {NoAuthor, st.step, Root} THEN <<>> ELSE <<Event("StepStarted", 0, a)>>
StepChange(a) ==
  IF a \in {NoAuthor, st.step}
  THEN <<>>
  ELSE CloseStep(st) \o (IF a = Root THEN <<>> ELSE <<Event("StepStarted", 0, a)>>)
StepChanged(a) ==
  IF a \in {NoAuthor, st.step} THEN st
  ELSE [st EXCEPT !.step = IF a = Root THEN NoAuthor ELSE a]

NextEvent ==
  /\ Ready("loop")
  /\ ~broken
  /\ parts < MaxParts
  /\ \E a \in Authors \cup {NoAuthor}, partial \in BOOLEAN :
       /\ MaySpeak(a)
       /\ cur' = [author |-> a, partial |-> partial]
       /\ Send(StepChange(a))
       /\ st' = StepChanged(a)
  /\ pc' = "parts"
  /\ UNCHANGED <<parts, broken, agent, wire>>

\* The iterator yields an error, or an event with an ErrorMessage.
AgentFails ==
  /\ Ready("loop")
  /\ ~broken
  /\ SendError(<<>>, st)
  /\ UNCHANGED <<cur, parts, broken, agent, wire>>

\* The next part is looked at only while the emitter works.
Part ==
  /\ Ready("parts")
  /\ ~broken
  /\ parts < MaxParts
  /\ parts' = parts + 1
  /\ UNCHANGED <<cur, broken, wire>>
NewId == parts + 1

\* processEvent returns e.err: emitError closes everything, unheard.
StopBroken ==
  /\ Ready("parts")
  /\ broken
  /\ SendError(<<>>, st)
  /\ UNCHANGED <<cur, parts, broken, agent, wire>>

\* GenAIPartConverter handles the part: any events of its own, or none at all, go out
\* as they are, and streamState hears nothing of them.
Converted ==
  /\ Part
  /\ \E events \in Conversions : Send(events)
  /\ UNCHANGED <<pc, st, agent>>

\* The converter, OriginalCallFrom, or the marshalling of a result fails.
PartFails ==
  /\ Part
  /\ SendError(<<>>, st)
  /\ UNCHANGED agent

\* emittedReasoningLen after a thought of length len.  Mutant: lengths add up.
EmittedSum(len) == st.rlen + len
Emitted(len) == len

\* A thought.  A partial event carries all the thoughts of the model call so
\* far, and the part beyond emittedReasoningLen is sent, if there is any.
Thought ==
  /\ Part
  /\ cur.author \in Authors /\ cur.partial
  /\ \E len \in {n \in 1..MaxThought : n >= voice[cur.author]} :
       /\ voice' = [voice EXCEPT ![cur.author] = len]
       /\ IF len <= st.rlen
          THEN Send(<<>>) /\ UNCHANGED <<st, told>>
          ELSE LET phase   == IF st.phase = 0 THEN NewId ELSE st.phase
                   message == IF st.message = 0 THEN NewId ELSE st.message
                   started == (IF st.phase = 0 THEN <<Event("ReasoningStart", phase, 0)>> ELSE <<>>)
                     \o (IF st.message = 0
                         THEN <<Event("ReasoningMessageStart", message, 0)>> ELSE <<>>)
               IN
               /\ Send(CloseText(st) \o started \o <<Event("ReasoningMessageContent", message, 0)>>)
               /\ st' = [TextClosed(st) EXCEPT !.rlen = Emitted(len), !.phase = phase, !.message = message]
               /\ told' = [told EXCEPT ![cur.author] = @ + (len - st.rlen)]
  /\ UNCHANGED <<pc, order>>

\* Text: reasoning is closed first; then it is sent, which leaves it open.
Text ==
  /\ Part
  /\ cur.partial
  /\ LET s  == ReasoningClosed(st)
         id == IF s.text = 0 THEN NewId ELSE s.text
         started == IF s.text = 0 THEN <<Event("TextMessageStart", id, 0)>> ELSE <<>>
     IN  /\ Send(CloseReasoning(st) \o started \o <<Event("TextMessageContent", id, 0)>>)
         /\ st' = [s EXCEPT !.text = id]
  /\ ThoughtOver(cur.author)
  /\ UNCHANGED pc

\* The final event repeats what the partial ones said.  Its thoughts are
\* skipped; so is its text, but only after reasoning was closed.
Repeated ==
  /\ Part
  /\ ~cur.partial
  /\ \/ Send(<<>>) /\ UNCHANGED <<st, agent>>
     \/ /\ Send(CloseReasoning(st))
        /\ st' = ReasoningClosed(st)
        /\ ThoughtOver(cur.author)
  /\ UNCHANGED pc

\* A function call: text and reasoning are closed, the call is three events.
FunctionCall ==
  /\ Part
  /\ Send(CloseText(st) \o CloseReasoning(st) \o ToolCall(NewId, TextClosed(st).last))
  /\ st' = ReasoningClosed(TextClosed(st))
  /\ ThoughtOver(cur.author)
  /\ UNCHANGED pc

\* Its arguments do not marshal: Start is out, Args and End never follow.
FunctionCallFails ==
  /\ Part
  /\ Unmarshalable
  /\ SendError(CloseText(st) \o CloseReasoning(st)
                 \o <<Event("ToolCallStart", NewId, TextClosed(st).last)>>,
               ReasoningClosed(TextClosed(st)))
  /\ UNCHANGED agent

FunctionResponse ==
  /\ Part
  /\ Send(<<Plain("ToolCallResult")>>)
  /\ UNCHANGED <<pc, st, agent>>

\* adk_request_confirmation: everything is closed, the original call is shown,
\* the snapshots that are not empty, and RunFinished with the interrupt.  The
\* rest of the event is not looked at.
Confirmation ==
  /\ Part
  /\ \E snapshots \in {<<>>, <<Plain("StateSnapshot")>>, <<Plain("MessagesSnapshot")>>,
                        <<Plain("StateSnapshot"), Plain("MessagesSnapshot")>>} :
       Send(Finalize(st) \o ToolCall(NewId, TextClosed(st).last) \o snapshots
            \o <<Plain("RunFinished")>>)
  /\ st' = [Finalized(st) EXCEPT !.final = TRUE]
  /\ pc' = "finish"
  /\ UNCHANGED agent

\* The arguments of the original call do not marshal.
ConfirmationFails ==
  /\ Part
  /\ Unmarshalable
  /\ SendError(Finalize(st) \o <<Event("ToolCallStart", NewId, TextClosed(st).last)>>,
               Finalized(st))
  /\ UNCHANGED agent

\* After the last part: the state delta, and everything closed if the turn is
\* complete.  If the emitter failed the loop breaks.
EndEvent ==
  /\ Ready("parts")
  /\ ~broken
  /\ \E delta \in {<<>>, <<Plain("StateDelta")>>}, complete \in BOOLEAN :
       IF complete
       THEN /\ Send(delta \o Finalize(st))
            /\ st' = Finalized(st)
            /\ ThoughtOver(cur.author)
       ELSE /\ Send(delta)
            /\ UNCHANGED <<st, agent>>
  /\ pc' = "loop"
  /\ cur' = Silent
  /\ UNCHANGED <<parts, broken, wire>>

\* processEvent returned e.err after the tail of the event; or the snapshot was
\* not written and the first event of the agent finds out.
StopAfterTail ==
  /\ Ready("loop")
  /\ broken
  /\ SendError(<<>>, st)
  /\ UNCHANGED <<cur, parts, broken, agent, wire>>

AgentEnds ==
  /\ Ready("loop")
  /\ ~broken
  /\ pc' = "finish"
  /\ UNCHANGED <<st, cur, parts, outbox, broken, agent, wire>>

\* After the loop: close what is open, and RunFinished unless a terminal event
\* was sent.
Finish ==
  /\ Ready("finish")
  /\ Send(Finalize(st) \o (IF st.final THEN <<>> ELSE <<Plain("RunFinished")>>))
  /\ st' = [Finalized(st) EXCEPT !.final = TRUE]
  /\ pc' = "done"
  /\ UNCHANGED <<cur, parts, broken, agent, wire>>

Returned == Ready("done") /\ UNCHANGED vars

Handle ==
  \/ LeaveUnstarted \/ RefuseRun \/ StartRun
  \/ NextEvent \/ AgentFails \/ StopBroken \/ Converted \/ PartFails
  \/ Thought \/ Text \/ Repeated \/ FunctionCall \/ FunctionCallFails
  \/ FunctionResponse \/ Confirmation \/ ConfirmationFails \/ EndEvent \/ StopAfterTail
  \/ AgentEnds \/ Finish

Next == Emit \/ Suppress \/ EmitFails \/ Handle \/ Returned

Spec == Init /\ [][Next]_vars

-----------------------------------------------------------------------------
(* Properties.                                                              *)

TypeOK ==
  /\ pc \in {"preamble", "loop", "parts", "finish", "done"}
  /\ st \in StreamState
  /\ cur \in [author : Authors \cup {NoAuthor}, partial : BOOLEAN]
  /\ parts \in 0..MaxParts
  /\ \A i \in 1..Len(outbox) : outbox[i] \in Protocol!Event
  /\ broken \in BOOLEAN
  /\ voice \in [Authors -> 0..MaxThought]
  /\ told \in [Authors -> Nat]
  /\ order \in Voices
  /\ client \in Protocol!Client

\* Whatever the agent yields and wherever an emit fails, the client can read every
\* event it gets: the stream is a behaviour of AGUIProtocol.  Needs a converter and
\* hooks that are Unobtrusive.
ProtocolSpec == Protocol!Spec

\* A handler that returned with a working emitter has ended the run: the client
\* has its terminal event and waits for nothing.  Needs hooks that keep it.
ReturnedMeansEnded ==
  Ready("done") /\ ~broken => client.status = "ended"

\* stream.go:145-146 on thoughts: "ADK partial events contain accumulated
\* thought text, not deltas.  Track how much has been emitted and only send
\* the new portion."  So what an author thought in a model call is what the
\* client was sent of it, nothing missing and nothing twice.
ThoughtsArriveOnce ==
  \A a \in Authors : ~broken => told[a] = voice[a]

\* With authors that speak in turns this is so, whatever else happens.
TurnsArriveOnce == order = "turns" => ThoughtsArriveOnce
=============================================================================
