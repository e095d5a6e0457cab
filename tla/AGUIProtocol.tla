--------------------------- MODULE AGUIProtocol ---------------------------
(***************************************************************************)
(* The event stream of one run as an AG-UI client reads it: what is open,   *)
(* and which event may come next.  This is the protocol the comments of     *)
(* agui/stream.go promise: text and reasoning are bracketed by start and    *)
(* end and never overlap, a tool call is Start, Args, End with nothing in   *)
(* between, one sub-agent step is open at a time, and everything is closed  *)
(* before the one terminal event.  A tool call may be cut off: then the     *)
(* step is closed, if one is open, and RunError is all that can follow.     *)
(***************************************************************************)
EXTENDS Naturals

CONSTANTS
  Ids,       \* message, reasoning and tool call ids; 0 is "none"
  Authors,   \* the sub-agents that have steps
  NoAuthor   \* "no step is open"

VARIABLES
  client,  \* what the client holds open
  shown    \* the last event and the parity of the number of events

pvars == <<client, shown>>

Standalone == {"StateSnapshot", "MessagesSnapshot", "StateDelta", "ToolCallResult", "Custom"}
Terminal == {"RunFinished", "RunError"}

\* An event: its kind, the id it carries, and its step or parent message.
Event == [kind : {"RunStarted", "StepStarted", "StepFinished",
                  "TextMessageStart", "TextMessageContent", "TextMessageEnd",
                  "ReasoningStart", "ReasoningMessageStart", "ReasoningMessageContent",
                  "ReasoningMessageEnd", "ReasoningEnd",
                  "ToolCallStart", "ToolCallArgs", "ToolCallEnd"}
                 \cup Standalone \cup Terminal,
          id : Ids \cup {0},
          of : Authors \cup {NoAuthor} \cup Ids \cup {0}]

Status == {"new", "running", "cut", "ended"}
Client == [status : Status, text : Ids \cup {0}, phase : Ids \cup {0}, message : Ids \cup {0},
           step : Authors \cup {NoAuthor}, tool : Ids \cup {0}, args : BOOLEAN,
           closed : SUBSET Ids]

NewClient == [status |-> "new", text |-> 0, phase |-> 0, message |-> 0,
              step |-> NoAuthor, tool |-> 0, args |-> FALSE, closed |-> {}]

NothingOpen(c) ==
  c.text = 0 /\ c.phase = 0 /\ c.message = 0 /\ c.step = NoAuthor /\ c.tool = 0

\* The events a client accepts in state c.
Allowed(c, e) ==
  \/ e.kind = "RunStarted" /\ c.status = "new"
  \/ e.kind = "ToolCallArgs" /\ c.status = "running" /\ c.tool = e.id /\ e.id # 0 /\ ~c.args
  \/ e.kind = "ToolCallEnd" /\ c.status = "running" /\ c.tool = e.id /\ e.id # 0 /\ c.args
  \/ e.kind = "StepFinished" /\ c.status = "running" /\ c.step = e.of /\ e.of # NoAuthor
  \/ /\ e.kind = "RunError" /\ c.status \in {"running", "cut"}
     /\ NothingOpen([c EXCEPT !.tool = 0])
  \/ /\ c.status = "running"
     /\ c.tool = 0
     /\ \/ e.kind = "StepStarted" /\ c.step = NoAuthor
        \/ e.kind = "TextMessageStart" /\ c.text = 0 /\ c.phase = 0 /\ e.id \notin c.closed
        \/ e.kind \in {"TextMessageContent", "TextMessageEnd"} /\ c.text = e.id /\ e.id # 0
        \/ e.kind = "ReasoningStart" /\ c.phase = 0 /\ c.text = 0
        \/ e.kind = "ReasoningMessageStart" /\ c.phase # 0 /\ c.message = 0
        \/ /\ e.kind \in {"ReasoningMessageContent", "ReasoningMessageEnd"}
           /\ c.message = e.id /\ e.id # 0
        \/ e.kind = "ReasoningEnd" /\ c.phase = e.id /\ c.message = 0 /\ e.id # 0
        \/ /\ e.kind = "ToolCallStart"
           /\ c.text = 0 /\ c.phase = 0
           /\ e.of \in c.closed \cup {0}
        \/ e.kind \in Standalone
        \/ e.kind = "RunFinished" /\ NothingOpen(c)

\* The client after it read e.
Reads(c, e) ==
  CASE e.kind = "RunStarted"            -> [c EXCEPT !.status = "running"]
    [] e.kind = "StepStarted"           -> [c EXCEPT !.step = e.of]
    [] e.kind = "StepFinished"          -> [c EXCEPT !.step = NoAuthor,
                                                   !.status = IF c.tool = 0 THEN @ ELSE "cut"]
    [] e.kind = "TextMessageStart"      -> [c EXCEPT !.text = e.id]
    [] e.kind = "TextMessageEnd"        -> [c EXCEPT !.text = 0, !.closed = @ \cup {e.id}]
    [] e.kind = "ReasoningStart"        -> [c EXCEPT !.phase = e.id]
    [] e.kind = "ReasoningMessageStart" -> [c EXCEPT !.message = e.id]
    [] e.kind = "ReasoningMessageEnd"   -> [c EXCEPT !.message = 0]
    [] e.kind = "ReasoningEnd"          -> [c EXCEPT !.phase = 0]
    [] e.kind = "ToolCallStart"         -> [c EXCEPT !.tool = e.id, !.args = FALSE]
    [] e.kind = "ToolCallArgs"          -> [c EXCEPT !.args = TRUE]
    [] e.kind = "ToolCallEnd"           -> [c EXCEPT !.tool = 0]
    [] e.kind \in Terminal              -> [c EXCEPT !.status = "ended"]
    [] OTHER                            -> c

NoEvent == [kind |-> "none"]

Init ==
  /\ client = NewClient
  /\ shown = <<NoEvent, 0>>

Read(e) ==
  /\ Allowed(client, e)
  /\ client' = Reads(client, e)
  /\ shown' = <<e, 1 - shown[2]>>

\* The event read is the one shown, so there is no need to search for it.
Next == shown'[1] \in Event /\ Read(shown'[1])

Spec == Init /\ [][Next]_pvars
=============================================================================
