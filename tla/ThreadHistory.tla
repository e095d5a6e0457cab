--------------------------- MODULE ThreadHistory ---------------------------
(***************************************************************************)
(* Reading a thread back: GET {prefix}/threads/{id}/messages                *)
(* (agui/threads.go threadMessagesFunc) and the conversion of stored ADK    *)
(* events to AG-UI messages (agui/convert.go), while the session grows.     *)
(*                                                                          *)
(* The handler makes one call, Get, and works on the session it returns, so *)
(* a request is one action.  A client starts without a cursor and goes on   *)
(* with the nextCursor of the last page until a page comes without one; it  *)
(* keeps a message once, by its id.                                         *)
(*                                                                          *)
(* An operator marked "Mutant" is wrong on purpose and used nowhere: put in *)
(* the place of the definition below it, it must break a property.          *)
(***************************************************************************)
EXTENDS Naturals, Sequences, SequencesExt, Loops

CONSTANTS
  Scopes,   \* bounds of the sessions: [kinds : kinds of parts that events are made of
            \* (see Kinds), parts : parts of an event, events : events of the session]
  MaxTime,  \* bound: the clock that stamps events; time 0 is the zero time
  Limits,   \* the limit parameters clients use; 0 is "no limit"
  Accepts,  \* "json" or "sse", by the Accept header
  Folded    \* the kinds of parts that GenAIPartConverter handles, each with the number
            \* of messages its events are folded to: none, one or more

\* "bad" makes the conversion fail; "other" has no mapping.
OwnKinds == {"text", "thought", "call", "response", "bad", "other"}
Kinds == OwnKinds \cup DOMAIN Folded

ASSUME HistoryFolded ==
  Folded \in [DOMAIN Folded -> Nat] /\ OwnKinds \cap DOMAIN Folded = {}
ASSUME HistoryScopes == Scopes \subseteq [kinds : SUBSET Kinds, parts : Nat, events : Nat]
ASSUME HistoryBounds == MaxTime \in Nat \ {0} /\ Limits \subseteq Nat /\ Accepts \subseteq {"json", "sse"}

VARIABLES
  scope,   \* the bounds of this session, fixed at the start
  events,  \* the events of the session
  clock,   \* the time
  cursor,  \* the client's next "after"; 0 is none
  got,     \* the messages of all its pages, a set
  phase,   \* "first": nothing asked yet; "more": has a cursor; "end"; "failed"
  upTo     \* history: how many events the session had when the last page was cut
           \* and whether the page went to the last of them

vars == <<scope, events, clock, cursor, got, phase, upTo>>

\* An event without parts has no content, it only changes state.
StoredEvent == [time : 1..MaxTime, partial : BOOLEAN, parts : BoundedSeq(scope.kinds, scope.parts)]

\* `of` names what a message shows, at least one piece <<event, part, k>>: the k-th
\* message that the part is folded to.  Without a converter there is one.
Message == [id : Seq(Nat), role : {"author", "tool", "reasoning", "folded"},
            of : Seq(Seq(Nat)) \ {<<>>}]

-----------------------------------------------------------------------------
(* convertEvent: parts are buffered by kind; the buffers are flushed when a *)
(* call comes, and at the end: calls, text, thoughts.                       *)

Empty == [msgs |-> <<>>, n |-> 0, text |-> <<>>, calls |-> <<>>, thoughts |-> <<>>]

\* More messages, numbered on from partIndex; ofs[k] is what the k-th shows.
\* Event ids are unique, so an id is the event and the number.  Mutant: the index
\* counts calls, not messages.
Listed(acc, i, role, ofs) ==
  acc.msgs \o [k \in 1..Len(ofs) |->
                 [id |-> <<i, acc.n + k - 1>>, role |-> role, of |-> ofs[k]]]

AddAllOnce(acc, i, role, ofs) == [acc EXCEPT !.msgs = Listed(acc, i, role, ofs), !.n = @ + 1]
AddAll(acc, i, role, ofs) ==
  [acc EXCEPT !.msgs = Listed(acc, i, role, ofs), !.n = @ + Len(ofs)]
Add(acc, i, role, of) == AddAll(acc, i, role, <<of>>)

\* Mutant: an empty buffer makes a message.
AddEvenEmpty(acc, i, role, of) == Add(acc, i, role, of)
AddUnlessEmpty(acc, i, role, of) == IF of = <<>> THEN acc ELSE Add(acc, i, role, of)

FlushText(acc, i) == [AddUnlessEmpty(acc, i, "author", acc.text) EXCEPT !.text = <<>>]

\* foldEventsToMessages: a message for each piece, in turn.
Fold(acc, i, j, kind) ==
  AddAll(acc, i, "folded", [k \in 1..Folded[kind] |-> <<<<i, j, k>>>>])

Take(acc, i, j, kind) ==
  CASE kind \in DOMAIN Folded -> Fold(acc, i, j, kind)
    [] kind = "thought"  -> [acc EXCEPT !.thoughts = Append(@, <<i, j, 1>>)]
    [] kind = "text"     -> [acc EXCEPT !.text = Append(@, <<i, j, 1>>)]
    [] kind = "call"     -> [FlushText(acc, i) EXCEPT !.calls = Append(@, <<i, j, 1>>)]
    [] kind = "response" -> Add(acc, i, "tool", <<<<i, j, 1>>>>)
    [] OTHER             -> acc

\* The loop over the parts: what there is after each of them.
Taken(ev, i) ==
  LET taken[j \in 0..Len(ev.parts)] ==
        IF j = 0 THEN Empty ELSE Take(taken[j - 1], i, j, ev.parts[j])
  IN  taken

\* ev is the i-th event of the session.
ConvertEvent(ev, i) ==
  LET end   == Taken(ev, i)[Len(ev.parts)]
      calls == AddUnlessEmpty(end, i, "author", end.calls)
      text  == AddUnlessEmpty(calls, i, "author", end.text)
  IN  AddUnlessEmpty(text, i, "reasoning", end.thoughts).msgs

-----------------------------------------------------------------------------
(* ConvertSessionToMessages: what the page is cut from.                     *)

\* "at or after t".  Mutant: only after.
StrictlyAfter(i, after) == after = 0 \/ events[i].time > after
InRange(i, after) == after = 0 \/ events[i].time >= after

\* The events with content from `after` on, the first `limit` of them.  Partial
\* events count and are left out.
Counted(after) ==
  Kept([i \in DOMAIN events |-> i],
       {i \in DOMAIN events : events[i].parts # <<>> /\ InRange(i, after)})
Processed(after, limit) ==
  LET all == Counted(after)
  IN  IF limit > 0 /\ limit < Len(all) THEN SubSeq(all, 1, limit) ELSE all
Complete == {i \in DOMAIN events : ~events[i].partial}

Shown(after, limit) == Kept(Processed(after, limit), Complete)

Fails(after, limit) ==
  \E i \in Range(Shown(after, limit)) : "bad" \in Range(events[i].parts)
Page(after, limit) ==
  LET shown == Shown(after, limit)
  IN  FlattenSeq([k \in DOMAIN shown |-> ConvertEvent(events[shown[k]], shown[k])])

LastUpdateTime == IF events = <<>> THEN 0 ELSE Last(events).time

-----------------------------------------------------------------------------
Init ==
  /\ scope \in Scopes
  /\ events = <<>>
  /\ clock = 1
  /\ cursor = 0
  /\ got = {}
  /\ phase = "first"
  /\ upTo = [events |-> 0, all |-> TRUE]

\* A run of the agent appends an event.
AppendEvent ==
  /\ Len(events) < scope.events
  /\ \E partial \in BOOLEAN, parts \in BoundedSeq(scope.kinds, scope.parts) :
       events' = Append(events, [time |-> clock, partial |-> partial, parts |-> parts])
  /\ UNCHANGED <<scope, clock, cursor, got, phase, upTo>>

Tick ==
  /\ clock < MaxTime
  /\ clock' = clock + 1
  /\ UNCHANGED <<scope, events, cursor, got, phase, upTo>>

\* nextCursor: LastUpdateTime if the page is full, by its number of messages.
\* A response on SSE has none.
NextCursor(limit, accept, messages) ==
  IF accept = "json" /\ limit > 0 /\ messages >= limit
  THEN LastUpdateTime
  ELSE 0

\* One page.
Fetch ==
  /\ phase \in {"first", "more"}
  /\ \E limit \in Limits, accept \in Accepts :
       /\ ~Fails(cursor, limit)
       /\ LET page == Page(cursor, limit)
          IN  got' = got \cup Range(page) /\ cursor' = NextCursor(limit, accept, Len(page))
       /\ phase' = IF cursor' = 0 THEN "end" ELSE "more"
       /\ upTo' = [events |-> Len(events),
                   all |-> upTo.all /\ Processed(cursor, limit) = Counted(cursor)]
  /\ UNCHANGED <<scope, events, clock>>

\* The conversion fails: 500, and no page.
FetchFails ==
  /\ phase \in {"first", "more"}
  /\ \E limit \in Limits : Fails(cursor, limit)
  /\ phase' = "failed"
  /\ UNCHANGED <<scope, events, clock, cursor, got, upTo>>

\* The client has all its pages, or gave up, and the session is full.
Over == phase \in {"end", "failed"} /\ UNCHANGED vars

Next == AppendEvent \/ Tick \/ Fetch \/ FetchFails \/ Over

Spec == Init /\ [][Next]_vars

-----------------------------------------------------------------------------
(* Properties.                                                              *)

TypeOK ==
  /\ scope \in Scopes
  /\ events \in Seq(StoredEvent)
  /\ clock \in 1..MaxTime
  /\ cursor \in 0..clock
  /\ got \in SUBSET Message
  /\ phase \in {"first", "more", "end", "failed"}
  /\ upTo \in [events : 0..Len(events), all : BOOLEAN]

\* Two messages have different ids and show different pieces, also across pages
\* that overlap and events that the session got in between: a client may drop
\* what it already has by its id, and a piece never comes back under another one.
IdsIdentify ==
  \A a, b \in got :
    a # b => a.id # b.id /\ Range(a.of) \cap Range(b.of) = {}

\* The pieces of stored events that history has a message for.
Pieces(kind) ==
  CASE kind \in DOMAIN Folded                             -> Folded[kind]
    [] kind \in {"text", "thought", "call", "response"} -> 1
    [] OTHER                                             -> 0
PiecesOf(ev, i) ==
  UNION {{<<i, j, k>> : k \in 1..Pieces(ev.parts[j])} : j \in DOMAIN ev.parts}
Displayable == UNION {PiecesOf(events[i], i) : i \in Complete}

Delivered == UNION {Range(m.of) : m \in got}

\* As long as no page was cut off by its limit, the client misses no event: what
\* it has not got yet is not before its cursor, also when several events carry
\* the same time.
UncutPagesMissNothing ==
  upTo.all /\ phase # "first" =>
    \A p \in Displayable \ Delivered :
      IF phase = "more" THEN events[p[1]].time >= cursor ELSE p[1] > upTo.events

\* doc.go:136: "Query parameters "after" (RFC 3339 cursor) and "limit" support
\* pagination".  So a client that followed the cursors to the end has every
\* piece the session had when the last page was cut.
PagesAreComplete ==
  phase = "end" => \A p \in Displayable : p[1] <= upTo.events => p \in Delivered
=============================================================================
