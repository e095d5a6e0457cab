----------------------------- MODULE ResumeRules -----------------------------
(***************************************************************************)
(* What /run_sse accepts on a thread and what it hands to the agent:        *)
(* validateResumeAgainstPending with its schema checks                      *)
(* (agui/interrupt_state.go), the mapping of resume entries to tool         *)
(* confirmations (agui/resume.go) and extractLastUserMessage (agui.go).     *)
(* RunSSE models when these run and what they race with; this module models *)
(* what they decide, for one request.                                       *)
(*                                                                          *)
(* A JSON value is a tuple: its type and what it holds.  A member of an     *)
(* object may be Absent.                                                    *)
(*                                                                          *)
(* An operator marked "Mutant" is wrong on purpose and used nowhere: put in *)
(* the place of the definition below it, it must break a property.          *)
(***************************************************************************)
EXTENDS Naturals, Sequences, FiniteSets, SequencesExt

CONSTANTS
  Cases,    \* [pending, resume, messages]: the thread's interrupts and a request
  MaxTime   \* bound: the clock

ASSUME ResumeBound == MaxTime \in Nat

\* Sequences; a record has one of the expiries (see Expired), a schema is nested
\* once at most, a message has a content (see TurnOf).
IsSeq(s) == s \in Seq(Range(s))
Expiry(e) == e \in {<<"none">>, <<"unparseable">>} \/ (e[1] = "at" /\ e = <<"at", e[2]>> /\ e[2] \in Nat)
\* Bound: what a fragment says of the members of an object is not nested again.
IsFragment(s) ==
  /\ s.enum = <<>> \/ s.enum = <<s.enum[1]>>
  /\ s.type = "object" => \A name \in DOMAIN s.properties :
       LET below == s.properties[name]
       IN  /\ below.enum = <<>> \/ below.enum = <<below.enum[1]>>
           /\ below.properties = <<>>
IsContent(c) == c \in {<<"text">>, <<"empty">>} \/ (c = <<"parts", c[2]>> /\ IsSeq(c[2]))
ASSUME ResumeCases ==
  \A c \in Cases :
    /\ IsSeq(c.pending) /\ IsSeq(c.resume) /\ IsSeq(c.messages)
    /\ \A i \in DOMAIN c.pending :
         /\ Expiry(c.pending[i].expires)
         /\ \A name \in DOMAIN c.pending[i].schema.properties :
              IsFragment(c.pending[i].schema.properties[name])
    /\ \A i \in DOMAIN c.messages : IsContent(c.messages[i].content)

Absent == <<"absent">>
Null == <<"null">>
Bool(b) == <<"boolean", b>>
Text(s) == <<"string", s>>
Number(halves) == <<"number", halves>>   \* Number(3) is 1.5
Object(f) == <<"object", f>>
Members(o) == {name \in DOMAIN o[2] : o[2][name] # Absent}

\* A fragment of a JSON Schema: "" is no type, <<>> no enum and no properties.
Fragment(type, enum, properties) == [type |-> type, enum |-> enum, properties |-> properties]
Schema(required, properties) == [required |-> required, properties |-> properties]
NoSchema == Schema({}, <<>>)

VARIABLES case, now, phase, content
vars == <<case, now, phase, content>>

Init ==
  /\ case \in Cases
  /\ now = 0
  /\ phase = "received"
  /\ content = <<>>

-----------------------------------------------------------------------------
(* validatePayloadAgainstSchema.                                            *)

\* A type the code does not know restricts nothing.
TypeMatches(type, v) ==
  CASE type \in {"boolean", "object", "string", "number"} -> v[1] = type
    [] type = "integer" -> v[1] = "number" /\ v[2] % 2 = 0
    [] OTHER -> TRUE

\* validateJSONSchemaValue; properties are looked at only below an "object", where
\* they have no properties of their own (see IsFragment).  FlatConforms, for one
\* place, is also the mutant of the definition below it: no properties.
FlatConforms(v, s) ==
  TypeMatches(s.type, v) /\ (s.enum = <<>> \/ v \in s.enum[1])
ValueConforms(v, s) ==
  /\ FlatConforms(v, s)
  /\ s.type = "object" =>
       \A name \in DOMAIN s.properties \cap Members(v) :
         FlatConforms(v[2][name], s.properties[name])

PayloadConforms(payload, schema) ==
  /\ schema.required \subseteq Members(payload)
  /\ \A name \in DOMAIN schema.properties \cap Members(payload) :
       ValueConforms(payload[2][name], schema.properties[name])

\* toolConfirmationResponseSchema, the one emitInterrupt stores.
ToolSchema ==
  Schema({"approved"}, [approved |-> Fragment("boolean", <<>>, <<>>),
                        editedArgs |-> Fragment("object", <<>>, <<>>)])

-----------------------------------------------------------------------------
(* validateResumeAgainstPending.                                            *)

\* A record's expiresAt: <<"none">>, <<"unparseable">> or <<"at", time>>.
Expired(record) == record.expires[1] = "at" /\ record.expires[2] <= now

\* Mutant: a cancellation needs a payload, too.
EntryConforms(entry, record) ==
  /\ ~Expired(record)
  /\ entry.payload[1] = "object" /\ PayloadConforms(entry.payload, record.schema)
EntryValid(entry, record) ==
  /\ ~Expired(record)
  /\ \/ /\ entry.status = "resolved"
        /\ entry.payload[1] = "object"
        /\ PayloadConforms(entry.payload, record.schema)
     \/ entry.status = "cancelled" /\ entry.payload = Null

\* pendingByID: the last record of an id.
PendingIds(pending) == {pending[i].id : i \in DOMAIN pending}
RecordOf(pending, id) == pending[Max({i \in DOMAIN pending : pending[i].id = id})]

\* Mutant: the rule that all ids are covered is forgotten.
AnswersKnown(resume, pending) ==
  \A i \in DOMAIN resume :
    resume[i].id \in PendingIds(pending) /\ EntryValid(resume[i], RecordOf(pending, resume[i].id))
AnswersAll(resume, pending) ==
  /\ resume # <<>>
  /\ \A i \in DOMAIN resume :
       /\ resume[i].id # ""
       /\ \A j \in 1..i-1 : resume[j].id # resume[i].id
       /\ resume[i].id \in PendingIds(pending)
       /\ EntryValid(resume[i], RecordOf(pending, resume[i].id))
  /\ \A id \in PendingIds(pending) : \E i \in DOMAIN resume : resume[i].id = id
Accepts(resume, pending) == IF pending = <<>> THEN resume = <<>> ELSE AnswersAll(resume, pending)

\* The clock runs between the client's decision and the check.
Tick ==
  /\ phase = "received" /\ now < MaxTime
  /\ now' = now + 1
  /\ UNCHANGED <<case, phase, content>>

Validate ==
  /\ phase = "received"
  /\ phase' = IF Accepts(case.resume, case.pending) THEN "valid" ELSE "refused"
  /\ UNCHANGED <<case, now, content>>

-----------------------------------------------------------------------------
(* What the agent gets.                                                     *)

\* Mutant: whoever does not cancel approves.
NotCancelled(entry) == entry.status = "resolved"
Approved(entry) == entry.status = "resolved" /\ entry.payload[2].approved = Bool(TRUE)

\* editedArgs, or what there is beside `approved`.
ToolPayload(payload) ==
  LET extra == Members(payload) \ {"approved"}
  IN  IF "editedArgs" \in Members(payload) THEN payload[2].editedArgs
      ELSE IF extra = {} THEN Absent
      ELSE Object([name \in extra |-> payload[2][name]])

\* confirmationResponseFromResumeEntry; an entry that is not mapped is an error.
Mapped(entry) ==
  /\ entry.id # ""
  /\ \/ entry.status = "cancelled"
     \/ /\ entry.status = "resolved" /\ entry.payload[1] = "object"
        /\ "approved" \in Members(entry.payload)
        /\ entry.payload[2].approved[1] = "boolean"
Response(entry) ==
  [id |-> entry.id, confirmed |-> Approved(entry),
   payload |-> IF entry.status = "cancelled" THEN Absent ELSE ToolPayload(entry.payload)]

\* An input part, as [type, source, data, url, good]: where its bytes are, and
\* whether their base64 decodes.  A source wins over the legacy fields, data
\* over url.
Multimodal(part) ==
  CASE part.source = "data" \/ (part.source = "none" /\ part.data) ->
         IF part.good THEN "inline" ELSE "error"
    [] part.source = "url" \/ (part.source = "none" /\ ~part.data /\ part.url) -> "file"
    [] OTHER -> "error"
InputPart(part) ==
  CASE part.type = "text" -> "text"
    [] part.type = "binary" -> IF part.good THEN "inline" ELSE "error"
    [] OTHER -> Multimodal(part)

\* The content of a message, <<"parts", seq>>, <<"text">> or <<"empty">>.  A list
\* without parts is as unsupported as an empty text.
TurnOf(message) ==
  CASE message.content[1] = "parts" /\ message.content[2] # <<>> ->
         [i \in DOMAIN message.content[2] |-> InputPart(message.content[2][i])]
    [] message.content[1] = "text" -> <<"text">>
    [] OTHER -> <<"error">>

\* extractLastUserMessage.  Mutant: a turn that cannot be sent is passed over.
LastSendable(messages) ==
  LET good == {i \in DOMAIN messages :
                 messages[i].role = "user" /\ "error" \notin Range(TurnOf(messages[i]))}
  IN  IF good = {} THEN <<"error">> ELSE TurnOf(messages[Max(good)])
LastTurn(messages) ==
  LET turns == {i \in DOMAIN messages : messages[i].role = "user"}
  IN  IF turns = {} THEN <<"error">> ELSE TurnOf(messages[Max(turns)])

Convert ==
  /\ phase = "valid"
  /\ IF case.resume # <<>>
       THEN IF \A i \in DOMAIN case.resume : Mapped(case.resume[i])
              THEN /\ content' = [i \in DOMAIN case.resume |-> Response(case.resume[i])]
                   /\ phase' = "resumed"
              ELSE phase' = "error" /\ UNCHANGED content
       ELSE IF "error" \in Range(LastTurn(case.messages))
              THEN phase' = "error" /\ UNCHANGED content
              ELSE content' = LastTurn(case.messages) /\ phase' = "sent"
  /\ UNCHANGED <<case, now>>

Next == Tick \/ Validate \/ Convert
Spec == Init /\ [][Next]_vars

-----------------------------------------------------------------------------
(* What must hold.                                                          *)

\* The rules, stated over the whole request.  The schema: every place of a
\* payload that it speaks of, down to depth two, has its type and is allowed.
Places(schema) ==
  {<<a>> : a \in DOMAIN schema.properties} \cup
  UNION {{<<a, b>> : b \in DOMAIN schema.properties[a].properties} :
           a \in {a \in DOMAIN schema.properties : schema.properties[a].type = "object"}}
FragmentAt(schema, path) ==
  IF Len(path) = 1 THEN schema.properties[path[1]]
                   ELSE schema.properties[path[1]].properties[path[2]]
IsAt(payload, path) ==
  /\ path[1] \in Members(payload)
  /\ Len(path) = 2 => /\ payload[2][path[1]][1] = "object"
                      /\ path[2] \in Members(payload[2][path[1]])
ValueAt(payload, path) ==
  IF Len(path) = 1 THEN payload[2][path[1]] ELSE payload[2][path[1]][2][path[2]]
Fits(payload, schema) ==
  /\ \A name \in schema.required : IsAt(payload, <<name>>)
  /\ \A path \in Places(schema) :
       LET s == FragmentAt(schema, path)
           v == ValueAt(payload, path)
       IN  IsAt(payload, path) =>
             /\ TypeMatches(s.type, v)
             /\ \A allowed \in Range(s.enum) : v \in allowed

\* A request is refused exactly when it breaks a rule: as many entries as
\* interrupts are open and for the same ids, none expired when checked, the
\* resolved ones with a payload that fits, the cancelled ones without.  The loop
\* with its early returns and the recursion into the schema let nothing slip.
RefusesExactlyTheRest ==
  phase # "received" =>
    LET ids == PendingIds(case.pending)
    IN  phase # "refused" <=>
          /\ Len(case.resume) = Cardinality(ids) /\ "" \notin ids
          /\ {case.resume[i].id : i \in DOMAIN case.resume} = ids
          /\ \A i \in DOMAIN case.resume :
               LET e == case.resume[i]
                   r == RecordOf(case.pending, e.id)
               IN  /\ r.expires \notin {<<"at", n>> : n \in 0..now}
                   /\ e.status \in {"resolved", "cancelled"}
                   /\ e.status = "cancelled" => e.payload = Null
                   /\ e.status = "resolved" => e.payload[1] = "object" /\ Fits(e.payload, r.schema)

\* What emitInterrupt stores.
Raised(record) == record.id # "" /\ record.schema = ToolSchema /\ record.expires = <<"none">>
AllRaised == \A i \in DOMAIN case.pending : Raised(case.pending[i])

\* The check and the mapping agree: what the check lets through for interrupts
\* of emitInterrupt is mapped, with one answer for each open interrupt, so the
\* agent never waits for an answer that a later clear has forgotten.
EveryAnswerArrives ==
  AllRaised /\ case.resume # <<>> /\ phase \in {"resumed", "error"} =>
    /\ phase = "resumed"
    /\ {content[i].id : i \in DOMAIN content} = PendingIds(case.pending)
    /\ Len(content) = Cardinality(PendingIds(case.pending))

\* The agent hears a confirmation only if the entry for that very interrupt
\* says approved, and the arguments the user edited replace all others.
ConsentIsExplicit ==
  phase = "resumed" =>
    \A i \in DOMAIN content : \E j \in DOMAIN case.resume :
      LET e == case.resume[j]
      IN  /\ e.id = content[i].id
          /\ content[i].confirmed => e.status = "resolved" /\ e.payload[2].approved = Bool(TRUE)
          /\ e.status = "resolved" /\ "editedArgs" \in Members(e.payload) =>
               content[i].payload = e.payload[2].editedArgs

\* A thread never gets stuck on interrupts of emitInterrupt: both to cancel all
\* of them and to approve all of them with edited arguments is accepted.
NeverStuck ==
  AllRaised =>
    LET ids == SetToSeq(PendingIds(case.pending))
        All(status, payload) ==
          [i \in DOMAIN ids |-> [id |-> ids[i], status |-> status, payload |-> payload]]
    IN  /\ Accepts(All("cancelled", Null), case.pending)
        /\ Accepts(All("resolved", Object([approved |-> Bool(TRUE), editedArgs |-> Object(<<>>)])),
                   case.pending)

\* A plain run sends the newest user turn with every part of it, or nothing:
\* it does not fall back to a turn the session has already seen.
NewestTurnOrNone ==
  phase = "sent" =>
    \E i \in DOMAIN case.messages :
      LET c == case.messages[i].content
      IN  /\ \A j \in DOMAIN case.messages : j > i => case.messages[j].role # "user"
          /\ case.messages[i].role = "user"
          /\ Len(content) = IF c[1] = "parts" THEN Len(c[2]) ELSE 1

=============================================================================
