--------------------------- MODULE MCResumeRules ---------------------------
(* Instances of ResumeRules for TLC.                                        *)
EXTENDS ResumeRules

Values == {Null, Bool(TRUE), Bool(FALSE), Text("x"), Number(2), Number(3),
           Object([n |-> Number(3)]), Object([n |-> Number(4)])}
Payloads == {Null, Text("x")} \cup
  {Object([approved |-> a, editedArgs |-> e, note |-> n]) :
     a \in Values \cup {Absent}, e \in Values \cup {Absent}, n \in {Absent, Text("x")}}
Statuses == {"resolved", "cancelled", "maybe"}
Entries(ids, payloads) == [id : ids, status : Statuses, payload : payloads]

\* A form with every kind of restriction.
Form ==
  Schema({"note"},
    [note |-> Fragment("string", <<{Text("x"), Text("y")}>>, <<>>),
     approved |-> Fragment("integer", <<>>, <<>>),
     editedArgs |-> Fragment("object", <<>>, [n |-> Fragment("integer", <<{Number(2), Number(4)}>>, <<>>)])])
Loose ==
  Schema({}, [approved |-> Fragment("", <<{Bool(TRUE), Number(3)}>>, <<>>),
              note |-> Fragment("number", <<>>, <<>>),
              editedArgs |-> Fragment("date", <<>>, [n |-> Fragment("boolean", <<>>, <<>>)])])
Records(ids, schemas, expiries) == [id : ids, schema : schemas, expires : expiries]
Expiries == {<<"none">>, <<"unparseable">>, <<"at", 0>>, <<"at", 1>>, <<"at", 2>>}

User(c) == [role |-> "user", content |-> c]
Hello == <<User(<<"text">>)>>
Request(pendings, resumes) == [pending : pendings, resume : resumes, messages : {Hello}]

\* One interrupt, every answer.
Single ==
  Request({<<r>> : r \in Records({"a", ""}, {ToolSchema, Form, Loose, NoSchema}, {<<"none">>})},
          {<<e>> : e \in Entries({"a", ""}, Payloads)})
Expiring ==
  Request({<<r>> : r \in Records({"a"}, {ToolSchema}, Expiries)},
          {<<e>> : e \in Entries({"a"}, {Null, Object([approved |-> Bool(TRUE)])})})
\* Several interrupts and entries, with unknown, doubled and missing ids.
Several ==
  LET few == [id : {"a", "b", "z", ""}, status : {"resolved", "cancelled"},
              payload : {Null, Object([approved |-> Bool(FALSE)])}]
  IN  Request(UNION {[1..n -> Records({"a", "b"}, {ToolSchema}, {<<"none">>, <<"at", 1>>})] : n \in 0..2},
              UNION {[1..n -> few] : n \in 0..2})
\* Plain runs.
Parts == [type : {"text", "binary", "image"}, source : {"none", "data", "url", "other"},
          data : BOOLEAN, url : BOOLEAN, good : BOOLEAN]
Legacy == {q \in Parts : q.type = "image" /\ q.source = "none" /\ ~q.url}
Plain ==
  LET contents == {<<"text">>, <<"empty">>, <<"parts", <<>>>>} \cup {<<"parts", <<q>>>> : q \in Parts}
                  \cup {<<"parts", <<p, q>>>> : p \in Legacy, q \in Legacy}
      others == {<<"text">>, <<"empty">>}
  IN  [pending : {<<>>}, resume : {<<>>},
       messages : {<<>>} \cup {<<User(c)>> : c \in contents} \cup
         {<<User(a), [role |-> role, content |-> b]>> :
            a \in others, b \in contents, role \in {"user", "assistant"}}]
AllCases == Single \cup Expiring \cup Several \cup Plain
=============================================================================
