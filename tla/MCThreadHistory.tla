-------------------------- MODULE MCThreadHistory --------------------------
(* Instances of ThreadHistory for TLC.                                      *)
EXTENDS ThreadHistory

\* A converter that hides a part, folds one to a message and one to two.
Converter == [hidden |-> 0, shown |-> 1, both |-> 2]

\* One event with every sequence of up to three parts of every kind.
Wide == [kinds |-> Kinds, parts |-> 3, events |-> 1]
\* Several events, made of a kind that is buffered and one that is not.
Long == [kinds |-> {"text", "response"}, parts |-> 2, events |-> 3]

WideAndLong == {Wide, Long}
LongOnly == {Long}

UpToTwo == {0, 1, 2}
JSONOnly == {"json"}
Both == {"json", "sse"}
=============================================================================
