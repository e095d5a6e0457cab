-------------------------------- MODULE Loops --------------------------------
(***************************************************************************)
(* A loop that several parts of the program have: over a slice, picking     *)
(* some of its members (convertEvents and ConvertSessionToMessages in       *)
(* agui/convert.go, the setup in web/web.go).                               *)
(***************************************************************************)
EXTENDS Naturals, Sequences

\* The members of s that are in S, in their order.
Kept(s, S) ==
  LET kept[k \in 0..Len(s)] ==
        IF k = 0 THEN <<>>
        ELSE IF s[k] \in S THEN Append(kept[k - 1], s[k]) ELSE kept[k - 1]
  IN  kept[Len(s)]
=============================================================================
