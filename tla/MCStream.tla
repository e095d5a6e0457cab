----------------------------- MODULE MCStream -----------------------------
(* Instances of Stream for TLC: the root agent and two sub-agents.          *)
EXTENDS Stream, TLC

CONSTANTS root, writer, critic

Team == {root, writer, critic}
Symmetric == Permutations({writer, critic})
\* A converter that returns none, one or several events that stand alone.
Aside == {<<>>, <<Plain("Custom")>>, <<Plain("StateDelta"), Plain("Custom")>>}
\* Hooks that drop or exchange events that stand alone, and no hooks.
Meddling ==
  [e \in Protocol!Event |->
     IF e.kind \in Protocol!Standalone THEN {e, Nil, Plain("Custom")} ELSE {e}]
NoHooks == [e \in Protocol!Event |-> {e}]
=============================================================================
