------------------------- MODULE InterruptContract -------------------------
(***************************************************************************)
(* What the AG-UI interrupt rules promise the client of one thread, apart   *)
(* from how run_sse keeps the promise (interrupt_state.go, rules 2 to 4 in  *)
(* the comment of validateResumeAgainstPending): runs take turns, a run     *)
(* starts only when it answers exactly the interrupts that are open, and    *)
(* when it ends the open set is empty, holds the interrupt it raised, or is *)
(* what it was.                                                             *)
(***************************************************************************)
CONSTANT Runs

VARIABLES
  open,    \* the interrupts the client has to answer before the next turn
  active,  \* the run that holds the thread: a set of at most one run
  given    \* the interrupts the active run answers

cvars == <<open, active, given>>

Init ==
  /\ open = {}
  /\ active = {}
  /\ given = {}

\* A run takes the thread with an answer to every open interrupt.
Begin(r) ==
  /\ active = {}
  /\ active' = {r}
  /\ given' = open
  /\ UNCHANGED open

\* The active run ends; `left` is what the client has to answer next.
End(left) ==
  /\ active # {}
  /\ active' = {}
  /\ given' = {}
  /\ open' = left

Succeed == End({})
Pause   == End(active)
Fail    == End(open)

Next ==
  \/ \E r \in Runs : Begin(r)
  \/ Succeed
  \/ Pause
  \/ Fail

Spec == Init /\ [][Next]_cvars
=============================================================================
