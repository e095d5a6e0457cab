---------------------------- MODULE MCScheduler ----------------------------
(* Instances of Scheduler for TLC.                                          *)
EXTENDS Scheduler

CONSTANTS t1, t2

OneTick == {t1}
TwoTicks == {t1, t2}

\* Faults a handler answers for, with the process alive.
Answered == FaultKinds \ {"crash", "response"}

\* One attempt at a time, more attempts than ticks and faults.
InTurns == [sync |-> TRUE, overlap |-> FALSE, attempts |-> 4,
            faults |-> Answered, maxFaults |-> 2]
\* The same, where answers may get lost.
Unheard == [InTurns EXCEPT !.faults = {"agent", "update", "response"}]
\* Attempts side by side, in both modes of execution, and crashes.
Overlapping ==
  {[sync |-> sync, overlap |-> TRUE, attempts |-> 2,
    faults |-> FaultKinds, maxFaults |-> IF sync THEN 2 ELSE 1] : sync \in BOOLEAN}
AllSettings == {InTurns, Unheard} \cup Overlapping
SoftOnly == {[InTurns EXCEPT !.attempts = 2, !.faults = {"soft"}]}
=============================================================================
