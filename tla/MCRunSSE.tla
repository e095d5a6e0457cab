----------------------------- MODULE MCRunSSE -----------------------------
(* Instances of RunSSE for TLC.  Requests are interchangeable, so the runs  *)
(* without liveness properties use their symmetry.                          *)
EXTENDS RunSSE, TLC

CONSTANTS r1, r2, r3

TwoRequests == {r1, r2}
ThreeRequests == {r1, r2, r3}
Symmetric == Permutations(Requests)

NoFaults == {}
\* Every fault but a crash, which ends all handlers at once.
ButCrash == FaultKinds \ {"crash"}
\* Every fault but a Get that fails on a live request.
ButGet == FaultKinds \ {"get"}

\* OnEmit: no hooks, and hooks that may keep an interrupt from the client.
PassAll == [e \in Events |-> {e}]
HideInterrupt == [PassAll EXCEPT !["interrupt"] = {"interrupt", "nothing"}]

\* Clients that send nothing under the launcher's key, and clients that may send the
\* interrupt of r1 under it, raised or not.
NoKey == {}
SomeKey == {{r1}}
=============================================================================
