------------------------------ MODULE ParkWake ------------------------------
(***************************************************************************)
(* What a wait promises to the code that calls it: a fiber that waits does *)
(* not run until it is woken (or gives the wait up before it slept), one   *)
(* wake makes it runnable once, and a runnable fiber runs.                 *)
(***************************************************************************)
CONSTANT Fibers
VARIABLE phase

Init == phase = [f \in Fibers |-> "idle"]

Move(f, from, to) ==
  /\ phase[f] = from
  /\ phase' = [phase EXCEPT ![f] = to]

Start(f)  == Move(f, "idle", "running")
Wait(f)   == Move(f, "running", "waiting")
GiveUp(f) == Move(f, "waiting", "running")
Wake(f)   == Move(f, "waiting", "ready")
Yield(f)  == Move(f, "running", "ready")
Run(f)    == Move(f, "ready", "running")
End(f)    == Move(f, "running", "idle")

Next ==
  \E f \in Fibers :
    \/ Start(f) \/ Wait(f) \/ GiveUp(f) \/ Wake(f)
    \/ Yield(f) \/ Run(f) \/ End(f)

Spec == Init /\ [][Next]_phase

FairSpec == Spec /\ \A f \in Fibers : WF_phase(Run(f))
=============================================================================
