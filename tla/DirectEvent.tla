----------------------------- MODULE DirectEvent ----------------------------
(***************************************************************************)
(* DirectEvent and EventPool, include/DirectEvent.h, as                    *)
(* WaitOnEventDirectArmed uses them: a fiber takes an event from the pool,  *)
(* publishes itself in it, hands the pointer to whoever will signal, and    *)
(* puts the event back when it is resumed.  Signallers are external; one    *)
(* may call Signal again through the pointer it was given (a fence callback *)
(* delivered twice), by when the event may serve another fiber.             *)
(*                                                                         *)
(* The pool is sized above the number of concurrent waits, as its comment   *)
(* asks: a fiber that finds it empty would store through a null pointer.    *)
(***************************************************************************)
EXTENDS FiberSched

CONSTANTS
  Events,
  Signallers,
  MaxWaits,     \* bound: waits of one fiber
  MaxRepeats,   \* bound: repeated calls of Signal
  Null

VARIABLES
  waiter,    \* DirectEvent::waiter
  freeq,     \* events in EventPool::freeq
  held,      \* the local e of WaitOnEventDirectArmed
  pc,
  hand,      \* signallers: [at, e, t]
  waits,
  repeats

directVars == <<waiter, freeq, held, pc, hand, waits, repeats>>
vars == <<fiberVars, directVars>>

Points == {"body", "park", "publish", "arm", "switch", "release"}

TypeOK ==
  /\ FiberTypeOK
  /\ waiter \in [Events -> Fibers \cup {Null}]
  /\ freeq \subseteq Events
  /\ held \in [Fibers -> Events \cup {Null}]
  /\ pc \in [Fibers -> Points]
  /\ hand \in [Signallers -> [at : {"idle", "armed", "again", "resume"},
                              e : Events \cup {Null}, t : Fibers \cup {Null}]]
  /\ waits \in [Fibers -> 0..MaxWaits]
  /\ repeats \in 0..MaxRepeats

Init ==
  /\ FiberInit
  /\ waiter = [e \in Events |-> Null]
  /\ freeq = Events
  /\ held = [f \in Fibers |-> Null]
  /\ pc = [f \in Fibers |-> "body"]
  /\ hand = [s \in Signallers |-> [at |-> "idle", e |-> Null, t |-> Null]]
  /\ waits = [f \in Fibers |-> 0]
  /\ repeats = 0

At(f, p) == pc[f] = p /\ OnCpu(f)
Goto(f, p) == pc' = [pc EXCEPT ![f] = p]

-----------------------------------------------------------------------------
(* WaitOnEventDirectArmed, on a fiber *)

\* EventPool::Acquire: some free event, its waiter cleared.
Acquire(f, e) ==
  /\ At(f, "body") /\ waits[f] < MaxWaits /\ e \in freeq
  /\ freeq' = freeq \ {e}
  /\ waiter' = [waiter EXCEPT ![e] = Null]
  /\ held' = [held EXCEPT ![f] = e]
  /\ waits' = [waits EXCEPT ![f] = @ + 1]
  /\ Goto(f, "park")
  /\ UNCHANGED <<fiberVars, hand, repeats>>

\* Become parkable first: Resume does nothing to a RUNNING fiber.
Park(f) ==
  /\ At(f, "park")
  /\ status' = [status EXCEPT ![f] = "WANTS_SUSPEND"]
  /\ Goto(f, "publish")
  /\ UNCHANGED <<stack, queued, waiter, freeq, held, hand, waits, repeats>>

Publish(f) ==
  /\ At(f, "publish")
  /\ waiter' = [waiter EXCEPT ![held[f]] = f]
  /\ Goto(f, "arm")
  /\ UNCHANGED <<fiberVars, freeq, held, hand, waits, repeats>>

\* arm(e): signaller s gets the pointer.
Arm(f, s) ==
  /\ At(f, "arm") /\ hand[s].at = "idle"
  /\ hand' = [hand EXCEPT ![s] = [at |-> "armed", e |-> held[f], t |-> Null]]
  /\ Goto(f, "switch")
  /\ UNCHANGED <<fiberVars, waiter, freeq, held, waits, repeats>>

SwitchAway(f) ==
  /\ At(f, "switch") /\ status[f] # "RUNNING"
  /\ SwitchOut(f)
  /\ UNCHANGED <<status, queued, directVars>>

\* Back from ContextSwitch.
Resumed(f) ==
  /\ At(f, "switch") /\ status[f] = "RUNNING"
  /\ Goto(f, "release")
  /\ UNCHANGED <<fiberVars, waiter, freeq, held, hand, waits, repeats>>

Release(f) ==
  /\ At(f, "release")
  /\ freeq' = freeq \cup {held[f]}
  /\ held' = [held EXCEPT ![f] = Null]
  /\ Goto(f, "body")
  /\ UNCHANGED <<fiberVars, waiter, hand, waits, repeats>>

-----------------------------------------------------------------------------
(* DirectEvent::Signal *)

\* The exchange: one caller wins the waiter.
Signal(s) ==
  LET e == hand[s].e
      t == waiter[e]
  IN  /\ hand[s].at \in {"armed", "again"}
      /\ waiter' = [waiter EXCEPT ![e] = Null]
      /\ hand' = [hand EXCEPT ![s].at = IF t = Null THEN "idle" ELSE "resume", ![s].t = t]
      /\ UNCHANGED <<fiberVars, freeq, held, pc, waits, repeats>>

\* t->assignedFiber->Resume().
ResumeTaken(s) ==
  /\ hand[s].at = "resume"
  /\ Resume(hand[s].t)
  /\ hand' = [hand EXCEPT ![s].at = "idle", ![s].t = Null]
  /\ UNCHANGED <<waiter, freeq, held, pc, waits, repeats>>

\* A signaller calls Signal once more with the pointer it has used.
SignalAgain(s) ==
  /\ hand[s].at = "idle" /\ hand[s].e # Null /\ repeats < MaxRepeats
  /\ hand' = [hand EXCEPT ![s].at = "again"]
  /\ repeats' = repeats + 1
  /\ UNCHANGED <<fiberVars, waiter, freeq, held, pc, waits>>

-----------------------------------------------------------------------------
WorkerStep(f) == (Dispatch(f) \/ WorkerReturn(f)) /\ UNCHANGED directVars

FiberMust(f) ==
  \/ Park(f) \/ Publish(f) \/ SwitchAway(f) \/ Resumed(f) \/ Release(f) \/ WorkerStep(f)
  \/ \E s \in Signallers : Arm(f, s)

SignalMust(s) == Signal(s) \/ ResumeTaken(s)

Next ==
  \/ \E f \in Fibers : FiberMust(f) \/ \E e \in Events : Acquire(f, e)
  \/ \E s \in Signallers : SignalMust(s) \/ SignalAgain(s)

Spec == Init /\ [][Next]_vars

-----------------------------------------------------------------------------
(* Properties *)

\* An event is free or serves one fiber, and a published waiter is the fiber
\* the event serves, even after a repeated Signal ("never destroyed -> no
\* lifetime hazard").
EventServesOne ==
  /\ \A f, g \in Fibers : f # g /\ held[f] # Null => held[f] # held[g]
  /\ \A f \in Fibers : held[f] \notin freeq
  /\ \A e \in Events : waiter[e] # Null => held[waiter[e]] = e

\* A fiber that will sleep or sleeps is still published in its event with a
\* signal to come, or has been taken out by a signaller about to resume it, or
\* has been resumed already: "no lost-wakeup race".
Woken(f) == queued[f] > 0 \/ status[f] \in {"RUNNING", "READY", "SUSPEND_SIGNALED"}
SignalComes(f) ==
  \E s \in Signallers :
     \/ hand[s].at = "resume" /\ hand[s].t = f
     \/ hand[s].at \in {"armed", "again"} /\ hand[s].e = held[f] /\ waiter[held[f]] = f
NoStrandedWaiter == \A f \in Fibers : pc[f] = "switch" => Woken(f) \/ SignalComes(f)

\* As long as no Signal is repeated, a fiber returns on the signal it armed and
\* on no other.
WokenByItsOwn ==
  repeats = 0 =>
    \A f \in Fibers, s \in Signallers :
       pc[f] = "release" => ~(hand[s].at = "armed" /\ hand[s].e = held[f])

\* "a second Signal sees null": refuted by a repeat that comes after the event
\* has gone through the pool to another fiber.
SecondSignalSeesNull ==
  \A s \in Signallers : hand[s].at = "again" => waiter[hand[s].e] = Null
=============================================================================
