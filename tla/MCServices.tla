----------------------------- MODULE MCServices -----------------------------
(***************************************************************************)
(* The services that push work into the pool from their own threads, for   *)
(* TLC: the timer wheel, the io_uring reactor with the send stream on top, *)
(* the accept pool, and the Windows completion-port reactor.  The initial  *)
(* state chooses one of Parts.  The io_uring reactor comes in three        *)
(* setups: "chain", two fibers send through one stream; "stop", a fiber    *)
(* and two completion threads across Stop and Start; "repeat", a fiber     *)
(* that cancels and submits again.                                         *)
(***************************************************************************)
EXTENDS Integers, FiniteSets, TLC

CONSTANTS
  Parts,
  Slots, Levels, Batch, Delays, MaxArms, MaxNow,         \* timer
  f1, f2, l1, l2, Bytes, kShards, kBatch, MaxTargets, Entries, Wake, All,
  AcceptSlots, Waiters, MaxSockets,                      \* acceptor
  PortFibers, PortThreads, PortOps, PortStops, PortCancels

ASSUME ServicesAssumption ==
  /\ {Slots, Levels, Batch, Bytes, kShards, kBatch, MaxTargets, Entries} \subseteq Nat \ {0}
  /\ Slots > 1 /\ Delays \subseteq Nat /\ MaxArms \in Nat /\ MaxNow \in Nat
  /\ Wake \notin {f1, f2} \cup PortFibers
  /\ IsFiniteSet(AcceptSlots) /\ MaxSockets \in Nat
  /\ {PortOps, PortStops, PortCancels} \subseteq Nat

VARIABLES
  part,
  now, currentTick, entries, armedCount, timerRunning, timerStopping, worker,
  until, tokens, handle, due, fired, disarmed,                         \* timer
  sq, cq, kernel, asked, linked, total, stopping, workers, lp, call, req,
  cancelled, can, stopper, pc, ops, woken, busy, chain,                \* stream
  made, slot, ready, waitq, outstanding, acceptStopping, scopeCancelled,
  acceptStopper, waiter, got, acceptCancelled, closed,                 \* acceptor
  port, portKernel, aborting, portLinked, portTotal, portStopping,
  portRunning, th, portStopper, portPc, out, portOps, portWoken,
  portCancelled, asking                                                \* port

timerVars == <<now, currentTick, entries, armedCount, timerRunning, timerStopping,
               worker, until, tokens, handle, due, fired, disarmed>>
streamVars == <<sq, cq, kernel, asked, linked, total, stopping, workers, lp, call,
                req, cancelled, can, stopper, pc, ops, woken, busy, chain>>
acceptVars == <<made, slot, ready, waitq, outstanding, acceptStopping, scopeCancelled,
                acceptStopper, waiter, got, acceptCancelled, closed>>
portVars == <<port, portKernel, aborting, portLinked, portTotal, portStopping,
              portRunning, th, portStopper, portPc, out, portOps, portWoken,
              portCancelled, asking>>
vars == <<part, timerVars, streamVars, acceptVars, portVars>>

Wheel == INSTANCE Timer WITH running <- timerRunning, stopping <- timerStopping

Chain == INSTANCE IoStream WITH Fibers <- {f1, f2}, Streamed <- {f1, f2},
           Loops <- {l1}, MaxOps <- 1, MaxStarts <- 1, MaxStops <- 0, MaxCancels <- 1
Stop == INSTANCE IoStream WITH Fibers <- {f1}, Streamed <- {},
          Loops <- {l1, l2}, MaxOps <- 1, MaxStarts <- 2, MaxStops <- 1, MaxCancels <- 0
Repeat == INSTANCE IoStream WITH Fibers <- {f1}, Streamed <- {},
            Loops <- {l1}, MaxOps <- 2, MaxStarts <- 1, MaxStops <- 0, MaxCancels <- 2

Accept == INSTANCE IoAcceptor WITH Slots <- AcceptSlots, stopping <- acceptStopping,
            stopper <- acceptStopper, cancelled <- acceptCancelled

Port == INSTANCE IoReactorWin32 WITH Fibers <- PortFibers, Threads <- PortThreads,
          MaxOps <- PortOps, MaxStops <- PortStops, MaxCancels <- PortCancels,
          kernel <- portKernel, linked <- portLinked, total <- portTotal,
          stopping <- portStopping, running <- portRunning, stopper <- portStopper,
          pc <- portPc, ops <- portOps, woken <- portWoken, cancelled <- portCancelled

Init ==
  /\ part \in Parts
  /\ Wheel!Init /\ Accept!Init /\ Port!Init
  /\ IF part = "stop" THEN Stop!Init ELSE IF part = "repeat" THEN Repeat!Init ELSE Chain!Init

TimerDoes(A) == part = "timer" /\ A /\ UNCHANGED <<part, streamVars, acceptVars, portVars>>
StreamDoes(setup, A) == part = setup /\ A /\ UNCHANGED <<part, timerVars, acceptVars, portVars>>
AcceptDoes(A) == part = "accept" /\ A /\ UNCHANGED <<part, timerVars, streamVars, portVars>>
PortDoes(A) == part = "port" /\ A /\ UNCHANGED <<part, timerVars, streamVars, acceptVars>>

Next ==
  \/ TimerDoes(Wheel!Next)
  \/ StreamDoes("chain", Chain!Next) \/ StreamDoes("stop", Stop!Next)
  \/ StreamDoes("repeat", Repeat!Next)
  \/ AcceptDoes(Accept!Next) \/ PortDoes(Port!Next)

Spec == Init /\ [][Next]_vars

-----------------------------------------------------------------------------
TypeOK ==
  CASE part = "timer"  -> Wheel!TypeOK
    [] part = "chain"  -> Chain!TypeOK
    [] part = "stop"   -> Stop!TypeOK
    [] part = "repeat" -> Repeat!TypeOK
    [] part = "accept" -> Accept!TypeOK
    [] part = "port"   -> Port!TypeOK

\* Timer: an arming is in the wheel, in the worker's batch, fired or disarmed,
\* and never two of these, however its entry is reused and its handle kept; it
\* never fires before its deadline; and NextEventTick shows an event no later
\* than any armed deadline, or, for an entry that Arm's own AdvanceTo jumped
\* over, within one turn of level 0.
TimersKept ==
  part = "timer" => Wheel!ArmingInOnePlace /\ Wheel!NeverEarly /\ Wheel!WheelFinds

\* IoReactor, io_uring and completion port: while a fiber runs, nothing of the
\* reactor refers to its frame, neither the kernel nor a list nor a completion
\* on its way; and whatever the kernel owns is in a shard's list, where
\* RequestCancel and Stop find it.  (The state of whichever service runs is of
\* its type besides.)
FrameIsOwned ==
  /\ TypeOK
  /\ part = "chain" => Chain!FrameIsOwned /\ Chain!InFlightIsLinked
  /\ part = "stop" => Stop!FrameIsOwned /\ Stop!InFlightIsLinked
  /\ part = "repeat" => Repeat!FrameIsOwned /\ Repeat!InFlightIsLinked
  /\ part = "port" => Port!FrameIsOwned /\ Port!InFlightIsLinked

\* IoStream: one transfer of a chain is in flight at a time, so the bytes of
\* two sends never mix.
OneInFlight == part = "chain" => Chain!OneInFlight

\* IoAcceptor: a socket is in a slot, ready, with one waiter or closed once; and
\* a waiter is parked, once, only while no connection is ready and Stop has not
\* swept the list.
SocketInOnePlace ==
  part = "accept" => Accept!SocketInOnePlace /\ Accept!WaitsForSomething
=============================================================================
