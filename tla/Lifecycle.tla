------------------------------ MODULE Lifecycle ------------------------------
(***************************************************************************)
(* The life of the pool: StartPool brings the services and the workers up, *)
(* Join takes them down.  Join stops the services, empties the shared lane *)
(* intake, drains every registered primitive so that the frames parked on  *)
(* them unwind, waits until two looks at the pool find it quiet (or two    *)
(* seconds pass), stops the workers and clears the queues.                 *)
(*                                                                         *)
(* A frame is a task with a stack: it constructs the primitives it owns,   *)
(* may wait on a primitive, and destroys what it owns when it unwinds; its *)
(* end may wake another frame through a WaitGroup.  A worker has a task in *)
(* hand before it says `busy` and is no longer `busy` when it disposes of  *)
(* a finished one.                                                         *)
(***************************************************************************)
EXTENDS Naturals, Sequences, FiniteSets, SequencesExt

CONSTANTS
  Workers,      \* 1 .. N
  Frames, Primitives, Null,
  Owns,         \* [Frames -> SUBSET Primitives]: on the frame's stack
  WaitsOn,      \* [Frames -> Primitives \cup {Null}]
  Wakes,        \* [Frames -> Frames \cup {Null}]: by a WaitGroup, at its end
  Timed,        \* the frames a service pushes when they are due
  MaxInits

VARIABLES
  pc,           \* the thread that calls Init and Join
  poolActive, services, inits,
  intake,       \* the shared lane intake
  registry,     \* primitivesHead and what follows
  popped,       \* the primitive Join has unlinked and is about to drain
  destroyed,    \* primitives whose destructor has begun
  place,        \* where each frame is
  waited,       \* frames whose wait is over
  inbox, deque, \* per worker
  hand,         \* task_to_run
  phase,        \* where each worker is
  running,      \* Thread::running
  scan, clean   \* Join's look at the pool: next worker, clean passes

lifeVars == <<pc, poolActive, services, inits, intake, registry, popped,
              destroyed, place, waited, inbox, deque, hand, phase, running,
              scan, clean>>
poolVars == <<inbox, deque, hand, phase>>
joinVars == <<pc, poolActive, services, inits, popped, scan, clean>>

Locals == UNION {Owns[f] : f \in Frames}
Globals == Primitives \ Locals
Awaited == {g \in Frames : \E f \in Frames : Wakes[f] = g}

TypeOK ==
  /\ pc \in {"up", "intake", "prims", "drain", "scan", "deques", "stop",
              "join", "down", "start"}
  /\ {poolActive, services} \subseteq BOOLEAN /\ inits \in 0 .. MaxInits
  /\ popped \in Primitives \cup {Null} /\ destroyed \subseteq Primitives
  /\ waited \subseteq Frames /\ running \subseteq Workers
  /\ place \in [Frames -> {"new", "timed", "parked", "queued", "worker", "done",
                           "lost"}]
  /\ phase \in [Workers -> {"none", "loop", "hand", "run", "post"}]
  /\ hand \in [Workers -> Frames \cup {Null}]
  /\ scan \in 1 .. Cardinality(Workers) + 1 /\ clean \in 0 .. 2

Init ==
  /\ pc = "up" /\ poolActive = TRUE /\ services = TRUE /\ inits = 1
  /\ registry = SetToSeq(Globals) /\ popped = Null /\ destroyed = {}
  /\ place = [f \in Frames |-> IF f \in Timed THEN "timed"
                               ELSE IF f \in Awaited THEN "parked" ELSE "new"]
  /\ waited = Awaited /\ intake = <<>>
  /\ inbox = [w \in Workers |-> <<>>] /\ deque = [w \in Workers |-> <<>>]
  /\ hand = [w \in Workers |-> Null] /\ phase = [w \in Workers |-> "loop"]
  /\ running = Workers /\ scan = 1 /\ clean = 0

Places(S, where) == place' = [f \in Frames |-> IF f \in S THEN where ELSE place[f]]
Goes(where) == pc' = where

-----------------------------------------------------------------------------
(* Tasks and workers                                                       *)

\* A task is pushed to a worker's inbox by the program.
Push(f, w) ==
  /\ pc = "up" /\ poolActive /\ place[f] = "new"
  /\ inbox' = [inbox EXCEPT ![w] = Append(@, f)]
  /\ Places({f}, "queued")
  /\ UNCHANGED <<joinVars, intake, registry, destroyed, waited, deque, hand,
                 phase, running>>

\* A service's completion goes to the shared intake.
ServicePush(f) ==
  /\ services /\ place[f] = "timed"
  /\ intake' = Append(intake, f)
  /\ Places({f}, "queued")
  /\ UNCHANGED <<joinVars, registry, destroyed, waited, poolVars, running>>

\* A worker of the loop takes a task: from the intake, its deque or a victim's,
\* or the last of a batch from its inbox.  It is in its hand, and not busy.
InHand(w, f) ==
  /\ hand' = [hand EXCEPT ![w] = f] /\ phase' = [phase EXCEPT ![w] = "hand"]
  /\ Places({f}, "worker")

Takes(w) ==
  /\ phase[w] = "loop" /\ w \in running
  /\ \/ /\ intake # <<>> /\ intake' = Tail(intake)
        /\ InHand(w, Head(intake))
        /\ UNCHANGED <<inbox, deque>>
     \/ /\ \E v \in Workers :
             /\ deque[v] # <<>>
             /\ LET f == IF v = w THEN Last(deque[v]) ELSE Head(deque[v])
                IN /\ InHand(w, f)
                   /\ deque' = [deque EXCEPT ![v] = Remove(@, f)]
        /\ UNCHANGED <<inbox, intake>>
     \/ /\ inbox[w] # <<>>
        /\ InHand(w, Last(inbox[w]))
        /\ deque' = [deque EXCEPT ![w] = @ \o Front(inbox[w])]
        /\ inbox' = [inbox EXCEPT ![w] = <<>>]
        /\ UNCHANGED intake
  /\ UNCHANGED <<joinVars, registry, destroyed, waited, running>>

\* A stopped worker leaves its loop; a task in its hand is dropped with it.
Exits(w) ==
  /\ phase[w] \in {"loop", "hand"} /\ w \notin running
  /\ phase' = [phase EXCEPT ![w] = "none"]
  /\ Places(IF hand[w] = Null THEN {} ELSE {hand[w]}, "lost")
  /\ hand' = [hand EXCEPT ![w] = Null]
  /\ UNCHANGED <<joinVars, intake, registry, destroyed, waited, inbox, deque,
                 running>>

\* busy = true, and the switch into the frame, which constructs what it owns.
Runs(w) ==
  /\ phase[w] = "hand" /\ w \in running
  /\ phase' = [phase EXCEPT ![w] = "run"]
  /\ registry' = IF hand[w] \in waited THEN registry
                 ELSE SetToSeq(Owns[hand[w]]) \o registry
  /\ UNCHANGED <<joinVars, intake, destroyed, place, waited, inbox, deque,
                 hand, running>>

\* The frame waits: it parks on the primitive and gives the worker back.
Parks(w) ==
  LET f == hand[w]
  IN /\ phase[w] = "run" /\ f \notin waited /\ WaitsOn[f] # Null
     /\ Places({f}, "parked") /\ waited' = waited \cup {f}
     /\ phase' = [phase EXCEPT ![w] = "loop"] /\ hand' = [hand EXCEPT ![w] = Null]
     /\ UNCHANGED <<joinVars, intake, registry, destroyed, inbox, deque, running>>

\* As if only ~WaitPrimitive unlinked, when the derived part is gone.
LeaveRegistryLast(p) == UNCHANGED registry

\* LeaveRegistry: the first thing a primitive's destructor does.
LeaveRegistry(p) == registry' = Remove(registry, p)

\* The frame unwinds: it destroys the primitives it owns one by one.
Unwinds(w, p) ==
  /\ phase[w] = "run" /\ (hand[w] \in waited \/ WaitsOn[hand[w]] = Null)
  /\ p \in Owns[hand[w]] \ destroyed
  /\ LeaveRegistry(p)
  /\ destroyed' = destroyed \cup {p}
  /\ UNCHANGED <<joinVars, intake, place, waited, poolVars, running>>

\* The frame returns: busy = false.
Ends(w) ==
  /\ phase[w] = "run" /\ (hand[w] \in waited \/ WaitsOn[hand[w]] = Null)
  /\ Owns[hand[w]] \subseteq destroyed
  /\ phase' = [phase EXCEPT ![w] = "post"]
  /\ UNCHANGED <<joinVars, intake, registry, destroyed, place, waited, inbox,
                 deque, hand, running>>

\* ... and then its task is disposed of: the WaitGroup is decremented, and the
\* frame waiting on it is pushed.
Disposes(w) ==
  LET f == hand[w]
      g == Wakes[f]
  IN /\ phase[w] = "post"
     /\ phase' = [phase EXCEPT ![w] = "loop"] /\ hand' = [hand EXCEPT ![w] = Null]
     /\ IF g = Null THEN Places({f}, "done") /\ UNCHANGED inbox
        ELSE /\ place' = [place EXCEPT ![f] = "done", ![g] = "queued"]
             /\ \E v \in Workers : inbox' = [inbox EXCEPT ![v] = Append(@, g)]
     /\ UNCHANGED <<joinVars, intake, registry, destroyed, waited, deque, running>>

-----------------------------------------------------------------------------
(* Join                                                                    *)

\* Producers stop first: both services are joined.
StopServices ==
  /\ pc = "up" /\ poolActive
  /\ services' = FALSE /\ Goes("intake")
  /\ UNCHANGED <<poolActive, inits, popped, scan, clean, intake, registry,
                 destroyed, place, waited, poolVars, running>>

\* The intake is closed and what it holds is pushed to the floor.
DrainIntake ==
  /\ pc = "intake"
  /\ IF intake = <<>> THEN Goes("prims") /\ UNCHANGED <<intake, inbox>>
     ELSE /\ intake' = Tail(intake)
          /\ \E w \in Workers : inbox' = [inbox EXCEPT ![w] = Append(@, Head(intake))]
          /\ UNCHANGED pc
  /\ UNCHANGED <<poolActive, services, inits, popped, scan, clean, registry,
                 destroyed, place, waited, deque, hand, phase, running>>

\* The head of the registry is unlinked under the mutex ...
PopPrimitive ==
  /\ pc = "prims"
  /\ IF registry = <<>> THEN Goes("scan") /\ UNCHANGED <<registry, popped>>
     ELSE /\ popped' = Head(registry) /\ registry' = Tail(registry)
          /\ Goes("drain")
  /\ UNCHANGED <<poolActive, services, inits, scan, clean, intake, destroyed,
                 place, waited, poolVars, running>>

\* ... and drained outside it: its waiters are pushed, cancelled.
ParkedOn(p) == {f \in Frames : place[f] = "parked" /\ WaitsOn[f] = p}

DrainForShutdown ==
  LET S == ParkedOn(popped)
  IN /\ pc = "drain"
     /\ popped' = Null /\ Goes("prims")
     /\ Places(S, "queued")
     /\ \E w \in Workers : inbox' = [inbox EXCEPT ![w] = @ \o SetToSeq(S)]
     /\ UNCHANGED <<poolActive, services, inits, scan, clean, intake, registry,
                    destroyed, waited, deque, hand, phase, running>>

\* One worker is looked at: busy, then its inboxes.
ScanWorker ==
  /\ pc = "scan"
  /\ IF phase[scan] = "run" \/ inbox[scan] # <<>>
     THEN clean' = 0 /\ scan' = 1 /\ UNCHANGED pc
     ELSE IF scan + 1 \in Workers THEN scan' = scan + 1 /\ UNCHANGED <<clean, pc>>
          ELSE scan' = 1 /\ Goes("deques") /\ UNCHANGED clean
  /\ UNCHANGED <<poolActive, services, inits, popped, intake, registry,
                 destroyed, place, waited, poolVars, running>>

\* Then every deque; the second clean pass in a row ends the wait.
ScanDeques ==
  /\ pc = "deques"
  /\ IF deque[scan] # <<>> THEN clean' = 0 /\ scan' = 1 /\ Goes("scan")
     ELSE IF scan + 1 \in Workers THEN scan' = scan + 1 /\ UNCHANGED <<clean, pc>>
          ELSE /\ clean' = clean + 1 /\ scan' = 1
               /\ Goes(IF clean' >= 2 THEN "stop" ELSE "scan")
  /\ UNCHANGED <<poolActive, services, inits, popped, intake, registry,
                 destroyed, place, waited, poolVars, running>>

\* Two seconds have passed.
Deadline ==
  /\ pc = "scan" /\ scan = 1
  /\ Goes("stop") /\ clean' = 0
  /\ UNCHANGED <<poolActive, services, inits, popped, scan, intake, registry,
                 destroyed, place, waited, poolVars, running>>

\* RequestStop on every worker, then ResumeAll.
RequestStop ==
  /\ pc = "stop"
  /\ running' = {} /\ Goes("join")
  /\ UNCHANGED <<poolActive, services, inits, popped, scan, clean, intake,
                 registry, destroyed, place, waited, poolVars>>

\* Every thread is joined; workers and mainQ are cleared with what is queued.
JoinThreads ==
  /\ pc = "join" /\ \A w \in Workers : phase[w] = "none"
  /\ Goes("down") /\ poolActive' = FALSE /\ clean' = 0
  /\ inbox' = [w \in Workers |-> <<>>] /\ deque' = [w \in Workers |-> <<>>]
  /\ Places({f \in Frames : \E w \in Workers :
               f \in Range(inbox[w]) \cup Range(deque[w])}, "lost")
  /\ UNCHANGED <<services, inits, popped, scan, intake, registry, destroyed,
                 waited, hand, phase, running>>

-----------------------------------------------------------------------------
(* Init and StartPool                                                      *)

\* StartPool clears the queues and starts the services ...
StartPool ==
  /\ pc = "down" /\ inits < MaxInits
  /\ inits' = inits + 1 /\ services' = TRUE /\ Goes("start")
  /\ UNCHANGED <<poolActive, popped, scan, clean, intake, registry, destroyed,
                 place, waited, poolVars, running>>

\* ... then each worker, and is done when all of them are ready.
StartWorker(w) ==
  /\ pc = "start" /\ phase[w] = "none"
  /\ phase' = [phase EXCEPT ![w] = "loop"] /\ running' = running \cup {w}
  /\ UNCHANGED <<joinVars, intake, registry, destroyed, place, waited, inbox,
                 deque, hand>>

PoolStarts ==
  /\ pc = "start" /\ running = Workers
  /\ poolActive' = TRUE /\ Goes("up")
  /\ UNCHANGED <<services, inits, popped, scan, clean, intake, registry,
                 destroyed, place, waited, poolVars, running>>

-----------------------------------------------------------------------------

WorkerStep(w) ==
  \/ Takes(w) \/ Exits(w) \/ Runs(w) \/ Parks(w) \/ Ends(w) \/ Disposes(w)
  \/ \E p \in Locals : Unwinds(w, p)

JoinStep ==
  \/ StopServices \/ DrainIntake \/ PopPrimitive \/ DrainForShutdown
  \/ ScanWorker \/ ScanDeques \/ Deadline \/ RequestStop \/ JoinThreads
  \/ StartPool \/ PoolStarts

Next ==
  \/ \E f \in Frames : \E w \in Workers : Push(f, w)
  \/ \E f \in Frames : ServicePush(f)
  \/ \E w \in Workers : WorkerStep(w) \/ StartWorker(w)
  \/ JoinStep

Spec == Init /\ [][Next]_lifeVars

-----------------------------------------------------------------------------
(* Properties                                                              *)

\* The queues, hands and waits hold every frame once: no drain, steal, exit or
\* clearing of the queues runs a frame twice.
FrameInOnePlace ==
  \A f \in Frames :
    LET count(s) == Cardinality({i \in DOMAIN s : s[i] = f})
        in(q) == Cardinality({<<w, i>> \in Workers \X (1 .. Cardinality(Frames)) :
                                i \in DOMAIN q[w] /\ q[w][i] = f})
        held == Cardinality({w \in Workers : hand[w] = f})
    IN /\ count(intake) + in(inbox) + in(deque)
            = (IF place[f] = "queued" THEN 1 ELSE 0)
       /\ held = (IF place[f] = "worker" THEN 1 ELSE 0)

\* "Producers stop, then consumers": while a service can push there are workers
\* to push to, and once Join has emptied the intake "nothing refills it behind
\* us".
ProducersStopFirst ==
  /\ services => pc = "start" \/ running = Workers
  /\ pc \in {"prims", "drain", "scan", "deques", "stop", "join"} => intake = <<>>

\* The registry holds primitives that are whole: "a concurrent drain that races
\* us either sees a fully-formed object or does not see us at all".
RegistryIsAlive == Range(registry) \cap destroyed = {}

\* The same promise of the primitive that Join has already unlinked.
DrainSeesLive == pc = "drain" => popped \notin destroyed

\* Two clean passes mean that no frame is left to unwind on a worker or in a
\* queue: "QUIESCENT MEANS: no worker executing, and every queue this pool can
\* hold work in is empty".
QuietMeansQuiet ==
  pc = "stop" /\ clean = 2
    => \A f \in Frames : place[f] \notin {"queued", "worker"}
=============================================================================
