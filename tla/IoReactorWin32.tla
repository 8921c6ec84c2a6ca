--------------------------- MODULE IoReactorWin32 ---------------------------
(***************************************************************************)
(* The completion-port reactor, src/win32/IoReactor.cpp, and fibers waiting *)
(* on it through include/IoFiber.h's Await.  It differs from the io_uring   *)
(* one where it matters: several completion threads share the port, one     *)
(* packet is taken at a time, cancels are asked for under the shard lock,   *)
(* and a thread goes only when the in-flight count is zero.                 *)
(*                                                                         *)
(* A request is named by the fiber whose frame it lives in.  The port and   *)
(* the kernel behind it are external: an operation the kernel took queues   *)
(* exactly one packet, whatever its outcome.                                *)
(***************************************************************************)
EXTENDS Integers, Sequences, FiniteSets, SequencesExt

CONSTANTS
    Fibers,         \* the fibers doing I/O, and their requests
    Threads,        \* the completion threads
    Wake,           \* the packet with no OVERLAPPED
    kBatch,         \* completions collected before a flush
    MaxOps, MaxStops, MaxCancels    \* bounds

VARIABLES
    port,           \* queued packets: [who, res]
    kernel,         \* operations the kernel owns
    aborting,       \* those a CancelIoEx has reached
    linked, total,  \* the shards' lists; the in-flight count
    stopping, running,
    th,             \* completion threads: [at, batch]
    stopper,        \* the thread in Stop and Start: [at, stops]
    pc,             \* fibers: "run", the steps of Register and Submit, "wait"
    out, ops, woken,
    cancelled,      \* cancelled tokens, <<fiber, operation>>
    asking          \* fibers whose scope's RequestCancel is still to run

kernelVars == <<port, kernel, aborting>>
listVars == <<linked, total>>
stopVars == <<stopping, running, stopper>>
fiberVars == <<pc, out, ops, woken>>
vars == <<kernelVars, listVars, stopVars, fiberVars, th, cancelled, asking>>

Token(f) == <<f, ops[f]>>
Packet(who, res) == [who |-> who, res |-> res]

Init ==
    /\ port = <<>> /\ kernel = {} /\ aborting = {}
    /\ linked = {} /\ total = 0
    /\ stopping = FALSE /\ running = FALSE
    /\ th = [t \in Threads |-> [at |-> "off", batch |-> {}]]
    /\ stopper = [at |-> "up", stops |-> 0]
    /\ pc = [f \in Fibers |-> "run"]
    /\ out = [f \in Fibers |-> "none"]
    /\ ops = [f \in Fibers |-> 0]
    /\ woken = [f \in Fibers |-> FALSE]
    /\ cancelled = {} /\ asking = {}

\* The kernel finishes an operation; an aborted one may still have completed.
KernelDone(f) ==
    /\ f \in kernel
    /\ kernel' = kernel \ {f} /\ aborting' = aborting \ {f}
    /\ \E res \in IF f \in aborting THEN {"done", "cancelled"} ELSE {"done"} :
          port' = Append(port, Packet(f, res))
    /\ UNCHANGED <<listVars, stopVars, fiberVars, th, cancelled, asking>>

(***************************************************************************)
(* Submit, in a fiber.                                                      *)
(***************************************************************************)

Await(f) ==
    /\ pc[f] = "run" /\ ops[f] < MaxOps
    /\ ops' = [ops EXCEPT ![f] = @ + 1]
    /\ out' = [out EXCEPT ![f] = "none"]
    /\ woken' = [woken EXCEPT ![f] = FALSE]
    /\ pc' = [pc EXCEPT ![f] = "entry"]
    /\ UNCHANGED <<kernelVars, listVars, stopVars, th, cancelled, asking>>

\* SubmitRecvV, SubmitSendTo, SubmitAccept and the others: fill in the request
\* and go on to Submit, or refuse it with a final answer (no or too many
\* segments, no address, an extension the provider lacks).
SubmitEntry(f) ==
    /\ pc[f] = "entry"
    /\ \/ pc' = [pc EXCEPT ![f] = "check"] /\ UNCHANGED out
       \/ /\ out' = [out EXCEPT ![f] = "failed"]
          /\ pc' = [pc EXCEPT ![f] = "run"]
    /\ UNCHANGED <<kernelVars, listVars, stopVars, th, cancelled, asking, ops, woken>>

\* An already cancelled token, or a stopped reactor, is answered at once.
SubmitCheck(f) ==
    /\ pc[f] = "check"
    /\ IF Token(f) \in cancelled \/ stopping
       THEN /\ out' = [out EXCEPT ![f] = IF Token(f) \in cancelled THEN "cancelled" ELSE "failed"]
            /\ pc' = [pc EXCEPT ![f] = "run"]
       ELSE pc' = [pc EXCEPT ![f] = "ensure"] /\ UNCHANGED out
    /\ UNCHANGED <<kernelVars, listVars, stopVars, th, cancelled, asking, ops, woken>>

\* The first caller spawns them all.
EnsureThreads ==
    /\ running' = TRUE
    /\ th' = IF running THEN th ELSE [t \in Threads |-> [at |-> "poll", batch |-> {}]]
    /\ UNCHANGED <<stopping, stopper>>

SubmitEnsure(f) ==
    /\ pc[f] = "ensure"
    /\ EnsureThreads
    /\ pc' = [pc EXCEPT ![f] = "link"]
    /\ UNCHANGED <<kernelVars, listVars, cancelled, asking, out, ops, woken>>

\* Register, for a handle the fiber will use: refused when stopping, else the
\* threads are started and the handle is associated with the port.
Register(f) ==
    /\ pc[f] = "run" /\ ops[f] < MaxOps /\ ~stopping
    /\ pc' = [pc EXCEPT ![f] = "register"]
    /\ UNCHANGED <<kernelVars, listVars, stopVars, th, cancelled, asking, out, ops, woken>>

RegisterEnsure(f) ==
    /\ pc[f] = "register"
    /\ EnsureThreads
    /\ pc' = [pc EXCEPT ![f] = "run"]
    /\ UNCHANGED <<kernelVars, listVars, cancelled, asking, out, ops, woken>>

Link(f) == linked' = linked \cup {f} /\ total' = total + 1
Unlink(f) == linked' = linked \ {f} /\ total' = total - 1

SubmitLink(f) ==
    /\ pc[f] = "link"
    /\ Link(f)
    /\ pc' = [pc EXCEPT ![f] = "issue"]
    /\ UNCHANGED <<kernelVars, stopVars, th, cancelled, asking, out, ops, woken>>

\* The system call: pending, or rejected outright and answered at once.
SubmitIssue(f) ==
    /\ pc[f] = "issue"
    /\ \/ /\ kernel' = kernel \cup {f}
          /\ pc' = [pc EXCEPT ![f] = "wait"]
          /\ UNCHANGED <<listVars, out>>
       \/ /\ Unlink(f)
          /\ out' = [out EXCEPT ![f] = "failed"]
          /\ pc' = [pc EXCEPT ![f] = "run"]
          /\ UNCHANGED kernel
    /\ UNCHANGED <<port, aborting, stopVars, th, cancelled, asking, ops, woken>>

Resumes(f) ==
    /\ pc[f] = "wait" /\ woken[f]
    /\ pc' = [pc EXCEPT ![f] = "run"]
    /\ UNCHANGED <<kernelVars, listVars, stopVars, th, cancelled, asking, out, ops, woken>>

(***************************************************************************)
(* Run, a completion thread.                                                *)
(***************************************************************************)

Pushed(batch) == woken' = [f \in Fibers |-> woken[f] \/ f \in batch]

\* An empty poll with completions in hand: flush them.
EmptyPoll(t) ==
    /\ th[t].at = "poll" /\ port = <<>> /\ th[t].batch /= {}
    /\ Pushed(th[t].batch)
    /\ th' = [th EXCEPT ![t].batch = {}]
    /\ UNCHANGED <<kernelVars, listVars, stopVars, cancelled, asking, pc, out, ops>>

\* A wake-up: the thread goes only if stopping and nothing is in flight, and
\* passes the wake-up on.
WakeSeen(t) ==
    /\ th[t].at = "poll" /\ port /= <<>> /\ Head(port).who = Wake
    /\ \/ /\ stopping /\ total = 0
          /\ port' = Append(Tail(port), Packet(Wake, "done"))
          /\ th' = [th EXCEPT ![t].at = "gone"]
       \/ /\ ~(stopping /\ total = 0)
          /\ port' = Tail(port)
          /\ UNCHANGED th
    /\ UNCHANGED <<kernel, aborting, listVars, stopVars, fiberVars, cancelled, asking>>

\* A completion: unlink and write the result under the shard lock; collect the
\* resume; flush when full, or when stopping.
Completion(t) ==
    LET f     == Head(port).who
        batch == th[t].batch \cup {f}
        flush == stopping \/ Cardinality(batch) = kBatch
    IN  /\ th[t].at = "poll" /\ port /= <<>> /\ f \in Fibers
        /\ port' = Tail(port)
        /\ Unlink(f)
        /\ out' = [out EXCEPT ![f] = Head(port).res]
        /\ Pushed(IF flush THEN batch ELSE {})
        /\ th' = [th EXCEPT ![t].batch = IF flush THEN {} ELSE batch]
        /\ UNCHANGED <<kernel, aborting, stopVars, cancelled, asking, pc, ops>>

(***************************************************************************)
(* RequestCancel, Stop and Start.                                           *)
(***************************************************************************)

\* A caller cancels the scope of fiber f's operation ...
CancelScope(f) ==
    /\ Cardinality(cancelled) < MaxCancels
    /\ pc[f] \notin {"run", "register"} /\ Token(f) \notin cancelled
    /\ cancelled' = cancelled \cup {Token(f)}
    /\ asking' = asking \cup {f}
    /\ UNCHANGED <<kernelVars, listVars, stopVars, fiberVars, th>>

\* ... and then asks the reactor: under the shard lock, CancelIoEx of every
\* linked operation of the token; the kernel finds the ones it has been issued.
RequestCancel(f) ==
    /\ f \in asking
    /\ asking' = asking \ {f}
    /\ aborting' = aborting \cup ({g \in {f} : Token(g) \in cancelled} \cap linked \cap kernel)
    /\ UNCHANGED <<port, kernel, listVars, stopVars, fiberVars, th, cancelled>>

StopBegin ==
    /\ stopper.at = "up" /\ stopper.stops < MaxStops
    /\ stopping' = TRUE
    /\ stopper' = [at |-> IF running THEN "cancel" ELSE "down", stops |-> stopper.stops + 1]
    /\ UNCHANGED <<kernelVars, listVars, running, fiberVars, th, cancelled, asking>>

\* RequestCancel of everything, then one wake-up per thread.
StopCancels ==
    /\ stopper.at = "cancel"
    /\ aborting' = aborting \cup (linked \cap kernel)
    /\ stopper' = [stopper EXCEPT !.at = "wake"]
    /\ UNCHANGED <<port, kernel, listVars, stopping, running, fiberVars, th, cancelled, asking>>

StopWakes ==
    /\ stopper.at = "wake"
    /\ port' = port \o [i \in 1..Cardinality(Threads) |-> Packet(Wake, "done")]
    /\ stopper' = [stopper EXCEPT !.at = "join"]
    /\ UNCHANGED <<kernel, aborting, listVars, stopping, running, fiberVars, th, cancelled, asking>>

StopJoins ==
    /\ stopper.at = "join" /\ \A t \in Threads : th[t].at = "gone"
    /\ running' = FALSE
    /\ stopper' = [stopper EXCEPT !.at = "down"]
    /\ UNCHANGED <<kernelVars, listVars, stopping, fiberVars, th, cancelled, asking>>

Start ==
    /\ stopper.at = "down"
    /\ stopping' = FALSE
    /\ stopper' = [stopper EXCEPT !.at = "up"]
    /\ UNCHANGED <<kernelVars, listVars, running, fiberVars, th, cancelled, asking>>

Next ==
    \/ \E f \in Fibers :
          \/ KernelDone(f) \/ Await(f) \/ SubmitEntry(f) \/ SubmitCheck(f) \/ SubmitEnsure(f)
          \/ Register(f) \/ RegisterEnsure(f) \/ SubmitLink(f) \/ SubmitIssue(f) \/ Resumes(f) \/ CancelScope(f) \/ RequestCancel(f)
    \/ \E t \in Threads : EmptyPoll(t) \/ WakeSeen(t) \/ Completion(t)
    \/ StopBegin \/ StopCancels \/ StopWakes \/ StopJoins \/ Start

Spec == Init /\ [][Next]_vars

(***************************************************************************)
(* Properties.                                                              *)
(***************************************************************************)

TypeOK ==
    /\ kernel \subseteq Fibers /\ aborting \subseteq kernel /\ linked \subseteq Fibers
    /\ total \in 0..Cardinality(Fibers)
    /\ \A i \in DOMAIN port : port[i].who \in Fibers \cup {Wake}
    /\ pc \in [Fibers -> {"run", "register", "entry", "check", "ensure", "link", "issue", "wait"}]
    /\ th \in [Threads -> [at : {"off", "poll", "gone"}, batch : SUBSET Fibers]]

\* While a fiber runs, nothing of the reactor refers to its frame: the kernel
\* does not own its buffer, no packet of it is queued, and a cancel pass over
\* the shards does not meet it ("a request is unlinked BEFORE its task is
\* pushed, never after, or a later cancel pass walks into a frame that has
\* resumed and gone").
FrameIsOwned ==
    \A f \in Fibers : pc[f] \in {"run", "register", "entry"} =>
        /\ f \notin kernel \cup linked
        /\ \A i \in DOMAIN port : port[i].who /= f
        /\ \A t \in Threads : f \notin th[t].batch

\* Every operation the kernel owns or has finished is in its shard, where a
\* cancel finds it, and the count the threads' exit hangs on is the lists'.
InFlightIsLinked ==
    /\ kernel \cup ({port[i].who : i \in DOMAIN port} \ {Wake}) \subseteq linked
    /\ total = Cardinality(linked)

\* "EVERY IN-FLIGHT OPERATION IS CANCELLED AND DRAINED BEFORE THE THREAD GOES":
\* a thread does not leave with completions it has collected and not pushed.
DrainedBeforeGone == \A t \in Threads : th[t].at = "gone" => th[t].batch = {}
=============================================================================
