--------------------------- MODULE IoReactorPosix ---------------------------
(***************************************************************************)
(* The io_uring reactor, src/posix/IoReactor.cpp over src/posix/IoUring.cpp,*)
(* and the fibers that wait on it through include/IoFiber.h's Await.        *)
(*                                                                         *)
(* A fiber's IoRequest and IoResult are locals of its frame, so a request   *)
(* is named by its fiber and its address is used again by the fiber's next  *)
(* operation.  The kernel side of the ring is external: it takes the SQE an *)
(* io_uring_enter publishes, may finish any operation it owns, a send with  *)
(* fewer bytes than asked for included, and answers an ASYNC_CANCEL with a  *)
(* CQE of its own beside the -ECANCELED of the operation.                   *)
(*                                                                         *)
(* Requests of a stream (the fibers in Streamed) carry a completion hook;   *)
(* module IoStream defines it.                                              *)
(***************************************************************************)
EXTENDS Integers, Sequences, FiniteSets, SequencesExt

CONSTANTS
    Fibers,         \* the fibers doing I/O, and their requests
    Streamed,       \* those that go through the IoStream
    Loops,          \* the completion threads that may be spawned
    Bytes,          \* length of a transfer
    MaxOps,         \* bound: operations per fiber
    MaxStarts,      \* bound: calls of Start
    MaxStops,       \* bound: calls of Stop
    MaxCancels,     \* bound: scopes cancelled
    kShards,        \* shards of the in-flight list
    kBatch,         \* completions collected before a flush
    MaxTargets,     \* targets one RequestCancel collects per shard
    Entries,        \* size of the submission queue
    Wake,           \* kWakeSentinel
    All             \* the default-constructed token: everything

VARIABLES
    sq,             \* SQEs published and not taken: [op, who]
    cq,             \* completion queue: [who, res]
    kernel,         \* requests the kernel owns
    asked,          \* ASYNC_CANCELs the kernel has not answered
    linked,         \* requests in the shards' lists
    total,          \* the in-flight count
    stopping, workers, \* stop latch; the thread vector (running iff not empty)
    lp,             \* completion threads: [at, todo, r, batch]
    call,           \* SubmitOp by a fiber or a completion thread: [at, r, for]
    req,            \* requests: [left, xferred, out]
    cancelled,      \* cancelled tokens, <<fiber, operation>>
    can,            \* RequestCancel by an application thread and by Stop
    stopper,        \* the thread that calls Start and Stop: [at, ts, starts, stops]
    pc, ops, woken  \* the fibers: where, operations begun, WaitGroup at zero

ringVars == <<sq, cq, kernel, asked>>
loopVars == <<lp, call>>
fiberVars == <<pc, ops, woken>>
stopVars == <<stopping, workers, stopper>>
reactorVars == <<ringVars, loopVars, fiberVars, stopVars, linked, total, req, cancelled, can>>

Actors == Fibers \cup Loops

\* What a CQE says: all of the transfer or an error, a part of it, -ECANCELED.
Results == {"done", "part", "cancelled"}

NoCall == [at |-> "none", r |-> Wake, for |-> "none"]

IdleLoop == [at |-> "off", todo |-> <<>>, r |-> Wake, batch |-> {}]

NoCancel == [at |-> "none", token |-> All, shard |-> 0, targets |-> {}]

\* The shard is a hash of the request's address: any fixed function of it.
ShardFor == CHOOSE f \in [Fibers -> 0..(kShards - 1)] : TRUE

\* The token of the operation fiber f is in.
Token(f) == <<f, ops[f]>>

ReactorInit ==
    /\ sq = <<>> /\ cq = <<>> /\ kernel = {} /\ asked = {}
    /\ linked = {} /\ total = 0
    /\ stopping = TRUE /\ workers = {}
    /\ stopper = [at |-> "down", ts |-> {}, starts |-> 0, stops |-> 0]
    /\ lp = [t \in Loops |-> IdleLoop]
    /\ call = [a \in Actors |-> NoCall]
    /\ req = [f \in Fibers |-> [left |-> Bytes, xferred |-> 0, out |-> "none"]]
    /\ cancelled = {}
    /\ can = [c \in {"user", "stop"} |-> NoCancel]
    /\ pc = [f \in Fibers |-> "run"]
    /\ ops = [f \in Fibers |-> 0]
    /\ woken = [f \in Fibers |-> FALSE]

(***************************************************************************)
(* The ring and the kernel behind it.                                       *)
(***************************************************************************)

\* PostWake, and the CQE of an ASYNC_CANCEL: both carry the sentinel.
WakeCqe == [who |-> Wake, res |-> "done"]

\* GetSqe: room for one more entry.
GetSqe == Len(sq) < Entries

\* Submit: publish the entry and let io_uring_enter take one, the OLDEST.
Submit(sqe) ==
    LET q == Append(sq, sqe)
        e == Head(q)
    IN  /\ sq' = Tail(q)
        /\ kernel' = IF e.op = "io" THEN kernel \cup {e.who} ELSE kernel
        /\ asked' = IF e.op = "cancel" THEN asked \cup {e.who} ELSE asked
        /\ cq' = IF e.op = "nop" THEN Append(cq, WakeCqe) ELSE cq

Sqe(op, who) == [op |-> op, who |-> who]

\* PostWake gives up silently when there is no room.
PostWake == IF GetSqe THEN Submit(Sqe("nop", Wake)) ELSE UNCHANGED ringVars

\* The kernel finishes an operation it owns; a cancelled one only if asked.
KernelDone(f, res) ==
    /\ f \in kernel
    /\ res = "part" => req[f].left > 1
    /\ res = "cancelled" => f \in asked
    /\ kernel' = kernel \ {f}
    /\ cq' = Append(cq, [who |-> f, res |-> res])
    /\ UNCHANGED <<sq, asked, loopVars, fiberVars, stopVars, linked, total, req, cancelled, can>>

\* The kernel answers an ASYNC_CANCEL.  The target, if it is still there, has
\* been or is now finished with -ECANCELED; the two CQEs come in either order.
KernelCancel(f) ==
    /\ f \in asked
    /\ asked' = asked \ {f}
    /\ \/ f \notin kernel /\ cq' = Append(cq, WakeCqe)
       \/ f \in kernel /\ cq' = cq \o <<WakeCqe, [who |-> f, res |-> "cancelled"]>>
    /\ kernel' = kernel \ {f}
    /\ UNCHANGED <<sq, loopVars, fiberVars, stopVars, linked, total, req, cancelled, can>>

(***************************************************************************)
(* EnsureThreads and SubmitOp.                                              *)
(***************************************************************************)

\* Spawns the completion thread if none is running, and clears the stop latch.
EnsureThreads ==
    IF workers /= {} THEN UNCHANGED <<stopping, workers, lp>>
    ELSE \E t \in Loops :
            /\ lp[t].at \in {"off", "gone"}
            /\ lp' = [lp EXCEPT ![t] = [IdleLoop EXCEPT !.at = "wait"]]
            /\ stopping' = FALSE
            /\ workers' = {t}

\* SubmitOp has an answer: immediate (do not suspend) or queued.
Answers(a, how) == call' = [call EXCEPT ![a].at = how]

Link(f) == linked' = linked \cup {f} /\ total' = total + 1

\* The list removal tolerates a request that is not in it; the count does not.
UnlinkLocked(f) == linked' = linked \ {f} /\ total' = total - 1

\* An already cancelled token or a stopped reactor is answered at once.
SubmitCheck(a) ==
    LET f == call[a].r IN
    /\ call[a].at = "check"
    /\ \/ /\ Token(f) \in cancelled
          /\ req' = [req EXCEPT ![f].out = "cancelled"]
          /\ Answers(a, "immediate")
       \/ /\ Token(f) \notin cancelled /\ stopping
          /\ req' = [req EXCEPT ![f].out = "failed"]
          /\ Answers(a, "immediate")
       \/ /\ Token(f) \notin cancelled /\ ~stopping
          /\ Answers(a, "link")
          /\ UNCHANGED req
    /\ UNCHANGED <<ringVars, fiberVars, stopVars, linked, total, lp, cancelled, can>>

SubmitLink(a) ==
    /\ call[a].at = "link"
    /\ Link(call[a].r)
    /\ Answers(a, "ring")
    /\ UNCHANGED <<ringVars, fiberVars, stopVars, lp, req, cancelled, can>>

\* GetSqe, fill, Submit: the kernel owns the request from here.
SubmitRing(a) ==
    /\ call[a].at = "ring"
    /\ GetSqe
    /\ Submit(Sqe("io", call[a].r))
    /\ Answers(a, "ensure")
    /\ UNCHANGED <<fiberVars, stopVars, linked, total, lp, req, cancelled, can>>

SubmitEnsure(a) ==
    /\ call[a].at = "ensure"
    /\ EnsureThreads
    /\ Answers(a, "queued")
    /\ UNCHANGED <<ringVars, fiberVars, linked, total, req, cancelled, can, stopper>>

\* The ring refuses: no free SQE, or io_uring_enter fails, which leaves the
\* entry published for the next call to hand to the kernel.
SubmitRefused(a) ==
    /\ call[a].at = "ring"
    /\ sq' = IF GetSqe THEN Append(sq, Sqe("io", call[a].r)) ELSE sq
    /\ UnlinkLocked(call[a].r)
    /\ req' = [req EXCEPT ![call[a].r].out = "failed"]
    /\ Answers(a, "immediate")
    /\ UNCHANGED <<cq, kernel, asked, fiberVars, stopVars, lp, cancelled, can>>

(***************************************************************************)
(* The fibers: Await submits, and waits for its resume task to run.         *)
(***************************************************************************)

\* The request's fields as every Submit call sets them.
Begins(f) ==
    /\ pc[f] = "run" /\ ops[f] < MaxOps
    /\ ops' = [ops EXCEPT ![f] = @ + 1]
    /\ woken' = [woken EXCEPT ![f] = FALSE]
    /\ req' = [req EXCEPT ![f] = [left |-> Bytes, xferred |-> 0, out |-> "none"]]

Await(f) ==
    /\ f \notin Streamed
    /\ Begins(f)
    /\ pc' = [pc EXCEPT ![f] = "call"]
    /\ call' = [call EXCEPT ![f] = [at |-> "check", r |-> f, for |-> "await"]]
    /\ UNCHANGED <<ringVars, stopVars, linked, total, lp, cancelled, can>>

\* The submit call is back: an immediate answer is final, else WaitFor(wg).
AwaitReturns(f) ==
    /\ call[f].for = "await" /\ call[f].at \in {"immediate", "queued"}
    /\ pc' = [pc EXCEPT ![f] = IF call[f].at = "immediate" THEN "run" ELSE "wait"]
    /\ call' = [call EXCEPT ![f] = NoCall]
    /\ UNCHANGED <<ringVars, stopVars, linked, total, lp, req, cancelled, can, ops, woken>>

Resumes(f) ==
    /\ pc[f] = "wait" /\ woken[f]
    /\ pc' = [pc EXCEPT ![f] = "run"]
    /\ UNCHANGED <<ringVars, loopVars, stopVars, linked, total, req, cancelled, can, ops, woken>>

(***************************************************************************)
(* The completion loop.                                                     *)
(***************************************************************************)

\* PushBatch of everything collected: each resume task runs and its WaitGroup
\* reaches zero.
Pushed(batch) == woken' = [f \in Fibers |-> woken[f] \/ f \in batch]

\* WaitCq and Reap.  An empty poll flushes; with nothing in hand it ends the
\* thread once the reactor is stopping (-EINTR returns an empty poll).
Reap(t) ==
    /\ lp[t].at = "wait"
    /\ \/ /\ cq /= <<>>
          /\ lp' = [lp EXCEPT ![t].at = "cqe", ![t].todo = cq]
          /\ cq' = <<>>
          /\ UNCHANGED woken
       \/ /\ cq = <<>> /\ lp[t].batch /= {}
          /\ Pushed(lp[t].batch)
          /\ lp' = [lp EXCEPT ![t].batch = {}]
          /\ UNCHANGED cq
       \/ /\ cq = <<>> /\ lp[t].batch = {} /\ stopping
          /\ lp' = [lp EXCEPT ![t].at = "gone"]
          /\ UNCHANGED <<cq, woken>>
    /\ UNCHANGED <<sq, kernel, asked, stopVars, linked, total, call, req, cancelled, can, pc, ops>>

\* On to the next CQE of the array, with `batch' in hand: flushed when it is
\* full, and at the end of the array when the reactor is stopping.
NextCqe(t, rest, batch) ==
    LET flush == Cardinality(batch) = kBatch \/ (rest = <<>> /\ stopping) IN
    /\ Pushed(IF flush THEN batch ELSE {})
    /\ lp' = [lp EXCEPT ![t] = [IdleLoop EXCEPT !.at = IF rest = <<>> THEN "wait" ELSE "cqe",
                                                !.todo = rest,
                                                !.batch = IF flush THEN {} ELSE batch]]

\* The wake sentinel: flush; when stopping, post it again and return.
WakeSeen(t) ==
    /\ lp[t].at = "cqe" /\ Head(lp[t].todo).who = Wake
    /\ Pushed(lp[t].batch)
    /\ \/ /\ stopping
          /\ PostWake
          /\ lp' = [lp EXCEPT ![t] = [IdleLoop EXCEPT !.at = "gone"]]
       \/ /\ ~stopping
          /\ LET rest == Tail(lp[t].todo) IN
             lp' = [lp EXCEPT ![t] = [IdleLoop EXCEPT !.at = IF rest = <<>> THEN "wait" ELSE "cqe",
                                                      !.todo = rest]]
          /\ UNCHANGED ringVars
    /\ UNCHANGED <<stopVars, linked, total, call, req, cancelled, can, pc, ops>>

\* A send the kernel finished short: advance the buffers, unlink, submit again.
PartialSend(t) ==
    LET c == Head(lp[t].todo) IN
    /\ lp[t].at = "cqe" /\ c.who \in Fibers /\ c.res = "part"
    /\ req' = [req EXCEPT ![c.who].left = @ - 1, ![c.who].xferred = @ + 1]
    /\ UnlinkLocked(c.who)
    /\ lp' = [lp EXCEPT ![t].at = "resubmit", ![t].todo = Tail(@)]
    /\ call' = [call EXCEPT ![t] = [at |-> "check", r |-> c.who, for |-> "partial"]]
    /\ UNCHANGED <<ringVars, fiberVars, stopVars, cancelled, can>>

\* As if the shard's list were left to the resumed fiber.
DeliversLinked(t, f, res, rest) ==
    /\ UNCHANGED <<linked, total>>
    /\ req' = [req EXCEPT ![f].out = res]
    /\ IF f \in Streamed
       THEN /\ lp' = [lp EXCEPT ![t].at = "hook", ![t].todo = rest, ![t].r = f]
            /\ UNCHANGED woken
       ELSE NextCqe(t, rest, lp[t].batch \cup {f})

\* Under the shard lock: unlink the request and write its result.  Its hook is
\* run next, on this thread, and then its resume task is collected.
Delivers(t, f, res, rest) ==
    /\ UnlinkLocked(f)
    /\ req' = [req EXCEPT ![f].out = res]
    /\ IF f \in Streamed
       THEN /\ lp' = [lp EXCEPT ![t].at = "hook", ![t].todo = rest, ![t].r = f]
            /\ UNCHANGED woken
       ELSE NextCqe(t, rest, lp[t].batch \cup {f})

\* SubmitPrepared is back: the kernel has the rest of the send, or the answer
\* was immediate and is delivered like a completion.
PartialReturns(t) ==
    /\ call[t].for = "partial"
    /\ call' = [call EXCEPT ![t] = NoCall]
    /\ \/ /\ call[t].at = "queued"
          /\ NextCqe(t, lp[t].todo, lp[t].batch)
          /\ UNCHANGED <<linked, total, req>>
       \/ /\ call[t].at = "immediate"
          /\ Delivers(t, call[t].r, req[call[t].r].out, lp[t].todo)
    /\ UNCHANGED <<ringVars, stopVars, cancelled, can, pc, ops>>

Completion(t) ==
    LET c == Head(lp[t].todo) IN
    /\ lp[t].at = "cqe" /\ c.who \in Fibers /\ c.res /= "part"
    /\ Delivers(t, c.who, c.res, Tail(lp[t].todo))
    /\ UNCHANGED <<ringVars, stopVars, call, cancelled, can, pc, ops>>

(***************************************************************************)
(* RequestCancel, Start and Stop.                                           *)
(***************************************************************************)

\* A caller cancels the scope of fiber f's operation and then asks the reactor.
CancelScope(f) ==
    /\ can["user"].at = "none" /\ Cardinality(cancelled) < MaxCancels
    /\ pc[f] /= "run" /\ Token(f) \notin cancelled
    /\ cancelled' = cancelled \cup {Token(f)}
    /\ can' = [can EXCEPT !["user"] = [at |-> "collect", token |-> Token(f), shard |-> 0, targets |-> {}]]
    /\ UNCHANGED <<ringVars, loopVars, fiberVars, stopVars, linked, total, req>>

\* Under one shard's lock: the targets, no more than fit the array.
CancelCollect(c) ==
    LET here == {f \in linked : /\ ShardFor[f] = can[c].shard
                                /\ can[c].token \in {All, Token(f)}}
    IN  /\ can[c].at = "collect"
        /\ \E some \in SUBSET here :
              /\ Cardinality(some) = IF Cardinality(here) > MaxTargets
                                     THEN MaxTargets ELSE Cardinality(here)
              /\ can' = [can EXCEPT ![c].targets = some, ![c].at = "ask"]
        /\ UNCHANGED <<ringVars, loopVars, fiberVars, stopVars, linked, total, req, cancelled>>

\* After the lock: one ASYNC_CANCEL by address, then the next one or shard.
CancelAsk(c) ==
    /\ can[c].at = "ask"
    /\ IF can[c].targets = {} \/ ~GetSqe
       THEN /\ can' = [can EXCEPT ![c] = IF @.shard = kShards - 1 THEN [@ EXCEPT !.at = "end"]
                                         ELSE [@ EXCEPT !.at = "collect", !.shard = @ + 1]]
            /\ UNCHANGED ringVars
       ELSE \E f \in can[c].targets :
            /\ Submit(Sqe("cancel", f))
            /\ can' = [can EXCEPT ![c].targets = @ \ {f}]
    /\ UNCHANGED <<loopVars, fiberVars, stopVars, linked, total, req, cancelled>>

CancelEnds ==
    /\ can["user"].at = "end"
    /\ can' = [can EXCEPT !["user"] = NoCancel]
    /\ UNCHANGED <<ringVars, loopVars, fiberVars, stopVars, linked, total, req, cancelled>>

Start ==
    /\ stopper.at = "down" /\ stopper.starts < MaxStarts
    /\ EnsureThreads
    /\ stopper' = [stopper EXCEPT !.at = "up", !.starts = @ + 1]
    /\ UNCHANGED <<ringVars, fiberVars, linked, total, call, req, cancelled, can>>

\* Stop latches `stopping' and asks for the cancellation of everything.
StopBegin ==
    /\ stopper.at = "up" /\ ~stopping /\ stopper.stops < MaxStops
    /\ stopping' = TRUE
    /\ stopper' = [stopper EXCEPT !.at = "cancel", !.stops = @ + 1]
    /\ can' = [can EXCEPT !["stop"] = [NoCancel EXCEPT !.at = "collect"]]
    /\ UNCHANGED <<ringVars, loopVars, fiberVars, linked, total, req, cancelled, workers>>

\* It takes the threads over, posts a wake for each (there is one) ...
StopWake ==
    /\ stopper.at = "cancel" /\ can["stop"].at = "end"
    /\ can' = [can EXCEPT !["stop"] = NoCancel]
    /\ workers' = {}
    /\ PostWake
    /\ stopper' = [stopper EXCEPT !.at = "join", !.ts = workers]
    /\ UNCHANGED <<loopVars, fiberVars, stopping, linked, total, req, cancelled>>

\* ... and joins them.
StopJoins ==
    /\ stopper.at = "join" /\ \A t \in stopper.ts : lp[t].at = "gone"
    /\ stopper' = [stopper EXCEPT !.at = "down", !.ts = {}]
    /\ UNCHANGED <<ringVars, loopVars, fiberVars, stopping, workers, linked, total, req, cancelled, can>>

ReactorNext ==
    \/ \E f \in Fibers :
          \/ \E res \in Results : KernelDone(f, res)
          \/ KernelCancel(f)
          \/ Await(f) \/ AwaitReturns(f) \/ Resumes(f) \/ CancelScope(f)
    \/ \E a \in Actors : SubmitCheck(a) \/ SubmitLink(a) \/ SubmitRing(a) \/ SubmitEnsure(a)
    \/ \E t \in Loops :
          Reap(t) \/ WakeSeen(t) \/ PartialSend(t) \/ PartialReturns(t) \/ Completion(t)
    \/ \E c \in {"user", "stop"} : CancelCollect(c) \/ CancelAsk(c)
    \/ CancelEnds \/ Start \/ StopBegin \/ StopWake \/ StopJoins

(***************************************************************************)
(* Properties.                                                              *)
(***************************************************************************)

\* A CQE for f is queued, reaped and not handled, or being handled.
Completing(f) ==
    \/ \E i \in DOMAIN cq : cq[i].who = f
    \/ \E t \in Loops :
          \/ \E i \in DOMAIN lp[t].todo : lp[t].todo[i].who = f
          \/ lp[t].r = f \/ f \in lp[t].batch

\* A call is still to read or write the request of f.
InCall(f) == \E a \in Actors : call[a].r = f /\ call[a].at \in {"check", "link", "ring", "immediate"}

\* While a fiber runs, nothing of the reactor refers to its frame: the kernel
\* does not own its buffer, its request is in no shard, and no completion of it
\* is pending.  "stopping while the kernel still holds a buffer whose owning
\* frame is about to unwind is the corruption this reactor exists to prevent".
FrameIsOwned ==
    \A f \in Fibers : pc[f] = "run" =>
        f \notin kernel /\ f \notin linked /\ ~Completing(f) /\ ~InCall(f)

\* What the kernel owns, or has just finished, a cancel of its scope finds in
\* its shard: linked before submitted, and unlinked only by the completion.
InFlightIsLinked ==
    /\ kernel \subseteq linked
    /\ \A i \in DOMAIN cq : cq[i].who \in Fibers => cq[i].who \in linked

\* "In-flight operations are cancelled and DRAINED before the thread goes":
\* when Stop has joined the completion thread no request is in flight.
StopDrains == stopper.at = "down" => linked = {}
=============================================================================
