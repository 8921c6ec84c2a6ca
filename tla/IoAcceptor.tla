----------------------------- MODULE IoAcceptor -----------------------------
(***************************************************************************)
(* IoAcceptor, src/IoShared.cpp: a listener kept `Depth' accepts deep, the  *)
(* sockets they produce, and the waiters parked for one.                    *)
(*                                                                         *)
(* The reactor is external here and behaves as src/win32/IoReactor.cpp      *)
(* does: SubmitAccept answers at once when the acceptor's scope is          *)
(* cancelled, or takes the accept and completes it later, and the accepted  *)
(* connection is the socket the slot was posted with.                       *)
(***************************************************************************)
EXTENDS Naturals, Sequences, FiniteSets, SequencesExt

CONSTANTS
    Slots,          \* the accept slots, `depth' of them
    Waiters,        \* fibers that ask for a connection, each with its own scope
    MaxSockets      \* bound: sockets made

VARIABLES
    made,           \* sockets made so far: 1..made
    slot,           \* slots: [at, sock]
    ready,          \* accepted and not taken, newest last
    waitq,          \* the waiters' list
    outstanding,    \* accepts posted and not completed
    stopping,
    scopeCancelled, \* the acceptor's own scope
    stopper,        \* where Stop is
    waiter,         \* waiters: "idle", "call", "wait", or served
    got,            \* the socket a waiter was given, 0 for none
    cancelled,      \* waiters whose scope is cancelled
    closed          \* times each socket was closed

vars == <<made, slot, ready, waitq, outstanding, stopping, scopeCancelled, stopper, waiter, got,
          cancelled, closed>>

Sockets == 1..MaxSockets

Init ==
    /\ made = 0
    /\ slot = [i \in Slots |-> [at |-> "post", sock |-> 0]]
    /\ ready = <<>> /\ waitq = <<>> /\ outstanding = 0
    /\ stopping = FALSE /\ scopeCancelled = FALSE /\ stopper = "idle"
    /\ waiter = [w \in Waiters |-> "idle"]
    /\ got = [w \in Waiters |-> 0]
    /\ cancelled = {}
    /\ closed = [s \in Sockets |-> 0]

CloseSocket(s) == closed' = [closed EXCEPT ![s] = @ + 1]

\* Post, up to the count: make a socket for the slot and count the accept.
PostBegins(i) ==
    /\ slot[i].at = "post" /\ made < MaxSockets
    /\ made' = made + 1
    /\ slot' = [slot EXCEPT ![i] = [at |-> "submit", sock |-> made + 1]]
    /\ outstanding' = outstanding + 1
    /\ UNCHANGED <<ready, waitq, stopping, scopeCancelled, stopper, waiter, got, cancelled, closed>>

\* MakeSocket or RegisterSocket fails: the slot stays empty.
PostFails(i) ==
    /\ slot[i].at = "post"
    /\ slot' = [slot EXCEPT ![i] = [at |-> "empty", sock |-> 0]]
    /\ UNCHANGED <<made, ready, waitq, outstanding, stopping, scopeCancelled, stopper, waiter, got,
                   cancelled, closed>>

\* Post, SubmitAccept: taken by the reactor, or answered at once and undone.
PostSubmits(i) ==
    /\ slot[i].at = "submit"
    /\ \/ /\ ~scopeCancelled
          /\ slot' = [slot EXCEPT ![i].at = "posted"]
          /\ UNCHANGED <<outstanding, closed>>
       \/ /\ slot' = [slot EXCEPT ![i] = [at |-> "empty", sock |-> 0]]
          /\ outstanding' = outstanding - 1
          /\ CloseSocket(slot[i].sock)
    /\ UNCHANGED <<made, ready, waitq, stopping, scopeCancelled, stopper, waiter, got, cancelled>>

\* The leading run of cancelled waiters a completion unlinks and skips.
Skipped == SelectInSeq(waitq, LAMBDA w : w \notin cancelled)

\* The same, handing the connection to the head of the list without asking
\* whether it was cancelled, and leaving the rest.
HandsOverToHead(s) ==
    /\ waitq' = waitq
    /\ got' = IF waitq = <<>> THEN got ELSE [got EXCEPT ![Head(waitq)] = s]
    /\ waiter' = IF waitq = <<>> THEN waiter ELSE [waiter EXCEPT ![Head(waitq)] = "served"]
    /\ ready' = IF waitq = <<>> THEN Append(ready, s) ELSE ready

\* What a completed accept does with its connection: the first waiter that is
\* not cancelled takes it, and the cancelled ones before it leave with none.
HandsOver(s) ==
    LET k    == Skipped
        gone == ToSet(IF k = 0 THEN waitq ELSE SubSeq(waitq, 1, k))
    IN  /\ waitq' = IF k = 0 THEN <<>> ELSE SubSeq(waitq, k + 1, Len(waitq))
        /\ waiter' = [w \in Waiters |-> IF w \in gone THEN "served" ELSE waiter[w]]
        /\ got' = IF k = 0 THEN got ELSE [got EXCEPT ![waitq[k]] = s]
        /\ ready' = IF k = 0 THEN Append(ready, s) ELSE ready

\* OnComplete: a connection is handed over and the slot posted again; anything
\* else, and everything once stopping, closes the socket.
OnComplete(i, ok) ==
    /\ slot[i].at = "posted"
    /\ outstanding' = outstanding - 1
    /\ \/ /\ ok /\ ~stopping
          /\ HandsOver(slot[i].sock)
          /\ slot' = [slot EXCEPT ![i] = [at |-> "post", sock |-> 0]]
          /\ UNCHANGED closed
       \/ /\ ~ok \/ stopping
          /\ CloseSocket(slot[i].sock)
          /\ slot' = [slot EXCEPT ![i] = [at |-> "empty", sock |-> 0]]
          /\ UNCHANGED <<ready, waitq, waiter, got>>
    /\ UNCHANGED <<made, stopping, scopeCancelled, stopper, cancelled>>

\* TryTake: the newest ready connection, without waiting.
TryTake(w) ==
    /\ waiter[w] = "idle" /\ ready /= <<>>
    /\ got' = [got EXCEPT ![w] = Last(ready)]
    /\ ready' = Front(ready)
    /\ waiter' = [waiter EXCEPT ![w] = "served"]
    /\ UNCHANGED <<made, slot, waitq, outstanding, stopping, scopeCancelled, stopper, cancelled, closed>>

\* TakeOrQueue, the look at the token before the lock.
TakeLooks(w) ==
    /\ waiter[w] = "idle"
    /\ waiter' = [waiter EXCEPT ![w] = IF w \in cancelled THEN "served" ELSE "call"]
    /\ UNCHANGED <<made, slot, ready, waitq, outstanding, stopping, scopeCancelled, stopper, got,
                   cancelled, closed>>

\* TakeOrQueue, under the lock: a ready connection, nothing once stopping, or
\* the end of the list.
TakeOrQueue(w) ==
    /\ waiter[w] = "call"
    /\ \/ /\ ready /= <<>>
          /\ got' = [got EXCEPT ![w] = Last(ready)]
          /\ ready' = Front(ready)
          /\ waiter' = [waiter EXCEPT ![w] = "served"]
          /\ UNCHANGED waitq
       \/ /\ ready = <<>> /\ stopping
          /\ waiter' = [waiter EXCEPT ![w] = "served"]
          /\ UNCHANGED <<ready, waitq, got>>
       \/ /\ ready = <<>> /\ ~stopping
          /\ waitq' = Append(waitq, w)
          /\ waiter' = [waiter EXCEPT ![w] = "wait"]
          /\ UNCHANGED <<ready, got>>
    /\ UNCHANGED <<made, slot, outstanding, stopping, scopeCancelled, stopper, cancelled, closed>>

\* CancelWaiters: unlink those within the token, then resume them with nothing.
CancelWaiters(gone) ==
    /\ waitq' = SelectSeq(waitq, LAMBDA w : w \notin gone)
    /\ waiter' = [w \in Waiters |-> IF w \in gone \cap ToSet(waitq) THEN "served" ELSE waiter[w]]

\* A waiter's scope is cancelled, and then the acceptor is told.
CancelScope(w) ==
    /\ w \notin cancelled
    /\ cancelled' = cancelled \cup {w}
    /\ UNCHANGED <<made, slot, ready, waitq, outstanding, stopping, scopeCancelled, stopper, waiter,
                   got, closed>>

CancelToken(w) ==
    /\ w \in cancelled /\ w \in ToSet(waitq)
    /\ CancelWaiters({w})
    /\ UNCHANGED <<made, slot, ready, outstanding, stopping, scopeCancelled, stopper, got, cancelled,
                   closed>>

StopLatches ==
    /\ stopper = "idle"
    /\ stopping' = TRUE
    /\ stopper' = "waiters"
    /\ UNCHANGED <<made, slot, ready, waitq, outstanding, scopeCancelled, waiter, got, cancelled, closed>>

StopCancels ==
    /\ stopper = "waiters"
    /\ CancelWaiters(Waiters)
    /\ scopeCancelled' = TRUE
    /\ stopper' = "drain"
    /\ UNCHANGED <<made, slot, ready, outstanding, stopping, got, cancelled, closed>>

\* The drain ends when nothing is outstanding, or after 5000 sleeps; then the
\* connections nobody took are closed.
StopCloses ==
    /\ stopper = "drain"
    /\ closed' = [s \in Sockets |-> IF s \in ToSet(ready) THEN closed[s] + 1 ELSE closed[s]]
    /\ ready' = <<>>
    /\ stopper' = "stopped"
    /\ UNCHANGED <<made, slot, waitq, outstanding, stopping, scopeCancelled, waiter, got, cancelled>>

Next ==
    \/ \E i \in Slots :
          PostBegins(i) \/ PostFails(i) \/ PostSubmits(i) \/ \E ok \in BOOLEAN : OnComplete(i, ok)
    \/ \E w \in Waiters :
          TryTake(w) \/ TakeLooks(w) \/ TakeOrQueue(w) \/ CancelScope(w) \/ CancelToken(w)
    \/ StopLatches \/ StopCancels \/ StopCloses

Spec == Init /\ [][Next]_vars

(***************************************************************************)
(* Properties.                                                              *)
(***************************************************************************)

TypeOK ==
    /\ made \in 0..MaxSockets /\ outstanding \in 0..Cardinality(Slots)
    /\ slot \in [Slots -> [at : {"post", "empty", "submit", "posted"}, sock : 0..MaxSockets]]
    /\ ToSet(ready) \subseteq Sockets /\ ToSet(waitq) \subseteq Waiters
    /\ got \in [Waiters -> 0..MaxSockets]

\* Every socket made is in exactly one place: a slot, the ready list, the hands
\* of one waiter, or closed once.  A connection is neither leaked nor handed to
\* two waiters, whatever order completions, takes, cancels and Stop come in.
SocketInOnePlace ==
    \A s \in 1..made :
        Cardinality({i \in Slots : slot[i].sock = s}) + Cardinality({i \in DOMAIN ready : ready[i] = s})
            + Cardinality({w \in Waiters : got[w] = s}) + closed[s] = 1

\* A waiter is parked only while there is nothing to give it: no connection is
\* ready, and Stop has not swept the list; it is parked once.
WaitsForSomething ==
    /\ ready /= <<>> => waitq = <<>>
    /\ stopper \in {"drain", "stopped"} => waitq = <<>>
    /\ IsInjective(waitq) /\ \A w \in ToSet(waitq) : waiter[w] = "wait"
=============================================================================
