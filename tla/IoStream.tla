------------------------------ MODULE IoStream ------------------------------
(***************************************************************************)
(* IoStream, src/IoShared.cpp: the transfers of one direction of a stream   *)
(* are chained on completion, so that at most one is in flight.  A request  *)
(* that arrives while one is running is linked into the stream; the         *)
(* completion hook of the running one submits the next.                     *)
(***************************************************************************)
EXTENDS IoReactorPosix

VARIABLES
    busy,       \* a transfer of the chain is in flight
    chain       \* the requests waiting behind it

streamVars == <<busy, chain>>
vars == <<reactorVars, streamVars>>

Init == ReactorInit /\ busy = FALSE /\ chain = <<>>

SendOn(f) ==
    /\ f \in Streamed
    /\ Begins(f)
    /\ pc' = [pc EXCEPT ![f] = "call"]
    /\ call' = [call EXCEPT ![f] = [at |-> "chain", r |-> f, for |-> "chain"]]
    /\ UNCHANGED <<ringVars, stopVars, linked, total, lp, cancelled, can, streamVars>>

\* SubmitChained without the busy check of the chain: two in flight.
SubmitChainedAnyway(f) ==
    /\ call[f].at = "chain"
    /\ busy' = TRUE
    /\ call' = [call EXCEPT ![f].at = "check"]
    /\ UNCHANGED <<ringVars, fiberVars, stopVars, linked, total, lp, req, cancelled, can, chain>>

\* SubmitChained: an already cancelled token is answered at once; behind a
\* running transfer the request is queued; else it is submitted.
SubmitChained(f) ==
    /\ call[f].at = "chain"
    /\ \/ /\ Token(f) \in cancelled
          /\ req' = [req EXCEPT ![f].out = "cancelled"]
          /\ pc' = [pc EXCEPT ![f] = "run"]
          /\ call' = [call EXCEPT ![f] = NoCall]
          /\ UNCHANGED streamVars
       \/ /\ Token(f) \notin cancelled /\ busy
          /\ chain' = Append(chain, f)
          /\ pc' = [pc EXCEPT ![f] = "wait"]
          /\ call' = [call EXCEPT ![f] = NoCall]
          /\ UNCHANGED <<busy, req>>
       \/ /\ Token(f) \notin cancelled /\ ~busy
          /\ busy' = TRUE
          /\ call' = [call EXCEPT ![f].at = "check"]
          /\ UNCHANGED <<chain, pc, req>>
    /\ UNCHANGED <<ringVars, stopVars, linked, total, lp, cancelled, can, ops, woken>>

\* Advance on actor a: under the stream's lock take the next request, which
\* SubmitOne submits on this thread, or go idle, and then return.
Advance(a) ==
    \/ /\ chain = <<>>
       /\ busy' = FALSE
       /\ call' = [call EXCEPT ![a] = NoCall]
       /\ UNCHANGED chain
    \/ /\ chain /= <<>>
       /\ chain' = Tail(chain)
       /\ call' = [call EXCEPT ![a] = [at |-> "check", r |-> Head(chain), for |-> "advance"]]
       /\ UNCHANGED busy

\* SubmitOne of the fiber's own request is back: queued, the fiber waits;
\* immediate, it advances the chain and has its answer.
SubmitOneReturns(f) ==
    /\ call[f].for = "chain"
    /\ \/ /\ call[f].at = "queued"
          /\ pc' = [pc EXCEPT ![f] = "wait"]
          /\ call' = [call EXCEPT ![f] = NoCall]
          /\ UNCHANGED streamVars
       \/ /\ call[f].at = "immediate"
          /\ Advance(f)
          /\ pc' = IF chain = <<>> THEN [pc EXCEPT ![f] = "run"] ELSE pc
    /\ UNCHANGED <<ringVars, stopVars, linked, total, lp, req, cancelled, can, ops, woken>>

\* SubmitOne of the request Advance took is back.  Its answer goes nowhere:
\* an immediate one only advances the chain again.
AdvanceReturns(a) ==
    /\ call[a].for = "advance" /\ call[a].at \in {"queued", "immediate"}
    /\ \/ /\ call[a].at = "queued"
          /\ call' = [call EXCEPT ![a] = NoCall]
          /\ UNCHANGED streamVars
       \/ /\ call[a].at = "immediate"
          /\ Advance(a)
    /\ pc' = IF a \in Fibers /\ call'[a].at = "none" THEN [pc EXCEPT ![a] = "run"] ELSE pc
    /\ IF a \in Loops /\ call'[a].at = "none"
       THEN NextCqe(a, lp[a].todo, lp[a].batch \cup {lp[a].r})
       ELSE UNCHANGED <<lp, woken>>
    /\ UNCHANGED <<ringVars, stopVars, linked, total, req, cancelled, can, ops>>

\* OnSendComplete, the completion hook: Advance on the completion thread, and
\* then the completion loop collects the resume task.
OnComplete(t) ==
    /\ lp[t].at = "hook"
    /\ Advance(t)
    /\ IF chain = <<>>
       THEN NextCqe(t, lp[t].todo, lp[t].batch \cup {lp[t].r})
       ELSE lp' = [lp EXCEPT ![t].at = "advance"] /\ UNCHANGED woken
    /\ UNCHANGED <<ringVars, stopVars, linked, total, req, cancelled, can, pc, ops>>

Next ==
    \/ ReactorNext /\ UNCHANGED streamVars
    \/ \E f \in Fibers : SendOn(f) \/ SubmitChained(f) \/ SubmitOneReturns(f)
    \/ \E a \in Actors : AdvanceReturns(a)
    \/ \E t \in Loops : OnComplete(t)

Spec == Init /\ [][Next]_vars

\* The same system over a ring that may refuse a submission.
SpecRefusing ==
    Init /\ [][Next \/ \E a \in Actors : SubmitRefused(a) /\ UNCHANGED streamVars]_vars

(***************************************************************************)
(* Properties.                                                              *)
(***************************************************************************)

TypeOK ==
    /\ kernel \cup asked \cup linked \subseteq Fibers
    /\ \A i \in DOMAIN cq : cq[i].who \in Fibers \cup {Wake} /\ cq[i].res \in Results
    /\ total \in Int /\ stopping \in BOOLEAN /\ workers \subseteq Loops
    /\ pc \in [Fibers -> {"run", "call", "wait"}]
    /\ ops \in [Fibers -> 0..MaxOps] /\ woken \in [Fibers -> BOOLEAN]
    /\ busy \in BOOLEAN /\ \A i \in DOMAIN chain : chain[i] \in Streamed

\* A transfer of the stream the reactor has in hand.
InHand(f) == f \in Streamed /\ (f \in kernel \/ Completing(f) \/ InCall(f))

\* "At most one transfer per direction is ever in flight": a send that is
\* resumed after a short write cannot have another send's bytes in its middle,
\* and nothing waits in the chain of an idle stream.
OneInFlight ==
    /\ Cardinality({f \in Streamed : f \in kernel \/ (req[f].xferred > 0 /\ req[f].out = "none")}) <= 1
    /\ ~busy => chain = <<>> /\ kernel \cap Streamed = {}

\* "FALSE means it is queued or in flight and the caller stays suspended until
\* its completion": a fiber waiting for a transfer of the stream has its
\* request in the chain or in the reactor.
StreamWaiterIsHeld ==
    \A f \in Streamed : pc[f] = "wait" /\ ~woken[f] =>
        \/ \E i \in DOMAIN chain : chain[i] = f
        \/ InHand(f)
=============================================================================
