------------------------------ MODULE Ingress ------------------------------
(***************************************************************************)
(* How work gets from threads outside the pool to the workers' hands, and  *)
(* what the ingress bound counts on the way: PushTarget and PushIO with    *)
(* ApplyIngressBackpressure, PushBatch, the lane intake, the main publish  *)
(* lane (PushMainPublish, PushLazy), mainQ, and the worker's drains.       *)
(*                                                                         *)
(* A push and its NoteInboxPush are two steps, and so are a drain's pops   *)
(* and its subtraction.  Waking workers is left to Worker, the choice of   *)
(* the worker to Placement: any unreserved worker may be chosen here.      *)
(***************************************************************************)
EXTENDS Integers, Sequences, FiniteSets, SequencesExt

CONSTANTS
  Tasks, Threads,   \* work, and the threads outside the pool that push it
  N, K,             \* workers.size(), reserved workers
  Limit,            \* SetSubmitLimit; 0 is unlimited
  DepthWrap,        \* g_inboxDepth is a size_t: it wraps
  BATCH_SIZE,
  LaneIntake,       \* LaneIntakeEnabled()
  MainPub,          \* SetMainPublishDeque
  MaxInits          \* bound: starts of the pool

VARIABLES
  fresh,            \* tasks not submitted yet
  inbox, lane, deque,   \* normalInboxes, laneInboxes, deques
  intake, pub, mainQ,   \* laneIntake, deques[mainPubLane], mainQ
  ran,
  depth,            \* g_inboxDepth
  claimed,          \* mainPubClaimed
  owns,             \* thread_local t_ownsMainPubLane
  inits,
  op,               \* the submission each thread is in
  wk                \* what each worker holds

vars == <<fresh, inbox, lane, deque, intake, pub, mainQ, ran, depth, claimed, owns,
          inits, op, wk>>

Workers == 0..(N - 1)

Reserved(w) == w < K

\* What a task asks for: nothing, a core preference, the reserved lane, or
\* (PushIO) the lane inbox of one reserved worker.
Kinds == {"plain", "pref", "low", "io"}

NoOp == [at |-> "idle", tasks |-> <<>>, kind |-> "plain", segments |-> 0]

IdleWorker == [at |-> "idle", hand |-> <<>>]

Init ==
  /\ fresh = Tasks
  /\ inbox = [w \in Workers |-> <<>>] /\ lane = [w \in Workers |-> <<>>]
  /\ deque = [w \in Workers |-> <<>>]
  /\ intake = <<>> /\ pub = <<>> /\ mainQ = <<>>
  /\ ran = {} /\ depth = 0
  /\ claimed = FALSE /\ owns = [t \in Threads |-> FALSE]
  /\ inits = 1
  /\ op = [t \in Threads |-> NoOp]
  /\ wk = [w \in Workers |-> IdleWorker]

\* NoteInboxPush and NoteInboxDrain: the counter is kept only under a limit.
Counts(d) == depth' = IF Limit = 0 THEN depth ELSE (depth + DepthWrap + d) % DepthWrap

Moves(t, from, r) == op[t].at = from /\ op' = [op EXCEPT ![t] = r]

Queues == <<inbox, lane, deque, intake, pub, mainQ>>

\* Push and PushIO (which needs a reserved band): one task.
Push(t) ==
  /\ \E x \in fresh, kind \in {k \in Kinds : k = "io" => K > 0} :
       /\ fresh' = fresh \ {x}
       /\ Moves(t, "idle", [NoOp EXCEPT !.at = "pressure", !.tasks = <<x>>, !.kind = kind])
  /\ UNCHANGED <<Queues, ran, depth, claimed, owns, inits, wk>>

\* Over the limit the submitter helps with one stolen task, or yields, and
\* goes on either way.
ApplyIngressBackpressure(t) ==
  /\ Moves(t, "pressure", [op[t] EXCEPT !.at = "place"])
  /\ \/ /\ UNCHANGED <<deque, pub, ran>>
     \/ /\ Limit # 0 /\ depth > Limit
        /\ \/ \E w \in Workers :
                /\ deque[w] # <<>>
                /\ deque' = [deque EXCEPT ![w] = Tail(@)] /\ ran' = ran \cup {Head(deque[w])}
                /\ UNCHANGED pub
           \/ /\ pub # <<>>
              /\ pub' = Tail(pub) /\ ran' = ran \cup {Head(pub)}
              /\ UNCHANGED deque
  /\ UNCHANGED <<fresh, inbox, lane, intake, mainQ, depth, claimed, owns, inits, wk>>

UsesLane(t) == op[t].kind \in {"low", "io"} /\ K > 0

\* Is the publish lane open to this thread, or still unclaimed?
MayPublish(t) == MainPub /\ op[t].kind # "pref" /\ (owns[t] \/ ~claimed)

\* PushLaneIntake: the shared queue of the reserved band.
PlaceIntake(t) ==
  /\ UsesLane(t) /\ LaneIntake /\ op[t].kind = "low"
  /\ Moves(t, "place", NoOp)
  /\ intake' = intake \o op[t].tasks
  /\ UNCHANGED <<fresh, inbox, lane, deque, pub, mainQ, ran, depth, claimed, owns, inits, wk>>

\* Into the lane inbox of a reserved worker.
PlaceLane(t) ==
  /\ UsesLane(t) /\ (LaneIntake => op[t].kind = "io")
  /\ Moves(t, "place", [NoOp EXCEPT !.at = "note"])
  /\ \E w \in {v \in Workers : Reserved(v)} : lane' = [lane EXCEPT ![w] = @ \o op[t].tasks]
  /\ UNCHANGED <<fresh, inbox, deque, intake, pub, mainQ, ran, depth, claimed, owns, inits, wk>>

\* PushMainPublish: the claim, once for the life of the thread ...
ClaimPublish(t) ==
  /\ ~UsesLane(t) /\ MayPublish(t)
  /\ Moves(t, "place", [op[t] EXCEPT !.at = "publish"])
  /\ claimed' = TRUE /\ owns' = [owns EXCEPT ![t] = TRUE]
  /\ UNCHANGED <<fresh, Queues, ran, depth, inits, wk>>

\* ... and push_bottom or push_bottom_batch.
PushBottom(t) ==
  /\ Moves(t, "publish", NoOp)
  /\ pub' = pub \o op[t].tasks
  /\ UNCHANGED <<fresh, inbox, lane, deque, intake, mainQ, ran, depth, claimed, owns, inits, wk>>

\* Ordinary placement.
PlaceInbox(t) ==
  /\ ~UsesLane(t) /\ ~MayPublish(t)
  /\ Moves(t, "place", [NoOp EXCEPT !.at = "note"])
  /\ \E w \in {v \in Workers : ~Reserved(v)} : inbox' = [inbox EXCEPT ![w] = @ \o op[t].tasks]
  /\ UNCHANGED <<fresh, lane, deque, intake, pub, mainQ, ran, depth, claimed, owns, inits, wk>>

NoteInboxPush(t) ==
  /\ Moves(t, "note", NoOp)
  /\ Counts(1)
  /\ UNCHANGED <<fresh, Queues, ran, claimed, owns, inits, wk>>

\* PushBatch: how many runs the array is cut into.
PushBatch(t) ==
  /\ \E x, y \in fresh :
       /\ x # y
       /\ fresh' = fresh \ {x, y}
       /\ \E kind \in {"plain", "low"} :
            LET reachable == IF kind = "low" /\ K > 0 THEN K ELSE IF N > K THEN N - K ELSE N
            IN  \E minPerSegment \in {1, 2} :
                  Moves(t, "idle", [at |-> "segment", tasks |-> <<x, y>>, kind |-> kind,
                     segments |-> IF 2 \div minPerSegment > reachable THEN reachable
                                  ELSE 2 \div minPerSegment])
  /\ UNCHANGED <<Queues, ran, depth, claimed, owns, inits, wk>>

\* Runs of count / segments only: the remainder is left behind.
SegmentLenShort(t) == 2 \div (op[t].segments + 1)

\* The length of the next run: the first `rem` runs take one more.
SegmentLen(t) == (Len(op[t].tasks) + op[t].segments - 1) \div op[t].segments

\* submitRun: the run goes into one inbox, and nothing is counted.
SubmitRun(t) ==
  LET len == SegmentLen(t)
      run == SubSeq(op[t].tasks, 1, len)
  IN  /\ op[t].segments > 0
      /\ Moves(t, "segment", IF op[t].segments = 1 THEN NoOp
           ELSE [op[t] EXCEPT !.segments = @ - 1,
                              !.tasks = SubSeq(@, len + 1, Len(@))])
      /\ IF UsesLane(t)
         THEN /\ \E w \in {v \in Workers : Reserved(v)} : lane' = [lane EXCEPT ![w] = @ \o run]
              /\ UNCHANGED inbox
         ELSE /\ \E w \in {v \in Workers : ~Reserved(v)} : inbox' = [inbox EXCEPT ![w] = @ \o run]
              /\ UNCHANGED lane
      /\ UNCHANGED <<fresh, deque, intake, pub, mainQ, ran, depth, claimed, owns, inits, wk>>

\* PushLazy: all or nothing; refused, the caller falls back on PushBatch.
PushLazy(t) ==
  /\ MayPublish(t)
  /\ \E x, y \in fresh :
       /\ x # y
       /\ fresh' = fresh \ {x, y}
       /\ Moves(t, "idle", [NoOp EXCEPT !.at = "publish", !.tasks = <<x, y>>])
  /\ claimed' = TRUE /\ owns' = [owns EXCEPT ![t] = TRUE]
  /\ UNCHANGED <<Queues, ran, depth, inits, wk>>

PushMain(t) ==
  /\ op[t].at = "idle"
  /\ \E x \in fresh : fresh' = fresh \ {x} /\ mainQ' = Append(mainQ, x)
  /\ UNCHANGED <<inbox, lane, deque, intake, pub, ran, depth, claimed, owns, inits, op, wk>>

\* ProcessMainThread: the main thread runs what was queued for it.
ProcessMainThread ==
  /\ mainQ # <<>>
  /\ mainQ' = Tail(mainQ) /\ ran' = ran \cup {Head(mainQ)}
  /\ UNCHANGED <<fresh, inbox, lane, deque, intake, pub, depth, claimed, owns, inits, op, wk>>

Works(w, from, r) == wk[w].at = from /\ wk' = [wk EXCEPT ![w] = r]

\* The drain of the worker's own inbox: pop up to BATCH_SIZE ...
PopBatch(w) ==
  LET count == IF Len(inbox[w]) < BATCH_SIZE THEN Len(inbox[w]) ELSE BATCH_SIZE
  IN  /\ ~Reserved(w) /\ inbox[w] # <<>>
      /\ Works(w, "idle", [at |-> "settle", hand |-> SubSeq(inbox[w], 1, count)])
      /\ inbox' = [inbox EXCEPT ![w] = SubSeq(@, count + 1, Len(@))]
      /\ UNCHANGED <<fresh, lane, deque, intake, pub, mainQ, ran, depth, claimed, owns, inits, op>>

\* ... subtract, put all but the last into the deque and run the last.
SettleBatch(w) ==
  LET hand == wk[w].hand
  IN  /\ Works(w, "settle", IdleWorker)
      /\ Counts(-Len(hand))
      /\ deque' = [deque EXCEPT ![w] = @ \o Front(hand)]
      /\ ran' = ran \cup {Last(hand)}
      /\ UNCHANGED <<fresh, inbox, lane, intake, pub, mainQ, claimed, owns, inits, op>>

\* A worker helping inside a wait (DrainOwnInboxesToDeques) keeps none back.
DrainOwnInboxesToDeques(w) ==
  /\ Works(w, "settle", IdleWorker)
  /\ Counts(-Len(wk[w].hand))
  /\ deque' = [deque EXCEPT ![w] = @ \o wk[w].hand]
  /\ UNCHANGED <<fresh, inbox, lane, intake, pub, mainQ, ran, claimed, owns, inits, op>>

\* After a yield, one task straight from the inbox.
PopYielded(w) ==
  /\ ~Reserved(w) /\ wk[w].at = "idle" /\ inbox[w] # <<>>
  /\ inbox' = [inbox EXCEPT ![w] = Tail(@)] /\ ran' = ran \cup {Head(inbox[w])}
  /\ UNCHANGED <<fresh, lane, deque, intake, pub, mainQ, depth, claimed, owns, inits, op, wk>>

\* The lane inbox is popped one task at a time, by its owner only.
PopLane(w) ==
  /\ wk[w].at = "idle" /\ lane[w] # <<>>
  /\ lane' = [lane EXCEPT ![w] = Tail(@)] /\ ran' = ran \cup {Head(lane[w])}
  /\ UNCHANGED <<fresh, inbox, deque, intake, pub, mainQ, depth, claimed, owns, inits, op, wk>>

\* TryTakeLaneTask, by a helper: a task that needs a fiber goes to the deque.
RelocateLaneTask(w) ==
  /\ wk[w].at = "idle" /\ lane[w] # <<>>
  /\ lane' = [lane EXCEPT ![w] = Tail(@)]
  /\ deque' = [deque EXCEPT ![w] = Append(@, Head(lane[w]))]
  /\ UNCHANGED <<fresh, inbox, intake, pub, mainQ, ran, depth, claimed, owns, inits, op, wk>>

TakeLaneIntake(w) ==
  /\ Reserved(w) /\ wk[w].at = "idle" /\ intake # <<>>
  /\ intake' = Tail(intake) /\ ran' = ran \cup {Head(intake)}
  /\ UNCHANGED <<fresh, inbox, lane, deque, pub, mainQ, depth, claimed, owns, inits, op, wk>>

\* pop_bottom of its own deque.
PopDeque(w) ==
  /\ wk[w].at = "idle" /\ deque[w] # <<>>
  /\ deque' = [deque EXCEPT ![w] = Front(@)] /\ ran' = ran \cup {Last(deque[w])}
  /\ UNCHANGED <<fresh, inbox, lane, intake, pub, mainQ, depth, claimed, owns, inits, op, wk>>

\* The steal scan: another worker's deque or the publish lane, from the top.
Steal(w) ==
  /\ wk[w].at = "idle"
  /\ \/ \E v \in Workers \ {w} :
          /\ deque[v] # <<>>
          /\ deque' = [deque EXCEPT ![v] = Tail(@)] /\ ran' = ran \cup {Head(deque[v])}
          /\ UNCHANGED pub
     \/ /\ pub # <<>>
        /\ pub' = Tail(pub) /\ ran' = ran \cup {Head(pub)}
        /\ UNCHANGED deque
  /\ UNCHANGED <<fresh, inbox, lane, intake, mainQ, depth, claimed, owns, inits, op, wk>>

\* RedistributeToOverflow: the owner hands out from the bottom of its deque ...
Redistribute(w) ==
  /\ deque[w] # <<>>
  /\ \E v \in {u \in Workers : ~Reserved(u)} : inbox' = [inbox EXCEPT ![v] = Append(@, Last(deque[w]))]
  /\ deque' = [deque EXCEPT ![w] = Front(@)]
  /\ Works(w, "idle", [at |-> "note", hand |-> <<>>])
  /\ UNCHANGED <<fresh, lane, intake, pub, mainQ, ran, depth, claimed, owns, inits, op>>

\* ... and counts what it handed out.
NoteHandOut(w) ==
  /\ Works(w, "note", IdleWorker)
  /\ Counts(1)
  /\ UNCHANGED <<fresh, Queues, ran, claimed, owns, inits, op>>

Empty == /\ \A w \in Workers : /\ inbox[w] = <<>> /\ lane[w] = <<>> /\ deque[w] = <<>>
                               /\ wk[w].at = "idle"
         /\ intake = <<>> /\ pub = <<>> /\ mainQ = <<>>
         /\ \A t \in Threads : op[t].at = "idle"

\* Shutdown (Lifecycle) and StartPool again: the claim is reset with the
\* queues; the threads outside keep their thread-locals.
Restart ==
  /\ Empty /\ inits < MaxInits
  /\ inits' = inits + 1 /\ claimed' = FALSE
  /\ UNCHANGED <<fresh, Queues, ran, depth, owns, op, wk>>

Submits(t) ==
  \/ Push(t) \/ ApplyIngressBackpressure(t) \/ PlaceIntake(t) \/ PlaceLane(t)
  \/ ClaimPublish(t) \/ PushBottom(t) \/ PlaceInbox(t) \/ NoteInboxPush(t)
  \/ PushBatch(t) \/ SubmitRun(t) \/ PushLazy(t) \/ PushMain(t)

Consumes(w) ==
  \/ PopBatch(w) \/ SettleBatch(w) \/ DrainOwnInboxesToDeques(w) \/ PopYielded(w)
  \/ PopLane(w) \/ RelocateLaneTask(w) \/ TakeLaneIntake(w)
  \/ PopDeque(w) \/ Steal(w) \/ Redistribute(w) \/ NoteHandOut(w)

Next ==
  \/ \E t \in Threads : Submits(t)
  \/ \E w \in Workers : Consumes(w)
  \/ ProcessMainThread
  \/ Restart

Spec == Init /\ [][Next]_vars

-----------------------------------------------------------------------------

TypeOK ==
  /\ fresh \subseteq Tasks /\ ran \subseteq Tasks
  /\ \A w \in Workers : /\ inbox[w] \in Seq(Tasks) /\ lane[w] \in Seq(Tasks)
                        /\ deque[w] \in Seq(Tasks) /\ wk[w].hand \in Seq(Tasks)
                        /\ wk[w].at \in {"idle", "settle", "note"}
  /\ intake \in Seq(Tasks) /\ pub \in Seq(Tasks) /\ mainQ \in Seq(Tasks)
  /\ depth \in 0..(DepthWrap - 1) /\ claimed \in BOOLEAN /\ owns \in [Threads -> BOOLEAN]
  /\ inits \in 1..MaxInits
  /\ \A t \in Threads : /\ op[t].at \in {"idle", "pressure", "place", "publish", "note", "segment"}
                        /\ op[t].tasks \in Seq(Tasks) /\ op[t].kind \in Kinds

\* Every queue and every hand a task can be in.
Places ==
  <<intake, pub, mainQ>> \o [i \in 1..N |-> inbox[i - 1]] \o [i \in 1..N |-> lane[i - 1]]
    \o [i \in 1..N |-> deque[i - 1]] \o [i \in 1..N |-> wk[i - 1].hand]
    \o [i \in 1..Cardinality(Threads) |-> op[SetToSeq(Threads)[i]].tasks]

Times(x, s) == Cardinality({i \in 1..Len(s) : s[i] = x})

(***************************************************************************)
(* A submitted task is in one queue or hand until it has run, and it runs  *)
(* once: whatever path it came in by (inbox, lane, intake, publish lane,   *)
(* mainQ or a cut of a batch), and whichever drain, pop, steal, helper or  *)
(* hand-out takes it on.                                                   *)
(***************************************************************************)
SubmittedInOnePlace ==
  \A x \in Tasks :
    FoldSeq(LAMBDA s, n : n + Times(x, s), 0, Places)
      = IF x \in fresh \cup ran THEN 0 ELSE 1

(***************************************************************************)
(* At most one thread may write the bottom of the publish lane: "the claim *)
(* identifies the ONE thread allowed to write bottom_ ... Chase-Lev has    *)
(* exactly one pusher by construction, and two would corrupt the ring".    *)
(***************************************************************************)
OnePublisher == \A t, u \in Threads : owns[t] /\ owns[u] => t = u

(***************************************************************************)
(* QueuedDepth is "Tasks sitting in inboxes, queued but not yet started":  *)
(* whenever no push, drain or hand-out is half way, the counter the        *)
(* submit limit is compared with is the number of tasks in the inboxes.    *)
(***************************************************************************)
DepthIsQueued ==
  (/\ Limit # 0
   /\ \A t \in Threads : op[t].at = "idle"
   /\ \A w \in Workers : wk[w].at = "idle")
  => depth = FoldSeq(LAMBDA w, n : n + Len(inbox[w - 1]) + Len(lane[w - 1]), 0, [i \in 1..N |-> i])
=============================================================================
