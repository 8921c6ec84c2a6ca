---------------------- MODULE FiberAndPlacementProofs ----------------------
(***************************************************************************)
(* The life of a fiber and the worker it is placed on: Fiber for any set   *)
(* of fibers and wakers, Placement for every pool size, any number of      *)
(* pushers and any settings of the bands.                                  *)
(*                                                                         *)
(* Fiber.  The inductive invariant says, for each point of a fiber's own   *)
(* code, which status, stack and queue states go with it, and for each     *)
(* waker, what it may assume of the fiber in its hands.  By the same       *)
(* invariant the park / wake protocol implements ParkWake, step by step.   *)
(*                                                                         *)
(* Placement.  PickFits speaks of a pick that is done.  What makes it      *)
(* inductive is that every value a pick carries was compared with a K the  *)
(* word held since the call: low <= hotN, k and bands.k <= high, the map   *)
(* holds no worker below low once the band has been cleared, and what has  *)
(* been chosen stays on its side although the word moves on.               *)
(***************************************************************************)
EXTENDS Fiber, Placement, TLAPS

-----------------------------------------------------------------------------
(* Fiber *)

\* A fiber that some waker can still get to.
Reachable(f) == f \in listed \/ \E w \in Wakers : Holds(w, f)

\* A fiber has at most one waker.
OneWaker ==
  \A v, w \in Wakers, f \in Fibers : Holds(v, f) /\ Holds(w, f) => v = w

\* What a waker's step says of the fiber it holds.
HandOK(w) ==
  LET f == hand[w].fiber IN
  /\ hand[w].step # "none" => at[f] = "published" /\ f \notin listed
  /\ hand[w].step \in {"load", "cas"} => status[f] \in {"WANTS_SUSPEND", "SUSPENDED"}
  /\ hand[w].step = "cas" /\ hand[w].seen = "SUSPENDED" => status[f] = "SUSPENDED"
  /\ hand[w].step = "requeue"
       => status[f] = "READY" /\ stack[f] = "off" /\ queued[f] = 0

\* The states a fiber can be in at each point of its code.
PoolOK(f) == status[f] = "READY" /\ stack[f] = "off" /\ queued[f] = 0 /\ f \notin listed

BodyOK(f) ==
  /\ f \notin listed
  /\ \/ stack[f] = "on" /\ status[f] = "RUNNING" /\ queued[f] = 0
     \/ stack[f] = "saved" /\ status[f] \in {"DEAD", "WANTS_YIELD"} /\ queued[f] = 0
     \/ stack[f] = "off" /\ status[f] = "READY" /\ queued[f] = 1

ParkableOK(f) ==
  stack[f] = "on" /\ status[f] = "WANTS_SUSPEND" /\ queued[f] = 0 /\ f \notin listed

PublishedOK(f) ==
  \/ stack[f] \in {"on", "saved"} /\ status[f] = "WANTS_SUSPEND" /\ queued[f] = 0
       /\ Reachable(f)
  \/ stack[f] \in {"on", "saved"} /\ status[f] = "SUSPEND_SIGNALED" /\ queued[f] = 0
       /\ f \notin listed
  \/ stack[f] = "off" /\ status[f] = "SUSPENDED" /\ queued[f] = 0 /\ Reachable(f)
  \/ stack[f] = "off" /\ status[f] = "READY" /\ queued[f] = 1 /\ f \notin listed
  \/ stack[f] = "off" /\ status[f] = "READY" /\ queued[f] = 0 /\ f \notin listed
       /\ \E w \in Wakers : Holds(w, f)

FiberOK(f) ==
  /\ at[f] = "pool" => PoolOK(f)
  /\ at[f] = "body" => BodyOK(f)
  /\ at[f] = "parkable" => ParkableOK(f)
  /\ at[f] = "published" => PublishedOK(f)

IInv ==
  /\ TypeOK
  /\ OneWaker
  /\ \A w \in Wakers : HandOK(w)
  /\ \A f \in Fibers : FiberOK(f)

-----------------------------------------------------------------------------
\* The fields of what a waker holds.
LEMMA HandFields ==
  ASSUME NEW h \in Hands
  PROVE  /\ h.step \in {"none", "load", "cas", "requeue"}
         /\ h.step # "none" => h.fiber \in Fibers
         /\ h.step = "cas" => h.seen \in {"SUSPENDED", "WANTS_SUSPEND"}
  BY DEF Hands

\* The initial state: every fiber is in the pool and no waker holds one.
LEMMA InitIInv == Init => IInv
<1> SUFFICES ASSUME Init PROVE IInv
  OBVIOUS
<1>1. \A w \in Wakers : hand[w].step = "none"
  BY DEF Init, Nothing
<1>2. TypeOK
  <2>1. Nothing \in Hands
    BY DEF Nothing, Hands
  <2> QED
    BY <2>1 DEF Init, TypeOK, FiberTypeOK, FiberStatus, StackStates, Points
<1>3. OneWaker
  BY <1>1 DEF OneWaker, Holds
<1>4. \A w \in Wakers : HandOK(w)
  BY <1>1 DEF HandOK
<1>5. \A f \in Fibers : FiberOK(f)
  BY DEF Init, FiberOK, PoolOK
<1> QED
  BY <1>2, <1>3, <1>4, <1>5 DEF IInv

-----------------------------------------------------------------------------
\* A step that leaves fiber g as it is.
Untouched(g) ==
  /\ status'[g] = status[g] /\ stack'[g] = stack[g] /\ queued'[g] = queued[g]
  /\ at'[g] = at[g] /\ (g \in listed' <=> g \in listed)

\* A step of fiber f alone: wakers and the other fibers stay as they are, so
\* only f's state has to be looked at.
LEMMA FiberAlone ==
  ASSUME IInv, NEW f \in Fibers,
         TypeOK', hand' = hand, \A g \in Fibers \ {f} : Untouched(g),
         FiberOK(f)', \A w \in Wakers : Holds(w, f) => HandOK(w)'
  PROVE  IInv'
<1>2. OneWaker'
  BY DEF IInv, OneWaker, Holds
<1>3. \A w \in Wakers : HandOK(w)'
  <2> SUFFICES ASSUME NEW w \in Wakers, ~Holds(w, f) PROVE HandOK(w)'
    OBVIOUS
  <2>1. CASE hand[w].step = "none"
    BY <2>1 DEF HandOK
  <2>2. CASE hand[w].step # "none"
    <3>1. hand[w].fiber \in Fibers \ {f}
      BY <2>2, HandFields DEF IInv, TypeOK, Holds
    <3> QED
      BY <3>1 DEF IInv, Untouched, HandOK
  <2> QED
    BY <2>1, <2>2
<1>4. \A g \in Fibers : FiberOK(g)'
  <2> SUFFICES ASSUME NEW g \in Fibers, g # f PROVE FiberOK(g)'
    OBVIOUS
  <2>1. Untouched(g)
    OBVIOUS
  <2>2. Reachable(g)' <=> Reachable(g)
    BY <2>1 DEF Untouched, Reachable, Holds
  <2> QED
    BY <2>1, <2>2 DEF IInv, Untouched, FiberOK, PoolOK, BodyOK, ParkableOK, PublishedOK,
                       Holds
<1> QED
  BY <1>2, <1>3, <1>4 DEF IInv

-----------------------------------------------------------------------------
\* No waker holds a fiber that is not published.
LEMMA UnpublishedIsUnheld ==
  ASSUME IInv, NEW f \in Fibers, at[f] # "published"
  PROVE  \A w \in Wakers : ~Holds(w, f)
  BY DEF IInv, HandOK, Holds

\* The statuses only ever move within FiberStatus.
LEMMA SwitchStatus ==
  ASSUME NEW s \in FiberStatus
  PROVE  StatusAfterSwitch(s) \in FiberStatus /\ StatusAfterResume(s) \in FiberStatus
  BY DEF FiberStatus, StatusAfterSwitch, StatusAfterResume

\* The steps of a fiber's own code.
LEMMA FiberStepIInv ==
  ASSUME IInv, NEW f \in Fibers, FiberStep(f)
  PROVE  IInv'
<1> USE DEF FiberStatus, StackStates, Points
<1>0. /\ status \in [Fibers -> FiberStatus] /\ stack \in [Fibers -> StackStates]
      /\ queued \in [Fibers -> Nat] /\ at \in [Fibers -> Points]
      /\ listed \in SUBSET Fibers /\ hand \in [Wakers -> Hands] /\ FiberOK(f)
  BY DEF IInv, TypeOK, FiberTypeOK
<1>1. CASE BecomeParkable(f)
  <2>1. \A w \in Wakers : ~Holds(w, f)
    BY <1>1, UnpublishedIsUnheld DEF BecomeParkable
  <2>2. FiberOK(f)'
    BY <1>0, <1>1 DEF BecomeParkable, OnCpu, FiberOK, BodyOK, ParkableOK
  <2>3. TypeOK' /\ hand' = hand /\ \A g \in Fibers \ {f} : Untouched(g)
    BY <1>0, <1>1 DEF BecomeParkable, TypeOK, FiberTypeOK, Untouched
  <2> QED
    BY <2>1, <2>2, <2>3, FiberAlone
<1>2. CASE Publish(f)
  <2>1. \A w \in Wakers : ~Holds(w, f)
    BY <1>2, UnpublishedIsUnheld DEF Publish
  <2>2. FiberOK(f)'
    BY <1>0, <1>2 DEF Publish, FiberOK, ParkableOK, PublishedOK, Reachable
  <2>3. TypeOK' /\ hand' = hand /\ \A g \in Fibers \ {f} : Untouched(g)
    BY <1>0, <1>2 DEF Publish, TypeOK, FiberTypeOK, Untouched
  <2> QED
    BY <2>1, <2>2, <2>3, FiberAlone
<1>3. CASE Retract(f)
  <2>1. \A w \in Wakers : ~Holds(w, f)
    BY <1>3 DEF Retract, IInv, HandOK, Holds
  <2>2. FiberOK(f)'
    BY <1>0, <1>3 DEF Retract, OnCpu, FiberOK, PublishedOK, BodyOK
  <2>3. TypeOK' /\ hand' = hand /\ \A g \in Fibers \ {f} : Untouched(g)
    BY <1>0, <1>3 DEF Retract, TypeOK, FiberTypeOK, Untouched
  <2> QED
    BY <2>1, <2>2, <2>3, FiberAlone
<1>4. CASE Suspend(f)
  <2>1. \A w \in Wakers : Holds(w, f) => HandOK(w)'
    BY <1>0, <1>4 DEF Suspend, SwitchOut, OnCpu, IInv, HandOK, Holds
  <2>2. FiberOK(f)'
    BY <1>0, <1>4 DEF Suspend, SwitchOut, OnCpu, FiberOK, PublishedOK, Reachable, Holds
  <2>3. TypeOK' /\ hand' = hand /\ \A g \in Fibers \ {f} : Untouched(g)
    BY <1>0, <1>4 DEF Suspend, SwitchOut, TypeOK, FiberTypeOK, Untouched
  <2> QED
    BY <2>1, <2>2, <2>3, FiberAlone
<1>5. CASE CoYield(f)
  <2>1. \A w \in Wakers : ~Holds(w, f)
    BY <1>5, UnpublishedIsUnheld DEF CoYield
  <2>2. FiberOK(f)'
    BY <1>0, <1>5 DEF CoYield, SwitchOut, OnCpu, FiberOK, BodyOK
  <2>3. TypeOK' /\ hand' = hand /\ \A g \in Fibers \ {f} : Untouched(g)
    BY <1>0, <1>5 DEF CoYield, SwitchOut, TypeOK, FiberTypeOK, Untouched
  <2> QED
    BY <2>1, <2>2, <2>3, FiberAlone
<1>6. CASE Finish(f)
  <2>1. \A w \in Wakers : ~Holds(w, f)
    BY <1>6, UnpublishedIsUnheld DEF Finish
  <2>2. FiberOK(f)'
    BY <1>0, <1>6 DEF Finish, SwitchOut, OnCpu, FiberOK, BodyOK
  <2>3. TypeOK' /\ hand' = hand /\ \A g \in Fibers \ {f} : Untouched(g)
    BY <1>0, <1>6 DEF Finish, SwitchOut, TypeOK, FiberTypeOK, Untouched
  <2> QED
    BY <2>1, <2>2, <2>3, FiberAlone
<1> QED
  BY <1>1, <1>2, <1>3, <1>4, <1>5, <1>6 DEF FiberStep

\* The steps of the workers.
LEMMA WorkerStepIInv ==
  ASSUME IInv, NEW f \in Fibers, WorkerStep(f)
  PROVE  IInv'
<1> USE DEF FiberStatus, StackStates, Points
<1>0. /\ status \in [Fibers -> FiberStatus] /\ stack \in [Fibers -> StackStates]
      /\ queued \in [Fibers -> Nat] /\ at \in [Fibers -> Points]
      /\ listed \in SUBSET Fibers /\ hand \in [Wakers -> Hands] /\ FiberOK(f)
  BY DEF IInv, TypeOK, FiberTypeOK
<1>1. CASE AcquireFiber(f)
  <2>1. \A w \in Wakers : ~Holds(w, f)
    BY <1>1, UnpublishedIsUnheld DEF AcquireFiber
  <2>2. FiberOK(f)'
    BY <1>0, <1>1 DEF AcquireFiber, FiberOK, PoolOK, BodyOK
  <2>3. TypeOK' /\ hand' = hand /\ \A g \in Fibers \ {f} : Untouched(g)
    BY <1>0, <1>1 DEF AcquireFiber, TypeOK, FiberTypeOK, Untouched
  <2> QED
    BY <2>1, <2>2, <2>3, FiberAlone
<1>2. CASE Run(f)
  <2>1. queued[f] = 1 /\ status[f] = "READY" /\ f \notin listed
    BY <1>0, <1>2 DEF Run, Dispatch, FiberOK, PoolOK, BodyOK, ParkableOK, PublishedOK
  <2>2. \A w \in Wakers : ~Holds(w, f)
    BY <1>0, <2>1, HandFields DEF IInv, HandOK, Holds
  <2>3. FiberOK(f)'
    BY <1>0, <1>2, <2>1 DEF Run, Dispatch, FiberOK, BodyOK
  <2>4. TypeOK' /\ hand' = hand /\ \A g \in Fibers \ {f} : Untouched(g)
    BY <1>0, <1>2 DEF Run, Dispatch, TypeOK, FiberTypeOK, Untouched
  <2> QED
    BY <2>1, <2>2, <2>3, <2>4, FiberAlone
<1>3. CASE AfterSwitch(f)
  <2>1. \A w \in Wakers : Holds(w, f) => HandOK(w)'
    BY <1>0, <1>3 DEF AfterSwitch, WorkerReturn, StatusAfterSwitch, SwitchRequeues,
                      IInv, HandOK, Holds
  <2>2. FiberOK(f)'
    BY <1>0, <1>3 DEF AfterSwitch, WorkerReturn, StatusAfterSwitch, SwitchRequeues,
                      FiberOK, PoolOK, BodyOK, ParkableOK, PublishedOK, Reachable, Holds
  <2>3. TypeOK' /\ hand' = hand /\ \A g \in Fibers \ {f} : Untouched(g)
    BY <1>0, <1>3, SwitchStatus DEF AfterSwitch, WorkerReturn, TypeOK, FiberTypeOK, Untouched
  <2> QED
    BY <2>1, <2>2, <2>3, FiberAlone
<1>4. CASE ReleaseFiber(f)
  <2>1. at[f] = "body"
    BY <1>0, <1>4 DEF ReleaseFiber, FiberOK, PoolOK, ParkableOK, PublishedOK
  <2>2. \A w \in Wakers : ~Holds(w, f)
    BY <2>1, UnpublishedIsUnheld
  <2>3. FiberOK(f)'
    BY <1>0, <1>4, <2>1 DEF ReleaseFiber, FiberOK, BodyOK, PoolOK
  <2>4. TypeOK' /\ hand' = hand /\ \A g \in Fibers \ {f} : Untouched(g)
    BY <1>0, <1>4 DEF ReleaseFiber, TypeOK, FiberTypeOK, Untouched
  <2> QED
    BY <2>2, <2>3, <2>4, FiberAlone
<1> QED
  BY <1>1, <1>2, <1>3, <1>4 DEF WorkerStep

-----------------------------------------------------------------------------
\* A step of waker w alone that keeps w's hold on its fiber or lets it go:
\* the statuses of all other fibers stay as they are.
LEMMA WakerAlone ==
  ASSUME IInv, NEW w \in Wakers, NEW f \in Fibers, Holds(w, f),
         TypeOK', listed' = listed,
         at' = at, stack' = stack,
         \A v \in Wakers \ {w} : hand'[v] = hand[v],
         \A g \in Fibers \ {f} :
           status'[g] = status[g] /\ queued'[g] = queued[g],
         hand'[w].step # "none" => hand'[w].fiber = f,
         HandOK(w)', FiberOK(f)'
  PROVE  IInv'
<1>1. OneWaker'
  BY DEF IInv, OneWaker, Holds
<1>2. \A v \in Wakers : HandOK(v)'
  <2> SUFFICES ASSUME NEW v \in Wakers \ {w} PROVE HandOK(v)'
    OBVIOUS
  <2>1. CASE hand[v].step = "none"
    BY <2>1 DEF HandOK
  <2>2. CASE hand[v].step # "none"
    <3>1. hand[v].fiber \in Fibers \ {f}
      BY <2>2, HandFields DEF IInv, TypeOK, OneWaker, Holds
    <3> QED
      BY <3>1 DEF IInv, HandOK
  <2> QED
    BY <2>1, <2>2
<1>3. \A g \in Fibers : FiberOK(g)'
  <2> SUFFICES ASSUME NEW g \in Fibers \ {f} PROVE FiberOK(g)'
    OBVIOUS
  <2>1. \A v \in Wakers : Holds(v, g)' <=> Holds(v, g)
    BY DEF Holds
  <2>2. Reachable(g)' <=> Reachable(g)
    BY <2>1 DEF Reachable
  <2> QED
    BY <2>1, <2>2 DEF IInv, FiberOK, PoolOK, BodyOK, ParkableOK, PublishedOK
<1> QED
  BY <1>1, <1>2, <1>3 DEF IInv

\* The steps of the wakers.
LEMMA WakerStepIInv ==
  ASSUME IInv, NEW w \in Wakers, WakerStep(w)
  PROVE  IInv'
<1> USE DEF FiberStatus
<1>0. /\ status \in [Fibers -> FiberStatus] /\ stack \in [Fibers -> StackStates]
      /\ queued \in [Fibers -> Nat] /\ at \in [Fibers -> Points]
      /\ listed \in SUBSET Fibers /\ hand \in [Wakers -> Hands] /\ HandOK(w)
  BY DEF IInv, TypeOK, FiberTypeOK
<1>1. CASE Claim(w)
  <2> PICK f \in listed :
        /\ listed' = listed \ {f}
        /\ hand' = [hand EXCEPT ![w] = [step |-> "load", fiber |-> f]]
    BY <1>1 DEF Claim
  <2>1. f \in Fibers /\ hand[w].step = "none"
    BY <1>0, <1>1 DEF Claim
  <2>2. \A v \in Wakers, g \in Fibers : Holds(v, g)' <=> IF v = w THEN g = f ELSE Holds(v, g)
    BY <1>0, <2>1 DEF Holds
  <2>3. \A v \in Wakers : ~Holds(v, f)
    BY DEF IInv, HandOK, Holds
  <2>4. TypeOK'
    <3>1. [step |-> "load", fiber |-> f] \in Hands
      BY <2>1 DEF Hands
    <3> QED
      BY <1>0, <1>1, <3>1 DEF Claim, TypeOK, FiberTypeOK
  <2>5. OneWaker'
    BY <2>2, <2>3 DEF IInv, OneWaker
  <2>6. \A v \in Wakers : HandOK(v)'
    <3>1. at[f] = "published" /\ status[f] \in {"WANTS_SUSPEND", "SUSPENDED"}
      BY <1>0, <2>1, <2>3 DEF IInv, FiberOK, PoolOK, BodyOK, ParkableOK, PublishedOK, Points
    <3>2. HandOK(w)'
      BY <1>0, <1>1, <3>1 DEF Claim, HandOK
    <3> SUFFICES ASSUME NEW v \in Wakers \ {w} PROVE HandOK(v)'
      BY <3>2
    <3> QED
      BY <1>0, <1>1 DEF Claim, IInv, HandOK
  <2>7. \A g \in Fibers : FiberOK(g)'
    <3> SUFFICES ASSUME NEW g \in Fibers PROVE FiberOK(g)'
      OBVIOUS
    <3>1. Reachable(g)' <=> Reachable(g)
      BY <2>1, <2>2 DEF Reachable, Holds
    <3>2. (\E v \in Wakers : Holds(v, g)) => \E v \in Wakers : Holds(v, g)'
      BY <2>1, <2>2 DEF Holds
    <3> QED
      BY <1>1, <3>1, <3>2 DEF Claim, IInv, FiberOK, PoolOK, BodyOK, ParkableOK, PublishedOK
  <2> QED
    BY <2>4, <2>5, <2>6, <2>7 DEF IInv
<1> SUFFICES ASSUME ~Claim(w) PROVE IInv'
  BY <1>1
<1>2. PICK f \in Fibers : Holds(w, f)
  BY <1>0, HandFields DEF WakerStep, LoadStatus, CasStatus, Requeue, Holds
<1>3. FiberOK(f) /\ at[f] = "published" /\ f \notin listed
  BY <1>0, <1>2 DEF IInv, HandOK, Holds
<1>4. CASE LoadStatus(w)
  <2>1. status[f] \in {"SUSPENDED", "WANTS_SUSPEND"}
    BY <1>0, <1>2, <1>4 DEF LoadStatus, HandOK, Holds
  <2> DEFINE h == [step |-> "cas", fiber |-> f, seen |-> status[f]]
  <2>2. hand' = [hand EXCEPT ![w] = h] /\ h \in Hands
    BY <1>2, <1>4, <2>1 DEF LoadStatus, Hands, Holds
  <2>3. TypeOK'
    BY <1>0, <1>4, <2>2 DEF LoadStatus, TypeOK, FiberTypeOK
  <2>4. HandOK(w)'
    BY <1>0, <1>3, <1>4, <2>1, <2>2 DEF LoadStatus, HandOK
  <2>5. Holds(w, f)'
    BY <1>0, <2>2 DEF Holds
  <2>6. FiberOK(f)'
    BY <1>3, <1>4, <2>1, <2>5 DEF LoadStatus, FiberOK, PublishedOK, Reachable
  <2> QED
    BY <1>0, <1>2, <1>4, <2>2, <2>3, <2>4, <2>6, WakerAlone DEF LoadStatus
<1>5. CASE CasStatus(w)
  <2>1. CASE status[f] = hand[w].seen
    <3>1. CASE status[f] = "SUSPENDED"
      <4> DEFINE h == [step |-> "requeue", fiber |-> f]
      <4>1. /\ hand' = [hand EXCEPT ![w] = h] /\ h \in Hands
            /\ status' = [status EXCEPT ![f] = "READY"]
        BY <1>2, <1>5, <2>1, <3>1
           DEF CasStatus, StatusAfterResume, ResumeRequeues, Hands, Holds
      <4>2. stack[f] = "off" /\ queued[f] = 0
        BY <1>3, <3>1 DEF FiberOK, PublishedOK
      <4>3. TypeOK'
        BY <1>0, <1>5, <4>1 DEF CasStatus, TypeOK, FiberTypeOK
      <4>4. HandOK(w)'
        BY <1>0, <1>2, <1>3, <1>5, <4>1, <4>2 DEF CasStatus, HandOK
      <4>5. Holds(w, f)'
        BY <1>0, <4>1 DEF Holds
      <4>6. FiberOK(f)'
        BY <1>0, <1>2, <1>3, <1>5, <4>1, <4>2, <4>5 DEF CasStatus, FiberOK, PublishedOK
      <4> QED
        BY <1>0, <1>2, <1>5, <4>1, <4>3, <4>4, <4>6, WakerAlone DEF CasStatus
    <3>2. CASE status[f] = "WANTS_SUSPEND"
      <4>1. /\ hand' = [hand EXCEPT ![w] = Nothing] /\ Nothing \in Hands
            /\ status' = [status EXCEPT ![f] = "SUSPEND_SIGNALED"]
        BY <1>2, <1>5, <2>1, <3>2
           DEF CasStatus, StatusAfterResume, ResumeRequeues, Hands, Nothing, Holds
      <4>2. stack[f] \in {"on", "saved"} /\ queued[f] = 0
        BY <1>3, <3>2 DEF FiberOK, PublishedOK
      <4>3. TypeOK'
        BY <1>0, <1>5, <4>1 DEF CasStatus, TypeOK, FiberTypeOK
      <4>4. HandOK(w)' /\ hand'[w].step = "none"
        BY <1>0, <4>1 DEF HandOK, Nothing
      <4>5. FiberOK(f)'
        BY <1>0, <1>2, <1>3, <1>5, <4>1, <4>2 DEF CasStatus, FiberOK, PublishedOK
      <4> QED
        BY <1>0, <1>2, <1>5, <4>1, <4>3, <4>4, <4>5, WakerAlone DEF CasStatus
    <3> QED
      BY <1>0, <1>2, <1>5, <3>1, <3>2 DEF CasStatus, HandOK, Holds
  <2>2. CASE status[f] # hand[w].seen
    <3>1. hand[w].seen = "WANTS_SUSPEND" /\ status[f] = "SUSPENDED"
      BY <1>0, <1>2, <1>5, <2>2, HandFields DEF CasStatus, HandOK, Holds
    <3> DEFINE h == [step |-> "load", fiber |-> f]
    <3>2. /\ hand' = [hand EXCEPT ![w] = h] /\ h \in Hands /\ status' = status
      BY <1>2, <1>5, <2>2, <3>1 DEF CasStatus, Hands, Holds
    <3>3. TypeOK'
      BY <1>0, <1>5, <3>2 DEF CasStatus, TypeOK, FiberTypeOK
    <3>4. HandOK(w)'
      BY <1>0, <1>3, <1>5, <3>1, <3>2 DEF CasStatus, HandOK
    <3>5. Holds(w, f)'
      BY <1>0, <3>2 DEF Holds
    <3>6. FiberOK(f)'
      BY <1>3, <1>5, <3>1, <3>2, <3>5 DEF CasStatus, FiberOK, PublishedOK, Reachable
    <3> QED
      BY <1>0, <1>2, <1>5, <3>2, <3>3, <3>4, <3>6, WakerAlone DEF CasStatus
  <2> QED
    BY <2>1, <2>2
<1>6. CASE Requeue(w)
  <2>1. /\ hand' = [hand EXCEPT ![w] = Nothing] /\ Nothing \in Hands
        /\ queued' = [queued EXCEPT ![f] = @ + 1]
    BY <1>2, <1>6 DEF Requeue, Hands, Nothing, Holds
  <2>2. status[f] = "READY" /\ stack[f] = "off" /\ queued[f] = 0
    BY <1>0, <1>2, <1>6 DEF Requeue, HandOK, Holds
  <2>3. TypeOK'
    BY <1>0, <1>2, <1>6, <2>1 DEF Requeue, TypeOK, FiberTypeOK
  <2>4. HandOK(w)' /\ hand'[w].step = "none"
    BY <1>0, <2>1 DEF HandOK, Nothing
  <2>5. FiberOK(f)'
    BY <1>0, <1>2, <1>3, <1>6, <2>1, <2>2 DEF Requeue, FiberOK, PublishedOK
  <2> QED
    BY <1>0, <1>2, <1>6, <2>1, <2>3, <2>4, <2>5, WakerAlone DEF Requeue
<1> QED
  BY <1>4, <1>5, <1>6 DEF WakerStep

-----------------------------------------------------------------------------
\* The invariant is inductive.
LEMMA NextIInv == IInv /\ [Next]_vars => IInv'
<1> SUFFICES ASSUME IInv, [Next]_vars PROVE IInv'
  OBVIOUS
<1>1. ASSUME NEW f \in Fibers, FiberStep(f) \/ WorkerStep(f) PROVE IInv'
  BY <1>1, FiberStepIInv, WorkerStepIInv
<1>2. ASSUME NEW w \in Wakers, WakerStep(w) PROVE IInv'
  BY <1>2, WakerStepIInv
<1>3. CASE UNCHANGED vars
  <2>1. OneWaker' /\ TypeOK'
    BY <1>3 DEF vars, IInv, TypeOK, FiberTypeOK, OneWaker, Holds
  <2>2. \A w \in Wakers : HandOK(w)'
    BY <1>3 DEF vars, IInv, HandOK
  <2>3. \A f \in Fibers : FiberOK(f)'
    BY <1>3 DEF vars, IInv, FiberOK, PoolOK, BodyOK, ParkableOK, PublishedOK, Reachable,
                Holds
  <2> QED
    BY <2>1, <2>2, <2>3 DEF IInv
<1> QED
  BY <1>1, <1>2, <1>3 DEF Next

\* The invariant holds of every run, for any number of fibers and wakers.
THEOREM Inductive == Spec => []IInv
<1> QED
  BY InitIInv, NextIInv, PTL DEF Spec

\* Every variable keeps its type.
THEOREM TypeCorrect == Spec => []TypeOK
<1>1. IInv => TypeOK
  BY DEF IInv
<1> QED
  BY <1>1, Inductive, PTL

\* A fiber that is fully asleep is on a wait list or in the hands of a waker:
\* whichever of the worker's and the waker's compare-exchanges comes first,
\* no wake is lost.
THEOREM NeverStranded == Spec => []NoStrandedFiber
<1>1. IInv => NoStrandedFiber
  BY DEF IInv, TypeOK, NoStrandedFiber, FiberOK, PoolOK, BodyOK, ParkableOK, PublishedOK,
         Reachable, Points
<1> QED
  BY <1>1, Inductive, PTL

\* A runnable fiber is in one place: no two workers ever run one stack.
THEOREM AlwaysInOnePlace == Spec => []OnePlace
<1>1. IInv => OnePlace
  <2> SUFFICES ASSUME IInv, NEW f \in Fibers
               PROVE  /\ queued[f] <= 1
                      /\ queued[f] = 1 => stack[f] = "off"
                      /\ \A w \in Wakers :
                           Holds(w, f) /\ hand[w].step = "requeue"
                             => /\ queued[f] = 0
                                /\ stack[f] = "off"
                                /\ \A v \in Wakers \ {w} : ~Holds(v, f)
    BY DEF OnePlace
  <2>1. queued[f] <= 1 /\ (queued[f] = 1 => stack[f] = "off")
    BY DEF IInv, TypeOK, FiberOK, PoolOK, BodyOK, ParkableOK, PublishedOK, Points
  <2>2. ASSUME NEW w \in Wakers, Holds(w, f), hand[w].step = "requeue"
        PROVE  queued[f] = 0 /\ stack[f] = "off" /\ \A v \in Wakers \ {w} : ~Holds(v, f)
    BY <2>2 DEF IInv, OneWaker, HandOK, Holds
  <2> QED
    BY <2>1, <2>2
<1> QED
  BY <1>1, Inductive, PTL

\* A fiber in the pool is known to no waker, so a late Resume cannot hit the
\* task that gets it next.
THEOREM PoolIsUnknown == Spec => []PooledIsUnknown
<1>1. IInv => PooledIsUnknown
  BY UnpublishedIsUnheld DEF IInv, PooledIsUnknown, FiberOK, PoolOK
<1> QED
  BY <1>1, Inductive, PTL
-----------------------------------------------------------------------------
(* The refinement of ParkWake, without its fairness. *)

\* A step that leaves every fiber but f where it was, and takes f along one
\* of the abstract moves or leaves its phase alone, is an abstract step.
LEMMA OneMoves ==
  ASSUME NEW f \in Fibers,
         \A g \in Fibers \ {f} : phaseBar'[g] = phaseBar[g],
         \/ phaseBar'[f] = phaseBar[f]
         \/ <<phaseBar[f], phaseBar'[f]>> \in
              {<<"idle", "running">>, <<"running", "waiting">>, <<"waiting", "running">>,
               <<"waiting", "ready">>, <<"running", "ready">>, <<"ready", "running">>,
               <<"running", "idle">>}
  PROVE  [Abstract!Next]_phaseBar
<1>1. phaseBar \in [Fibers -> {phaseBar[g] : g \in Fibers}]
  BY DEF phaseBar
<1>2. phaseBar' = [phaseBar EXCEPT ![f] = phaseBar'[f]]
  <2>1. /\ phaseBar = [g \in Fibers |-> phaseBar[g]]
        /\ phaseBar' = [g \in Fibers |-> phaseBar'[g]]
    BY DEF phaseBar
  <2> QED BY <2>1
<1>3. CASE phaseBar'[f] = phaseBar[f]
  BY <1>1, <1>2, <1>3
<1>4. CASE phaseBar'[f] # phaseBar[f]
  BY <1>2, <1>4 DEF Abstract!Next, Abstract!Start, Abstract!Wait, Abstract!GiveUp,
       Abstract!Wake, Abstract!Yield, Abstract!Run, Abstract!End, Abstract!Move
<1> QED
  BY <1>3, <1>4

\* Every step of a fiber, a worker or a waker is one abstract step of one
\* fiber, or none.
LEMMA StepRefines == IInv /\ [Next]_vars => [Abstract!Next]_phaseBar
<1> SUFFICES ASSUME IInv, [Next]_vars PROVE [Abstract!Next]_phaseBar
  OBVIOUS
<1> USE DEF FiberStatus, StackStates, Points
<1>0. /\ status \in [Fibers -> FiberStatus] /\ stack \in [Fibers -> StackStates]
      /\ queued \in [Fibers -> Nat] /\ at \in [Fibers -> Points]
      /\ listed \in SUBSET Fibers /\ hand \in [Wakers -> Hands]
      /\ \A f \in Fibers : FiberOK(f)
  BY DEF IInv, TypeOK, FiberTypeOK
<1>p. \A g \in Fibers :
        /\ phaseBar[g] = IF at[g] = "pool" \/ status[g] = "DEAD" THEN "idle"
                         ELSE IF g \in listed THEN "waiting"
                         ELSE IF stack[g] = "on" /\ at[g] # "published" THEN "running"
                         ELSE "ready"
        /\ phaseBar'[g] = IF at'[g] = "pool" \/ status'[g] = "DEAD" THEN "idle"
                          ELSE IF g \in listed' THEN "waiting"
                          ELSE IF stack'[g] = "on" /\ at'[g] # "published" THEN "running"
                          ELSE "ready"
  BY DEF phaseBar, OnCpu
<1>1. ASSUME NEW f \in Fibers, FiberStep(f) PROVE [Abstract!Next]_phaseBar
  <2>1. \A g \in Fibers \ {f} : phaseBar'[g] = phaseBar[g]
    BY <1>0, <1>1, <1>p DEF FiberStep, BecomeParkable, Publish, Retract, Suspend, CoYield,
         Finish, SwitchOut
  <2>2. CASE BecomeParkable(f) \/ Suspend(f)
    BY <1>0, <1>p, <2>1, <2>2, OneMoves DEF BecomeParkable, Suspend, SwitchOut, OnCpu,
         FiberOK, BodyOK, PublishedOK
  <2>3. CASE Publish(f) \/ Retract(f)
    BY <1>0, <1>p, <2>1, <2>3, OneMoves DEF Publish, Retract, OnCpu,
         FiberOK, ParkableOK, PublishedOK
  <2>4. CASE CoYield(f) \/ Finish(f)
    BY <1>0, <1>p, <2>1, <2>4, OneMoves DEF CoYield, Finish, SwitchOut, OnCpu,
         FiberOK, BodyOK
  <2> QED
    BY <1>1, <2>2, <2>3, <2>4 DEF FiberStep
<1>2. ASSUME NEW f \in Fibers, WorkerStep(f) PROVE [Abstract!Next]_phaseBar
  <2>1. \A g \in Fibers \ {f} : phaseBar'[g] = phaseBar[g]
    BY <1>0, <1>2, <1>p DEF WorkerStep, AcquireFiber, Run, Dispatch, AfterSwitch,
         WorkerReturn, ReleaseFiber
  <2>2. CASE AcquireFiber(f)
    BY <1>0, <1>p, <2>1, <2>2, OneMoves DEF AcquireFiber, FiberOK, PoolOK
  <2>3. CASE Run(f)
    BY <1>0, <1>p, <2>1, <2>3, OneMoves DEF Run, Dispatch, FiberOK, PoolOK, BodyOK,
         ParkableOK, PublishedOK
  <2>4. CASE AfterSwitch(f)
    BY <1>0, <1>p, <2>1, <2>4, OneMoves DEF AfterSwitch, WorkerReturn, StatusAfterSwitch,
         FiberOK, PoolOK, BodyOK, ParkableOK, PublishedOK
  <2>5. CASE ReleaseFiber(f)
    BY <1>0, <1>p, <2>1, <2>5, OneMoves DEF ReleaseFiber
  <2> QED
    BY <1>2, <2>2, <2>3, <2>4, <2>5 DEF WorkerStep
<1>3. ASSUME NEW w \in Wakers, WakerStep(w) PROVE [Abstract!Next]_phaseBar
  <2>1. CASE Claim(w)
    <3>1. PICK f \in listed : listed' = listed \ {f}
      BY <2>1 DEF Claim
    <3>2. \A g \in Fibers \ {f} : phaseBar'[g] = phaseBar[g]
      BY <1>p, <2>1, <3>1 DEF Claim
    <3>3. at[f] = "published" /\ status[f] # "DEAD"
      BY <1>0, <3>1 DEF FiberOK, PoolOK, BodyOK, ParkableOK, PublishedOK
    <3> QED
      BY <1>0, <1>p, <2>1, <3>1, <3>2, <3>3, OneMoves DEF Claim
  <2>2. CASE LoadStatus(w) \/ Requeue(w)
    BY <2>2 DEF LoadStatus, Requeue, phaseBar, OnCpu
  <2>3. CASE CasStatus(w)
    <3>1. \A g \in Fibers : status'[g] = "DEAD" <=> status[g] = "DEAD"
      BY <1>0, <2>3, HandFields DEF CasStatus, StatusAfterResume
    <3> QED
      BY <2>3, <3>1 DEF CasStatus, phaseBar, OnCpu
  <2> QED
    BY <1>3, <2>1, <2>2, <2>3 DEF WakerStep
<1>4. CASE UNCHANGED vars
  BY <1>4 DEF vars, phaseBar, OnCpu
<1> QED
  BY <1>1, <1>2, <1>3, <1>4 DEF Next

\* Every fiber starts idle.
LEMMA InitRefines == Init => Abstract!Init
  BY DEF Init, Abstract!Init, phaseBar

\* The status protocol implements the abstract wait: a fiber that waits runs
\* again only after one wake, or after giving the wait up before it slept.
\* (That it does run again is liveness, and is model-checked.)
THEOREM RefinesParkWake == Spec => Abstract!Spec
<1> QED
  BY InitRefines, StepRefines, Inductive, PTL DEF Spec, Abstract!Spec

-----------------------------------------------------------------------------
(* Placement *)

\* low and high bracket the live K and what the pick has loaded of it.
Bracketed(r) ==
  /\ r.low <= bands.k /\ bands.k <= r.high
  /\ r.at # "hotN" => r.low <= r.hotN /\ r.hotN <= r.high

\* The pick of one pusher, label by label.
PickOK(r) ==
  /\ r.at \notin {"idle", "done"} => Bracketed(r)
  /\ r.at \in {"laneK", "laneFloor", "map", "bands", "steer", "select", "yield", "queued",
               "streak", "crowd", "rotate", "advance", "fallback"}
       => ~(LowLatency(r) /\ r.hotN > 0)
  /\ r.at \in {"laneK", "laneFloor"} => LowLatency(r)
  /\ r.at \in {"steer", "select", "yield"} => \A w \in r.awake : w >= r.low
  /\ r.at \in {"yield", "queued", "streak", "crowd", "advance"}
       => r.chosen \in Workers /\ r.chosen >= r.low
  /\ r.at \in {"spill", "spillScan"}
       => /\ r.chosen \in Workers /\ LowLatency(r)
          /\ r.hotN > 0 => r.chosen < r.high
  /\ r.at = "done"
       => /\ r.chosen \in Workers
          /\ ~LowLatency(r) => r.chosen >= r.low
          /\ LowLatency(r) /\ r.hotN > 0 => r.chosen < r.high

PlacementInv == PlacementTypeOK /\ \A p \in Pushers : PickOK(pick[p])

PickType == [at : Labels, lane : Lanes, pref : CorePrefs,
       hotN : Workers, k : Workers, awake : SUBSET Workers, i : 0..N,
       chosen : Int, low : Workers, high : Workers]

\* A step of one pusher that leaves K alone needs to look at its own pick only.
LEMMA OwnPick ==
  ASSUME ConstantsFit, PlacementInv, NEW p \in Pushers, pick'[p] \in PickType, PickOK(pick'[p]),
         bands' \in Bands, bands'.k = bands.k,
         streak' \in [Pushers -> 0..(kStreakSpillMax + 1)],
         nextWorker' \in 0..(CursorWrap - 1), nextHotWorker' \in 0..(CursorWrap - 1),
         pick' = [pick EXCEPT ![p] = pick'[p]]
  PROVE  PlacementInv'
<1>1. pick \in [Pushers -> PickType]
  BY DEF PlacementInv, PlacementTypeOK, PickType
<1>2. PlacementTypeOK'
  BY <1>1 DEF PlacementTypeOK, PickType
<1>3. ASSUME NEW q \in Pushers PROVE PickOK(pick[q])'
  <2>1. CASE q = p
    BY <2>1, <1>1 DEF PickOK, Bracketed, LowLatency
  <2>2. CASE q # p
    BY <2>2, <1>1 DEF PlacementInv, PickOK, Bracketed, LowLatency
  <2> QED BY <1>1, <2>1, <2>2
<1> QED BY <1>2, <1>3 DEF PlacementInv

\* A cursor taken modulo a width is an index into that width.
LEMMA ModFits ==
  ASSUME NEW c \in Nat, NEW m \in Nat \ {0}
  PROVE  c % m \in Nat /\ c % m < m
  OBVIOUS

\* A pick that ends has its type.
LEMMA PickedTyped ==
  ASSUME ConstantsFit, NEW p \in Pushers, pick[p] \in PickType, NEW w \in Int
  PROVE  Picked(p, w) \in PickType
<1>1. 0 \in 0..N /\ {} \in SUBSET Workers /\ "done" \in Labels
  BY DEF ConstantsFit, Labels
<1> QED BY <1>1 DEF Picked, PickType

\* Every step of a pick keeps the invariant, one step of the proof per action.
LEMMA StepKeeps ==
  ASSUME ConstantsFit, PlacementInv, NEW p \in Pushers, Step(p)
  PROVE  PlacementInv'
<1> DEFINE r == pick[p]
<1>1. /\ pick \in [Pushers -> PickType] /\ r \in PickType /\ PickOK(r)
      /\ bands \in Bands /\ streak \in [Pushers -> 0..(kStreakSpillMax + 1)]
      /\ nextWorker \in 0..(CursorWrap - 1) /\ nextHotWorker \in 0..(CursorWrap - 1)
  BY DEF PlacementInv, PlacementTypeOK, PickType
<1>2. N \in Nat \ {0} /\ CursorWrap \in Nat /\ CursorWrap >= N
  BY DEF ConstantsFit
<1>3. /\ Workers \subseteq Int /\ 0 \in Workers /\ bands.k \in Workers
      /\ bands.k \in Nat /\ bands.k < N /\ r.k \in Nat /\ r.k < N
      /\ r.hotN \in Nat /\ r.hotN < N /\ r.low \in Nat /\ r.high \in Nat /\ r.i \in Nat
      /\ bands.fb \in Nat /\ bands.f \in Nat /\ bands.fb <= bands.f /\ bands.k + bands.f <= N
      /\ nextWorker \in Nat /\ nextHotWorker \in Nat
  BY <1>1, <1>2 DEF Workers, Bands, PickType
<1>0. \A c \in 0..(CursorWrap - 1) : Bump(c) \in 0..(CursorWrap - 1)
  BY <1>2 DEF Bump
<1>4. CASE PickNextWorker(p)
  <2>1. r.at = "idle" /\ bands' = bands /\ streak' = streak
    BY <1>4 DEF PickNextWorker, Goes
  <2>2. nextWorker' \in 0..(CursorWrap - 1) /\ nextHotWorker' \in 0..(CursorWrap - 1)
    BY <1>1, <1>0, <1>4 DEF PickNextWorker
  <2>0. Idle \in PickType
    BY <1>2, <1>3 DEF PickType, Labels, Lanes, CorePrefs, Idle
  <2>3. ASSUME NEW lane \in Lanes, NEW pref \in CorePrefs,
               pick' = [pick EXCEPT ![p] = [Idle EXCEPT !.at = "hotN", !.lane = lane, !.pref = pref,
                                            !.low = bands.k, !.high = bands.k]]
        PROVE  PlacementInv'
    <3> DEFINE s == [Idle EXCEPT !.at = "hotN", !.lane = lane, !.pref = pref,
                                            !.low = bands.k, !.high = bands.k]
    <3>1. pick'[p] = s
      BY <1>1, <2>3
    <3>2. s \in PickType
      BY <1>3, <2>0, <2>3 DEF PickType, Labels
    <3>3. PickOK(s)
      BY <1>1, <1>2, <1>3, <2>1, <2>3 DEF PickType, PickOK, Bracketed, LowLatency, Idle
    <3> QED BY <1>1, <2>1, <2>2, <2>3, <3>1, <3>2, <3>3, OwnPick
  <2> QED BY <1>1, <1>4, <2>3 DEF PickNextWorker, Goes
<1>5. CASE ReadHotN(p)
  <2>1. r.at = "hotN" /\ bands' = bands /\ streak' = streak
    BY <1>5 DEF ReadHotN, Goes
  <2>2. nextWorker' \in 0..(CursorWrap - 1) /\ nextHotWorker' \in 0..(CursorWrap - 1)
    BY <1>1, <1>0, <1>5 DEF ReadHotN
  <2>3. bands.k > 0 => nextHotWorker % Least(bands.k, N) \in Workers
                        /\ nextHotWorker % Least(bands.k, N) < bands.k
    <3>1. bands.k > 0 => bands.k \in Nat \ {0} /\ Least(bands.k, N) = bands.k /\ bands.k < N
      BY <1>2, <1>3 DEF Least
    <3>2. bands.k > 0 => nextHotWorker % bands.k \in Nat /\ nextHotWorker % bands.k < bands.k
      BY <1>3, <3>1, ModFits
    <3> QED BY <1>2, <3>1, <3>2 DEF Workers
  <2>4. ASSUME bands.k > 0, LowLatency(r), NEW c \in Workers, c < bands.k,
               pick' = [pick EXCEPT ![p] = [r EXCEPT !.at = "spill", !.hotN = bands.k, !.chosen = c]]
        PROVE  PlacementInv'
    <3> DEFINE s == [r EXCEPT !.at = "spill", !.hotN = bands.k, !.chosen = c]
    <3>1. pick'[p] = s
      BY <1>1, <2>4
    <3>2. s \in PickType
      BY <1>1, <1>2, <1>3, <2>4 DEF PickType, Labels
    <3>3. PickOK(s)
      BY <1>1, <1>2, <1>3, <2>1, <2>4 DEF PickType, PickOK, Bracketed, LowLatency
    <3> QED BY <1>1, <2>1, <2>2, <2>4, <3>1, <3>2, <3>3, OwnPick
  <2>5. ASSUME NEW l \in {"laneK", "map", "rotate"}, l = "laneK" => LowLatency(r), ~(LowLatency(r) /\ bands.k > 0),
               pick' = [pick EXCEPT ![p] = [r EXCEPT !.hotN = bands.k, !.at = l]]
        PROVE  PlacementInv'
    <3> DEFINE s == [r EXCEPT !.hotN = bands.k, !.at = l]
    <3>1. pick'[p] = s
      BY <1>1, <2>5
    <3>2. s \in PickType
      BY <1>1, <1>2, <1>3, <2>5 DEF PickType, Labels
    <3>3. PickOK(s)
      BY <1>1, <1>2, <1>3, <2>1, <2>5 DEF PickType, PickOK, Bracketed, LowLatency
    <3> QED BY <1>1, <2>1, <2>2, <2>5, <3>1, <3>2, <3>3, OwnPick
  <2> QED BY <1>1, <1>5, <2>3, <2>4, <2>5 DEF ReadHotN, Goes, Ordinary
<1>6. CASE ReadLaneK(p)
  <2>1. r.at = "laneK" /\ bands' = bands /\ streak' = streak
    BY <1>6 DEF ReadLaneK, Goes
  <2>2. nextWorker' \in 0..(CursorWrap - 1) /\ nextHotWorker' \in 0..(CursorWrap - 1)
    BY <1>1, <1>0, <1>6 DEF ReadLaneK
  <2>3. ASSUME pick' = [pick EXCEPT ![p] = [r EXCEPT !.at = "laneFloor", !.k = bands.k]]
        PROVE  PlacementInv'
    <3> DEFINE s == [r EXCEPT !.at = "laneFloor", !.k = bands.k]
    <3>1. pick'[p] = s
      BY <1>1, <2>3
    <3>2. s \in PickType
      BY <1>1, <1>2, <1>3, <2>3 DEF PickType, Labels
    <3>3. PickOK(s)
      BY <1>1, <1>2, <1>3, <2>1, <2>3 DEF PickType, PickOK, Bracketed, LowLatency
    <3> QED BY <1>1, <2>1, <2>2, <2>3, <3>1, <3>2, <3>3, OwnPick
  <2> QED BY <1>1, <1>6, <2>3 DEF ReadLaneK, Goes
<1>7. CASE PickFloorLane(p)
  <2>1. r.at = "laneFloor" /\ bands' = bands /\ streak' = streak
    BY <1>7 DEF PickFloorLane, Goes
  <2>2. nextWorker' \in 0..(CursorWrap - 1) /\ nextHotWorker' \in 0..(CursorWrap - 1)
    BY <1>1, <1>0, <1>7 DEF PickFloorLane
  <2>3. bands.fb > 0 => r.k + (nextHotWorker % Least(bands.fb, N - r.k)) \in Workers
    <3> DEFINE span == Least(bands.fb, N - r.k)
    <3>2. bands.fb > 0 => span \in Nat \ {0} /\ r.k + span <= N
      BY <1>2, <1>3 DEF Least
    <3>3. bands.fb > 0 => nextHotWorker % span \in Nat /\ nextHotWorker % span < span
      BY <1>3, <3>2, ModFits
    <3> QED BY <1>2, <1>3, <3>2, <3>3 DEF Workers
  <2>4. LowLatency(r)
    BY <1>1, <2>1 DEF PickOK
  <2>5. ASSUME NEW c \in Workers, LowLatency(r),
               pick' = [pick EXCEPT ![p] = [r EXCEPT !.at = "spill", !.k = 0, !.chosen = c]]
        PROVE  PlacementInv'
    <3> DEFINE s == [r EXCEPT !.at = "spill", !.k = 0, !.chosen = c]
    <3>1. pick'[p] = s
      BY <1>1, <2>5
    <3>2. s \in PickType
      BY <1>1, <1>2, <1>3, <2>5 DEF PickType, Labels
    <3>3. PickOK(s)
      BY <1>1, <1>2, <1>3, <2>1, <2>5 DEF PickType, PickOK, Bracketed, LowLatency
    <3> QED BY <1>1, <2>1, <2>2, <2>5, <3>1, <3>2, <3>3, OwnPick
  <2>6. ASSUME NEW l \in {"map", "rotate"},
               pick' = [pick EXCEPT ![p] = [r EXCEPT !.at = l, !.k = 0]]
        PROVE  PlacementInv'
    <3> DEFINE s == [r EXCEPT !.at = l, !.k = 0]
    <3>1. pick'[p] = s
      BY <1>1, <2>6
    <3>2. s \in PickType
      BY <1>1, <1>2, <1>3, <2>6 DEF PickType, Labels
    <3>3. PickOK(s)
      BY <1>1, <1>2, <1>3, <2>1, <2>6 DEF PickType, PickOK, Bracketed, LowLatency
    <3> QED BY <1>1, <2>1, <2>2, <2>6, <3>1, <3>2, <3>3, OwnPick
  <2> QED BY <1>1, <1>7, <2>3, <2>4, <2>5, <2>6 DEF PickFloorLane, Goes, Ordinary
<1>8. CASE ReadAwake(p)
  <2>1. r.at = "map" /\ bands' = bands /\ streak' = streak
    BY <1>8 DEF ReadAwake, Goes
  <2>2. nextWorker' \in 0..(CursorWrap - 1) /\ nextHotWorker' \in 0..(CursorWrap - 1)
    BY <1>1, <1>0, <1>8 DEF ReadAwake
  <2>3. ASSUME NEW m \in SUBSET Workers,
               pick' = [pick EXCEPT ![p] = [r EXCEPT !.at = "bands", !.awake = m]]
        PROVE  PlacementInv'
    <3> DEFINE s == [r EXCEPT !.at = "bands", !.awake = m]
    <3>1. pick'[p] = s
      BY <1>1, <2>3
    <3>2. s \in PickType
      BY <1>1, <1>2, <1>3, <2>3 DEF PickType, Labels
    <3>3. PickOK(s)
      BY <1>1, <1>2, <1>3, <2>1, <2>3 DEF PickType, PickOK, Bracketed, LowLatency
    <3> QED BY <1>1, <2>1, <2>2, <2>3, <3>1, <3>2, <3>3, OwnPick
  <2> QED BY <1>1, <1>8, <2>3 DEF ReadAwake, Goes
<1>9. CASE ClearReserved(p)
  <2>1. r.at = "bands" /\ bands' = bands /\ streak' = streak
    BY <1>9 DEF ClearReserved, Goes
  <2>2. nextWorker' \in 0..(CursorWrap - 1) /\ nextHotWorker' \in 0..(CursorWrap - 1)
    BY <1>1, <1>0, <1>9 DEF ClearReserved
  <2>3. ASSUME pick' = [pick EXCEPT ![p] = [r EXCEPT !.at = "steer", !.k = bands.k,
                                          !.awake = {w \in r.awake : w >= bands.k}]]
        PROVE  PlacementInv'
    <3> DEFINE s == [r EXCEPT !.at = "steer", !.k = bands.k,
                                          !.awake = {w \in r.awake : w >= bands.k}]
    <3>1. pick'[p] = s
      BY <1>1, <2>3
    <3>2. s \in PickType
      BY <1>1, <1>2, <1>3, <2>3 DEF PickType, Labels
    <3>3. PickOK(s)
      BY <1>1, <1>2, <1>3, <2>1, <2>3 DEF PickType, PickOK, Bracketed, LowLatency
    <3> QED BY <1>1, <2>1, <2>2, <2>3, <3>1, <3>2, <3>3, OwnPick
  <2> QED BY <1>1, <1>9, <2>3 DEF ClearReserved, Goes
<1>10. CASE Steer(p)
  <2>1. r.at = "steer" /\ bands' = bands /\ streak' = streak
    BY <1>10 DEF Steer, Goes
  <2>2. nextWorker' \in 0..(CursorWrap - 1) /\ nextHotWorker' \in 0..(CursorWrap - 1)
    BY <1>1, <1>0, <1>10 DEF Steer
  <2>3. ASSUME NEW l \in {"rotate", "select"}, NEW m \in SUBSET r.awake,
               pick' = [pick EXCEPT ![p] = [r EXCEPT !.at = l, !.awake = m, !.k = 0]]
        PROVE  PlacementInv'
    <3> DEFINE s == [r EXCEPT !.at = l, !.awake = m, !.k = 0]
    <3>1. pick'[p] = s
      BY <1>1, <2>3
    <3>2. s \in PickType
      BY <1>1, <1>2, <1>3, <2>3 DEF PickType, Labels
    <3>3. PickOK(s)
      BY <1>1, <1>2, <1>3, <2>1, <2>3 DEF PickType, PickOK, Bracketed, LowLatency
    <3> QED BY <1>1, <2>1, <2>2, <2>3, <3>1, <3>2, <3>3, OwnPick
  <2> QED BY <1>1, <1>10, <2>3 DEF Steer, Goes
<1>11. CASE Select(p)
  <2>1. r.at = "select" /\ bands' = bands /\ streak' = streak
    BY <1>11 DEF Select, Goes
  <2>2. nextWorker' \in 0..(CursorWrap - 1) /\ nextHotWorker' \in 0..(CursorWrap - 1)
    BY <1>1, <1>0, <1>11 DEF Select
  <2>3. ASSUME NEW w \in r.awake,
               pick' = [pick EXCEPT ![p] = [r EXCEPT !.at = "yield", !.chosen = w]]
        PROVE  PlacementInv'
    <3> DEFINE s == [r EXCEPT !.at = "yield", !.chosen = w]
    <3>1. pick'[p] = s
      BY <1>1, <2>3
    <3>2. s \in PickType
      BY <1>1, <1>2, <1>3, <2>3 DEF PickType, Labels
    <3>3. PickOK(s)
      BY <1>1, <1>2, <1>3, <2>1, <2>3 DEF PickType, PickOK, Bracketed, LowLatency
    <3> QED BY <1>1, <2>1, <2>2, <2>3, <3>1, <3>2, <3>3, OwnPick
  <2> QED BY <1>1, <1>11, <2>3 DEF Select, Goes
<1>12. CASE AvoidYielding(p)
  <2>1. r.at = "yield" /\ bands' = bands /\ streak' = streak
    BY <1>12 DEF AvoidYielding, Goes
  <2>2. nextWorker' \in 0..(CursorWrap - 1) /\ nextHotWorker' \in 0..(CursorWrap - 1)
    BY <1>1, <1>0, <1>12 DEF AvoidYielding
  <2>3. ASSUME NEW w \in r.awake,
               pick' = [pick EXCEPT ![p] = [r EXCEPT !.at = "queued", !.chosen = w]]
        PROVE  PlacementInv'
    <3> DEFINE s == [r EXCEPT !.at = "queued", !.chosen = w]
    <3>1. pick'[p] = s
      BY <1>1, <2>3
    <3>2. s \in PickType
      BY <1>1, <1>2, <1>3, <2>3 DEF PickType, Labels
    <3>3. PickOK(s)
      BY <1>1, <1>2, <1>3, <2>1, <2>3 DEF PickType, PickOK, Bracketed, LowLatency
    <3> QED BY <1>1, <2>1, <2>2, <2>3, <3>1, <3>2, <3>3, OwnPick
  <2> QED BY <1>1, <1>12, <2>3 DEF AvoidYielding, Goes
<1>13. CASE ReadQueued(p)
  <2>1. r.at = "queued" /\ bands' = bands /\ streak' = streak
    BY <1>13 DEF ReadQueued, Goes
  <2>2. nextWorker' \in 0..(CursorWrap - 1) /\ nextHotWorker' \in 0..(CursorWrap - 1)
    BY <1>1, <1>0, <1>13 DEF ReadQueued
  <2>3. ASSUME pick' = [pick EXCEPT ![p] = Picked(p, r.chosen)]
        PROVE  PlacementInv'
    <3> DEFINE s == Picked(p, r.chosen)
    <3>1. pick'[p] = s
      BY <1>1, <2>3
    <3>2. s \in PickType
      BY <1>1, <1>3, <2>3, PickedTyped DEF PickType
    <3>3. PickOK(s)
      BY <1>1, <1>2, <1>3, <2>1, <2>3 DEF PickType, PickOK, Bracketed, LowLatency, Picked
    <3> QED BY <1>1, <2>1, <2>2, <2>3, <3>1, <3>2, <3>3, OwnPick
  <2>4. ASSUME pick' = [pick EXCEPT ![p] = [r EXCEPT !.at = "streak", !.awake = {}]]
        PROVE  PlacementInv'
    <3> DEFINE s == [r EXCEPT !.at = "streak", !.awake = {}]
    <3>1. pick'[p] = s
      BY <1>1, <2>4
    <3>2. s \in PickType
      BY <1>1, <1>2, <1>3, <2>4 DEF PickType, Labels
    <3>3. PickOK(s)
      BY <1>1, <1>2, <1>3, <2>1, <2>4 DEF PickType, PickOK, Bracketed, LowLatency
    <3> QED BY <1>1, <2>1, <2>2, <2>4, <3>1, <3>2, <3>3, OwnPick
  <2> QED BY <1>1, <1>13, <2>3, <2>4 DEF ReadQueued, Goes
<1>14. CASE Rotate(p)
  <2>1. r.at = "rotate" /\ bands' = bands /\ streak' = streak
    BY <1>14 DEF Rotate, Goes
  <2>2. nextWorker' \in 0..(CursorWrap - 1) /\ nextHotWorker' \in 0..(CursorWrap - 1)
    BY <1>1, <1>0, <1>14 DEF Rotate
  <2>3. (nextWorker + r.i) % N \in Workers
    BY <1>2, <1>3, ModFits DEF Workers
  <2>4. r.i \in Nat /\ r.hotN \in Int /\ N \in Int
    BY <1>2, <1>3
  <2>5. ASSUME pick' = [pick EXCEPT ![p] = [r EXCEPT !.at = "fallback"]]
        PROVE  PlacementInv'
    <3> DEFINE s == [r EXCEPT !.at = "fallback"]
    <3>1. pick'[p] = s
      BY <1>1, <2>5
    <3>2. s \in PickType
      BY <1>1, <1>2, <1>3, <2>5 DEF PickType, Labels
    <3>3. PickOK(s)
      BY <1>1, <1>2, <1>3, <2>1, <2>5 DEF PickType, PickOK, Bracketed, LowLatency
    <3> QED BY <1>1, <2>1, <2>2, <2>5, <3>1, <3>2, <3>3, OwnPick
  <2>6. ASSUME r.i < N, pick' = [pick EXCEPT ![p] = [r EXCEPT !.i = @ + 1]]
        PROVE  PlacementInv'
    <3> DEFINE s == [r EXCEPT !.i = @ + 1]
    <3>1. pick'[p] = s
      BY <1>1, <2>6
    <3>2. s \in PickType
      BY <1>1, <1>2, <1>3, <2>6 DEF PickType, Labels
    <3>3. PickOK(s)
      BY <1>1, <1>2, <1>3, <2>1, <2>6 DEF PickType, PickOK, Bracketed, LowLatency
    <3> QED BY <1>1, <2>1, <2>2, <2>6, <3>1, <3>2, <3>3, OwnPick
  <2>7. ASSUME NEW j \in Workers, j >= r.hotN,
               pick' = [pick EXCEPT ![p] = [r EXCEPT !.at = "advance", !.chosen = j]]
        PROVE  PlacementInv'
    <3> DEFINE s == [r EXCEPT !.at = "advance", !.chosen = j]
    <3>1. pick'[p] = s
      BY <1>1, <2>7
    <3>2. s \in PickType
      BY <1>1, <1>2, <1>3, <2>7 DEF PickType, Labels
    <3>3. PickOK(s)
      BY <1>1, <1>2, <1>3, <2>1, <2>7 DEF PickType, PickOK, Bracketed, LowLatency
    <3> QED BY <1>1, <2>1, <2>2, <2>7, <3>1, <3>2, <3>3, OwnPick
  <2>8. CASE r.i >= N
    BY <1>14, <2>5, <2>8 DEF Rotate, Goes
  <2>9. CASE r.i < N /\ (nextWorker + r.i) % N < r.hotN
    <3>1. ~(r.i >= N)
      BY <2>4, <2>9
    <3>2. pick' = [pick EXCEPT ![p] = [r EXCEPT !.i = @ + 1]]
      BY <1>14, <2>9, <3>1 DEF Rotate, Goes
    <3> QED BY <2>6, <2>9, <3>2
  <2>10. CASE r.i < N /\ (nextWorker + r.i) % N >= r.hotN
    <3>1. ~(r.i >= N) /\ ~((nextWorker + r.i) % N < r.hotN)
      BY <1>3, <2>3, <2>4, <2>10
    <3> QED BY <1>14, <2>3, <2>7, <2>10, <3>1 DEF Rotate, Goes
  <2> QED BY <1>3, <2>3, <2>4, <2>8, <2>9, <2>10
<1>15. CASE Fallback(p)
  <2>1. r.at = "fallback" /\ bands' = bands /\ streak' = streak
    BY <1>15 DEF Fallback, Goes
  <2>2. nextWorker' \in 0..(CursorWrap - 1) /\ nextHotWorker' \in 0..(CursorWrap - 1)
    BY <1>1, <1>0, <1>15 DEF Fallback
  <2>3. /\ r.hotN < N
        /\ r.hotN + (nextWorker % (N - r.hotN)) \in Workers
        /\ r.hotN + (nextWorker % (N - r.hotN)) >= r.hotN
    <3>1. N - r.hotN \in Nat \ {0}
      BY <1>2, <1>3
    <3>2. /\ nextWorker % (N - r.hotN) \in Nat
          /\ nextWorker % (N - r.hotN) < N - r.hotN
      BY <1>3, <3>1, ModFits
    <3> QED BY <1>2, <1>3, <3>1, <3>2 DEF Workers
  <2>4. ASSUME NEW j \in Workers, j >= r.hotN,
               pick' = [pick EXCEPT ![p] = [r EXCEPT !.at = "advance", !.chosen = j]]
        PROVE  PlacementInv'
    <3> DEFINE s == [r EXCEPT !.at = "advance", !.chosen = j]
    <3>1. pick'[p] = s
      BY <1>1, <2>4
    <3>2. s \in PickType
      BY <1>1, <1>2, <1>3, <2>4 DEF PickType, Labels
    <3>3. PickOK(s)
      BY <1>1, <1>2, <1>3, <2>1, <2>4 DEF PickType, PickOK, Bracketed, LowLatency
    <3> QED BY <1>1, <2>1, <2>2, <2>4, <3>1, <3>2, <3>3, OwnPick
  <2> QED BY <1>1, <1>15, <2>3, <2>4 DEF Fallback, Goes
<1>16. CASE HiPriSpillTarget(p)
  <2>1. r.at = "spill" /\ bands' = bands /\ streak' = streak
    BY <1>16 DEF HiPriSpillTarget, Goes
  <2>2. nextWorker' \in 0..(CursorWrap - 1) /\ nextHotWorker' \in 0..(CursorWrap - 1)
    BY <1>1, <1>0, <1>16 DEF HiPriSpillTarget
  <2>3. ASSUME pick' = [pick EXCEPT ![p] = Picked(p, r.chosen)]
        PROVE  PlacementInv'
    <3> DEFINE s == Picked(p, r.chosen)
    <3>1. pick'[p] = s
      BY <1>1, <2>3
    <3>2. s \in PickType
      BY <1>1, <1>3, <2>3, PickedTyped DEF PickType
    <3>3. PickOK(s)
      BY <1>1, <1>2, <1>3, <2>1, <2>3 DEF PickType, PickOK, Bracketed, LowLatency, Picked
    <3> QED BY <1>1, <2>1, <2>2, <2>3, <3>1, <3>2, <3>3, OwnPick
  <2>4. ASSUME pick' = [pick EXCEPT ![p] = [r EXCEPT !.at = "spillScan"]]
        PROVE  PlacementInv'
    <3> DEFINE s == [r EXCEPT !.at = "spillScan"]
    <3>1. pick'[p] = s
      BY <1>1, <2>4
    <3>2. s \in PickType
      BY <1>1, <1>2, <1>3, <2>4 DEF PickType, Labels
    <3>3. PickOK(s)
      BY <1>1, <1>2, <1>3, <2>1, <2>4 DEF PickType, PickOK, Bracketed, LowLatency
    <3> QED BY <1>1, <2>1, <2>2, <2>4, <3>1, <3>2, <3>3, OwnPick
  <2> QED BY <1>1, <1>16, <2>3, <2>4 DEF HiPriSpillTarget, Goes
<1>17. CASE SpillScan(p)
  <2>1. r.at = "spillScan" /\ bands' = bands /\ streak' = streak
    BY <1>17 DEF SpillScan, Goes
  <2>2. nextWorker' \in 0..(CursorWrap - 1) /\ nextHotWorker' \in 0..(CursorWrap - 1)
    BY <1>1, <1>0, <1>17 DEF SpillScan
  <2>3. ASSUME pick' = [pick EXCEPT ![p] = Picked(p, r.chosen)]
        PROVE  PlacementInv'
    <3> DEFINE s == Picked(p, r.chosen)
    <3>1. pick'[p] = s
      BY <1>1, <2>3
    <3>2. s \in PickType
      BY <1>1, <1>3, <2>3, PickedTyped DEF PickType
    <3>3. PickOK(s)
      BY <1>1, <1>2, <1>3, <2>1, <2>3 DEF PickType, PickOK, Bracketed, LowLatency, Picked
    <3> QED BY <1>1, <2>1, <2>2, <2>3, <3>1, <3>2, <3>3, OwnPick
  <2>4. ASSUME NEW q \in Workers, q < bands.k,
               pick' = [pick EXCEPT ![p] = Picked(p, q)]
        PROVE  PlacementInv'
    <3> DEFINE s == Picked(p, q)
    <3>1. pick'[p] = s
      BY <1>1, <2>4
    <3>2. s \in PickType
      BY <1>1, <1>3, <2>4, PickedTyped DEF PickType
    <3>3. PickOK(s)
      BY <1>1, <1>2, <1>3, <2>1, <2>4 DEF PickType, PickOK, Bracketed, LowLatency, Picked
    <3> QED BY <1>1, <2>1, <2>2, <2>4, <3>1, <3>2, <3>3, OwnPick
  <2> QED BY <1>1, <1>17, <2>3, <2>4 DEF SpillScan, Goes
<1>18. CASE Return(p)
  <2>1. r.at = "done" /\ bands' = bands /\ streak' = streak
    BY <1>18 DEF Return, Goes
  <2>2. nextWorker' \in 0..(CursorWrap - 1) /\ nextHotWorker' \in 0..(CursorWrap - 1)
    BY <1>1, <1>0, <1>18 DEF Return
  <2>3. ASSUME pick' = [pick EXCEPT ![p] = Idle]
        PROVE  PlacementInv'
    <3> DEFINE s == Idle
    <3>1. pick'[p] = s
      BY <1>1, <2>3
    <3>2. s \in PickType
      BY <1>2, <1>3 DEF PickType, Labels, Lanes, CorePrefs, Idle
    <3>3. PickOK(s)
      BY <1>1, <1>2, <1>3, <2>1, <2>3 DEF PickType, PickOK, Bracketed, LowLatency, Idle
    <3> QED BY <1>1, <2>1, <2>2, <2>3, <3>1, <3>2, <3>3, OwnPick
  <2> QED BY <1>1, <1>18, <2>3 DEF Return, Goes
<1>19. CASE Advance(p)
  <2>1. r.at = "advance" /\ bands' = bands /\ streak' = streak
    BY <1>19 DEF Advance, Goes
  <2>2. nextWorker' \in 0..(CursorWrap - 1) /\ nextHotWorker' \in 0..(CursorWrap - 1)
    <3>1. r.chosen \in Workers
      BY <1>1, <2>1 DEF PickOK
    <3>2. (r.chosen + 1) % N \in Nat /\ (r.chosen + 1) % N < N
      BY <1>2, <3>1, ModFits DEF Workers
    <3> QED BY <1>1, <1>2, <1>19, <3>2 DEF Advance
  <2>3. ASSUME pick' = [pick EXCEPT ![p] = Picked(p, r.chosen)]
        PROVE  PlacementInv'
    <3> DEFINE s == Picked(p, r.chosen)
    <3>1. pick'[p] = s
      BY <1>1, <2>3
    <3>2. s \in PickType
      BY <1>1, <1>3, <2>3, PickedTyped DEF PickType
    <3>3. PickOK(s)
      BY <1>1, <1>2, <1>3, <2>1, <2>3 DEF PickType, PickOK, Bracketed, LowLatency, Picked
    <3> QED BY <1>1, <2>1, <2>2, <2>3, <3>1, <3>2, <3>3, OwnPick
  <2> QED BY <1>1, <1>19, <2>3 DEF Advance, Goes
<1>20. CASE CountStreak(p)
  <2>1. r.at = "streak" /\ bands' = bands /\ streak' \in [Pushers -> 0..(kStreakSpillMax + 1)]
    BY <1>1, <1>20 DEF CountStreak, Goes, Least, ConstantsFit
  <2>2. nextWorker' \in 0..(CursorWrap - 1) /\ nextHotWorker' \in 0..(CursorWrap - 1)
    BY <1>1, <1>0, <1>20 DEF CountStreak
  <2>3. ASSUME pick' = [pick EXCEPT ![p] = Picked(p, r.chosen)]
        PROVE  PlacementInv'
    <3> DEFINE s == Picked(p, r.chosen)
    <3>1. pick'[p] = s
      BY <1>1, <2>3
    <3>2. s \in PickType
      BY <1>1, <1>3, <2>3, PickedTyped DEF PickType
    <3>3. PickOK(s)
      BY <1>1, <1>2, <1>3, <2>1, <2>3 DEF PickType, PickOK, Bracketed, LowLatency, Picked
    <3> QED BY <1>1, <2>1, <2>2, <2>3, <3>1, <3>2, <3>3, OwnPick
  <2>4. ASSUME pick' = [pick EXCEPT ![p] = [r EXCEPT !.at = "crowd"]]
        PROVE  PlacementInv'
    <3> DEFINE s == [r EXCEPT !.at = "crowd"]
    <3>1. pick'[p] = s
      BY <1>1, <2>4
    <3>2. s \in PickType
      BY <1>1, <1>2, <1>3, <2>4 DEF PickType, Labels
    <3>3. PickOK(s)
      BY <1>1, <1>2, <1>3, <2>1, <2>4 DEF PickType, PickOK, Bracketed, LowLatency
    <3> QED BY <1>1, <2>1, <2>2, <2>4, <3>1, <3>2, <3>3, OwnPick
  <2> QED BY <1>1, <1>20, <2>3, <2>4 DEF CountStreak, Goes
<1>21. CASE SpillToGrown(p)
  <2>1. r.at = "crowd" /\ bands' \in Bands /\ bands'.k = bands.k /\ streak' = streak
    BY <1>1, <1>2, <1>3, <1>21 DEF SpillToGrown, Goes, Bands
  <2>2. nextWorker' \in 0..(CursorWrap - 1) /\ nextHotWorker' \in 0..(CursorWrap - 1)
    BY <1>1, <1>0, <1>21 DEF SpillToGrown
  <2>3. \A f \in bands.f..(N - bands.k) : f > bands.fb =>
          LET alt == r.hotN + bands.fb + (nextWorker % (f - bands.fb))
          IN  alt \in Int /\ alt >= r.low /\ (alt < N => alt \in Workers)
    <3>1. r.low <= r.hotN
      BY <1>1, <2>1 DEF PickOK, Bracketed
    <3>2. ASSUME NEW f \in bands.f..(N - bands.k), f > bands.fb
          PROVE  nextWorker % (f - bands.fb) \in Nat
      <4>1. f - bands.fb \in Nat \ {0}
        BY <1>2, <1>3, <3>2
      <4> QED BY <1>3, <4>1, ModFits
    <3> QED BY <1>2, <1>3, <3>1, <3>2 DEF Workers
  <2>4. r.chosen \in Workers /\ r.chosen >= r.low
    BY <1>1, <2>1 DEF PickOK
  <2>5. ASSUME NEW c \in Workers, c >= r.low, pick' = [pick EXCEPT ![p] = Picked(p, c)]
        PROVE  PlacementInv'
    <3> DEFINE s == Picked(p, c)
    <3>1. pick'[p] = s
      BY <1>1, <2>5
    <3>2. s \in PickType
      BY <1>1, <1>3, <2>5, PickedTyped DEF PickType
    <3>3. PickOK(s)
      BY <1>1, <1>2, <1>3, <2>1, <2>5 DEF PickType, PickOK, Bracketed, LowLatency, Picked
    <3> QED BY <1>1, <2>1, <2>2, <2>5, <3>1, <3>2, <3>3, OwnPick
  <2> QED BY <1>1, <1>21, <2>3, <2>4, <2>5 DEF SpillToGrown, Goes
<1> QED
  BY <1>4, <1>5, <1>6, <1>7, <1>8, <1>9, <1>10, <1>11, <1>12, <1>13, <1>14, <1>15, <1>16, <1>17, <1>18, <1>19, <1>20, <1>21 DEF Step

\* The lesser and the greater of two workers.
LEMMA LeastAndGreatest ==
  ASSUME Workers \subseteq Int, NEW v \in Workers, NEW w \in Workers
  PROVE  /\ Least(v, w) \in Workers /\ Greatest(v, w) \in Workers
         /\ Least(v, w) <= v /\ Least(v, w) <= w
         /\ Greatest(v, w) >= v /\ Greatest(v, w) >= w
<1>1. v \in Int /\ w \in Int
  OBVIOUS
<1>2. Least(v, w) \in {v, w} /\ Greatest(v, w) \in {v, w}
  BY DEF Least, Greatest
<1> QED BY <1>1, <1>2 DEF Least, Greatest

\* The bands move: low and high follow, nothing else does.
LEMMA SetBandsKeeps ==
  ASSUME ConstantsFit, PlacementInv, SetBands
  PROVE  PlacementInv'
<1>1. PICK b \in Settings :
        /\ bands' = b
        /\ pick' = [p \in Pushers |->
             IF InPick(p) THEN [pick[p] EXCEPT !.low = Least(@, b.k), !.high = Greatest(@, b.k)]
                          ELSE pick[p]]
  BY DEF SetBands
<1>2. b \in Bands /\ b.k \in Workers /\ Workers \subseteq Int
  BY DEF ConstantsFit, Bands, Workers
<1>3. pick \in [Pushers -> PickType] /\ bands.k \in Workers
  BY DEF PlacementInv, PlacementTypeOK, PickType, Bands
<1>4. ASSUME NEW p \in Pushers PROVE pick'[p] \in PickType /\ PickOK(pick[p])'
  <2>1. pick[p] \in PickType /\ PickOK(pick[p])
    BY <1>3 DEF PlacementInv
  <2>2. CASE InPick(p)
    <3>1. pick'[p] = [pick[p] EXCEPT !.low = Least(@, b.k), !.high = Greatest(@, b.k)]
      BY <1>1, <2>2
    <3>2. /\ Least(pick[p].low, b.k) \in Workers /\ Greatest(pick[p].high, b.k) \in Workers
          /\ Least(pick[p].low, b.k) <= pick[p].low /\ Least(pick[p].low, b.k) <= b.k
          /\ Greatest(pick[p].high, b.k) >= pick[p].high /\ Greatest(pick[p].high, b.k) >= b.k
      <4>1. pick[p].low \in Workers /\ pick[p].high \in Workers
        BY <2>1 DEF PickType
      <4> QED BY <1>2, <4>1, LeastAndGreatest
    <3>3. pick'[p] \in PickType
      BY <2>1, <3>1, <3>2 DEF PickType
    <3>4. PickOK(pick[p])'
      <4>1. /\ pick'[p].low = Least(pick[p].low, b.k) /\ pick'[p].high = Greatest(pick[p].high, b.k)
            /\ pick'[p].at = pick[p].at /\ pick'[p].lane = pick[p].lane
            /\ pick'[p].hotN = pick[p].hotN /\ pick'[p].awake = pick[p].awake
            /\ pick'[p].chosen = pick[p].chosen
        BY <2>1, <3>1 DEF PickType
      <4>2. /\ pick[p].low \in Int /\ pick[p].high \in Int /\ pick[p].hotN \in Int
            /\ pick[p].chosen \in Int /\ pick[p].awake \subseteq Int
            /\ pick'[p].low \in Int /\ pick'[p].high \in Int /\ b.k \in Int
        BY <1>2, <2>1, <3>2, <4>1 DEF PickType
      <4>3. pick'[p].low <= pick[p].low /\ pick'[p].high >= pick[p].high
        BY <3>2, <4>1
      <4>4. Bracketed(pick[p])'
        <5>1. bands' = b /\ pick'[p].low <= b.k /\ b.k <= pick'[p].high
          BY <1>1, <3>2, <4>1, <4>2
        <5>2. pick[p].at # "hotN" => pick[p].low <= pick[p].hotN /\ pick[p].hotN <= pick[p].high
          BY <2>1, <2>2 DEF PickOK, Bracketed, InPick
        <5>3. pick'[p].at # "hotN" =>
                pick'[p].low <= pick'[p].hotN /\ pick'[p].hotN <= pick'[p].high
          <6>1. pick[p].low <= pick[p].hotN => pick'[p].low <= pick[p].hotN
            BY <4>2, <4>3
          <6>2. pick[p].hotN <= pick[p].high => pick[p].hotN <= pick'[p].high
            BY <4>2, <4>3
          <6> QED BY <4>1, <5>2, <6>1, <6>2
        <5> QED BY <5>1, <5>3 DEF Bracketed
      <4>5. /\ \A w \in pick[p].awake : w >= pick[p].low => w >= pick'[p].low
            /\ pick[p].chosen >= pick[p].low => pick[p].chosen >= pick'[p].low
            /\ pick[p].chosen < pick[p].high => pick[p].chosen < pick'[p].high
        BY <4>2, <4>3
      <4> QED BY <2>1, <2>2, <4>1, <4>4, <4>5 DEF PickOK, LowLatency, InPick
    <3> QED BY <3>3, <3>4
  <2>3. CASE ~InPick(p)
    BY <1>1, <2>1, <2>3 DEF PickOK, InPick
  <2> QED BY <2>2, <2>3
<1>5. PlacementTypeOK'
  BY <1>1, <1>2, <1>4 DEF SetBands, PlacementInv, PlacementTypeOK, PickType
<1> QED BY <1>4, <1>5 DEF PlacementInv

\* PickFits, for any pool: a pick that is done names a worker, never sends
\* ordinary work to a worker that stayed reserved throughout, and never lets
\* the lane out of the band.
THEOREM PlacementSafe == ConstantsFit => (PlacementSpec => []PickFits)
<1> SUFFICES ASSUME ConstantsFit PROVE PlacementSpec => []PickFits
  OBVIOUS
<1>1. PlacementInit => PlacementInv
  <2> SUFFICES ASSUME PlacementInit PROVE PlacementInv
    OBVIOUS
  <2>1. Idle \in PickType /\ Idle.at = "idle"
    BY DEF Idle, PickType, ConstantsFit, Workers, Labels, Lanes, CorePrefs
  <2>2. PlacementTypeOK
    BY <2>1 DEF PlacementInit, PlacementTypeOK, PickType, ConstantsFit, Bands
  <2>3. \A p \in Pushers : PickOK(pick[p])
    BY <2>1 DEF PlacementInit, PickOK
  <2> QED BY <2>2, <2>3 DEF PlacementInv
<1>2. PlacementInv /\ [PlacementNext]_placementVars => PlacementInv'
  <2> SUFFICES ASSUME PlacementInv, [PlacementNext]_placementVars PROVE PlacementInv'
    OBVIOUS
  <2>1. CASE SetBands
    BY <2>1, SetBandsKeeps
  <2>2. CASE StepCursor
    <3>1. nextWorker' \in 0..(CursorWrap - 1) /\ UNCHANGED <<bands, nextHotWorker, streak, pick>>
      BY <2>2 DEF StepCursor, Bump, PlacementInv, PlacementTypeOK, ConstantsFit
    <3>2. PlacementTypeOK'
      BY <3>1 DEF PlacementInv, PlacementTypeOK
    <3>3. \A p \in Pushers : PickOK(pick[p])'
      BY <3>1 DEF PlacementInv, PickOK, Bracketed, LowLatency
    <3> QED BY <3>2, <3>3 DEF PlacementInv
  <2>3. ASSUME NEW p \in Pushers, Step(p) PROVE PlacementInv'
    BY <2>3, StepKeeps
  <2>4. CASE UNCHANGED placementVars
    BY <2>4 DEF placementVars, PlacementInv, PlacementTypeOK, PickOK, Bracketed, LowLatency
  <2> QED BY <2>1, <2>2, <2>3, <2>4 DEF PlacementNext
<1>3. PlacementInv => PickFits
  BY DEF PlacementInv, PickOK, PickFits, LowLatency
<1> QED BY <1>1, <1>2, <1>3, PTL DEF PlacementSpec
=============================================================================
