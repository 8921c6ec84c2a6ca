------------------------------- MODULE Event --------------------------------
(***************************************************************************)
(* Event: a table with one slot and one bit per fiber.  A waiter stores    *)
(* its task in its slot and sets its bit; SignalAll, SignalOne and         *)
(* CancelWaiters clear bits and take slots, word by word, with no lock.    *)
(* Every access to a bit or a slot is a step.                              *)
(*                                                                         *)
(* The bitmap has two words.  Requeueing is batched per call, as in the    *)
(* code; the buffer of 64 is larger than any set of fibers here.           *)
(***************************************************************************)
EXTENDS FiberSched, FiniteSets

CONSTANTS
  Cancellable,  \* the fibers whose task is in a scope that may be cancelled
  SecondWord,   \* the fibers whose bit is in the second word
  Signallers,   \* whoever calls SignalAll, SignalOne, CancelWaiters
  Null

VARIABLES
  slots,      \* fibers whose slot holds their task
  occupied,   \* fibers whose bit is set
  cancelled,  \* fibers whose task is cancelled, by scope or directly
  pc,
  act,        \* each signaller's call in progress
  swept       \* fibers that were cancelled when a finished CancelWaiters began

eventVars == <<slots, occupied, cancelled, pc, act, swept>>
vars == <<fiberVars, eventVars>>

Word(i) == IF i = 1 THEN Fibers \ SecondWord ELSE SecondWord

\* op: the call; word: the word it is at; bits: its snapshot of that word;
\* hand: the task it took and has not resumed; batch: resumed, not requeued;
\* owed: for SignalAll the registrations it found and nobody has taken yet,
\* for CancelWaiters the tasks that were cancelled when it began.
NoCall == [op |-> "none", word |-> 1, scanned |-> FALSE, bits |-> {},
           hand |-> Null, batch |-> {}, owed |-> {}]

Points == {"body", "slot", "bit", "check", "unbit", "claim", "switch"}

TypeOK ==
  /\ FiberTypeOK
  /\ slots \subseteq Fibers
  /\ occupied \subseteq Fibers
  /\ cancelled \subseteq Fibers
  /\ pc \in [Fibers -> Points]
  /\ act \in [Signallers ->
                [op : {"none", "all", "one", "cancel"}, word : 1..3,
                 scanned : BOOLEAN, bits : SUBSET Fibers,
                 hand : Fibers \cup {Null}, batch : SUBSET Fibers,
                 owed : SUBSET Fibers]]
  /\ swept \subseteq Fibers

Init ==
  /\ FiberInit
  /\ slots = {} /\ occupied = {} /\ cancelled = {}
  /\ pc = [f \in Fibers |-> "body"]
  /\ act = [s \in Signallers |-> NoCall]
  /\ swept = {}

\* f's registration is taken: no SignalAll owes it a wake any more.
Settle(calls, f) ==
  [s \in Signallers |->
     IF calls[s].op = "all" THEN [calls[s] EXCEPT !.owed = @ \ {f}] ELSE calls[s]]

\* Once its snapshot is used up, a call goes on to the next word.
Advance(call) ==
  IF call.hand = Null /\ call.bits = {}
  THEN [call EXCEPT !.word = @ + 1, !.scanned = FALSE]
  ELSE call

Goto(f, p) == pc' = [pc EXCEPT ![f] = p]
At(f, p) == pc[f] = p /\ OnCpu(f)

-----------------------------------------------------------------------------
(* WaitOnEvent *)

\* The table is reserved first; then the fiber becomes parkable.
WaitOnEvent(f) ==
  /\ At(f, "body")
  /\ status' = [status EXCEPT ![f] = "WANTS_SUSPEND"]
  /\ Goto(f, "slot")
  /\ UNCHANGED <<stack, queued, slots, occupied, cancelled, act, swept>>

\* AddWaiter: the slot, then the bit.
AddWaiterSlot(f) ==
  /\ At(f, "slot")
  /\ slots' = slots \cup {f}
  /\ Goto(f, "bit")
  /\ UNCHANGED <<fiberVars, occupied, cancelled, act, swept>>

AddWaiterBit(f) ==
  /\ At(f, "bit")
  /\ occupied' = occupied \cup {f}
  /\ Goto(f, "check")
  /\ UNCHANGED <<fiberVars, slots, cancelled, act, swept>>

\* Faulty variant: no look at the task after publishing.
RecheckNothing(f) ==
  /\ At(f, "check")
  /\ Goto(f, "switch")
  /\ UNCHANGED <<fiberVars, slots, occupied, cancelled, act, swept>>

\* The park-publish re-check.
RecheckCancelled(f) ==
  /\ At(f, "check")
  /\ Goto(f, IF f \in cancelled THEN "unbit" ELSE "switch")
  /\ UNCHANGED <<fiberVars, slots, occupied, cancelled, act, swept>>

\* SelfRemove: the bit, then the slot.  Winning the slot means no wake is
\* coming and the fiber must not park; losing it means one is.
SelfRemoveBit(f) ==
  /\ At(f, "unbit")
  /\ occupied' = occupied \ {f}
  /\ Goto(f, "claim")
  /\ UNCHANGED <<fiberVars, slots, cancelled, act, swept>>

SelfRemoveSlot(f) ==
  /\ At(f, "claim")
  /\ \/ /\ f \in slots
        /\ slots' = slots \ {f}
        /\ status' = [status EXCEPT ![f] = "RUNNING"]
        /\ act' = Settle(act, f)
        /\ Goto(f, "body")
     \/ /\ f \notin slots
        /\ Goto(f, "switch")
        /\ UNCHANGED <<slots, status, act>>
  /\ UNCHANGED <<stack, queued, occupied, cancelled, swept>>

SwitchAway(f) ==
  /\ At(f, "switch") /\ status[f] # "RUNNING"
  /\ SwitchOut(f)
  /\ UNCHANGED <<status, queued, eventVars>>

WaitReturns(f) ==
  /\ At(f, "switch") /\ status[f] = "RUNNING"
  /\ Goto(f, "body")
  /\ UNCHANGED <<fiberVars, slots, occupied, cancelled, act, swept>>

-----------------------------------------------------------------------------
(* SignalAll, SignalOne, CancelWaiters *)

Registered == {f \in slots \cap occupied : pc[f] # "body"}

Begin(s, op) ==
  /\ act[s] = NoCall
  /\ act' = [act EXCEPT ![s] = [NoCall EXCEPT !.op = op, !.owed =
               CASE op = "all" -> Registered
                 [] op = "cancel" -> cancelled
                 [] OTHER -> {}]]
  /\ UNCHANGED <<fiberVars, slots, occupied, cancelled, pc, swept>>

SignalAll(s) == Begin(s, "all")
SignalOne(s) == Begin(s, "one")
CancelWaiters(s) == Begin(s, "cancel")

Busy(s, ops) == act[s].op \in ops /\ act[s].hand = Null /\ act[s].word <= 2

\* Faulty variant: clears the whole bitmap, keeps the bits of one word.
ExchangeAll(s) ==
  /\ Busy(s, {"all"}) /\ ~act[s].scanned
  /\ LET bits == occupied \cap Word(act[s].word) IN
       act' = [act EXCEPT ![s] = Advance([@ EXCEPT !.scanned = TRUE, !.bits = bits])]
  /\ occupied' = {}
  /\ UNCHANGED <<fiberVars, slots, cancelled, pc, swept>>

\* SignalAll exchanges the word with 0.
ExchangeWord(s) ==
  /\ Busy(s, {"all"}) /\ ~act[s].scanned
  /\ LET bits == occupied \cap Word(act[s].word) IN
       /\ act' = [act EXCEPT ![s] =
                    Advance([@ EXCEPT !.scanned = TRUE, !.bits = bits])]
       /\ occupied' = occupied \ bits
  /\ UNCHANGED <<fiberVars, slots, cancelled, pc, swept>>

\* SignalOne and CancelWaiters only load it.
LoadWord(s) ==
  /\ Busy(s, {"one", "cancel"}) /\ ~act[s].scanned
  /\ LET bits == occupied \cap Word(act[s].word) IN
       act' = [act EXCEPT ![s] =
                 Advance([@ EXCEPT !.scanned = TRUE, !.bits = bits])]
  /\ UNCHANGED <<fiberVars, slots, occupied, cancelled, pc, swept>>

\* ... and claim one bit of the snapshot at a time; a bit that is no longer
\* set belongs to somebody else.
ClaimBit(s) ==
  /\ Busy(s, {"one", "cancel"}) /\ act[s].scanned
  /\ \E f \in act[s].bits :
       /\ act' = [act EXCEPT ![s] =
                    Advance([@ EXCEPT !.bits = @ \ {f},
                                      !.hand = IF f \in occupied THEN f ELSE Null])]
       /\ occupied' = occupied \ {f}
  /\ UNCHANGED <<fiberVars, slots, cancelled, pc, swept>>

\* SignalAll already owns the bits of its snapshot.
NextBit(s) ==
  /\ Busy(s, {"all"}) /\ act[s].scanned
  /\ \E f \in act[s].bits :
       act' = [act EXCEPT ![s].bits = @ \ {f}, ![s].hand = f]
  /\ UNCHANGED <<fiberVars, slots, occupied, cancelled, pc, swept>>

\* The requeue of everything the call has resumed.
Flush(S) ==
  queued' = [f \in Fibers |-> IF f \in S THEN queued[f] + 1 ELSE queued[f]]

\* TakeSlot, and for a task it yields: cancelledDirect (CancelWaiters),
\* ResumeQueueless, the batch.  SignalOne requeues at once and is done.
TakeSlotAndWake(s) ==
  /\ act[s].hand # Null
  /\ LET f == act[s].hand IN
     \/ /\ f \notin slots
        /\ act' = [act EXCEPT ![s] = Advance([@ EXCEPT !.hand = Null])]
        /\ UNCHANGED <<fiberVars, slots, cancelled>>
     \/ /\ f \in slots
        /\ slots' = slots \ {f}
        /\ cancelled' = IF act[s].op = "cancel" THEN cancelled \cup {f} ELSE cancelled
        /\ status' = [status EXCEPT ![f] = StatusAfterResume(@)]
        /\ stack' = stack
        /\ LET woken == IF ResumeRequeues(status[f]) THEN {f} ELSE {} IN
           \/ /\ act[s].op = "one"
              /\ Flush(woken)
              /\ act' = Settle([act EXCEPT ![s] = NoCall], f)
           \/ /\ act[s].op # "one"
              /\ queued' = queued
              /\ act' = Settle([act EXCEPT ![s] =
                    Advance([@ EXCEPT !.hand = Null, !.batch = @ \cup woken])], f)
  /\ UNCHANGED <<occupied, pc, swept>>

\* The end of the scan: SignalAll and CancelWaiters requeue their batch,
\* SignalOne returns false.
Finish(s) ==
  /\ act[s].word = 3
  /\ Flush(act[s].batch)
  /\ swept' = IF act[s].op = "cancel" THEN swept \cup act[s].owed ELSE swept
  /\ act' = [act EXCEPT ![s] = NoCall]
  /\ UNCHANGED <<status, stack, slots, occupied, cancelled, pc>>

\* scope.Cancel().
Cancel(f) ==
  /\ f \in Cancellable \ cancelled
  /\ cancelled' = cancelled \cup {f}
  /\ UNCHANGED <<fiberVars, slots, occupied, pc, act, swept>>

-----------------------------------------------------------------------------
Worker(f) == (Dispatch(f) \/ WorkerReturn(f)) /\ UNCHANGED eventVars

WaitStep(f) ==
  \/ AddWaiterSlot(f) \/ AddWaiterBit(f) \/ RecheckCancelled(f)
  \/ SelfRemoveBit(f) \/ SelfRemoveSlot(f) \/ SwitchAway(f) \/ WaitReturns(f)

CallStep(s) ==
  \/ ExchangeWord(s) \/ LoadWord(s) \/ ClaimBit(s) \/ NextBit(s)
  \/ TakeSlotAndWake(s) \/ Finish(s)

Next ==
  \/ \E f \in Fibers : WaitOnEvent(f) \/ WaitStep(f) \/ Worker(f) \/ Cancel(f)
  \/ \E s \in Signallers :
       SignalAll(s) \/ SignalOne(s) \/ CancelWaiters(s) \/ CallStep(s)

Spec == Init /\ [][Next]_vars

-----------------------------------------------------------------------------
\* A task is claimed once: it is in its slot or in one batch, and runs from
\* one queue.  The slot exchange arbitrates between SignalAll, SignalOne,
\* CancelWaiters and the waiter's own SelfRemove.
ClaimedOnce ==
  /\ RunsInOnePlace
  /\ \A f \in Fibers :
       LET batches == {s \in Signallers : f \in act[s].batch} IN
       /\ Cardinality(batches) <= 1
       /\ batches # {} => f \notin slots /\ queued[f] = 0 /\ stack[f] = "off"

\* A call that has cleared f's bit and has yet to take its slot.
HasClaimed(s, f) ==
  act[s].hand = f \/ (act[s].op = "all" /\ f \in act[s].bits)

Claimed(f) == \E s \in Signallers : HasClaimed(s, f)

\* A waiter that will sleep or sleeps can be found: its slot holds it and its
\* bit is set, about to be set, or was cleared by a call that has yet to take
\* the slot.
NoStrandedWaiter ==
  \A f \in Fibers :
    (pc[f] \notin {"body", "slot"} /\ status[f] \in {"WANTS_SUSPEND", "SUSPENDED"})
      => f \in slots /\ (f \in occupied \/ pc[f] \in {"bit", "claim"} \/ Claimed(f))

\* "REGISTERED BEFORE THE SIGNAL BEGAN IMPLIES WOKEN": when a SignalAll is
\* through its scan, every registration it found at its start has been taken
\* since, or its bit was cleared by another call, or by the waiter's own
\* SelfRemove, which will take it.
RegisteredIsWoken ==
  \A s \in Signallers :
    act[s].op = "all" /\ act[s].word = 3 => \A f \in act[s].owed : Claimed(f) \/ pc[f] = "claim"

\* Cancelling a task and then running CancelWaiters ends its wait: it is not
\* past its re-check with its slot in the table and no wake under way.
SweptNeverParks ==
  \A f \in swept \cap slots :
    pc[f] \in {"bit", "check", "unbit", "claim"} \/ Claimed(f)

\* "a stale snapshot would report "nobody waiting" while a waiter sat in the
\* table" (Event.h, SignalOne): SignalOne leaves a word only when no waiter is
\* registered in it.
SignalOneSeesWaiters ==
  [][\A s \in Signallers :
       act[s].op = "one" /\ act'[s].word > act[s].word
         => Registered \cap Word(act[s].word) = {}]_vars
=============================================================================
