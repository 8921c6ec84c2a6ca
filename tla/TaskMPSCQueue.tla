--------------------------- MODULE TaskMPSCQueue ---------------------------
(***************************************************************************)
(* The intrusive multi-producer, single-consumer queue behind every inbox  *)
(* (include/TaskMPSCQueue.h).  A push is an exchange of head_ and a later  *)
(* link from the previous head; between the two the chain is broken and    *)
(* pop sees nothing behind the gap.  The stub node is put back into the    *)
(* chain whenever pop would take the last node.                            *)
(*                                                                         *)
(* Tasks are nodes: one that was popped may be pushed again.               *)
(***************************************************************************)
EXTENDS Sequences, SequencesExt

CONSTANTS
  Producers,
  Tasks,
  Consumer,
  Stub,
  Null,
  MaxPushes    \* bound: tasks pushed in all

VARIABLES
  next,     \* Task::next of every node
  head,     \* head_
  tail,     \* tail_, the consumer's own
  link,     \* per actor: the append it has begun, prev and the first new node
  pc,       \* where in pop the consumer is
  order,    \* the tasks pushed, in the order of their exchanges of head_
  popped    \* the tasks popped

vars == <<next, head, tail, link, pc, order, popped>>

Nodes == Tasks \cup {Stub}
Actors == Producers \cup {Consumer}
NoLink == <<>>

TypeOK ==
  /\ next \in [Nodes -> Nodes \cup {Null}]
  /\ head \in Nodes /\ tail \in Nodes
  /\ \A a \in Actors : link[a] = NoLink \/ link[a] \in Nodes \X Nodes
  /\ pc \in {"idle", "second", "head", "append", "linked", "again"}
  /\ ToSet(order) \subseteq Tasks /\ ToSet(popped) \subseteq Tasks

Init ==
  /\ next = [n \in Nodes |-> Null]
  /\ head = Stub /\ tail = Stub
  /\ link = [a \in Actors |-> NoLink]
  /\ pc = "idle"
  /\ order = <<>> /\ popped = <<>>

-----------------------------------------------------------------------------
\* Not in the queue: never pushed, or popped as often as pushed.
Free(t) ==
  Len(SelectSeq(order, LAMBDA u : u = t)) = Len(SelectSeq(popped, LAMBDA u : u = t))

\* The chain `first .. last` is ended with null and head_ exchanged for its
\* last node; prev is linked to it later.
Exchange(a, first, last) ==
  /\ link[a] = NoLink
  /\ head' = last
  /\ link' = [link EXCEPT ![a] = <<head, first>>]

push(p, t) ==
  /\ Free(t) /\ Len(order) < MaxPushes
  /\ next' = [next EXCEPT ![t] = Null]
  /\ Exchange(p, t, t)
  /\ order' = Append(order, t)
  /\ UNCHANGED <<tail, pc, popped>>

\* The batch is chained by its producer before the exchange.
push_batch(p, s, t) ==
  /\ s # t /\ Free(s) /\ Free(t) /\ Len(order) + 1 < MaxPushes
  /\ next' = [next EXCEPT ![s] = t, ![t] = Null]
  /\ Exchange(p, s, t)
  /\ order' = order \o <<s, t>>
  /\ UNCHANGED <<tail, pc, popped>>

\* prev->next = first.
Link(a) ==
  /\ link[a] # NoLink
  /\ next' = [next EXCEPT ![link[a][1]] = link[a][2]]
  /\ link' = [link EXCEPT ![a] = NoLink]
  /\ UNCHANGED <<head, tail, pc, order, popped>>

-----------------------------------------------------------------------------
(* pop, from load to load *)

\* The next node is known: the tail is returned.
TakeTail ==
  /\ next[tail] # Null
  /\ popped' = Append(popped, tail)
  /\ tail' = next[tail]
  /\ pc' = "idle"

GiveUp == pc' = "idle" /\ UNCHANGED <<tail, popped>>

\* The first look: an empty queue, the stub to be stepped over, the tail, or
\* a tail without a successor.
PopBegin ==
  /\ pc = "idle"
  /\ \/ tail = Stub /\ next[tail] = Null /\ GiveUp
     \/ /\ tail = Stub /\ next[tail] # Null
        /\ tail' = next[tail] /\ pc' = "second" /\ popped' = popped
     \/ tail # Stub /\ TakeTail
     \/ tail # Stub /\ next[tail] = Null /\ pc' = "head" /\ UNCHANGED <<tail, popped>>
  /\ UNCHANGED <<next, head, link, order>>

PopSecond ==
  /\ pc = "second"
  /\ \/ TakeTail
     \/ next[tail] = Null /\ pc' = "head" /\ UNCHANGED <<tail, popped>>
  /\ UNCHANGED <<next, head, link, order>>

\* A push is under way behind the tail: nothing to take yet.
PopHead ==
  /\ pc = "head"
  /\ \/ tail # head /\ GiveUp
     \/ tail = head /\ pc' = "append" /\ UNCHANGED <<tail, popped>>
  /\ UNCHANGED <<next, head, link, order>>

\* append(stub_); its link is the consumer's own next step.
PopAppendStub ==
  /\ pc = "append"
  /\ next' = [next EXCEPT ![Stub] = Null]
  /\ Exchange(Consumer, Stub, Stub)
  /\ pc' = "linked"
  /\ UNCHANGED <<tail, order, popped>>

PopLinked ==
  /\ pc = "linked" /\ link[Consumer] = NoLink
  /\ pc' = "again"
  /\ UNCHANGED <<next, head, tail, link, order, popped>>

PopAgain ==
  /\ pc = "again"
  /\ TakeTail \/ (next[tail] = Null /\ GiveUp)
  /\ UNCHANGED <<next, head, link, order>>

Pop == PopBegin \/ PopSecond \/ PopHead \/ PopAppendStub \/ PopLinked \/ PopAgain

Next ==
  \/ \E p \in Producers, t \in Tasks :
       push(p, t) \/ \E s \in Tasks : push_batch(p, s, t)
  \/ \E a \in Actors : Link(a)
  \/ Pop

Spec == Init /\ [][Next]_vars

-----------------------------------------------------------------------------
\* Tasks come out in the order their pushes exchanged head_, each once.
InOrder == IsPrefix(popped, order)

\* quiescent(), as the owner asks it between two pops.
quiescent == pc = "idle" /\ tail = Stub /\ next[tail] = Null /\ head = tail

\* The park gate's question: when quiescent() says yes nothing that was
\* pushed is still in the queue, pushes that are half done included.
QuiescentIsDrained == quiescent => popped = order

\* Nothing stays behind: once no push is half done, a pop that finds the queue
\* empty has found everything.
EmptyIsDrained ==
  /\ pc = "idle" /\ \A a \in Actors : link[a] = NoLink
  /\ tail = Stub /\ next[tail] = Null
  => popped = order
=============================================================================
