--------------------------- MODULE MCStructures ----------------------------
(***************************************************************************)
(* Structures threads share without a lock, for TLC: the inbox queue, the  *)
(* work-stealing deque, the table of cancellation scopes and the task      *)
(* graph.  The initial state chooses one of Parts and the behaviour is     *)
(* that structure's.                                                       *)
(***************************************************************************)
EXTENDS Integers, FiniteSets, TLC

CONSTANTS
  Parts,
  Producers, Tasks, Consumer, Stub, Null, MaxPushes,
  Thieves, InitCapacity, MaxPush, MaxBatch,
  Owners, Readers, NumSlots, GenMod, MaxDepth, MaxScopes,
  d1, d2, d3, Shapes, MaxEdges, MayCancel

ASSUME StructuresAssumption ==
  /\ Stub \notin Tasks /\ Null \notin Tasks /\ Null # Stub
  /\ Consumer \notin Producers
  /\ {InitCapacity, MaxBatch, NumSlots, GenMod, MaxDepth} \subseteq Nat \ {0}

VARIABLES
  part,
  next, head, tail, link, pc, order, popped,                            \* queue
  top, bottom, ring, slots, owner, thief, pushed, taken,                \* deque
  gen, flag, parent, nextFree, freeHead, own, rd, scope, live, asked,   \* token
  shape, edges, sub, roots, left, submitted, extBits, task, walk,       \* dag
  outcome, terminals, retired, grace, cancelled, scopeCancelled

queueVars == <<next, head, tail, link, pc, order, popped>>
dequeVars == <<top, bottom, ring, slots, owner, thief, pushed, taken>>
tokenVars == <<gen, flag, parent, nextFree, freeHead, own, rd, scope, live, asked>>
dagVars == <<shape, edges, sub, roots, left, submitted, extBits, task, walk,
             outcome, terminals, retired, grace, cancelled, scopeCancelled>>
vars == <<part, queueVars, dequeVars, tokenVars, dagVars>>

Queue == INSTANCE TaskMPSCQueue
Deque == INSTANCE TaskDeque
Token == INSTANCE CancelToken
Dag == INSTANCE TaskDAG WITH Nodes <- {d1, d2, d3}

Init ==
  /\ part \in Parts
  /\ Queue!Init /\ Deque!Init /\ Token!Init /\ Dag!Init
  /\ part # "dag" => shape = CHOOSE s \in Shapes : TRUE

QueueDoes(A) == part = "queue" /\ A /\ UNCHANGED <<part, dequeVars, tokenVars, dagVars>>
DequeDoes(A) == part = "deque" /\ A /\ UNCHANGED <<part, queueVars, tokenVars, dagVars>>
TokenDoes(A) == part = "token" /\ A /\ UNCHANGED <<part, queueVars, dequeVars, dagVars>>
DagDoes(A) == part = "dag" /\ A /\ UNCHANGED <<part, queueVars, dequeVars, tokenVars>>

Next ==
  \/ QueueDoes(Queue!Next) \/ DequeDoes(Deque!Next)
  \/ TokenDoes(Token!Next) \/ DagDoes(Dag!Next)

Spec == Init /\ [][Next]_vars

\* Nodes d1, d2, d3 of the given kinds and gates.
Of(a, b, c) == (d1 :> a) @@ (d2 :> b) @@ (d3 :> c)
ShapesOf(kinds, gates) == [kind : kinds, gateType : gates]

MCShapes ==
  ShapesOf({Of("task", "task", "task"), Of("task", "external", "task")},
           {Of("AND", "AND", "AND"), Of("AND", "AND", "OR")})
    \cup ShapesOf({Of("task", "gate", "main")}, {Of("AND", "OR", "AND")})

Symmetry == Permutations(Owners)

-----------------------------------------------------------------------------
TypeOK ==
  CASE part = "queue" -> Queue!TypeOK
    [] part = "deque" -> Deque!TypeOK
    [] part = "token" -> Token!TypeOK
    [] part = "dag"   -> Dag!TypeOK

\* TaskMPSCQueue: tasks come out in the order of their pushes, each once; a pop
\* that finds the queue empty while no push is half done has found all; and
\* when quiescent() lets the owner park, nothing pushed is left behind, half
\* done pushes included.  TaskDeque: no task is taken twice, none made up, and
\* none lost when the ring grows or the owner races a thief for the last one.
\* (The state of whichever structure runs is of its type besides.)
TasksDelivered ==
  /\ TypeOK
  /\ part = "queue" => Queue!InOrder /\ Queue!EmptyIsDrained /\ Queue!QuiescentIsDrained
  /\ part = "deque" => Deque!TakenOnce /\ Deque!NothingLost

\* CancelScope: a slot has one tenant at a time, and a late CancelVia cancels
\* its own scope or nothing.  CancelToken::Cancelled: over a chain none of whose
\* scopes is destroyed while it walks, it misses no cancellation made before
\* and reports no stranger's.
ScopesKeptApart ==
  part = "token" => Token!OneTenant /\ Token!CancelsOnlyItsScope /\ Token!CancelledIsRight

\* TaskDAG: a node reaches OnTaskFinished at most once, and no submitted graph
\* hangs, cancelled or not.
DagEnds == part = "dag" => Dag!TerminalOnce /\ Dag!NoZombie

\* TaskDAG: Submit rejects the graphs with a cycle and no others; what it
\* accepts runs each task when its dependencies allow.
DagRunsInOrder == part = "dag" => Dag!RejectsCycles /\ Dag!DispatchedWhenDue

\* TaskDAG: with AND nodes only and nobody cancelling, no walk meets a node
\* that may be freed; without external nodes, the WaitGroup of all tasks
\* outlasts the last walk.
DagNodesOutlast == part = "dag" => Dag!WalkSeesLiveAndNodes /\ Dag!QuietAfterWait

\* TaskDAG, the comment at the end of OnTaskFinished: "EBR keeps it alive until
\* no such reader can still see it".
DagWalkSeesLiveNodes == part = "dag" => Dag!WalkSeesLiveNodes
=============================================================================
