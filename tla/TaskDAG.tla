------------------------------ MODULE TaskDAG ------------------------------
(***************************************************************************)
(* TaskDAG: a graph of task, main-thread, gate and external nodes is built *)
(* by one thread, checked for cycles and submitted; from then on finishing *)
(* nodes fire their dependents, on whatever thread they finish.            *)
(*                                                                         *)
(* OnTaskFinished is a walk over a node's edges, one edge to a step.  A    *)
(* walk may fire a gate or a cancelled node, whose own walk then runs      *)
(* inside it on the same thread.  A walk holds an EpochGuard, and at its   *)
(* end the node is retired: it can be freed when the walks that were under *)
(* way at that moment are over (the EpochManager's promise).               *)
(***************************************************************************)
EXTENDS Integers, FiniteSets, Relation

CONSTANTS
  Nodes,
  Shapes,       \* the kinds and gate types of the nodes, as records
  MaxEdges,     \* bound: AddDependency calls
  MayCancel     \* bound: whether anyone calls TaskDAG::Cancel

VARIABLES
  shape,         \* kind and gateType of every node
  edges,         \* {<<dependency, dependent, copy>>}: nothing dedups them
  sub,           \* Submit: "build", "firing", "submitted" or "rejected"
  roots,         \* the roots Submit has yet to fire
  left,          \* dependencies_left
  submitted,
  extBits,
  task,          \* where a node's task is
  walk,          \* the walks under way
  outcome,       \* how a node finished
  terminals,     \* how often it reached OnTaskFinished
  retired,       \* nodes handed to the EpochManager
  grace,         \* the walks it has to wait for
  cancelled, scopeCancelled

dagVars == <<left, submitted, extBits, task, walk, outcome, terminals, retired, grace>>
vars == <<shape, edges, sub, roots, dagVars, cancelled, scopeCancelled>>

Kinds == {"task", "main", "gate", "external"}
Callers == {"submit", "worker", "signal"}
NoWalk == [out |-> "none", rest |-> {}, from |-> "worker"]
Edges == Nodes \X Nodes \X (1..MaxEdges)

TypeOK ==
  /\ shape \in Shapes
  /\ edges \subseteq Edges /\ roots \subseteq Nodes /\ retired \subseteq Nodes
  /\ sub \in {"build", "firing", "submitted", "rejected"}
  /\ left \in [Nodes -> 0..MaxEdges]
  /\ submitted \in [Nodes -> BOOLEAN]
  /\ extBits \in [Nodes -> SUBSET {"EXT_ARMED", "EXT_SIGNALLED"}]
  /\ task \in [Nodes -> {"none", "held", "queued", "running", "finishing", "released"}]
  /\ outcome \in [Nodes -> {"none", "Completed", "Cancelled"}]
  /\ \A n \in Nodes :
       /\ walk[n].out \in {"none", "Completed", "Cancelled"}
       /\ walk[n].rest \subseteq Edges /\ walk[n].from \in Nodes \cup Callers
  /\ terminals \in [Nodes -> Nat] /\ grace \in [Nodes -> SUBSET Nodes]
  /\ cancelled \in BOOLEAN /\ scopeCancelled \in BOOLEAN

\* CreateNode, CreateMainNode, CreateGate, CreateExternalNode: nodes without
\* edges, a task held by the nodes that run one.
Init ==
  /\ shape \in Shapes
  /\ edges = {} /\ sub = "build" /\ roots = {}
  /\ left = [n \in Nodes |-> 0]
  /\ submitted = [n \in Nodes |-> FALSE]
  /\ extBits = [n \in Nodes |-> {}]
  /\ task = [n \in Nodes |-> IF shape.kind[n] \in {"task", "main"} THEN "held" ELSE "none"]
  /\ walk = [n \in Nodes |-> NoWalk]
  /\ outcome = [n \in Nodes |-> "none"]
  /\ terminals = [n \in Nodes |-> 0]
  /\ retired = {} /\ grace = [n \in Nodes |-> {}]
  /\ cancelled = FALSE /\ scopeCancelled = FALSE

-----------------------------------------------------------------------------
(* Building the graph, and the cycle check *)

Copies(dependency, dependent) == {e \in edges : e[1] = dependency /\ e[2] = dependent}

AddDependency(dependent, dependency) ==
  /\ sub = "build" /\ Cardinality(edges) < MaxEdges
  /\ edges' = edges \cup
       {<<dependency, dependent, Cardinality(Copies(dependency, dependent)) + 1>>}
  /\ left' = [left EXCEPT ![dependent] = @ + 1]
  /\ UNCHANGED <<shape, sub, roots, submitted, extBits, task, walk, outcome,
                 terminals, retired, grace, cancelled, scopeCancelled>>

\* Faulty variant: an edge given twice is counted down once.
DrainedDeduped ==
  LET after[k \in 0..Cardinality(Nodes)] ==
        IF k = 0 THEN {}
        ELSE {n \in Nodes : left[n] = Cardinality({p \in after[k - 1] : Copies(p, n) # {}})}
  IN after[Cardinality(Nodes)]

\* Kahn's algorithm, round by round: the nodes drained after k rounds.
Drained ==
  LET after[k \in 0..Cardinality(Nodes)] ==
        IF k = 0 THEN {}
        ELSE {n \in Nodes :
                left[n] = Cardinality({e \in edges : e[2] = n /\ e[1] \in after[k - 1]})}
  IN after[Cardinality(Nodes)]

HasCycle == Drained # Nodes

\* A graph with a cycle is given back: no node runs, every task is released.
Submit ==
  /\ sub = "build"
  /\ \/ /\ HasCycle
        /\ sub' = "rejected" /\ roots' = {}
        /\ task' = [n \in Nodes |-> IF task[n] = "held" THEN "released" ELSE task[n]]
     \/ /\ ~HasCycle
        /\ sub' = "firing" /\ roots' = {n \in Nodes : left[n] = 0}
        /\ task' = task
  /\ UNCHANGED <<shape, edges, left, submitted, extBits, walk, outcome, terminals,
                 retired, grace, cancelled, scopeCancelled>>

-----------------------------------------------------------------------------
(* Fire and OnTaskFinished *)

Active(n) == walk[n].out # "none"

\* A thread goes on with its walk when those inside it are over.
Free(from) == \A m \in Nodes : ~(Active(m) /\ walk[m].from = from)

\* Node d reaches OnTaskFinished; w is `walk` as the caller has left it.
Finish(d, out, from, w) ==
  /\ walk' = [w EXCEPT ![d] = [out |-> out, from |-> from,
                               rest |-> {e \in edges : e[1] = d}]]
  /\ outcome' = [outcome EXCEPT ![d] = out]
  /\ terminals' = [terminals EXCEPT ![d] = @ + 1]

NoFinish(w) == walk' = w /\ UNCHANGED <<outcome, terminals>>

\* A cancelled node never runs: its task is released (DisposeUnexecutedTask)
\* and its dependents are told.  A gate finishes at once, an external node is
\* armed and finishes if its signal came first, a task goes to the scheduler.
Fire(d, out, from, w) ==
  LET o == IF cancelled THEN "Cancelled" ELSE out
  IN \/ submitted[d] /\ UNCHANGED <<submitted, extBits, task>> /\ NoFinish(w)
     \/ /\ ~submitted[d]
        /\ submitted' = [submitted EXCEPT ![d] = TRUE]
        /\ \/ /\ o = "Cancelled"
              /\ task' = [task EXCEPT ![d] = IF @ = "held" THEN "released" ELSE @]
              /\ extBits' = extBits
              /\ Finish(d, "Cancelled", from, w)
           \/ /\ o = "Completed" /\ shape.kind[d] = "gate"
              /\ UNCHANGED <<extBits, task>>
              /\ Finish(d, "Completed", from, w)
           \/ /\ o = "Completed" /\ shape.kind[d] = "external"
              /\ extBits' = [extBits EXCEPT ![d] = @ \cup {"EXT_ARMED"}]
              /\ task' = task
              /\ IF "EXT_SIGNALLED" \in extBits[d]
                 THEN Finish(d, "Completed", from, w) ELSE NoFinish(w)
           \/ /\ o = "Completed" /\ shape.kind[d] \in {"task", "main"}
              /\ task' = [task EXCEPT ![d] = "queued"]
              /\ extBits' = extBits
              /\ NoFinish(w)

\* Submit's loop over the roots.
FireRoot(r) ==
  /\ sub = "firing" /\ r \in roots /\ Free("submit")
  /\ Fire(r, "Completed", "submit", walk)
  /\ roots' = roots \ {r}
  /\ UNCHANGED <<shape, edges, sub, left, retired, grace, cancelled, scopeCancelled>>

SubmitReturns ==
  /\ sub = "firing" /\ roots = {} /\ Free("submit")
  /\ sub' = "submitted"
  /\ UNCHANGED <<shape, edges, roots, dagVars, cancelled, scopeCancelled>>

\* One edge of the walk of n.  A cancelled node fires its dependents as
\* cancelled whatever their gate; an OR fires on any predecessor, an AND when
\* the countdown reaches zero.
WalkEdge(n) ==
  /\ Active(n) /\ Free(n)
  /\ \E e \in walk[n].rest :
       LET d == e[2]
           w == [walk EXCEPT ![n].rest = @ \ {e}]
           countsDown == walk[n].out = "Completed" /\ shape.gateType[d] = "AND"
       IN /\ left' = [left EXCEPT ![d] = IF countsDown THEN @ - 1 ELSE @]
          /\ \/ ~(countsDown /\ left'[d] # 0) /\ Fire(d, walk[n].out, n, w)
             \/ /\ countsDown /\ left'[d] # 0
                /\ UNCHANGED <<submitted, extBits, task>> /\ NoFinish(w)
  /\ UNCHANGED <<shape, edges, sub, roots, retired, grace, cancelled, scopeCancelled>>

\* The end of OnTaskFinished: the node is retired.  A worker then takes the
\* task off its WaitGroup.
WalkEnd(n) ==
  /\ Active(n) /\ Free(n) /\ walk[n].rest = {}
  /\ walk' = [walk EXCEPT ![n] = NoWalk]
  /\ task' = [task EXCEPT ![n] = IF @ = "finishing" THEN "released" ELSE @]
  /\ retired' = retired \cup {n}
  /\ grace' = [m \in Nodes |-> IF m = n THEN {k \in Nodes \ {n} : Active(k)}
                               ELSE grace[m] \ {n}]
  /\ UNCHANGED <<shape, edges, sub, roots, left, submitted, extBits, outcome,
                 terminals, cancelled, scopeCancelled>>

-----------------------------------------------------------------------------
(* The scheduler's side, external completions, Cancel *)

MainIsFree == \A m \in Nodes : ~(shape.kind[m] = "main" /\ task[m] \in {"running", "finishing"})

\* A worker, or the main thread in ProcessMainThread, runs the task.
Run(n) ==
  /\ task[n] = "queued" /\ ~scopeCancelled
  /\ shape.kind[n] = "main" => MainIsFree
  /\ task' = [task EXCEPT ![n] = "running"]
  /\ UNCHANGED <<shape, edges, sub, roots, left, submitted, extBits, walk, outcome,
                 terminals, retired, grace, cancelled, scopeCancelled>>

\* Faulty variant: the WaitGroup is decremented before the dependents are told.
OnTaskFinishedEarly(n) ==
  /\ task[n] = "running"
  /\ task' = [task EXCEPT ![n] = "released"]
  /\ Finish(n, "Completed", "worker", walk)
  /\ UNCHANGED <<shape, edges, sub, roots, left, submitted, extBits, retired, grace,
                 cancelled, scopeCancelled>>

\* OnTaskFinishedWrapper: the body has returned.
OnTaskFinishedWrapper(n) ==
  /\ task[n] = "running"
  /\ task' = [task EXCEPT ![n] = "finishing"]
  /\ Finish(n, "Completed", "worker", walk)
  /\ UNCHANGED <<shape, edges, sub, roots, left, submitted, extBits, retired, grace,
                 cancelled, scopeCancelled>>

\* Faulty variant: the task is thrown away and its node forgotten.
DiscardSilently(n) ==
  /\ task[n] = "queued" /\ scopeCancelled
  /\ shape.kind[n] = "main" => MainIsFree
  /\ task' = [task EXCEPT ![n] = "released"]
  /\ UNCHANGED <<shape, edges, sub, roots, left, submitted, extBits, walk, outcome,
                 terminals, retired, grace, cancelled, scopeCancelled>>

\* DiscardIfCancelled: a task cancelled before it was picked up is thrown
\* away, and OnTaskDiscarded finishes its node.
DiscardIfCancelled(n) ==
  /\ task[n] = "queued" /\ scopeCancelled
  /\ shape.kind[n] = "main" => MainIsFree
  /\ task' = [task EXCEPT ![n] = "finishing"]
  /\ Finish(n, "Cancelled", "worker", walk)
  /\ UNCHANGED <<shape, edges, sub, roots, left, submitted, extBits, retired, grace,
                 cancelled, scopeCancelled>>

\* Once for each external node of a graph that was submitted.
SignalExternal(n) ==
  /\ sub \in {"firing", "submitted"} /\ shape.kind[n] = "external"
  /\ "EXT_SIGNALLED" \notin extBits[n]
  /\ extBits' = [extBits EXCEPT ![n] = @ \cup {"EXT_SIGNALLED"}]
  /\ IF "EXT_ARMED" \in extBits[n]
     THEN Finish(n, "Completed", "signal", walk) ELSE NoFinish(walk)
  /\ UNCHANGED <<shape, edges, sub, roots, left, submitted, task, retired, grace,
                 cancelled, scopeCancelled>>

\* The flag that Fire reads, then the scope every task carries.
Cancel ==
  /\ MayCancel /\ sub \in {"firing", "submitted"}
  /\ \/ ~cancelled /\ cancelled' = TRUE /\ scopeCancelled' = scopeCancelled
     \/ cancelled /\ ~scopeCancelled /\ scopeCancelled' = TRUE /\ cancelled' = cancelled
  /\ UNCHANGED <<shape, edges, sub, roots, dagVars>>

-----------------------------------------------------------------------------
NodeStep(n) ==
  \/ WalkEdge(n) \/ WalkEnd(n)
  \/ Run(n) \/ OnTaskFinishedWrapper(n) \/ DiscardIfCancelled(n)
  \/ SignalExternal(n)

SubmitStep == SubmitReturns \/ \E r \in roots : FireRoot(r)

Next ==
  \/ \E d, p \in Nodes : AddDependency(d, p)
  \/ Submit \/ SubmitStep
  \/ \E n \in Nodes : NodeStep(n)
  \/ Cancel

Spec == Init /\ [][Next]_vars

-----------------------------------------------------------------------------
\* A node reaches OnTaskFinished once: seven call sites, no guard, and Fire's
\* exchange of `submitted` covers dispatch only.
TerminalOnce == \A n \in Nodes : terminals[n] <= 1

\* Submit turns down the graphs that have a cycle and no others.
RejectsCycles ==
  LET E == [a, b \in Nodes |-> Copies(a, b) # {}]
      reaches == TransitiveClosure(E, Nodes)
      cyclic == \E n \in Nodes : reaches[n, n]
  IN /\ sub = "rejected" => cyclic
     /\ sub = "firing" /\ TRUE \notin {submitted[n] : n \in Nodes} => ~cyclic

\* A task is dispatched when it is due: after all its dependencies, or one
\* for an OR, and with no cancelled one among those that decided it.
DispatchedWhenDue ==
  \A n \in Nodes :
    LET before == {e[1] : e \in {f \in edges : f[2] = n}}
    IN task[n] \in {"queued", "running"} /\ before # {} =>
         IF shape.gateType[n] = "AND"
         THEN \A p \in before : outcome[p] = "Completed"
         ELSE \E p \in before : outcome[p] = "Completed"

\* "Waiting on a WaitGroup covering every task in the graph IS sufficient": if
\* no external node takes part and nobody cancels, no walk is under way any
\* more when the last task is off its WaitGroup.
QuietAfterWait ==
  LET tasks == {n \in Nodes : shape.kind[n] \in {"task", "main"}}
  IN /\ sub = "submitted" /\ ~cancelled
     /\ tasks # {} /\ \A n \in tasks : task[n] = "released"
     /\ \A n \in Nodes : shape.kind[n] # "external"
     => \A n \in Nodes : ~Active(n)

\* "EBR keeps it alive until no such reader can still see it": no walk has an
\* edge left to a node that may have been freed.
WalkSeesLiveNodes ==
  \A n \in Nodes : \A e \in walk[n].rest : ~(e[2] \in retired /\ grace[e[2]] = {})

\* That holds where every node waits for all its predecessors.
WalkSeesLiveAndNodes ==
  (\A n \in Nodes : shape.gateType[n] = "AND") /\ ~cancelled => WalkSeesLiveNodes

\* No graph hangs: when nothing is left to do for the scheduler, the walks, the
\* main thread or the outside work, every node of a submitted graph has
\* finished, cancelled or not.
NoZombie ==
  /\ sub = "submitted"
  /\ \A n \in Nodes :
       /\ ~Active(n) /\ task[n] \notin {"queued", "running", "finishing"}
       /\ shape.kind[n] = "external" => "EXT_SIGNALLED" \in extBits[n]
  => \A n \in Nodes : terminals[n] > 0
=============================================================================
